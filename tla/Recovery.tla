------------------------------ MODULE Recovery ------------------------------
(***************************************************************************)
(* One node, its log and its state machines, write by write: an execution  *)
(* of KVSM (app/kvsm.hpp) writes the value and then the checkpoint, CPID,  *)
(* and the process can stop between any two writes.  InstanceImpl::Init    *)
(* then replays the log (src/instance.cpp, src/statemachinemgr.cpp).  Any  *)
(* number of machines may have been added.                                 *)
(*                                                                         *)
(* The values are ones that KVSM can parse, its database does not fail,    *)
(* and a LEARN finds an accepted record: Instance has the other cases.     *)
(***************************************************************************)
EXTENDS Integers, SequencesExt, FiniteSetsExt

CONSTANTS
  Value,          \* the values proposed
  None,           \* no record in the log
  Promised,       \* a record in which nothing is accepted
  MaxMachines,    \* bound: state machines added
  MaxInst,        \* bound: the last instance
  MaxCrashes      \* bound: crashes

ASSUME RecordAssumption == None \notin Value /\ Promised \notin Value /\ None # Promised

ASSUME BoundAssumption == MaxMachines \in Nat /\ MaxInst \in Nat /\ MaxCrashes \in Nat

VARIABLES
  count,     \* the length of m_vecpSM
  rec,       \* rec[i]: the record of instance i
  done,      \* done[m]: the values that machine m has written, with their instances
  cp,        \* cp[m]: its checkpoint, 0 when there is none
  phase,     \* what the process is at
  inst,      \* the instance the roles are in
  from,      \* ddwCPInstanceId of Init
  id,        \* the loop variable of Init
  doing,     \* the execution under way, as a sequence of at most one
  crashes

log == <<rec, done, cp>>

vars == <<count, log, phase, inst, from, id, doing, crashes>>

Inst == 0 .. MaxInst

Machine == 1 .. MaxMachines

\* UINT64_MAX: no instance reaches it.
Top == MaxInst + 2

Execution == [id : Inst, value : Value]

TypeOK ==
  /\ count \in 0 .. MaxMachines
  /\ rec \in [Inst -> Value \cup {None, Promised}]
  /\ done \in [Machine -> Seq(Execution)] /\ cp \in [Machine -> Inst]
  /\ phase \in {"down", "replaying", "running", "aborted"}
  /\ inst \in 0 .. MaxInst + 1
  /\ from \in Inst \cup {Top} /\ id \in 0 .. Top
  /\ doing \in {<<>>} \cup [1 .. 1 -> [machine : Machine, id : Inst, value : Value,
                                      written : BOOLEAN]]
  /\ crashes \in 0 .. MaxCrashes

Init ==
  /\ count \in 0 .. MaxMachines
  /\ rec = [i \in Inst |-> None]
  /\ done = [m \in Machine |-> <<>>] /\ cp = [m \in Machine |-> 0]
  /\ phase = "down"
  /\ inst = 0 /\ from = 0 /\ id = 0 /\ doing = <<>> /\ crashes = 0
-----------------------------------------------------------------------------
(* StateMachineMgr and KVSM. *)

\* Wrong: the checkpoint of an instance is the instance before it.
CheckpointBefore(i) == IF i = 0 THEN 0 ELSE i - 1

\* Wrong: it is the next instance to execute.
CheckpointAfter(i) == i + 1

CheckpointOf(i) == i

\* Wrong: the checkpoint is written before the value.
CheckpointFirst == <<"checkpoint", "value">>

Writes == <<"value", "checkpoint">>

Begin(m, i, v) == doing' = <<[machine |-> m, id |-> i, value |-> v, written |-> FALSE]>>

\* Execute runs the first machine, whatever the id asked for.
Execute(i, v) == count > 0 /\ Begin(1, i, v)

Lagging(i) == {m \in 1 .. count : cp[m] < i}

\* ExecuteForReplay: the first machine that is behind.  Without one it returns -1,
\* and the assertion of Init fails.
ExecuteForReplay(i, v) ==
  IF Lagging(i) = {} THEN phase' = "aborted" /\ UNCHANGED doing
  ELSE Begin(Min(Lagging(i)), i, v) /\ UNCHANGED phase

GetCheckpointMinInstanceID == Min({Top} \cup {cp[m] : m \in 1 .. count})

Write(what, e) ==
  IF what = "value"
    THEN /\ done' = [done EXCEPT ![e.machine] = Append(@, [id |-> e.id, value |-> e.value])]
         /\ UNCHANGED cp
    ELSE cp' = [cp EXCEPT ![e.machine] = CheckpointOf(e.id)] /\ UNCHANGED done

FirstWrite ==
  /\ doing # <<>> /\ ~doing[1].written
  /\ Write(Writes[1], doing[1])
  /\ doing' = [doing EXCEPT ![1].written = TRUE]
  /\ UNCHANGED <<count, rec, phase, inst, from, id, crashes>>

\* Once the machine has executed, the roles go to the next instance: NewInstance in
\* OnLearnerMessage and at the end of Init.  The loop of Init goes on.
SecondWrite ==
  /\ doing # <<>> /\ doing[1].written
  /\ Write(Writes[2], doing[1])
  /\ doing' = <<>>
  /\ IF phase = "replaying" /\ id = doing[1].id
       THEN id' = id + 1 /\ UNCHANGED <<phase, inst>>
       ELSE inst' = doing[1].id + 1 /\ phase' = "running" /\ UNCHANGED id
  /\ UNCHANGED <<count, rec, from, crashes>>
-----------------------------------------------------------------------------
(* InstanceImpl::Init. *)

\* The last key of the store, 0 when it is empty.
GetMaxInstanceId == Max({0} \cup {i \in Inst : rec[i] # None})

Start ==
  /\ phase = "down"
  /\ phase' = "replaying"
  /\ from' = GetCheckpointMinInstanceID
  /\ id' = (from' + 1) % (Top + 1)
  /\ UNCHANGED <<count, log, inst, doing, crashes>>

\* One turn of the loop, which loads the last record for every instance.
ReplayLog ==
  /\ phase = "replaying" /\ doing = <<>>
  /\ id < GetMaxInstanceId
  /\ LET record == rec[GetMaxInstanceId] IN
       IF record \in Value THEN ExecuteForReplay(id, record)
       ELSE phase' = "aborted" /\ UNCHANGED doing
  /\ UNCHANGED <<count, log, inst, from, id, crashes>>

\* After the loop: the last record is executed unless the checkpoint has it.
ReplayLast ==
  /\ phase = "replaying" /\ doing = <<>>
  /\ id >= GetMaxInstanceId
  /\ LET last == GetMaxInstanceId IN
       IF rec[last] \in Value /\ from < last
         THEN ExecuteForReplay(last, rec[last]) /\ id' = last + 1 /\ UNCHANGED inst
         ELSE /\ inst' = IF rec[last] \in Value THEN last + 1 ELSE last
              /\ phase' = "running"
              /\ UNCHANGED <<doing, id>>
  /\ UNCHANGED <<count, log, from, crashes>>
-----------------------------------------------------------------------------
(* The event loop, as far as the log and the machines see it. *)

Idle == phase = "running" /\ doing = <<>> /\ inst <= MaxInst

Promise ==
  /\ Idle
  /\ rec[inst] = None
  /\ rec' = [rec EXCEPT ![inst] = Promised]
  /\ UNCHANGED <<count, done, cp, phase, inst, from, id, doing, crashes>>

\* The accepter accepts, or the learner copies a record.
Accept(v) ==
  /\ Idle
  /\ rec' = [rec EXCEPT ![inst] = v]
  /\ UNCHANGED <<count, done, cp, phase, inst, from, id, doing, crashes>>

Learn ==
  /\ Idle
  /\ rec[inst] \in Value
  /\ Execute(inst, rec[inst])
  /\ UNCHANGED <<count, log, phase, inst, from, id, crashes>>

Crash ==
  /\ phase \in {"replaying", "running"}
  /\ crashes < MaxCrashes
  /\ crashes' = crashes + 1
  /\ phase' = "down" /\ doing' = <<>>
  /\ UNCHANGED <<count, log, inst, from, id>>

Next ==
  \/ Start \/ ReplayLog \/ ReplayLast \/ FirstWrite \/ SecondWrite
  \/ Promise \/ (\E v \in Value : Accept(v)) \/ Learn \/ Crash

Spec == Init /\ [][Next]_vars
-----------------------------------------------------------------------------
(* Properties. *)

\* However often the process stops between the two writes of an execution, the
\* first machine executes the log in order and skips nothing, from instance 1 on
\* (of instance 0 the checkpoint cannot tell whether it was executed).  It can
\* execute an instance again, with the same value, before any later one.
FirstMachineFollowsLog ==
  count > 0 =>
    /\ \A k \in DOMAIN done[1] :
         \/ k = 1 /\ done[1][k].id <= 1
         \/ k > 1 /\ (done[1][k] = done[1][k - 1] \/ done[1][k].id = done[1][k - 1].id + 1)
    /\ phase = "running" =>
         \A i \in 1 .. (inst - 1) : Contains(done[1], [id |-> i, value |-> rec[i]])

\* The assertions of Init hold whenever the process stopped, when there is one
\* machine: its checkpoint is never so far behind that the loop, which loads the
\* wrong record, runs at all, and never beyond the log.  (With no machine, or
\* with two, of which Execute runs the first only, Init does abort.)
OneMachineRestarts == count = 1 => phase # "aborted"
=============================================================================
