---------------------------- MODULE RecoveryProofs ---------------------------
(***************************************************************************)
(* Proofs about Recovery: wherever the process stops, the first machine    *)
(* is at most one execution behind its log, and that execution is the one  *)
(* InstanceImpl::Init repeats.                                             *)
(***************************************************************************)
EXTENDS Recovery, Lemmas

LastInst == GetMaxInstanceId

Run == done[1]

LastRun == Run[Len(Run)]

\* No gap in the log: the roles leave an instance when its value is accepted.
LogWithoutGaps == \A i \in Inst : i < LastInst => rec[i] \in Value

Consecutive ==
  \A k \in DOMAIN Run :
    \/ k = 1 /\ Run[k].id <= 1
    \/ k > 1 /\ (Run[k] = Run[k - 1] \/ Run[k].id = Run[k - 1].id + 1)

\* The log is at most one instance ahead of the checkpoint, and the machine at
\* most one execution.
CheckpointNearEnd ==
  /\ cp[1] <= LastInst /\ LastInst <= cp[1] + 1
  /\ \A i \in 1 .. cp[1] : Contains(Run, [id |-> i, value |-> rec[i]])
  /\ Run = <<>> => cp[1] = 0
  /\ Run # <<>> => /\ LastRun.id \in {cp[1], cp[1] + 1}
                     /\ LastRun.id <= LastInst
                     /\ LastRun.value = rec[LastRun.id]

\* The execution under way is of the machine's next instance.
ExecutesNext(i) ==
  /\ doing[1].machine = 1 /\ doing[1].id = i /\ doing[1].value = rec[i]
  /\ doing[1].written => Run # <<>> /\ LastRun = [id |-> i, value |-> rec[i]]

NotBegun == Run = <<>> \/ LastRun.id < inst

WhileRunning ==
  phase = "running" =>
    /\ cp[1] = IF inst = 0 THEN 0 ELSE inst - 1
    /\ \A i \in Inst : (i < inst => rec[i] \in Value) /\ (i > inst => rec[i] = None)
    /\ doing = <<>> \/ ~doing[1].written => NotBegun
    /\ doing # <<>> => inst \in Inst /\ ExecutesNext(inst)

\* Replaying: what the loop runs are other machines, which are behind.
WhileReplaying ==
  phase = "replaying" =>
    /\ from <= cp[1] /\ from < id /\ (count = 1 => from = cp[1])
    /\ doing # <<>> =>
         /\ rec[LastInst] \in Value
         /\ \/ doing[1].machine \in 2 .. count /\ id = doing[1].id /\ id < LastInst
            \/ doing[1].machine \in 2 .. count /\ id = LastInst + 1 /\ doing[1].id = LastInst /\ cp[1] = LastInst
            \/ id = LastInst + 1 /\ cp[1] + 1 = LastInst /\ ExecutesNext(LastInst)

FirstMachineInv ==
  /\ LogWithoutGaps /\ Consecutive /\ CheckpointNearEnd
  /\ WhileRunning /\ WhileReplaying
  /\ count = 1 => phase # "aborted"

IInv ==
  /\ TypeOK
  /\ doing # <<>> => count > 0 /\ phase \in {"running", "replaying"}
  /\ count > 0 => FirstMachineInv
-----------------------------------------------------------------------------
(* The extremes that the code looks for. *)

\* GetMaxInstanceId is the last key, or 0 when the store is empty.
LEMMA LastKey ==
  ASSUME NEW r
  PROVE  LET last == Max({0} \cup {i \in Inst : r[i] # None}) IN
         /\ last \in Inst
         /\ last = 0 \/ r[last] # None
         /\ \A i \in Inst : i > last => r[i] = None
<1> DEFINE S == {0} \cup {i \in Inst : r[i] # None}
<1>1. Inst \subseteq Nat /\ 0 \in Inst /\ IsFiniteSet(Inst)
  BY BoundAssumption, FS_Interval DEF Inst
<1>2. S \in SUBSET Nat /\ S # {} /\ S \subseteq Inst
  BY <1>1
<1>3. IsFiniteSet(S)
  BY <1>1, <1>2, FS_Subset
<1> HIDE DEF S
<1>4. PICK m \in S : \A i \in S : i <= m
  BY <1>2, <1>3, MaximumExists
<1>5. \A i \in S : m >= i
  BY <1>2, <1>4
<1>6. Max(S) \in S /\ \A i \in S : Max(S) >= i
  BY <1>4, <1>5 DEF Max
<1> DEFINE last == Max(S)
<1> HIDE DEF last
<1>7. last \in S /\ \A i \in S : last >= i
  BY <1>6 DEF last
<1>8. last \in Inst /\ (last = 0 \/ r[last] # None)
  BY <1>2, <1>7 DEF S
<1>9. ASSUME NEW i \in Inst, i > last
      PROVE  r[i] = None
  <2>1. i \in Nat /\ last \in Nat
    BY <1>1, <1>8
  <2>2. i \notin S
    BY <1>7, <1>9, <2>1
  <2> QED BY <2>2 DEF S
<1> QED BY <1>8, <1>9 DEF last, S

LEMMA LastInstFacts ==
  /\ LastInst \in Inst /\ LastInst \in Nat
  /\ LastInst = 0 \/ rec[LastInst] # None
  /\ \A i \in Inst : i > LastInst => rec[i] = None
  BY LastKey, BoundAssumption DEF LastInst, GetMaxInstanceId, Inst

\* Of a store that was changed.
LEMMA NewLastInstFacts ==
  /\ LastInst' \in Inst /\ LastInst' \in Nat
  /\ LastInst' = 0 \/ rec'[LastInst'] # None
  /\ \A i \in Inst : i > LastInst' => rec'[i] = None
  BY LastKey, BoundAssumption DEF LastInst, GetMaxInstanceId, Inst

LEMMA LeastIsMember ==
  ASSUME NEW S \in SUBSET Nat, S # {}
  PROVE  Min(S) \in S /\ \A i \in S : Min(S) <= i
<1>1. PICK m \in S : \A i \in S : m <= i
  BY MinimumExists
<1> QED BY <1>1 DEF Min

\* The checkpoint that Init starts from, when all machines have one.
LEMMA LeastCheckpoint ==
  ASSUME TypeOK
  PROVE  /\ GetCheckpointMinInstanceID \in Inst \cup {Top}
         /\ \A m \in 1 .. count : GetCheckpointMinInstanceID <= cp[m]
         /\ count = 1 => GetCheckpointMinInstanceID = cp[1]
<1> DEFINE S == {Top} \cup {cp[m] : m \in 1 .. count}
<1>1. \A m \in 1 .. count : m \in Machine /\ cp[m] \in Inst
  BY BoundAssumption DEF TypeOK, Machine
<1>2. \A i \in Inst : i \in Nat /\ i < Top
  BY BoundAssumption DEF Inst, Top
<1>3. Top \in Nat /\ S \in SUBSET Nat /\ S # {} /\ S \subseteq Inst \cup {Top}
  BY <1>1, <1>2, BoundAssumption DEF Top
<1> DEFINE least == Min(S)
<1>4. least \in S /\ \A i \in S : least <= i
  BY <1>3, LeastIsMember
<1>5. GetCheckpointMinInstanceID = least
  BY DEF GetCheckpointMinInstanceID
<1> HIDE DEF S, least
<1>6. \A m \in 1 .. count : cp[m] \in S
  BY DEF S
<1>7. ASSUME count = 1 PROVE least = cp[1]
  <2>1. S = {Top, cp[1]} /\ cp[1] \in Inst
    BY <1>1, <1>7 DEF S
  <2>2. cp[1] < Top /\ cp[1] \in Nat /\ cp[1] \in S
    BY <1>2, <2>1
  <2> QED BY <1>3, <1>4, <2>1, <2>2
<1> QED BY <1>3, <1>4, <1>5, <1>6, <1>7

\* ExecuteForReplay picks a machine that is behind; it is not the first one
\* only when that one is not behind.
LEMMA FirstLagging ==
  ASSUME TypeOK, NEW i \in Inst, Lagging(i) # {}
  PROVE  LET m == Min(Lagging(i)) IN
         /\ m \in 1 .. count /\ m \in Machine
         /\ m = 1 => cp[1] < i
         /\ m # 1 => m \in 2 .. count /\ cp[1] >= i
<1>1. count \in Nat /\ count <= MaxMachines
  BY BoundAssumption DEF TypeOK
<1>2. Lagging(i) \in SUBSET Nat
  BY <1>1 DEF Lagging
<1> DEFINE m == Min(Lagging(i))
<1>3. m \in Lagging(i) /\ \A k \in Lagging(i) : m <= k
  BY <1>2, LeastIsMember
<1> HIDE DEF m
<1>4. m \in 1 .. count /\ cp[m] < i /\ m \in Machine
  BY <1>1, <1>3, BoundAssumption DEF Lagging, Machine
<1>5. ASSUME m # 1 PROVE m \in 2 .. count /\ cp[1] >= i
  <2>1. m \in 2 .. count
    BY <1>1, <1>4, <1>5
  <2>2. 1 \notin Lagging(i)
    BY <1>1, <1>3, <2>1
  <2>3. 1 \in 1 .. count /\ 1 \in Machine
    BY <1>1, <2>1, BoundAssumption DEF Machine
  <2>4. cp[1] \in Nat /\ i \in Nat
    BY <2>3, BoundAssumption DEF TypeOK, Inst
  <2> QED BY <2>1, <2>2, <2>3, <2>4 DEF Lagging
<1> QED BY <1>4, <1>5 DEF m
-----------------------------------------------------------------------------
(* Types. *)

Doing == [machine : Machine, id : Inst, value : Value, written : BOOLEAN]

LEMMA TypesOfBounds ==
  /\ Inst \subseteq Nat /\ 0 \in Inst /\ Top \in Nat
  /\ \A i \in Inst : i \in Nat /\ i <= MaxInst /\ i + 1 \in 0 .. MaxInst + 1
                       /\ i \in 0 .. Top /\ i + 1 \in 0 .. Top
  /\ Machine \subseteq Nat
  BY BoundAssumption DEF Inst, Top, Machine

\* What an execution under way is.
LEMMA DoingTypes ==
  ASSUME TypeOK, doing # <<>>
  PROVE  /\ doing[1] \in Doing /\ doing \in [1 .. 1 -> Doing]
         /\ doing[1].machine \in Machine /\ doing[1].id \in Inst /\ doing[1].value \in Value
         /\ doing[1].written \in BOOLEAN
  BY DEF TypeOK, Doing

LEMMA BeginTypes ==
  ASSUME NEW m \in Machine, NEW i \in Inst, NEW v \in Value, Begin(m, i, v)
  PROVE  /\ doing' \in {<<>>} \cup [1 .. 1 -> Doing] /\ doing' # <<>>
         /\ doing'[1] = [machine |-> m, id |-> i, value |-> v, written |-> FALSE]
<1> DEFINE e == [machine |-> m, id |-> i, value |-> v, written |-> FALSE]
<1>1. e \in Doing
  BY DEF Doing
<1>2. doing' = <<e>>
  BY DEF Begin
<1> HIDE DEF e
<1>3. <<e>> \in [1 .. 1 -> Doing] /\ <<e>> # <<>> /\ <<e>>[1] = e
  BY <1>1
<1> QED BY <1>2, <1>3 DEF e

LEMMA StartInstance ==
  ASSUME TypeOK
  PROVE  LET f == GetCheckpointMinInstanceID IN
         /\ (f + 1) % (Top + 1) \in 0 .. Top
         /\ f \in Inst => (f + 1) % (Top + 1) = f + 1
<1> DEFINE f == GetCheckpointMinInstanceID
<1>1. f \in Inst \cup {Top}
  BY LeastCheckpoint
<1> HIDE DEF f
<1>2. CASE f \in Inst
  <2>1. f + 1 \in Nat /\ f + 1 < Top + 1 /\ Top + 1 \in Nat \ {0}
    BY <1>2, BoundAssumption DEF Inst, Top
  <2>2. \A a \in Nat, b \in Nat \ {0} : a < b => a % b = a
    OBVIOUS
  <2> QED BY <1>2, <2>1, <2>2, TypesOfBounds DEF f
<1>3. CASE f = Top /\ f \notin Inst
  <2>1. Top \in Nat /\ Top + 1 \in Nat \ {0}
    BY TypesOfBounds
  <2>2. \A b \in Nat \ {0} : b % b = 0
    OBVIOUS
  <2>3. (f + 1) % (Top + 1) = 0
    BY <1>3, <2>1, <2>2
  <2> QED BY <1>3, <2>1, <2>3 DEF f
<1> QED BY <1>1, <1>2, <1>3 DEF f

LEMMA TypeInit == Init => TypeOK
<1> SUFFICES ASSUME Init PROVE TypeOK
  OBVIOUS
<1>1. 0 \in Inst /\ 0 \in 0 .. MaxInst + 1 /\ 0 \in 0 .. Top /\ 0 \in 0 .. MaxCrashes
  BY BoundAssumption DEF Inst, Top
<1>2. <<>> \in Seq(Execution)
  BY EmptySeq
<1> QED BY <1>1, <1>2 DEF Init, TypeOK

LEMMA ReplayTypes ==
  ASSUME TypeOK, NEW i \in Inst, NEW v \in Value, ExecuteForReplay(i, v)
  PROVE  /\ doing' \in {<<>>} \cup [1 .. 1 -> Doing]
         /\ phase' \in {phase, "aborted"}
<1>1. CASE Lagging(i) = {}
  BY <1>1 DEF ExecuteForReplay, TypeOK, Doing
<1>2. CASE Lagging(i) # {}
  BY <1>2, FirstLagging, BeginTypes DEF ExecuteForReplay
<1> QED BY <1>1, <1>2

LEMMA WriteTypes ==
  ASSUME TypeOK, doing # <<>>, NEW w, Write(w, doing[1])
  PROVE  done' \in [Machine -> Seq(Execution)] /\ cp' \in [Machine -> Inst]
<1> DEFINE e == doing[1]
<1>1. e.machine \in Machine /\ e.id \in Inst /\ e.value \in Value
  BY DoingTypes
<1>2. done \in [Machine -> Seq(Execution)] /\ cp \in [Machine -> Inst]
  BY DEF TypeOK
<1> HIDE DEF e
<1> DEFINE x == [id |-> e.id, value |-> e.value]
<1>3. x \in Execution
  BY <1>1 DEF Execution
<1> HIDE DEF x
<1>4. Append(done[e.machine], x) \in Seq(Execution)
  BY <1>1, <1>2, <1>3, AppendFacts
<1> QED BY <1>1, <1>2, <1>4 DEF Write, CheckpointOf, e, x

LEMMA TypeNext == TypeOK /\ [Next]_vars => TypeOK'
<1> SUFFICES ASSUME TypeOK, [Next]_vars PROVE TypeOK'
  OBVIOUS
<1>1. CASE Start
  <2>1. from' \in Inst \cup {Top} /\ id' \in 0 .. Top
    BY <1>1, StartInstance, LeastCheckpoint DEF Start
  <2> QED BY <1>1, <2>1 DEF Start, TypeOK, log
<1>2. CASE ReplayLog
  <2>1. id \in Inst /\ LastInst \in Inst
    BY <1>2, LastInstFacts, TypesOfBounds, BoundAssumption DEF ReplayLog, LastInst, TypeOK, Inst
  <2>2. CASE rec[LastInst] \in Value
    <3>1. ExecuteForReplay(id, rec[LastInst])
      BY <1>2, <2>2 DEF ReplayLog, LastInst
    <3>2. /\ doing' \in {<<>>} \cup [1 .. 1 -> Doing]
          /\ phase' \in {phase, "aborted"}
      BY <2>1, <2>2, <3>1, ReplayTypes
    <3> QED BY <1>2, <3>2 DEF ReplayLog, TypeOK, log, Doing
  <2>3. CASE rec[LastInst] \notin Value
    BY <1>2, <2>3 DEF ReplayLog, LastInst, TypeOK, log
  <2> QED BY <2>2, <2>3
<1>3. CASE ReplayLast
  <2>1. LastInst \in Inst /\ LastInst \in 0 .. MaxInst + 1 /\ LastInst + 1 \in 0 .. MaxInst + 1
        /\ LastInst + 1 \in 0 .. Top
    BY LastInstFacts, TypesOfBounds, BoundAssumption DEF Inst
  <2>2. CASE rec[LastInst] \in Value /\ from < LastInst
    <3>1. ExecuteForReplay(LastInst, rec[LastInst]) /\ id' = LastInst + 1 /\ inst' = inst
      BY <1>3, <2>2 DEF ReplayLast, LastInst
    <3>2. /\ doing' \in {<<>>} \cup [1 .. 1 -> Doing]
          /\ phase' \in {phase, "aborted"}
      BY <2>1, <2>2, <3>1, ReplayTypes
    <3> QED BY <1>3, <2>1, <3>1, <3>2 DEF ReplayLast, TypeOK, log, Doing
  <2>3. CASE ~(rec[LastInst] \in Value /\ from < LastInst)
    <3>1. inst' = (IF rec[LastInst] \in Value THEN LastInst + 1 ELSE LastInst)
          /\ phase' = "running" /\ doing' = doing /\ id' = id
      BY <1>3, <2>3 DEF ReplayLast, LastInst
    <3>2. inst' \in 0 .. MaxInst + 1
      BY <2>1, <3>1
    <3> QED BY <1>3, <3>1, <3>2 DEF ReplayLast, TypeOK, log
  <2> QED BY <2>2, <2>3
<1>4. CASE FirstWrite
  <2>1. done' \in [Machine -> Seq(Execution)] /\ cp' \in [Machine -> Inst]
    BY <1>4, WriteTypes DEF FirstWrite
  <2>2. doing' \in [1 .. 1 -> Doing]
    BY <1>4, DoingTypes DEF FirstWrite, Doing
  <2> QED BY <1>4, <2>1, <2>2 DEF FirstWrite, TypeOK, Doing
<1>5. CASE SecondWrite
  <2>1. done' \in [Machine -> Seq(Execution)] /\ cp' \in [Machine -> Inst]
    BY <1>5, WriteTypes DEF SecondWrite
  <2>2. /\ doing[1].id \in Inst /\ doing[1].id + 1 \in 0 .. MaxInst + 1
        /\ doing[1].id + 1 \in 0 .. Top
    BY <1>5, DoingTypes, TypesOfBounds DEF SecondWrite
  <2>3. id' \in 0 .. Top /\ inst' \in 0 .. MaxInst + 1
        /\ phase' \in {"down", "replaying", "running", "aborted"}
    BY <1>5, <2>2 DEF SecondWrite, TypeOK
  <2> QED BY <1>5, <2>1, <2>3 DEF SecondWrite, TypeOK
<1>6. CASE Promise
  BY <1>6 DEF Promise, TypeOK
<1>7. CASE \E v \in Value : Accept(v)
  <2>1. PICK v \in Value : Accept(v)
    BY <1>7
  <2>2. rec' \in [Inst -> Value \cup {None, Promised}]
    BY <2>1 DEF Accept, TypeOK
  <2> QED BY <2>1, <2>2 DEF Accept, TypeOK
<1>8. CASE Learn
  <2>1. inst \in Inst /\ 1 \in Machine
    BY <1>8, BoundAssumption DEF Learn, Idle, Execute, TypeOK, Inst, Machine
  <2>2. doing' \in {<<>>} \cup [1 .. 1 -> Doing]
    BY <1>8, <2>1, BeginTypes DEF Learn, Execute
  <2> QED BY <1>8, <2>2 DEF Learn, TypeOK, log, Doing
<1>9. CASE Crash
  <2>1. crashes' \in 0 .. MaxCrashes
    BY <1>9, BoundAssumption DEF Crash, TypeOK
  <2> QED BY <1>9, <2>1 DEF Crash, TypeOK, log
<1>10. CASE UNCHANGED vars
  BY <1>10 DEF TypeOK, vars, log
<1> QED BY <1>1, <1>2, <1>3, <1>4, <1>5, <1>6, <1>7, <1>8, <1>9, <1>10 DEF Next

\* Every reachable state of the store, the machines and the start is well typed.
THEOREM TypeCorrect == Spec => []TypeOK
  BY TypeInit, TypeNext, PTL DEF Spec
-----------------------------------------------------------------------------
(* The first machine. *)

\* What the invariant says of a group that has machines.
LEMMA Known ==
  ASSUME IInv, count > 0
  PROVE  /\ TypeOK /\ FirstMachineInv
         /\ 1 \in Machine /\ cp[1] \in Inst /\ cp[1] \in Nat /\ inst \in Nat
         /\ Run \in Seq(Execution) /\ Len(Run) \in Nat
         /\ LastInst \in Inst /\ LastInst \in Nat
         /\ Run # <<>> => Len(Run) >= 1 /\ LastRun \in Execution /\ LastRun.id \in Inst
                            /\ LastRun.id \in Nat /\ LastRun.value \in Value
         /\ doing # <<>> => doing[1].id \in Inst /\ doing[1].id \in Nat /\ doing[1].value \in Value
<1>1. TypeOK /\ FirstMachineInv
  BY DEF IInv
<1>2. 1 \in Machine /\ cp[1] \in Inst /\ cp[1] \in Nat /\ inst \in Nat
  <2>1. count \in Nat /\ count <= MaxMachines /\ inst \in Nat
    BY <1>1, BoundAssumption DEF TypeOK
  <2>2. 1 \in Machine
    BY <2>1, BoundAssumption DEF Machine
  <2> QED BY <1>1, <2>1, <2>2, TypesOfBounds DEF TypeOK
<1>3. Run \in Seq(Execution) /\ Len(Run) \in Nat
  BY <1>1, <1>2, LenProperties DEF TypeOK, Run
<1>4. ASSUME Run # <<>>
      PROVE  Len(Run) >= 1 /\ LastRun \in Execution /\ LastRun.id \in Inst /\ LastRun.value \in Value
  <2>1. Len(Run) # 0
    BY <1>3, <1>4, EmptySeq
  <2>2. Len(Run) \in 1 .. Len(Run)
    BY <1>3, <2>1
  <2>3. LastRun \in Execution
    BY <1>3, <2>2, ElementOfSeq DEF LastRun
  <2> QED BY <2>2, <2>3, <1>3 DEF Execution
<1> QED BY <1>1, <1>2, <1>3, <1>4, LastInstFacts, DoingTypes, TypesOfBounds

LEMMA InvInit == Init => IInv
<1> SUFFICES ASSUME Init PROVE IInv
  OBVIOUS
<1>1. TypeOK
  BY TypeInit
<1>2. doing = <<>> /\ phase = "down"
  BY DEF Init
<1>3. ASSUME count > 0 PROVE FirstMachineInv
  <2>1. 1 \in Machine
    BY <1>1, <1>3, BoundAssumption DEF TypeOK, Machine
  <2>2. Run = <<>> /\ cp[1] = 0 /\ rec = [i \in Inst |-> None]
    BY <2>1 DEF Init, Run
  <2>3. LastInst = 0
    BY <2>2, LastInstFacts
  <2>4. LogWithoutGaps
    BY <2>3, TypesOfBounds DEF LogWithoutGaps
  <2>5. Consecutive
    BY <2>2 DEF Consecutive
  <2>6. CheckpointNearEnd
    BY <2>2, <2>3 DEF CheckpointNearEnd
  <2> QED BY <1>2, <2>4, <2>5, <2>6 DEF FirstMachineInv, WhileRunning, WhileReplaying
<1> QED BY <1>1, <1>2, <1>3 DEF IInv

\* A step that leaves the log and the first machine alone keeps what is said of
\* them.
LEMMA LogKept ==
  ASSUME FirstMachineInv, UNCHANGED <<rec, done>>, cp'[1] = cp[1]
  PROVE  /\ LogWithoutGaps' /\ Consecutive' /\ CheckpointNearEnd'
         /\ LastInst' = LastInst /\ Run' = Run /\ LastRun' = LastRun
<1>1. LastInst' = LastInst /\ Run' = Run /\ LastRun' = LastRun
  BY DEF LastInst, GetMaxInstanceId, Run, LastRun
<1> QED BY <1>1 DEF FirstMachineInv, LogWithoutGaps, Consecutive, CheckpointNearEnd

LEMMA StartFirst ==
  ASSUME IInv, count > 0, Start
  PROVE  FirstMachineInv'
<1>1. FirstMachineInv /\ TypeOK /\ UNCHANGED log /\ count' = count /\ doing' = doing
      /\ phase = "down" /\ phase' = "replaying"
      /\ from' = GetCheckpointMinInstanceID /\ id' = (from' + 1) % (Top + 1)
  BY DEF IInv, Start
<1>2. doing = <<>>
  BY <1>1 DEF IInv
<1>3. /\ LogWithoutGaps' /\ Consecutive' /\ CheckpointNearEnd'
      /\ LastInst' = LastInst /\ Run' = Run /\ LastRun' = LastRun
  BY <1>1, LogKept DEF log
<1>4. cp[1] \in Inst /\ cp[1] \in Nat
  BY Known
<1>5. from' <= cp[1] /\ (count = 1 => from' = cp[1]) /\ from' \in Inst \cup {Top}
  <2>1. 1 \in 1 .. count
    BY <1>1 DEF TypeOK
  <2> QED BY <1>1, <2>1, LeastCheckpoint
<1>6. from' \in Inst
  BY <1>4, <1>5, BoundAssumption DEF Top, Inst
<1>7. id' = from' + 1
  BY <1>1, <1>6, StartInstance
<1>8. WhileReplaying'
  BY <1>1, <1>2, <1>4, <1>5, <1>6, <1>7, TypesOfBounds DEF WhileReplaying, log
<1>9. WhileRunning'
  BY <1>1 DEF WhileRunning
<1> QED BY <1>1, <1>3, <1>8, <1>9 DEF FirstMachineInv

LEMMA ReplayLogFirst ==
  ASSUME IInv, count > 0, ReplayLog
  PROVE  FirstMachineInv'
<1>1. FirstMachineInv /\ TypeOK /\ UNCHANGED log /\ count' = count
      /\ phase = "replaying" /\ doing = <<>> /\ id < LastInst /\ UNCHANGED <<inst, from, id>>
  BY DEF IInv, ReplayLog, LastInst
<1>2. /\ LogWithoutGaps' /\ Consecutive' /\ CheckpointNearEnd'
      /\ LastInst' = LastInst /\ Run' = Run /\ LastRun' = LastRun
  BY <1>1, LogKept DEF log
<1>3. /\ from <= cp[1] /\ from < id /\ (count = 1 => from = cp[1])
      /\ LastInst <= cp[1] + 1
  BY <1>1 DEF FirstMachineInv, WhileReplaying, CheckpointNearEnd
<1>4. /\ cp[1] \in Nat /\ LastInst \in Nat /\ from \in Nat /\ id \in Nat /\ id \in Inst
      /\ LastInst <= MaxInst
  BY <1>1, Known, TypesOfBounds, BoundAssumption DEF TypeOK, Inst, Top
<1>5. count # 1 /\ cp[1] >= id
  BY <1>1, <1>3, <1>4
<1>6. CASE phase' = "aborted"
  BY <1>1, <1>2, <1>5, <1>6 DEF FirstMachineInv, WhileRunning, WhileReplaying
<1>7. CASE phase' # "aborted"
  <2>1. /\ rec[LastInst] \in Value /\ Lagging(id) # {} /\ phase' = phase
        /\ Begin(Min(Lagging(id)), id, rec[LastInst])
    BY <1>1, <1>7 DEF ReplayLog, LastInst, ExecuteForReplay
  <2> DEFINE m == Min(Lagging(id))
  <2>2. m \in 2 .. count /\ m \in Machine
    BY <1>1, <1>4, <1>5, <2>1, FirstLagging
  <2>3. Begin(m, id, rec[LastInst])
    BY <2>1
  <2> HIDE DEF m
  <2>4. doing'[1] = [machine |-> m, id |-> id, value |-> rec[LastInst], written |-> FALSE]
    BY <1>4, <2>1, <2>2, <2>3, BeginTypes
  <2>5. doing'[1].machine = m /\ doing'[1].id = id
    BY <2>4
  <2>6. WhileReplaying'
    BY <1>1, <1>2, <1>3, <1>5, <2>1, <2>2, <2>5 DEF WhileReplaying, log
  <2> QED BY <1>1, <1>2, <1>5, <2>1, <2>6 DEF FirstMachineInv, WhileRunning
<1> QED BY <1>6, <1>7

LEMMA ReplayLastFirst ==
  ASSUME IInv, count > 0, ReplayLast
  PROVE  FirstMachineInv'
<1>1. /\ FirstMachineInv /\ TypeOK /\ UNCHANGED log /\ count' = count /\ from' = from
      /\ phase = "replaying" /\ doing = <<>> /\ id >= LastInst
  BY DEF IInv, ReplayLast, LastInst
<1>2. /\ LogWithoutGaps' /\ Consecutive' /\ CheckpointNearEnd'
      /\ LastInst' = LastInst /\ Run' = Run /\ LastRun' = LastRun /\ rec' = rec /\ cp' = cp
  BY <1>1, LogKept DEF log
<1>3. /\ from <= cp[1] /\ from < id /\ (count = 1 => from = cp[1])
      /\ LastInst <= cp[1] + 1 /\ cp[1] <= LastInst /\ LogWithoutGaps
  BY <1>1 DEF FirstMachineInv, WhileReplaying, CheckpointNearEnd
<1>4. /\ cp[1] \in Nat /\ LastInst \in Nat /\ LastInst \in Inst /\ from \in Nat /\ id \in Nat
      /\ Inst \subseteq Nat
  BY <1>1, Known, TypesOfBounds, BoundAssumption DEF TypeOK, Inst, Top
<1>5. CASE rec[LastInst] \in Value /\ from < LastInst
  <2>1. ExecuteForReplay(LastInst, rec[LastInst]) /\ id' = LastInst + 1 /\ inst' = inst
    BY <1>5 DEF ReplayLast, LastInst
  <2>2. CASE Lagging(LastInst) = {}
    <3>1. phase' = "aborted" /\ 1 \notin Lagging(LastInst)
      BY <2>1, <2>2 DEF ExecuteForReplay
    <3>2. count # 1
      BY <1>3, <1>5, <3>1 DEF Lagging
    <3> QED BY <1>1, <1>2, <3>1, <3>2 DEF FirstMachineInv, WhileRunning, WhileReplaying
  <2>3. CASE Lagging(LastInst) # {}
    <3> DEFINE m == Min(Lagging(LastInst))
    <3>1. phase' = phase /\ Begin(m, LastInst, rec[LastInst])
      BY <2>1, <2>3 DEF ExecuteForReplay
    <3>2. /\ m \in Machine
          /\ m = 1 => cp[1] < LastInst
          /\ m # 1 => m \in 2 .. count /\ cp[1] >= LastInst
      BY <1>1, <1>4, <2>3, FirstLagging
    <3> HIDE DEF m
    <3>3. doing'[1] = [machine |-> m, id |-> LastInst, value |-> rec[LastInst], written |-> FALSE]
      BY <1>4, <1>5, <3>1, <3>2, BeginTypes
    <3>4. /\ doing'[1].machine = m /\ doing'[1].id = LastInst
          /\ doing'[1].value = rec[LastInst] /\ ~doing'[1].written
      BY <3>3
    <3>5. CASE m = 1
      <4>1. cp[1] + 1 = LastInst
        BY <1>3, <1>4, <3>2, <3>5
      <4>2. ExecutesNext(LastInst)'
        BY <1>2, <3>4, <3>5 DEF ExecutesNext
      <4>3. LastInst < id' /\ from' <= cp'[1] /\ from' < id'
        BY <1>1, <1>2, <1>3, <1>4, <2>1
      <4> QED BY <1>1, <1>2, <1>3, <1>5, <2>1, <3>1, <4>1, <4>2, <4>3
            DEF FirstMachineInv, WhileRunning, WhileReplaying
    <3>6. CASE m # 1
      <4>1. cp[1] = LastInst
        BY <1>3, <1>4, <3>2, <3>6
      <4>2. from' <= cp'[1] /\ from' < id'
        BY <1>1, <1>2, <1>3, <1>4, <2>1
      <4> QED BY <1>1, <1>2, <1>3, <1>5, <2>1, <3>1, <3>2, <3>4, <3>6, <4>1, <4>2
            DEF FirstMachineInv, WhileRunning, WhileReplaying
    <3> QED BY <3>5, <3>6
  <2> QED BY <2>2, <2>3
<1>6. CASE ~(rec[LastInst] \in Value /\ from < LastInst)
  <2>1. /\ inst' = (IF rec[LastInst] \in Value THEN LastInst + 1 ELSE LastInst)
        /\ phase' = "running" /\ doing' = doing /\ id' = id
    BY <1>6 DEF ReplayLast, LastInst
  <2>2. \A i \in Inst : i > LastInst => rec[i] = None
    BY LastInstFacts
  <2>3. /\ \A i \in 1 .. cp[1] : rec[i] \in Value
        /\ Run # <<>> => LastRun.id <= LastInst /\ LastRun.id \in Nat /\ rec[LastRun.id] \in Value
    <3>1. /\ \A i \in 1 .. cp[1] : Contains(Run, [id |-> i, value |-> rec[i]])
          /\ Run # <<>> => LastRun.id <= LastInst /\ LastRun.value = rec[LastRun.id]
      BY <1>1 DEF FirstMachineInv, CheckpointNearEnd
    <3>2. ASSUME NEW i \in 1 .. cp[1] PROVE rec[i] \in Value
      <4>1. PICK k \in 1 .. Len(Run) : Run[k] = [id |-> i, value |-> rec[i]]
        BY <3>1 DEF Contains
      <4>2. Run[k] \in Execution
        BY Known, ElementOfSeq
      <4> QED BY <4>1, <4>2 DEF Execution
    <3> QED BY <3>1, <3>2, Known
  <2>4. CASE rec[LastInst] \in Value
    <3>1. inst' = LastInst + 1 /\ cp[1] = LastInst
      BY <1>3, <1>4, <1>6, <2>1, <2>4
    <3>2. NotBegun'
      BY <1>2, <1>4, <2>3, <3>1 DEF NotBegun
    <3>3. \A i \in Inst : (i < inst' => rec'[i] \in Value) /\ (i > inst' => rec'[i] = None)
      BY <1>2, <1>3, <1>4, <2>2, <2>4, <3>1 DEF LogWithoutGaps
    <3>4. cp'[1] = IF inst' = 0 THEN 0 ELSE inst' - 1
      BY <1>2, <1>4, <3>1
    <3> QED BY <1>1, <1>2, <2>1, <3>2, <3>3, <3>4
          DEF FirstMachineInv, WhileRunning, WhileReplaying
  <2>5. CASE rec[LastInst] \notin Value
    <3>1. inst' = LastInst /\ (LastInst # 0 => cp[1] # LastInst)
      BY <1>4, <2>1, <2>3, <2>5
    <3>2. NotBegun'
      BY <1>2, <1>4, <2>3, <2>5, <3>1 DEF NotBegun
    <3>3. \A i \in Inst : (i < inst' => rec'[i] \in Value) /\ (i > inst' => rec'[i] = None)
      BY <1>2, <1>3, <1>4, <2>2, <2>5, <3>1 DEF LogWithoutGaps
    <3>4. cp'[1] = IF inst' = 0 THEN 0 ELSE inst' - 1
      BY <1>2, <1>3, <1>4, <3>1
    <3> QED BY <1>1, <1>2, <2>1, <3>2, <3>3, <3>4
          DEF FirstMachineInv, WhileRunning, WhileReplaying
  <2> QED BY <2>4, <2>5
<1> QED BY <1>5, <1>6

\* The end of the log while the roles are in an instance.
LEMMA RunningLast ==
  ASSUME IInv, count > 0, phase = "running"
  PROVE  LastInst <= inst /\ (rec[inst] \in Value /\ inst \in Inst => LastInst = inst)
<1>1. \A i \in Inst : i > inst => rec[i] = None
  BY Known DEF FirstMachineInv, WhileRunning
<1>2. LastInst \in Inst /\ LastInst \in Nat /\ inst \in Nat
      /\ (LastInst = 0 \/ rec[LastInst] # None)
      /\ \A i \in Inst : i > LastInst => rec[i] = None
  BY Known, LastInstFacts
<1>3. LastInst <= inst
  BY <1>1, <1>2
<1> QED BY <1>2, <1>3, RecordAssumption

\* A record is written: the instance's own, which no machine has executed.
LEMMA RecordFirst ==
  ASSUME IInv, count > 0, Idle, NEW r \in Value \cup {Promised},
         rec' = [rec EXCEPT ![inst] = r],
         UNCHANGED <<count, done, cp, phase, inst, from, id, doing, crashes>>
  PROVE  FirstMachineInv'
<1>1. /\ FirstMachineInv /\ TypeOK /\ phase = "running" /\ doing = <<>> /\ inst \in Inst
      /\ inst \in Nat /\ r # None /\ cp[1] \in Nat /\ Inst \subseteq Nat
  BY Known, TypesOfBounds, RecordAssumption, BoundAssumption DEF Idle, Inst
<1>2. /\ cp[1] = (IF inst = 0 THEN 0 ELSE inst - 1)
      /\ \A i \in Inst : (i < inst => rec[i] \in Value) /\ (i > inst => rec[i] = None)
      /\ NotBegun
  BY <1>1 DEF FirstMachineInv, WhileRunning
<1>3. rec'[inst] = r /\ \A i \in Inst : i # inst => rec'[i] = rec[i]
  BY <1>1 DEF TypeOK
<1>4. LastInst' = inst
  <2>1. /\ LastInst' \in Inst /\ LastInst' \in Nat
        /\ LastInst' = 0 \/ rec'[LastInst'] # None
        /\ \A i \in Inst : i > LastInst' => rec'[i] = None
    BY NewLastInstFacts
  <2>2. \A i \in Inst : i > inst => rec'[i] = None
    BY <1>1, <1>2, <1>3
  <2> QED BY <1>1, <1>3, <2>1, <2>2
<1>5. Run' = Run /\ LastRun' = LastRun
  BY DEF Run, LastRun
<1>6. LogWithoutGaps'
  BY <1>1, <1>2, <1>3, <1>4 DEF LogWithoutGaps
<1>7. Consecutive'
  BY <1>1, <1>5 DEF FirstMachineInv, Consecutive
<1>8. CheckpointNearEnd'
  <2>1. cp'[1] <= LastInst' /\ LastInst' <= cp'[1] + 1
    BY <1>1, <1>2, <1>4
  <2>2. ASSUME NEW i \in 1 .. cp'[1]
        PROVE  Contains(Run', [id |-> i, value |-> rec'[i]])
    <3>1. i \in 1 .. cp[1] /\ i \in Inst /\ i # inst
      BY <1>1, <1>2, BoundAssumption DEF Inst
    <3>2. Contains(Run, [id |-> i, value |-> rec[i]])
      BY <1>1, <3>1 DEF FirstMachineInv, CheckpointNearEnd
    <3> QED BY <1>3, <1>5, <3>1, <3>2
  <2>3. Run = <<>> => cp[1] = 0
    BY <1>1 DEF FirstMachineInv, CheckpointNearEnd
  <2>4. ASSUME Run # <<>>
        PROVE  /\ LastRun.id \in {cp[1], cp[1] + 1} /\ LastRun.id <= inst
               /\ LastRun.value = rec'[LastRun.id]
    <3>1. /\ LastRun.id \in {cp[1], cp[1] + 1} /\ LastRun.value = rec[LastRun.id]
          /\ LastRun.id < inst
      BY <1>1, <1>2, <2>4 DEF FirstMachineInv, CheckpointNearEnd, NotBegun
    <3>2. LastRun.id \in Inst /\ LastRun.id \in Nat
      BY <2>4, Known
    <3> QED BY <1>1, <1>3, <3>1, <3>2
  <2> QED BY <1>4, <1>5, <2>1, <2>2, <2>3, <2>4 DEF CheckpointNearEnd
<1>9. WhileRunning'
  <2>1. NotBegun'
    BY <1>2, <1>5 DEF NotBegun
  <2>2. \A i \in Inst : (i < inst => rec'[i] \in Value) /\ (i > inst => rec'[i] = None)
    BY <1>1, <1>2, <1>3
  <2> QED BY <1>1, <1>2, <2>1, <2>2 DEF WhileRunning
<1> QED BY <1>1, <1>6, <1>7, <1>8, <1>9 DEF FirstMachineInv, WhileReplaying

LEMMA LearnFirst ==
  ASSUME IInv, count > 0, Learn
  PROVE  FirstMachineInv'
<1>1. /\ FirstMachineInv /\ TypeOK /\ UNCHANGED log /\ phase = "running" /\ doing = <<>>
      /\ inst \in Inst /\ rec[inst] \in Value /\ Begin(1, inst, rec[inst])
      /\ UNCHANGED <<count, phase, inst, from, id>>
  BY Known, BoundAssumption DEF Learn, Idle, Execute, Inst
<1>2. /\ LogWithoutGaps' /\ Consecutive' /\ CheckpointNearEnd'
      /\ LastInst' = LastInst /\ Run' = Run /\ LastRun' = LastRun /\ rec' = rec /\ cp' = cp
  BY <1>1, LogKept DEF log
<1>3. doing'[1] = [machine |-> 1, id |-> inst, value |-> rec[inst], written |-> FALSE]
  BY <1>1, Known, BeginTypes
<1>4. ExecutesNext(inst)' /\ ~doing'[1].written
  BY <1>1, <1>2, <1>3 DEF ExecutesNext
<1>5. NotBegun'
  BY <1>1, <1>2 DEF FirstMachineInv, WhileRunning, NotBegun
<1>6. WhileRunning'
  BY <1>1, <1>2, <1>4, <1>5 DEF FirstMachineInv, WhileRunning
<1> QED BY <1>1, <1>2, <1>6 DEF FirstMachineInv, WhileReplaying

LEMMA CrashFirst ==
  ASSUME IInv, count > 0, Crash
  PROVE  FirstMachineInv'
<1>1. FirstMachineInv /\ UNCHANGED log /\ phase' = "down"
  BY DEF IInv, Crash
<1>2. LogWithoutGaps' /\ Consecutive' /\ CheckpointNearEnd'
  BY <1>1, LogKept DEF log
<1> QED BY <1>1, <1>2 DEF FirstMachineInv, WhileRunning, WhileReplaying

\* What the first machine executes is its next instance or, after a crash between
\* its two writes, the one it has executed already.
LEMMA NextOrAgain ==
  ASSUME IInv, count > 0, doing # <<>>, ~doing[1].written, doing[1].machine = 1
  PROVE  LET e == [id |-> doing[1].id, value |-> doing[1].value] IN
         /\ e.id \in {cp[1], cp[1] + 1} /\ e.id <= LastInst /\ e.value = rec[e.id]
         /\ Run = <<>> => e.id <= 1
         /\ Run # <<>> => LastRun = e \/ e.id = LastRun.id + 1
<1> DEFINE e == [id |-> doing[1].id, value |-> doing[1].value]
<1>1. /\ FirstMachineInv /\ cp[1] \in Nat /\ LastInst \in Nat /\ doing[1].id \in Nat
      /\ doing[1].id \in Inst /\ doing[1].value \in Value /\ inst \in Nat
      /\ phase \in {"running", "replaying"}
  BY Known DEF IInv
<1>2. /\ Run = <<>> => cp[1] = 0
      /\ Run # <<>> => /\ LastRun.id \in {cp[1], cp[1] + 1} /\ LastRun.value = rec[LastRun.id]
                       /\ LastRun.id \in Nat /\ LastRun \in Execution
  BY <1>1, Known DEF FirstMachineInv, CheckpointNearEnd
<1>3. e.id = doing[1].id /\ e.value = doing[1].value
  OBVIOUS
<1>4. CASE phase = "running"
  <2>1. /\ cp[1] = (IF inst = 0 THEN 0 ELSE inst - 1) /\ NotBegun
        /\ e.id = inst /\ e.value = rec[inst] /\ inst \in Inst
    BY <1>1, <1>3, <1>4 DEF FirstMachineInv, WhileRunning, ExecutesNext
  <2>2. LastInst = inst
    BY <1>1, <1>3, <1>4, <2>1, RunningLast
  <2> HIDE DEF e
  <2>3. Run # <<>> => e.id = LastRun.id + 1
    BY <1>1, <1>2, <2>1 DEF NotBegun
  <2> QED BY <1>1, <1>2, <2>1, <2>2, <2>3 DEF e
<1>5. CASE phase = "replaying"
  <2>1. cp[1] + 1 = LastInst /\ e.id = LastInst /\ e.value = rec[LastInst]
    BY <1>1, <1>3, <1>5 DEF FirstMachineInv, WhileReplaying, ExecutesNext
  <2>2. ASSUME Run # <<>>, LastRun.id = LastInst
        PROVE  LastRun = e
    <3>1. LastRun.value = e.value /\ LastRun.id = e.id
      BY <1>2, <2>1, <2>2
    <3> QED BY <1>2, <2>2, <3>1 DEF Execution
  <2> HIDE DEF e
  <2>3. Run # <<>> => LastRun = e \/ e.id = LastRun.id + 1
    BY <1>1, <1>2, <2>1, <2>2
  <2> QED BY <1>1, <1>2, <2>1, <2>3 DEF e
<1> QED BY <1>1, <1>4, <1>5

LEMMA FirstWriteFirst ==
  ASSUME IInv, count > 0, FirstWrite
  PROVE  FirstMachineInv'
<1> DEFINE e == doing[1]
<1>1. /\ FirstMachineInv /\ TypeOK /\ doing # <<>> /\ ~e.written
      /\ done' = [done EXCEPT ![e.machine] = Append(@, [id |-> e.id, value |-> e.value])]
      /\ doing' = [doing EXCEPT ![1].written = TRUE]
      /\ UNCHANGED <<count, rec, cp, phase, inst, from, id>>
  BY DEF IInv, FirstWrite, Write, Writes
<1>2. /\ doing'[1].machine = e.machine /\ doing'[1].id = e.id /\ doing'[1].value = e.value
      /\ doing'[1].written /\ doing' # <<>>
  BY <1>1, DoingTypes DEF Doing
<1>3. e.machine \in Machine /\ 1 \in Machine /\ done \in [Machine -> Seq(Execution)]
  BY <1>1, DoingTypes, Known DEF TypeOK
<1>4. LastInst' = LastInst
  BY <1>1 DEF LastInst, GetMaxInstanceId
<1>5. CASE e.machine # 1
  <2>1. Run' = Run /\ LastRun' = LastRun
    BY <1>1, <1>3, <1>5 DEF Run, LastRun
  <2>2. phase # "running"
    BY <1>1, <1>5 DEF FirstMachineInv, WhileRunning, ExecutesNext
  <2>3. WhileReplaying'
    BY <1>1, <1>2, <1>4, <1>5 DEF FirstMachineInv, WhileReplaying, ExecutesNext
  <2> QED BY <1>1, <1>4, <2>1, <2>2, <2>3
        DEF FirstMachineInv, WhileRunning, LogWithoutGaps, Consecutive, CheckpointNearEnd
<1>6. CASE e.machine = 1
  <2> DEFINE x == [id |-> e.id, value |-> e.value]
  <2>1. /\ x.id \in {cp[1], cp[1] + 1} /\ x.id <= LastInst /\ x.value = rec[x.id]
        /\ Run = <<>> => x.id <= 1
        /\ Run # <<>> => LastRun = x \/ x.id = LastRun.id + 1
    BY <1>1, <1>6, NextOrAgain
  <2>2. x \in Execution /\ x.id = e.id /\ x.value = e.value
    BY <1>1, DoingTypes DEF Execution
  <2>3. Run' = Append(Run, x) /\ Run \in Seq(Execution)
    BY <1>1, <1>3, <1>6 DEF Run
  <2> HIDE DEF x
  <2>4. /\ Run' \in Seq(Execution) /\ Len(Run) \in Nat /\ Len(Run') = Len(Run) + 1
        /\ \A j \in 1 .. Len(Run) : Run'[j] = Run[j]
        /\ Run'[Len(Run) + 1] = x
    BY <2>2, <2>3, AppendFacts
  <2>5. LastRun' = x /\ Run' # <<>>
    BY <2>4, EmptySeq DEF LastRun
  <2>6. Run # <<>> <=> Len(Run) >= 1
    BY <2>3, <2>4, EmptySeq
  <2>7. Consecutive'
    <3>1. DOMAIN Run' = 1 .. Len(Run) + 1 /\ DOMAIN Run = 1 .. Len(Run)
      BY <2>3, <2>4, LenProperties
    <3>2. ASSUME NEW k \in 1 .. Len(Run) + 1
          PROVE  \/ k = 1 /\ Run'[k].id <= 1
                 \/ k > 1 /\ (Run'[k] = Run'[k - 1] \/ Run'[k].id = Run'[k - 1].id + 1)
      <4>1. CASE k \in 1 .. Len(Run)
        <5>1. \/ k = 1 /\ Run[k].id <= 1
              \/ k > 1 /\ (Run[k] = Run[k - 1] \/ Run[k].id = Run[k - 1].id + 1)
          BY <1>1, <3>1, <4>1 DEF FirstMachineInv, Consecutive
        <5>2. k > 1 => k - 1 \in 1 .. Len(Run)
          BY <4>1, <2>4
        <5> QED BY <2>4, <4>1, <5>1, <5>2
      <4>2. CASE k = Len(Run) + 1 /\ Run = <<>>
        BY <2>1, <2>4, <2>6, <4>2
      <4>3. CASE k = Len(Run) + 1 /\ Run # <<>>
        <5>1. k > 1 /\ k - 1 = Len(Run) /\ k - 1 \in 1 .. Len(Run)
          BY <2>4, <2>6, <4>3
        <5>2. Run'[k - 1] = LastRun /\ Run'[k] = x
          BY <2>4, <4>3, <5>1 DEF LastRun
        <5> QED BY <2>1, <4>3, <5>1, <5>2
      <4> QED BY <2>4, <4>1, <4>2, <4>3
    <3> QED BY <3>1, <3>2 DEF Consecutive
  <2>8. CheckpointNearEnd'
    <3>1. ASSUME NEW i \in 1 .. cp[1]
          PROVE  Contains(Run', [id |-> i, value |-> rec[i]])
      <4>1. PICK k \in 1 .. Len(Run) : Run[k] = [id |-> i, value |-> rec[i]]
        BY <1>1 DEF FirstMachineInv, CheckpointNearEnd, Contains
      <4>2. k \in 1 .. Len(Run') /\ Run'[k] = [id |-> i, value |-> rec[i]]
        BY <2>4, <4>1
      <4> QED BY <4>2 DEF Contains
    <3>2. cp[1] <= LastInst /\ LastInst <= cp[1] + 1
      BY <1>1 DEF FirstMachineInv, CheckpointNearEnd
    <3> QED BY <1>1, <1>4, <2>1, <2>5, <3>1, <3>2 DEF CheckpointNearEnd
  <2>9. ASSUME NEW i, ExecutesNext(i)
        PROVE  ExecutesNext(i)'
    BY <1>1, <1>2, <2>5, <2>9 DEF ExecutesNext, x
  <2>10. ExecutesNext(inst) => ExecutesNext(inst)'
    BY <1>1, <2>9
  <2>11. ExecutesNext(LastInst) => ExecutesNext(LastInst)'
    BY <1>4, <2>9
  <2>12. LogWithoutGaps'
    BY <1>1, <1>4 DEF FirstMachineInv, LogWithoutGaps
  <2>13. WhileRunning'
    BY <1>1, <1>2, <2>10 DEF FirstMachineInv, WhileRunning
  <2>14. WhileReplaying'
    BY <1>1, <1>2, <1>4, <1>6, <2>11 DEF FirstMachineInv, WhileReplaying
  <2> QED BY <1>1, <2>7, <2>8, <2>12, <2>13, <2>14 DEF FirstMachineInv
<1> QED BY <1>5, <1>6

LEMMA SecondWriteFirst ==
  ASSUME IInv, count > 0, SecondWrite
  PROVE  FirstMachineInv'
<1> DEFINE e == doing[1]
<1>1. /\ FirstMachineInv /\ TypeOK /\ doing # <<>> /\ e.written
      /\ cp' = [cp EXCEPT ![e.machine] = e.id] /\ doing' = <<>>
      /\ UNCHANGED <<count, rec, done, from>>
      /\ phase \in {"running", "replaying"}
  BY DEF IInv, SecondWrite, Write, Writes, CheckpointOf
<1>2. IF phase = "replaying" /\ id = e.id
        THEN id' = id + 1 /\ phase' = phase /\ inst' = inst
        ELSE inst' = e.id + 1 /\ phase' = "running" /\ id' = id
  BY DEF SecondWrite
<1>3. /\ e.machine \in Machine /\ 1 \in Machine /\ cp \in [Machine -> Inst]
      /\ e.id \in Inst /\ e.id \in Nat /\ e.value \in Value /\ LastInst \in Nat /\ LastInst \in Inst
      /\ cp[1] \in Nat /\ inst \in Nat /\ id \in Nat /\ from \in Nat
  BY <1>1, DoingTypes, Known, TypesOfBounds, BoundAssumption DEF TypeOK, Inst, Top
<1>4. /\ cp[1] <= LastInst /\ LastInst <= cp[1] + 1 /\ LogWithoutGaps
      /\ Run # <<>> => LastRun.id <= LastInst
  BY <1>1 DEF FirstMachineInv, CheckpointNearEnd
<1>5. Run' = Run /\ LastRun' = LastRun /\ LastInst' = LastInst
  BY <1>1 DEF Run, LastRun, LastInst, GetMaxInstanceId
<1>6. CASE e.machine = 1
  <2>1. /\ phase = "running" \/ (id # e.id /\ e.id = LastInst)
        /\ Run # <<>> /\ LastRun = [id |-> e.id, value |-> e.value]
        /\ cp[1] = e.id - 1 \/ e.id = 0
        /\ e.value = rec[e.id]
    <3>1. CASE phase = "running"
      <4>1. /\ inst \in Inst /\ e.id = inst /\ e.value = rec[inst]
            /\ Run # <<>> /\ LastRun = [id |-> inst, value |-> rec[inst]]
            /\ cp[1] = (IF inst = 0 THEN 0 ELSE inst - 1)
        BY <1>1, <3>1 DEF FirstMachineInv, WhileRunning, ExecutesNext
      <4> QED BY <1>3, <3>1, <4>1
    <3>2. CASE phase = "replaying"
      <4>1. /\ id = LastInst + 1 /\ cp[1] + 1 = LastInst
            /\ e.id = LastInst /\ e.value = rec[LastInst]
            /\ Run # <<>> /\ LastRun = [id |-> LastInst, value |-> rec[LastInst]]
        BY <1>1, <1>6, <3>2 DEF FirstMachineInv, WhileReplaying, ExecutesNext
      <4> QED BY <1>3, <4>1
    <3> QED BY <1>1, <3>1, <3>2
  <2>2. e.id = LastInst
    BY <1>1, <1>3, <2>1, RunningLast DEF FirstMachineInv, WhileRunning, ExecutesNext
  <2>3. phase' = "running" /\ inst' = e.id + 1
    BY <1>2, <2>1
  <2>4. cp'[1] = e.id
    BY <1>1, <1>3, <1>6
  <2>5. LastRun.id = e.id /\ LastRun.value = e.value
    BY <2>1
  <2>6. CheckpointNearEnd'
    <3>1. ASSUME NEW i \in 1 .. e.id
          PROVE  Contains(Run, [id |-> i, value |-> rec[i]])
      <4>1. CASE i = e.id
        <5>1. Len(Run) \in 1 .. Len(Run) /\ Run[Len(Run)] = [id |-> i, value |-> rec[i]]
          BY <2>1, <4>1, Known DEF LastRun
        <5> QED BY <5>1 DEF Contains
      <4>2. CASE i # e.id
        <5>1. i \in 1 .. cp[1]
          BY <1>3, <2>1, <4>2
        <5> QED BY <1>1, <5>1 DEF FirstMachineInv, CheckpointNearEnd
      <4> QED BY <4>1, <4>2
    <3>2. e.id <= LastInst /\ LastInst <= e.id + 1 /\ e.id \in {e.id, e.id + 1}
      BY <1>3, <2>2
    <3>3. \A i \in 1 .. cp'[1] : Contains(Run', [id |-> i, value |-> rec'[i]])
      BY <1>1, <1>5, <2>4, <3>1
    <3> QED BY <1>1, <1>5, <2>1, <2>4, <2>5, <3>2, <3>3 DEF CheckpointNearEnd
  <2>7. WhileRunning'
    <3>1. \A i \in Inst : (i < inst' => rec'[i] \in Value) /\ (i > inst' => rec'[i] = None)
      <4>1. \A i \in Inst : i \in Nat /\ (i > LastInst => rec[i] = None)
        BY LastInstFacts, TypesOfBounds
      <4>2. rec[LastInst] \in Value
        BY <1>3, <2>1, <2>2
      <4> QED BY <1>1, <1>3, <1>4, <2>2, <2>3, <4>1, <4>2 DEF LogWithoutGaps
    <3>2. cp'[1] = IF inst' = 0 THEN 0 ELSE inst' - 1
      BY <1>3, <2>3, <2>4
    <3>3. NotBegun'
      BY <1>3, <1>5, <2>3, <2>5 DEF NotBegun
    <3> QED BY <1>1, <3>1, <3>2, <3>3 DEF WhileRunning
  <2> QED BY <1>1, <1>4, <1>5, <2>3, <2>6, <2>7
        DEF FirstMachineInv, WhileReplaying, LogWithoutGaps, Consecutive
<1>7. CASE e.machine # 1
  <2>1. /\ phase = "replaying" /\ rec[LastInst] \in Value /\ e.machine \in 2 .. count
        /\ from <= cp[1] /\ from < id
        /\ \/ id = e.id /\ id < LastInst
           \/ id = LastInst + 1 /\ e.id = LastInst /\ cp[1] = LastInst
    BY <1>1, <1>7 DEF FirstMachineInv, WhileRunning, WhileReplaying, ExecutesNext
  <2>2. count # 1 /\ cp'[1] = cp[1]
    BY <1>1, <1>3, <1>7, <2>1 DEF TypeOK
  <2>3. LogWithoutGaps' /\ Consecutive' /\ CheckpointNearEnd'
    BY <1>1, <2>2, LogKept
  <2>4. CASE id = e.id
    <3>1. id' = id + 1 /\ phase' = "replaying"
      BY <1>2, <2>1, <2>4
    <3>2. from' < id'
      BY <1>1, <1>3, <2>1, <3>1
    <3>3. WhileReplaying'
      BY <1>1, <2>1, <2>2, <3>2 DEF WhileReplaying
    <3> QED BY <1>1, <2>2, <2>3, <3>1, <3>3 DEF FirstMachineInv, WhileRunning
  <2>5. CASE id # e.id
    <3>1. inst' = LastInst + 1 /\ phase' = "running" /\ cp'[1] = LastInst
      BY <1>2, <2>1, <2>2, <2>5
    <3>2. \A i \in Inst : (i < inst' => rec'[i] \in Value) /\ (i > inst' => rec'[i] = None)
      <4>1. \A i \in Inst : i \in Nat /\ (i > LastInst => rec[i] = None)
        BY LastInstFacts, TypesOfBounds
      <4> QED BY <1>1, <1>3, <1>4, <2>1, <3>1, <4>1 DEF LogWithoutGaps
    <3>3. cp'[1] = IF inst' = 0 THEN 0 ELSE inst' - 1
      BY <1>3, <3>1
    <3>4. NotBegun'
      BY <1>3, <1>4, <1>5, <3>1, Known DEF NotBegun
    <3>5. WhileRunning'
      BY <1>1, <3>2, <3>3, <3>4 DEF WhileRunning
    <3> QED BY <1>1, <2>2, <2>3, <3>1, <3>5 DEF FirstMachineInv, WhileReplaying
  <2> QED BY <2>4, <2>5
<1> QED BY <1>6, <1>7
-----------------------------------------------------------------------------
(* The theorems. *)

LEMMA InvNext == IInv /\ [Next]_vars => IInv'
<1> SUFFICES ASSUME IInv, [Next]_vars PROVE IInv'
  OBVIOUS
<1>1. TypeOK /\ TypeOK'
  BY TypeNext DEF IInv
<1>2. count' = count
  BY DEF Next, Start, ReplayLog, ReplayLast, FirstWrite, SecondWrite, Promise, Accept, Learn,
         Crash, vars
<1>3. ASSUME doing' # <<>>
      PROVE  count' > 0 /\ phase' \in {"running", "replaying"}
  <2>1. CASE Start \/ Promise \/ (\E v \in Value : Accept(v)) \/ SecondWrite \/ Crash
    BY <1>3, <2>1 DEF IInv, Start, Promise, Accept, SecondWrite, Crash
  <2>2. CASE FirstWrite \/ UNCHANGED vars
    BY <1>3, <2>2 DEF IInv, FirstWrite, vars
  <2>3. CASE Learn
    BY <2>3 DEF Learn, Execute, Idle
  <2>4. CASE ReplayLog \/ ReplayLast
    <3>1. PICK i \in Inst : ExecuteForReplay(i, rec[LastInst]) /\ phase = "replaying" /\ doing = <<>>
      <4>1. CASE ReplayLog
        <5>1. id \in Inst
          BY <1>1, <4>1, LastInstFacts, BoundAssumption DEF ReplayLog, LastInst, TypeOK, Inst
        <5> QED BY <1>3, <4>1, <5>1 DEF ReplayLog, LastInst
      <4>2. CASE ReplayLast
        BY <1>3, <4>2, LastInstFacts DEF ReplayLast, LastInst
      <4> QED BY <2>4, <4>1, <4>2
    <3>2. Lagging(i) # {}
      BY <1>3, <3>1 DEF ExecuteForReplay
    <3>3. count > 0
      BY <1>1, <3>2 DEF Lagging, TypeOK
    <3> QED BY <1>2, <3>1, <3>2, <3>3 DEF ExecuteForReplay
  <2> QED BY <2>1, <2>2, <2>3, <2>4 DEF Next
<1>4. ASSUME count > 0 PROVE FirstMachineInv'
  <2>1. CASE Promise
    BY <1>4, <2>1, RecordFirst DEF Promise
  <2>2. CASE \E v \in Value : Accept(v)
    BY <1>4, <2>2, RecordFirst DEF Accept
  <2>3. CASE UNCHANGED vars
    <3>1. FirstMachineInv /\ UNCHANGED <<rec, done, cp>>
      BY <1>4, <2>3 DEF IInv, vars, log
    <3>2. /\ LogWithoutGaps' /\ Consecutive' /\ CheckpointNearEnd'
          /\ LastInst' = LastInst /\ Run' = Run /\ LastRun' = LastRun
      BY <3>1, LogKept
    <3> QED BY <2>3, <3>1, <3>2
          DEF FirstMachineInv, WhileRunning, WhileReplaying, NotBegun, ExecutesNext, vars, log
  <2> QED BY <1>4, <2>1, <2>2, <2>3, StartFirst, ReplayLogFirst, ReplayLastFirst, FirstWriteFirst,
             SecondWriteFirst, LearnFirst, CrashFirst DEF Next
<1> QED BY <1>1, <1>2, <1>3, <1>4 DEF IInv

LEMMA Invariance == Spec => []IInv
  BY InvInit, InvNext, PTL DEF Spec

\* Whatever the number of machines, of crashes and of instances: the first
\* machine executes the log in order, without a gap and with at most one
\* repetition at a time (ExecuteForReplay and Init, src/instance.cpp).
THEOREM FirstMachineFollowsLogCorrect == Spec => []FirstMachineFollowsLog
<1>1. IInv => FirstMachineFollowsLog
  <2> SUFFICES ASSUME IInv, count > 0
               PROVE  /\ Consecutive
                      /\ phase = "running" =>
                           \A i \in 1 .. (inst - 1) : Contains(Run, [id |-> i, value |-> rec[i]])
    BY DEF FirstMachineFollowsLog, Consecutive, Run
  <2>1. phase = "running" => \A i \in 1 .. (inst - 1) : i \in 1 .. cp[1]
    BY Known DEF FirstMachineInv, WhileRunning
  <2> QED BY <2>1, Known DEF FirstMachineInv, CheckpointNearEnd
<1> QED BY <1>1, Invariance, PTL

\* A node with one state machine passes the assertions of InstanceImpl::Init
\* wherever it stopped.
THEOREM OneMachineRestartsCorrect == Spec => []OneMachineRestarts
<1>1. IInv => OneMachineRestarts
  BY DEF IInv, FirstMachineInv, OneMachineRestarts
<1> QED BY <1>1, Invariance, PTL
==============================================================================
