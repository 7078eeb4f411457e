------------------------------ MODULE Instance ------------------------------
(***************************************************************************)
(* One group of the cluster: on every node an InstanceImpl                 *)
(* (src/instance.cpp), which gives its three roles the messages of the     *)
(* event loop one at a time, and moves them to the next instance together. *)
(* Nodes crash, losing all but the storage and the state machine, and      *)
(* restart.                                                                *)
(***************************************************************************)
EXTENDS Proposer, Learner

CONSTANTS
  MaxCrashes,      \* bound: how many crashes a behaviour has
  CrashingNodes    \* bound: the nodes that crash

VARIABLE crashes         \* how many there have been (bounded by MaxCrashes)

ASSUME CrashAssumption == MaxCrashes \in Nat /\ CrashingNodes \subseteq Node

vars == <<up, inst, net, breaks, storage, accepterVars, contextVars,
          proposerVars, lrn, stateMachineVars, crashes>>

TypeOK ==
  /\ RoleTypeOK
  /\ StorageTypeOK
  /\ AccepterTypeOK
  /\ ContextTypeOK
  /\ ProposerTypeOK
  /\ LearnerTypeOK
  /\ StateMachineTypeOK
  /\ crashes \in 0 .. MaxCrashes

Init ==
  /\ RoleInit
  /\ StorageInit
  /\ AccepterInit
  /\ ContextInit
  /\ ProposerInit
  /\ LearnerInit
  /\ StateMachineInit
  /\ crashes = 0
-----------------------------------------------------------------------------
\* A message of another instance is dropped, except for the four by which
\* learners catch up.
HasInstance(m) ==
  m.type \in {"PREPARE", "PROMISED", "REJECT_PROMISE",
              "ACCEPT", "ACCEPTED", "REJECT_ACCEPT", "LEARN"}

OnOtherInstance(n, s, m) ==
  /\ HasInstance(m) /\ m.inst # inst[n]
  /\ net' = Received(s, n)
  /\ UNCHANGED <<inst, storage, accepterVars, contextVars, proposerVars,
                 lrn, stateMachineVars>>

OnProposerMessage(n, s, m) ==
  /\ HasInstance(m) /\ m.inst = inst[n]
  /\ \/ m.type = "PROMISED" /\ OnPromised(n, s, m)
     \/ m.type = "REJECT_PROMISE" /\ OnRejectPromise(n, s)
     \/ m.type = "ACCEPTED" /\ OnAccepted(n, s)
     \/ m.type = "REJECT_ACCEPT" /\ OnRejectAccept(n, s)
  /\ UNCHANGED <<inst, storage, accepterVars, timers, lrn, stateMachineVars>>

OnAccepterMessage(n, s, m) ==
  /\ HasInstance(m) /\ m.inst = inst[n]
  /\ \/ m.type = "PREPARE" /\ OnPrepare(n, s, m)
     \/ m.type = "ACCEPT" /\ OnAccept(n, s, m)
  /\ UNCHANGED <<inst, contextVars, proposerVars, lrn, stateMachineVars>>

\* s says the instance is decided.  What n executes is the value its own
\* accepter holds.  The proposer's node then answers its client.  When the
\* execution fails the instance stays open.
OnLearn(n, s, m) ==
  LET v == acc[n].proposal.value
  IN
  /\ HasInstance(m) /\ m.inst = inst[n]
  /\ m.type = "LEARN"
  /\ net' = Received(s, n)
  /\ \/ /\ Execute(n, inst[n], v)
        /\ inst' = [inst EXCEPT ![n] = @ + 1]
        /\ acc' = [acc EXCEPT ![n] = EmptyState]
        /\ IF s = n
             THEN /\ timers' = [timers EXCEPT ![n] = RemoveTimeout(@)]
                  /\ ctx' = [ctx EXCEPT ![n] = CommitResult(@, TRUE, inst[n], v)]
             ELSE UNCHANGED contextVars
     \/ /\ v \in MayFail
        /\ UNCHANGED <<inst, acc, contextVars, stateMachineVars>>
  /\ UNCHANGED <<storage, promises, votes, proposerVars, lrn>>

OnLearnerMessage(n, s, m) ==
  \/ /\ \/ m.type = "ASK_FOR_INSTANCE_ID" /\ OnAskForInstanceID(n, s, m)
        \/ m.type = "ASK_FOR_INSTANCE_ID_REPLY" /\ OnAskForInstanceIDReply(n, s, m)
     /\ UNCHANGED <<inst, storage, acc, stateMachineVars>>
     /\ UNCHANGED <<promises, votes, contextVars, proposerVars>>
  \/ /\ m.type = "ASK_FOR_LEARN" /\ OnAskForLearn(n, s, m)
     /\ UNCHANGED <<inst, storage, acc, lrn, stateMachineVars>>
     /\ UNCHANGED <<promises, votes, contextVars, proposerVars>>
  \/ /\ m.type = "ASK_FOR_LEARN_REPLY" /\ OnAskForLearnReply(n, s, m)
     /\ UNCHANGED <<promises, votes, contextVars, proposerVars>>

\* The event loop of n handles the first message from s.
OnMessage(s, n) ==
  /\ up[n]
  /\ net[s][n] # <<>>
  /\ LET m == Head(net[s][n]) IN
       \/ OnOtherInstance(n, s, m)
       \/ OnProposerMessage(n, s, m)
       \/ OnAccepterMessage(n, s, m)
       \/ OnLearn(n, s, m)
       \/ OnLearnerMessage(n, s, m)
  /\ UNCHANGED <<up, breaks, crashes>>
-----------------------------------------------------------------------------
\* The process of n dies, between two events or, in the middle of
\* OnAskForLearnReply, after a state was persisted and before it was executed.
\* What others sent to n is lost; what n sent can still arrive.
CrashWhileLearning(n) ==
  \E s \in Node :
    /\ net[s][n] # <<>>
    /\ LET m == Head(net[s][n]) IN
         /\ m.type = "ASK_FOR_LEARN_REPLY"
         /\ \E k \in 1 .. Len(NewStates(n, m)) : Learned(n, m, k, k - 1)

Crash(n) ==
  /\ up[n]
  /\ n \in CrashingNodes
  /\ crashes < MaxCrashes
  /\ crashes' = crashes + 1
  /\ \/ UNCHANGED <<inst, storage, stateMachineVars>>
     \/ CrashWhileLearning(n)
  /\ up' = [up EXCEPT ![n] = FALSE]
  /\ net' = [s \in Node |-> [net[s] EXCEPT ![n] = <<>>]]
  /\ acc' = [acc EXCEPT ![n] = EmptyState]
  /\ ctx' = [ctx EXCEPT ![n] = NoCall]
  /\ timers' = [timers EXCEPT ![n] = NoTimers]
  /\ prop' = [prop EXCEPT ![n] = [NoRound EXCEPT !.id = prop[n].id]]
  /\ ballot' = [ballot EXCEPT ![n] = EmptyBallot]
  /\ lrn' = [lrn EXCEPT ![n] = NothingSeen]
  /\ UNCHANGED <<breaks, promises, votes>>

\* The values Init executes after the checkpoint, if the last record is
\* accepted: in every instance up to it, the value of the last record.
Replayed(n) ==
  LET last == LoadLastState(n)
  IN  [j \in 1 .. (IF last.accepted /\ cp[n] < GetMaxInstanceId(n)
                     THEN GetMaxInstanceId(n) - cp[n] ELSE 0) |-> last.proposal.value]

\* InstanceImpl::Init.  A last record that is accepted is taken for decided and
\* the node starts in the next instance.  The assertions are guards: where one
\* fails, Init aborts.
Restart(n) ==
  LET max == GetMaxInstanceId(n)
      last == LoadLastState(n)
  IN
  /\ ~up[n]
  /\ cp[n] + 1 < max => last.accepted
  /\ \/ /\ ExecuteAll(n, cp[n] + 1, Replayed(n))
        /\ up' = [up EXCEPT ![n] = TRUE]
        /\ inst' = [inst EXCEPT ![n] = IF last.accepted THEN max + 1 ELSE max]
        /\ acc' = [acc EXCEPT ![n] = IF last.accepted THEN EmptyState ELSE last]
        /\ \E heard \in SUBSET (Running \cup {n}) :
             net' = Send(net, n, heard,
                         [type |-> "ASK_FOR_INSTANCE_ID", my |-> inst'[n]])
     \/ /\ last.proposal.value \in MayFail
        /\ \E k \in 0 .. (Len(Replayed(n)) - 1) :
              ExecuteAll(n, cp[n] + 1, SubSeq(Replayed(n), 1, k))
        /\ UNCHANGED <<up, inst, acc, net>>
  /\ UNCHANGED <<breaks, storage, promises, votes, contextVars, proposerVars,
                 lrn, crashes>>
-----------------------------------------------------------------------------
ClientStep(n) ==
  /\ \/ \E v \in Value : Propose(n, v)
     \/ /\ Wait(n) \/ Wakeup(n) \/ Return(n)
        /\ UNCHANGED <<net, proposerVars>>
  /\ UNCHANGED <<up, inst, breaks, storage, accepterVars, lrn, stateMachineVars,
                 crashes>>

\* OnTimeout.
ProposeTimeoutStep(n) ==
  /\ ProposeTimeout(n)
  /\ UNCHANGED <<up, inst, net, breaks, storage, accepterVars, proposerVars,
                 lrn, stateMachineVars, crashes>>

AskStep(n) ==
  /\ AskForInstanceID(n)
  /\ UNCHANGED <<up, inst, breaks, storage, accepterVars, contextVars,
                 proposerVars, stateMachineVars, crashes>>

BreakStep(s, n) ==
  /\ Break(s, n)
  /\ UNCHANGED <<storage, accepterVars, contextVars, proposerVars, lrn,
                 stateMachineVars, crashes>>

Next ==
  \/ \E n \in Node : ClientStep(n)
  \/ \E n \in Node : ProposeTimeoutStep(n)
  \/ \E n \in Node : AskStep(n)
  \/ \E s, n \in Node : OnMessage(s, n)
  \/ \E s, n \in Node : BreakStep(s, n)
  \/ \E n \in Node : Crash(n)
  \/ \E n \in Node : Restart(n)

Spec == Init /\ [][Next]_vars
=============================================================================
