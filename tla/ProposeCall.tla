----------------------------- MODULE ProposeCall ----------------------------
(***************************************************************************)
(* InstanceImpl::Propose as the client's thread runs it (src/instance.cpp, *)
(* src/proposer.cpp): the event loop of the same node, which takes no lock *)
(* either, may handle an event between any two of its accesses to the      *)
(* context, the proposer and the instance id.  Instance has it as one step.*)
(*                                                                         *)
(* One write of a field is one step: what two threads make of a string     *)
(* they write and read at the same time is left out.                       *)
(***************************************************************************)
EXTENDS InstanceProperties

VARIABLES
  pc,      \* pc[n]: what n's client is going to do next
  read     \* read[n]: the instance id it has read last

callVars == <<pc, read>>

Steps == {"none", "reset", "timeout", "respawn", "stage", "proposal", "message",
          "ballot", "broadcast"}

\* The types of Instance, and of the client's progress.
CallTypeOK ==
  /\ TypeOK
  /\ pc \in [Node -> Steps]
  /\ read \in [Node -> InstOrEnd]

CallInit == Init /\ pc = [n \in Node |-> "none"] /\ read = [n \in Node |-> 0]
-----------------------------------------------------------------------------
\* The client of n does what comes at `from', and `to' is next.
At(n, from, to) ==
  /\ up[n]
  /\ pc[n] = from
  /\ pc' = [pc EXCEPT ![n] = to]

\* Propose reads the instance id,
ReadId(n) ==
  /\ At(n, "none", "reset")
  /\ ctx[n].state = "idle"
  /\ inst[n] <= MaxInst
  /\ \E id \in RespawnProposalId(n) : TRUE
  /\ read' = [read EXCEPT ![n] = inst[n]]
  /\ UNCHANGED <<net, ctx, timers, proposerVars>>

\* tells the context,
ResetContext(n, v) ==
  /\ At(n, "reset", "timeout")
  /\ ctx' = [ctx EXCEPT ![n] = Reset(@, read[n], v)]
  /\ UNCHANGED <<net, read, timers, proposerVars>>

\* sets the timer (which does not fire before its id is stored),
SetTimeout(n) ==
  /\ At(n, "timeout", "respawn")
  /\ timers' = [timers EXCEPT ![n] = AddTimeout(@)]
  /\ UNCHANGED <<net, read, ctx, proposerVars>>

\* and calls Proposer::Propose: a new number,
Respawn(n) ==
  /\ At(n, "respawn", "stage")
  /\ \E id \in RespawnProposalId(n) : prop' = [prop EXCEPT ![n].id = id]
  /\ UNCHANGED <<net, read, ctx, timers, ballot>>

\* the stage,
SetStage(n) ==
  /\ At(n, "stage", "proposal")
  /\ prop' = [prop EXCEPT ![n].stage = "Preparing"]
  /\ UNCHANGED <<net, read, ctx, timers, ballot>>

\* the proposal,
SetProposal(n) ==
  /\ At(n, "proposal", "message")
  /\ prop' = [prop EXCEPT ![n].value = ctx[n].value]
  /\ UNCHANGED <<net, read, ctx, timers, ballot>>

\* the instance id of PREPARE,
MakeMessage(n) ==
  /\ At(n, "message", "ballot")
  /\ read' = [read EXCEPT ![n] = inst[n]]
  /\ UNCHANGED <<net, ctx, timers, proposerVars>>

\* the ballot,
ResetBallot(n) ==
  /\ At(n, "ballot", "broadcast")
  /\ ballot' = [ballot EXCEPT ![n] = EmptyBallot]
  /\ UNCHANGED <<net, read, ctx, timers, prop>>

\* and the message (bound: not for an instance after the last).
SendPrepare(n) ==
  /\ At(n, "broadcast", "none")
  /\ net' = IF read[n] > MaxInst THEN net
            ELSE Broadcast(net, n, [type |-> "PREPARE", inst |-> read[n], id |-> prop[n].id])
  /\ UNCHANGED <<read, ctx, timers, proposerVars>>

CallStep(n) ==
  /\ \/ ReadId(n) \/ (\E v \in Value : ResetContext(n, v)) \/ SetTimeout(n)
     \/ Respawn(n) \/ SetStage(n) \/ SetProposal(n) \/ MakeMessage(n)
     \/ ResetBallot(n) \/ SendPrepare(n)
     \/ /\ pc[n] = "none" /\ (Wait(n) \/ Wakeup(n) \/ Return(n))
        /\ UNCHANGED <<net, callVars, proposerVars>>
  /\ UNCHANGED <<up, inst, breaks, storage, accepterVars, lrn, stateMachineVars,
                 crashes>>

\* Nothing else uses the proposer or the context.  A crash ends the call.
CallNext ==
  \/ \E n \in Node : CallStep(n)
  \/ (\E n \in Node : ProposeTimeoutStep(n)) /\ UNCHANGED callVars
  \/ (\E s, n \in Node : OnMessage(s, n)) /\ UNCHANGED callVars

CallSpec == CallInit /\ [][CallNext]_<<vars, callVars>>

\* n's client is in Propose, and not waiting.
Calling(n) == pc[n] # "none" \/ ctx[n].state \in {"called", "notified"}

\* As Fairness of Instance; a client that has begun a call goes on.
FairCallSpec ==
  /\ CallSpec
  /\ \A n \in Node :
       /\ \A s \in Node : WF_vars(OnMessage(s, n))
       /\ WF_vars(ProposeTimeoutStep(n))
       /\ WF_<<vars, callVars>>(Calling(n) /\ CallStep(n))
=============================================================================
