------------------------- MODULE InstanceProperties -------------------------
(***************************************************************************)
(* What a group of nodes has to guarantee, and the fairness under which it *)
(* makes progress.  Some of the properties hold in every environment, some *)
(* only in the one app/test.cpp sets up: a single node whose client        *)
(* proposes, no crash and no broken connection.  README.md says which.     *)
(***************************************************************************)
EXTENDS Instance

\* What the state machine of n has executed.
Entries(n) == {smlog[n][k] : k \in DOMAIN smlog[n]}

ExecutedValues(n) == [k \in DOMAIN smlog[n] |-> smlog[n][k].value]
-----------------------------------------------------------------------------
(* Of the votes. *)

\* A proposal number stands for one value, although a proposer may change its
\* value in the middle of a round (OnPromised), start a round in any stage,
\* and crash.
OneValuePerProposal ==
  \A v, w \in votes : v.id = w.id => v.inst = w.inst /\ v.value = w.value

\* No accepter accepts a proposal below one it has promised in the same
\* instance, not even after a crash in between: OnAccept compares with the
\* promise in memory, Init has to find it in the storage.
AcceptRespectsPromise ==
  [][\A v \in votes' \ votes : \A p \in promises :
        p.node = v.node /\ p.inst = v.inst => p.id <= v.id]_vars

\* The accepter never knows more than its storage: what it has promised or
\* accepted in memory was persisted before anyone was told.
WriteAhead ==
  \A n \in Node : up[n] /\ inst[n] <= MaxInst =>
    \/ storage[n][inst[n]] = acc[n]
    \/ storage[n][inst[n]] = NoRecord /\ acc[n] = EmptyState
-----------------------------------------------------------------------------
(* Of the state machines. *)

\* StateMachine::Execute gets "strChosenValue": what is executed in an instance
\* was accepted by a majority in one proposal.
ExecutedIsChosen ==
  \A n \in Node : \A e \in Entries(n) : Chosen(e.id, e.value)

\* Two executions of one instance, on any nodes, are of one value.
Agreement ==
  \A n, r \in Node : \A e \in Entries(n), f \in Entries(r) :
    e.id = f.id => e.value = f.value

\* Without crashes, a state machine executes the instances 0, 1, 2, ... with no
\* gap and none twice, whether it learns them from LEARN or catches up.
ExecutesInOrder ==
  \A n \in Node : \A k \in DOMAIN smlog[n] : smlog[n][k].id = k - 1

\* No instance is executed again, neither by replay after a crash nor by
\* catching up on what was executed already.
NoReexecution ==
  \A n \in Node : \A j, k \in DOMAIN smlog[n] :
    j < k => smlog[n][j].id < smlog[n][k].id

\* The state machines form a replicated log.
Log == INSTANCE ReplicatedLog
         WITH Replica <- Node, Command <- AnyValue,
              log <- [n \in Node |-> ExecutedValues(n)]

ImplementsReplicatedLog == Log!Spec
-----------------------------------------------------------------------------
(* Of the clients. *)

\* A client may be told Ok only if its own node has executed its value in the
\* instance named, although timers of earlier calls and commits of earlier
\* proposals end up in the same Context.
ResultSound ==
  \A n \in Node : ctx[n].state = "notified" /\ ctx[n].ret \in {Ok, Unset} =>
    [id |-> ctx[n].id, value |-> ctx[n].value] \in Entries(n)

\* A call of Propose that waits while its timer is running returns: whatever
\* removes the timer commits a result.
WaitReturns ==
  \A n \in Node :
    ctx[n].state = "waiting" /\ timers[n].live ~> ctx[n].state = "idle"
-----------------------------------------------------------------------------
(* Of the learners. *)

\* What s sent to r and r has not handled, in the network nt.
Carried(nt, s, r) == {nt[s][r][j] : j \in DOMAIN nt[s][r]}

\* Nobody asks for, or is sent, records from an instance on that it has not
\* reached: it would leave a gap in its storage and in what it executes.
AsksFromReached ==
  \A s, r \in Node : \A m \in Carried(net, s, r) :
    /\ m.type = "ASK_FOR_LEARN" => m.from <= inst[s]
    /\ m.type = "ASK_FOR_LEARN_REPLY" => m.start <= inst[r]

\* A catch-up reply carries, for each instance, the value its sender executed,
\* although the sender has it from its storage and executed it from memory.
CatchUpFaithful ==
  \A s, r \in Node : \A j \in DOMAIN net[s][r] :
    LET m == net[s][r][j] IN
    m.type = "ASK_FOR_LEARN_REPLY" =>
      \A k \in DOMAIN m.states :
        [id |-> m.start + k - 1, value |-> m.states[k].proposal.value] \in Entries(s)

\* Without faults, a learner that waits for a reply is going to get one:
\* `asking' would keep it from asking ever again.
AskIsAnswered ==
  \A n \in Node : lrn[n].asking =>
    \E s \in Node :
      \/ \E j \in DOMAIN net[n][s] : net[n][s][j].type = "ASK_FOR_LEARN"
      \/ \E j \in DOMAIN net[s][n] : net[s][n][j].type = "ASK_FOR_LEARN_REPLY"

\* Without faults, a node whose timer runs gets to the instance of any other.
LaggardCatchesUp ==
  \A n \in AskingNodes : \A i \in InstOrEnd :
    (\E r \in Node : inst[r] >= i) ~> inst[n] >= i
-----------------------------------------------------------------------------
\* The event loop of a node handles its messages and timeouts in turn, and
\* never stops while the node runs; a client that has been notified is
\* scheduled, as is one that is about to wait.  Nothing makes a client propose,
\* or a node crash or restart.
Fairness ==
  \A n \in Node :
    /\ \A s \in Node : WF_vars(OnMessage(s, n))
    /\ WF_vars(ProposeTimeoutStep(n))
    /\ WF_vars(AskStep(n))
    /\ WF_vars((Wait(n) \/ Return(n)) /\ ClientStep(n))

FairSpec == Spec /\ Fairness
=============================================================================
