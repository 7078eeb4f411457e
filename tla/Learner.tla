------------------------------- MODULE Learner ------------------------------
(***************************************************************************)
(* The learner role (src/learner.cpp): it finds out that others are in a   *)
(* later instance and copies their records to catch up.                    *)
(*                                                                         *)
(* m_bLearned is left out: OnLearn has set it whenever it is read.         *)
(***************************************************************************)
EXTENDS Accepter, StateMachineMgr

CONSTANTS
  Nobody,       \* m_ddwSeenLatestNodeId before any instance id was seen
  AskingNodes   \* bound: the nodes whose 10 s timer goes off

VARIABLE lrn    \* lrn[n]: what n has seen of others, and if it waits for a reply

ASSUME NobodyAssumption == Nobody \notin Node

ASSUME AskingNodesAssumption == AskingNodes \subseteq Node

LearnerState ==
  [asking : BOOLEAN, seen : InstOrEnd, seenNode : Node \cup {Nobody}]

LearnerTypeOK ==
  /\ lrn \in [Node -> LearnerState]
  /\ \A n \in Node : lrn[n].seen > 0 => lrn[n].seenNode \in Node

NothingSeen == [asking |-> FALSE, seen |-> 0, seenNode |-> Nobody]

LearnerInit == lrn = [n \in Node |-> NothingSeen]
-----------------------------------------------------------------------------
\* OnSeenOthersInstanceID(from, my) of a learner l in instance i: remember
\* the largest instance seen and, when i is behind it and no reply is awaited,
\* ask the node it was seen on.
Seen(l, from, my) ==
  IF l.seen < my THEN [l EXCEPT !.seen = my, !.seenNode = from] ELSE l

\* Wrong: a node that is one instance behind does not ask.
AsksFarBehind(l, i) == i + 1 < l.seen /\ ~l.asking

Asks(l, i) == i < l.seen /\ ~l.asking

\* Wrong: the instance that n is in is taken to be learned.
AskForLater(nt, n, l, i) ==
  IF Asks(l, i)
    THEN SendMessageTo(nt, n, l.seenNode, [type |-> "ASK_FOR_LEARN", from |-> i + 1])
    ELSE nt

AskForLearn(nt, n, l, i) ==
  IF Asks(l, i)
    THEN SendMessageTo(nt, n, l.seenNode, [type |-> "ASK_FOR_LEARN", from |-> i])
    ELSE nt

Asked(l, i) == [l EXCEPT !.asking = @ \/ Asks(l, i)]

OnSeenOthersInstanceID(n, nt, l, i, from, my) ==
  /\ lrn' = [lrn EXCEPT ![n] = Asked(Seen(l, from, my), i)]
  /\ net' = AskForLearn(nt, n, Seen(l, from, my), i)

\* The timer of LearnerAskForInstanceIdLoop.  It goes off every 10 s; in the
\* model, not before the messages of its last round are handled or lost.
RoundOver(n) ==
  \A r \in Node :
    /\ \A j \in DOMAIN net[n][r] : net[n][r][j].type # "ASK_FOR_INSTANCE_ID"
    /\ \A j \in DOMAIN net[r][n] : net[r][n][j].type # "ASK_FOR_INSTANCE_ID_REPLY"

AskForInstanceID(n) ==
  /\ up[n]
  /\ n \in AskingNodes
  /\ RoundOver(n)
  /\ net' = Broadcast(net, n, [type |-> "ASK_FOR_INSTANCE_ID", my |-> inst[n]])
  /\ UNCHANGED lrn

\* The asker s may be behind, or ahead, and is then asked before the reply.
OnAskForInstanceID(n, s, m) ==
  LET l == Seen(lrn[n], s, m.my)
  IN
  /\ lrn' = [lrn EXCEPT ![n] = Asked(l, inst[n])]
  /\ net' = SendMessageTo(AskForLearn(Received(s, n), n, l, inst[n]), n, s,
               [type |-> "ASK_FOR_INSTANCE_ID_REPLY", my |-> inst[n]])

OnAskForInstanceIDReply(n, s, m) ==
  OnSeenOthersInstanceID(n, Received(s, n), lrn[n], inst[n], s, m.my)

\* RejectAskForLearn: a reply with no field set.
NothingToLearn ==
  [type |-> "ASK_FOR_LEARN_REPLY", start |-> 0, states |-> <<>>, my |-> 0]

\* s asks for the records from m.from on.  Loading stops at the size limit
\* (any k >= 1 in the model) after one record more than it sends has been
\* loaded; a record that cannot be loaded ends the handler without a reply.
OnAskForLearn(n, s, m) ==
  LET Missing == {i \in m.from .. (inst[n] - 1) : storage[n][i] = NoRecord}
  IN
  IF m.from >= inst[n]
    THEN net' = SendMessageTo(Received(s, n), n, s, NothingToLearn)
    ELSE \/ \E k \in 1 .. (inst[n] - m.from) :
              /\ \A i \in Missing : i > m.from + k
              /\ net' = SendMessageTo(Received(s, n), n, s,
                   [type |-> "ASK_FOR_LEARN_REPLY", start |-> m.from,
                    states |-> [j \in 1 .. k |-> storage[n][m.from + j - 1]],
                    my |-> inst[n]])
         \/ /\ Missing # {}
            /\ net' = Received(s, n)

\* Wrong: states of instances that n has left are new too.
FirstState(n, m) == m.start

\* The reply m at n: a state of an instance that n has left is skipped.
FirstNew(n, m) == IF m.start > inst[n] THEN m.start ELSE inst[n]

\* Wrong: one state too many is skipped.
LaterStates(n, m) == SubSeq(m.states, FirstNew(n, m) - m.start + 2, Len(m.states))

NewStates(n, m) == SubSeq(m.states, FirstNew(n, m) - m.start + 1, Len(m.states))

\* Each new state is persisted, executed and ends an instance, in that order:
\* the first p of them were persisted and the first k of these executed.
Learned(n, m, p, k) ==
  LET first == FirstNew(n, m)
      new == NewStates(n, m)
  IN
  /\ storage' = [storage EXCEPT ![n] =
       [i \in Inst |-> IF i \in first .. (first + p - 1)
                         THEN new[i - first + 1] ELSE @[i]]]
  /\ ExecuteAll(n, first, [j \in 1 .. k |-> new[j].proposal.value])
  /\ inst' = [inst EXCEPT ![n] = @ + k]

\* Wrong: the learner does not take note that its question was answered.
StillAsking(l) == l

Answered(l) == [l EXCEPT !.asking = FALSE]

\* When an execution fails the handler returns at once: `asking' stays set.
OnAskForLearnReply(n, s, m) ==
  LET new == NewStates(n, m)
  IN
  \/ /\ Learned(n, m, Len(new), Len(new))
     /\ acc' = [acc EXCEPT ![n] = IF new # <<>> THEN EmptyState ELSE @]
     /\ OnSeenOthersInstanceID(n, Received(s, n),
          Answered(lrn[n]), inst'[n], s, m.my)
  \/ \E k \in 0 .. (Len(new) - 1) :
        /\ new[k + 1].proposal.value \in MayFail
        /\ Learned(n, m, k + 1, k)
        /\ acc' = [acc EXCEPT ![n] = IF k > 0 THEN EmptyState ELSE @]
        /\ net' = Received(s, n)
        /\ UNCHANGED lrn
=============================================================================
