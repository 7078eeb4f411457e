------------------------------ MODULE Accepter ------------------------------
(***************************************************************************)
(* The accepter role (src/accepter.cpp): it promises not to accept lower   *)
(* proposals, and accepts a proposal that it has not promised against.     *)
(* Both are persisted before the reply is sent.                            *)
(***************************************************************************)
EXTENDS Storage

VARIABLES
  acc,         \* acc[n]: m_oState, the state of instance inst[n] in memory
  promises,    \* history: every promise made
  votes        \* history: every proposal accepted

accepterVars == <<acc, promises, votes>>

Promise == [node : Node, inst : Inst, id : Nat]

Vote == [node : Node, inst : Inst, id : Nat, value : AnyValue]

AccepterTypeOK ==
  /\ acc \in [Node -> State]
  /\ promises \in SUBSET Promise
  /\ votes \in SUBSET Vote

AccepterInit ==
  /\ acc = [n \in Node |-> EmptyState]
  /\ promises = {}
  /\ votes = {}
-----------------------------------------------------------------------------
\* The four replies.  None says which proposal it answers.  PROMISED has an
\* accepted_proposal just when n has accepted one.
ReplyPromised(n, s) ==
  SendMessageTo(Received(s, n), n, s,
    [type |-> "PROMISED", inst |-> inst[n],
     accepted |-> acc[n].accepted, proposal |-> acc[n].proposal])

ReplyRejectPromise(n, s) ==
  SendMessageTo(Received(s, n), n, s, [type |-> "REJECT_PROMISE", inst |-> inst[n]])

ReplyAccepted(n, s) ==
  SendMessageTo(Received(s, n), n, s, [type |-> "ACCEPTED", inst |-> inst[n]])

ReplyRejectAccept(n, s) ==
  SendMessageTo(Received(s, n), n, s, [type |-> "REJECT_ACCEPT", inst |-> inst[n]])

\* The proposer s asks n to promise.
OnPrepare(n, s, m) ==
  \/ /\ ~acc[n].promised \/ acc[n].promisedId <= m.id
     /\ acc' = [acc EXCEPT ![n].promised = TRUE, ![n].promisedId = m.id]
     /\ Persist(n, inst[n], acc'[n])
     /\ promises' = promises \cup {[node |-> n, inst |-> inst[n], id |-> m.id]}
     /\ net' = ReplyPromised(n, s)
     /\ UNCHANGED votes
  \/ /\ acc[n].promised /\ acc[n].promisedId > m.id
     /\ net' = ReplyRejectPromise(n, s)
     /\ UNCHANGED <<storage, accepterVars>>

\* The proposer s asks n to accept.  Accepting does not raise the promise.
OnAccept(n, s, m) ==
  \/ /\ acc[n].promisedId <= m.proposal.id
     /\ acc' = [acc EXCEPT ![n].accepted = TRUE, ![n].proposal = m.proposal]
     /\ Persist(n, inst[n], acc'[n])
     /\ votes' = votes \cup {[node |-> n, inst |-> inst[n],
                              id |-> m.proposal.id, value |-> m.proposal.value]}
     /\ net' = ReplyAccepted(n, s)
     /\ UNCHANGED promises
  \/ /\ acc[n].promisedId > m.proposal.id
     /\ net' = ReplyRejectAccept(n, s)
     /\ UNCHANGED <<storage, accepterVars>>
-----------------------------------------------------------------------------
\* A majority accepted the value v in one and the same proposal of instance i.
Chosen(i, v) ==
  \E vote \in votes :
    /\ vote.inst = i /\ vote.value = v
    /\ Cardinality({n \in Node : [vote EXCEPT !.node = n] \in votes}) >= GetMajority
=============================================================================
