------------------------------ MODULE Proposer ------------------------------
(***************************************************************************)
(* The proposer role (src/proposer.cpp): two rounds of votes, then LEARN.  *)
(*                                                                         *)
(* A reply does not name the proposal it answers, so whatever reply of the *)
(* current instance arrives is counted by the round in progress.           *)
(* InitForNewInstance does nothing: the stage outlives the instance.       *)
(***************************************************************************)
EXTENDS Context

VARIABLES
  prop,     \* prop[n]: m_ddwProposalId, m_oStage, the value of m_oProposal
  ballot    \* ballot[n]: m_oBallot

proposerVars == <<prop, ballot>>

ProposerState ==
  [id : Nat, stage : {"Idle", "Preparing", "Accepting"}, value : AnyValue]

BallotState ==
  [up : SUBSET Node, down : SUBSET Node, chosen : Proposal, other : BOOLEAN]

ProposerTypeOK ==
  /\ prop \in [Node -> ProposerState]
  /\ ballot \in [Node -> BallotState]

NoRound == [id |-> 0, stage |-> "Idle", value |-> Empty]

ProposerInit ==
  /\ prop = [n \in Node |-> NoRound]
  /\ ballot = [n \in Node |-> EmptyBallot]
-----------------------------------------------------------------------------
\* Wrong: a number is used twice (the counter starts at 0 again after a restart
\* within the same second).
RespawnSameId(n) == {id \in ProposalIds[n] : id >= prop[n].id}

\* seconds << 32 + counter << 16 + m_ddwNodeId: the numbers of one node grow as
\* long as its clock does and the counter does not wrap within a second.
RespawnProposalId(n) == {id \in ProposalIds[n] : id > prop[n].id}

\* InstanceImpl::Propose by the client of n, up to the wait; the proposer may
\* be in any stage.
Propose(n, v) ==
  /\ up[n]
  /\ ctx[n].state = "idle"
  /\ inst[n] <= MaxInst
  /\ \E id \in RespawnProposalId(n) :
        /\ prop' = [prop EXCEPT ![n] = [id |-> id, stage |-> "Preparing", value |-> v]]
        /\ net' = Broadcast(net, n, [type |-> "PREPARE", inst |-> inst[n], id |-> id])
  /\ ballot' = [ballot EXCEPT ![n] = EmptyBallot]
  /\ ctx' = [ctx EXCEPT ![n] = Reset(@, inst[n], v)]
  /\ timers' = [timers EXCEPT ![n] = AddTimeout(@)]

\* The network nt once n has told everyone to accept, or to learn.
Accept(n, nt, id, v) ==
  Broadcast(nt, n, [type |-> "ACCEPT", inst |-> inst[n],
                    proposal |-> [id |-> id, value |-> v]])

Learn(n, nt) == Broadcast(nt, n, [type |-> "LEARN", inst |-> inst[n]])

\* A reply the stage does not wait for.
Skipped(n, s) ==
  /\ net' = Received(s, n)
  /\ UNCHANGED <<ctx, proposerVars>>

\* A promise: with a majority the proposer goes on with the value of the
\* highest proposal reported, its own value if none was.
OnPromised(n, s, m) ==
  LET b == IF m.accepted THEN VoteUpWith(ballot[n], s, m.proposal)
                         ELSE VoteUp(ballot[n], s)
      v == GetChosenValue(b, prop[n].value)
  IN
  \/ /\ prop[n].stage = "Preparing" /\ IsMajorityUp(b)
     /\ prop' = [prop EXCEPT ![n].stage = "Accepting", ![n].value = v]
     /\ ballot' = [ballot EXCEPT ![n] = EmptyBallot]
     /\ net' = Accept(n, Received(s, n), prop[n].id, v)
     /\ UNCHANGED ctx
  \/ /\ prop[n].stage = "Preparing" /\ ~IsMajorityUp(b)
     /\ ballot' = [ballot EXCEPT ![n] = b]
     /\ net' = Received(s, n)
     /\ UNCHANGED <<ctx, prop>>
  \/ prop[n].stage # "Preparing" /\ Skipped(n, s)

\* A down vote; with a majority of them the round is given up and the client
\* told so.  The timer of the call stays.
Rejected(n, s, stage) ==
  LET b == VoteDown(ballot[n], s)
  IN
  \/ /\ prop[n].stage = stage
     /\ ballot' = [ballot EXCEPT ![n] = b]
     /\ net' = Received(s, n)
     /\ IF IsMajorityDown(b)
          THEN /\ prop' = [prop EXCEPT ![n].stage = "Idle"]
               /\ ctx' = [ctx EXCEPT ![n] = CommitResult(@, FALSE, inst[n], Empty)]
          ELSE UNCHANGED <<ctx, prop>>
  \/ prop[n].stage # stage /\ Skipped(n, s)

OnRejectPromise(n, s) == Rejected(n, s, "Preparing")

OnRejectAccept(n, s) == Rejected(n, s, "Accepting")

\* An acceptance: with a majority every node is told to learn.
OnAccepted(n, s) ==
  LET b == VoteUp(ballot[n], s)
  IN
  \/ /\ prop[n].stage = "Accepting" /\ IsMajorityUp(b)
     /\ prop' = [prop EXCEPT ![n].stage = "Idle"]
     /\ ballot' = [ballot EXCEPT ![n] = b]
     /\ net' = Learn(n, Received(s, n))
     /\ UNCHANGED ctx
  \/ /\ prop[n].stage = "Accepting" /\ ~IsMajorityUp(b)
     /\ ballot' = [ballot EXCEPT ![n] = b]
     /\ net' = Received(s, n)
     /\ UNCHANGED <<ctx, prop>>
  \/ prop[n].stage # "Accepting" /\ Skipped(n, s)
=============================================================================
