------------------------------- MODULE Ballot -------------------------------
(***************************************************************************)
(* The vote counter of a proposer (include/paxoslib/util/ballot.hpp).      *)
(*                                                                         *)
(* A ballot is a record: the sets of up and down voters, the accepted      *)
(* proposal of the highest id reported by an up vote, and whether any was  *)
(* reported.  m_ddwMaxProposalId is left out: nothing ever reads it.       *)
(***************************************************************************)
EXTENDS Integers, FiniteSets

CONSTANT Empty      \* the value of a cleared Proposal message, ""

\* A Proposal message (proto/common.proto); proto3 clears the id to 0.
NoProposal == [id |-> 0, value |-> Empty]

\* Every caller runs ResetBallot(3), whatever the number of configured peers.
BallotTotal == 3

EmptyBallot == [up |-> {}, down |-> {}, chosen |-> NoProposal, other |-> FALSE]

\* VoteUp(voter): a std::set, so a voter counts once.
VoteUp(b, voter) == [b EXCEPT !.up = @ \cup {voter}]

\* VoteUp(voter, proposal) keeps the reported proposal with the highest id.
VoteUpWith(b, voter, p) ==
  IF p.id > b.chosen.id
    THEN [VoteUp(b, voter) EXCEPT !.chosen = p, !.other = TRUE]
    ELSE VoteUp(b, voter)

VoteDown(b, voter) == [b EXCEPT !.down = @ \cup {voter}]

GetMajority == BallotTotal \div 2 + 1

IsMajorityUp(b) == Cardinality(b.up) >= GetMajority

IsMajorityDown(b) == Cardinality(b.down) >= GetMajority

\* The value the proposer goes on with: a reported one if there is any.
GetChosenValue(b, willing) == IF b.other THEN b.chosen.value ELSE willing
=============================================================================
