----------------------------- MODULE MCInstance -----------------------------
(***************************************************************************)
(* Small instances of a group for TLC: who proposes, and how often; which  *)
(* nodes and values can be exchanged for one another.                      *)
(***************************************************************************)
EXTENDS CatchUp, TLC

CONSTANTS n1, n2, n3

NoProposer == [n \in Node |-> {}]

\* n1 alone proposes, as in app/test.cpp: once or three times.
OneProposal == [n \in Node |-> IF n = n1 THEN {1} ELSE {}]

ThreeProposals == [n \in Node |-> IF n = n1 THEN {1, 2, 3} ELSE {}]

\* n1 and n2 propose, once each.
TwoProposers == [n \in Node |-> CASE n = n1 -> {1} [] n = n2 -> {2} [] OTHER -> {}]
-----------------------------------------------------------------------------
ValueSymmetry == Permutations(Value)

\* Where only n1 proposes, n2 and n3 can be exchanged.
FollowerSymmetry == Permutations(Value) \cup Permutations({n2, n3})

\* Where only n3 asks and crashes, n1 and n2 can be exchanged.
AheadSymmetry == Permutations({n1, n2})
=============================================================================
