--------------------------- MODULE MCProposeCall ----------------------------
(***************************************************************************)
(* A small instance of ProposeCall.                                        *)
(***************************************************************************)
EXTENDS ProposeCall, TLC

CONSTANTS n1, n2

\* n1 alone proposes, three times.
ThreeProposals == [n \in Node |-> IF n = n1 THEN {1, 2, 3} ELSE {}]
=============================================================================
