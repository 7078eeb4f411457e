------------------------------ MODULE MCNetwork -----------------------------
(***************************************************************************)
(* Small instances of Network.                                             *)
(***************************************************************************)
EXTENDS Network, TLC

CONSTANTS n1, n2

TwoNodes == {n1, n2}

\* One node sends: the order of its messages is what InOrder looks at, and the
\* other one's are accepted and dropped in the same way.
OneWay == {<<n1, n2>>}
=============================================================================
