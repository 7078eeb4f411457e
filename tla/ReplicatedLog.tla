---------------------------- MODULE ReplicatedLog ---------------------------
(***************************************************************************)
(* What a group of state machines promises: every replica executes a       *)
(* prefix of one and the same sequence of values.                          *)
(***************************************************************************)
EXTENDS Naturals, Sequences

CONSTANTS Replica, Command

VARIABLE log      \* log[r]: the commands replica r has executed

Init == log = [r \in Replica |-> <<>>]

Compatible(s, t) == \A k \in DOMAIN s \cap DOMAIN t : s[k] = t[k]

\* A replica executes some more commands: those that other replicas have
\* executed at these places or, where it is the first to get there, any.
Execute(r) ==
  /\ log'[r] \in Seq(Command)
  /\ Len(log[r]) <= Len(log'[r]) /\ Compatible(log[r], log'[r])
  /\ \A q \in Replica \ {r} : log'[q] = log[q] /\ Compatible(log'[r], log[q])

Next == \E r \in Replica : Execute(r)

Spec == Init /\ [][Next]_log
=============================================================================
