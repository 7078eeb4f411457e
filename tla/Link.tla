-------------------------------- MODULE Link --------------------------------
(***************************************************************************)
(* What the roles are promised of a connection: the messages of one node   *)
(* arrive at the other in the order in which they were sent, none twice,   *)
(* until the connection breaks.                                            *)
(***************************************************************************)
EXTENDS Sequences

CONSTANT Message

VARIABLES
  queue,        \* sent and not yet delivered
  delivered,    \* delivered, oldest first
  broken        \* nothing is delivered any more

vars == <<queue, delivered, broken>>

Init == queue = <<>> /\ delivered = <<>> /\ broken = FALSE

Send ==
  /\ \E m \in Message : queue' = Append(queue, m)
  /\ UNCHANGED <<delivered, broken>>

Deliver ==
  /\ ~broken
  /\ queue # <<>>
  /\ delivered' = Append(delivered, Head(queue))
  /\ queue' = Tail(queue)
  /\ UNCHANGED broken

Break == broken' = TRUE /\ UNCHANGED <<queue, delivered>>

Next == Send \/ Deliver \/ Break

Spec == Init /\ [][Next]_vars
=============================================================================
