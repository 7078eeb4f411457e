------------------------------- MODULE Reactor ------------------------------
(***************************************************************************)
(* What an instance is promised by its event loop: events are handled one  *)
(* at a time, in the order in which they were enqueued, each once and in   *)
(* the end; the timers of a client's calls go off in the order in which    *)
(* they were set, each at most once and never after it was removed.        *)
(***************************************************************************)
EXTENDS Naturals, Sequences

CONSTANTS
  Event,
  TimerId      \* natural numbers

VARIABLES
  todo,    \* the events that wait
  calls    \* the ids of the ProposeTimeout timers that are set: they grow

vars == <<todo, calls>>

Init == todo = <<>> /\ calls = {}

Enqueue == \E e \in Event : todo' = Append(todo, e) /\ UNCHANGED calls

\* A timer that is removed is removed by the handler of an event.
Handle ==
  /\ todo # <<>>
  /\ todo' = Tail(todo)
  /\ calls' = calls \/ \E id \in calls : calls' = calls \ {id}

Set ==
  /\ \E id \in TimerId :
       /\ \A c \in calls : c < id
       /\ calls' = calls \cup {id}
  /\ UNCHANGED todo

Fire ==
  /\ \E id \in calls :
       /\ \A c \in calls : id <= c
       /\ calls' = calls \ {id}
  /\ UNCHANGED todo

Next == Enqueue \/ Handle \/ Set \/ Fire

Safe == Init /\ [][Next]_vars

Spec == Safe /\ WF_vars(Handle)
=============================================================================
