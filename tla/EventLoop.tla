------------------------------ MODULE EventLoop -----------------------------
(***************************************************************************)
(* The event loop of an instance (src/eventloop.cpp): one thread that      *)
(* takes, in turn, the timers that are due and the events that are queued. *)
(* The network thread enqueues events, the client's thread sets a          *)
(* ProposeTimeout for every call, and the loop's own handlers remove one   *)
(* of these and set the timer of the learner again.                        *)
(*                                                                         *)
(* A timer is an entry of a heap, ordered by deadline, and an item of a    *)
(* map; removing it removes the item and leaves the entry.                 *)
(***************************************************************************)
EXTENDS Integers, SequencesExt

CONSTANTS
  Event,        \* what AddEventTail enqueues
  Stub,         \* the null pointer that ends a turn of ProcessEvent
  ProposeMs,    \* how long a ProposeTimeout runs (2000)
  AskMs,        \* how long the timer of the learner runs (10000)
  MaxTime,      \* bound: the clock stops here
  MaxQueue,     \* bound: events that wait
  MaxTimers     \* bound: the client sets no timer once there were as many

VARIABLES
  now,        \* GetSteadyClockMS
  queue,      \* m_qEvent
  heap,       \* m_heapTimeout
  items,      \* m_mapTimeoutItem: the event type of each timer that is set
  counter,    \* m_ddwTimeoutIdCnt
  phase,      \* what the loop thread runs: ProcessTimeout or ProcessEvent
  adding      \* the deadline the client has computed and not yet pushed

vars == <<now, queue, heap, items, counter, phase, adding>>

ASSUME StubAssumption == Stub \notin Event

ASSUME TimeAssumption ==
  /\ ProposeMs \in Nat \ {0} /\ AskMs \in Nat \ {0}
  /\ MaxTime \in Nat /\ MaxQueue \in Nat /\ MaxTimers \in Nat

Types == {"ProposeTimeout", "LearnerAskForInstanceIdLoop"}

\* Every timer is set by the client, or by the learner when time has passed.
TimerId == 0 .. (MaxTimers + MaxTime)

\* The timers that are set: neither removed nor fired.
Pending == DOMAIN items

Ids(type) == {id \in Pending : items[id] = type}

TypeOK ==
  /\ now \in 0 .. MaxTime
  /\ queue \in Seq(Event \cup {Stub})
  /\ counter \in Nat
  /\ heap \in SUBSET [at : Nat, id : 0 .. (counter - 1)]
  /\ Pending \subseteq 0 .. (counter - 1) /\ items \in [Pending -> Types]
  /\ phase \in {"timeouts", "events"}
  /\ adding \subseteq Nat

\* InstanceImpl::Init sets the timer of the learner before it starts the loop.
Init ==
  /\ now = 0
  /\ queue = <<>>
  /\ heap = {[at |-> AskMs, id |-> 0]}
  /\ items = [id \in {0} |-> "LearnerAskForInstanceIdLoop"]
  /\ counter = 1
  /\ phase = "timeouts"
  /\ adding = {}
-----------------------------------------------------------------------------
(* Timers. *)

\* The map with and without the timer id.
With(set, id, type) == [t \in DOMAIN set \cup {id} |-> IF t = id THEN type ELSE set[t]]

Without(set, id) == [t \in DOMAIN set \ {id} |-> set[t]]

\* Wrong: the counter is read again after it was incremented.
AddTimeoutAhead(h, set, at, type) ==
  /\ heap' = h \cup {[at |-> at, id |-> counter]}
  /\ items' = With(set, counter + 1, type)
  /\ counter' = counter + 1

\* A timer is set for the time `at': h and set are the heap and the map before.
AddTimeout(h, set, at, type) ==
  /\ heap' = h \cup {[at |-> at, id |-> counter]}
  /\ items' = With(set, counter, type)
  /\ counter' = counter + 1

\* Wrong: of timers set for one time, the last comes first.
EarlierOrNewer(d, e) == d.at < e.at \/ (d.at = e.at /\ d.id > e.id)

\* The order of the heap: std::greater of pairs.
Earlier(d, e) == d.at < e.at \/ (d.at = e.at /\ d.id < e.id)

Due == {e \in heap : e.at <= now}

\* Wrong: whatever is due is popped together with the timer that fires.
PoppedAllDue(e) == heap \ (Due \cup {e})

\* The heap once e and the entries before it have been popped.
Popped(e) == {d \in heap : Earlier(e, d)}

\* PopTimeoutItem returns the timer of e: the entries before e are of timers
\* that were removed.
IsNext(e) ==
  e.id \in Pending /\ \A d \in heap : Earlier(d, e) => d.id \notin Pending

\* ProcessTimeout fires a timer, and OnTimeout handles it: the client's call
\* is failed, or the learner asks and sets its timer again.
FireTimeout(e) ==
  /\ phase = "timeouts"
  /\ e \in Due
  /\ IsNext(e)
  /\ IF items[e.id] = "LearnerAskForInstanceIdLoop"
       THEN AddTimeout(Popped(e), Without(items, e.id), now + AskMs, items[e.id])
       ELSE /\ heap' = Popped(e)
            /\ items' = Without(items, e.id)
            /\ UNCHANGED counter
  /\ UNCHANGED <<now, queue, phase, adding>>

\* Wrong: nothing ends a turn while events keep coming.
NoStub(q) == q

AddStub(q) == Append(q, Stub)

\* PopTimeoutItem returns none: entries of removed timers that are due are gone
\* unless no timer is set at all.  ProcessEvent begins.
EndTimeouts ==
  /\ phase = "timeouts"
  /\ ~\E e \in Due : IsNext(e)
  /\ heap' = IF Pending = {} THEN heap ELSE heap \ Due
  /\ queue' = AddStub(queue)
  /\ phase' = "events"
  /\ UNCHANGED <<now, items, counter, adding>>
-----------------------------------------------------------------------------
(* Events. *)

AddEventTail(e) ==
  /\ Len(SelectSeq(queue, LAMBDA x : x # Stub)) < MaxQueue
  /\ queue' = Append(queue, e)
  /\ UNCHANGED <<now, heap, items, counter, phase, adding>>

\* ProcessEvent handles an event; the handler of LEARN removes the timer of a
\* call, which may have fired.
HandleEvent ==
  /\ phase = "events"
  /\ queue # <<>> /\ Head(queue) # Stub
  /\ queue' = Tail(queue)
  /\ \E gone \in {{}} \cup {{id} : id \in Ids("ProposeTimeout")} :
       items' = [id \in Pending \ gone |-> items[id]]
  /\ UNCHANGED <<now, heap, counter, phase, adding>>

\* pop_front returns the stub, or nothing.
EndEvents ==
  /\ phase = "events"
  /\ queue # <<>> => Head(queue) = Stub
  /\ queue' = IF queue = <<>> THEN queue ELSE Tail(queue)
  /\ phase' = "timeouts"
  /\ UNCHANGED <<now, heap, items, counter, adding>>
-----------------------------------------------------------------------------
(* The client's thread. *)

\* AddTimeout reads the clock before it takes the mutex.
BeginAddTimeout ==
  /\ adding = {}
  /\ counter < MaxTimers
  /\ adding' = {now + ProposeMs}
  /\ UNCHANGED <<now, queue, heap, items, counter, phase>>

EndAddTimeout ==
  /\ \E at \in adding : AddTimeout(heap, items, at, "ProposeTimeout")
  /\ adding' = {}
  /\ UNCHANGED <<now, queue, phase>>

Tick ==
  /\ now < MaxTime
  /\ now' = now + 1
  /\ UNCHANGED <<queue, heap, items, counter, phase, adding>>

LoopStep == (\E e \in heap : FireTimeout(e)) \/ EndTimeouts \/ HandleEvent \/ EndEvents

Next ==
  \/ LoopStep
  \/ \E e \in Event : AddEventTail(e)
  \/ BeginAddTimeout
  \/ EndAddTimeout
  \/ Tick

\* The loop thread never stops.  Time, the network and the client need not go on.
Spec == Init /\ [][Next]_vars /\ WF_vars(LoopStep)
-----------------------------------------------------------------------------
\* PopTimeoutItem looks at m_heapTimeout.top() whenever a timer is set: every
\* timer has one entry, although entries are popped for other reasons than
\* timers removed.
HeapCoversItems ==
  \A id \in Pending : \E e \in heap : e.id = id /\ \A d \in heap : d.id = id => d = e

\* What the instances rely on: queue and timers together are a Reactor.  There is
\* never more than one stub in the queue.
Loop == INSTANCE Reactor
          WITH todo <- RemoveFirst(queue, Stub), calls <- Ids("ProposeTimeout")

ImplementsReactor == Loop!Spec

\* "add stub to prevent deadloop": a timer that is due goes off or is removed,
\* although the network thread may fill the queue faster than it is emptied.
DueTimerFires ==
  \A id \in TimerId :
    (\E e \in Due : e.id = id /\ id \in Pending) ~> id \notin Pending
=============================================================================
