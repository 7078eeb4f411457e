--------------------------- MODULE EventLoopProofs --------------------------
(***************************************************************************)
(* Proofs about the event loop: its timers are never lost, and together    *)
(* with its queue they are a Reactor.                                      *)
(***************************************************************************)
EXTENDS EventLoop, Lemmas

\* The id of a timer is used once, and every timer that is set has its entry.
EntriesMatch ==
  /\ \A d, e \in heap : d.id = e.id => d = e
  /\ \A id \in Pending : \E e \in heap : e.id = id

\* The timers of calls have their deadlines in the order of their ids, and the
\* one the client is about to set comes last.
CallsInOrder ==
  /\ \A e \in heap : e.id \in Ids("ProposeTimeout") =>
       /\ e.at <= now + ProposeMs
       /\ \A at \in adding : e.at <= at
       /\ \A d \in heap : d.id \in Ids("ProposeTimeout") /\ d.id < e.id => d.at <= e.at
  /\ \A at \in adding : at <= now + ProposeMs /\ adding = {at}

\* The stub is in the queue while events are handled, and only then.
StubMarksTurn ==
  LET stubs == {k \in 1 .. Len(queue) : queue[k] = Stub} IN
  IF phase = "events" THEN \E k \in stubs : stubs = {k} ELSE stubs = {}

\* The timer of the learner is always set, and tells how many there have been.
CounterBounded ==
  /\ \E id \in Pending : Ids("LearnerAskForInstanceIdLoop") = {id}
  /\ \A e \in heap : e.id \in Ids("LearnerAskForInstanceIdLoop") =>
       /\ e.at >= AskMs /\ e.at <= now + AskMs
       /\ counter + (IF adding = {} THEN 0 ELSE 1) <= MaxTimers + 1 + e.at - AskMs

IInv == TypeOK /\ EntriesMatch /\ CallsInOrder /\ StubMarksTurn /\ CounterBounded
-----------------------------------------------------------------------------
(* Timers. *)

\* What a timer that is set adds, to a heap and a map that are typed.
LEMMA AddTimeoutTypes ==
  ASSUME NEW h, NEW set, NEW at \in Nat, NEW type \in Types,
         counter \in Nat, h \subseteq [at : Nat, id : 0 .. (counter - 1)],
         DOMAIN set \subseteq 0 .. (counter - 1), set \in [DOMAIN set -> Types],
         AddTimeout(h, set, at, type)
  PROVE  /\ counter' \in Nat
         /\ heap' \subseteq [at : Nat, id : 0 .. (counter' - 1)]
         /\ Pending' = DOMAIN set \cup {counter} /\ Pending' \subseteq 0 .. (counter' - 1)
         /\ items' \in [Pending' -> Types]
         /\ items'[counter] = type /\ \A id \in DOMAIN set : items'[id] = set[id]
<1>1. items' = With(set, counter, type) /\ counter' = counter + 1
  BY DEF AddTimeout
<1>2. 0 .. (counter - 1) \subseteq 0 .. (counter' - 1) /\ counter \in 0 .. (counter' - 1)
  BY <1>1
<1>3. heap' \subseteq [at : Nat, id : 0 .. (counter' - 1)]
  <2>1. [at |-> at, id |-> counter] \in [at : Nat, id : 0 .. (counter' - 1)]
    BY <1>2
  <2>2. [at : Nat, id : 0 .. (counter - 1)] \subseteq [at : Nat, id : 0 .. (counter' - 1)]
    BY <1>2
  <2> QED BY <2>1, <2>2 DEF AddTimeout
<1>4. counter \notin DOMAIN set
  OBVIOUS
<1> QED BY <1>1, <1>2, <1>3, <1>4 DEF With, Pending

\* Among the entries of timers that are set, those that are due have a first one.
LEMMA FirstDueExists ==
  ASSUME TypeOK, NEW x \in Due, x.id \in Pending
  PROVE  \E e \in Due : IsNext(e)
<1> DEFINE D == {d \in Due : d.id \in Pending}
<1> DEFINE A == {d.at : d \in D}
<1>1. now \in Nat /\ \A d \in heap : d.at \in Nat /\ d.id \in Nat
  BY TimeAssumption DEF TypeOK
<1>2. D \subseteq heap /\ x \in D
  BY DEF Due
<1>3. A \in SUBSET Nat /\ A # {}
  BY <1>1, <1>2
<1>4. PICK a \in A : \A b \in A : a <= b
  <2> HIDE DEF A
  <2> QED BY <1>3, MinimumExists
<1> DEFINE I == {d.id : d \in {c \in D : c.at = a}}
<1>5. I \in SUBSET Nat /\ I # {}
  BY <1>1, <1>2
<1>6. PICK i \in I : \A j \in I : i <= j
  <2> HIDE DEF I
  <2> QED BY <1>5, MinimumExists
<1>7. PICK e \in D : e.at = a /\ e.id = i
  OBVIOUS
<1>8. ASSUME NEW d \in heap, Earlier(d, e), d.id \in Pending
      PROVE  FALSE
  <2>1. d.at <= e.at /\ e.at <= now
    BY <1>1, <1>2, <1>8 DEF Earlier, Due
  <2>2. d \in D
    BY <1>1, <1>2, <1>8, <2>1 DEF Due
  <2>3. d.at = a
    BY <1>1, <1>2, <1>4, <1>7, <2>1, <2>2
  <2>4. d.id \in I
    BY <2>2, <2>3
  <2>5. e.at \in Nat /\ e.id \in Nat /\ d.id \in Nat
    BY <1>1, <1>2
  <2>6. d.id < e.id
    BY <1>7, <1>8, <2>3, <2>5 DEF Earlier
  <2>7. e.id <= d.id
    BY <1>6, <1>7, <2>4
  <2> QED BY <2>5, <2>6, <2>7
<1> QED BY <1>7, <1>8 DEF IsNext
-----------------------------------------------------------------------------
(* The invariant. *)

LEMMA InvInit == Init => IInv
<1> SUFFICES ASSUME Init PROVE IInv
  OBVIOUS
<1> USE TimeAssumption DEF Init
<1>1. Pending = {0} /\ items = [id \in {0} |-> "LearnerAskForInstanceIdLoop"]
  BY DEF Pending
<1>2. /\ Ids("ProposeTimeout") = {}
      /\ Ids("LearnerAskForInstanceIdLoop") = {0}
  BY <1>1 DEF Ids
<1>3. TypeOK
  BY <1>1 DEF TypeOK, Types
<1>4. EntriesMatch
  BY <1>1 DEF EntriesMatch
<1>5. CallsInOrder
  BY <1>2 DEF CallsInOrder
<1>6. StubMarksTurn
  BY DEF StubMarksTurn
<1>7. CounterBounded
  BY <1>1, <1>2 DEF CounterBounded
<1> QED BY <1>3, <1>4, <1>5, <1>6, <1>7 DEF IInv

LEMMA LaterStillBounded ==
  \A s, t \in Int, ms, at \in Nat : s <= t /\ at <= s + ms => at <= t + ms
  OBVIOUS

\* What is said about the timers does not depend on the queue.
LEMMA QueueStep ==
  ASSUME IInv, UNCHANGED <<heap, items, counter, adding>>, now' \in now .. MaxTime,
         queue' \in Seq(Event \cup {Stub}), phase' \in {"timeouts", "events"}, StubMarksTurn'
  PROVE  IInv'
<1>1. now \in Int /\ now' \in Int /\ now <= now' /\ now' \in 0 .. MaxTime
  BY TimeAssumption DEF IInv, TypeOK
<1>2. /\ adding \subseteq Nat
      /\ \A e \in heap : e.at \in Nat
  BY DEF IInv, TypeOK
<1>3. TypeOK'
  BY <1>1 DEF IInv, TypeOK, Pending
<1>4. EntriesMatch'
  BY DEF IInv, EntriesMatch, Pending
<1>5. /\ Pending' = Pending /\ Ids("ProposeTimeout")' = Ids("ProposeTimeout")
      /\ Ids("LearnerAskForInstanceIdLoop")' = Ids("LearnerAskForInstanceIdLoop")
  BY DEF Pending, Ids
<1>6. ASSUME NEW at \in Nat, NEW ms \in Nat, at <= now + ms
      PROVE  at <= now' + ms
  BY <1>1, <1>6, LaterStillBounded
<1>7. CallsInOrder'
  <2>1. CallsInOrder /\ heap' = heap /\ adding' = adding
    BY DEF IInv
  <2>2. \A e \in heap : e.id \in Ids("ProposeTimeout") => e.at <= now' + ProposeMs
    BY <1>2, <1>6, <2>1, TimeAssumption DEF CallsInOrder
  <2>3. \A at \in adding : at <= now' + ProposeMs
    BY <1>2, <1>6, <2>1, TimeAssumption DEF CallsInOrder
  <2> QED BY <1>5, <2>1, <2>2, <2>3 DEF CallsInOrder
<1>8. CounterBounded'
  BY <1>2, <1>5, <1>6, TimeAssumption DEF IInv, CounterBounded
<1> QED BY <1>3, <1>4, <1>7, <1>8 DEF IInv

LEMMA AddEventTailInv ==
  ASSUME IInv, NEW e \in Event, AddEventTail(e)
  PROVE  IInv'
<1>1. queue \in Seq(Event \cup {Stub}) /\ now' \in now .. MaxTime /\ now \in Int
  BY TimeAssumption DEF IInv, TypeOK, AddEventTail
<1>2. e # Stub
  BY StubAssumption
<1>3. {k \in 1 .. Len(queue') : queue'[k] = Stub} = {k \in 1 .. Len(queue) : queue[k] = Stub}
  BY <1>1, <1>2, AppendFacts DEF AddEventTail
<1>4. StubMarksTurn'
  BY <1>3 DEF StubMarksTurn, IInv, AddEventTail
<1> QED BY <1>1, <1>4, AppendFacts, QueueStep DEF AddEventTail, IInv, TypeOK

LEMMA TickInv ==
  ASSUME IInv, Tick
  PROVE  IInv'
<1>1. now' \in now .. MaxTime
  BY TimeAssumption DEF IInv, TypeOK, Tick
<1>2. StubMarksTurn'
  BY DEF StubMarksTurn, IInv, Tick
<1> QED BY <1>1, <1>2, QueueStep DEF Tick, IInv, TypeOK

LEMMA EndEventsInv ==
  ASSUME IInv, EndEvents
  PROVE  /\ IInv'
         /\ queue # <<>> /\ Head(queue) = Stub
<1>1. /\ queue \in Seq(Event \cup {Stub}) /\ now' \in now .. MaxTime
      /\ phase' = "timeouts" /\ UNCHANGED <<heap, items, counter, adding>>
  BY TimeAssumption DEF IInv, TypeOK, EndEvents
<1>2. PICK k \in 1 .. Len(queue) : {j \in 1 .. Len(queue) : queue[j] = Stub} = {k}
  BY DEF IInv, StubMarksTurn, EndEvents
<1>3. queue # <<>>
  BY <1>2, EmptySeq
<1>4. Head(queue) = Stub /\ queue' = Tail(queue)
  BY <1>3 DEF EndEvents
<1>5. k = 1
  BY <1>1, <1>2, <1>3, <1>4, TailFacts
<1>6. {j \in 1 .. Len(queue') : queue'[j] = Stub} = {}
  BY <1>1, <1>2, <1>3, <1>4, <1>5, TailFacts
<1>7. StubMarksTurn'
  BY <1>1, <1>6 DEF StubMarksTurn
<1> QED BY <1>1, <1>3, <1>4, <1>7, TailFacts, QueueStep

LEMMA HandleEventInv ==
  ASSUME IInv, HandleEvent
  PROVE  /\ IInv'
         /\ \/ Ids("ProposeTimeout")' = Ids("ProposeTimeout")
            \/ \E id \in Ids("ProposeTimeout") :
                 Ids("ProposeTimeout")' = Ids("ProposeTimeout") \ {id}
<1>1. PICK gone \in {{}} \cup {{id} : id \in Ids("ProposeTimeout")} :
        items' = [id \in Pending \ gone |-> items[id]]
  BY DEF HandleEvent
<1>2. gone \subseteq Ids("ProposeTimeout")
  OBVIOUS
<1>3. Pending' = Pending \ gone /\ \A id \in Pending' : items'[id] = items[id]
  BY <1>1 DEF Pending
<1>4. /\ Ids("ProposeTimeout")' = Ids("ProposeTimeout") \ gone
      /\ Ids("LearnerAskForInstanceIdLoop")' = Ids("LearnerAskForInstanceIdLoop")
      /\ Pending' \subseteq Pending
  BY <1>2, <1>3 DEF Ids
<1>5. /\ UNCHANGED <<now, heap, counter, phase, adding>>
      /\ phase = "events" /\ queue # <<>> /\ Head(queue) # Stub /\ queue' = Tail(queue)
      /\ queue \in Seq(Event \cup {Stub})
  BY DEF HandleEvent, IInv, TypeOK
<1>6. TypeOK'
  <2>1. queue' \in Seq(Event \cup {Stub})
    BY <1>5, TailFacts
  <2>2. items' \in [Pending' -> Types] /\ Pending' \subseteq 0 .. (counter' - 1)
    BY <1>1, <1>3, <1>5 DEF IInv, TypeOK
  <2> QED BY <1>5, <2>1, <2>2 DEF IInv, TypeOK
<1>7. EntriesMatch'
  BY <1>4, <1>5 DEF IInv, EntriesMatch
<1>8. CallsInOrder'
  BY <1>4, <1>5 DEF IInv, CallsInOrder
<1>9. CounterBounded'
  <2>1. Ids("LearnerAskForInstanceIdLoop")' \subseteq Pending'
    BY DEF Ids
  <2> QED BY <1>4, <1>5, <2>1 DEF IInv, CounterBounded
<1>10. StubMarksTurn'
  <2>1. PICK k \in 1 .. Len(queue) : {j \in 1 .. Len(queue) : queue[j] = Stub} = {k}
    BY <1>5 DEF IInv, StubMarksTurn
  <2>2. k # 1
    BY <1>5, <2>1, TailFacts
  <2>3. /\ Len(queue) \in Nat /\ Len(queue') = Len(queue) - 1
        /\ \A j \in 1 .. Len(queue') : queue'[j] = queue[j + 1]
    BY <1>5, TailFacts
  <2>4. k - 1 \in 1 .. Len(queue')
    BY <2>2, <2>3
  <2>5. \A j \in 1 .. Len(queue) : queue[j] = Stub <=> j = k
    BY <2>1
  <2>6. ASSUME NEW j \in 1 .. Len(queue')
        PROVE  queue'[j] = Stub <=> j = k - 1
    <3>1. j + 1 \in 1 .. Len(queue)
      BY <2>3
    <3>2. queue'[j] = Stub <=> j + 1 = k
      BY <2>3, <2>5, <3>1
    <3> QED BY <3>2, <2>2
  <2>7. {j \in 1 .. Len(queue') : queue'[j] = Stub} = {k - 1}
    BY <2>4, <2>6
  <2> QED BY <1>5, <2>4, <2>7 DEF StubMarksTurn
<1> QED BY <1>1, <1>4, <1>6, <1>7, <1>8, <1>9, <1>10 DEF IInv

LEMMA EndTimeoutsInv ==
  ASSUME IInv, EndTimeouts
  PROVE  IInv'
<1>1. /\ UNCHANGED <<now, items, counter, adding>>
      /\ phase = "timeouts" /\ queue' = Append(queue, Stub) /\ phase' = "events"
      /\ queue \in Seq(Event \cup {Stub}) /\ heap' \subseteq heap
  BY DEF EndTimeouts, AddStub, IInv, TypeOK
<1>2. /\ Pending' = Pending /\ Ids("ProposeTimeout")' = Ids("ProposeTimeout")
      /\ Ids("LearnerAskForInstanceIdLoop")' = Ids("LearnerAskForInstanceIdLoop")
  BY <1>1 DEF Pending, Ids
<1>3. TypeOK'
  BY <1>1, <1>2, AppendFacts DEF IInv, TypeOK
<1>4. EntriesMatch'
  <2>1. ASSUME NEW e \in heap, e.id \in Pending
        PROVE  e \in heap'
    <3>1. e \notin Due
      BY <2>1, FirstDueExists DEF EndTimeouts, IInv
    <3>2. Pending # {}
      BY <2>1
    <3> QED BY <3>1, <3>2 DEF EndTimeouts
  <2> QED BY <1>1, <1>2, <2>1 DEF IInv, EntriesMatch
<1>5. CallsInOrder'
  BY <1>1, <1>2 DEF IInv, CallsInOrder
<1>6. CounterBounded'
  BY <1>1, <1>2 DEF IInv, CounterBounded
<1>7. StubMarksTurn'
  <2>1. {k \in 1 .. Len(queue) : queue[k] = Stub} = {}
    BY <1>1 DEF IInv, StubMarksTurn
  <2>2. /\ Len(queue) + 1 \in 1 .. Len(queue')
        /\ {k \in 1 .. Len(queue') : queue'[k] = Stub} = {Len(queue) + 1}
    BY <1>1, <2>1, AppendFacts
  <2> QED BY <1>1, <2>2 DEF StubMarksTurn
<1> QED BY <1>3, <1>4, <1>5, <1>6, <1>7 DEF IInv

LEMMA BeginAddTimeoutInv ==
  ASSUME IInv, BeginAddTimeout
  PROVE  IInv'
<1>1. /\ UNCHANGED <<now, queue, heap, items, counter, phase>>
      /\ adding = {} /\ adding' = {now + ProposeMs} /\ counter < MaxTimers
      /\ counter \in Nat /\ now + ProposeMs \in Nat
      /\ \A e \in heap : e.at \in Nat
  BY TimeAssumption DEF BeginAddTimeout, IInv, TypeOK
<1>2. /\ Pending' = Pending /\ Ids("ProposeTimeout")' = Ids("ProposeTimeout")
      /\ Ids("LearnerAskForInstanceIdLoop")' = Ids("LearnerAskForInstanceIdLoop")
  BY <1>1 DEF Pending, Ids
<1>3. TypeOK'
  BY <1>1, <1>2 DEF IInv, TypeOK
<1>4. EntriesMatch'
  BY <1>1, <1>2 DEF IInv, EntriesMatch
<1>5. CallsInOrder'
  BY <1>1, <1>2 DEF IInv, CallsInOrder
<1>6. StubMarksTurn'
  BY <1>1 DEF IInv, StubMarksTurn
<1>7. CounterBounded'
  <2>1. ASSUME NEW e \in heap, e.at >= AskMs
        PROVE  counter + 1 <= MaxTimers + 1 + e.at - AskMs
    BY <1>1, <2>1, TimeAssumption
  <2> QED BY <1>1, <1>2, <2>1 DEF IInv, CounterBounded
<1> QED BY <1>3, <1>4, <1>5, <1>6, <1>7 DEF IInv

LEMMA EndAddTimeoutInv ==
  ASSUME IInv, EndAddTimeout
  PROVE  /\ IInv'
         /\ Ids("ProposeTimeout")' = Ids("ProposeTimeout") \cup {counter}
         /\ counter \in TimerId
<1> DEFINE L == Ids("LearnerAskForInstanceIdLoop")
<1>1. PICK at \in adding : AddTimeout(heap, items, at, "ProposeTimeout")
  BY DEF EndAddTimeout
<1> DEFINE new == [at |-> at, id |-> counter]
<1>2. /\ UNCHANGED <<now, queue, phase>> /\ adding' = {} /\ adding # {}
      /\ heap' = heap \cup {new} /\ counter' = counter + 1
      /\ at \in Nat /\ counter \in Nat /\ now \in Nat /\ now <= MaxTime
  BY <1>1, TimeAssumption DEF EndAddTimeout, AddTimeout, IInv, TypeOK
<1>3. /\ heap \subseteq [at : Nat, id : 0 .. (counter - 1)]
      /\ Pending \subseteq 0 .. (counter - 1) /\ items \in [Pending -> Types]
      /\ "ProposeTimeout" \in Types
  BY DEF IInv, TypeOK, Types
<1>4. /\ heap' \subseteq [at : Nat, id : 0 .. (counter' - 1)]
      /\ Pending' = Pending \cup {counter} /\ Pending' \subseteq 0 .. (counter' - 1)
      /\ items' \in [Pending' -> Types]
      /\ items'[counter] = "ProposeTimeout" /\ \A id \in Pending : items'[id] = items[id]
  BY <1>1, <1>2, <1>3, AddTimeoutTypes DEF Pending
<1>5. Ids("ProposeTimeout")' = Ids("ProposeTimeout") \cup {counter} /\ L' = L
  BY <1>3, <1>4 DEF Ids
<1>6. \A e \in heap : e.id # counter /\ e.id < counter /\ e.at \in Nat /\ e.id \in Nat
  BY <1>2, <1>3
<1>7. TypeOK'
  <2>1. queue' \in Seq(Event \cup {Stub}) /\ phase' \in {"timeouts", "events"}
    BY <1>2 DEF IInv, TypeOK
  <2>2. now' \in 0 .. MaxTime /\ counter' \in Nat /\ adding' \subseteq Nat
    BY <1>2 DEF IInv, TypeOK
  <2> HIDE DEF new
  <2> QED BY <1>4, <2>1, <2>2 DEF TypeOK
<1>8. EntriesMatch'
  <2>1. new.id = counter /\ heap' = heap \cup {new}
    BY <1>2
  <2> HIDE DEF new
  <2>2. \A d, e \in heap' : d.id = e.id => d = e
    BY <1>6, <2>1 DEF IInv, EntriesMatch
  <2>3. \A id \in Pending' : \E e \in heap' : e.id = id
    BY <1>4, <2>1 DEF IInv, EntriesMatch
  <2> QED BY <2>2, <2>3 DEF EntriesMatch
<1>9. CallsInOrder'
  <2>1. at <= now + ProposeMs /\ adding = {at}
    BY DEF IInv, CallsInOrder
  <2>2. \A e \in heap : e.id \in Ids("ProposeTimeout")' => e.id \in Ids("ProposeTimeout")
    BY <1>5, <1>6
  <2>3. \A e \in heap : e.id \in Ids("ProposeTimeout")' =>
          e.at <= now + ProposeMs /\ e.at <= at
    BY <2>2 DEF IInv, CallsInOrder
  <2>4. \A d, e \in heap :
          d.id \in Ids("ProposeTimeout")' /\ e.id \in Ids("ProposeTimeout")' /\ d.id < e.id
            => d.at <= e.at
    BY <2>2 DEF IInv, CallsInOrder
  <2>5. \A e \in heap : ~(counter < e.id)
    BY <1>2, <1>6
  <2>6. \A d, e \in heap' :
          d.id \in Ids("ProposeTimeout")' /\ e.id \in Ids("ProposeTimeout")' /\ d.id < e.id
            => d.at <= e.at
    BY <1>2, <2>3, <2>4, <2>5
  <2>7. \A e \in heap' : e.id \in Ids("ProposeTimeout")' => e.at <= now + ProposeMs
    BY <1>2, <2>1, <2>3
  <2> QED BY <1>2, <2>6, <2>7 DEF CallsInOrder
<1>10. StubMarksTurn'
  BY <1>2 DEF IInv, StubMarksTurn
<1>11. /\ \E id \in Pending : L = {id}
       /\ \A e \in heap : e.id \in L =>
            /\ e.at >= AskMs /\ e.at <= now + AskMs
            /\ counter + 1 <= MaxTimers + 1 + e.at - AskMs
  BY <1>2 DEF IInv, CounterBounded
<1>12. CounterBounded'
  <2>1. counter \notin L
    <3>1. counter \notin Pending
      BY <1>2, <1>3
    <3> QED BY <3>1 DEF Ids
  <2>2. \A e \in heap' : e.id \in L' => e \in heap /\ e.id \in L
    BY <1>2, <1>5, <2>1
  <2>3. \A e \in heap' : e.id \in L' =>
          /\ e.at >= AskMs /\ e.at <= now + AskMs
          /\ counter' <= MaxTimers + 1 + e.at - AskMs
    BY <1>2, <1>11, <2>2
  <2>4. \E id \in Pending' : L' = {id}
    BY <1>4, <1>5, <1>11
  <2>5. (IF adding' = {} THEN 0 ELSE 1) = 0 /\ counter' + 0 = counter' /\ now' = now
    BY <1>2
  <2> QED BY <2>3, <2>4, <2>5 DEF CounterBounded
<1>13. counter \in TimerId
  <2>1. PICK id \in Pending : L = {id}
    BY <1>11
  <2>2. PICK e \in heap : e.id = id
    BY DEF IInv, EntriesMatch
  <2>3. e.at <= now + AskMs /\ counter + 1 <= MaxTimers + 1 + e.at - AskMs /\ e.at \in Nat
    BY <1>6, <1>11, <2>1, <2>2
  <2> QED BY <1>2, <2>3, TimeAssumption DEF TimerId
<1> QED BY <1>5, <1>7, <1>8, <1>9, <1>10, <1>12, <1>13 DEF IInv

\* The entries of the other timers that are set come after the one that fires.
LEMMA PoppedKeeps ==
  ASSUME IInv, NEW e \in Due, IsNext(e)
  PROVE  /\ e \in heap /\ e.id \in Pending /\ Popped(e) \subseteq heap
         /\ e.at \in Nat /\ e.at <= now
         /\ \A d \in heap : d.id \in Pending /\ d.id # e.id => d \in Popped(e)
<1>1. e \in heap /\ e.id \in Pending /\ Popped(e) \subseteq heap /\ e.at <= now
  BY DEF Due, IsNext, Popped
<1>2. \A d \in heap : d.at \in Nat /\ d.id \in Nat
  BY DEF IInv, TypeOK
<1>3. ASSUME NEW d \in heap, d.id \in Pending, d.id # e.id
      PROVE  d \in Popped(e)
  <2>1. ~Earlier(d, e)
    BY <1>3 DEF IsNext
  <2>2. Earlier(e, d)
    BY <1>1, <1>2, <1>3, <2>1 DEF Earlier
  <2> QED BY <2>2 DEF Popped
<1> QED BY <1>1, <1>2, <1>3

LEMMA FireCallInv ==
  ASSUME IInv, NEW e \in heap, FireTimeout(e), items[e.id] # "LearnerAskForInstanceIdLoop"
  PROVE  /\ IInv'
         /\ e.id \in Ids("ProposeTimeout")
         /\ \A c \in Ids("ProposeTimeout") : e.id <= c
         /\ Ids("ProposeTimeout")' = Ids("ProposeTimeout") \ {e.id}
<1> DEFINE L == Ids("LearnerAskForInstanceIdLoop")
<1>1. /\ e \in Due /\ IsNext(e) /\ phase = "timeouts"
      /\ heap' = Popped(e) /\ items' = Without(items, e.id)
      /\ UNCHANGED <<now, queue, counter, phase, adding>>
  BY DEF FireTimeout
<1>2. /\ e.id \in Pending /\ Popped(e) \subseteq heap
      /\ \A d \in heap : d.id \in Pending /\ d.id # e.id => d \in Popped(e)
  BY <1>1, PoppedKeeps
<1>3. Pending' = Pending \ {e.id} /\ \A id \in Pending' : items'[id] = items[id]
  BY <1>1 DEF Without, Pending
<1>4. e.id \in Ids("ProposeTimeout")
  BY <1>2 DEF IInv, TypeOK, Types, Ids
<1>5. /\ Ids("ProposeTimeout")' = Ids("ProposeTimeout") \ {e.id} /\ L' = L
      /\ Pending' \subseteq Pending /\ L \subseteq Pending'
  BY <1>3, <1>4 DEF Ids
<1>6. ASSUME NEW c \in Ids("ProposeTimeout"), c < e.id
      PROVE  FALSE
  <2>1. c \in Pending
    BY DEF Ids
  <2>2. PICK d \in heap : d.id = c
    BY <2>1 DEF IInv, EntriesMatch
  <2>3. d.at <= e.at
    BY <1>4, <1>6, <2>2 DEF IInv, CallsInOrder
  <2>4. d.at \in Nat /\ e.at \in Nat
    BY DEF IInv, TypeOK
  <2>5. Earlier(d, e)
    BY <1>6, <2>2, <2>3, <2>4 DEF Earlier
  <2> QED BY <1>1, <2>1, <2>2, <2>5 DEF IsNext
<1>7. \A c \in Ids("ProposeTimeout") : e.id <= c
  <2>1. \A c \in Pending : c \in Nat
    BY DEF IInv, TypeOK
  <2>2. \A c \in Ids("ProposeTimeout") : c \in Nat
    BY <2>1 DEF Ids
  <2> QED BY <1>4, <1>6, <2>2
<1>8. TypeOK'
  <2>1. items' \in [Pending' -> Types]
    BY <1>1, <1>3 DEF IInv, TypeOK, Without
  <2>2. heap' \subseteq [at : Nat, id : 0 .. (counter - 1)] /\ Pending' \subseteq 0 .. (counter - 1)
    BY <1>1, <1>2, <1>5 DEF IInv, TypeOK
  <2> QED BY <1>1, <2>1, <2>2 DEF IInv, TypeOK
<1>9. EntriesMatch'
  BY <1>1, <1>2, <1>3 DEF IInv, EntriesMatch
<1>10. CallsInOrder'
  BY <1>1, <1>2, <1>5 DEF IInv, CallsInOrder
<1>11. StubMarksTurn'
  BY <1>1 DEF IInv, StubMarksTurn
<1>12. CounterBounded'
  BY <1>1, <1>2, <1>5 DEF IInv, CounterBounded
<1> QED BY <1>4, <1>5, <1>7, <1>8, <1>9, <1>10, <1>11, <1>12 DEF IInv

LEMMA FireAskInv ==
  ASSUME IInv, NEW e \in heap, FireTimeout(e), items[e.id] = "LearnerAskForInstanceIdLoop"
  PROVE  /\ IInv'
         /\ Ids("ProposeTimeout")' = Ids("ProposeTimeout")
<1> DEFINE L == Ids("LearnerAskForInstanceIdLoop")
<1> DEFINE new == [at |-> now + AskMs, id |-> counter]
<1> DEFINE rest == Without(items, e.id)
<1>1. /\ e \in Due /\ IsNext(e) /\ phase = "timeouts"
      /\ AddTimeout(Popped(e), rest, now + AskMs, "LearnerAskForInstanceIdLoop")
      /\ UNCHANGED <<now, queue, phase, adding>>
  BY DEF FireTimeout
<1>2. /\ e.id \in Pending /\ Popped(e) \subseteq heap
      /\ e.at \in Nat /\ e.at <= now
      /\ \A d \in heap : d.id \in Pending /\ d.id # e.id => d \in Popped(e)
  BY <1>1, PoppedKeeps
<1>3. DOMAIN rest = Pending \ {e.id} /\ \A id \in DOMAIN rest : rest[id] = items[id]
  BY DEF Without, Pending
<1>4. /\ counter \in Nat /\ now \in Nat /\ now + AskMs \in Nat
      /\ Popped(e) \subseteq [at : Nat, id : 0 .. (counter - 1)]
      /\ Pending \subseteq 0 .. (counter - 1) /\ "LearnerAskForInstanceIdLoop" \in Types
      /\ rest \in [DOMAIN rest -> Types]
  <2>1. /\ counter \in Nat /\ now \in Nat /\ "LearnerAskForInstanceIdLoop" \in Types
        /\ heap \subseteq [at : Nat, id : 0 .. (counter - 1)]
        /\ Pending \subseteq 0 .. (counter - 1) /\ items \in [Pending -> Types]
    BY TimeAssumption DEF IInv, TypeOK, Types
  <2>2. now + AskMs \in Nat
    BY <2>1, TimeAssumption
  <2>3. rest \in [DOMAIN rest -> Types]
    BY <1>3, <2>1 DEF Without
  <2> QED BY <1>2, <2>1, <2>2, <2>3
<1>5. /\ heap' \subseteq [at : Nat, id : 0 .. (counter' - 1)] /\ counter' \in Nat
      /\ Pending' = DOMAIN rest \cup {counter} /\ Pending' \subseteq 0 .. (counter' - 1)
      /\ items' \in [Pending' -> Types]
      /\ items'[counter] = "LearnerAskForInstanceIdLoop"
      /\ \A id \in DOMAIN rest : items'[id] = rest[id]
  <2> HIDE DEF rest
  <2>1. DOMAIN rest \subseteq 0 .. (counter - 1)
    BY <1>3, <1>4
  <2> QED BY <1>1, <1>4, <2>1, AddTimeoutTypes
<1>6. heap' = Popped(e) \cup {new} /\ counter' = counter + 1
  BY <1>1 DEF AddTimeout
<1>7. counter \notin Pending /\ counter \notin DOMAIN rest
  BY <1>3, <1>4
<1>8. /\ Ids("ProposeTimeout")' = Ids("ProposeTimeout") /\ counter \notin Ids("ProposeTimeout")
      /\ L' = (L \ {e.id}) \cup {counter} /\ e.id \in L
  <2> HIDE DEF rest
  <2>1. Pending' = (Pending \ {e.id}) \cup {counter}
    BY <1>3, <1>5
  <2>2. \A id \in Pending \ {e.id} : items'[id] = items[id]
    BY <1>3, <1>5
  <2>3. items'[counter] = items[e.id]
    BY <1>5
  <2> QED BY <1>2, <1>5, <1>7, <2>1, <2>2, <2>3 DEF Ids
<1>9. L = {e.id} /\ L' = {counter}
  BY <1>8 DEF IInv, CounterBounded
<1>10. \A d \in heap : d.id # counter /\ d.at \in Nat
  BY <1>4 DEF IInv, TypeOK
<1>11. new.id = counter /\ new.at = now + AskMs
  OBVIOUS
<1> HIDE DEF new, rest
<1>12. TypeOK'
  <2>1. now' \in 0 .. MaxTime /\ adding' \subseteq Nat
    BY <1>1 DEF IInv, TypeOK
  <2>2. queue' \in Seq(Event \cup {Stub}) /\ phase' \in {"timeouts", "events"}
    BY <1>1 DEF IInv, TypeOK
  <2> QED BY <1>5, <2>1, <2>2 DEF TypeOK
<1>13. EntriesMatch'
  <2>1. \A d, x \in heap' : d.id = x.id => d = x
    BY <1>2, <1>6, <1>10, <1>11 DEF IInv, EntriesMatch
  <2>2. ASSUME NEW id \in Pending'
        PROVE  \E x \in heap' : x.id = id
    <3>1. CASE id = counter
      BY <1>6, <1>11, <3>1
    <3>2. CASE id # counter
      <4>1. id \in Pending /\ id # e.id
        BY <1>3, <1>5, <3>2
      <4> QED BY <1>2, <1>6, <4>1 DEF IInv, EntriesMatch
    <3> QED BY <3>1, <3>2
  <2> QED BY <2>1, <2>2 DEF EntriesMatch
<1>14. CallsInOrder'
  <2>1. \A x \in heap' : x.id \in Ids("ProposeTimeout") => x \in heap
    BY <1>2, <1>6, <1>8, <1>11
  <2>2. CallsInOrder /\ adding' = adding /\ now' = now
    BY <1>1 DEF IInv
  <2> QED BY <1>8, <2>1, <2>2 DEF CallsInOrder
<1>15. StubMarksTurn'
  BY <1>1 DEF IInv, StubMarksTurn
<1>16. CounterBounded'
  <2> DEFINE A == IF adding = {} THEN 0 ELSE 1
  <2>1. A \in Nat /\ A' = A
    BY <1>1
  <2>2. counter + A <= MaxTimers + 1 + e.at - AskMs /\ e.at >= AskMs
    BY <1>8 DEF IInv, CounterBounded
  <2> HIDE DEF A
  <2>3. counter' + A <= MaxTimers + 1 + new.at - AskMs
    BY <1>2, <1>4, <1>6, <1>11, <2>1, <2>2, TimeAssumption
  <2>4. new.at >= AskMs /\ new.at <= now + AskMs
    BY <1>4, <1>11, TimeAssumption
  <2>5. \A x \in heap' : x.id \in L' => x = new
    BY <1>2, <1>6, <1>9, <1>10
  <2>6. now' = now
    BY <1>1
  <2>7. counter \in Pending'
    BY <1>5
  <2>8. \A x \in heap' : x.id \in L' =>
          /\ x.at >= AskMs /\ x.at <= now' + AskMs
          /\ counter' + A' <= MaxTimers + 1 + x.at - AskMs
    BY <2>1, <2>3, <2>4, <2>5, <2>6
  <2> QED BY <1>9, <2>7, <2>8 DEF CounterBounded, A
<1> QED BY <1>8, <1>12, <1>13, <1>14, <1>15, <1>16 DEF IInv

LEMMA InvNext == IInv /\ [Next]_vars => IInv'
<1> SUFFICES ASSUME IInv, [Next]_vars PROVE IInv'
  OBVIOUS
<1>1. CASE \E e \in heap : FireTimeout(e)
  BY <1>1, FireCallInv, FireAskInv
<1>2. CASE EndTimeouts
  BY <1>2, EndTimeoutsInv
<1>3. CASE HandleEvent
  BY <1>3, HandleEventInv
<1>4. CASE EndEvents
  BY <1>4, EndEventsInv
<1>5. CASE \E e \in Event : AddEventTail(e)
  BY <1>5, AddEventTailInv
<1>6. CASE BeginAddTimeout
  BY <1>6, BeginAddTimeoutInv
<1>7. CASE EndAddTimeout
  BY <1>7, EndAddTimeoutInv
<1>8. CASE Tick
  BY <1>8, TickInv
<1>9. CASE UNCHANGED vars
  <2>1. now \in now .. MaxTime /\ queue \in Seq(Event \cup {Stub}) /\ phase \in {"timeouts", "events"}
    BY TimeAssumption DEF IInv, TypeOK
  <2>2. StubMarksTurn'
    BY <1>9 DEF IInv, StubMarksTurn, vars
  <2> QED BY <1>9, <2>1, <2>2, QueueStep DEF vars
<1> QED BY <1>1, <1>2, <1>3, <1>4, <1>5, <1>6, <1>7, <1>8, <1>9 DEF Next, LoopStep

LEMMA Invariance == Spec => []IInv
  BY InvInit, InvNext, PTL DEF Spec

\* Every reachable state of an event loop is well typed, however long timers
\* run and however many there are.
THEOREM TypeCorrect == Spec => []TypeOK
<1>1. IInv => TypeOK
  BY DEF IInv
<1> QED BY <1>1, Invariance, PTL

\* Every timer that is set has exactly one entry in m_heapTimeout, whatever
\* PopTimeoutItem throws away (src/eventloop.cpp).
THEOREM HeapCoversItemsCorrect == Spec => []HeapCoversItems
<1>1. IInv => HeapCoversItems
  BY DEF IInv, EntriesMatch, HeapCoversItems
<1> QED BY <1>1, Invariance, PTL
-----------------------------------------------------------------------------
(* The refinement of Reactor. *)

\* The events that wait, in the form in which Reactor has them.
Todo == RemoveFirst(queue, Stub)

LEMMA TodoWithStub ==
  ASSUME queue \in Seq(Event \cup {Stub}), NEW k \in 1 .. Len(queue),
         {j \in 1 .. Len(queue) : queue[j] = Stub} = {k}
  PROVE  Todo = RemoveAt(queue, k)
  BY LenProperties, RemoveFirstOnly DEF Todo

LEMMA TodoWithoutStub ==
  ASSUME {j \in 1 .. Len(queue) : queue[j] = Stub} = {}
  PROVE  Todo = queue
  BY RemoveFirstAbsent DEF Todo

LEMMA AddEventTailTodo ==
  ASSUME IInv, NEW e \in Event, AddEventTail(e)
  PROVE  Todo' = Append(Todo, e)
<1> DEFINE S == Event \cup {Stub}
<1> DEFINE q == Append(queue, e)
<1>1. queue \in Seq(S) /\ queue' = q /\ e \in S /\ e # Stub
  BY StubAssumption DEF AddEventTail, IInv, TypeOK
<1>2. /\ q \in Seq(S) /\ Len(queue) \in Nat /\ Len(q) = Len(queue) + 1
      /\ \A j \in 1 .. Len(queue) : q[j] = queue[j]
      /\ q[Len(queue) + 1] = e
  BY <1>1, AppendFacts
<1> HIDE DEF q
<1>3. {j \in 1 .. Len(q) : q[j] = Stub} = {j \in 1 .. Len(queue) : queue[j] = Stub}
  BY <1>1, <1>2
<1>4. Todo' = RemoveFirst(q, Stub)
  BY <1>1 DEF Todo
<1>5. CASE phase = "events"
  <2>1. PICK k \in 1 .. Len(queue) : {j \in 1 .. Len(queue) : queue[j] = Stub} = {k}
    BY <1>5 DEF IInv, StubMarksTurn
  <2>2. RemoveFirst(q, Stub) = RemoveAt(q, k)
    BY <1>2, <1>3, <2>1, RemoveFirstOnly
  <2> QED BY <1>1, <1>4, <2>1, <2>2, RemoveAtAppend, TodoWithStub DEF q
<1>6. CASE phase # "events"
  <2>1. {j \in 1 .. Len(queue) : queue[j] = Stub} = {}
    BY <1>6 DEF IInv, StubMarksTurn
  <2> QED BY <1>3, <1>4, <2>1, RemoveFirstAbsent, TodoWithoutStub DEF q
<1> QED BY <1>5, <1>6

LEMMA HandleEventTodo ==
  ASSUME IInv, HandleEvent
  PROVE  Todo # <<>> /\ Todo' = Tail(Todo)
<1> DEFINE S == Event \cup {Stub}
<1> DEFINE q == Tail(queue)
<1>1. /\ queue \in Seq(S) /\ queue # <<>> /\ Head(queue) # Stub
      /\ queue' = q /\ phase = "events"
  BY DEF HandleEvent, IInv, TypeOK
<1>2. /\ q \in Seq(S) /\ Len(queue) \in Nat /\ Len(queue) >= 1
      /\ Len(q) = Len(queue) - 1 /\ queue[1] # Stub
      /\ \A j \in 1 .. Len(q) : q[j] = queue[j + 1]
  BY <1>1, TailFacts
<1> HIDE DEF q
<1>3. PICK k \in 1 .. Len(queue) : {j \in 1 .. Len(queue) : queue[j] = Stub} = {k}
  BY <1>1 DEF IInv, StubMarksTurn
<1>4. k # 1 /\ k \in 2 .. Len(queue)
  BY <1>2, <1>3
<1>5. k - 1 \in 1 .. Len(q) /\ {j \in 1 .. Len(q) : q[j] = Stub} = {k - 1}
  <2>1. \A j \in 1 .. Len(queue) : queue[j] = Stub <=> j = k
    BY <1>3
  <2>2. k - 1 \in 1 .. Len(q)
    BY <1>2, <1>4
  <2>3. ASSUME NEW j \in 1 .. Len(q)
        PROVE  q[j] = Stub <=> j = k - 1
    <3>1. j + 1 \in 1 .. Len(queue)
      BY <1>2
    <3>2. q[j] = Stub <=> j + 1 = k
      BY <1>2, <2>1, <3>1
    <3> QED BY <3>2, <1>4
  <2> QED BY <2>2, <2>3
<1>6. Todo' = RemoveAt(q, k - 1)
  <2>1. queue' = q
    BY <1>1 DEF q
  <2>2. Len(q) \in Nat
    BY <1>2, LenProperties
  <2> QED BY <1>5, <2>1, <2>2, RemoveFirstOnly DEF Todo
<1> QED BY <1>1, <1>3, <1>4, <1>6, RemoveAtTail, TodoWithStub DEF q

\* The stub comes and goes unnoticed.
LEMMA EndTimeoutsTodo ==
  ASSUME IInv, EndTimeouts
  PROVE  Todo' = Todo
<1> DEFINE S == Event \cup {Stub}
<1> DEFINE q == Append(queue, Stub)
<1>1. queue \in Seq(S) /\ queue' = q /\ phase = "timeouts"
  BY DEF EndTimeouts, AddStub, IInv, TypeOK
<1>2. {j \in 1 .. Len(queue) : queue[j] = Stub} = {}
  BY <1>1 DEF IInv, StubMarksTurn
<1>3. /\ Len(queue) \in Nat /\ Len(q) = Len(queue) + 1
      /\ \A j \in 1 .. Len(queue) : q[j] = queue[j]
      /\ q[Len(queue) + 1] = Stub
  BY <1>1, AppendFacts
<1> HIDE DEF q
<1>4. /\ Len(queue) + 1 \in 1 .. Len(q)
      /\ {j \in 1 .. Len(q) : q[j] = Stub} = {Len(queue) + 1}
  BY <1>2, <1>3
<1>5. Todo' = RemoveAt(q, Len(queue) + 1)
  BY <1>1, <1>3, <1>4, RemoveFirstOnly DEF Todo
<1> QED BY <1>1, <1>2, <1>5, RemoveAtLast, TodoWithoutStub DEF q

LEMMA EndEventsTodo ==
  ASSUME IInv, EndEvents
  PROVE  Todo' = Todo
<1> DEFINE S == Event \cup {Stub}
<1> DEFINE q == Tail(queue)
<1>1. /\ queue \in Seq(S) /\ phase = "events" /\ queue # <<>> /\ Head(queue) = Stub
      /\ queue' = q
  BY EndEventsInv DEF EndEvents, IInv, TypeOK
<1>2. /\ Len(queue) \in Nat /\ Len(queue) >= 1
      /\ Len(q) = Len(queue) - 1 /\ queue[1] = Stub
      /\ \A j \in 1 .. Len(q) : q[j] = queue[j + 1]
  BY <1>1, TailFacts
<1> HIDE DEF q
<1>3. PICK k \in 1 .. Len(queue) : {j \in 1 .. Len(queue) : queue[j] = Stub} = {k}
  BY <1>1 DEF IInv, StubMarksTurn
<1>4. k = 1
  BY <1>2, <1>3
<1>5. {j \in 1 .. Len(q) : q[j] = Stub} = {}
  BY <1>2, <1>3, <1>4
<1>6. Todo' = q
  BY <1>1, <1>5, RemoveFirstAbsent DEF Todo
<1> QED BY <1>1, <1>3, <1>4, <1>6, RemoveAtFirst, TodoWithStub DEF q

LEMMA ReactorInit == Init => Loop!Init
<1> SUFFICES ASSUME Init PROVE Loop!Init
  OBVIOUS
<1>1. Ids("ProposeTimeout") = {}
  BY DEF Init, Ids, Pending
<1>2. Len(queue) = 0 /\ queue = <<>>
  BY EmptySeq DEF Init
<1>3. RemoveFirst(queue, Stub) = <<>>
  BY <1>2, RemoveFirstAbsent
<1> QED BY <1>1, <1>3 DEF Loop!Init

LEMMA ReactorNext == IInv /\ [Next]_vars => [Loop!Next]_(Loop!vars)
<1> SUFFICES ASSUME IInv, [Next]_vars PROVE [Loop!Next]_(Loop!vars)
  OBVIOUS
<1> DEFINE calls == Ids("ProposeTimeout")
<1> USE DEF Loop!vars
<1>1. ASSUME queue' = queue
      PROVE  RemoveFirst(queue, Stub)' = RemoveFirst(queue, Stub)
  BY <1>1 DEF RemoveFirst, RemoveAt, SelectInSeq
<1>2. ASSUME items' = items
      PROVE  calls' = calls
  BY <1>2 DEF Ids, Pending
<1>3. CASE \E e \in heap : FireTimeout(e)
  <2>1. PICK e \in heap : FireTimeout(e)
    BY <1>3
  <2>2. RemoveFirst(queue, Stub)' = RemoveFirst(queue, Stub)
    BY <1>1, <2>1 DEF FireTimeout
  <2>3. CASE items[e.id] = "LearnerAskForInstanceIdLoop"
    BY <2>1, <2>2, <2>3, FireAskInv
  <2>4. CASE items[e.id] # "LearnerAskForInstanceIdLoop"
    <3>1. Loop!Fire
      BY <2>1, <2>2, <2>4, FireCallInv DEF Loop!Fire
    <3> QED BY <3>1 DEF Loop!Next
  <2> QED BY <2>3, <2>4
<1>4. CASE EndTimeouts
  BY <1>2, <1>4, EndTimeoutsTodo DEF EndTimeouts, Todo
<1>5. CASE HandleEvent
  <2>1. Loop!Handle
    BY <1>5, HandleEventInv, HandleEventTodo DEF Loop!Handle, Todo
  <2> QED BY <2>1 DEF Loop!Next
<1>6. CASE EndEvents
  BY <1>2, <1>6, EndEventsTodo DEF EndEvents, Todo
<1>7. CASE \E e \in Event : AddEventTail(e)
  <2>1. Loop!Enqueue
    BY <1>2, <1>7, AddEventTailTodo DEF Loop!Enqueue, AddEventTail, Todo
  <2> QED BY <2>1 DEF Loop!Next
<1>8. CASE BeginAddTimeout
  BY <1>1, <1>2, <1>8 DEF BeginAddTimeout
<1>9. CASE EndAddTimeout
  <2>1. RemoveFirst(queue, Stub)' = RemoveFirst(queue, Stub)
    BY <1>1, <1>9 DEF EndAddTimeout
  <2>2. \A c \in calls : c < counter
    BY DEF IInv, TypeOK, Ids
  <2>3. Loop!Set
    BY <1>9, <2>1, <2>2, EndAddTimeoutInv DEF Loop!Set
  <2> QED BY <2>3 DEF Loop!Next
<1>10. CASE Tick
  BY <1>1, <1>2, <1>10 DEF Tick
<1>11. CASE UNCHANGED vars
  BY <1>1, <1>2, <1>11 DEF vars
<1> QED BY <1>3, <1>4, <1>5, <1>6, <1>7, <1>8, <1>9, <1>10, <1>11 DEF Next, LoopStep

\* Whatever the timers, the client and the network do at the same time, the
\* loop takes every event once and in order, lets the timers of calls go off in
\* the order in which they were set, and none after it was removed.
THEOREM ReactorImplemented == Spec => Loop!Safe
  BY InvInit, Invariance, ReactorInit, ReactorNext, PTL DEF Spec, Loop!Safe
=============================================================================
