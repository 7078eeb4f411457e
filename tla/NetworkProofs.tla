---------------------------- MODULE NetworkProofs ----------------------------
(***************************************************************************)
(* Proofs about Network: where the ends of connections are, and which of   *)
(* them carry messages.                                                    *)
(***************************************************************************)
EXTENDS Network, Lemmas

\* The node that has the end `side' of the connection k.
Owner(k, side) == IF side = "out" THEN conns[k].from ELSE conns[k].to

Queue(k, side) == conns[k].queue[side]

EndOf(k, side) == [conn |-> k, side |-> side]

HasChannel(n, e) == e \in ToSet(channels[n])

Waits(n, k) == k \in ToSet(backlog[n])

\* The process at that end has the end, as a channel or on the way to one.
Held(k, side) ==
  LET n == Owner(k, side) IN
  \/ HasChannel(n, EndOf(k, side))
  \/ side = "out" /\ k \in making[n]
  \/ side = "in" /\ Waits(n, k)
-----------------------------------------------------------------------------
(* The inductive invariant. *)

\* What a node has are ends of its own, each of them once.
EndsOwned(n) ==
  /\ IsInjective(channels[n]) /\ IsInjective(backlog[n])
  /\ \A e \in ToSet(channels[n]) :
       /\ e.conn \in DOMAIN conns /\ Owner(e.conn, e.side) = n
       /\ e.side = "out" => e.conn \notin making[n]
       /\ e.side = "in" => ~Waits(n, e.conn)
  /\ \A k \in making[n] : k \in DOMAIN conns /\ Owner(k, "out") = n
  /\ \A k \in ToSet(backlog[n]) : k \in DOMAIN conns /\ Owner(k, "in") = n

\* A node asks for channels once Init has connected to all its peers.
Phases(n) ==
  /\ edge[n] => backlog[n] # <<>>
  /\ phase[n] \in {"down", "connecting"} => requests[n] = <<>>
  /\ phase[n] # "connecting" => todo[n] = {}
  /\ phase[n] = "down" => making[n] = {} /\ channels[n] = <<>>

\* The connections n has made.
Opened(n) == making[n] \cup {k \in DOMAIN conns : HasChannel(n, EndOf(k, "out"))}

OneEach(n) ==
  \A k \in Opened(n) :
    /\ conns[k].to \notin todo[n]
    /\ \A j \in Opened(n) : conns[j].to = conns[k].to => j = k

\* An end is held as long as the other one is, unless it is gone; it is still
\* held then only where the connection broke.
Meets(k) ==
  \A side \in Sides :
    /\ Held(k, side) => Held(k, Other(side)) \/ Other(side) \in conns[k].gone
    /\ side \in conns[k].gone /\ Held(k, side) => conns[k].gone = Sides

\* e is the first channel n has for p.
Uses(n, p, e) ==
  \E j \in DOMAIN channels[n] :
    /\ channels[n][j] = e /\ PeerId(e) = p
    /\ \A i \in 1 .. (j - 1) : PeerId(channels[n][i]) # p

Unread(q) == \E i \in DOMAIN q : q[i] # 0

\* The messages of q are in the order in which they were sent and come after
\* those of g, and the last one sent is `last'.
InSequence(q, g, last) ==
  \A i \in DOMAIN q :
    /\ q[i] <= last
    /\ \A j \in DOMAIN g : q[i] # 0 => g[j] < q[i]
    /\ \A j \in DOMAIN q : i < j /\ q[i] # 0 /\ q[j] # 0 => q[i] < q[j]

\* The messages that p has got from n.
GotInOrder(n, p) ==
  <<n, p>> \notin overtaken =>
    \A j \in DOMAIN got[p][n] :
      /\ got[p][n][j] <= sent[n][p]
      /\ \A i \in DOMAIN got[p][n] : i < j => got[p][n][i] < got[p][n][j]

\* The messages under way from n to p are in the channel that n uses.
Flows(k, side, n, p) ==
  /\ InSequence(Queue(k, side), got[p][n], sent[n][p])
  /\ Unread(Queue(k, side)) => Uses(n, p, EndOf(k, side))

Carries(k, side) ==
  LET n == Owner(k, side)
      p == Owner(k, Other(side))
  IN  <<n, p>> \notin overtaken => Flows(k, side, n, p)

\* Only the node that connected sends its id.
IdFromOut(k) == \A i \in DOMAIN Queue(k, "in") : Queue(k, "in")[i] # 0

IInv ==
  /\ TypeOK
  /\ \A n \in Node : EndsOwned(n) /\ Phases(n) /\ OneEach(n)
  /\ \A k \in DOMAIN conns : Meets(k) /\ IdFromOut(k)
  /\ \A n, p \in Node : GotInOrder(n, p)
  /\ \A k \in DOMAIN conns : \A side \in Sides : Carries(k, side)
-----------------------------------------------------------------------------
(* Connections and their ends. *)

LEMMA SideFacts ==
  /\ Other("out") = "in" /\ Other("in") = "out"
  /\ \A s \in Sides : s = "out" \/ s = "in"
  BY DEF Other, Sides

LEMMA ConnFacts ==
  ASSUME TypeOK
  PROVE  /\ conns \in Seq(Connection) /\ Len(conns) \in Nat /\ DOMAIN conns = 1 .. Len(conns)
         /\ Len(conns) <= MaxConns /\ MaxConns \in Nat
         /\ \A k \in DOMAIN conns :
              /\ conns[k] \in Connection
              /\ conns[k].from \in Node /\ conns[k].to \in Node /\ conns[k].known \in BOOLEAN
              /\ conns[k].gone \in SUBSET Sides /\ conns[k].queue \in [Sides -> Seq(0 .. MaxSent)]
              /\ \A s \in Sides : Queue(k, s) \in Seq(0 .. MaxSent)
              /\ k \in 1 .. MaxConns
<1>1. conns \in Seq(Connection) /\ Len(conns) <= MaxConns /\ MaxConns \in Nat
  BY BoundAssumption DEF TypeOK
<1>2. Len(conns) \in Nat /\ DOMAIN conns = 1 .. Len(conns)
  BY <1>1, LenProperties
<1>3. \A k \in DOMAIN conns : conns[k] \in Connection
  BY <1>1, <1>2, ElementOfSeq
<1> QED BY <1>1, <1>2, <1>3 DEF Connection, Queue

\* In the connection k, what the end `side' has sent becomes q, and the id is
\* known or not.
Changes(k, side, q, known) ==
  /\ conns' \in Seq(Connection) /\ Len(conns') = Len(conns) /\ DOMAIN conns' = DOMAIN conns
  /\ \A j \in DOMAIN conns :
       /\ conns'[j].from = conns[j].from /\ conns'[j].to = conns[j].to
       /\ conns'[j].gone = conns[j].gone
       /\ conns'[j].known = IF j = k THEN known ELSE conns[j].known
       /\ \A s \in Sides :
            Queue(j, s)' = IF j = k /\ s = side THEN q ELSE Queue(j, s)

LEMMA ChangesBy ==
  ASSUME TypeOK, NEW k \in DOMAIN conns, NEW side \in Sides, NEW q \in Seq(0 .. MaxSent),
         NEW known \in BOOLEAN,
         conns' = [conns EXCEPT ![k] = [conns[k] EXCEPT !.queue = [conns[k].queue EXCEPT ![side] = q],
                                                        !.known = known]]
  PROVE  Changes(k, side, q, known)
<1> DEFINE c == [conns[k] EXCEPT !.queue = [conns[k].queue EXCEPT ![side] = q], !.known = known]
<1>1. /\ conns[k] \in Connection /\ conns[k].queue \in [Sides -> Seq(0 .. MaxSent)]
  BY ConnFacts
<1>2. [conns[k].queue EXCEPT ![side] = q] \in [Sides -> Seq(0 .. MaxSent)]
  BY <1>1
<1>3. /\ c \in Connection /\ c.from = conns[k].from /\ c.to = conns[k].to
      /\ c.gone = conns[k].gone /\ c.known = known
      /\ c.queue = [conns[k].queue EXCEPT ![side] = q]
  BY <1>1, <1>2 DEF Connection
<1>4. \A s \in Sides : c.queue[s] = IF s = side THEN q ELSE conns[k].queue[s]
  BY <1>1, <1>3
<1> HIDE DEF c
<1>5. conns \in Seq(Connection) /\ k \in 1 .. Len(conns) /\ conns' = [conns EXCEPT ![k] = c]
  BY ConnFacts DEF c
<1>6. conns' \in Seq(Connection) /\ Len(conns') = Len(conns)
      /\ \A j \in 1 .. Len(conns) : conns'[j] = IF j = k THEN c ELSE conns[j]
  BY <1>3, <1>5, ExceptSeq
<1>7. DOMAIN conns' = DOMAIN conns
  BY <1>5, <1>6, LenProperties
<1> QED BY <1>3, <1>4, <1>6, <1>7, ConnFacts DEF Changes, Queue

\* A connection is made, unless the other node is down.
Connects(n, p, k) ==
  /\ k = Len(conns) + 1 /\ k \in 1 .. MaxConns /\ k \notin DOMAIN conns /\ phase[p] # "down"
  /\ conns' \in Seq(Connection) /\ Len(conns') = k /\ DOMAIN conns' = DOMAIN conns \cup {k}
  /\ \A j \in DOMAIN conns : conns'[j] = conns[j]
  /\ conns'[k].from = n /\ conns'[k].to = p /\ conns'[k].gone = {} /\ conns'[k].known = FALSE
  /\ \A s \in Sides : Queue(k, s)' = <<>>
  /\ making' = [making EXCEPT ![n] = making[n] \cup {k}]
  /\ backlog' = [backlog EXCEPT ![p] = Append(backlog[p], k)]
  /\ edge' = [edge EXCEPT ![p] = TRUE]

LEMMA ConnectFacts ==
  ASSUME TypeOK, NEW n \in Node, NEW p \in Node, Connect(n, p)
  PROVE  UNCHANGED <<conns, making, backlog, edge>> \/ \E k : Connects(n, p, k)
<1>1. CASE phase[p] = "down"
  BY <1>1 DEF Connect
<1>2. CASE phase[p] # "down"
  <2> DEFINE c == [from |-> n, to |-> p, known |-> FALSE, gone |-> {},
                   queue |-> [s \in Sides |-> <<>>]]
  <2>0. PICK k : k = Len(conns) + 1
    OBVIOUS
  <2>1. /\ Len(conns) < MaxConns /\ conns' = Append(conns, c)
        /\ making' = [making EXCEPT ![n] = making[n] \cup {Len(conns')}]
        /\ backlog' = [backlog EXCEPT ![p] = Append(backlog[p], Len(conns'))]
        /\ edge' = [edge EXCEPT ![p] = TRUE]
    BY <1>2 DEF Connect
  <2>2. c \in Connection
    <3>1. <<>> \in Seq(0 .. MaxSent)
      BY EmptySeq
    <3> QED BY <3>1 DEF Connection
  <2>3. /\ c.from = n /\ c.to = p /\ c.gone = {} /\ c.known = FALSE
        /\ \A s \in Sides : c.queue[s] = <<>>
    OBVIOUS
  <2> HIDE DEF c
  <2>4. /\ conns' \in Seq(Connection) /\ Len(conns') = k
        /\ \A j \in 1 .. Len(conns) : conns'[j] = conns[j]
        /\ conns'[k] = c
    BY <2>0, <2>1, <2>2, AppendFacts, ConnFacts
  <2>5. k \in 1 .. MaxConns /\ k \notin DOMAIN conns /\ DOMAIN conns' = DOMAIN conns \cup {k}
    <3>1. DOMAIN conns' = 1 .. k
      BY <2>4, LenProperties
    <3> QED BY <2>0, <2>1, <3>1, ConnFacts
  <2>6. conns'[k].from = n /\ conns'[k].to = p /\ conns'[k].gone = {} /\ conns'[k].known = FALSE
        /\ \A s \in Sides : Queue(k, s)' = <<>>
    BY <2>3, <2>4 DEF Queue
  <2>7. Connects(n, p, k)
    <3>1. DOMAIN conns = 1 .. Len(conns)
      BY ConnFacts
    <3> QED BY <1>2, <2>0, <2>1, <2>4, <2>5, <2>6, <3>1 DEF Connects
  <2> QED BY <2>7
<1> QED BY <1>1, <1>2
-----------------------------------------------------------------------------
(* Types. *)

LEMMA TypeInit == Init => TypeOK
<1>1. <<>> \in Seq(Connection) /\ Len(<<>>) = 0 /\ <<>> \in Seq(End) /\ <<>> \in Seq(1 .. MaxConns)
      /\ <<>> \in Seq(Node) /\ <<>> \in Seq(1 .. MaxSent)
  BY EmptySeq
<1>2. 0 <= MaxConns /\ 0 \in 0 .. MaxSent /\ 0 \in 0 .. MaxFaults
  BY BoundAssumption
<1> QED BY <1>1, <1>2 DEF Init, TypeOK

\* Making a connection keeps the types of what it changes.
ConnsTyped ==
  /\ conns \in Seq(Connection) /\ Len(conns) <= MaxConns
  /\ making \in [Node -> SUBSET (1 .. MaxConns)] /\ backlog \in [Node -> Seq(1 .. MaxConns)]
  /\ edge \in [Node -> BOOLEAN]

LEMMA ConnectTypes ==
  ASSUME TypeOK, NEW n \in Node, NEW p \in Node, Connect(n, p)
  PROVE  ConnsTyped'
<1>1. CASE UNCHANGED <<conns, making, backlog, edge>>
  BY <1>1 DEF TypeOK, ConnsTyped
<1>2. ASSUME NEW k, Connects(n, p, k)
      PROVE  ConnsTyped'
  <2>1. k \in 1 .. MaxConns /\ conns' \in Seq(Connection) /\ Len(conns') = k
    BY <1>2 DEF Connects
  <2>2. making[n] \cup {k} \in SUBSET (1 .. MaxConns)
    BY <2>1 DEF TypeOK
  <2>3. backlog[p] \in Seq(1 .. MaxConns)
    BY DEF TypeOK
  <2>4. Append(backlog[p], k) \in Seq(1 .. MaxConns)
    BY <2>1, <2>3, AppendFacts
  <2>5. Len(conns') <= MaxConns
    BY <2>1, BoundAssumption
  <2> QED BY <1>2, <2>1, <2>2, <2>4, <2>5 DEF Connects, TypeOK, ConnsTyped
<1> QED BY <1>1, <1>2, ConnectFacts

LEMMA EndType ==
  ASSUME TypeOK, NEW n \in Node, NEW e \in ToSet(channels[n])
  PROVE  e \in End /\ e.conn \in 1 .. MaxConns /\ e.side \in Sides /\ Other(e.side) \in Sides
         /\ e = EndOf(e.conn, e.side) /\ HasChannel(n, e)
<1>1. PICK j \in DOMAIN channels[n] : e = channels[n][j]
  BY DEF ToSet
<1>2. channels[n] \in Seq(End)
  BY DEF TypeOK
<1>3. e \in End
  BY <1>1, <1>2, ElementOfSeq, LenProperties
<1>4. Other(e.side) \in Sides
  BY <1>3, SideFacts DEF End, Sides
<1> QED BY <1>3, <1>4 DEF End, EndOf, HasChannel


\* What the constructor of a channel or the network thread does to a queue.
LEMMA AddOutgoingFacts ==
  ASSUME TypeOK, NEW n \in Node, NEW k \in making[n], k \in DOMAIN conns, AddOutgoing(n, k)
  PROVE  /\ Changes(k, "out", Append(Queue(k, "out"), 0), conns[k].known)
         /\ channels' = [channels EXCEPT ![n] = Append(channels[n], EndOf(k, "out"))]
         /\ EndOf(k, "out") \in End
<1> DEFINE q == Append(Queue(k, "out"), 0)
<1>1. q \in Seq(0 .. MaxSent)
  <2>1. Queue(k, "out") \in Seq(0 .. MaxSent)
    BY ConnFacts DEF Sides
  <2> QED BY <2>1, AppendFacts, BoundAssumption
<1>2. conns' = [conns EXCEPT ![k] = [conns[k] EXCEPT !.queue = [conns[k].queue EXCEPT !["out"] = q],
                                                     !.known = conns[k].known]]
  <2>1. conns[k] \in Connection
    BY ConnFacts
  <2>2. [conns[k] EXCEPT !.queue = [conns[k].queue EXCEPT !["out"] = q], !.known = conns[k].known]
          = [conns[k] EXCEPT !.queue = [conns[k].queue EXCEPT !["out"] = q]]
    BY <2>1 DEF Connection
  <2> QED BY <2>2 DEF AddOutgoing, Queue
<1> HIDE DEF q
<1>3. Changes(k, "out", q, conns[k].known)
  BY <1>1, <1>2, ConnFacts, ChangesBy DEF Sides
<1>4. EndOf(k, "out") \in End
  BY ConnFacts DEF EndOf, End, Sides
<1> QED BY <1>3, <1>4 DEF AddOutgoing, AddChannel, EndOf, q

\* The id of a channel that is accepted may have arrived.
LEMMA PeerConnectFacts ==
  ASSUME TypeOK, NEW n \in Node, EndsOwned(n), Phases(n), PeerConnect(n)
  PROVE  \E k \in DOMAIN conns, q \in Seq(0 .. MaxSent), known \in BOOLEAN :
           /\ backlog[n] # <<>> /\ k = Head(backlog[n]) /\ k = backlog[n][1]
           /\ Changes(k, "out", q, known)
           /\ \/ q = Queue(k, "out")
              \/ Queue(k, "out") # <<>> /\ q = Tail(Queue(k, "out"))
           /\ channels' = [channels EXCEPT ![n] = Append(channels[n], EndOf(k, "in"))]
           /\ EndOf(k, "in") \in End
<1> DEFINE k == Head(backlog[n])
<1>1. backlog[n] \in Seq(1 .. MaxConns) /\ backlog[n] # <<>>
  BY DEF TypeOK, Phases, PeerConnect
<1>2. k = backlog[n][1] /\ 1 \in DOMAIN backlog[n]
  BY <1>1, TailFacts, LenProperties
<1>3. k \in DOMAIN conns
  <2>1. k \in ToSet(backlog[n])
    BY <1>2 DEF ToSet
  <2> QED BY <2>1 DEF EndsOwned
<1>4. EndOf(k, "in") \in End
  BY <1>3, ConnFacts DEF EndOf, End, Sides
<1>5. channels' = [channels EXCEPT ![n] = Append(channels[n], EndOf(k, "in"))]
  BY DEF PeerConnect, AddChannel, EndOf
<1>6. Queue(k, "out") \in Seq(0 .. MaxSent) /\ conns[k] \in Connection /\ conns[k].known \in BOOLEAN
      /\ conns[k].queue \in [Sides -> Seq(0 .. MaxSent)]
  BY <1>3, ConnFacts DEF Sides
<1>7. CASE Queue(k, "out") = <<>>
  <2>1. conns' = conns
    BY <1>7 DEF PeerConnect, Queue
  <2>2. Changes(k, "out", Queue(k, "out"), conns[k].known)
    <3>1. PICK j : j = k
      OBVIOUS
    <3> HIDE DEF k
    <3> QED BY <2>1, <3>1, ConnFacts DEF Changes, Queue
  <2> HIDE DEF k
  <2> QED BY <1>1, <1>2, <1>3, <1>4, <1>5, <1>6, <2>2 DEF k
<1>8. CASE Queue(k, "out") # <<>>
  <2> DEFINE q == Tail(Queue(k, "out"))
  <2>1. q \in Seq(0 .. MaxSent)
    BY <1>6, <1>8, TailFacts
  <2>2. conns' = [conns EXCEPT ![k] = [conns[k] EXCEPT !.queue = [conns[k].queue EXCEPT !["out"] = q],
                                                       !.known = TRUE]]
    <3>1. conns' = [conns EXCEPT ![k].known = TRUE, ![k].queue["out"] = Tail(@)]
      BY <1>8 DEF PeerConnect, Queue
    <3> QED BY <1>3, <1>6, <3>1, ConnFacts DEF Queue, Connection
  <2>3. Changes(k, "out", q, TRUE)
    <3> HIDE DEF k, q
    <3>1. PICK j \in DOMAIN conns : j = k
      BY <1>3
    <3>2. PICK r \in Seq(0 .. MaxSent) : r = q
      BY <2>1
    <3>3. Changes(j, "out", r, TRUE)
      BY <2>2, <3>1, <3>2, ChangesBy DEF Sides
    <3> QED BY <3>1, <3>2, <3>3
  <2> HIDE DEF k, q
  <2> QED BY <1>1, <1>2, <1>3, <1>4, <1>5, <1>8, <2>1, <2>3 DEF k, q
<1> QED BY <1>7, <1>8


\* The first of some places in a vector.
LEMMA FirstPlace ==
  ASSUME TypeOK, NEW n \in Node, NEW p, ChannelsTo(n, p) # {}
  PROVE  LET k == Min(ChannelsTo(n, p)) IN
         /\ k \in ChannelsTo(n, p) /\ \A j \in ChannelsTo(n, p) : k <= j
<1>1. channels[n] \in Seq(End)
  BY DEF TypeOK
<1>2. DOMAIN channels[n] \subseteq Nat
  BY <1>1, LenProperties
<1>3. ChannelsTo(n, p) \in SUBSET Nat
  BY <1>2 DEF ChannelsTo
<1>4. \E k \in ChannelsTo(n, p) : \A j \in ChannelsTo(n, p) : k <= j
  BY <1>3, MinimumExists
<1> QED BY <1>4 DEF Min

\* GetChannelByPeerId finds the channel in use.
LEMMA UsedFound ==
  ASSUME TypeOK, NEW n \in Node, NEW p, ChannelsTo(n, p) # {}
  PROVE  Uses(n, p, GetChannelByPeerId(n, p))
<1> DEFINE k == Min(ChannelsTo(n, p))
<1>1. k \in ChannelsTo(n, p) /\ \A j \in ChannelsTo(n, p) : k <= j
  BY FirstPlace
<1>2. /\ k \in DOMAIN channels[n] /\ PeerId(channels[n][k]) = p
      /\ \A j \in DOMAIN channels[n] : PeerId(channels[n][j]) = p => k <= j
  BY <1>1 DEF ChannelsTo
<1>3. channels[n] \in Seq(End) /\ DOMAIN channels[n] = 1 .. Len(channels[n]) /\ Len(channels[n]) \in Nat
  BY LenProperties DEF TypeOK
<1> HIDE DEF k
<1>4. \A j \in 1 .. (k - 1) : j \in DOMAIN channels[n] /\ ~(k <= j)
  BY <1>2, <1>3
<1>5. \A j \in 1 .. (k - 1) : PeerId(channels[n][j]) # p
  BY <1>2, <1>4
<1> QED BY <1>2, <1>5 DEF Uses, GetChannelByPeerId, k

\* There is one channel in use, and none without a channel for the peer.
LEMMA UsedOnce ==
  ASSUME TypeOK, NEW n \in Node, NEW p, NEW d, NEW e, Uses(n, p, d), Uses(n, p, e)
  PROVE  d = e
<1>1. PICK i \in DOMAIN channels[n] :
        /\ channels[n][i] = d /\ PeerId(d) = p
        /\ \A l \in 1 .. (i - 1) : PeerId(channels[n][l]) # p
  BY DEF Uses
<1>2. PICK j \in DOMAIN channels[n] :
        /\ channels[n][j] = e /\ PeerId(e) = p
        /\ \A l \in 1 .. (j - 1) : PeerId(channels[n][l]) # p
  BY DEF Uses
<1>3. DOMAIN channels[n] = 1 .. Len(channels[n]) /\ Len(channels[n]) \in Nat
  BY LenProperties DEF TypeOK
<1>4. ~(i < j) /\ ~(j < i)
  <2>1. i < j => i \in 1 .. (j - 1)
    BY <1>3
  <2>2. j < i => j \in 1 .. (i - 1)
    BY <1>3
  <2> QED BY <1>1, <1>2, <2>1, <2>2
<1>5. i = j
  BY <1>3, <1>4
<1> QED BY <1>1, <1>2, <1>5

LEMMA UsesFacts ==
  ASSUME NEW n, NEW p, NEW e, Uses(n, p, e)
  PROVE  HasChannel(n, e) /\ PeerId(e) = p /\ ChannelsTo(n, p) # {}
  BY DEF Uses, HasChannel, ChannelsTo, ToSet

\* What a node does to a queue of its own, or to one it reads.
LEMMA SendFacts ==
  ASSUME TypeOK, NEW n \in Node, NEW p \in Node, EndsOwned(n), SendMessageToPeer(n, p)
  PROVE  /\ sent' = [sent EXCEPT ![n] = [sent[n] EXCEPT ![p] = sent[n][p] + 1]]
         /\ sent[n][p] \in Nat /\ sent[n][p] < MaxSent /\ sent[n][p] + 1 \in 0 .. MaxSent
         /\ \/ UNCHANGED conns
            \/ \E k \in DOMAIN conns, side \in Sides :
                 /\ Uses(n, p, EndOf(k, side))
                 /\ Changes(k, side, Append(Queue(k, side), sent[n][p] + 1), conns[k].known)
<1>1. sent' = [sent EXCEPT ![n] = [sent[n] EXCEPT ![p] = sent[n][p] + 1]] /\ sent[n][p] < MaxSent
  BY DEF SendMessageToPeer
<1>2. sent[n][p] \in 0 .. MaxSent /\ sent[n][p] \in Nat /\ sent[n][p] + 1 \in 0 .. MaxSent
  <2>1. sent[n][p] \in 0 .. MaxSent
    BY DEF TypeOK
  <2> QED BY <1>1, <2>1, BoundAssumption
<1>3. sent'[n][p] = sent[n][p] + 1
  BY <1>1 DEF TypeOK
<1>4. CASE UNCHANGED conns
  BY <1>1, <1>2, <1>4
<1>5. CASE ~UNCHANGED conns
  <2> DEFINE e == GetChannelByPeerId(n, p)
  <2> DEFINE m == sent[n][p] + 1
  <2>1. ChannelsTo(n, p) # {} /\ conns' = [conns EXCEPT ![e.conn].queue[e.side] = Append(@, m)]
    BY <1>3, <1>5 DEF SendMessageToPeer
  <2>2. Uses(n, p, e)
    BY <2>1, UsedFound
  <2>3. e \in ToSet(channels[n])
    BY <2>2, UsesFacts DEF HasChannel, ToSet
  <2>4. PICK k : k = e.conn
    OBVIOUS
  <2>5. PICK side : side = e.side
    OBVIOUS
  <2>6. side \in Sides /\ e = EndOf(k, side)
    BY <2>3, <2>4, <2>5, EndType
  <2>7. k \in DOMAIN conns
    BY <2>3, <2>4 DEF EndsOwned, ToSet
  <2> HIDE DEF e, m
  <2>8. Queue(k, side) \in Seq(0 .. MaxSent) /\ conns[k] \in Connection /\ conns[k].known \in BOOLEAN
    BY <2>6, <2>7, ConnFacts
  <2>9. PICK q : q = Append(Queue(k, side), m)
    OBVIOUS
  <2>10. q \in Seq(0 .. MaxSent)
    BY <1>2, <2>8, <2>9, AppendFacts DEF m
  <2>11. conns' = [conns EXCEPT ![k] = [conns[k] EXCEPT !.queue = [conns[k].queue EXCEPT ![side] = q],
                                                        !.known = conns[k].known]]
    <3>1. conns' = [conns EXCEPT ![k].queue[side] = q]
      BY <2>1, <2>4, <2>5, <2>9 DEF Queue
    <3>2. [conns[k] EXCEPT !.queue = [conns[k].queue EXCEPT ![side] = q], !.known = conns[k].known]
            = [conns[k] EXCEPT !.queue = [conns[k].queue EXCEPT ![side] = q]]
      BY <2>8 DEF Connection
    <3> QED BY <3>1, <3>2
  <2>12. Changes(k, side, q, conns[k].known)
    BY <2>6, <2>7, <2>8, <2>10, <2>11, ChangesBy
  <2> QED BY <1>1, <1>2, <2>2, <2>6, <2>7, <2>9, <2>12 DEF m
<1> QED BY <1>4, <1>5


LEMMA PeerOwns ==
  ASSUME NEW k, NEW side \in Sides
  PROVE  /\ Peer(EndOf(k, side)) = Owner(k, Other(side))
         /\ Other(side) \in Sides /\ Other(side) # side /\ Other(Other(side)) = side
         /\ EndOf(k, side).conn = k /\ EndOf(k, side).side = side
<1>1. CASE side = "out"
  BY <1>1, SideFacts DEF Peer, EndOf, Owner, Sides
<1>2. CASE side = "in"
  BY <1>2, SideFacts DEF Peer, EndOf, Owner, Sides
<1> QED BY <1>1, <1>2, SideFacts

\* A channel of n is an end of a connection, which n owns.
LEMMA ChannelFacts ==
  ASSUME TypeOK, NEW n \in Node, EndsOwned(n), NEW e \in ToSet(channels[n])
  PROVE  \E k \in DOMAIN conns, side \in Sides :
           /\ e = EndOf(k, side) /\ e.conn = k /\ e.side = side
           /\ HasChannel(n, e) /\ Owner(k, side) = n
           /\ Owner(k, Other(side)) \in Node /\ Peer(e) = Owner(k, Other(side))
           /\ Other(side) \in Sides
<1>1. e.side \in Sides /\ e = EndOf(e.conn, e.side) /\ HasChannel(n, e)
  BY EndType
<1>2. e.conn \in DOMAIN conns /\ Owner(e.conn, e.side) = n
  BY DEF EndsOwned, ToSet
<1>3. Owner(e.conn, Other(e.side)) \in Node
  BY <1>2, ConnFacts DEF Owner
<1>4. PICK k \in DOMAIN conns : k = e.conn
  BY <1>2
<1>5. PICK side \in Sides : side = e.side
  BY <1>1
<1>6. Peer(e) = Owner(k, Other(side)) /\ Other(side) \in Sides
  BY <1>1, <1>4, <1>5, PeerOwns
<1> QED BY <1>1, <1>2, <1>3, <1>4, <1>5, <1>6

LEMMA ReadableFacts ==
  ASSUME TypeOK, NEW n \in Node, NEW k \in DOMAIN conns, NEW side \in Sides,
         Readable(n, EndOf(k, side))
  PROVE  LET q == Queue(k, Other(side))
             p == Owner(k, Other(side))
         IN
         /\ q # <<>> /\ q \in Seq(0 .. MaxSent)
         /\ Changes(k, Other(side), Tail(q), conns[k].known \/ Head(q) = 0)
         /\ got' = IF Head(q) # 0 /\ phase[n] = "up"
                     THEN [got EXCEPT ![n] = [got[n] EXCEPT ![p] = Append(got[n][p], Head(q))]]
                     ELSE got
<1> DEFINE q == Queue(k, Other(side))
<1> DEFINE known == conns[k].known \/ Head(q) = 0
<1>1. Other(side) \in Sides /\ Peer(EndOf(k, side)) = Owner(k, Other(side))
      /\ EndOf(k, side).conn = k /\ EndOf(k, side).side = side
  BY PeerOwns
<1>2. PICK o \in Sides : o = Other(side)
  BY <1>1
<1>3. q \in Seq(0 .. MaxSent) /\ conns[k] \in Connection /\ conns[k].known \in BOOLEAN
  BY <1>1, ConnFacts
<1>4. q # <<>>
  BY <1>1 DEF Readable, Queue
<1>5. Tail(q) \in Seq(0 .. MaxSent)
  BY <1>3, <1>4, TailFacts
<1>6. conns' = [conns EXCEPT ![k].queue[o] = Tail(q), ![k].known = conns[k].known \/ Head(q) = 0]
  <2>1. conns' = [conns EXCEPT ![k].queue[o] = Tail(q), ![k].known = @ \/ Head(q) = 0]
    BY <1>1, <1>2 DEF Readable, Queue
  <2> QED BY <1>3, <2>1, ConnFacts
<1>7. got' = IF Head(q) # 0 /\ phase[n] = "up"
               THEN [got EXCEPT ![n] = [got[n] EXCEPT ![Owner(k, Other(side))] =
                                          Append(got[n][Owner(k, Other(side))], Head(q))]]
               ELSE got
  BY <1>1 DEF Readable, Queue, Dispatches
<1> HIDE DEF q
<1>8. PICK b \in BOOLEAN : b = known
  OBVIOUS
<1>9. PICK t \in Seq(0 .. MaxSent) : t = Tail(q)
  BY <1>5
<1>10. conns' = [conns EXCEPT ![k] = [conns[k] EXCEPT !.queue = [conns[k].queue EXCEPT ![o] = t],
                                                      !.known = b]]
  <2> DEFINE c == [conns[k] EXCEPT !.queue = [conns[k].queue EXCEPT ![o] = t], !.known = b]
  <2>1. conns' = [conns EXCEPT ![k].queue[o] = t, ![k].known = b]
    BY <1>6, <1>8, <1>9
  <2> QED BY <1>3, <2>1, ConnFacts DEF Connection
<1>11. Changes(k, o, t, b)
  BY <1>10, ChangesBy
<1> HIDE DEF known
<1>12. Changes(k, Other(side), Tail(q), known)
  BY <1>2, <1>8, <1>9, <1>11
<1> QED BY <1>3, <1>4, <1>7, <1>12 DEF q, known

LEMMA DisconnectFacts ==
  ASSUME TypeOK, NEW n \in Node, NEW k \in DOMAIN conns, NEW side \in Sides,
         PeerDisconnect(n, EndOf(k, side))
  PROVE  /\ Changes(k, Other(side), <<>>, conns[k].known)
         /\ Other(side) \in conns[k].gone
         /\ channels' = [channels EXCEPT ![n] = RemoveFirst(channels[n], EndOf(k, side))]
         /\ overtaken' = Leave(n, EndOf(k, side))
<1>1. Other(side) \in Sides /\ EndOf(k, side).conn = k /\ EndOf(k, side).side = side
  BY PeerOwns
<1>2. conns[k] \in Connection /\ conns[k].known \in BOOLEAN /\ <<>> \in Seq(0 .. MaxSent)
  BY ConnFacts, EmptySeq
<1>3. PICK o \in Sides : o = Other(side)
  BY <1>1
<1>4. conns' = [conns EXCEPT ![k].queue[o] = <<>>]
  BY <1>1, <1>3 DEF PeerDisconnect
<1>5. conns' = [conns EXCEPT ![k] = [conns[k] EXCEPT !.queue = [conns[k].queue EXCEPT ![o] = <<>>],
                                                     !.known = conns[k].known]]
  <2>1. [conns[k] EXCEPT !.queue = [conns[k].queue EXCEPT ![o] = <<>>], !.known = conns[k].known]
          = [conns[k] EXCEPT !.queue = [conns[k].queue EXCEPT ![o] = <<>>]]
    BY <1>2 DEF Connection
  <2> QED BY <1>4, <2>1
<1>6. Changes(k, o, <<>>, conns[k].known)
  BY <1>2, <1>5, ChangesBy
<1> QED BY <1>1, <1>3, <1>6 DEF PeerDisconnect, RemoveChannel

\* A connection that breaks, and a process that dies.
LEMMA BreakFacts ==
  ASSUME TypeOK, NEW k \in DOMAIN conns, Break(k)
  PROVE  /\ conns' \in Seq(Connection) /\ Len(conns') = Len(conns) /\ DOMAIN conns' = DOMAIN conns
         /\ \A j \in DOMAIN conns :
              /\ conns'[j].from = conns[j].from /\ conns'[j].to = conns[j].to
              /\ conns'[j].known = conns[j].known
              /\ conns'[j].gone = IF j = k THEN Sides ELSE conns[j].gone
              /\ \A s \in Sides : Queue(j, s)' = Queue(j, s)
<1> DEFINE c == [conns[k] EXCEPT !.gone = Sides]
<1>1. conns[k] \in Connection
  BY ConnFacts
<1>2. /\ c \in Connection /\ c.from = conns[k].from /\ c.to = conns[k].to
      /\ c.gone = Sides /\ c.known = conns[k].known /\ c.queue = conns[k].queue
  BY <1>1 DEF Connection
<1>3. conns' = [conns EXCEPT ![k] = c]
  BY DEF Break
<1> HIDE DEF c
<1>4. conns \in Seq(Connection) /\ k \in 1 .. Len(conns)
  BY ConnFacts
<1>5. conns' \in Seq(Connection) /\ Len(conns') = Len(conns)
      /\ \A j \in 1 .. Len(conns) : conns'[j] = IF j = k THEN c ELSE conns[j]
  BY <1>2, <1>3, <1>4, ExceptSeq
<1>6. DOMAIN conns' = DOMAIN conns
  BY <1>4, <1>5, LenProperties
<1> QED BY <1>2, <1>5, <1>6, ConnFacts DEF Queue

LEMMA CrashFacts ==
  ASSUME TypeOK, NEW n \in Node, Crash(n)
  PROVE  /\ conns' \in Seq(Connection) /\ Len(conns') = Len(conns) /\ DOMAIN conns' = DOMAIN conns
         /\ \A j \in DOMAIN conns :
              /\ conns'[j].from = conns[j].from /\ conns'[j].to = conns[j].to
              /\ conns'[j].known = conns[j].known
              /\ conns'[j].gone = conns[j].gone \cup {s \in Sides : Owner(j, s) = n}
              /\ \A s \in Sides :
                   Queue(j, s)' = IF Owner(j, Other(s)) = n THEN <<>> ELSE Queue(j, s)
<1>1. conns' = [k \in DOMAIN conns |-> Abandoned(n, conns[k])]
  BY DEF Crash
<1>2. ASSUME NEW k \in DOMAIN conns
      PROVE  LET c == Abandoned(n, conns[k]) IN
             /\ c \in Connection /\ c.from = conns[k].from /\ c.to = conns[k].to
             /\ c.known = conns[k].known
             /\ c.gone = conns[k].gone \cup {s \in Sides : Owner(k, s) = n}
             /\ \A s \in Sides :
                  c.queue[s] = IF Owner(k, Other(s)) = n THEN <<>> ELSE Queue(k, s)
  <2> DEFINE mine == {s \in Sides : Owner(k, s) = n}
  <2> DEFINE q == [s \in Sides |-> IF Other(s) \in mine THEN <<>> ELSE conns[k].queue[s]]
  <2> DEFINE c == [conns[k] EXCEPT !.gone = conns[k].gone \cup mine, !.queue = q]
  <2>1. Abandoned(n, conns[k]) = c
    BY ConnFacts DEF Abandoned, Owner, Connection
  <2>2. conns[k] \in Connection /\ conns[k].gone \cup mine \in SUBSET Sides
    BY ConnFacts
  <2>3. \A s \in Sides : Other(s) \in Sides
    BY SideFacts DEF Sides
  <2>4. q \in [Sides -> Seq(0 .. MaxSent)]
    <3>1. <<>> \in Seq(0 .. MaxSent) /\ \A s \in Sides : conns[k].queue[s] \in Seq(0 .. MaxSent)
      BY EmptySeq, ConnFacts DEF Queue
    <3> HIDE DEF mine
    <3> QED BY <3>1
  <2>5. \A s \in Sides : q[s] = IF Owner(k, Other(s)) = n THEN <<>> ELSE Queue(k, s)
    BY <2>3 DEF Queue
  <2> HIDE DEF q, mine
  <2>6. /\ c \in Connection /\ c.from = conns[k].from /\ c.to = conns[k].to
        /\ c.known = conns[k].known /\ c.gone = conns[k].gone \cup mine /\ c.queue = q
    BY <2>2, <2>4 DEF Connection
  <2> HIDE DEF c
  <2> QED BY <2>1, <2>5, <2>6 DEF mine
<1>3. DOMAIN conns = 1 .. Len(conns) /\ Len(conns) \in Nat
  BY ConnFacts
<1>4. conns' \in [1 .. Len(conns) -> Connection]
  BY <1>1, <1>2, <1>3
<1>5. conns' \in Seq(Connection)
  BY <1>3, <1>4, SeqDef
<1>6. DOMAIN conns' = DOMAIN conns /\ Len(conns') = Len(conns)
  BY <1>3, <1>4, <1>5, LenProperties
<1>7. \A k \in DOMAIN conns : conns'[k] = Abandoned(n, conns[k])
  BY <1>1
<1>8. \A k \in DOMAIN conns, s \in Sides : Queue(k, s)' = Abandoned(n, conns[k]).queue[s]
  BY <1>7 DEF Queue
<1> QED BY <1>2, <1>5, <1>6, <1>7, <1>8

LEMMA ChangesTypes ==
  ASSUME TypeOK, NEW k, NEW side, NEW q, NEW known, Changes(k, side, q, known)
  PROVE  conns' \in Seq(Connection) /\ Len(conns') <= MaxConns
  BY DEF Changes, TypeOK

LEMMA LeaveFacts ==
  ASSUME TypeOK, NEW n \in Node, NEW e, Peer(e) \in Node
  PROVE  /\ overtaken \subseteq Leave(n, e) /\ Leave(n, e) \subseteq Node \X Node
         /\ (\E i \in DOMAIN conns[e.conn].queue[e.side] : conns[e.conn].queue[e.side][i] # 0)
              => <<n, Peer(e)>> \in Leave(n, e)
<1>1. CASE \E m \in ToSet(conns[e.conn].queue[e.side]) : m # 0
  <2>1. Leave(n, e) = overtaken \cup {<<n, Peer(e)>>}
    BY <1>1 DEF Leave
  <2>2. <<n, Peer(e)>> \in Node \X Node
    OBVIOUS
  <2> QED BY <2>1, <2>2 DEF TypeOK
<1>2. CASE ~ \E m \in ToSet(conns[e.conn].queue[e.side]) : m # 0
  BY <1>2 DEF Leave, TypeOK, ToSet
<1> QED BY <1>1, <1>2

LEMMA TypeNext ==
  ASSUME TypeOK, \A n \in Node : EndsOwned(n) /\ Phases(n), Next
  PROVE  TypeOK'
<1>1. ASSUME NEW n \in Node, Start(n)
      PROVE  TypeOK'
  BY <1>1 DEF Start, TypeOK
<1>2. ASSUME NEW n \in Node, Started(n)
      PROVE  TypeOK'
  BY <1>2 DEF Started, TypeOK, threads
<1>3. ASSUME NEW n \in Node, Crash(n)
      PROVE  TypeOK'
  <2>1. conns' \in Seq(Connection) /\ Len(conns') <= MaxConns
    BY <1>3, CrashFacts DEF TypeOK
  <2>2. <<>> \in Seq(End) /\ <<>> \in Seq(1 .. MaxConns) /\ <<>> \in Seq(Node)
    BY EmptySeq
  <2>3. faults' \in 0 .. MaxFaults
    BY <1>3, BoundAssumption DEF Crash, TypeOK
  <2>4. overtaken' \subseteq Node \X Node
    <3>1. ASSUME NEW e \in ToSet(channels[n])
          PROVE  Leave(n, e) \subseteq Node \X Node
      <4>1. Peer(e) \in Node
        BY ChannelFacts
      <4> QED BY <4>1, LeaveFacts
    <3> QED BY <1>3, <3>1 DEF Crash, TypeOK
  <2>5. phase' \in [Node -> {"down", "connecting", "starting", "up"}]
    BY <1>3 DEF Crash, TypeOK
  <2>6. /\ channels' \in [Node -> Seq(End)] /\ backlog' \in [Node -> Seq(1 .. MaxConns)]
        /\ requests' \in [Node -> Seq(Node)]
    BY <1>3, <2>2 DEF Crash, TypeOK
  <2>7. /\ todo' \in [Node -> SUBSET Node] /\ making' \in [Node -> SUBSET (1 .. MaxConns)]
        /\ recent' \in [Node -> SUBSET Node] /\ edge' \in [Node -> BOOLEAN]
    BY <1>3 DEF Crash, TypeOK
  <2>8. UNCHANGED <<sent, got>>
    BY <1>3 DEF Crash
  <2> QED BY <2>1, <2>3, <2>4, <2>5, <2>6, <2>7, <2>8 DEF TypeOK
<1>4. ASSUME NEW n \in Node, MakePeerChannel(n)
      PROVE  TypeOK'
  <2>1. requests[n] \in Seq(Node) /\ requests[n] # <<>>
    BY <1>4 DEF TypeOK, MakePeerChannel
  <2>2. Tail(requests[n]) \in Seq(Node) /\ Head(requests[n]) \in Node
    BY <2>1, TailFacts
  <2>3. ConnsTyped'
    <3>1. CASE Connect(n, Head(requests[n]))
      BY <2>2, <3>1, ConnectTypes
    <3>2. CASE UNCHANGED <<conns, backlog, edge, making>>
      BY <3>2 DEF ConnsTyped, TypeOK
    <3> QED BY <1>4, <3>1, <3>2 DEF MakePeerChannel
  <2>4. requests' \in [Node -> Seq(Node)]
    BY <1>4, <2>2 DEF MakePeerChannel, TypeOK
  <2> QED BY <1>4, <2>3, <2>4 DEF MakePeerChannel, ConnsTyped, TypeOK
<1>5. ASSUME NEW n \in Node, PeerConnect(n)
      PROVE  TypeOK'
  <2>1. PICK k \in DOMAIN conns, q \in Seq(0 .. MaxSent), known \in BOOLEAN :
           /\ backlog[n] # <<>> /\ Changes(k, "out", q, known)
           /\ channels' = [channels EXCEPT ![n] = Append(channels[n], EndOf(k, "in"))]
           /\ EndOf(k, "in") \in End
    BY <1>5, PeerConnectFacts
  <2>2. conns' \in Seq(Connection) /\ Len(conns') <= MaxConns
    BY <2>1, ChangesTypes
  <2>3. channels[n] \in Seq(End) /\ backlog[n] \in Seq(1 .. MaxConns)
    BY DEF TypeOK
  <2>4. Append(channels[n], EndOf(k, "in")) \in Seq(End) /\ Tail(backlog[n]) \in Seq(1 .. MaxConns)
    BY <2>1, <2>3, AppendFacts, TailFacts
  <2>5. /\ channels' \in [Node -> Seq(End)] /\ backlog' \in [Node -> Seq(1 .. MaxConns)]
        /\ edge' \in [Node -> BOOLEAN]
    <3>1. backlog' = [backlog EXCEPT ![n] = Tail(backlog[n])] /\ edge' = [edge EXCEPT ![n] = FALSE]
      BY <1>5 DEF PeerConnect
    <3>2. channels' \in [Node -> Seq(End)]
      BY <2>1, <2>4 DEF TypeOK
    <3>3. backlog' \in [Node -> Seq(1 .. MaxConns)]
      BY <2>4, <3>1 DEF TypeOK
    <3> QED BY <3>1, <3>2, <3>3 DEF TypeOK
  <2> QED BY <1>5, <2>2, <2>5 DEF PeerConnect, TypeOK, threads
<1>6. ASSUME NEW n \in Node, NEW p \in Node, InitConnects(n, p)
      PROVE  TypeOK'
  <2>1. ConnsTyped'
    BY <1>6, ConnectTypes DEF InitConnects
  <2> QED BY <1>6, <2>1 DEF InitConnects, ConnsTyped, TypeOK
<1>7. ASSUME NEW n \in Node, NEW p \in Node, SendMessageToPeer(n, p)
      PROVE  TypeOK'
  <2>1. conns' \in Seq(Connection) /\ Len(conns') <= MaxConns
    <3>1. CASE UNCHANGED conns
      BY <3>1 DEF TypeOK
    <3>2. CASE \E k, side, q, known : Changes(k, side, q, known)
      BY <3>2, ChangesTypes
    <3> QED BY <1>7, <3>1, <3>2, SendFacts
  <2>2. sent' \in [Node -> [Node -> 0 .. MaxSent]]
    <3>1. /\ sent' = [sent EXCEPT ![n] = [sent[n] EXCEPT ![p] = sent[n][p] + 1]]
          /\ sent[n][p] + 1 \in 0 .. MaxSent
      BY <1>7, SendFacts
    <3>2. [sent[n] EXCEPT ![p] = sent[n][p] + 1] \in [Node -> 0 .. MaxSent]
      BY <3>1 DEF TypeOK
    <3> QED BY <3>1, <3>2 DEF TypeOK
  <2>3. requests' \in [Node -> Seq(Node)] /\ recent' \in [Node -> SUBSET Node]
    <3>1. CASE UNCHANGED <<requests, recent>>
      BY <3>1 DEF TypeOK
    <3>2. CASE /\ recent' = [recent EXCEPT ![n] = recent[n] \cup {p}]
               /\ requests' = [requests EXCEPT ![n] = Append(requests[n], p)]
      <4>1. Append(requests[n], p) \in Seq(Node)
        BY AppendFacts DEF TypeOK
      <4>2. recent[n] \cup {p} \in SUBSET Node
        BY DEF TypeOK
      <4> QED BY <3>2, <4>1, <4>2 DEF TypeOK
    <3> QED BY <1>7, <3>1, <3>2, Zenon DEF SendMessageToPeer
  <2> QED BY <1>7, <2>1, <2>2, <2>3 DEF SendMessageToPeer, TypeOK, threads
<1>8. ASSUME NEW n \in Node, NEW p \in Node, TwoSecondsPass(n, p)
      PROVE  TypeOK'
  BY <1>8 DEF TwoSecondsPass, TypeOK, threads
<1>9. ASSUME NEW n \in Node, NEW k \in making[n], AddOutgoing(n, k)
      PROVE  TypeOK'
  <2>1. k \in DOMAIN conns
    BY DEF EndsOwned
  <2>2. /\ Changes(k, "out", Append(Queue(k, "out"), 0), conns[k].known)
        /\ channels' = [channels EXCEPT ![n] = Append(channels[n], EndOf(k, "out"))]
        /\ EndOf(k, "out") \in End
    BY <1>9, <2>1, AddOutgoingFacts
  <2>3. conns' \in Seq(Connection) /\ Len(conns') <= MaxConns
    BY <2>2, ChangesTypes
  <2>4. Append(channels[n], EndOf(k, "out")) \in Seq(End)
    BY <2>2, AppendFacts DEF TypeOK
  <2>5. channels' \in [Node -> Seq(End)] /\ making' \in [Node -> SUBSET (1 .. MaxConns)]
    <3>1. making' = [making EXCEPT ![n] = making[n] \ {k}] /\ making[n] \ {k} \in SUBSET (1 .. MaxConns)
      BY <1>9 DEF AddOutgoing, TypeOK
    <3> QED BY <2>2, <2>4, <3>1 DEF TypeOK
  <2> QED BY <1>9, <2>3, <2>5 DEF AddOutgoing, TypeOK
<1>10. ASSUME NEW n \in Node, NEW e \in ToSet(channels[n]), Readable(n, e)
       PROVE  TypeOK'
  <2>1. PICK k \in DOMAIN conns, side \in Sides :
          /\ e = EndOf(k, side) /\ Owner(k, Other(side)) \in Node
          /\ Peer(e) = Owner(k, Other(side))
    BY ChannelFacts
  <2>2. PICK p \in Node : p = Owner(k, Other(side))
    BY <2>1
  <2>3. PICK q \in Seq(0 .. MaxSent) :
          /\ q # <<>>
          /\ Changes(k, Other(side), Tail(q), conns[k].known \/ Head(q) = 0)
          /\ got' = IF Head(q) # 0 /\ phase[n] = "up"
                      THEN [got EXCEPT ![n] = [got[n] EXCEPT ![p] = Append(got[n][p], Head(q))]]
                      ELSE got
    BY <1>10, <2>1, <2>2, ReadableFacts
  <2>4. conns' \in Seq(Connection) /\ Len(conns') <= MaxConns
    BY <2>3, ChangesTypes
  <2>5. got' \in [Node -> [Node -> Seq(1 .. MaxSent)]]
    <3>1. CASE got' = got
      BY <3>1 DEF TypeOK
    <3>2. CASE Head(q) # 0 /\ got' = [got EXCEPT ![n] = [got[n] EXCEPT ![p] = Append(got[n][p], Head(q))]]
      <4>1. Head(q) \in 0 .. MaxSent /\ got[n][p] \in Seq(1 .. MaxSent)
        BY <2>3, TailFacts DEF TypeOK
      <4>2. Head(q) \in 1 .. MaxSent
        BY <3>2, <4>1, BoundAssumption
      <4>3. Append(got[n][p], Head(q)) \in Seq(1 .. MaxSent)
        BY <4>1, <4>2, AppendFacts
      <4> QED BY <3>2, <4>3 DEF TypeOK
    <3> QED BY <2>3, <3>1, <3>2
  <2>6. overtaken' \subseteq Node \X Node
    <3>1. CASE ComesBefore(n, e)
      <4>1. ChannelsTo(n, p) # {}
        BY <2>1, <2>2, <3>1 DEF ComesBefore
      <4>2. GetChannelByPeerId(n, p) \in ToSet(channels[n])
        BY <4>1, UsedFound, UsesFacts DEF HasChannel
      <4>3. Peer(GetChannelByPeerId(n, p)) \in Node
        BY <4>2, ChannelFacts
      <4>4. overtaken' = Leave(n, GetChannelByPeerId(n, p))
        BY <1>10, <2>1, <2>2, <3>1 DEF Readable
      <4> QED BY <4>3, <4>4, LeaveFacts
    <3>2. CASE ~ComesBefore(n, e)
      BY <1>10, <3>2 DEF Readable, TypeOK
    <3> QED BY <3>1, <3>2
  <2> QED BY <1>10, <2>4, <2>5, <2>6 DEF Readable, TypeOK, threads
<1>11. ASSUME NEW n \in Node, NEW e \in ToSet(channels[n]), PeerDisconnect(n, e)
       PROVE  TypeOK'
  <2>1. PICK k \in DOMAIN conns, side \in Sides :
          /\ e = EndOf(k, side) /\ Owner(k, Other(side)) \in Node
          /\ Peer(e) = Owner(k, Other(side))
    BY ChannelFacts
  <2>2. /\ Changes(k, Other(side), <<>>, conns[k].known)
        /\ channels' = [channels EXCEPT ![n] = RemoveFirst(channels[n], e)]
        /\ overtaken' = Leave(n, e)
    BY <1>11, <2>1, DisconnectFacts
  <2>3. conns' \in Seq(Connection) /\ Len(conns') <= MaxConns
    BY <2>2, ChangesTypes
  <2>4. RemoveFirst(channels[n], e) \in Seq(End)
    BY RemoveFirstSet DEF TypeOK, EndsOwned
  <2>5. channels' \in [Node -> Seq(End)]
    BY <2>2, <2>4 DEF TypeOK
  <2>6. overtaken' \subseteq Node \X Node
    BY <2>1, <2>2, LeaveFacts
  <2> QED BY <1>11, <2>3, <2>5, <2>6 DEF PeerDisconnect, TypeOK, threads
<1>12. ASSUME NEW k \in DOMAIN conns, Break(k)
       PROVE  TypeOK'
  <2>1. conns' \in Seq(Connection) /\ Len(conns') <= MaxConns
    BY <1>12, BreakFacts DEF TypeOK
  <2>2. faults' \in 0 .. MaxFaults
    BY <1>12, BoundAssumption DEF Break, TypeOK
  <2> QED BY <1>12, <2>1, <2>2 DEF Break, TypeOK, threads
<1> QED BY <1>1, <1>2, <1>3, <1>4, <1>5, <1>6, <1>7, <1>8, <1>9, <1>10, <1>11, <1>12 DEF Next
-----------------------------------------------------------------------------
(* How the ends of connections move. *)

\* Connections keep their two nodes.
SameNodes ==
  /\ DOMAIN conns \subseteq DOMAIN conns'
  /\ \A j \in DOMAIN conns : \A s \in Sides : Owner(j, s)' = Owner(j, s)

LEMMA SameNodesBy ==
  ASSUME DOMAIN conns \subseteq DOMAIN conns',
         \A j \in DOMAIN conns : conns'[j].from = conns[j].from /\ conns'[j].to = conns[j].to
  PROVE  SameNodes
  BY DEF SameNodes, Owner

LEMMA ChannelAdded ==
  ASSUME TypeOK, NEW n \in Node, NEW e \in End,
         channels' = [channels EXCEPT ![n] = Append(channels[n], e)]
  PROVE  /\ \A m \in Node : \A d : HasChannel(m, d)' <=> HasChannel(m, d) \/ (m = n /\ d = e)
         /\ \A m \in Node : m # n => channels'[m] = channels[m]
         /\ channels'[n] = Append(channels[n], e)
         /\ IsInjective(channels[n]) /\ ~HasChannel(n, e) => IsInjective(channels[n])'
<1>1. channels[n] \in Seq(End)
  BY DEF TypeOK
<1>2. /\ \A m \in Node : m # n => channels'[m] = channels[m]
      /\ channels'[n] = Append(channels[n], e)
  BY DEF TypeOK
<1>3. ToSet(Append(channels[n], e)) = ToSet(channels[n]) \cup {e}
      /\ (IsInjective(channels[n]) /\ e \notin ToSet(channels[n]) => IsInjective(Append(channels[n], e)))
  BY <1>1, ToSetAppend
<1>4. \A m \in Node : \A d : HasChannel(m, d)' <=> HasChannel(m, d) \/ (m = n /\ d = e)
  BY <1>2, <1>3 DEF HasChannel
<1> QED BY <1>2, <1>3, <1>4 DEF HasChannel

\* MakeChannelForPeer makes a connection, whose ends are on their way.
LEMMA ConnectEnds ==
  ASSUME TypeOK, \A m \in Node : EndsOwned(m), NEW n \in Node, NEW p \in Node, NEW k,
         Connects(n, p, k), UNCHANGED channels
  PROVE  /\ \A m \in Node : EndsOwned(m)'
         /\ SameNodes /\ Owner(k, "out")' = n /\ Owner(k, "in")' = p
         /\ \A m \in Node : \A j : HasChannel(m, j)' <=> HasChannel(m, j)
         /\ \A m \in Node : \A j : Waits(m, j)' <=> Waits(m, j) \/ (m = p /\ j = k)
         /\ \A m \in Node : \A j : j \in making'[m] <=> j \in making[m] \/ (m = n /\ j = k)
         /\ \A j \in DOMAIN conns : conns'[j].gone = conns[j].gone
<1>1. /\ k \notin DOMAIN conns /\ k \in 1 .. MaxConns /\ DOMAIN conns' = DOMAIN conns \cup {k}
      /\ \A j \in DOMAIN conns : conns'[j] = conns[j]
      /\ conns'[k].from = n /\ conns'[k].to = p
  BY DEF Connects
<1>2. SameNodes
  BY <1>1, SameNodesBy
<1>3. Owner(k, "out")' = n /\ Owner(k, "in")' = p
  BY <1>1 DEF Owner
<1>4. backlog[p] \in Seq(1 .. MaxConns)
  BY DEF TypeOK
<1>5. ~Waits(p, k)
  BY <1>1 DEF EndsOwned, Waits
<1>6. /\ ToSet(Append(backlog[p], k)) = ToSet(backlog[p]) \cup {k}
      /\ IsInjective(Append(backlog[p], k))
  <2>1. IsInjective(backlog[p])
    BY DEF EndsOwned
  <2>2. PICK S : S = 1 .. MaxConns
    OBVIOUS
  <2>3. backlog[p] \in Seq(S) /\ k \in S /\ k \notin ToSet(backlog[p])
    BY <1>1, <1>4, <1>5, <2>2 DEF Waits
  <2> QED BY <2>1, <2>3, ToSetAppend
<1>7. \A m \in Node : backlog'[m] = IF m = p THEN Append(backlog[p], k) ELSE backlog[m]
  BY DEF Connects, TypeOK
<1>8. \A m \in Node : \A j : Waits(m, j)' <=> Waits(m, j) \/ (m = p /\ j = k)
  BY <1>6, <1>7 DEF Waits
<1>9. \A m \in Node : \A j : j \in making'[m] <=> j \in making[m] \/ (m = n /\ j = k)
  BY DEF Connects, TypeOK
<1>10. \A m \in Node : \A j : HasChannel(m, j)' <=> HasChannel(m, j)
  BY DEF HasChannel
<1>11. ASSUME NEW m \in Node
       PROVE  EndsOwned(m)'
  <2>1. IsInjective(channels[m])' /\ IsInjective(backlog[m])'
    BY <1>6, <1>7 DEF EndsOwned
  <2>2. ASSUME NEW e \in ToSet(channels'[m])
        PROVE  /\ e.conn \in DOMAIN conns' /\ Owner(e.conn, e.side)' = m
               /\ e.side = "out" => e.conn \notin making'[m]
               /\ e.side = "in" => ~Waits(m, e.conn)'
    <3>1. e \in ToSet(channels[m])
      OBVIOUS
    <3>2. /\ e.conn \in DOMAIN conns /\ Owner(e.conn, e.side) = m /\ e.side \in Sides
          /\ e.side = "out" => e.conn \notin making[m]
          /\ e.side = "in" => ~Waits(m, e.conn)
      BY <3>1, EndType DEF EndsOwned
    <3>3. Owner(e.conn, e.side)' = m
      BY <1>2, <3>2 DEF SameNodes
    <3> QED BY <1>1, <1>8, <1>9, <3>2, <3>3
  <2>3. ASSUME NEW j \in making'[m]
        PROVE  j \in DOMAIN conns' /\ Owner(j, "out")' = m
    <3>1. j \in making[m] \/ (m = n /\ j = k)
      BY <1>9
    <3>2. CASE j \in making[m]
      BY <1>1, <1>2, <3>2 DEF EndsOwned, SameNodes, Sides
    <3> QED BY <1>1, <1>3, <3>1, <3>2
  <2>4. ASSUME NEW j \in ToSet(backlog'[m])
        PROVE  j \in DOMAIN conns' /\ Owner(j, "in")' = m
    <3>1. Waits(m, j) \/ (m = p /\ j = k)
      BY <1>8 DEF Waits
    <3> QED BY <1>1, <1>2, <1>3, <3>1 DEF EndsOwned, SameNodes, Sides, Waits
  <2> QED BY <2>1, <2>2, <2>3, <2>4 DEF EndsOwned
<1> QED BY <1>1, <1>2, <1>3, <1>8, <1>9, <1>10, <1>11

\* The channel of a connection that was made, at the node that made it.
LEMMA AddOutgoingEnds ==
  ASSUME TypeOK, \A m \in Node : EndsOwned(m), NEW n \in Node, NEW k \in making[n],
         AddOutgoing(n, k)
  PROVE  /\ \A m \in Node : EndsOwned(m)'
         /\ k \in DOMAIN conns /\ Owner(k, "out") = n /\ SameNodes
         /\ \A m \in Node : \A d : HasChannel(m, d)' <=> HasChannel(m, d) \/ (m = n /\ d = EndOf(k, "out"))
         /\ \A m \in Node : \A j : j \in making'[m] <=> j \in making[m] /\ ~(m = n /\ j = k)
<1>1. k \in DOMAIN conns /\ Owner(k, "out") = n
  BY DEF EndsOwned
<1>2. /\ Changes(k, "out", Append(Queue(k, "out"), 0), conns[k].known)
      /\ channels' = [channels EXCEPT ![n] = Append(channels[n], EndOf(k, "out"))]
      /\ EndOf(k, "out") \in End
  BY <1>1, AddOutgoingFacts
<1>3. SameNodes /\ DOMAIN conns' = DOMAIN conns
  BY <1>2, SameNodesBy DEF Changes
<1>4. ~HasChannel(n, EndOf(k, "out"))
  <2>1. EndOf(k, "out").conn = k /\ EndOf(k, "out").side = "out"
    BY DEF EndOf
  <2> QED BY <2>1 DEF EndsOwned, HasChannel
<1>5. \A m \in Node : \A d : HasChannel(m, d)' <=> HasChannel(m, d) \/ (m = n /\ d = EndOf(k, "out"))
  BY <1>2, ChannelAdded
<1>6. \A m \in Node : IsInjective(channels[m])'
  <2>1. IsInjective(channels[n])'
    BY <1>2, <1>4, ChannelAdded DEF EndsOwned
  <2>2. \A m \in Node : m # n => channels'[m] = channels[m]
    BY <1>2, ChannelAdded
  <2> QED BY <2>1, <2>2 DEF EndsOwned
<1>7. \A m \in Node : \A j : j \in making'[m] <=> j \in making[m] /\ ~(m = n /\ j = k)
  BY DEF AddOutgoing, TypeOK
<1>8. backlog' = backlog /\ \A m \in Node : \A j : Waits(m, j)' <=> Waits(m, j)
  BY DEF AddOutgoing, Waits
<1>9. ASSUME NEW m \in Node
      PROVE  EndsOwned(m)'
  <2>1. IsInjective(channels[m])' /\ IsInjective(backlog[m])'
    BY <1>6, <1>8 DEF EndsOwned
  <2>2. ASSUME NEW e \in ToSet(channels'[m])
        PROVE  /\ e.conn \in DOMAIN conns' /\ Owner(e.conn, e.side)' = m
               /\ e.side = "out" => e.conn \notin making'[m]
               /\ e.side = "in" => ~Waits(m, e.conn)'
    <3>1. HasChannel(m, e) \/ (m = n /\ e = EndOf(k, "out"))
      BY <1>5 DEF HasChannel
    <3>2. CASE HasChannel(m, e)
      <4>1. /\ e.conn \in DOMAIN conns /\ Owner(e.conn, e.side) = m /\ e.side \in Sides
            /\ e.side = "out" => e.conn \notin making[m]
            /\ e.side = "in" => ~Waits(m, e.conn)
        BY <3>2, EndType DEF EndsOwned, HasChannel
      <4>2. Owner(e.conn, e.side)' = m
        BY <1>3, <4>1 DEF SameNodes
      <4> QED BY <1>3, <1>7, <1>8, <4>1, <4>2
    <3>3. CASE m = n /\ e = EndOf(k, "out")
      <4>1. e.conn = k /\ e.side = "out"
        BY <3>3 DEF EndOf
      <4>2. Owner(k, "out")' = m
        BY <1>1, <1>3, <3>3 DEF SameNodes, Sides
      <4> QED BY <1>1, <1>3, <1>7, <3>3, <4>1, <4>2
    <3> QED BY <3>1, <3>2, <3>3
  <2>3. ASSUME NEW j \in making'[m]
        PROVE  j \in DOMAIN conns' /\ Owner(j, "out")' = m
    BY <1>3, <1>7 DEF EndsOwned, SameNodes, Sides
  <2>4. ASSUME NEW j \in ToSet(backlog'[m])
        PROVE  j \in DOMAIN conns' /\ Owner(j, "in")' = m
    BY <1>3, <1>8 DEF EndsOwned, SameNodes, Sides
  <2> QED BY <2>1, <2>2, <2>3, <2>4 DEF EndsOwned
<1> QED BY <1>1, <1>3, <1>5, <1>7, <1>9

\* The channel of a connection that waited to be accepted.
LEMMA PeerConnectEnds ==
  ASSUME TypeOK, \A m \in Node : EndsOwned(m), NEW n \in Node, Phases(n), PeerConnect(n)
  PROVE  \E k \in DOMAIN conns :
           /\ \A m \in Node : EndsOwned(m)'
           /\ Waits(n, k) /\ Owner(k, "in") = n /\ SameNodes /\ DOMAIN conns' = DOMAIN conns
           /\ \A m \in Node : \A d :
                HasChannel(m, d)' <=> HasChannel(m, d) \/ (m = n /\ d = EndOf(k, "in"))
           /\ \A m \in Node : \A j : Waits(m, j)' <=> Waits(m, j) /\ ~(m = n /\ j = k)
           /\ \A j \in DOMAIN conns : conns'[j].gone = conns[j].gone
<1>1. PICK k \in DOMAIN conns, q \in Seq(0 .. MaxSent), known \in BOOLEAN :
        /\ backlog[n] # <<>> /\ k = Head(backlog[n])
        /\ Changes(k, "out", q, known)
        /\ channels' = [channels EXCEPT ![n] = Append(channels[n], EndOf(k, "in"))]
        /\ EndOf(k, "in") \in End
  BY PeerConnectFacts
<1>2. backlog[n] \in Seq(1 .. MaxConns) /\ IsInjective(backlog[n])
  BY DEF TypeOK, EndsOwned
<1>3. /\ ToSet(Tail(backlog[n])) = ToSet(backlog[n]) \ {k} /\ k \in ToSet(backlog[n])
      /\ IsInjective(Tail(backlog[n]))
  BY <1>1, <1>2, ToSetTail
<1>4. Waits(n, k) /\ Owner(k, "in") = n
  BY <1>3 DEF Waits, EndsOwned
<1>5. \A m \in Node : backlog'[m] = IF m = n THEN Tail(backlog[n]) ELSE backlog[m]
  BY DEF PeerConnect, TypeOK
<1>6. \A m \in Node : \A j : Waits(m, j)' <=> Waits(m, j) /\ ~(m = n /\ j = k)
  BY <1>3, <1>5 DEF Waits
<1>7. SameNodes /\ DOMAIN conns' = DOMAIN conns
  BY <1>1, SameNodesBy DEF Changes
<1>8. ~HasChannel(n, EndOf(k, "in"))
  <2>1. EndOf(k, "in").conn = k /\ EndOf(k, "in").side = "in"
    BY DEF EndOf
  <2> QED BY <1>4, <2>1 DEF EndsOwned, HasChannel
<1>9. \A m \in Node : \A d : HasChannel(m, d)' <=> HasChannel(m, d) \/ (m = n /\ d = EndOf(k, "in"))
  BY <1>1, ChannelAdded
<1>10. \A m \in Node : IsInjective(channels[m])'
  <2>1. IsInjective(channels[n])'
    BY <1>1, <1>8, ChannelAdded DEF EndsOwned
  <2>2. \A m \in Node : m # n => channels'[m] = channels[m]
    BY <1>1, ChannelAdded
  <2> QED BY <2>1, <2>2 DEF EndsOwned
<1>11. making' = making
  BY DEF PeerConnect, threads
<1>12. ASSUME NEW m \in Node
       PROVE  EndsOwned(m)'
  <2>1. IsInjective(channels[m])' /\ IsInjective(backlog[m])'
    BY <1>3, <1>5, <1>10 DEF EndsOwned
  <2>2. ASSUME NEW e \in ToSet(channels'[m])
        PROVE  /\ e.conn \in DOMAIN conns' /\ Owner(e.conn, e.side)' = m
               /\ e.side = "out" => e.conn \notin making'[m]
               /\ e.side = "in" => ~Waits(m, e.conn)'
    <3>1. HasChannel(m, e) \/ (m = n /\ e = EndOf(k, "in"))
      BY <1>9 DEF HasChannel
    <3>2. CASE HasChannel(m, e)
      <4>1. /\ e.conn \in DOMAIN conns /\ Owner(e.conn, e.side) = m /\ e.side \in Sides
            /\ e.side = "out" => e.conn \notin making[m]
            /\ e.side = "in" => ~Waits(m, e.conn)
        BY <3>2, EndType DEF EndsOwned, HasChannel
      <4>2. Owner(e.conn, e.side)' = m
        BY <1>7, <4>1 DEF SameNodes
      <4> QED BY <1>6, <1>7, <1>11, <4>1, <4>2
    <3>3. CASE m = n /\ e = EndOf(k, "in")
      <4>1. e.conn = k /\ e.side = "in"
        BY <3>3 DEF EndOf
      <4>2. Owner(k, "in")' = m
        BY <1>4, <1>7, <3>3 DEF SameNodes, Sides
      <4> QED BY <1>6, <1>7, <3>3, <4>1, <4>2
    <3> QED BY <3>1, <3>2, <3>3
  <2>3. ASSUME NEW j \in making'[m]
        PROVE  j \in DOMAIN conns' /\ Owner(j, "out")' = m
    BY <1>7, <1>11 DEF EndsOwned, SameNodes, Sides
  <2>4. ASSUME NEW j \in ToSet(backlog'[m])
        PROVE  j \in DOMAIN conns' /\ Owner(j, "in")' = m
    <3>1. Waits(m, j)
      BY <1>6 DEF Waits
    <3> QED BY <1>7, <3>1 DEF EndsOwned, SameNodes, Sides, Waits
  <2> QED BY <2>1, <2>2, <2>3, <2>4 DEF EndsOwned
<1>13. \A j \in DOMAIN conns : conns'[j].gone = conns[j].gone
  BY <1>1 DEF Changes
<1> QED BY <1>4, <1>6, <1>7, <1>9, <1>12, <1>13

\* The channel that is removed.
LEMMA DisconnectEnds ==
  ASSUME TypeOK, \A m \in Node : EndsOwned(m), NEW n \in Node, NEW k \in DOMAIN conns,
         NEW side \in Sides, HasChannel(n, EndOf(k, side)), PeerDisconnect(n, EndOf(k, side))
  PROVE  /\ \A m \in Node : EndsOwned(m)'
         /\ Owner(k, side) = n /\ SameNodes /\ DOMAIN conns' = DOMAIN conns
         /\ \A m \in Node : \A d : HasChannel(m, d)' <=> HasChannel(m, d) /\ ~(m = n /\ d = EndOf(k, side))
         /\ Other(side) \in conns[k].gone
         /\ \A j \in DOMAIN conns : conns'[j].gone = conns[j].gone
<1> DEFINE x == EndOf(k, side)
<1>1. /\ Changes(k, Other(side), <<>>, conns[k].known)
      /\ Other(side) \in conns[k].gone
      /\ channels' = [channels EXCEPT ![n] = RemoveFirst(channels[n], x)]
  BY DisconnectFacts
<1>2. SameNodes /\ DOMAIN conns' = DOMAIN conns
  BY <1>1, SameNodesBy DEF Changes
<1>3. Owner(k, side) = n
  <2>1. x.conn = k /\ x.side = side
    BY DEF EndOf
  <2> QED BY <2>1 DEF EndsOwned, HasChannel
<1>4. channels[n] \in Seq(End) /\ x \in ToSet(channels[n]) /\ IsInjective(channels[n])
  BY DEF TypeOK, EndsOwned, HasChannel
<1> HIDE DEF x
<1>5. /\ ToSet(RemoveFirst(channels[n], x)) = ToSet(channels[n]) \ {x}
      /\ IsInjective(RemoveFirst(channels[n], x))
  BY <1>4, RemoveFirstSet
<1>6. \A m \in Node : channels'[m] = IF m = n THEN RemoveFirst(channels[n], x) ELSE channels[m]
  BY <1>1 DEF TypeOK
<1>7. \A m \in Node : \A d : HasChannel(m, d)' <=> HasChannel(m, d) /\ ~(m = n /\ d = x)
  BY <1>5, <1>6 DEF HasChannel
<1>8. making' = making /\ backlog' = backlog
  BY DEF PeerDisconnect, threads
<1>9. ASSUME NEW m \in Node
      PROVE  EndsOwned(m)'
  <2>1. IsInjective(channels[m])' /\ IsInjective(backlog[m])'
    BY <1>5, <1>6, <1>8 DEF EndsOwned
  <2>2. ASSUME NEW e \in ToSet(channels'[m])
        PROVE  /\ e.conn \in DOMAIN conns' /\ Owner(e.conn, e.side)' = m
               /\ e.side = "out" => e.conn \notin making'[m]
               /\ e.side = "in" => ~Waits(m, e.conn)'
    <3>1. HasChannel(m, e)
      BY <1>7 DEF HasChannel
    <3>2. /\ e.conn \in DOMAIN conns /\ Owner(e.conn, e.side) = m /\ e.side \in Sides
          /\ e.side = "out" => e.conn \notin making[m]
          /\ e.side = "in" => ~Waits(m, e.conn)
      BY <3>1, EndType DEF EndsOwned, HasChannel
    <3>3. Owner(e.conn, e.side)' = m
      BY <1>2, <3>2 DEF SameNodes
    <3> QED BY <1>2, <1>8, <3>2, <3>3 DEF Waits
  <2>3. ASSUME NEW j \in making'[m]
        PROVE  j \in DOMAIN conns' /\ Owner(j, "out")' = m
    BY <1>2, <1>8 DEF EndsOwned, SameNodes, Sides
  <2>4. ASSUME NEW j \in ToSet(backlog'[m])
        PROVE  j \in DOMAIN conns' /\ Owner(j, "in")' = m
    BY <1>2, <1>8 DEF EndsOwned, SameNodes, Sides
  <2> QED BY <2>1, <2>2, <2>3, <2>4 DEF EndsOwned
<1>10. \A j \in DOMAIN conns : conns'[j].gone = conns[j].gone
  BY <1>1 DEF Changes
<1> QED BY <1>1, <1>2, <1>3, <1>7, <1>9, <1>10 DEF x

\* A process that dies has no end any more.
LEMMA CrashEnds ==
  ASSUME TypeOK, \A m \in Node : EndsOwned(m), NEW n \in Node, Crash(n)
  PROVE  /\ \A m \in Node : EndsOwned(m)'
         /\ SameNodes /\ DOMAIN conns' = DOMAIN conns
         /\ \A m \in Node : \A d : HasChannel(m, d)' <=> HasChannel(m, d) /\ m # n
         /\ \A m \in Node : \A j : Waits(m, j)' <=> Waits(m, j) /\ m # n
         /\ \A m \in Node : \A j : j \in making'[m] <=> j \in making[m] /\ m # n
<1>1. SameNodes /\ DOMAIN conns' = DOMAIN conns
  BY CrashFacts, SameNodesBy
<1>2. \A m \in Node : /\ channels'[m] = (IF m = n THEN <<>> ELSE channels[m])
                      /\ backlog'[m] = (IF m = n THEN <<>> ELSE backlog[m])
                      /\ making'[m] = (IF m = n THEN {} ELSE making[m])
  BY DEF Crash, TypeOK
<1>3. ToSet(<<>>) = {} /\ IsInjective(<<>>)
  BY DEF ToSet, IsInjective
<1>4. ASSUME NEW m \in Node
      PROVE  EndsOwned(m)'
  <2>1. CASE m = n
    BY <1>2, <1>3, <2>1 DEF EndsOwned, HasChannel, Waits
  <2>2. CASE m # n
    <3>1. channels'[m] = channels[m] /\ backlog'[m] = backlog[m] /\ making'[m] = making[m]
      BY <1>2, <2>2
    <3>2. ASSUME NEW e \in ToSet(channels[m])
          PROVE  Owner(e.conn, e.side)' = m
      BY <1>1, EndType DEF EndsOwned, SameNodes
    <3>3. (\A k \in making[m] : Owner(k, "out")' = m) /\ (\A k \in ToSet(backlog[m]) : Owner(k, "in")' = m)
      BY <1>1 DEF EndsOwned, SameNodes, Sides
    <3> QED BY <1>1, <3>1, <3>2, <3>3 DEF EndsOwned, Waits
  <2> QED BY <2>1, <2>2
<1> QED BY <1>1, <1>2, <1>3, <1>4 DEF HasChannel, Waits

\* Nothing moves.
LEMMA SameEnds ==
  ASSUME TypeOK, \A m \in Node : EndsOwned(m), UNCHANGED <<channels, making, backlog>>,
         SameNodes, DOMAIN conns' = DOMAIN conns
  PROVE  /\ \A m \in Node : EndsOwned(m)'
         /\ \A m \in Node : \A d : HasChannel(m, d)' <=> HasChannel(m, d)
         /\ \A m \in Node : \A j : Waits(m, j)' <=> Waits(m, j)
<1>1. ASSUME NEW m \in Node
      PROVE  EndsOwned(m)'
  <2>1. ASSUME NEW e \in ToSet(channels[m])
        PROVE  Owner(e.conn, e.side)' = m
    BY EndType DEF EndsOwned, SameNodes
  <2>2. (\A k \in making[m] : Owner(k, "out")' = m) /\ (\A k \in ToSet(backlog[m]) : Owner(k, "in")' = m)
    BY DEF EndsOwned, SameNodes, Sides
  <2> QED BY <2>1, <2>2 DEF EndsOwned, Waits
<1> QED BY <1>1 DEF HasChannel, Waits

\* The node that has an end, and when two ends are the same.
LEMMA OwnerFacts ==
  ASSUME TypeOK, NEW k \in DOMAIN conns, NEW s \in Sides
  PROVE  Owner(k, s) \in Node /\ Other(s) \in Sides /\ Owner(k, Other(s)) \in Node
  BY ConnFacts, SideFacts DEF Owner, Sides

LEMMA SameEnd ==
  ASSUME NEW j, NEW k, NEW s, NEW t
  PROVE  EndOf(j, s) = EndOf(k, t) <=> j = k /\ s = t
<1>1. /\ EndOf(j, s).conn = j /\ EndOf(j, s).side = s
      /\ EndOf(k, t).conn = k /\ EndOf(k, t).side = t
  BY DEF EndOf
<1> QED BY <1>1

\* Steps in which no end is taken or given up, and none is lost.
LEMMA MeetsKept ==
  ASSUME \A j \in DOMAIN conns : Meets(j), DOMAIN conns' = DOMAIN conns,
         \A j \in DOMAIN conns : conns'[j].gone = conns[j].gone,
         \A j \in DOMAIN conns, s \in Sides : Held(j, s)' <=> Held(j, s)
  PROVE  \A j \in DOMAIN conns' : Meets(j)'
<1> SUFFICES ASSUME NEW j \in DOMAIN conns
             PROVE  Meets(j)'
  OBVIOUS
<1>1. \A s \in Sides : Other(s) \in Sides
  BY SideFacts DEF Sides
<1> QED BY <1>1 DEF Meets

LEMMA MeetsNext ==
  ASSUME TypeOK, \A m \in Node : EndsOwned(m) /\ Phases(m),
         \A j \in DOMAIN conns : Meets(j), Next
  PROVE  (\A m \in Node : EndsOwned(m)') /\ \A j \in DOMAIN conns' : Meets(j)'
<1> DEFINE Goal == (\A m \in Node : EndsOwned(m)') /\ \A j \in DOMAIN conns' : Meets(j)'
<1>0. \A s \in Sides : Other(s) \in Sides /\ Other(s) # s /\ Other(Other(s)) = s
  BY SideFacts DEF Sides
<1>1. ASSUME UNCHANGED <<channels, making, backlog>>, SameNodes, DOMAIN conns' = DOMAIN conns,
             \A j \in DOMAIN conns : conns'[j].gone = conns[j].gone
      PROVE  Goal
  <2>1. /\ \A m \in Node : EndsOwned(m)'
        /\ \A m \in Node : \A d : HasChannel(m, d)' <=> HasChannel(m, d)
        /\ \A m \in Node : \A j : Waits(m, j)' <=> Waits(m, j)
    BY <1>1, SameEnds
  <2>2. \A j \in DOMAIN conns, s \in Sides : Held(j, s)' <=> Held(j, s)
    BY <1>1, <2>1, OwnerFacts DEF Held, SameNodes
  <2> QED BY <1>1, <2>1, <2>2, MeetsKept
<1>2. ASSUME UNCHANGED <<channels, making, backlog, conns>>
      PROVE  Goal
  <2>1. SameNodes
    BY <1>2, SameNodesBy
  <2> HIDE DEF Goal
  <2> QED BY <1>1, <1>2, <2>1
<1>3. ASSUME UNCHANGED <<channels, making, backlog>>, NEW k, NEW side, NEW q, NEW known,
             Changes(k, side, q, known)
      PROVE  Goal
  <2>1. SameNodes
    BY <1>3, SameNodesBy DEF Changes
  <2> HIDE DEF Goal
  <2> QED BY <1>1, <1>3, <2>1 DEF Changes
<1>4. ASSUME NEW n \in Node, NEW p \in Node, Connect(n, p), UNCHANGED channels
      PROVE  Goal
  <2>1. CASE UNCHANGED <<conns, making, backlog, edge>>
    <3> HIDE DEF Goal
    <3> QED BY <1>2, <1>4, <2>1
  <2>2. ASSUME NEW k, Connects(n, p, k)
        PROVE  Goal
    <3>1. /\ \A m \in Node : EndsOwned(m)'
          /\ SameNodes /\ Owner(k, "out")' = n /\ Owner(k, "in")' = p
          /\ \A m \in Node : \A j : HasChannel(m, j)' <=> HasChannel(m, j)
          /\ \A m \in Node : \A j : Waits(m, j)' <=> Waits(m, j) \/ (m = p /\ j = k)
          /\ \A m \in Node : \A j : j \in making'[m] <=> j \in making[m] \/ (m = n /\ j = k)
          /\ \A j \in DOMAIN conns : conns'[j].gone = conns[j].gone
      BY <1>4, <2>2, ConnectEnds
    <3>2. k \notin DOMAIN conns /\ DOMAIN conns' = DOMAIN conns \cup {k} /\ conns'[k].gone = {}
      BY <2>2 DEF Connects
    <3>3. ASSUME NEW j \in DOMAIN conns, NEW s \in Sides
          PROVE  Held(j, s)' <=> Held(j, s)
      <4>1. Owner(j, s)' = Owner(j, s) /\ Owner(j, s) \in Node /\ j # k
        BY <3>1, <3>2, OwnerFacts DEF SameNodes
      <4> QED BY <3>1, <4>1 DEF Held
    <3>4. Held(k, "out")' /\ Held(k, "in")'
      BY <3>1 DEF Held
    <3>5. Meets(k)'
      BY <3>2, <3>4, SideFacts DEF Meets, Sides
    <3>6. ASSUME NEW j \in DOMAIN conns
          PROVE  Meets(j)'
      BY <1>0, <3>1, <3>3 DEF Meets
    <3> QED BY <3>1, <3>2, <3>5, <3>6
  <2> HIDE DEF Goal
  <2> QED BY <1>4, <2>1, <2>2, ConnectFacts
<1>5. ASSUME NEW n \in Node, MakePeerChannel(n)
      PROVE  Goal
  <2>1. Head(requests[n]) \in Node
    BY <1>5, TailFacts DEF TypeOK, MakePeerChannel
  <2> HIDE DEF Goal
  <2> QED BY <1>2, <1>4, <1>5, <2>1 DEF MakePeerChannel
<1>6. ASSUME NEW n \in Node, NEW k \in making[n], AddOutgoing(n, k)
      PROVE  Goal
  <2>1. /\ \A m \in Node : EndsOwned(m)'
        /\ k \in DOMAIN conns /\ Owner(k, "out") = n /\ SameNodes
        /\ \A m \in Node : \A d : HasChannel(m, d)' <=> HasChannel(m, d) \/ (m = n /\ d = EndOf(k, "out"))
        /\ \A m \in Node : \A j : j \in making'[m] <=> j \in making[m] /\ ~(m = n /\ j = k)
    BY <1>6, AddOutgoingEnds
  <2>2. Changes(k, "out", Append(Queue(k, "out"), 0), conns[k].known)
    BY <1>6, <2>1, AddOutgoingFacts
  <2>3. DOMAIN conns' = DOMAIN conns /\ \A j \in DOMAIN conns : conns'[j].gone = conns[j].gone
    BY <2>2 DEF Changes
  <2>4. \A m \in Node : \A j : Waits(m, j)' <=> Waits(m, j)
    BY <1>6 DEF AddOutgoing, Waits
  <2>5. ASSUME NEW j \in DOMAIN conns, NEW s \in Sides
        PROVE  Held(j, s)' <=> Held(j, s)
    <3>1. PICK m \in Node : m = Owner(j, s) /\ m = Owner(j, s)'
      BY <2>1, OwnerFacts DEF SameNodes
    <3>2. HasChannel(m, EndOf(j, s))' <=> HasChannel(m, EndOf(j, s)) \/ (m = n /\ j = k /\ s = "out")
      BY <2>1, SameEnd
    <3>3. j \in making'[m] <=> j \in making[m] /\ ~(m = n /\ j = k)
      BY <2>1
    <3> QED BY <2>4, <3>1, <3>2, <3>3 DEF Held
  <2> QED BY <2>1, <2>3, <2>5, MeetsKept
<1>7. ASSUME NEW n \in Node, PeerConnect(n)
      PROVE  Goal
  <2>1. PICK k \in DOMAIN conns :
           /\ \A m \in Node : EndsOwned(m)'
           /\ Waits(n, k) /\ Owner(k, "in") = n /\ SameNodes /\ DOMAIN conns' = DOMAIN conns
           /\ \A m \in Node : \A d :
                HasChannel(m, d)' <=> HasChannel(m, d) \/ (m = n /\ d = EndOf(k, "in"))
           /\ \A m \in Node : \A j : Waits(m, j)' <=> Waits(m, j) /\ ~(m = n /\ j = k)
           /\ \A j \in DOMAIN conns : conns'[j].gone = conns[j].gone
    BY <1>7, PeerConnectEnds
  <2>2. making' = making
    BY <1>7 DEF PeerConnect, threads
  <2>3. ASSUME NEW j \in DOMAIN conns, NEW s \in Sides
        PROVE  Held(j, s)' <=> Held(j, s)
    <3>1. PICK m \in Node : m = Owner(j, s) /\ m = Owner(j, s)'
      BY <2>1, OwnerFacts DEF SameNodes
    <3>2. HasChannel(m, EndOf(j, s))' <=> HasChannel(m, EndOf(j, s)) \/ (m = n /\ j = k /\ s = "in")
      BY <2>1, SameEnd
    <3>3. Waits(m, j)' <=> Waits(m, j) /\ ~(m = n /\ j = k)
      BY <2>1
    <3> QED BY <2>1, <2>2, <3>1, <3>2, <3>3 DEF Held
  <2> QED BY <2>1, <2>3, MeetsKept
<1>8. ASSUME NEW n \in Node, NEW e \in ToSet(channels[n]), PeerDisconnect(n, e)
      PROVE  Goal
  <2>1. PICK k \in DOMAIN conns, side \in Sides : e = EndOf(k, side) /\ HasChannel(n, e)
    BY ChannelFacts
  <2>2. /\ \A m \in Node : EndsOwned(m)'
        /\ Owner(k, side) = n /\ SameNodes /\ DOMAIN conns' = DOMAIN conns
        /\ \A m \in Node : \A d : HasChannel(m, d)' <=> HasChannel(m, d) /\ ~(m = n /\ d = EndOf(k, side))
        /\ Other(side) \in conns[k].gone
        /\ \A j \in DOMAIN conns : conns'[j].gone = conns[j].gone
    BY <1>8, <2>1, DisconnectEnds
  <2>3. making' = making /\ \A m \in Node : \A j : Waits(m, j)' <=> Waits(m, j)
    BY <1>8 DEF PeerDisconnect, threads, Waits
  <2>4. ASSUME NEW j \in DOMAIN conns, NEW s \in Sides
        PROVE  Held(j, s)' <=> Held(j, s) /\ ~(j = k /\ s = side)
    <3>1. PICK m \in Node : m = Owner(j, s) /\ m = Owner(j, s)'
      BY <2>2, OwnerFacts DEF SameNodes
    <3>2. HasChannel(m, EndOf(j, s))' <=> HasChannel(m, EndOf(j, s)) /\ ~(m = n /\ j = k /\ s = side)
      BY <2>2, SameEnd
    <3>3. CASE ~(j = k /\ s = side)
      BY <2>3, <3>1, <3>2, <3>3 DEF Held
    <3>4. CASE j = k /\ s = side
      <4>1. m = n /\ HasChannel(n, EndOf(k, side))
        BY <2>1, <2>2, <3>1, <3>4
      <4>2. (side = "out" => k \notin making[n]) /\ (side = "in" => ~Waits(n, k))
        <5>1. EndOf(k, side).conn = k /\ EndOf(k, side).side = side
          BY DEF EndOf
        <5> QED BY <4>1, <5>1 DEF EndsOwned, HasChannel
      <4> QED BY <2>3, <3>1, <3>2, <3>4, <4>1, <4>2 DEF Held
    <3> QED BY <3>3, <3>4
  <2>5. ASSUME NEW j \in DOMAIN conns
        PROVE  Meets(j)'
    <3> SUFFICES ASSUME NEW s \in Sides, Held(j, s)'
                 PROVE  /\ Held(j, Other(s))' \/ Other(s) \in conns'[j].gone
                        /\ s \in conns'[j].gone => conns'[j].gone = Sides
      BY DEF Meets
    <3>1. Held(j, s) /\ ~(j = k /\ s = side)
      BY <2>4
    <3>2. /\ Held(j, Other(s)) \/ Other(s) \in conns[j].gone
          /\ s \in conns[j].gone => conns[j].gone = Sides
      BY <3>1 DEF Meets
    <3>3. Other(s) \in Sides /\ (Held(j, Other(s))' <=> Held(j, Other(s)) /\ ~(j = k /\ Other(s) = side))
      BY <1>0, <2>4
    <3>4. CASE j = k /\ Other(s) = side
      <4>1. s \in conns[j].gone
        BY <1>0, <2>2, <3>4
      <4> QED BY <2>2, <3>2, <3>3, <4>1
    <3>5. CASE ~(j = k /\ Other(s) = side)
      BY <2>2, <3>2, <3>3, <3>5
    <3> QED BY <3>4, <3>5
  <2> QED BY <2>2, <2>5
<1>9. ASSUME NEW n \in Node, Crash(n)
      PROVE  Goal
  <2>1. /\ \A m \in Node : EndsOwned(m)'
        /\ SameNodes /\ DOMAIN conns' = DOMAIN conns
        /\ \A m \in Node : \A d : HasChannel(m, d)' <=> HasChannel(m, d) /\ m # n
        /\ \A m \in Node : \A j : Waits(m, j)' <=> Waits(m, j) /\ m # n
        /\ \A m \in Node : \A j : j \in making'[m] <=> j \in making[m] /\ m # n
    BY <1>9, CrashEnds
  <2>2. \A j \in DOMAIN conns : conns'[j].gone = conns[j].gone \cup {s \in Sides : Owner(j, s) = n}
    BY <1>9, CrashFacts
  <2>3. ASSUME NEW j \in DOMAIN conns, NEW s \in Sides
        PROVE  Held(j, s)' <=> Held(j, s) /\ Owner(j, s) # n
    <3>1. PICK m \in Node : m = Owner(j, s) /\ m = Owner(j, s)'
      BY <2>1, OwnerFacts DEF SameNodes
    <3> QED BY <2>1, <3>1 DEF Held
  <2>4. ASSUME NEW j \in DOMAIN conns
        PROVE  Meets(j)'
    <3> SUFFICES ASSUME NEW s \in Sides, Held(j, s)'
                 PROVE  /\ Held(j, Other(s))' \/ Other(s) \in conns'[j].gone
                        /\ s \in conns'[j].gone => conns'[j].gone = Sides
      BY DEF Meets
    <3>1. Held(j, s) /\ Owner(j, s) # n /\ Other(s) \in Sides
      BY <1>0, <2>3
    <3>2. /\ Held(j, Other(s)) \/ Other(s) \in conns[j].gone
          /\ s \in conns[j].gone => conns[j].gone = Sides
      BY <3>1 DEF Meets
    <3>3. Held(j, Other(s))' \/ Other(s) \in conns'[j].gone
      BY <2>2, <2>3, <3>1, <3>2
    <3>4. s \in conns'[j].gone => conns'[j].gone = Sides
      <4>1. s \in conns'[j].gone => s \in conns[j].gone
        BY <2>2, <3>1
      <4> QED BY <2>2, <3>2, <4>1
    <3> QED BY <3>3, <3>4
  <2> QED BY <2>1, <2>4
<1>10. ASSUME NEW k \in DOMAIN conns, Break(k)
       PROVE  Goal
  <2>1. /\ DOMAIN conns' = DOMAIN conns
        /\ \A j \in DOMAIN conns : conns'[j].gone = IF j = k THEN Sides ELSE conns[j].gone
    BY <1>10, BreakFacts
  <2>2. SameNodes
    BY <1>10, BreakFacts, SameNodesBy
  <2>3. UNCHANGED <<channels, making, backlog>>
    BY <1>10 DEF Break, threads
  <2>4. /\ \A m \in Node : EndsOwned(m)'
        /\ \A m \in Node : \A d : HasChannel(m, d)' <=> HasChannel(m, d)
        /\ \A m \in Node : \A j : Waits(m, j)' <=> Waits(m, j)
    BY <2>1, <2>2, <2>3, SameEnds
  <2>5. \A j \in DOMAIN conns, s \in Sides : Held(j, s)' <=> Held(j, s)
    BY <2>2, <2>3, <2>4, OwnerFacts DEF Held, SameNodes
  <2>6. ASSUME NEW j \in DOMAIN conns
        PROVE  Meets(j)'
    BY <1>0, <2>1, <2>5 DEF Meets
  <2> QED BY <2>1, <2>4, <2>6
<1>11. ASSUME NEW n \in Node, Start(n) \/ Started(n) \/ (\E p \in Node : TwoSecondsPass(n, p))
       PROVE  Goal
  <2>1. UNCHANGED <<channels, making, backlog, conns>>
    BY <1>11 DEF Start, Started, TwoSecondsPass, threads
  <2> HIDE DEF Goal
  <2> QED BY <1>2, <2>1
<1>12. ASSUME NEW n \in Node, NEW p \in Node, InitConnects(n, p)
       PROVE  Goal
  <2> HIDE DEF Goal
  <2> QED BY <1>4, <1>12 DEF InitConnects
<1>13. ASSUME NEW n \in Node, NEW p \in Node, SendMessageToPeer(n, p)
       PROVE  Goal
  <2>1. UNCHANGED <<channels, making, backlog>>
    BY <1>13 DEF SendMessageToPeer, threads
  <2>2. UNCHANGED conns \/ \E k, side, q, known : Changes(k, side, q, known)
    BY <1>13, SendFacts
  <2> HIDE DEF Goal
  <2> QED BY <1>2, <1>3, <2>1, <2>2
<1>14. ASSUME NEW n \in Node, NEW e \in ToSet(channels[n]), Readable(n, e)
       PROVE  Goal
  <2>1. PICK k \in DOMAIN conns, side \in Sides : e = EndOf(k, side)
    BY ChannelFacts
  <2>2. UNCHANGED <<channels, making, backlog>>
    BY <1>14 DEF Readable, threads
  <2>3. Changes(k, Other(side), Tail(Queue(k, Other(side))),
                conns[k].known \/ Head(Queue(k, Other(side))) = 0)
    BY <1>14, <2>1, ReadableFacts
  <2> HIDE DEF Goal
  <2> QED BY <1>3, <2>2, <2>3
<1> HIDE DEF Goal
<1>15. Goal
  BY <1>5, <1>6, <1>7, <1>8, <1>9, <1>10, <1>11, <1>12, <1>13, <1>14 DEF Next
<1> QED BY <1>15 DEF Goal
-----------------------------------------------------------------------------
(* Init, the requests, and the connections a node makes. *)

LEMMA PhasesNext ==
  ASSUME TypeOK, \A m \in Node : EndsOwned(m) /\ Phases(m), Next, NEW m \in Node
  PROVE  Phases(m)'
<1>1. ASSUME NEW n \in Node, Start(n)
      PROVE  Phases(m)'
  <2>1. UNCHANGED <<channels, backlog, edge, making, requests>>
    BY <1>1 DEF Start
  <2>2. /\ phase'[m] = (IF m = n THEN "connecting" ELSE phase[m])
        /\ m # n => todo'[m] = todo[m]
    BY <1>1 DEF Start, TypeOK
  <2> QED BY <1>1, <2>1, <2>2 DEF Start, Phases
<1>2. ASSUME NEW n \in Node, Started(n)
      PROVE  Phases(m)'
  <2>1. UNCHANGED <<todo, channels, backlog, edge, making, requests>>
    BY <1>2 DEF Started
  <2>2. CASE phase[n] = "connecting" /\ todo[n] = {} /\ phase' = [phase EXCEPT ![n] = "starting"]
    <3>1. phase'[m] = IF m = n THEN "starting" ELSE phase[m]
      BY <2>2 DEF TypeOK
    <3> QED BY <2>1, <2>2, <3>1 DEF Phases
  <2>3. CASE phase[n] = "starting" /\ phase' = [phase EXCEPT ![n] = "up"]
    <3>1. phase'[m] = IF m = n THEN "up" ELSE phase[m]
      BY <2>3 DEF TypeOK
    <3> QED BY <2>1, <2>3, <3>1 DEF Phases
  <2> QED BY <1>2, <2>2, <2>3 DEF Started
<1>3. ASSUME NEW n \in Node, Crash(n)
      PROVE  Phases(m)'
  <2>1. CASE m = n
    <3>1. edge'[m] = FALSE /\ requests'[m] = <<>> /\ todo'[m] = {} /\ making'[m] = {}
          /\ channels'[m] = <<>>
      BY <1>3, <2>1 DEF Crash, TypeOK
    <3> QED BY <3>1 DEF Phases
  <2>2. CASE m # n
    <3>1. /\ edge'[m] = edge[m] /\ requests'[m] = requests[m] /\ todo'[m] = todo[m]
          /\ making'[m] = making[m] /\ channels'[m] = channels[m] /\ backlog'[m] = backlog[m]
          /\ phase'[m] = phase[m]
      BY <1>3, <2>2 DEF Crash, TypeOK
    <3> QED BY <3>1 DEF Phases
  <2> QED BY <2>1, <2>2
<1>4. ASSUME NEW n \in Node, NEW p \in Node, Connect(n, p), phase[n] # "down",
             UNCHANGED <<phase, channels>>
      PROVE  /\ edge'[m] => backlog'[m] # <<>>
             /\ phase'[m] = "down" => making'[m] = {} /\ channels'[m] = <<>>
  <2>1. CASE UNCHANGED <<conns, making, backlog, edge>>
    BY <1>4, <2>1 DEF Phases
  <2>2. ASSUME NEW k, Connects(n, p, k)
        PROVE  /\ edge'[m] => backlog'[m] # <<>>
               /\ phase'[m] = "down" => making'[m] = {} /\ channels'[m] = <<>>
    <3>1. backlog[p] \in Seq(1 .. MaxConns) /\ k \in 1 .. MaxConns
      BY <2>2 DEF TypeOK, Connects
    <3>2. Append(backlog[p], k) # <<>>
      BY <3>1, AppendFacts, EmptySeq
    <3>3. /\ backlog'[m] = (IF m = p THEN Append(backlog[p], k) ELSE backlog[m])
          /\ m # p => edge'[m] = edge[m]
          /\ m # n => making'[m] = making[m]
      BY <2>2 DEF Connects, TypeOK
    <3> QED BY <1>4, <3>2, <3>3 DEF Phases
  <2> QED BY <1>4, <2>1, <2>2, ConnectFacts
<1>5. ASSUME NEW n \in Node, MakePeerChannel(n)
      PROVE  Phases(m)'
  <2>1. requests[n] # <<>> /\ requests[n] \in Seq(Node) /\ phase[n] # "down"
    BY <1>5 DEF MakePeerChannel, NetworkThread, TypeOK
  <2>2. phase[n] \notin {"down", "connecting"}
    BY <2>1 DEF Phases
  <2>3. m # n => requests'[m] = requests[m]
    BY <1>5 DEF MakePeerChannel, TypeOK
  <2>4. Head(requests[n]) \in Node
    BY <2>1, TailFacts
  <2>5. UNCHANGED <<phase, todo, channels>>
    BY <1>5 DEF MakePeerChannel
  <2>6. /\ edge'[m] => backlog'[m] # <<>>
        /\ phase'[m] = "down" => making'[m] = {} /\ channels'[m] = <<>>
    <3>1. CASE Connect(n, Head(requests[n]))
      BY <1>4, <2>1, <2>4, <2>5, <3>1
    <3>2. CASE UNCHANGED <<conns, backlog, edge, making>>
      BY <2>5, <3>2 DEF Phases
    <3> QED BY <1>5, <3>1, <3>2 DEF MakePeerChannel
  <2> QED BY <2>2, <2>3, <2>5, <2>6 DEF Phases
<1>6. ASSUME NEW n \in Node, NEW p \in Node, InitConnects(n, p)
      PROVE  Phases(m)'
  <2>1. phase[n] = "connecting" /\ Connect(n, p) /\ UNCHANGED <<phase, channels, requests>>
    BY <1>6 DEF InitConnects
  <2>2. m # n => todo'[m] = todo[m]
    BY <1>6 DEF InitConnects, TypeOK
  <2>3. /\ edge'[m] => backlog'[m] # <<>>
        /\ phase'[m] = "down" => making'[m] = {} /\ channels'[m] = <<>>
    BY <1>4, <2>1
  <2> QED BY <2>1, <2>2, <2>3 DEF Phases
<1>7. ASSUME NEW n \in Node, PeerConnect(n)
      PROVE  Phases(m)'
  <2>1. UNCHANGED <<phase, todo, making, requests>> /\ phase[n] # "down"
    BY <1>7 DEF PeerConnect, NetworkThread, threads
  <2>2. /\ m # n => backlog'[m] = backlog[m] /\ channels'[m] = channels[m]
        /\ edge'[m] = (IF m = n THEN FALSE ELSE edge[m])
    BY <1>7 DEF PeerConnect, TypeOK
  <2> QED BY <2>1, <2>2 DEF Phases
<1>8. ASSUME NEW n \in Node, NEW p \in Node, SendMessageToPeer(n, p)
      PROVE  Phases(m)'
  <2>1. UNCHANGED <<phase, todo, making, channels, backlog, edge>> /\ phase[n] \in {"starting", "up"}
    BY <1>8 DEF SendMessageToPeer, threads
  <2>2. m # n => requests'[m] = requests[m]
    BY <1>8 DEF SendMessageToPeer, TypeOK
  <2> QED BY <2>1, <2>2 DEF Phases
<1>9. ASSUME NEW n \in Node, NEW k \in making[n], AddOutgoing(n, k)
      PROVE  Phases(m)'
  <2>1. UNCHANGED <<phase, todo, backlog, edge, requests>> /\ phase[n] # "down"
    BY <1>9 DEF AddOutgoing, Phases
  <2>2. m # n => making'[m] = making[m] /\ channels'[m] = channels[m]
    BY <1>9 DEF AddOutgoing, TypeOK
  <2> QED BY <2>1, <2>2 DEF Phases
<1>10. ASSUME NEW n \in Node, NEW e \in ToSet(channels[n]), PeerDisconnect(n, e)
       PROVE  Phases(m)'
  <2>1. UNCHANGED <<phase, todo, making, backlog, edge, requests>> /\ phase[n] # "down"
    BY <1>10 DEF PeerDisconnect, NetworkThread, threads
  <2>2. m # n => channels'[m] = channels[m]
    BY <1>10 DEF PeerDisconnect, TypeOK
  <2> QED BY <2>1, <2>2 DEF Phases
<1>11. ASSUME UNCHANGED <<phase, todo, making, channels, backlog, edge, requests>>
       PROVE  Phases(m)'
  BY <1>11 DEF Phases
<1>12. ASSUME \/ \E n \in Node : \/ \E p \in Node : TwoSecondsPass(n, p)
                                 \/ \E e \in ToSet(channels[n]) : Readable(n, e)
              \/ \E k \in DOMAIN conns : Break(k)
       PROVE  Phases(m)'
  <2>1. CASE \E n, p \in Node : TwoSecondsPass(n, p)
    BY <1>11, <2>1 DEF TwoSecondsPass, threads
  <2>2. CASE \E n, e : Readable(n, e)
    BY <1>11, <2>2 DEF Readable, threads
  <2>3. CASE \E k : Break(k)
    BY <1>11, <2>3 DEF Break, threads
  <2> QED BY <1>12, <2>1, <2>2, <2>3
<1> QED BY <1>1, <1>2, <1>3, <1>5, <1>6, <1>7, <1>8, <1>9, <1>10, <1>12 DEF Next

\* The connections that a node has made, when none is added.
LEMMA OneEachKept ==
  ASSUME TypeOK, NEW m \in Node, EndsOwned(m), OneEach(m), SameNodes, todo'[m] \subseteq todo[m],
         \A k \in DOMAIN conns' : HasChannel(m, EndOf(k, "out"))'
                                    => k \in Opened(m),
         \A k \in making'[m] : k \in Opened(m)
  PROVE  OneEach(m)'
<1>1. Opened(m)' \subseteq Opened(m)
  BY DEF Opened
<1>2. Opened(m) \subseteq DOMAIN conns
  BY DEF Opened, EndsOwned
<1>3. \A k \in DOMAIN conns : conns'[k].to = conns[k].to
  BY DEF SameNodes, Owner, Sides
<1> HIDE DEF Opened
<1> QED BY <1>1, <1>2, <1>3 DEF OneEach

\* One more connection, to a node that none leads to.
LEMMA OneEachMore ==
  ASSUME TypeOK, NEW n \in Node, NEW p \in Node, NEW k, Connects(n, p, k), UNCHANGED channels,
         \A m \in Node : EndsOwned(m) /\ OneEach(m),
         \A j \in Opened(n) : conns[j].to # p,
         \A m \in Node : todo'[m] \subseteq todo[m], p \notin todo'[n], NEW m \in Node
  PROVE  OneEach(m)'
<1>1. /\ SameNodes /\ Owner(k, "in")' = p
      /\ \A j : HasChannel(m, j)' <=> HasChannel(m, j)
      /\ \A j : j \in making'[m] <=> j \in making[m] \/ (m = n /\ j = k)
  BY ConnectEnds
<1>2. DOMAIN conns' = DOMAIN conns \cup {k} /\ k \notin DOMAIN conns
  BY DEF Connects
<1>3. \A j : HasChannel(m, EndOf(j, "out")) => j \in DOMAIN conns
  <2>1. \A j : EndOf(j, "out").conn = j
    BY DEF EndOf
  <2> QED BY <2>1 DEF EndsOwned, HasChannel
<1>4. CASE m # n
  <2>1. /\ \A j \in DOMAIN conns' : HasChannel(m, EndOf(j, "out"))' => j \in Opened(m)
        /\ \A j \in making'[m] : j \in Opened(m)
    BY <1>1, <1>3, <1>4 DEF Opened
  <2> QED BY <1>1, <2>1, OneEachKept
<1>5. CASE m = n
  <2>1. Opened(n)' \subseteq Opened(n) \cup {k}
    BY <1>1, <1>3, <1>5 DEF Opened
  <2>2. Opened(n) \subseteq DOMAIN conns
    BY DEF Opened, EndsOwned
  <2>3. (\A j \in DOMAIN conns : conns'[j].to = conns[j].to) /\ conns'[k].to = p
    BY <1>1 DEF SameNodes, Owner, Sides
  <2>4. \A j \in Opened(n) : /\ conns[j].to \notin todo[n] /\ conns[j].to # p
                             /\ \A i \in Opened(n) : conns[i].to = conns[j].to => i = j
    BY DEF OneEach
  <2> QED BY <1>5, <2>1, <2>2, <2>3, <2>4 DEF OneEach
<1> QED BY <1>4, <1>5

LEMMA OneEachNext ==
  ASSUME TypeOK, \A m \in Node : EndsOwned(m) /\ Phases(m) /\ OneEach(m), Next, NEW m \in Node
  PROVE  OneEach(m)'
<1>1. ASSUME SameNodes, todo'[m] \subseteq todo[m], making'[m] \subseteq making[m],
             ToSet(channels'[m]) \subseteq ToSet(channels[m]), DOMAIN conns' = DOMAIN conns
      PROVE  OneEach(m)'
  BY <1>1, OneEachKept DEF Opened, HasChannel
<1>2. ASSUME UNCHANGED <<conns, channels, making>>, todo'[m] \subseteq todo[m]
      PROVE  OneEach(m)'
  <2>1. SameNodes
    BY <1>2, SameNodesBy
  <2> QED BY <1>1, <1>2, <2>1
<1>3. ASSUME NEW n \in Node, Start(n)
      PROVE  OneEach(m)'
  <2>1. UNCHANGED <<conns, channels, making>> /\ phase[n] = "down"
    BY <1>3 DEF Start
  <2>2. CASE m = n
    <3>1. making[n] = {} /\ channels[n] = <<>>
      BY <2>1 DEF Phases
    <3>2. Opened(m)' = {}
      BY <2>1, <2>2, <3>1 DEF Opened, HasChannel, ToSet
    <3> QED BY <3>2 DEF OneEach
  <2>3. CASE m # n
    <3>1. todo'[m] = todo[m]
      BY <1>3, <2>3 DEF Start, TypeOK
    <3> QED BY <1>2, <2>1, <3>1
  <2> QED BY <2>2, <2>3
<1>4. ASSUME NEW n \in Node, Crash(n)
      PROVE  OneEach(m)'
  <2>1. /\ SameNodes /\ DOMAIN conns' = DOMAIN conns
        /\ \A d : HasChannel(m, d)' <=> HasChannel(m, d) /\ m # n
        /\ \A j : j \in making'[m] <=> j \in making[m] /\ m # n
    BY <1>4, CrashEnds
  <2>2. todo'[m] \subseteq todo[m]
    BY <1>4 DEF Crash, TypeOK
  <2> QED BY <1>1, <2>1, <2>2 DEF HasChannel
<1>5. ASSUME NEW n \in Node, NEW p \in Node, InitConnects(n, p)
      PROVE  OneEach(m)'
  <2>1. p \in todo[n] /\ Connect(n, p) /\ UNCHANGED channels
    BY <1>5 DEF InitConnects
  <2>2. \A i \in Node : todo'[i] = IF i = n THEN todo[n] \ {p} ELSE todo[i]
    BY <1>5 DEF InitConnects, TypeOK
  <2>3. CASE UNCHANGED <<conns, making, backlog, edge>>
    BY <1>2, <2>1, <2>2, <2>3
  <2>4. ASSUME NEW k, Connects(n, p, k)
        PROVE  OneEach(m)'
    <3>1. \A j \in Opened(n) : conns[j].to # p
      BY <2>1 DEF OneEach
    <3> QED BY <2>1, <2>2, <2>4, <3>1, OneEachMore
  <2> QED BY <2>1, <2>3, <2>4, ConnectFacts
<1>6. ASSUME NEW n \in Node, MakePeerChannel(n)
      PROVE  OneEach(m)'
  <2>1. requests[n] # <<>> /\ requests[n] \in Seq(Node) /\ UNCHANGED <<todo, channels>>
        /\ phase[n] # "down" /\ (phase[n] = "connecting" \/ making[n] = {})
    BY <1>6 DEF MakePeerChannel, NetworkThread, TypeOK
  <2>2. making[n] = {} /\ todo[n] = {}
    BY <2>1 DEF Phases
  <2>3. PICK p \in Node : p = Head(requests[n])
    BY <2>1, TailFacts
  <2>4. CASE UNCHANGED <<conns, backlog, edge, making>>
    BY <1>2, <2>1, <2>4
  <2>5. CASE CountPeerChannel(n, p) = 0 /\ Connect(n, p)
    <3>1. ChannelsTo(n, p) = {}
      <4>1. DOMAIN channels[n] = 1 .. Len(channels[n]) /\ Len(channels[n]) \in Nat
        BY LenProperties DEF TypeOK
      <4>2. IsFiniteSet(1 .. Len(channels[n]))
        BY <4>1, FS_Interval
      <4>3. IsFiniteSet(ChannelsTo(n, p))
        <5>1. ChannelsTo(n, p) \subseteq 1 .. Len(channels[n])
          BY <4>1 DEF ChannelsTo
        <5> QED BY <4>2, <5>1, FS_Subset
      <4> QED BY <2>5, <4>3, FS_EmptySet DEF CountPeerChannel
    <3>2. ASSUME NEW j \in Opened(n)
          PROVE  conns[j].to # p
      <4>1. EndOf(j, "out") \in ToSet(channels[n])
        BY <2>2 DEF Opened, HasChannel
      <4>2. PICK i \in DOMAIN channels[n] : channels[n][i] = EndOf(j, "out")
        BY <4>1 DEF ToSet
      <4>3. PeerId(channels[n][i]) = conns[j].to
        BY <4>2 DEF PeerId, Peer, EndOf
      <4> QED BY <3>1, <4>3 DEF ChannelsTo
    <3>3. ASSUME NEW k, Connects(n, p, k)
          PROVE  OneEach(m)'
      BY <2>1, <2>2, <3>2, <3>3, OneEachMore
    <3>4. CASE UNCHANGED <<conns, making, backlog, edge>>
      BY <1>2, <2>1, <3>4
    <3> QED BY <2>5, <3>3, <3>4, ConnectFacts
  <2> QED BY <1>6, <2>3, <2>4, <2>5 DEF MakePeerChannel
<1>7. ASSUME NEW n \in Node, NEW k \in making[n], AddOutgoing(n, k)
      PROVE  OneEach(m)'
  <2>1. /\ SameNodes /\ k \in DOMAIN conns
        /\ \A d : HasChannel(m, d)' <=> HasChannel(m, d) \/ (m = n /\ d = EndOf(k, "out"))
        /\ \A j : j \in making'[m] <=> j \in making[m] /\ ~(m = n /\ j = k)
    BY <1>7, AddOutgoingEnds
  <2>2. todo' = todo
    BY <1>7 DEF AddOutgoing
  <2>3. DOMAIN conns' = DOMAIN conns
    BY <1>7, <2>1, AddOutgoingFacts DEF Changes
  <2>4. \A j : EndOf(j, "out") = EndOf(k, "out") => j = k
    BY SameEnd
  <2>5. /\ \A j \in DOMAIN conns' : HasChannel(m, EndOf(j, "out"))' => j \in Opened(m)
        /\ \A j \in making'[m] : j \in Opened(m)
    BY <2>1, <2>3, <2>4 DEF Opened
  <2> QED BY <2>1, <2>2, <2>5, OneEachKept
<1>8. ASSUME NEW n \in Node, PeerConnect(n)
      PROVE  OneEach(m)'
  <2>1. PICK k \in DOMAIN conns :
           /\ SameNodes /\ DOMAIN conns' = DOMAIN conns
           /\ \A d : HasChannel(m, d)' <=> HasChannel(m, d) \/ (m = n /\ d = EndOf(k, "in"))
    BY <1>8, PeerConnectEnds
  <2>2. todo' = todo /\ making' = making
    BY <1>8 DEF PeerConnect, threads
  <2>3. \A j : EndOf(j, "out") # EndOf(k, "in")
    BY SameEnd
  <2>4. /\ \A j \in DOMAIN conns' : HasChannel(m, EndOf(j, "out"))' => j \in Opened(m)
        /\ \A j \in making'[m] : j \in Opened(m)
    BY <2>1, <2>2, <2>3 DEF Opened
  <2> QED BY <2>1, <2>2, <2>4, OneEachKept
<1>9. ASSUME NEW n \in Node, NEW e \in ToSet(channels[n]), PeerDisconnect(n, e)
      PROVE  OneEach(m)'
  <2>1. PICK k \in DOMAIN conns, side \in Sides : e = EndOf(k, side) /\ HasChannel(n, e)
    BY ChannelFacts
  <2>2. /\ SameNodes /\ DOMAIN conns' = DOMAIN conns
        /\ \A d : HasChannel(m, d)' <=> HasChannel(m, d) /\ ~(m = n /\ d = EndOf(k, side))
    BY <1>9, <2>1, DisconnectEnds
  <2>3. todo' = todo /\ making' = making
    BY <1>9 DEF PeerDisconnect, threads
  <2> QED BY <1>1, <2>2, <2>3 DEF HasChannel
<1>10. ASSUME UNCHANGED <<channels, making, todo>>, NEW k, NEW side, NEW q, NEW known,
              Changes(k, side, q, known)
       PROVE  OneEach(m)'
  <2>1. SameNodes /\ DOMAIN conns' = DOMAIN conns
    BY <1>10, SameNodesBy DEF Changes
  <2> QED BY <1>1, <1>10, <2>1
<1>11. ASSUME NEW n \in Node, NEW e \in ToSet(channels[n]), Readable(n, e)
       PROVE  OneEach(m)'
  <2>1. PICK k \in DOMAIN conns, side \in Sides : e = EndOf(k, side)
    BY ChannelFacts
  <2>2. UNCHANGED <<channels, making, todo>>
    BY <1>11 DEF Readable, threads
  <2>3. Changes(k, Other(side), Tail(Queue(k, Other(side))),
                conns[k].known \/ Head(Queue(k, Other(side))) = 0)
    BY <1>11, <2>1, ReadableFacts
  <2> QED BY <1>10, <2>2, <2>3
<1>12. ASSUME NEW n \in Node, NEW p \in Node, SendMessageToPeer(n, p)
       PROVE  OneEach(m)'
  <2>1. UNCHANGED <<channels, making, todo>>
    BY <1>12 DEF SendMessageToPeer, threads
  <2>2. UNCHANGED conns \/ \E k, side, q, known : Changes(k, side, q, known)
    BY <1>12, SendFacts
  <2> QED BY <1>2, <1>10, <2>1, <2>2
<1>13. ASSUME NEW n \in Node, Started(n) \/ \E p \in Node : TwoSecondsPass(n, p)
       PROVE  OneEach(m)'
  <2>1. UNCHANGED <<conns, channels, making, todo>>
    BY <1>13 DEF Started, TwoSecondsPass, threads
  <2> QED BY <1>2, <2>1
<1>14. ASSUME NEW k \in DOMAIN conns, Break(k)
       PROVE  OneEach(m)'
  <2>1. UNCHANGED <<channels, making, todo>>
    BY <1>14 DEF Break, threads
  <2>2. SameNodes /\ DOMAIN conns' = DOMAIN conns
    BY <1>14, BreakFacts, SameNodesBy
  <2> QED BY <1>1, <2>1, <2>2
<1> QED BY <1>3, <1>4, <1>5, <1>6, <1>7, <1>8, <1>9, <1>11, <1>12, <1>13, <1>14 DEF Next
-----------------------------------------------------------------------------
(* Messages in order. *)

LEMMA SequenceEmpty ==
  ASSUME NEW g, NEW last
  PROVE  InSequence(<<>>, g, last) /\ ~Unread(<<>>)
  BY DEF InSequence, Unread

LEMMA SequenceRead ==
  ASSUME NEW q, NEW g, NEW last \in Nat, ~Unread(q)
  PROVE  InSequence(q, g, last)
  BY DEF InSequence, Unread

LEMMA SequenceTail ==
  ASSUME NEW q \in Seq(0 .. MaxSent), q # <<>>, NEW g, NEW last
  PROVE  /\ InSequence(q, g, last) => InSequence(Tail(q), g, last)
         /\ Unread(Tail(q)) => Unread(q)
         /\ \A i \in DOMAIN Tail(q) : i + 1 \in DOMAIN q /\ Tail(q)[i] = q[i + 1]
<1> DEFINE t == Tail(q)
<1>1. /\ t \in Seq(0 .. MaxSent) /\ Len(q) \in Nat /\ Len(t) = Len(q) - 1
      /\ \A j \in 1 .. Len(t) : t[j] = q[j + 1]
  BY TailFacts
<1>2. DOMAIN t = 1 .. Len(t) /\ DOMAIN q = 1 .. Len(q)
  BY <1>1, LenProperties
<1> HIDE DEF t
<1>3. \A i \in DOMAIN t : i + 1 \in DOMAIN q /\ t[i] = q[i + 1]
  BY <1>1, <1>2
<1>4. \A i, j \in DOMAIN t : i < j => i + 1 < j + 1
  BY <1>2
<1>5. InSequence(q, g, last) => InSequence(t, g, last)
  BY <1>3, <1>4 DEF InSequence
<1>6. Unread(t) => Unread(q)
  BY <1>3 DEF Unread
<1> QED BY <1>3, <1>5, <1>6 DEF t

LEMMA SequenceDeliver ==
  ASSUME NEW q \in Seq(0 .. MaxSent), q # <<>>, Head(q) # 0, NEW g \in Seq(1 .. MaxSent),
         NEW last, InSequence(q, g, last)
  PROVE  /\ InSequence(Tail(q), Append(g, Head(q)), last)
         /\ Unread(q) /\ Head(q) <= last /\ \A j \in DOMAIN g : g[j] < Head(q)
<1> DEFINE t == Tail(q)
<1>1. /\ t \in Seq(0 .. MaxSent) /\ Len(q) \in Nat /\ Len(q) >= 1 /\ Len(t) = Len(q) - 1
      /\ \A j \in 1 .. Len(t) : t[j] = q[j + 1]
      /\ Head(q) = q[1] /\ Head(q) \in 0 .. MaxSent
  BY TailFacts
<1>2. DOMAIN t = 1 .. Len(t) /\ DOMAIN q = 1 .. Len(q)
  BY <1>1, LenProperties
<1> HIDE DEF t
<1>3. 1 \in DOMAIN q /\ Head(q) = q[1]
  BY <1>1, <1>2
<1>4. Unread(q) /\ Head(q) <= last /\ \A j \in DOMAIN g : g[j] < Head(q)
  BY <1>3 DEF InSequence, Unread
<1>5. PICK h : h = Append(g, Head(q))
  OBVIOUS
<1>6. \A j \in DOMAIN h : (j \in DOMAIN g /\ h[j] = g[j]) \/ h[j] = Head(q)
  <2>1. Head(q) \in 1 .. MaxSent
    BY <1>1, BoundAssumption
  <2>2. /\ h \in Seq(1 .. MaxSent) /\ Len(g) \in Nat /\ Len(h) = Len(g) + 1
        /\ \A j \in 1 .. Len(g) : h[j] = g[j]
        /\ h[Len(g) + 1] = Head(q)
    BY <1>5, <2>1, AppendFacts
  <2>3. DOMAIN h = 1 .. (Len(g) + 1) /\ DOMAIN g = 1 .. Len(g)
    BY <2>2, LenProperties
  <2> QED BY <2>2, <2>3
<1>7. ASSUME NEW i \in DOMAIN t
      PROVE  /\ t[i] <= last
             /\ \A j \in DOMAIN h : t[i] # 0 => h[j] < t[i]
             /\ \A j \in DOMAIN t : i < j /\ t[i] # 0 /\ t[j] # 0 => t[i] < t[j]
  <2>1. i + 1 \in DOMAIN q /\ t[i] = q[i + 1] /\ 1 < i + 1
    BY <1>1, <1>2
  <2>2. t[i] <= last /\ \A j \in DOMAIN g : t[i] # 0 => g[j] < t[i]
    BY <2>1 DEF InSequence
  <2>3. t[i] # 0 => Head(q) < t[i]
    BY <1>3, <2>1 DEF InSequence
  <2>4. ASSUME NEW j \in DOMAIN t, i < j, t[i] # 0, t[j] # 0
        PROVE  t[i] < t[j]
    <3>1. j + 1 \in DOMAIN q /\ t[j] = q[j + 1] /\ i + 1 < j + 1
      BY <1>1, <1>2, <2>4
    <3> QED BY <2>1, <2>4, <3>1 DEF InSequence
  <2> QED BY <1>6, <2>2, <2>3, <2>4
<1>8. InSequence(t, h, last)
  BY <1>7 DEF InSequence
<1> QED BY <1>4, <1>5, <1>8 DEF t

LEMMA SequenceAppend ==
  ASSUME NEW q \in Seq(0 .. MaxSent), NEW x \in 0 .. MaxSent
  PROVE  \A i \in DOMAIN Append(q, x) :
           \/ i \in DOMAIN q /\ i \in 1 .. Len(q) /\ Append(q, x)[i] = q[i]
           \/ i = Len(q) + 1 /\ Append(q, x)[i] = x
<1>1. /\ Append(q, x) \in Seq(0 .. MaxSent) /\ Len(q) \in Nat
      /\ Len(Append(q, x)) = Len(q) + 1
      /\ \A j \in 1 .. Len(q) : Append(q, x)[j] = q[j]
      /\ Append(q, x)[Len(q) + 1] = x
  BY AppendFacts
<1>2. DOMAIN Append(q, x) = 1 .. (Len(q) + 1) /\ DOMAIN q = 1 .. Len(q)
  BY <1>1, LenProperties
<1> QED BY <1>1, <1>2

LEMMA SequencePush ==
  ASSUME NEW q \in Seq(0 .. MaxSent), NEW g \in Seq(1 .. MaxSent), NEW last \in Nat,
         last + 1 \in 0 .. MaxSent, InSequence(q, g, last),
         \A j \in DOMAIN g : g[j] <= last
  PROVE  InSequence(Append(q, last + 1), g, last + 1)
<1>1. PICK x \in 0 .. MaxSent : x = last + 1
  OBVIOUS
<1>2. PICK r : r = Append(q, x)
  OBVIOUS
<1>3. \A i \in DOMAIN r : \/ i \in DOMAIN q /\ i \in 1 .. Len(q) /\ r[i] = q[i]
                          \/ i = Len(q) + 1 /\ r[i] = x
  BY <1>2, SequenceAppend
<1>4. Len(q) \in Nat /\ \A i \in DOMAIN q : q[i] \in Nat
  BY BoundAssumption, LenProperties, ElementOfSeq
<1>5. \A j \in DOMAIN g : g[j] \in Nat
  BY BoundAssumption, LenProperties, ElementOfSeq
<1>6. ASSUME NEW i \in DOMAIN r
      PROVE  /\ r[i] <= x
             /\ \A j \in DOMAIN g : r[i] # 0 => g[j] < r[i]
             /\ \A j \in DOMAIN r : i < j /\ r[i] # 0 /\ r[j] # 0 => r[i] < r[j]
  <2>1. CASE i \in DOMAIN q /\ i \in 1 .. Len(q) /\ r[i] = q[i]
    <3>1. q[i] <= last /\ q[i] \in Nat /\ \A j \in DOMAIN g : q[i] # 0 => g[j] < q[i]
      BY <1>4, <2>1 DEF InSequence
    <3>2. ASSUME NEW j \in DOMAIN r, i < j, r[i] # 0, r[j] # 0
          PROVE  r[i] < r[j]
      <4>1. CASE j \in DOMAIN q /\ r[j] = q[j]
        BY <2>1, <3>2, <4>1 DEF InSequence
      <4>2. CASE r[j] = x
        BY <1>1, <2>1, <3>1, <4>2
      <4> QED BY <1>3, <4>1, <4>2
    <3> QED BY <1>1, <2>1, <3>1, <3>2
  <2>2. CASE i = Len(q) + 1 /\ r[i] = x
    <3>1. \A j \in DOMAIN r : ~(i < j)
      BY <1>3, <1>4, <2>2
    <3> QED BY <1>1, <1>5, <2>2, <3>1
  <2> QED BY <1>3, <2>1, <2>2
<1>7. InSequence(r, g, x)
  BY <1>6 DEF InSequence
<1> QED BY <1>1, <1>2, <1>7

LEMMA SequenceRaise ==
  ASSUME NEW q \in Seq(0 .. MaxSent), NEW g, NEW last \in Nat, InSequence(q, g, last)
  PROVE  InSequence(q, g, last + 1)
<1>1. \A i \in DOMAIN q : q[i] \in Nat
  BY BoundAssumption, LenProperties, ElementOfSeq
<1> QED BY <1>1 DEF InSequence

\* The id is not a message.
LEMMA SequenceId ==
  ASSUME NEW q \in Seq(0 .. MaxSent), NEW g, NEW last \in Nat
  PROVE  /\ InSequence(q, g, last) => InSequence(Append(q, 0), g, last)
         /\ Unread(Append(q, 0)) => Unread(q)
<1>1. PICK x \in 0 .. MaxSent : x = 0
  BY BoundAssumption
<1>2. PICK r : r = Append(q, x)
  OBVIOUS
<1>3. \A i \in DOMAIN r : \/ i \in DOMAIN q /\ r[i] = q[i]
                          \/ r[i] = 0
  BY <1>1, <1>2, SequenceAppend
<1>4. Unread(r) => Unread(q)
  BY <1>3 DEF Unread
<1>5. ASSUME InSequence(q, g, last)
      PROVE  InSequence(r, g, last)
  BY <1>3, <1>5 DEF InSequence
<1> QED BY <1>1, <1>2, <1>4, <1>5
-----------------------------------------------------------------------------
(* Which channel is used. *)

\* What node a channel leads to changes only when its id is read.
LEMMA PeerIdKept ==
  ASSUME TypeOK, NEW m \in Node, EndsOwned(m), SameNodes, NEW d \in ToSet(channels[m]),
         conns'[d.conn].known = conns[d.conn].known
  PROVE  PeerId(d)' = PeerId(d)
<1>1. d.conn \in DOMAIN conns
  BY DEF EndsOwned
<1>2. conns'[d.conn].from = conns[d.conn].from /\ conns'[d.conn].to = conns[d.conn].to
  BY <1>1 DEF SameNodes, Owner, Sides
<1> QED BY <1>2 DEF PeerId, Peer

\* No channel comes to be before the one in use.
LEMMA UsesKept ==
  ASSUME NEW m, NEW p, NEW e, Uses(m, p, e), channels'[m] = channels[m],
         PeerId(e)' = PeerId(e),
         \A i, j \in DOMAIN channels[m] :
           channels[m][j] = e /\ i < j /\ PeerId(channels[m][i])' = p => PeerId(channels[m][i]) = p,
         DOMAIN channels[m] = 1 .. Len(channels[m]), Len(channels[m]) \in Nat
  PROVE  Uses(m, p, e)'
<1>1. PICK j \in DOMAIN channels[m] :
        /\ channels[m][j] = e /\ PeerId(e) = p
        /\ \A i \in 1 .. (j - 1) : PeerId(channels[m][i]) # p
  BY DEF Uses
<1>2. ASSUME NEW i \in 1 .. (j - 1)
      PROVE  PeerId(channels[m][i])' # p
  <2>1. i \in DOMAIN channels[m] /\ i < j
    BY <1>1
  <2> QED BY <1>1, <2>1
<1> QED BY <1>1, <1>2 DEF Uses

LEMMA UsesSame ==
  ASSUME TypeOK, NEW m \in Node, NEW p, NEW e, Uses(m, p, e), channels'[m] = channels[m],
         \A x \in ToSet(channels[m]) : PeerId(x)' = PeerId(x)
  PROVE  Uses(m, p, e)'
<1>1. PICK j \in DOMAIN channels[m] :
        /\ channels[m][j] = e /\ PeerId(e) = p
        /\ \A i \in 1 .. (j - 1) : PeerId(channels[m][i]) # p
  BY DEF Uses
<1>2. PICK c \in Seq(End) : c = channels[m]
  BY DEF TypeOK
<1>3. DOMAIN c = 1 .. Len(c) /\ Len(c) \in Nat
  BY LenProperties
<1>4. \A i \in DOMAIN c : PeerId(c[i])' = PeerId(c[i])
  BY <1>2 DEF ToSet
<1>5. \A i \in 1 .. (j - 1) : i \in DOMAIN c
  BY <1>1, <1>2, <1>3
<1>6. j \in DOMAIN c /\ c[j] = e /\ PeerId(e)' = p
  BY <1>1, <1>2, <1>4
<1>7. \A i \in 1 .. (j - 1) : PeerId(c[i])' # p
  BY <1>1, <1>2, <1>4, <1>5
<1>8. c = channels'[m]
  BY <1>2
<1> QED BY <1>6, <1>7, <1>8 DEF Uses

\* The same, when a channel is added at the end, and when one is removed.
LEMMA UsesAdded ==
  ASSUME TypeOK, NEW m \in Node, NEW p, NEW e, Uses(m, p, e), NEW d \in End,
         channels'[m] = Append(channels[m], d),
         \A x \in ToSet(channels[m]) : PeerId(x)' = PeerId(x)
  PROVE  Uses(m, p, e)'
<1>1. PICK j \in DOMAIN channels[m] :
        /\ channels[m][j] = e /\ PeerId(e) = p
        /\ \A i \in 1 .. (j - 1) : PeerId(channels[m][i]) # p
  BY DEF Uses
<1>2. PICK c \in Seq(End) : c = channels[m]
  BY DEF TypeOK
<1>3. PICK r : r = Append(c, d)
  OBVIOUS
<1>4. /\ r \in Seq(End) /\ Len(c) \in Nat /\ Len(r) = Len(c) + 1
      /\ \A i \in 1 .. Len(c) : r[i] = c[i]
  BY <1>3, AppendFacts
<1>5. DOMAIN r = 1 .. (Len(c) + 1) /\ DOMAIN c = 1 .. Len(c)
  BY <1>4, LenProperties
<1>6. \A i \in 1 .. j : i \in DOMAIN c /\ i \in DOMAIN r /\ r[i] = c[i]
  BY <1>1, <1>2, <1>4, <1>5
<1>7. \A i \in 1 .. j : PeerId(c[i])' = PeerId(c[i])
  BY <1>2, <1>6 DEF ToSet
<1>8. j \in DOMAIN r /\ r[j] = e /\ PeerId(e)' = p
  BY <1>1, <1>2, <1>5, <1>6, <1>7
<1>9. \A i \in 1 .. (j - 1) : PeerId(r[i])' # p
  <2>1. \A i \in 1 .. (j - 1) : i \in 1 .. j
    BY <1>1, <1>2, <1>5
  <2> QED BY <1>1, <1>2, <1>6, <1>7, <2>1
<1>10. r = channels'[m]
  BY <1>2, <1>3
<1> QED BY <1>8, <1>9, <1>10 DEF Uses

LEMMA UsesRemoved ==
  ASSUME TypeOK, NEW m \in Node, NEW p, NEW e, Uses(m, p, e), NEW d \in ToSet(channels[m]),
         d # e, IsInjective(channels[m]), channels'[m] = RemoveFirst(channels[m], d),
         \A x \in ToSet(channels[m]) : PeerId(x)' = PeerId(x)
  PROVE  Uses(m, p, e)'
<1>1. PICK j \in DOMAIN channels[m] :
        /\ channels[m][j] = e /\ PeerId(e) = p
        /\ \A i \in 1 .. (j - 1) : PeerId(channels[m][i]) # p
  BY DEF Uses
<1>2. PICK c \in Seq(End) : c = channels[m]
  BY DEF TypeOK
<1>3. PICK k \in 1 .. Len(c) : c[k] = d /\ RemoveFirst(c, d) = RemoveAt(c, k)
  BY <1>2, RemoveFirstSet
<1>4. PICK r : r = RemoveAt(c, k)
  OBVIOUS
<1>5. /\ r \in Seq(End) /\ Len(r) = Len(c) - 1
      /\ \A i \in 1 .. (Len(c) - 1) : r[i] = IF i < k THEN c[i] ELSE c[i + 1]
  BY <1>4, RemoveAtFacts
<1>6. DOMAIN r = 1 .. (Len(c) - 1) /\ DOMAIN c = 1 .. Len(c) /\ Len(c) \in Nat
  BY <1>5, LenProperties
<1>7. \A i \in DOMAIN c : PeerId(c[i])' = PeerId(c[i])
  BY <1>2 DEF ToSet
<1>8. r = channels'[m]
  BY <1>2, <1>3, <1>4
<1>9. j # k
  BY <1>1, <1>2, <1>3
<1>10. CASE j < k
  <2>1. j \in DOMAIN r /\ r[j] = e /\ PeerId(e)' = p
    BY <1>1, <1>2, <1>5, <1>6, <1>7, <1>10
  <2>2. \A i \in 1 .. (j - 1) : r[i] = c[i] /\ i \in DOMAIN c
    BY <1>1, <1>2, <1>5, <1>6, <1>10
  <2>3. \A i \in 1 .. (j - 1) : PeerId(r[i])' # p
    BY <1>1, <1>2, <1>7, <2>2
  <2> QED BY <1>8, <2>1, <2>3 DEF Uses
<1>11. CASE k < j
  <2>1. PICK l \in DOMAIN r : l = j - 1
    BY <1>1, <1>2, <1>6, <1>11
  <2>2. r[l] = c[j]
    BY <1>1, <1>2, <1>5, <1>6, <1>11, <2>1
  <2>3. r[l] = e /\ PeerId(e)' = p
    BY <1>1, <1>2, <1>7, <2>2
  <2>4. ASSUME NEW i \in 1 .. (l - 1)
        PROVE  PeerId(r[i])' # p
    <3>1. PICK h \in 1 .. (j - 1) : r[i] = c[h] /\ h \in DOMAIN c
      <4>1. CASE i < k
        <5>1. i \in 1 .. (j - 1) /\ i \in DOMAIN c /\ r[i] = c[i]
          BY <1>1, <1>2, <1>5, <1>6, <2>1, <4>1
        <5> QED BY <5>1
      <4>2. CASE ~(i < k)
        <5>1. i + 1 \in 1 .. (j - 1) /\ i + 1 \in DOMAIN c /\ r[i] = c[i + 1]
          BY <1>1, <1>2, <1>5, <1>6, <2>1, <4>2
        <5> QED BY <5>1
      <4> QED BY <4>1, <4>2
    <3> QED BY <1>1, <1>2, <1>7, <3>1
  <2> QED BY <1>8, <2>1, <2>3, <2>4 DEF Uses
<1> QED BY <1>1, <1>2, <1>6, <1>9, <1>10, <1>11

\* A node sends on a channel of its own that leads to the peer.
LEMMA UsedOwner ==
  ASSUME TypeOK, NEW n \in Node, EndsOwned(n), NEW p \in Node, NEW k, NEW side \in Sides,
         Uses(n, p, EndOf(k, side))
  PROVE  k \in DOMAIN conns /\ Owner(k, side) = n /\ Owner(k, Other(side)) = p
<1>1. HasChannel(n, EndOf(k, side)) /\ PeerId(EndOf(k, side)) = p
  BY UsesFacts
<1>2. EndOf(k, side).conn = k /\ EndOf(k, side).side = side
      /\ Peer(EndOf(k, side)) = Owner(k, Other(side))
  BY PeerOwns
<1>3. k \in DOMAIN conns /\ Owner(k, side) = n
  BY <1>1, <1>2 DEF EndsOwned, HasChannel
<1>4. Peer(EndOf(k, side)) = p
  BY <1>1, NobodyAssumption DEF PeerId
<1> QED BY <1>2, <1>3, <1>4

\* How what a channel carries is kept from step to step.
LEMMA CarriesKept ==
  ASSUME TypeOK, SameNodes, overtaken \subseteq overtaken',
         NEW k \in DOMAIN conns, NEW side \in Sides, Carries(k, side),
         \A n, p \in Node :
           n = Owner(k, side) /\ p = Owner(k, Other(side)) /\ <<n, p>> \notin overtaken'
             /\ Flows(k, side, n, p) => Flows(k, side, n, p)'
  PROVE  Carries(k, side)'
<1>1. PICK n \in Node : n = Owner(k, side) /\ n = Owner(k, side)'
  BY OwnerFacts DEF SameNodes
<1>2. PICK p \in Node : p = Owner(k, Other(side)) /\ p = Owner(k, Other(side))'
  BY OwnerFacts DEF SameNodes
<1>3. SUFFICES ASSUME <<n, p>> \notin overtaken'
               PROVE  Flows(k, side, n, p)'
  BY <1>1, <1>2 DEF Carries
<1>4. Flows(k, side, n, p)
  BY <1>1, <1>2, <1>3 DEF Carries
<1> QED BY <1>1, <1>2, <1>3, <1>4

LEMMA FlowTypes ==
  ASSUME TypeOK, NEW k \in DOMAIN conns, NEW side \in Sides, NEW n \in Node, NEW p \in Node
  PROVE  /\ Queue(k, side) \in Seq(0 .. MaxSent) /\ got[p][n] \in Seq(1 .. MaxSent)
         /\ sent[n][p] \in Nat
         /\ DOMAIN channels[n] = 1 .. Len(channels[n]) /\ Len(channels[n]) \in Nat
<1>1. channels[n] \in Seq(End) /\ got[p][n] \in Seq(1 .. MaxSent) /\ sent[n][p] \in 0 .. MaxSent
  BY DEF TypeOK
<1>2. DOMAIN channels[n] = 1 .. Len(channels[n]) /\ Len(channels[n]) \in Nat
  BY <1>1, LenProperties
<1>3. Queue(k, side) \in Seq(0 .. MaxSent)
  BY ConnFacts
<1> QED BY <1>1, <1>2, <1>3, BoundAssumption

\* What changes in no step but those that send or deliver a message.
LEMMA OrderKept ==
  ASSUME \A n, p \in Node : GotInOrder(n, p), UNCHANGED <<got, sent>>, overtaken \subseteq overtaken'
  PROVE  \A n, p \in Node : GotInOrder(n, p)'
  BY DEF GotInOrder

Ordered ==
  /\ \A n, p \in Node : GotInOrder(n, p)
  /\ \A k \in DOMAIN conns : IdFromOut(k) /\ \A side \in Sides : Carries(k, side)

\* Steps that touch no queue.
LEMMA QuietStep ==
  ASSUME TypeOK, \A m \in Node : EndsOwned(m), Ordered, SameNodes, DOMAIN conns' = DOMAIN conns,
         UNCHANGED <<channels, got, sent, overtaken>>,
         \A k \in DOMAIN conns : conns'[k].known = conns[k].known
                                 /\ \A s \in Sides : Queue(k, s)' = Queue(k, s)
  PROVE  Ordered'
<1>1. \A n, p \in Node : GotInOrder(n, p)'
  BY OrderKept DEF Ordered
<1>2. \A k \in DOMAIN conns : IdFromOut(k)'
  BY DEF Ordered, IdFromOut, Sides
<1>3. ASSUME NEW k \in DOMAIN conns, NEW side \in Sides
      PROVE  Carries(k, side)'
  <2>1. ASSUME NEW n \in Node, NEW p \in Node, Flows(k, side, n, p)
        PROVE  Flows(k, side, n, p)'
    <3>1. InSequence(Queue(k, side), got[p][n], sent[n][p])'
      BY <2>1 DEF Flows
    <3>2. ASSUME Uses(n, p, EndOf(k, side))
          PROVE  Uses(n, p, EndOf(k, side))'
      <4>1. \A d \in ToSet(channels[n]) : PeerId(d)' = PeerId(d)
        <5>1. \A d \in ToSet(channels[n]) : conns'[d.conn].known = conns[d.conn].known
          BY DEF EndsOwned
        <5> QED BY <5>1, PeerIdKept
      <4> QED BY <3>2, <4>1, UsesSame
    <3> QED BY <2>1, <3>1, <3>2 DEF Flows
  <2> QED BY <2>1, CarriesKept DEF Ordered
<1> QED BY <1>1, <1>2, <1>3 DEF Ordered

\* A new connection has nothing in it.
LEMMA ConnectStep ==
  ASSUME TypeOK, \A m \in Node : EndsOwned(m), Ordered, NEW n \in Node, NEW p \in Node, NEW k,
         Connects(n, p, k), UNCHANGED <<channels, got, sent, overtaken>>
  PROVE  Ordered'
<1>1. \A a, b \in Node : GotInOrder(a, b)'
  BY OrderKept DEF Ordered
<1>2. /\ DOMAIN conns' = DOMAIN conns \cup {k} /\ k \notin DOMAIN conns
      /\ \A j \in DOMAIN conns : conns'[j] = conns[j]
      /\ \A s \in Sides : Queue(k, s)' = <<>>
  BY DEF Connects
<1>3. SameNodes /\ Owner(k, "out")' = n /\ Owner(k, "in")' = p
  BY ConnectEnds
<1>4. \A j \in DOMAIN conns' : IdFromOut(j)'
  <2>1. IdFromOut(k)'
    BY <1>2 DEF IdFromOut, Sides
  <2>2. \A j \in DOMAIN conns : IdFromOut(j)'
    BY <1>2 DEF Ordered, IdFromOut, Queue
  <2> QED BY <1>2, <2>1, <2>2
<1>5. ASSUME NEW j \in DOMAIN conns, NEW side \in Sides
      PROVE  Carries(j, side)'
  <2>1. ASSUME NEW a \in Node, NEW b \in Node, Flows(j, side, a, b)
        PROVE  Flows(j, side, a, b)'
    <3>1. InSequence(Queue(j, side), got[b][a], sent[a][b])'
      BY <1>2, <2>1 DEF Flows, Queue
    <3>2. ASSUME Uses(a, b, EndOf(j, side))
          PROVE  Uses(a, b, EndOf(j, side))'
      <4>1. \A d \in ToSet(channels[a]) : PeerId(d)' = PeerId(d)
        <5>1. \A d \in ToSet(channels[a]) : conns'[d.conn].known = conns[d.conn].known
          BY <1>2 DEF EndsOwned
        <5> QED BY <1>3, <5>1, PeerIdKept
      <4> QED BY <3>2, <4>1, UsesSame
    <3>3. Queue(j, side)' = Queue(j, side)
      BY <1>2 DEF Queue
    <3> QED BY <2>1, <3>1, <3>2, <3>3 DEF Flows
  <2> QED BY <1>3, <2>1, CarriesKept DEF Ordered
<1>6. ASSUME NEW side \in Sides
      PROVE  Carries(k, side)'
  <2>1. Queue(k, side)' = <<>>
    BY <1>2
  <2>2. \A g, last : InSequence(<<>>, g, last) /\ ~Unread(<<>>)
    BY SequenceEmpty
  <2> QED BY <2>1, <2>2 DEF Carries, Flows
<1> QED BY <1>1, <1>2, <1>4, <1>5, <1>6 DEF Ordered

\* The channel of a connection that was made sends the id.
LEMMA AddOutgoingStep ==
  ASSUME TypeOK, \A m \in Node : EndsOwned(m), Ordered, NEW n \in Node, NEW k \in making[n],
         AddOutgoing(n, k)
  PROVE  Ordered'
<1>1. k \in DOMAIN conns /\ Owner(k, "out") = n
  BY DEF EndsOwned
<1>2. /\ Changes(k, "out", Append(Queue(k, "out"), 0), conns[k].known)
      /\ channels' = [channels EXCEPT ![n] = Append(channels[n], EndOf(k, "out"))]
      /\ EndOf(k, "out") \in End
  BY <1>1, AddOutgoingFacts
<1>3. SameNodes /\ DOMAIN conns' = DOMAIN conns
  BY <1>2, SameNodesBy DEF Changes
<1>4. UNCHANGED <<got, sent, overtaken>>
  BY DEF AddOutgoing
<1>5. \A a, b \in Node : GotInOrder(a, b)'
  BY <1>4, OrderKept DEF Ordered
<1>6. /\ \A j \in DOMAIN conns : conns'[j].known = conns[j].known
      /\ \A j \in DOMAIN conns, s \in Sides :
           Queue(j, s)' = IF j = k /\ s = "out" THEN Append(Queue(k, "out"), 0) ELSE Queue(j, s)
  BY <1>2 DEF Changes
<1>7. \A j \in DOMAIN conns' : IdFromOut(j)'
  BY <1>3, <1>6 DEF Ordered, IdFromOut, Sides
<1>8. ASSUME NEW j \in DOMAIN conns, NEW side \in Sides
      PROVE  Carries(j, side)'
  <2>1. ASSUME NEW a \in Node, NEW b \in Node, Flows(j, side, a, b)
        PROVE  Flows(j, side, a, b)'
    <3>1. PICK q \in Seq(0 .. MaxSent) : q = Queue(j, side)
      BY FlowTypes
    <3>2. PICK r : r = Queue(j, side)' /\ (r = q \/ r = Append(q, 0))
      BY <1>6, <3>1
    <3>3. InSequence(q, got[b][a], sent[a][b]) /\ (Unread(q) => Uses(a, b, EndOf(j, side)))
      BY <2>1, <3>1 DEF Flows
    <3>4. sent[a][b] \in Nat
      BY FlowTypes
    <3>5. InSequence(r, got[b][a], sent[a][b]) /\ (Unread(r) => Unread(q))
      BY <3>2, <3>3, <3>4, SequenceId
    <3>6. ASSUME Uses(a, b, EndOf(j, side))
          PROVE  Uses(a, b, EndOf(j, side))'
      <4>1. \A d \in ToSet(channels[a]) : PeerId(d)' = PeerId(d)
        <5>1. \A d \in ToSet(channels[a]) : conns'[d.conn].known = conns[d.conn].known
          BY <1>6 DEF EndsOwned
        <5> QED BY <1>3, <5>1, PeerIdKept
      <4>2. CASE a = n
        <5>1. channels'[a] = Append(channels[a], EndOf(k, "out"))
          BY <1>2, <4>2, ChannelAdded
        <5> QED BY <1>2, <3>6, <4>1, <5>1, UsesAdded
      <4>3. CASE a # n
        <5>1. channels'[a] = channels[a]
          BY <1>2, <4>3, ChannelAdded
        <5> QED BY <3>6, <4>1, <5>1, UsesSame
      <4> QED BY <4>2, <4>3
    <3> QED BY <1>4, <3>2, <3>3, <3>5, <3>6 DEF Flows
  <2> QED BY <1>3, <1>4, <2>1, CarriesKept DEF Ordered
<1> QED BY <1>3, <1>5, <1>7, <1>8 DEF Ordered

\* A channel that is accepted comes last, and its id may have been read.
LEMMA PeerConnectStep ==
  ASSUME TypeOK, \A m \in Node : EndsOwned(m), Ordered, NEW n \in Node, Phases(n), PeerConnect(n)
  PROVE  Ordered'
<1>1. PICK k \in DOMAIN conns, q \in Seq(0 .. MaxSent), known \in BOOLEAN :
           /\ backlog[n] # <<>> /\ k = Head(backlog[n])
           /\ Changes(k, "out", q, known)
           /\ \/ q = Queue(k, "out")
              \/ Queue(k, "out") # <<>> /\ q = Tail(Queue(k, "out"))
           /\ channels' = [channels EXCEPT ![n] = Append(channels[n], EndOf(k, "in"))]
           /\ EndOf(k, "in") \in End
  BY PeerConnectFacts
<1>2. Waits(n, k) /\ Owner(k, "in") = n
  <2>1. backlog[n] \in Seq(1 .. MaxConns)
    BY DEF TypeOK
  <2>2. k \in ToSet(backlog[n])
    BY <1>1, <2>1, ToSetTail DEF EndsOwned
  <2> QED BY <2>2 DEF Waits, EndsOwned
<1>3. SameNodes /\ DOMAIN conns' = DOMAIN conns
  BY <1>1, SameNodesBy DEF Changes
<1>4. UNCHANGED <<got, sent, overtaken>>
  BY DEF PeerConnect
<1>5. \A a, b \in Node : GotInOrder(a, b)'
  BY <1>4, OrderKept DEF Ordered
<1>6. /\ \A j \in DOMAIN conns : j # k => conns'[j].known = conns[j].known
      /\ \A j \in DOMAIN conns, s \in Sides :
           Queue(j, s)' = IF j = k /\ s = "out" THEN q ELSE Queue(j, s)
  BY <1>1 DEF Changes
<1>7. \A j \in DOMAIN conns' : IdFromOut(j)'
  BY <1>3, <1>6 DEF Ordered, IdFromOut, Sides
<1>8. ASSUME NEW a \in Node, NEW d \in ToSet(channels[a])
      PROVE  PeerId(d)' = PeerId(d)
  <2>1. CASE d.conn # k
    BY <1>3, <1>6, <2>1, PeerIdKept DEF EndsOwned
  <2>2. CASE d.conn = k
    <3>1. d.side \in Sides /\ Owner(k, d.side) = a
      BY <2>2, EndType DEF EndsOwned
    <3>2. d.side # "in"
      <4>1. ASSUME d.side = "in"
            PROVE  FALSE
        <5>1. a = n
          BY <1>2, <3>1, <4>1
        <5> QED BY <1>2, <2>2, <4>1, <5>1 DEF EndsOwned
      <4> QED BY <4>1
    <3>3. d.side = "out" /\ conns'[d.conn].to = conns[d.conn].to
      BY <1>1, <2>2, <3>1, <3>2 DEF Sides, Changes
    <3> QED BY <3>3 DEF PeerId, Peer
  <2> QED BY <2>1, <2>2
<1>9. ASSUME NEW j \in DOMAIN conns, NEW side \in Sides
      PROVE  Carries(j, side)'
  <2>1. ASSUME NEW a \in Node, NEW b \in Node, Flows(j, side, a, b)
        PROVE  Flows(j, side, a, b)'
    <3>1. PICK c \in Seq(0 .. MaxSent) : c = Queue(j, side)
      BY FlowTypes
    <3>2. PICK r : r = Queue(j, side)' /\ (r = c \/ (c # <<>> /\ r = Tail(c)))
      BY <1>1, <1>6, <3>1
    <3>3. InSequence(c, got[b][a], sent[a][b]) /\ (Unread(c) => Uses(a, b, EndOf(j, side)))
      BY <2>1, <3>1 DEF Flows
    <3>4. InSequence(r, got[b][a], sent[a][b]) /\ (Unread(r) => Unread(c))
      BY <3>2, <3>3, SequenceTail
    <3>5. ASSUME Uses(a, b, EndOf(j, side))
          PROVE  Uses(a, b, EndOf(j, side))'
      <4>1. CASE a = n
        <5>1. channels'[a] = Append(channels[a], EndOf(k, "in"))
          BY <1>1, <4>1, ChannelAdded
        <5> QED BY <1>1, <1>8, <3>5, <5>1, UsesAdded
      <4>2. CASE a # n
        <5>1. channels'[a] = channels[a]
          BY <1>1, <4>2, ChannelAdded
        <5> QED BY <1>8, <3>5, <5>1, UsesSame
      <4> QED BY <4>1, <4>2
    <3> QED BY <1>4, <3>2, <3>3, <3>4, <3>5 DEF Flows
  <2> QED BY <1>3, <1>4, <2>1, CarriesKept DEF Ordered
<1> QED BY <1>3, <1>5, <1>7, <1>9 DEF Ordered

\* A message is sent on the channel in use, after those that are there.
LEMMA SendStep ==
  ASSUME TypeOK, \A m \in Node : EndsOwned(m), Ordered, NEW n \in Node, NEW p \in Node,
         SendMessageToPeer(n, p)
  PROVE  Ordered'
<1>1. /\ sent' = [sent EXCEPT ![n] = [sent[n] EXCEPT ![p] = sent[n][p] + 1]]
      /\ sent[n][p] \in Nat /\ sent[n][p] + 1 \in 0 .. MaxSent
  BY SendFacts
<1>2. UNCHANGED <<channels, got, overtaken>>
  BY DEF SendMessageToPeer
<1>3. /\ \A a, b \in Node : sent'[a][b] = IF a = n /\ b = p THEN sent[n][p] + 1 ELSE sent[a][b]
      /\ \A a, b \in Node : sent[a][b] \in Nat
  <2>1. sent \in [Node -> [Node -> 0 .. MaxSent]]
    BY DEF TypeOK
  <2>2. \A a, b \in Node : sent[a][b] \in Nat
    BY <2>1, BoundAssumption
  <2>3. PICK x : x = sent[n][p] + 1
    OBVIOUS
  <2>4. sent' = [sent EXCEPT ![n] = [sent[n] EXCEPT ![p] = x]]
    BY <1>1, <2>3
  <2>5. \A a, b \in Node : sent'[a][b] = IF a = n /\ b = p THEN x ELSE sent[a][b]
    BY <2>1, <2>4
  <2> QED BY <2>2, <2>3, <2>5
<1>4. ASSUME NEW a \in Node, NEW b \in Node
      PROVE  GotInOrder(a, b)'
  <2>1. got[b][a] \in Seq(1 .. MaxSent)
    BY DEF TypeOK
  <2>2. \A i \in DOMAIN got[b][a] : got[b][a][i] \in Nat
    BY <2>1, BoundAssumption, LenProperties, ElementOfSeq
  <2>3. \A i \in DOMAIN got[b][a] : got[b][a][i] <= sent[a][b] => got[b][a][i] <= sent'[a][b]
    <3>1. sent[a][b] \in Nat /\ (sent'[a][b] = sent[a][b] + 1 \/ sent'[a][b] = sent[a][b])
      BY <1>3
    <3> QED BY <2>2, <3>1
  <2> QED BY <1>2, <2>3 DEF GotInOrder, Ordered
<1>5. CASE UNCHANGED conns
  <2>1. SameNodes
    BY <1>5, SameNodesBy
  <2>2. \A k \in DOMAIN conns' : IdFromOut(k)'
    BY <1>5 DEF Ordered, IdFromOut, Queue
  <2>3. ASSUME NEW j \in DOMAIN conns, NEW side \in Sides
        PROVE  Carries(j, side)'
    <3>1. ASSUME NEW a \in Node, NEW b \in Node, Flows(j, side, a, b)
          PROVE  Flows(j, side, a, b)'
      <4>1. PICK q \in Seq(0 .. MaxSent) : q = Queue(j, side)
        BY FlowTypes
      <4>2. InSequence(q, got[b][a], sent[a][b])
        BY <3>1, <4>1 DEF Flows
      <4>3. InSequence(q, got[b][a], sent'[a][b])
        BY <1>3, <4>2, SequenceRaise
      <4>4. q = Queue(j, side)'
        BY <1>5, <4>1 DEF Queue
      <4>5. Uses(a, b, EndOf(j, side)) => Uses(a, b, EndOf(j, side))'
        BY <1>2, <1>5 DEF Uses, PeerId, Peer
      <4> QED BY <1>2, <3>1, <4>1, <4>3, <4>4, <4>5 DEF Flows
    <3> QED BY <1>2, <2>1, <3>1, CarriesKept DEF Ordered
  <2> QED BY <1>4, <1>5, <2>2, <2>3 DEF Ordered
<1>6. ASSUME NEW k \in DOMAIN conns, NEW s \in Sides, Uses(n, p, EndOf(k, s)),
             Changes(k, s, Append(Queue(k, s), sent[n][p] + 1), conns[k].known)
      PROVE  Ordered'
  <2>1. SameNodes /\ DOMAIN conns' = DOMAIN conns
    BY <1>6, SameNodesBy DEF Changes
  <2>2. Owner(k, s) = n /\ Owner(k, Other(s)) = p
    BY <1>6, UsedOwner
  <2>3. /\ \A j \in DOMAIN conns : conns'[j].known = conns[j].known
        /\ \A j \in DOMAIN conns, t \in Sides :
             Queue(j, t)' = IF j = k /\ t = s THEN Append(Queue(k, s), sent[n][p] + 1)
                            ELSE Queue(j, t)
    BY <1>6 DEF Changes
  <2>4. ASSUME NEW j \in DOMAIN conns
        PROVE  IdFromOut(j)'
    <3>1. IdFromOut(j)
      BY DEF Ordered
    <3>2. CASE j = k /\ s = "in"
      <4>1. PICK q \in Seq(0 .. MaxSent) : q = Queue(k, s)
        BY <3>2, FlowTypes
      <4>2. PICK x \in 0 .. MaxSent : x = sent[n][p] + 1 /\ x # 0
        BY <1>1
      <4>3. Queue(j, "in")' = Append(q, x)
        BY <2>3, <3>2, <4>1, <4>2
      <4>4. \A i \in DOMAIN q : q[i] # 0
        BY <3>1, <3>2, <4>1 DEF IdFromOut
      <4>5. \A i \in DOMAIN Append(q, x) : Append(q, x)[i] # 0
        BY <4>2, <4>4, SequenceAppend
      <4> QED BY <4>3, <4>5 DEF IdFromOut
    <3>3. CASE ~(j = k /\ s = "in")
      <4>1. Queue(j, "in")' = Queue(j, "in")
        BY <2>3, <3>3 DEF Sides
      <4> QED BY <3>1, <4>1 DEF IdFromOut
    <3> QED BY <3>2, <3>3
  <2>5. \A a \in Node : \A d \in ToSet(channels[a]) : PeerId(d)' = PeerId(d)
    BY <2>1, <2>3, PeerIdKept DEF EndsOwned
  <2>6. ASSUME NEW j \in DOMAIN conns, NEW side \in Sides
        PROVE  Carries(j, side)'
    <3>1. ASSUME NEW a \in Node, NEW b \in Node, a = Owner(j, side), b = Owner(j, Other(side)),
                 <<a, b>> \notin overtaken', Flows(j, side, a, b)
          PROVE  Flows(j, side, a, b)'
      <4>1. PICK q \in Seq(0 .. MaxSent) : q = Queue(j, side)
        BY FlowTypes
      <4>2. InSequence(q, got[b][a], sent[a][b]) /\ (Unread(q) => Uses(a, b, EndOf(j, side)))
        BY <3>1, <4>1 DEF Flows
      <4>3. Uses(a, b, EndOf(j, side)) => Uses(a, b, EndOf(j, side))'
        BY <1>2, <2>5, UsesSame
      <4>4. CASE j = k /\ side = s
        <5>1. a = n /\ b = p
          BY <2>2, <3>1, <4>4
        <5>2. Queue(j, side)' = Append(q, sent[n][p] + 1) /\ sent'[a][b] = sent[n][p] + 1
          BY <1>3, <2>3, <4>1, <4>4, <5>1
        <5>3. \A i \in DOMAIN got[p][n] : got[p][n][i] <= sent[n][p]
          BY <1>2, <3>1, <5>1 DEF Ordered, GotInOrder
        <5>4. got[p][n] \in Seq(1 .. MaxSent)
          BY DEF TypeOK
        <5>5. InSequence(Append(q, sent[n][p] + 1), got[p][n], sent[n][p] + 1)
          BY <1>1, <4>2, <5>1, <5>3, <5>4, SequencePush
        <5>6. Uses(a, b, EndOf(j, side))'
          BY <1>6, <4>3, <4>4, <5>1
        <5> QED BY <1>2, <5>1, <5>2, <5>5, <5>6 DEF Flows
      <4>5. CASE ~(j = k /\ side = s)
        <5>1. Queue(j, side)' = q
          BY <2>3, <4>1, <4>5
        <5>2. InSequence(q, got[b][a], sent'[a][b])
          BY <1>3, <4>2, SequenceRaise
        <5> QED BY <1>2, <4>2, <4>3, <5>1, <5>2 DEF Flows
      <4> QED BY <4>4, <4>5
    <3> QED BY <1>2, <2>1, <3>1, CarriesKept DEF Ordered
  <2> QED BY <1>4, <2>1, <2>4, <2>6 DEF Ordered
<1> QED BY <1>5, <1>6, SendFacts

\* When its id is read a channel can come to be the one in use: only if no
\* message is left in the one that was.
LEMMA ReadableUses ==
  ASSUME TypeOK, \A m \in Node : EndsOwned(m), NEW n \in Node, NEW k \in DOMAIN conns,
         NEW side \in Sides, EndOf(k, side) \in ToSet(channels[n]), IdFromOut(k),
         Readable(n, EndOf(k, side)), NEW a \in Node, NEW b \in Node,
         NEW j \in DOMAIN conns, NEW s \in Sides, Uses(a, b, EndOf(j, s)),
         Unread(Queue(j, s)), <<a, b>> \notin overtaken'
  PROVE  Uses(a, b, EndOf(j, s))'
<1> DEFINE e == EndOf(k, side)
<1>1. /\ Queue(k, Other(side)) # <<>> /\ Queue(k, Other(side)) \in Seq(0 .. MaxSent)
      /\ Changes(k, Other(side), Tail(Queue(k, Other(side))),
                 conns[k].known \/ Head(Queue(k, Other(side))) = 0)
  BY ReadableFacts
<1>2. SameNodes
  BY <1>1, SameNodesBy DEF Changes
<1>3. channels' = channels
  BY DEF Readable
<1>4. e.conn = k /\ e.side = side /\ Peer(e) = Owner(k, Other(side)) /\ Owner(k, side) = n
  BY PeerOwns DEF EndsOwned
<1>5. /\ \A i \in DOMAIN conns : i # k => conns'[i].known = conns[i].known
      /\ conns'[k].known = (conns[k].known \/ Head(Queue(k, Other(side))) = 0)
      /\ conns'[k].from = conns[k].from /\ conns'[k].to = conns[k].to
  BY <1>1 DEF Changes
<1>6. CASE conns'[k].known = conns[k].known
  <2>1. \A d \in ToSet(channels[a]) : PeerId(d)' = PeerId(d)
    BY <1>2, <1>5, <1>6, PeerIdKept DEF EndsOwned
  <2> QED BY <1>3, <2>1, UsesSame
<1>7. CASE conns'[k].known # conns[k].known
  <2>1. conns[k].known = FALSE /\ Head(Queue(k, Other(side))) = 0
    BY <1>5, <1>7, ConnFacts
  <2>2. side = "in"
    <3>1. ASSUME side = "out"
          PROVE  FALSE
      <4>1. PICK q \in Seq(0 .. MaxSent) : q = Queue(k, "in") /\ q # <<>> /\ Head(q) = 0
        BY <1>1, <2>1, <3>1, SideFacts
      <4>2. 1 \in DOMAIN q /\ q[1] = 0
        BY <4>1, TailFacts, LenProperties
      <4> QED BY <4>1, <4>2 DEF IdFromOut
    <3> QED BY <3>1 DEF Sides
  <2>3. PeerId(e) = Nobody
    BY <1>4, <2>1, <2>2 DEF PeerId
  <2>4. Peer(e) \in Node
    BY <1>4, OwnerFacts
  <2>5. PeerId(e)' = Peer(e)
    BY <1>4, <1>5, <2>1, <2>2 DEF PeerId, Peer
  <2>6. ASSUME NEW d \in ToSet(channels[a]), d # e
        PROVE  PeerId(d)' = PeerId(d)
    <3>1. /\ d.conn \in DOMAIN conns /\ Owner(d.conn, d.side) = a /\ d.side \in Sides
          /\ d = EndOf(d.conn, d.side)
      BY EndType DEF EndsOwned
    <3>2. CASE d.conn # k
      BY <1>2, <1>5, <3>1, <3>2, PeerIdKept
    <3>3. CASE d.conn = k
      <4>1. d.side = "out"
        BY <2>2, <2>6, <3>1, <3>3 DEF Sides
      <4> QED BY <1>5, <3>3, <4>1 DEF PeerId, Peer
    <3> QED BY <3>2, <3>3
  <2>7. CASE a # n
    <3>1. \A d \in ToSet(channels[a]) : d # e
      BY <1>4, <2>7 DEF EndsOwned
    <3> QED BY <1>3, <2>6, <3>1, UsesSame
  <2>8. CASE a = n
    <3>1. PICK d : d = EndOf(j, s)
      OBVIOUS
    <3>2. PICK l \in DOMAIN channels[n] :
            /\ channels[n][l] = d /\ PeerId(d) = b
            /\ \A i \in 1 .. (l - 1) : PeerId(channels[n][i]) # b
      BY <2>8, <3>1 DEF Uses
    <3>3. PICK c \in Seq(End) : c = channels[n] /\ c = channels'[n]
      BY <1>3 DEF TypeOK
    <3>4. DOMAIN c = 1 .. Len(c) /\ Len(c) \in Nat
      BY <3>3, LenProperties
    <3>5. d # e
      BY <2>3, <3>2, NobodyAssumption
    <3>6. d \in ToSet(channels[n]) /\ PeerId(d)' = b
      BY <2>6, <2>8, <3>2, <3>5 DEF ToSet
    <3>7. ASSUME NEW i \in 1 .. (l - 1)
          PROVE  PeerId(c[i])' # b
      <4>1. i \in DOMAIN c /\ i < l /\ c[i] \in ToSet(channels[n]) /\ PeerId(c[i]) # b
        <5>1. i \in DOMAIN c /\ i < l
          BY <3>2, <3>3, <3>4
        <5>2. c[i] \in ToSet(channels[n])
          BY <3>3, <5>1 DEF ToSet
        <5> QED BY <3>2, <3>3, <5>1, <5>2
      <4>2. CASE c[i] # e
        BY <2>6, <2>8, <4>1, <4>2
      <4>3. CASE c[i] = e /\ Peer(e) # b
        BY <2>5, <4>3
      <4>4. CASE c[i] = e /\ Peer(e) = b
        <5>1. l \in ChannelsTo(n, b)
          BY <3>2 DEF ChannelsTo
        <5>2. PICK h : h = Min(ChannelsTo(n, b))
          OBVIOUS
        <5>3. h \in ChannelsTo(n, b) /\ h <= l
          BY <5>1, <5>2, FirstPlace
        <5>4. h \in DOMAIN c /\ PeerId(c[h]) = b
          BY <3>3, <5>3 DEF ChannelsTo
        <5>5. h = l
          BY <3>2, <3>3, <3>4, <5>3, <5>4
        <5>6. ComesBefore(n, e)
          BY <3>3, <4>1, <4>4, <5>1, <5>2, <5>5 DEF ComesBefore
        <5>7. GetChannelByPeerId(n, b) = d
          BY <3>2, <5>2, <5>5 DEF GetChannelByPeerId
        <5>8. overtaken' = Leave(n, d)
          BY <4>4, <5>6, <5>7 DEF Readable
        <5>9. Peer(d) = b /\ d.conn = j /\ d.side = s
          <6>1. Uses(n, b, EndOf(j, s))
            BY <2>8
          <6> QED BY <3>1, <6>1, UsedOwner, PeerOwns
        <5>10. <<n, b>> \in Leave(n, d)
          <6>1. \E x \in DOMAIN conns[d.conn].queue[d.side] : conns[d.conn].queue[d.side][x] # 0
            BY <5>9 DEF Unread, Queue
          <6> QED BY <5>9, <6>1, LeaveFacts
        <5> QED BY <2>8, <5>8, <5>10
      <4> QED BY <4>2, <4>3, <4>4
    <3>8. l \in DOMAIN c /\ c[l] = d
      BY <3>2, <3>3
    <3> QED BY <2>8, <3>1, <3>3, <3>6, <3>7, <3>8 DEF Uses
  <2> QED BY <2>7, <2>8
<1> QED BY <1>6, <1>7

\* A message is read: it comes after those that were delivered, and no other
\* channel has one for the same node.
LEMMA ReadableStep ==
  ASSUME TypeOK, \A m \in Node : EndsOwned(m), Ordered, NEW n \in Node,
         NEW e \in ToSet(channels[n]), Readable(n, e)
  PROVE  Ordered'
<1>1. PICK k \in DOMAIN conns, side \in Sides :
        /\ e = EndOf(k, side) /\ HasChannel(n, e) /\ Owner(k, side) = n
        /\ Owner(k, Other(side)) \in Node /\ Other(side) \in Sides
  BY ChannelFacts
<1>2. PICK p \in Node : p = Owner(k, Other(side))
  BY <1>1
<1>3. PICK o \in Sides : o = Other(side) /\ Other(o) = side
  BY <1>1, PeerOwns
<1>4. PICK q \in Seq(0 .. MaxSent) : q = Queue(k, o)
  BY <1>3, FlowTypes
<1>5. PICK m : m = Head(q)
  OBVIOUS
<1>6. /\ q # <<>> /\ Changes(k, o, Tail(q), conns[k].known \/ m = 0)
      /\ got' = IF m # 0 /\ phase[n] = "up"
                  THEN [got EXCEPT ![n] = [got[n] EXCEPT ![p] = Append(got[n][p], m)]]
                  ELSE got
  BY <1>1, <1>2, <1>3, <1>4, <1>5, ReadableFacts
<1>7. m \in 0 .. MaxSent
  BY <1>5, <1>6, TailFacts
<1>8. SameNodes /\ DOMAIN conns' = DOMAIN conns
      /\ \A j \in DOMAIN conns, s \in Sides :
           Queue(j, s)' = IF j = k /\ s = o THEN Tail(q) ELSE Queue(j, s)
  BY <1>6, SameNodesBy DEF Changes
<1>9. sent' = sent
  BY DEF Readable
<1>10. overtaken \subseteq overtaken'
  <2>1. CASE ComesBefore(n, e)
    <3>1. Peer(e) = p
      BY <1>1, <1>2, PeerOwns
    <3>2. ChannelsTo(n, p) # {}
      BY <2>1, <3>1 DEF ComesBefore
    <3>3. PICK d : d = GetChannelByPeerId(n, p)
      OBVIOUS
    <3>4. d \in ToSet(channels[n])
      BY <3>2, <3>3, UsedFound, UsesFacts DEF HasChannel
    <3>5. Peer(d) \in Node
      BY <3>4, ChannelFacts
    <3>6. overtaken' = Leave(n, d)
      BY <2>1, <3>1, <3>3 DEF Readable
    <3> QED BY <3>5, <3>6, LeaveFacts
  <2>2. CASE ~ComesBefore(n, e)
    BY <2>2 DEF Readable
  <2> QED BY <2>1, <2>2
<1>11. <<p, n>> \notin overtaken => Flows(k, o, p, n) /\ GotInOrder(p, n)
  BY <1>1, <1>2, <1>3 DEF Ordered, Carries
<1>12. \A a, b \in Node : got'[b][a] = IF m # 0 /\ phase[n] = "up" /\ b = n /\ a = p
                                       THEN Append(got[n][p], m) ELSE got[b][a]
  <2>1. got \in [Node -> [Node -> Seq(1 .. MaxSent)]]
    BY DEF TypeOK
  <2>2. PICK g : g = Append(got[n][p], m)
    OBVIOUS
  <2>3. CASE m # 0 /\ phase[n] = "up"
    <3>1. got' = [got EXCEPT ![n] = [got[n] EXCEPT ![p] = g]]
      BY <1>6, <2>2, <2>3
    <3>2. \A a, b \in Node : got'[b][a] = IF b = n /\ a = p THEN g ELSE got[b][a]
      BY <2>1, <3>1
    <3> QED BY <2>2, <2>3, <3>2
  <2>4. CASE ~(m # 0 /\ phase[n] = "up")
    BY <1>6, <2>4
  <2> QED BY <2>3, <2>4
<1>13. got[n][p] \in Seq(1 .. MaxSent) /\ sent[p][n] \in Nat
  BY FlowTypes
<1>14. ASSUME m # 0, <<p, n>> \notin overtaken
       PROVE  /\ InSequence(Tail(q), Append(got[n][p], m), sent[p][n])
              /\ Unread(q) /\ m <= sent[p][n] /\ \A j \in DOMAIN got[n][p] : got[n][p][j] < m
  <2>1. InSequence(q, got[n][p], sent[p][n])
    BY <1>4, <1>11, <1>14 DEF Flows
  <2> QED BY <1>5, <1>6, <1>13, <1>14, <2>1, SequenceDeliver
<1>15. ASSUME NEW a \in Node, NEW b \in Node
       PROVE  GotInOrder(a, b)'
  <2> SUFFICES ASSUME <<a, b>> \notin overtaken'
               PROVE  \A j \in DOMAIN got'[b][a] :
                        /\ got'[b][a][j] <= sent[a][b]
                        /\ \A i \in DOMAIN got'[b][a] : i < j => got'[b][a][i] < got'[b][a][j]
    BY <1>9 DEF GotInOrder
  <2>1. \A j \in DOMAIN got[b][a] :
          /\ got[b][a][j] <= sent[a][b]
          /\ \A i \in DOMAIN got[b][a] : i < j => got[b][a][i] < got[b][a][j]
    BY <1>10 DEF Ordered, GotInOrder
  <2>2. CASE got'[b][a] = got[b][a]
    BY <2>1, <2>2
  <2>3. CASE m # 0 /\ b = n /\ a = p /\ got'[b][a] = Append(got[n][p], m)
    <3>1. m <= sent[p][n] /\ \A j \in DOMAIN got[n][p] : got[n][p][j] < m
      BY <1>10, <1>14, <2>3
    <3>2. PICK g \in Seq(1 .. MaxSent) : g = got[n][p]
      BY <1>13
    <3>3. PICK h : h = Append(g, m)
      OBVIOUS
    <3>4. m \in 1 .. MaxSent
      BY <1>7, <2>3, BoundAssumption
    <3>5. /\ h \in Seq(1 .. MaxSent) /\ Len(g) \in Nat /\ Len(h) = Len(g) + 1
          /\ \A j \in 1 .. Len(g) : h[j] = g[j]
          /\ h[Len(g) + 1] = m
      BY <3>3, <3>4, AppendFacts
    <3>6. DOMAIN h = 1 .. (Len(g) + 1) /\ DOMAIN g = 1 .. Len(g)
      BY <3>5, LenProperties
    <3>7. \A j \in DOMAIN h : \/ j \in DOMAIN g /\ h[j] = g[j]
                              \/ j = Len(g) + 1 /\ h[j] = m
      BY <3>5, <3>6
    <3>8. ASSUME NEW j \in DOMAIN h
          PROVE  /\ h[j] <= sent[p][n]
                 /\ \A i \in DOMAIN h : i < j => h[i] < h[j]
      <4>1. CASE j \in DOMAIN g /\ h[j] = g[j]
        <5>1. \A i \in DOMAIN h : i < j => i \in DOMAIN g /\ h[i] = g[i]
          BY <3>5, <3>6, <4>1
        <5> QED BY <2>1, <2>3, <3>2, <4>1, <5>1
      <4>2. CASE j = Len(g) + 1 /\ h[j] = m
        <5>1. \A i \in DOMAIN h : i < j => i \in DOMAIN g /\ h[i] = g[i]
          BY <3>5, <3>6, <4>2
        <5> QED BY <3>1, <3>2, <4>2, <5>1
      <4> QED BY <3>7, <4>1, <4>2
    <3> QED BY <2>3, <3>2, <3>3, <3>8
  <2> QED BY <1>12, <2>2, <2>3
<1>16. \A j \in DOMAIN conns' : IdFromOut(j)'
  <2> SUFFICES ASSUME NEW j \in DOMAIN conns
               PROVE  IdFromOut(j)'
    BY <1>8
  <2>1. IdFromOut(j)
    BY DEF Ordered
  <2>2. CASE j = k /\ o = "in"
    <3>1. \A i \in DOMAIN q : q[i] # 0
      BY <1>4, <2>1, <2>2 DEF IdFromOut
    <3>2. \A i \in DOMAIN Tail(q) : Tail(q)[i] # 0
      BY <1>6, <3>1, SequenceTail
    <3>3. Queue(j, "in")' = Tail(q)
      BY <1>8, <2>2
    <3> QED BY <3>2, <3>3 DEF IdFromOut
  <2>3. CASE ~(j = k /\ o = "in")
    <3>1. Queue(j, "in")' = Queue(j, "in")
      BY <1>8, <2>3 DEF Sides
    <3> QED BY <2>1, <3>1 DEF IdFromOut
  <2> QED BY <2>2, <2>3
<1>17. ASSUME NEW j \in DOMAIN conns, NEW s \in Sides
       PROVE  Carries(j, s)'
  <2>1. ASSUME NEW a \in Node, NEW b \in Node, a = Owner(j, s), b = Owner(j, Other(s)),
               <<a, b>> \notin overtaken', Flows(j, s, a, b)
        PROVE  Flows(j, s, a, b)'
    <3>1. PICK c \in Seq(0 .. MaxSent) : c = Queue(j, s)
      BY FlowTypes
    <3>2. PICK r : r = Queue(j, s)' /\ r = IF j = k /\ s = o THEN Tail(q) ELSE c
      BY <1>8, <3>1
    <3>3. InSequence(c, got[b][a], sent[a][b]) /\ (Unread(c) => Uses(a, b, EndOf(j, s)))
          /\ sent[a][b] \in Nat
      BY <2>1, <3>1, FlowTypes DEF Flows
    <3>4. Unread(r) => Unread(c)
      <4>1. CASE j = k /\ s = o
        <5>1. r = Tail(q) /\ c = q
          BY <1>4, <3>1, <3>2, <4>1
        <5> QED BY <1>6, <5>1, SequenceTail
      <4>2. CASE ~(j = k /\ s = o)
        BY <3>2, <4>2
      <4> QED BY <4>1, <4>2
    <3>5. Unread(c) => Uses(a, b, EndOf(j, s))'
      <4> SUFFICES ASSUME Unread(c)
                   PROVE  Uses(a, b, EndOf(j, s))'
        OBVIOUS
      <4>1. Uses(a, b, EndOf(j, s)) /\ Unread(Queue(j, s))
        BY <3>1, <3>3
      <4>2. IdFromOut(k) /\ EndOf(k, side) \in ToSet(channels[n]) /\ Readable(n, EndOf(k, side))
        BY <1>1 DEF Ordered, HasChannel
      <4> QED BY <2>1, <4>1, <4>2, ReadableUses
    <3>6. InSequence(r, got'[b][a], sent[a][b])
      <4>1. CASE j = k /\ s = o
        <5>1. a = p /\ b = n /\ r = Tail(q) /\ c = q
          BY <1>1, <1>2, <1>3, <1>4, <2>1, <3>1, <3>2, <4>1
        <5>2. CASE got'[b][a] = got[b][a]
          BY <1>6, <3>3, <5>1, <5>2, SequenceTail
        <5>3. CASE m # 0 /\ got'[b][a] = Append(got[n][p], m)
          BY <1>10, <1>14, <2>1, <5>1, <5>3
        <5> QED BY <1>12, <5>2, <5>3
      <4>2. CASE ~(j = k /\ s = o)
        <5>1. r = c
          BY <3>2, <4>2
        <5>2. CASE got'[b][a] = got[b][a]
          BY <3>3, <5>1, <5>2
        <5>3. CASE m # 0 /\ a = p /\ b = n
          <6>1. <<p, n>> \notin overtaken
            BY <1>10, <2>1, <5>3
          <6>2. Unread(Queue(k, o))
            BY <1>4, <1>14, <5>3, <6>1
          <6>3. Uses(p, n, EndOf(k, o))
            BY <1>11, <6>1, <6>2 DEF Flows
          <6>4. ASSUME Unread(c)
                PROVE  FALSE
            <7>1. Uses(p, n, EndOf(j, s))
              BY <3>3, <5>3, <6>4
            <7>2. EndOf(j, s) = EndOf(k, o)
              BY <6>3, <7>1, UsedOnce
            <7> QED BY <4>2, <7>2, SameEnd
          <6> QED BY <3>3, <5>1, <6>4, SequenceRead
        <5> QED BY <1>12, <5>2, <5>3
      <4> QED BY <4>1, <4>2
    <3> QED BY <1>9, <3>2, <3>4, <3>5, <3>6 DEF Flows
  <2> QED BY <1>8, <1>10, <2>1, CarriesKept DEF Ordered
<1> QED BY <1>8, <1>15, <1>16, <1>17 DEF Ordered

\* A channel is removed: what it had yet to bring is lost, with the order.
LEMMA DisconnectStep ==
  ASSUME TypeOK, \A m \in Node : EndsOwned(m), Ordered, NEW n \in Node,
         NEW e \in ToSet(channels[n]), PeerDisconnect(n, e)
  PROVE  Ordered'
<1>1. PICK k \in DOMAIN conns, side \in Sides :
        /\ e = EndOf(k, side) /\ e.conn = k /\ e.side = side /\ Owner(k, side) = n
        /\ Peer(e) = Owner(k, Other(side)) /\ Owner(k, Other(side)) \in Node
        /\ Other(side) \in Sides
  BY ChannelFacts
<1>2. /\ Changes(k, Other(side), <<>>, conns[k].known)
      /\ channels' = [channels EXCEPT ![n] = RemoveFirst(channels[n], e)]
      /\ overtaken' = Leave(n, e)
  BY <1>1, DisconnectFacts
<1>3. SameNodes /\ DOMAIN conns' = DOMAIN conns
      /\ (\A j \in DOMAIN conns : conns'[j].known = conns[j].known)
      /\ \A j \in DOMAIN conns, s \in Sides :
           Queue(j, s)' = IF j = k /\ s = Other(side) THEN <<>> ELSE Queue(j, s)
  BY <1>2, SameNodesBy DEF Changes
<1>4. UNCHANGED <<got, sent>>
  BY DEF PeerDisconnect
<1>5. /\ overtaken \subseteq overtaken'
      /\ Unread(Queue(k, side)) => <<n, Peer(e)>> \in overtaken'
  BY <1>1, <1>2, LeaveFacts DEF Unread, Queue
<1>6. \A a, b \in Node : GotInOrder(a, b)'
  BY <1>4, <1>5, OrderKept DEF Ordered
<1>7. \A j \in DOMAIN conns' : IdFromOut(j)'
  <2> SUFFICES ASSUME NEW j \in DOMAIN conns
               PROVE  IdFromOut(j)'
    BY <1>3
  <2>1. Queue(j, "in")' = <<>> \/ Queue(j, "in")' = Queue(j, "in")
    BY <1>3 DEF Sides
  <2> QED BY <2>1 DEF Ordered, IdFromOut
<1>8. \A a \in Node : \A d \in ToSet(channels[a]) : PeerId(d)' = PeerId(d)
  BY <1>3, PeerIdKept DEF EndsOwned
<1>9. ASSUME NEW j \in DOMAIN conns, NEW s \in Sides
      PROVE  Carries(j, s)'
  <2>1. ASSUME NEW a \in Node, NEW b \in Node, a = Owner(j, s), b = Owner(j, Other(s)),
               <<a, b>> \notin overtaken', Flows(j, s, a, b)
        PROVE  Flows(j, s, a, b)'
    <3>1. PICK q \in Seq(0 .. MaxSent) : q = Queue(j, s)
      BY FlowTypes
    <3>2. PICK r : r = Queue(j, s)' /\ (r = <<>> \/ r = q)
      BY <1>3, <3>1
    <3>3. InSequence(q, got[b][a], sent[a][b]) /\ (Unread(q) => Uses(a, b, EndOf(j, s)))
      BY <2>1, <3>1 DEF Flows
    <3>4. InSequence(r, got[b][a], sent[a][b])
      BY <3>2, <3>3, SequenceEmpty
    <3>5. Unread(r) => Unread(q)
      BY <3>2, SequenceEmpty
    <3>6. ASSUME Unread(q)
          PROVE  Uses(a, b, EndOf(j, s))'
      <4>1. Uses(a, b, EndOf(j, s))
        BY <3>3, <3>6
      <4>2. EndOf(j, s) # e
        <5>1. ASSUME EndOf(j, s) = e
              PROVE  FALSE
          <6>1. j = k /\ s = side
            BY <1>1, <5>1, SameEnd
          <6>2. <<n, Peer(e)>> \in overtaken'
            BY <1>5, <3>1, <3>6, <6>1
          <6> QED BY <1>1, <2>1, <6>1, <6>2
        <5> QED BY <5>1
      <4>3. CASE a = n
        <5>1. channels'[a] = RemoveFirst(channels[a], e)
          BY <1>2, <4>3 DEF TypeOK
        <5> QED BY <1>8, <4>1, <4>2, <4>3, <5>1, UsesRemoved DEF EndsOwned
      <4>4. CASE a # n
        <5>1. channels'[a] = channels[a]
          BY <1>2, <4>4 DEF TypeOK
        <5> QED BY <1>8, <4>1, <5>1, UsesSame
      <4> QED BY <4>3, <4>4
    <3> QED BY <1>4, <3>2, <3>4, <3>5, <3>6 DEF Flows
  <2> QED BY <1>3, <1>5, <2>1, CarriesKept DEF Ordered
<1> QED BY <1>3, <1>6, <1>7, <1>9 DEF Ordered

\* A process dies with its channels, and what was sent to it is lost.
LEMMA CrashStep ==
  ASSUME TypeOK, \A m \in Node : EndsOwned(m), Ordered, NEW n \in Node, Crash(n)
  PROVE  Ordered'
<1>1. SameNodes /\ DOMAIN conns' = DOMAIN conns
      /\ (\A j \in DOMAIN conns : conns'[j].known = conns[j].known)
      /\ \A j \in DOMAIN conns, s \in Sides :
           Queue(j, s)' = IF Owner(j, Other(s)) = n THEN <<>> ELSE Queue(j, s)
  BY CrashFacts, SameNodesBy
<1>2. UNCHANGED <<got, sent>>
  BY DEF Crash
<1>3. overtaken' = overtaken \cup UNION {Leave(n, e) : e \in ToSet(channels[n])}
  BY DEF Crash
<1>4. overtaken \subseteq overtaken'
  BY <1>3
<1>5. \A a, b \in Node : GotInOrder(a, b)'
  BY <1>2, <1>4, OrderKept DEF Ordered
<1>6. \A j \in DOMAIN conns' : IdFromOut(j)'
  <2> SUFFICES ASSUME NEW j \in DOMAIN conns
               PROVE  IdFromOut(j)'
    BY <1>1
  <2>1. Queue(j, "in")' = <<>> \/ Queue(j, "in")' = Queue(j, "in")
    BY <1>1 DEF Sides
  <2> QED BY <2>1 DEF Ordered, IdFromOut
<1>7. \A a \in Node : \A d \in ToSet(channels[a]) : PeerId(d)' = PeerId(d)
  BY <1>1, PeerIdKept DEF EndsOwned
<1>8. ASSUME NEW j \in DOMAIN conns, NEW s \in Sides
      PROVE  Carries(j, s)'
  <2>1. ASSUME NEW a \in Node, NEW b \in Node, a = Owner(j, s), b = Owner(j, Other(s)),
               <<a, b>> \notin overtaken', Flows(j, s, a, b)
        PROVE  Flows(j, s, a, b)'
    <3>1. PICK q \in Seq(0 .. MaxSent) : q = Queue(j, s)
      BY FlowTypes
    <3>2. PICK r : r = Queue(j, s)' /\ (r = <<>> \/ r = q)
      BY <1>1, <3>1
    <3>3. InSequence(q, got[b][a], sent[a][b]) /\ (Unread(q) => Uses(a, b, EndOf(j, s)))
      BY <2>1, <3>1 DEF Flows
    <3>4. InSequence(r, got[b][a], sent[a][b])
      BY <3>2, <3>3, SequenceEmpty
    <3>5. Unread(r) => Unread(q)
      BY <3>2, SequenceEmpty
    <3>6. ASSUME Unread(q)
          PROVE  Uses(a, b, EndOf(j, s))'
      <4>1. Uses(a, b, EndOf(j, s))
        BY <3>3, <3>6
      <4>2. CASE a = n
        <5>1. PICK e \in ToSet(channels[n]) : e = EndOf(j, s)
          BY <4>1, <4>2, UsesFacts DEF HasChannel
        <5>2. Peer(e) = b /\ b \in Node /\ e.conn = j /\ e.side = s
          BY <2>1, <5>1, PeerOwns
        <5>3. <<n, b>> \in Leave(n, e)
          BY <3>1, <3>6, <5>2, LeaveFacts DEF Unread, Queue
        <5> QED BY <1>3, <2>1, <4>2, <5>3
      <4>3. CASE a # n
        <5>1. channels'[a] = channels[a]
          BY <4>3 DEF Crash, TypeOK
        <5> QED BY <1>7, <4>1, <5>1, UsesSame
      <4> QED BY <4>2, <4>3
    <3> QED BY <1>2, <3>2, <3>4, <3>5, <3>6 DEF Flows
  <2> QED BY <1>1, <1>4, <2>1, CarriesKept DEF Ordered
<1> QED BY <1>1, <1>5, <1>6, <1>8 DEF Ordered

LEMMA OrderedNext ==
  ASSUME TypeOK, \A m \in Node : EndsOwned(m) /\ Phases(m), Ordered, Next
  PROVE  Ordered'
<1>1. ASSUME UNCHANGED <<conns, channels, got, sent, overtaken>>
      PROVE  Ordered'
  <2>1. SameNodes
    BY <1>1, SameNodesBy
  <2> QED BY <1>1, <2>1, QuietStep DEF Queue
<1>2. ASSUME NEW n \in Node, Start(n) \/ Started(n) \/ \E p \in Node : TwoSecondsPass(n, p)
      PROVE  Ordered'
  <2>1. UNCHANGED <<conns, channels, got, sent, overtaken>>
    BY <1>2 DEF Start, Started, TwoSecondsPass
  <2> QED BY <1>1, <2>1
<1>3. ASSUME NEW n \in Node, NEW p \in Node, Connect(n, p), UNCHANGED <<channels, got, sent, overtaken>>
      PROVE  Ordered'
  <2>1. CASE UNCHANGED <<conns, making, backlog, edge>>
    BY <1>1, <1>3, <2>1
  <2>2. ASSUME NEW k, Connects(n, p, k)
        PROVE  Ordered'
    BY <1>3, <2>2, ConnectStep
  <2> QED BY <1>3, <2>1, <2>2, ConnectFacts
<1>4. ASSUME NEW n \in Node, NEW p \in Node, InitConnects(n, p)
      PROVE  Ordered'
  BY <1>3, <1>4 DEF InitConnects
<1>5. ASSUME NEW n \in Node, MakePeerChannel(n)
      PROVE  Ordered'
  <2>1. Head(requests[n]) \in Node
    BY <1>5, TailFacts DEF TypeOK, MakePeerChannel
  <2>2. UNCHANGED <<channels, got, sent, overtaken>>
    BY <1>5 DEF MakePeerChannel
  <2>3. Connect(n, Head(requests[n])) \/ UNCHANGED conns
    BY <1>5 DEF MakePeerChannel
  <2> QED BY <1>1, <1>3, <2>1, <2>2, <2>3
<1>6. ASSUME NEW k \in DOMAIN conns, Break(k)
      PROVE  Ordered'
  <2>1. SameNodes /\ DOMAIN conns' = DOMAIN conns
    BY <1>6, BreakFacts, SameNodesBy
  <2>2. UNCHANGED <<channels, got, sent, overtaken>>
    BY <1>6 DEF Break
  <2>3. \A j \in DOMAIN conns : conns'[j].known = conns[j].known
                                /\ \A s \in Sides : Queue(j, s)' = Queue(j, s)
    BY <1>6, BreakFacts
  <2> QED BY <2>1, <2>2, <2>3, QuietStep
<1>7. ASSUME NEW n \in Node, Crash(n)
      PROVE  Ordered'
  BY <1>7, CrashStep
<1>8. ASSUME NEW n \in Node, PeerConnect(n)
      PROVE  Ordered'
  BY <1>8, PeerConnectStep
<1>9. ASSUME NEW n \in Node, NEW p \in Node, SendMessageToPeer(n, p)
      PROVE  Ordered'
  BY <1>9, SendStep
<1>10. ASSUME NEW n \in Node, NEW k \in making[n], AddOutgoing(n, k)
       PROVE  Ordered'
  BY <1>10, AddOutgoingStep
<1>11. ASSUME NEW n \in Node, NEW e \in ToSet(channels[n]), Readable(n, e)
       PROVE  Ordered'
  BY <1>11, ReadableStep
<1>12. ASSUME NEW n \in Node, NEW e \in ToSet(channels[n]), PeerDisconnect(n, e)
       PROVE  Ordered'
  BY <1>12, DisconnectStep
<1> QED BY <1>2, <1>4, <1>5, <1>6, <1>7, <1>8, <1>9, <1>10, <1>11, <1>12 DEF Next
-----------------------------------------------------------------------------
(* The invariant, and what follows from it. *)

LEMMA InvariantInit == Init => IInv
<1> SUFFICES ASSUME Init
             PROVE  IInv
  OBVIOUS
<1>1. TypeOK
  BY TypeInit
<1>2. /\ DOMAIN conns = {}
      /\ \A n \in Node : /\ channels[n] = <<>> /\ backlog[n] = <<>> /\ making[n] = {} /\ todo[n] = {}
                         /\ edge[n] = FALSE /\ requests[n] = <<>>
                         /\ \A p \in Node : got[p][n] = <<>>
  BY DEF Init
<1>3. ToSet(<<>>) = {} /\ IsInjective(<<>>)
  BY DEF ToSet, IsInjective
<1>4. \A n \in Node : EndsOwned(n) /\ Phases(n) /\ OneEach(n)
  BY <1>2, <1>3 DEF EndsOwned, Phases, OneEach, Opened, HasChannel, Waits
<1>5. \A n, p \in Node : GotInOrder(n, p)
  BY <1>2 DEF GotInOrder
<1> QED BY <1>1, <1>2, <1>4, <1>5 DEF IInv

LEMMA InvariantNext == IInv /\ [Next]_vars => IInv'
<1> SUFFICES ASSUME IInv, [Next]_vars
             PROVE  IInv'
  OBVIOUS
<1>1. /\ TypeOK /\ Ordered
      /\ \A n \in Node : EndsOwned(n) /\ Phases(n) /\ OneEach(n)
      /\ \A k \in DOMAIN conns : Meets(k)
  BY DEF IInv, Ordered
<1>2. CASE Next
  <2>1. TypeOK'
    BY <1>1, <1>2, TypeNext
  <2>2. (\A n \in Node : EndsOwned(n)') /\ \A k \in DOMAIN conns' : Meets(k)'
    BY <1>1, <1>2, MeetsNext
  <2>3. \A n \in Node : Phases(n)' /\ OneEach(n)'
    BY <1>1, <1>2, PhasesNext, OneEachNext
  <2>4. Ordered'
    BY <1>1, <1>2, OrderedNext
  <2> QED BY <2>1, <2>2, <2>3, <2>4 DEF IInv, Ordered
<1>3. CASE UNCHANGED vars
  <2>1. UNCHANGED <<phase, todo, making, conns, channels, backlog, edge, requests, recent, sent,
                    got, faults, overtaken>>
    BY <1>3 DEF vars, threads
  <2>2. TypeOK'
    BY <1>1, <2>1 DEF TypeOK
  <2>3. SameNodes
    BY <2>1, SameNodesBy
  <2>4. Ordered'
    BY <1>1, <2>1, <2>3, QuietStep DEF Queue
  <2>5. \A n \in Node : EndsOwned(n)'
    BY <1>1, <2>1, <2>3, SameEnds
  <2>6. \A n \in Node : Phases(n)' /\ OneEach(n)'
    BY <1>1, <2>1 DEF Phases, OneEach, Opened, HasChannel
  <2>7. \A k \in DOMAIN conns' : Meets(k)'
    <3>1. \A k, s : Held(k, s)' <=> Held(k, s)
      BY <2>1 DEF Held, Owner, HasChannel, Waits
    <3> QED BY <1>1, <2>1, <3>1, MeetsKept
  <2> QED BY <2>2, <2>4, <2>5, <2>6, <2>7 DEF IInv, Ordered
<1> QED BY <1>2, <1>3


LEMMA Invariant == Spec => []IInv
  BY InvariantInit, InvariantNext, PTL DEF Spec

\* A channel of one node whose other end is gone everywhere is told so.
LEMMA MeetsEnds == IInv => EndsMeet
<1> SUFFICES ASSUME IInv, NEW n \in Node, NEW e \in ToSet(channels[n])
             PROVE  \/ Contains(channels[Peer(e)], [conn |-> e.conn, side |-> Other(e.side)])
                    \/ Contains(backlog[Peer(e)], e.conn) \/ e.conn \in making[Peer(e)]
                    \/ Other(e.side) \in conns[e.conn].gone
  BY DEF EndsMeet
<1>1. TypeOK /\ EndsOwned(n) /\ \A k \in DOMAIN conns : Meets(k)
  BY DEF IInv
<1>2. PICK k \in DOMAIN conns, side \in Sides :
        /\ e = EndOf(k, side) /\ e.conn = k /\ e.side = side
        /\ HasChannel(n, e) /\ Owner(k, side) = n
        /\ Owner(k, Other(side)) \in Node /\ Peer(e) = Owner(k, Other(side))
        /\ Other(side) \in Sides
  BY <1>1, ChannelFacts
<1>3. Held(k, side)
  BY <1>2 DEF Held
<1>4. Held(k, Other(side)) \/ Other(side) \in conns[k].gone
  BY <1>1, <1>2, <1>3 DEF Meets
<1>5. PICK p \in Node : p = Peer(e)
  BY <1>2
<1>6. channels[p] \in Seq(End) /\ backlog[p] \in Seq(1 .. MaxConns)
  BY <1>1 DEF TypeOK
<1>7. \A d \in ToSet(channels[p]) : Contains(channels[p], d)
  BY <1>6, ToSetSeq DEF Contains
<1>8. \A j \in ToSet(backlog[p]) : Contains(backlog[p], j)
  BY <1>6, ToSetSeq DEF Contains
<1>9. CASE Held(k, Other(side))
  BY <1>2, <1>5, <1>7, <1>8, <1>9 DEF Held, HasChannel, Waits, EndOf
<1> QED BY <1>2, <1>4, <1>9

LEMMA OneEachOutgoing == IInv => OneOutgoing
<1> SUFFICES ASSUME IInv, NEW n \in Node, NEW j \in DOMAIN channels[n], NEW k \in DOMAIN channels[n],
                    channels[n][j].side = "out", channels[n][k].side = "out",
                    Peer(channels[n][j]) = Peer(channels[n][k])
             PROVE  j = k
  BY DEF OneOutgoing
<1>1. TypeOK /\ EndsOwned(n) /\ OneEach(n)
  BY DEF IInv
<1>2. PICK d \in ToSet(channels[n]) : d = channels[n][j]
  BY DEF ToSet
<1>3. PICK e \in ToSet(channels[n]) : e = channels[n][k]
  BY DEF ToSet
<1>4. d = EndOf(d.conn, "out") /\ e = EndOf(e.conn, "out")
  BY <1>1, <1>2, <1>3, EndType
<1>5. d.conn \in DOMAIN conns /\ e.conn \in DOMAIN conns
  BY <1>1 DEF EndsOwned
<1>6. d.conn \in Opened(n) /\ e.conn \in Opened(n)
  BY <1>4, <1>5 DEF Opened, HasChannel
<1>7. conns[d.conn].to = conns[e.conn].to
  BY <1>2, <1>3 DEF Peer
<1>8. d.conn = e.conn
  BY <1>1, <1>6, <1>7 DEF OneEach
<1>9. d = e
  BY <1>4, <1>8
<1> QED BY <1>1, <1>2, <1>3, <1>9 DEF EndsOwned, IsInjective

\* Every variable keeps to its values: above all the ids of the connections that
\* wait at a listener, and of those a channel is made for, are of connections
\* (network.cpp, NetworkEventLoop).
THEOREM TypeCorrect == Spec => []TypeOK
<1>1. IInv => TypeOK
  BY DEF IInv
<1> QED BY <1>1, Invariant, PTL

\* However requests, disconnects and restarts interleave, and however many nodes
\* there are, no node has two channels to one peer that it connected itself
\* (MakePeerChannel asks CountPeerChannel, and Init connects before any message
\* is sent).
THEOREM OneOutgoingCorrect == Spec => []OneOutgoing
  BY Invariant, OneEachOutgoing, PTL

\* A channel has its other end at the peer, or on its way there, unless that end
\* is gone and the channel will be told (RemoveChannel takes out the right one).
THEOREM EndsMeetCorrect == Spec => []EndsMeet
  BY Invariant, MeetsEnds, PTL

\* As long as no channel was left with messages in it, the messages of one node
\* to another arrive in the order they were sent, and none twice
\* (SendMessageToPeer keeps to the first channel; ChannelReadable).
THEOREM InOrderCorrect == Spec => []InOrder
<1>1. IInv => InOrder
  BY DEF IInv, GotInOrder, InOrder
<1> QED BY <1>1, Invariant, PTL
=============================================================================
