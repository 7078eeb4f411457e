------------------------------- MODULE Network ------------------------------
(***************************************************************************)
(* Which connections the nodes have, and which of them a message takes     *)
(* (src/network.cpp, src/node.cpp, src/group.cpp).  A node that starts     *)
(* connects to every peer; a node that wants to send and has no channel    *)
(* drops the message and connects.  A connection can carry messages both   *)
(* ways, and two nodes may connect to each other at once; of two channels  *)
(* for one peer the first is used.                                         *)
(*                                                                         *)
(* A channel is an end of a connection: "out" at the node that connected,  *)
(* "in" at the one that accepted, which learns who is at the other end     *)
(* from the first bytes.  An end, once removed, is never closed: its other *)
(* end has to be gone already.  ChannelSelf is left out.                   *)
(***************************************************************************)
EXTENDS Integers, SequencesExt

CONSTANTS
  Node,         \* the peers of the configuration
  Nobody,       \* the peer of a channel that does not know it (UINT16_MAX)
  MaxConns,     \* bound: connections made in a behaviour
  Flow,         \* bound: the pairs <<n, p>> such that n sends to p
  MaxSent,      \* bound: messages from one node to another
  MaxFaults     \* bound: crashes, and connections that break between running nodes

ASSUME NobodyAssumption == Nobody \notin Node

ASSUME BoundAssumption ==
  /\ Flow \subseteq Node \X Node
  /\ MaxConns \in Nat /\ MaxSent \in Nat /\ MaxFaults \in Nat

VARIABLES
  phase,      \* phase[n]: what Node::Init of n is at, or "down"
  todo,       \* todo[n]: the peers Init has still to connect to
  conns,      \* every connection made
  channels,   \* channels[n]: m_pVecChannel
  backlog,    \* backlog[n]: connections that n's listener has not accepted
  edge,       \* edge[n]: epoll has to report n's listener
  making,     \* making[n]: connections made, whose channel is not yet added
  requests,   \* requests[n]: peers of the MakePeerChannel events
  recent,     \* recent[n]: peers asked for within two seconds
  sent,       \* sent[n][p]: messages from n to p, numbered 1, 2, ...
  got,        \* got[p][n]: those that p's instance got from n
  faults,     \* crashes and breaks so far
  overtaken   \* history: <<n, p>> such that n left a channel to p for another one
              \* although p had yet to read from the first

threads == <<phase, todo, making>>

vars == <<threads, conns, channels, backlog, edge, requests, recent, sent, got,
          faults, overtaken>>

Sides == {"out", "in"}

Other(side) == CHOOSE s \in Sides : s # side

\* queue[side]: what the end `side' has sent and the other has not read; 0 is
\* the id of the node that connected.  known: the accepting end has read it.
\* gone: the ends whose process has died, or which lost the connection.
Connection == [from : Node, to : Node, known : BOOLEAN, gone : SUBSET Sides,
               queue : [Sides -> Seq(0 .. MaxSent)]]

End == [conn : 1 .. MaxConns, side : Sides]

TypeOK ==
  /\ phase \in [Node -> {"down", "connecting", "starting", "up"}]
  /\ todo \in [Node -> SUBSET Node] /\ making \in [Node -> SUBSET (1 .. MaxConns)]
  /\ conns \in Seq(Connection) /\ Len(conns) <= MaxConns
  /\ channels \in [Node -> Seq(End)] /\ backlog \in [Node -> Seq(1 .. MaxConns)]
  /\ edge \in [Node -> BOOLEAN] /\ requests \in [Node -> Seq(Node)]
  /\ recent \in [Node -> SUBSET Node]
  /\ sent \in [Node -> [Node -> 0 .. MaxSent]]
  /\ got \in [Node -> [Node -> Seq(1 .. MaxSent)]]
  /\ faults \in 0 .. MaxFaults
  /\ overtaken \subseteq Node \X Node

Init ==
  /\ phase = [n \in Node |-> "down"]
  /\ todo = [n \in Node |-> {}] /\ making = [n \in Node |-> {}]
  /\ conns = <<>>
  /\ channels = [n \in Node |-> <<>>] /\ backlog = [n \in Node |-> <<>>]
  /\ edge = [n \in Node |-> FALSE] /\ requests = [n \in Node |-> <<>>]
  /\ recent = [n \in Node |-> {}]
  /\ sent = [n \in Node |-> [p \in Node |-> 0]]
  /\ got = [n \in Node |-> [p \in Node |-> <<>>]]
  /\ faults = 0
  /\ overtaken = {}
-----------------------------------------------------------------------------
(* The vector of channels. *)

\* The node at the other end, and GetPeerId of the channel at the end e.
Peer(e) == IF e.side = "out" THEN conns[e.conn].to ELSE conns[e.conn].from

PeerId(e) == IF e.side = "out" \/ conns[e.conn].known THEN Peer(e) ELSE Nobody

\* Where in the vector the channels for the peer p are.
ChannelsTo(n, p) == {k \in DOMAIN channels[n] : PeerId(channels[n][k]) = p}

GetChannelByPeerId(n, p) == channels[n][Min(ChannelsTo(n, p))]

\* Wrong: only the channels that this node accepted count.
CountAccepted(n, p) == Cardinality({k \in ChannelsTo(n, p) : channels[n][k].side = "in"})

\* Wrong: the channels asked for count as well.
CountAskedFor(n, p) ==
  Cardinality(ChannelsTo(n, p)) + Cardinality({k \in DOMAIN requests[n] : requests[n][k] = p})

CountPeerChannel(n, p) == Cardinality(ChannelsTo(n, p))

\* Wrong: the first channel of the same peer is removed.
RemoveFirstChannel(n, e) == RemoveAt(channels[n], Min(ChannelsTo(n, PeerId(e))))

\* Wrong: a new channel is used before the older ones.
AddChannelFirst(n, e) == <<e>> \o channels[n]

AddChannel(n, e) == Append(channels[n], e)

RemoveChannel(n, e) == RemoveFirst(channels[n], e)

\* History: n leaves the channel e for another, and the other end of e has yet to
\* read a message.
Leave(n, e) ==
  IF \E m \in ToSet(conns[e.conn].queue[e.side]) : m # 0
    THEN overtaken \cup {<<n, Peer(e)>>} ELSE overtaken
-----------------------------------------------------------------------------
(* Connecting: by the main thread in Init, then by the network thread. *)

\* The process listens before it connects to anyone.
Start(n) ==
  /\ phase[n] = "down"
  /\ phase' = [phase EXCEPT ![n] = "connecting"]
  /\ todo' = [todo EXCEPT ![n] = Node \ {n}]
  /\ UNCHANGED <<conns, channels, backlog, edge, making, requests, recent, sent,
                 got, faults, overtaken>>

\* connect in MakeChannelForPeer: the kernel of p completes it, if p listens.
Connect(n, p) ==
  IF phase[p] = "down" THEN UNCHANGED <<conns, backlog, edge, making>>
  ELSE
    /\ Len(conns) < MaxConns
    /\ conns' = Append(conns, [from |-> n, to |-> p, known |-> FALSE, gone |-> {},
                               queue |-> [s \in Sides |-> <<>>]])
    /\ making' = [making EXCEPT ![n] = @ \cup {Len(conns')}]
    /\ backlog' = [backlog EXCEPT ![p] = Append(@, Len(conns'))]
    /\ edge' = [edge EXCEPT ![p] = TRUE]

InitConnects(n, p) ==
  /\ phase[n] = "connecting"
  /\ making[n] = {}
  /\ p \in todo[n]
  /\ Connect(n, p)
  /\ todo' = [todo EXCEPT ![n] = @ \ {p}]
  /\ UNCHANGED <<phase, channels, requests, recent, sent, got, faults, overtaken>>

\* The rest of MakeChannelForPeer: the constructor sends the id of n.
AddOutgoing(n, k) ==
  /\ k \in making[n]
  /\ making' = [making EXCEPT ![n] = @ \ {k}]
  /\ channels' = [channels EXCEPT ![n] = AddChannel(n, [conn |-> k, side |-> "out"])]
  /\ conns' = [conns EXCEPT ![k].queue["out"] = Append(@, 0)]
  /\ UNCHANGED <<phase, todo, backlog, edge, requests, recent, sent, got, faults,
                 overtaken>>

\* The network thread of n is not in the middle of MakeChannelForPeer.
NetworkThread(n) == phase[n] # "down" /\ (phase[n] = "connecting" \/ making[n] = {})

\* MakePeerChannel.
MakePeerChannel(n) ==
  /\ NetworkThread(n)
  /\ requests[n] # <<>>
  /\ requests' = [requests EXCEPT ![n] = Tail(@)]
  /\ IF CountPeerChannel(n, Head(requests[n])) = 0
       THEN Connect(n, Head(requests[n]))
       ELSE UNCHANGED <<conns, backlog, edge, making>>
  /\ UNCHANGED <<phase, todo, channels, recent, sent, got, faults, overtaken>>

\* PeerConnect: one accept for one report, however many connections wait.  The
\* constructor reads the id if it has arrived.
PeerConnect(n) ==
  /\ NetworkThread(n)
  /\ edge[n]
  /\ edge' = [edge EXCEPT ![n] = FALSE]
  /\ LET k == Head(backlog[n])
         arrived == conns[k].queue["out"] # <<>>
     IN  /\ channels' = [channels EXCEPT ![n] = AddChannel(n, [conn |-> k, side |-> "in"])]
         /\ conns' = IF arrived THEN [conns EXCEPT ![k].known = TRUE,
                                                   ![k].queue["out"] = Tail(@)]
                     ELSE conns
  /\ backlog' = [backlog EXCEPT ![n] = Tail(@)]
  /\ UNCHANGED <<threads, requests, recent, sent, got, faults, overtaken>>

\* Init ends: the instance broadcasts and is then put into its group.
Started(n) ==
  /\ \/ /\ phase[n] = "connecting" /\ todo[n] = {} /\ making[n] = {}
        /\ phase' = [phase EXCEPT ![n] = "starting"]
     \/ /\ phase[n] = "starting"
        /\ phase' = [phase EXCEPT ![n] = "up"]
  /\ UNCHANGED <<todo, conns, channels, backlog, edge, making, requests, recent,
                 sent, got, faults, overtaken>>
-----------------------------------------------------------------------------
(* Messages. *)

\* SendMessageToPeer.
SendMessageToPeer(n, p) ==
  /\ <<n, p>> \in Flow
  /\ phase[n] \in {"starting", "up"}
  /\ sent[n][p] < MaxSent
  /\ sent' = [sent EXCEPT ![n][p] = @ + 1]
  /\ IF ChannelsTo(n, p) # {}
       THEN LET e == GetChannelByPeerId(n, p) IN
            /\ conns' = IF Other(e.side) \in conns[e.conn].gone THEN conns
                        ELSE [conns EXCEPT ![e.conn].queue[e.side] = Append(@, sent'[n][p])]
            /\ UNCHANGED <<requests, recent>>
       ELSE IF p \in recent[n] THEN UNCHANGED <<conns, requests, recent>>
       ELSE /\ recent' = [recent EXCEPT ![n] = @ \cup {p}]
            /\ requests' = [requests EXCEPT ![n] = Append(@, p)]
            /\ UNCHANGED conns
  /\ UNCHANGED <<threads, channels, backlog, edge, got, faults, overtaken>>

TwoSecondsPass(n, p) ==
  /\ p \in recent[n]
  /\ recent' = [recent EXCEPT ![n] = @ \ {p}]
  /\ UNCHANGED <<threads, conns, channels, backlog, edge, requests, sent, got,
                 faults, overtaken>>

\* Wrong: the id is passed on like a message.
DispatchesAll(n, m) == phase[n] = "up"

\* The id is not a message; Group::DispatchPackage drops a message as long as the
\* group does not hold the instance.
Dispatches(n, m) == m # 0 /\ phase[n] = "up"

\* Other channels are known to have the peer of e, which comes before them.
ComesBefore(n, e) ==
  LET others == ChannelsTo(n, Peer(e)) IN
  others # {} /\ \E k \in DOMAIN channels[n] : channels[n][k] = e /\ k < Min(others)

\* ChannelReadable: the id, or a message.  With the id, the channel can come to be
\* the first one for its peer.
Readable(n, e) ==
  /\ NetworkThread(n)
  /\ Contains(channels[n], e)
  /\ LET q == conns[e.conn].queue[Other(e.side)] IN
       /\ q # <<>>
       /\ conns' = [conns EXCEPT ![e.conn].queue[Other(e.side)] = Tail(@),
                                 ![e.conn].known = @ \/ Head(q) = 0]
       /\ got' = IF Dispatches(n, Head(q))
                   THEN [got EXCEPT ![n][Peer(e)] = Append(@, Head(q))] ELSE got
  /\ overtaken' = IF ComesBefore(n, e) THEN Leave(n, GetChannelByPeerId(n, Peer(e)))
                  ELSE overtaken
  /\ UNCHANGED <<threads, channels, backlog, edge, requests, recent, sent, faults>>

\* PeerDisconnect, or an error of recv or send, once the other end is gone.
\* What was not read is lost.
PeerDisconnect(n, e) ==
  /\ NetworkThread(n)
  /\ Contains(channels[n], e)
  /\ Other(e.side) \in conns[e.conn].gone
  /\ channels' = [channels EXCEPT ![n] = RemoveChannel(n, e)]
  /\ conns' = [conns EXCEPT ![e.conn].queue[Other(e.side)] = <<>>]
  /\ overtaken' = Leave(n, e)
  /\ UNCHANGED <<threads, backlog, edge, requests, recent, sent, got, faults>>
-----------------------------------------------------------------------------
(* Faults. *)

\* The ends that n has lose their process: what was sent to them is lost.
Abandoned(n, c) ==
  LET mine == {s \in Sides : (IF s = "out" THEN c.from ELSE c.to) = n}
  IN  [c EXCEPT !.gone = @ \cup mine,
                !.queue = [s \in Sides |-> IF Other(s) \in mine THEN <<>> ELSE c.queue[s]]]

Crash(n) ==
  /\ phase[n] # "down"
  /\ faults < MaxFaults
  /\ faults' = faults + 1
  /\ phase' = [phase EXCEPT ![n] = "down"]
  /\ conns' = [k \in DOMAIN conns |-> Abandoned(n, conns[k])]
  /\ todo' = [todo EXCEPT ![n] = {}] /\ making' = [making EXCEPT ![n] = {}]
  /\ channels' = [channels EXCEPT ![n] = <<>>]
  /\ backlog' = [backlog EXCEPT ![n] = <<>>] /\ edge' = [edge EXCEPT ![n] = FALSE]
  /\ requests' = [requests EXCEPT ![n] = <<>>] /\ recent' = [recent EXCEPT ![n] = {}]
  /\ overtaken' = overtaken \cup UNION {Leave(n, e) : e \in ToSet(channels[n])}
  /\ UNCHANGED <<sent, got>>

\* The network loses the connection k: both ends will be told.
Break(k) ==
  /\ faults < MaxFaults
  /\ conns[k].gone = {}
  /\ faults' = faults + 1
  /\ conns' = [conns EXCEPT ![k].gone = Sides]
  /\ UNCHANGED <<threads, channels, backlog, edge, requests, recent, sent, got, overtaken>>
-----------------------------------------------------------------------------
Next ==
  \/ \E n \in Node :
       \/ Start(n) \/ Started(n) \/ Crash(n)
       \/ MakePeerChannel(n) \/ PeerConnect(n)
       \/ \E p \in Node : InitConnects(n, p) \/ SendMessageToPeer(n, p) \/ TwoSecondsPass(n, p)
       \/ \E k \in making[n] : AddOutgoing(n, k)
       \/ \E e \in ToSet(channels[n]) : Readable(n, e) \/ PeerDisconnect(n, e)
  \/ \E k \in DOMAIN conns : Break(k)

\* The network thread handles every MakePeerChannel, and ends what it began.  An
\* edge-triggered report that came before its channel was added is lost: the
\* other handlers are not fair.
Fairness ==
  \A n \in Node : WF_vars(MakePeerChannel(n)) /\ WF_vars(\E k \in making[n] : AddOutgoing(n, k))

Spec == Init /\ [][Next]_vars /\ Fairness
-----------------------------------------------------------------------------
(* Properties. *)

\* A node connects only to a peer it has no channel for, and Init runs before any
\* message is sent: however requests, disconnects and restarts interleave, a
\* node never has two channels to one peer that it connected itself
\* (NetworkEventLoop, MakePeerChannel).
OneOutgoing ==
  \A n \in Node : \A j, k \in DOMAIN channels[n] :
    LET d == channels[n][j]
        e == channels[n][k]
    IN  d.side = "out" /\ e.side = "out" /\ Peer(d) = Peer(e) => j = k

\* RemoveChannel takes out the channel it was called for, and no other of the
\* same peer: a channel with no other end at the peer, nor one on its way, is a
\* channel that will be told so.
EndsMeet ==
  \A n \in Node : \A e \in ToSet(channels[n]) :
    \/ Contains(channels[Peer(e)], [conn |-> e.conn, side |-> Other(e.side)])
    \/ Contains(backlog[Peer(e)], e.conn) \/ e.conn \in making[Peer(e)]
    \/ Other(e.side) \in conns[e.conn].gone

\* What Role takes for granted: the messages from one node to another arrive in
\* the order they were sent in, and none twice.  Two nodes may have several
\* connections; but SendMessageToPeer keeps to the first channel, so the order
\* holds until that channel is removed, or another one learns that it leads to
\* the same peer and comes first, while messages wait in the first.
InOrder ==
  \A n, p \in Node : <<n, p>> \notin overtaken =>
    \A j, k \in DOMAIN got[p][n] : j < k => got[p][n][j] < got[p][n][k]

\* The message that found no channel asked for one: the node gets a channel to
\* that peer, unless one of the two goes down (or the bound is reached).
RequestConnects ==
  \A n, p \in Node :
    Contains(requests[n], p)
      ~> \/ ChannelsTo(n, p) # {} \/ phase[p] = "down" \/ phase[n] = "down"
         \/ Len(conns) = MaxConns
=============================================================================
