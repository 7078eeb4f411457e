------------------------------- MODULE Channel ------------------------------
(***************************************************************************)
(* One direction of a connection (src/channel.cpp): messages as frames in  *)
(* a byte stream.  The node that connected (ChannelOutgoing) first sends   *)
(* its two-byte id; then each message is a length of four bytes and its    *)
(* body.  The kernel takes and gives any number of bytes at a time.        *)
(*                                                                         *)
(* Each end has a network thread that runs OnWritableOrTaskArrive and      *)
(* OnReadable until the socket would block.  Other threads push messages   *)
(* into the send queue and then tell the network thread.                   *)
(*                                                                         *)
(* A length or an id of which the kernel takes or gives only a part is     *)
(* undefined behaviour: the rest is read from, or written to, an address   *)
(* that pointer arithmetic on a uint32_t puts outside of the field.  The   *)
(* model stops there (torn).                                               *)
(***************************************************************************)
EXTENDS Integers, SequencesExt

CONSTANTS
  Message,      \* the messages, as sequences of bytes
  MyId,         \* the id of the sending node: two bytes
  Chunk,        \* the most one call of send or recv is given (4096)
  Capacity,     \* bytes the two sockets hold between them
  MaxSent       \* bound: how many messages are sent

\* A size is a uint32_t.
FitsInFourBytes(size) == size \div 65536 < 65536

ASSUME MessageAssumption ==
  \A m \in Message : m \in Seq(0 .. 255) /\ m # <<>> /\ FitsInFourBytes(Len(m))

ASSUME ChannelAssumption ==
  /\ MyId \in Seq(0 .. 255) /\ Len(MyId) = 2
  /\ Chunk \in Nat \ {0} /\ Capacity \in Nat \ {0} /\ MaxSent \in Nat

VARIABLES
  sendQueue,    \* m_SendQueue
  untold,       \* messages pushed whose ChannelEnqueueMessage is still to come
  tasks,        \* ChannelEnqueueMessage events in m_oEventQueue
  snd,          \* the sending end: whether it runs, m_SendState
  wire,         \* the bytes the kernel holds
  readable,     \* epoll has an edge to report to the receiver
  rcv,          \* the receiving end: whether it runs, m_ReceiveState
  sent,         \* history: every message sent
  delivered,    \* what OnReceivePeerMessage got
  torn          \* a length or an id was split

vars == <<sendQueue, untold, tasks, snd, wire, readable, rcv, sent, delivered, torn>>

Byte == 0 .. 255

TypeOK ==
  /\ sendQueue \in Seq(Message) /\ sent \in Seq(Message) /\ delivered \in Seq(Seq(Byte))
  /\ untold \in 0 .. MaxSent /\ tasks \in 0 .. MaxSent
  /\ snd \in [run : BOOLEAN, state : {"id", "idle", "size", "body"},
              msg : Seq(Byte), write : Nat]
  /\ snd.write <= Len(snd.msg)
  /\ wire \in Seq(Byte) /\ Len(wire) <= Capacity
  /\ readable \in BOOLEAN /\ torn \in BOOLEAN
  /\ rcv \in [run : BOOLEAN, state : {"id", "size", "body", "full"}, size : Nat, read : Seq(Byte)]
  /\ Len(rcv.read) <= rcv.size

\* The constructors of both ends run their handlers once.
Init ==
  /\ sendQueue = <<>> /\ sent = <<>> /\ delivered = <<>>
  /\ untold = 0 /\ tasks = 0
  /\ snd = [run |-> TRUE, state |-> "id", msg |-> <<>>, write |-> 0]
  /\ wire = <<>>
  /\ readable = FALSE
  /\ rcv = [run |-> TRUE, state |-> "id", size |-> 0, read |-> <<>>]
  /\ torn = FALSE
-----------------------------------------------------------------------------
(* SendMessageToPeer, by any thread. *)

EnqueueSendMessage(m) ==
  /\ Len(sent) < MaxSent
  /\ sendQueue' = Append(sendQueue, m)
  /\ sent' = Append(sent, m)
  /\ untold' = untold + 1
  /\ UNCHANGED <<tasks, snd, wire, readable, rcv, delivered, torn>>

EnqueueEvent ==
  /\ untold > 0
  /\ untold' = untold - 1
  /\ tasks' = tasks + 1
  /\ UNCHANGED <<sendQueue, snd, wire, readable, rcv, sent, delivered, torn>>
-----------------------------------------------------------------------------
(* The sending end. *)

\* htonl and ntohl.
NetworkOrder(size) ==
  <<size \div 16777216, (size \div 65536) % 256, (size \div 256) % 256, size % 256>>

HostOrder(b) == ((b[1] * 256 + b[2]) * 256 + b[3]) * 256 + b[4]

\* How many of len bytes the kernel may take, and give.
Sendable(len) == 1 .. Min({len, Capacity - Len(wire)})

Receivable(len) == 1 .. Min({len, Len(wire)})

\* ChannelEnqueueMessage.  There is no ChannelWriteable: the events are tested
\* for POLL_OUT, which is not EPOLLOUT.
TaskArrives ==
  /\ ~snd.run
  /\ tasks > 0
  /\ tasks' = tasks - 1
  /\ snd' = [snd EXCEPT !.run = TRUE]
  /\ UNCHANGED <<sendQueue, untold, wire, readable, rcv, sent, delivered, torn>>

Transmit(bytes) ==
  /\ wire' = wire \o bytes
  /\ readable' = TRUE
  /\ UNCHANGED <<untold, tasks, rcv, sent, delivered>>

\* The id and the length are taken whole or the channel is torn.
SendWhole(bytes, next) ==
  /\ \E k \in Sendable(Len(bytes)) :
       /\ Transmit(SubSeq(bytes, 1, k))
       /\ torn' = (k < Len(bytes))
       /\ snd' = [snd EXCEPT !.state = IF k < Len(bytes) THEN @ ELSE next]
  /\ UNCHANGED sendQueue

SendId == snd.run /\ snd.state = "id" /\ SendWhole(MyId, "idle")

\* Wrong: the next message starts where the last one ended.
BeginAtEnd(m) == [run |-> TRUE, state |-> "size", msg |-> m,
                  write |-> Min({snd.write, Len(m) - 1})]

Begin(m) == [run |-> TRUE, state |-> "size", msg |-> m, write |-> 0]

PopMessage ==
  /\ snd.run /\ snd.state = "idle"
  /\ sendQueue # <<>>
  /\ snd' = Begin(Head(sendQueue))
  /\ sendQueue' = Tail(sendQueue)
  /\ UNCHANGED <<untold, tasks, wire, readable, rcv, sent, delivered, torn>>

SendSize ==
  snd.run /\ snd.state = "size" /\ SendWhole(NetworkOrder(Len(snd.msg)), "body")

SendBody ==
  /\ snd.run /\ snd.state = "body"
  /\ \E k \in Sendable(Min({Chunk, Len(snd.msg) - snd.write})) :
       /\ Transmit(SubSeq(snd.msg, snd.write + 1, snd.write + k))
       /\ snd' = [snd EXCEPT !.write = @ + k,
                    !.state = IF snd.write + k = Len(snd.msg) THEN "idle" ELSE @]
  /\ UNCHANGED <<sendQueue, torn>>

\* Nothing to send, or EAGAIN.
EndSending ==
  /\ snd.run
  /\ IF snd.state = "idle" THEN sendQueue = <<>> ELSE Len(wire) = Capacity
  /\ snd' = [snd EXCEPT !.run = FALSE]
  /\ UNCHANGED <<sendQueue, untold, tasks, wire, readable, rcv, sent, delivered, torn>>
-----------------------------------------------------------------------------
(* The receiving end. *)

\* ChannelReadable: edge-triggered.
BecomesReadable ==
  /\ ~rcv.run
  /\ readable
  /\ readable' = FALSE
  /\ rcv' = [rcv EXCEPT !.run = TRUE]
  /\ UNCHANGED <<sendQueue, untold, tasks, snd, wire, sent, delivered, torn>>

Receive(k) ==
  /\ wire' = SubSeq(wire, k + 1, Len(wire))
  /\ UNCHANGED <<sendQueue, untold, tasks, snd, readable, sent>>

RecvId ==
  /\ rcv.run /\ rcv.state = "id"
  /\ \E k \in Receivable(2) :
       /\ Receive(k)
       /\ torn' = (k < 2)
       /\ rcv' = [rcv EXCEPT !.state = IF k < 2 THEN @ ELSE "size"]
  /\ UNCHANGED delivered

RecvSize ==
  /\ rcv.run /\ rcv.state = "size"
  /\ \E k \in Receivable(4) :
       /\ Receive(k)
       /\ torn' = (k < 4)
       /\ rcv' = IF k < 4 THEN rcv
                 ELSE [rcv EXCEPT !.state = "body", !.size = HostOrder(wire), !.read = <<>>]
  /\ UNCHANGED delivered

\* Wrong: what is read is not limited to the message.
ChunkToRead == Chunk

ToRead == Min({Chunk, rcv.size - Len(rcv.read)})

RecvBody ==
  /\ rcv.run /\ rcv.state = "body"
  /\ \E k \in Receivable(ToRead) :
       /\ Receive(k)
       /\ rcv' = [rcv EXCEPT !.read = @ \o SubSeq(wire, 1, k),
                    !.state = IF Len(rcv.read) + k >= rcv.size THEN "full" ELSE @]
  /\ UNCHANGED <<delivered, torn>>

\* Wrong: the handler returns after a message, though the edge was reported.
NextMessageLater == [rcv EXCEPT !.state = "size", !.run = FALSE]

NextMessage == [rcv EXCEPT !.state = "size"]

\* Network::OnReceivePeerMessage.
Deliver ==
  /\ rcv.run /\ rcv.state = "full"
  /\ delivered' = Append(delivered, rcv.read)
  /\ rcv' = NextMessage
  /\ UNCHANGED <<sendQueue, untold, tasks, snd, wire, readable, sent, torn>>

\* EAGAIN.
EndReceiving ==
  /\ rcv.run
  /\ rcv.state # "full" /\ wire = <<>>
  /\ rcv' = [rcv EXCEPT !.run = FALSE]
  /\ UNCHANGED <<sendQueue, untold, tasks, snd, wire, readable, sent, delivered, torn>>
-----------------------------------------------------------------------------
SenderStep == ~torn /\ (TaskArrives \/ SendId \/ PopMessage \/ SendSize \/ SendBody \/ EndSending)

ReceiverStep == ~torn /\ (BecomesReadable \/ RecvId \/ RecvSize \/ RecvBody \/ Deliver
                            \/ EndReceiving)

Next ==
  \/ ~torn /\ ((\E m \in Message : EnqueueSendMessage(m)) \/ EnqueueEvent)
  \/ SenderStep
  \/ ReceiverStep

\* Both network threads go on, and so does a thread that has pushed a message.
Spec ==
  /\ Init /\ [][Next]_vars
  /\ WF_vars(~torn /\ EnqueueEvent) /\ WF_vars(SenderStep) /\ WF_vars(ReceiverStep)
-----------------------------------------------------------------------------
\* In whatever pieces the kernel takes and gives the bodies, the channel
\* delivers the messages sent, whole and in their order, until it is torn.
Connection == INSTANCE Link
                WITH queue <- SubSeq(sent, Len(delivered) + 1, Len(sent)),
                     broken <- torn

ImplementsLink == Connection!Spec

\* A message has begun to be sent, and no event is left to go on with it: the
\* socket was full, and POLL_OUT (2) is not EPOLLOUT (4), so that the event loop
\* never enqueues ChannelWriteable.
Stalled == ~snd.run /\ snd.state # "idle" /\ tasks = 0 /\ untold = 0

\* Edge-triggered events, the notice of the sending threads and partial writes
\* together leave nothing undelivered, unless the sender met a full socket.
OnlyFullSocketsStall == <>[](delivered = sent \/ torn \/ Stalled)
=============================================================================
