---------------------------- MODULE ChannelProofs ----------------------------
(***************************************************************************)
(* Proofs about Channel: until a length is split, the bytes of the wire    *)
(* are the frames of the messages sent, and the two ends agree on where    *)
(* each of them begins.                                                    *)
(***************************************************************************)
EXTENDS Channel, Lemmas

\* The messages that the sending end has taken from its queue.
Begun == Len(sent) - Len(sendQueue)

Received == Len(delivered)

\* at[j] is where frame j begins: its first byte is wire[at[j] + 1].  It is
\* negative when the byte was received, and beyond Len(wire) when it was not sent.
Places == [1 .. Begun + 1 -> Int]

FramesInOrder(at) ==
  /\ \A j \in 1 .. Begun : at[j + 1] = at[j] + 4 + Len(sent[j])
  /\ \A i, j \in 1 .. Begun + 1 : i < j => at[i] + 4 + Len(sent[i]) <= at[j]

\* What is on the wire of a frame is that frame.
SizesOnWire(at) ==
  \A j \in 1 .. Begun, k \in 1 .. 4 :
    at[j] + k \in 1 .. Len(wire) => wire[at[j] + k] = NetworkOrder(Len(sent[j]))[k]

BodiesOnWire(at) ==
  \A j \in 1 .. Begun : \A k \in 1 .. Len(sent[j]) :
    at[j] + 4 + k \in 1 .. Len(wire) => wire[at[j] + 4 + k] = sent[j][k]

\* The sending end is where the wire ends.
SenderAt(at) ==
  \/ snd.state = "id" /\ Begun = 0 /\ Len(wire) = at[1] - 2
  \/ snd.state = "idle" /\ Len(wire) = at[Begun + 1]
  \/ /\ snd.state = "size" /\ Begun >= 1 /\ snd.msg = sent[Begun] /\ snd.write = 0
     /\ Len(wire) = at[Begun]
  \/ /\ snd.state = "body" /\ Begun >= 1 /\ snd.msg = sent[Begun] /\ snd.write < Len(snd.msg)
     /\ Len(wire) = at[Begun] + 4 + snd.write

\* The receiving end is where it begins.
ReceiverAt(at) ==
  \/ rcv.state = "id" /\ Received = 0 /\ at[1] = 2
  \/ rcv.state = "size" /\ at[Received + 1] = 0
  \/ /\ rcv.state \in {"body", "full"}
     /\ Received < Begun
     /\ at[Received + 1] + 4 + Len(rcv.read) = 0
     /\ rcv.size = Len(sent[Received + 1])
     /\ \A k \in 1 .. Len(rcv.read) : rcv.read[k] = sent[Received + 1][k]
     /\ rcv.state = "full" <=> Len(rcv.read) = rcv.size

QueueIsRest == \A i \in 1 .. Len(sendQueue) : sendQueue[i] = sent[Begun + i]

Framed(at) ==
  FramesInOrder(at) /\ SizesOnWire(at) /\ BodiesOnWire(at) /\ SenderAt(at) /\ ReceiverAt(at)

Counted == untold + tasks <= Len(sent) /\ Len(sent) <= MaxSent

FrameInv ==
  /\ Begun \in Nat /\ Received <= Begun /\ QueueIsRest
  /\ \E at \in Places : Framed(at)

IInv == TypeOK /\ Counted /\ (~torn => FrameInv)
-----------------------------------------------------------------------------
(* Sequences of bytes. *)

LEMMA MessageFacts ==
  ASSUME NEW m \in Message
  PROVE  /\ m \in Seq(Byte) /\ Len(m) \in Nat /\ Len(m) >= 1
         /\ FitsInFourBytes(Len(m))
         /\ \A k \in 1 .. Len(m) : m[k] \in Byte
<1>1. m \in Seq(Byte) /\ m # <<>> /\ FitsInFourBytes(Len(m))
  BY MessageAssumption DEF Byte
<1>2. Len(m) \in Nat /\ Len(m) # 0
  BY <1>1, LenProperties, EmptySeq
<1> QED BY <1>1, <1>2, ElementOfSeq

LEMMA HostOrderOf ==
  ASSUME NEW b, NEW size \in Nat, NEW q1 \in Nat, NEW q2 \in Nat, NEW q3 \in Nat,
         NEW x \in Int, NEW y \in Int, NEW z \in Int,
         x = q2 - 256 * q3, y = q1 - 256 * q2, z = size - 256 * q1,
         b[1] = q3, b[2] = x, b[3] = y, b[4] = z
  PROVE  HostOrder(b) = size
  BY DEF HostOrder

\* A size survives htonl and ntohl.
LEMMA SizeRoundTrip ==
  ASSUME NEW size \in Nat, FitsInFourBytes(size)
  PROVE  /\ NetworkOrder(size) \in Seq(Byte) /\ Len(NetworkOrder(size)) = 4
         /\ \A b : b[1] = NetworkOrder(size)[1] /\ b[2] = NetworkOrder(size)[2]
                     /\ b[3] = NetworkOrder(size)[3] /\ b[4] = NetworkOrder(size)[4]
                       => HostOrder(b) = size
<1> DEFINE q1 == size \div 256
<1> DEFINE q2 == size \div 65536
<1> DEFINE q3 == size \div 16777216
<1>1. q1 \in Nat /\ q2 \in Nat /\ q3 \in Nat /\ q1 \div 256 = q2 /\ q2 \div 256 = q3
  <2>1. \A n \in Nat : n \div 256 \in Nat /\ n \div 65536 \in Nat /\ n \div 16777216 \in Nat
    OBVIOUS
  <2>2. \A n \in Nat : (n \div 256) \div 256 = n \div 65536
    OBVIOUS
  <2>3. \A n \in Nat : (n \div 65536) \div 256 = n \div 16777216
    OBVIOUS
  <2> QED BY <2>1, <2>2, <2>3
<1>2. size % 256 = size - 256 * q1 /\ size % 256 \in 0 .. 255
  <2>1. \A n \in Nat : n % 256 = n - 256 * (n \div 256) /\ n % 256 \in 0 .. 255
    OBVIOUS
  <2> QED BY <2>1
<1>3. q2 < 65536
  BY DEF FitsInFourBytes
<1> HIDE DEF q1, q2, q3
<1>4. q1 % 256 = q1 - 256 * q2 /\ q2 % 256 = q2 - 256 * q3
      /\ q1 % 256 \in 0 .. 255 /\ q2 % 256 \in 0 .. 255
  <2>1. \A n \in Nat : n % 256 = n - 256 * (n \div 256) /\ n % 256 \in 0 .. 255
    OBVIOUS
  <2> QED BY <1>1, <2>1
<1>5. q3 \in 0 .. 255
  <2>1. \A n \in Nat : n < 65536 => n \div 256 \in 0 .. 255
    OBVIOUS
  <2> QED BY <1>1, <1>3, <2>1
<1> DEFINE order == NetworkOrder(size)
<1>6. order = <<q3, q2 % 256, q1 % 256, size % 256>>
  BY DEF NetworkOrder, q1, q2, q3
<1> HIDE DEF order
<1> DEFINE x == q2 % 256
<1> DEFINE y == q1 % 256
<1> DEFINE z == size % 256
<1>7. /\ x \in 0 .. 255 /\ y \in 0 .. 255 /\ z \in 0 .. 255
      /\ x = q2 - 256 * q3 /\ y = q1 - 256 * q2 /\ z = size - 256 * q1
      /\ order = <<q3, x, y, z>>
  BY <1>2, <1>4, <1>6
<1> HIDE DEF x, y, z
<1>8. order[1] = q3 /\ order[2] = x /\ order[3] = y /\ order[4] = z /\ Len(order) = 4
  BY <1>7
<1>9. order \in Seq(Byte)
  BY <1>5, <1>7 DEF Byte
<1>10. ASSUME NEW b, b[1] = order[1], b[2] = order[2], b[3] = order[3], b[4] = order[4]
       PROVE  HostOrder(b) = size
  BY <1>1, <1>7, <1>8, <1>10, HostOrderOf
<1> QED BY <1>8, <1>9, <1>10 DEF order

\* Pieces of a sequence, and a piece added to another.
LEMMA PrefixFacts ==
  ASSUME NEW S, NEW q \in Seq(S), NEW a \in Nat, NEW k \in Nat, a + k <= Len(q)
  PROVE  LET p == SubSeq(q, a + 1, a + k) IN
         p \in Seq(S) /\ Len(p) = k /\ \A j \in 1 .. k : p[j] = q[a + j]
<1>1. Len(q) \in Nat /\ \A i \in 1 .. Len(q) : q[i] \in S
  BY LenProperties, ElementOfSeq
<1>2. \A i \in (a + 1) .. (a + k) : q[i] \in S
  BY <1>1
<1> DEFINE f == a + 1
<1> DEFINE l == a + k
<1> DEFINE p == SubSeq(q, f, l)
<1>3. f \in Int /\ l \in Int /\ \A i \in f .. l : q[i] \in S
  BY <1>2
<1> HIDE DEF f, l
<1>4. /\ p \in Seq(S)
      /\ Len(p) = IF f <= l THEN l - f + 1 ELSE 0
      /\ \A i \in 1 .. l - f + 1 : p[i] = q[f + i - 1]
  BY <1>3, SubSeqProperties
<1> HIDE DEF p
<1>5. Len(p) = k
  BY <1>4 DEF f, l
<1>6. \A j \in 1 .. k : p[j] = q[a + j]
  BY <1>4 DEF f, l
<1> QED BY <1>4, <1>5, <1>6 DEF p, f, l

LEMMA JoinFacts ==
  ASSUME NEW S, NEW q \in Seq(S), NEW p \in Seq(S)
  PROVE  /\ q \o p \in Seq(S) /\ Len(q) \in Nat /\ Len(p) \in Nat
         /\ Len(q \o p) = Len(q) + Len(p)
         /\ \A j \in 1 .. Len(q) : (q \o p)[j] = q[j]
         /\ \A j \in 1 .. Len(p) : (q \o p)[Len(q) + j] = p[j]
<1>1. Len(q) \in Nat /\ Len(p) \in Nat
  BY LenProperties
<1>2. /\ q \o p \in Seq(S) /\ Len(q \o p) = Len(q) + Len(p)
      /\ \A i \in 1 .. Len(q) + Len(p) :
           (q \o p)[i] = IF i <= Len(q) THEN q[i] ELSE p[i - Len(q)]
  BY ConcatProperties
<1> DEFINE r == q \o p
<1> HIDE DEF r
<1>3. ASSUME NEW j \in 1 .. Len(p) PROVE r[Len(q) + j] = p[j]
  <2>1. Len(q) + j \in 1 .. Len(q) + Len(p) /\ ~(Len(q) + j <= Len(q)) /\ (Len(q) + j) - Len(q) = j
    BY <1>1
  <2> QED BY <1>2, <2>1 DEF r
<1>4. ASSUME NEW j \in 1 .. Len(q) PROVE r[j] = q[j]
  <2>1. j \in 1 .. Len(q) + Len(p) /\ j <= Len(q)
    BY <1>1
  <2> QED BY <1>2, <2>1 DEF r
<1> QED BY <1>1, <1>2, <1>3, <1>4 DEF r
-----------------------------------------------------------------------------
(* What the kernel takes and gives. *)

LEMMA LesserOfTwo ==
  ASSUME NEW a \in Int, NEW b \in Int
  PROVE  Min({a, b}) \in Int /\ Min({a, b}) <= a /\ Min({a, b}) <= b
           /\ (Min({a, b}) = a \/ Min({a, b}) = b)
<1> DEFINE S == {a, b}
<1>1. \E x \in S : \A y \in S : x <= y
  <2>1. CASE a <= b
    BY <2>1
  <2>2. CASE ~(a <= b)
    BY <2>2
  <2> QED BY <2>1, <2>2
<1>2. Min(S) \in S /\ \A y \in S : Min(S) <= y
  BY <1>1 DEF Min
<1> QED BY <1>2

LEMMA SendableFacts ==
  ASSUME TypeOK, NEW len \in Nat, NEW k \in Sendable(len)
  PROVE  k \in Nat /\ k >= 1 /\ k <= len /\ Len(wire) \in Nat /\ Len(wire) + k <= Capacity
<1>1. Len(wire) \in Nat /\ Capacity - Len(wire) \in Int /\ Capacity \in Nat
  BY ChannelAssumption, LenProperties DEF TypeOK
<1> DEFINE room == Capacity - Len(wire)
<1> DEFINE m == Min({len, room})
<1>2. k \in 1 .. m
  BY DEF Sendable
<1>3. len \in Int /\ room \in Int
  BY <1>1
<1>4. m \in Int /\ m <= len /\ m <= room
  BY <1>3, LesserOfTwo, Zenon
<1> HIDE DEF m
<1> QED BY <1>1, <1>2, <1>4

LEMMA ReceivableFacts ==
  ASSUME TypeOK, NEW len \in Int, NEW k \in Receivable(len)
  PROVE  k \in Nat /\ k >= 1 /\ k <= len /\ Len(wire) \in Nat /\ k <= Len(wire)
<1>1. Len(wire) \in Nat
  BY LenProperties DEF TypeOK
<1> DEFINE m == Min({len, Len(wire)})
<1>2. k \in 1 .. m
  BY DEF Receivable
<1>3. Len(wire) \in Int
  BY <1>1
<1>4. m \in Int /\ m <= len /\ m <= Len(wire)
  BY <1>3, LesserOfTwo, Zenon
<1> HIDE DEF m
<1> QED BY <1>1, <1>2, <1>4

\* Bytes are added at the end of the wire, and taken from its beginning.
LEMMA WireGrows ==
  ASSUME TypeOK, NEW q \in Seq(Byte), NEW k \in Nat, NEW a \in Nat, a + k <= Len(q),
         Len(wire) + k <= Capacity, wire' = wire \o SubSeq(q, a + 1, a + k)
  PROVE  /\ wire' \in Seq(Byte) /\ Len(wire') <= Capacity
         /\ Len(wire) \in Nat /\ Len(wire') = Len(wire) + k
         /\ \A j \in 1 .. Len(wire) : wire'[j] = wire[j]
         /\ \A j \in 1 .. k : wire'[Len(wire) + j] = q[a + j]
<1> DEFINE p == SubSeq(q, a + 1, a + k)
<1>1. p \in Seq(Byte) /\ Len(p) = k /\ \A j \in 1 .. k : p[j] = q[a + j]
  BY PrefixFacts
<1>2. wire \in Seq(Byte) /\ wire' = wire \o p
  BY DEF TypeOK
<1> HIDE DEF p
<1>3. /\ wire \o p \in Seq(Byte) /\ Len(wire) \in Nat
      /\ Len(wire \o p) = Len(wire) + Len(p)
      /\ \A j \in 1 .. Len(wire) : (wire \o p)[j] = wire[j]
      /\ \A j \in 1 .. Len(p) : (wire \o p)[Len(wire) + j] = p[j]
  <2>1. wire \in Seq(Byte) /\ p \in Seq(Byte)
    BY <1>1, <1>2
  <2> QED BY <2>1, JoinFacts
<1> QED BY <1>1, <1>2, <1>3

LEMMA WireShrinks ==
  ASSUME TypeOK, NEW k \in Nat, k <= Len(wire), Receive(k)
  PROVE  /\ wire' \in Seq(Byte) /\ Len(wire') <= Capacity
         /\ Len(wire) \in Nat /\ Len(wire') = Len(wire) - k
         /\ \A j \in 1 .. Len(wire') : wire'[j] = wire[k + j]
<1> DEFINE n == Len(wire) - k
<1>1. Len(wire) \in Nat /\ n \in Nat /\ k + n = Len(wire) /\ wire \in Seq(Byte)
      /\ Len(wire) <= Capacity /\ Capacity \in Nat
  BY LenProperties, ChannelAssumption DEF TypeOK
<1>2. wire' = SubSeq(wire, k + 1, Len(wire))
  BY DEF Receive
<1>3. wire' = SubSeq(wire, k + 1, k + n)
  BY <1>1, <1>2
<1> HIDE DEF n
<1>4. wire' \in Seq(Byte) /\ Len(wire') = n /\ \A j \in 1 .. n : wire'[j] = wire[k + j]
  <2>1. k + n <= Len(wire) /\ wire \in Seq(Byte) /\ n \in Nat
    BY <1>1
  <2> DEFINE p == SubSeq(wire, k + 1, k + n)
  <2>2. p \in Seq(Byte) /\ Len(p) = n /\ \A j \in 1 .. n : p[j] = wire[k + j]
    BY <2>1, PrefixFacts
  <2>3. wire' = p
    BY <1>3
  <2> HIDE DEF p
  <2> QED BY <2>2, <2>3
<1>5. n = Len(wire) - k
  BY DEF n
<1> QED BY <1>1, <1>4, <1>5
-----------------------------------------------------------------------------
(* Types. *)

SenderState == [run : BOOLEAN, state : {"id", "idle", "size", "body"}, msg : Seq(Byte), write : Nat]

ReceiverState ==
  [run : BOOLEAN, state : {"id", "size", "body", "full"}, size : Nat, read : Seq(Byte)]

LEMMA TypeFacts ==
  ASSUME TypeOK
  PROVE  /\ sendQueue \in Seq(Message) /\ Len(sendQueue) \in Nat
         /\ sent \in Seq(Message) /\ Len(sent) \in Nat
         /\ delivered \in Seq(Seq(Byte)) /\ Len(delivered) \in Nat
         /\ untold \in Nat /\ tasks \in Nat /\ MaxSent \in Nat
         /\ snd \in SenderState /\ snd.msg \in Seq(Byte) /\ Len(snd.msg) \in Nat
         /\ snd.write \in Nat /\ snd.write <= Len(snd.msg)
         /\ wire \in Seq(Byte) /\ Len(wire) \in Nat /\ \A j \in 1 .. Len(wire) : wire[j] \in Byte
         /\ rcv \in ReceiverState /\ rcv.read \in Seq(Byte) /\ Len(rcv.read) \in Nat
         /\ rcv.size \in Nat /\ Len(rcv.read) <= rcv.size
<1>1. sendQueue \in Seq(Message) /\ sent \in Seq(Message) /\ delivered \in Seq(Seq(Byte))
      /\ wire \in Seq(Byte)
  BY DEF TypeOK
<1>2. untold \in Nat /\ tasks \in Nat /\ MaxSent \in Nat
  BY ChannelAssumption DEF TypeOK
<1>3. snd \in SenderState /\ snd.msg \in Seq(Byte) /\ snd.write \in Nat
      /\ snd.write <= Len(snd.msg)
  BY DEF TypeOK, SenderState
<1>4. rcv \in ReceiverState /\ rcv.read \in Seq(Byte) /\ rcv.size \in Nat
      /\ Len(rcv.read) <= rcv.size
  BY DEF TypeOK, ReceiverState
<1>5. /\ Len(sendQueue) \in Nat /\ Len(sent) \in Nat /\ Len(delivered) \in Nat
      /\ Len(wire) \in Nat /\ Len(snd.msg) \in Nat /\ Len(rcv.read) \in Nat
  BY <1>1, <1>3, <1>4, LenProperties
<1>6. \A j \in 1 .. Len(wire) : wire[j] \in Byte
  BY <1>1, ElementOfSeq
<1> QED BY <1>1, <1>2, <1>3, <1>4, <1>5, <1>6

LEMMA TypeInit == Init => TypeOK /\ Counted
<1> SUFFICES ASSUME Init PROVE TypeOK /\ Counted
  OBVIOUS
<1>1. <<>> \in Seq(Message) /\ <<>> \in Seq(Byte) /\ <<>> \in Seq(Seq(Byte)) /\ Len(<<>>) = 0
  BY EmptySeq
<1>2. 0 \in 0 .. MaxSent /\ 0 <= Capacity /\ 0 <= MaxSent
  BY ChannelAssumption
<1>3. /\ snd \in SenderState /\ snd.write = 0 /\ snd.msg = <<>>
      /\ rcv \in ReceiverState /\ rcv.read = <<>> /\ rcv.size = 0
  BY <1>1 DEF Init, SenderState, ReceiverState
<1>4. 0 <= Len(<<>>) /\ Len(<<>>) <= 0 /\ Len(<<>>) <= Capacity /\ 0 + 0 <= Len(<<>>)
      /\ Len(<<>>) <= MaxSent
  BY <1>1, <1>2
<1>5. TypeOK
  BY <1>1, <1>2, <1>3, <1>4 DEF Init, TypeOK, SenderState, ReceiverState
<1> QED BY <1>4, <1>5 DEF Init, Counted

\* The wire and the ends of a step in which only they change.
LEMMA EndsTyped ==
  ASSUME TypeOK, Counted, UNCHANGED <<untold, tasks, sent>>,
         sendQueue' \in Seq(Message), delivered' \in Seq(Seq(Byte)),
         snd' \in SenderState, snd'.write <= Len(snd'.msg),
         wire' \in Seq(Byte), Len(wire') <= Capacity,
         readable' \in BOOLEAN, torn' \in BOOLEAN,
         rcv' \in ReceiverState, Len(rcv'.read) <= rcv'.size
  PROVE  TypeOK' /\ Counted'
  BY DEF TypeOK, Counted, SenderState, ReceiverState

LEMMA SendWholeTyped ==
  ASSUME TypeOK, Counted, NEW bytes \in Seq(Byte), NEW next \in {"idle", "body"},
         SendWhole(bytes, next)
  PROVE  TypeOK' /\ Counted'
<1>1. PICK k \in Sendable(Len(bytes)) :
        /\ Transmit(SubSeq(bytes, 1, k))
        /\ torn' = (k < Len(bytes))
        /\ snd' = [snd EXCEPT !.state = IF k < Len(bytes) THEN @ ELSE next]
  BY DEF SendWhole
<1>2. Len(bytes) \in Nat
  BY LenProperties
<1>3. k \in Nat /\ 0 + k <= Len(bytes) /\ Len(wire) + k <= Capacity
  BY <1>1, <1>2, SendableFacts
<1>4. wire' = wire \o SubSeq(bytes, 0 + 1, 0 + k)
  BY <1>1, <1>3 DEF Transmit
<1>5. wire' \in Seq(Byte) /\ Len(wire') <= Capacity
  BY <1>3, <1>4, WireGrows
<1>6. snd' \in SenderState /\ snd'.write = snd.write /\ snd'.msg = snd.msg
  BY <1>1, TypeFacts DEF SenderState
<1>7. UNCHANGED <<untold, tasks, sent, sendQueue, delivered, rcv>> /\ readable' \in BOOLEAN
  BY <1>1 DEF SendWhole, Transmit
<1> QED BY <1>1, <1>5, <1>6, <1>7, TypeFacts, EndsTyped

LEMMA HostOrderNat ==
  ASSUME TypeOK, Len(wire) >= 4
  PROVE  HostOrder(wire) \in Nat
<1>1. Len(wire) \in Nat /\ \A j \in 1 .. Len(wire) : wire[j] \in Nat
  <2>1. \A b \in Byte : b \in Nat
    BY DEF Byte
  <2> QED BY <2>1, TypeFacts
<1>2. 1 \in 1 .. Len(wire) /\ 2 \in 1 .. Len(wire) /\ 3 \in 1 .. Len(wire) /\ 4 \in 1 .. Len(wire)
  BY <1>1
<1>3. wire[1] \in Nat /\ wire[2] \in Nat /\ wire[3] \in Nat /\ wire[4] \in Nat
  BY <1>1, <1>2
<1> DEFINE x == wire[1] * 256 + wire[2]
<1> DEFINE y == x * 256 + wire[3]
<1>4. x \in Nat
  BY <1>3
<1> HIDE DEF x
<1>5. y \in Nat
  BY <1>3, <1>4
<1> HIDE DEF y
<1>6. y * 256 + wire[4] \in Nat
  BY <1>3, <1>5
<1> QED BY <1>6 DEF HostOrder, x, y

\* What is being sent was pushed as a message.
LEMMA SendingMessage ==
  ASSUME IInv, ~torn, snd.state \in {"size", "body"}
  PROVE  Begun \in 1 .. Len(sent) /\ snd.msg = sent[Begun] /\ snd.msg \in Message
<1>1. Begun >= 1 /\ snd.msg = sent[Begun] /\ Begun \in Nat
  BY DEF IInv, FrameInv, Framed, SenderAt
<1>2. sent \in Seq(Message) /\ Len(sent) \in Nat /\ Len(sendQueue) \in Nat
  BY TypeFacts DEF IInv
<1>3. Begun \in 1 .. Len(sent)
  BY <1>1, <1>2 DEF Begun
<1> QED BY <1>1, <1>2, <1>3, ElementOfSeq

-----------------------------------------------------------------------------
(* The steps that move parts of a body. *)

\* k more bytes of the message have gone to the wire.
SentPart(k) ==
  /\ snd.write + k \in Nat /\ snd.write + k <= Len(snd.msg)
  /\ wire' \in Seq(Byte) /\ Len(wire') <= Capacity /\ Len(wire') = Len(wire) + k
  /\ \A j \in 1 .. Len(wire) : wire'[j] = wire[j]
  /\ \A j \in 1 .. k : wire'[Len(wire) + j] = snd.msg[snd.write + j]
  /\ snd' = [snd EXCEPT !.write = snd.write + k,
               !.state = IF snd.write + k = Len(snd.msg) THEN "idle" ELSE @]
  /\ snd.state = "body"
  /\ UNCHANGED <<untold, tasks, sent, sendQueue, delivered, rcv, torn>>

LEMMA SendBodyStep ==
  ASSUME TypeOK, SendBody
  PROVE  \E k \in Nat \ {0} : SentPart(k)
<1> DEFINE len == Min({Chunk, Len(snd.msg) - snd.write})
<1>1. PICK k \in Sendable(len) :
        /\ Transmit(SubSeq(snd.msg, snd.write + 1, snd.write + k))
        /\ snd' = [snd EXCEPT !.write = @ + k,
                     !.state = IF snd.write + k = Len(snd.msg) THEN "idle" ELSE @]
  BY DEF SendBody
<1> DEFINE w == snd.write
<1> DEFINE n == Len(snd.msg)
<1> DEFINE left == n - w
<1>2. w \in Nat /\ n \in Nat /\ w <= n /\ Chunk \in Nat \ {0}
  BY TypeFacts, ChannelAssumption
<1>3. len = Min({Chunk, left})
  OBVIOUS
<1> HIDE DEF w, n, len
<1>4. left \in Nat /\ w + left = n
  BY <1>2
<1> HIDE DEF left
<1>5. Chunk \in Int /\ left \in Int
  BY <1>2, <1>4
<1>6. len \in Int /\ len <= left /\ (len = Chunk \/ len = left)
  BY <1>3, <1>5, LesserOfTwo, Zenon
<1>7. len \in Nat
  BY <1>2, <1>4, <1>6
<1>8. k \in Nat \ {0} /\ k <= len /\ Len(wire) + k <= Capacity
  BY <1>1, <1>7, SendableFacts
<1>9. w + k <= n /\ w + k \in Nat
  BY <1>2, <1>4, <1>6, <1>7, <1>8
<1>10. wire' = wire \o SubSeq(snd.msg, w + 1, w + k) /\ w + k <= Len(snd.msg)
  BY <1>1, <1>9 DEF Transmit, w, n
<1>11. /\ wire' \in Seq(Byte) /\ Len(wire') <= Capacity
       /\ Len(wire') = Len(wire) + k
       /\ \A j \in 1 .. Len(wire) : wire'[j] = wire[j]
       /\ \A j \in 1 .. k : wire'[Len(wire) + j] = snd.msg[w + j]
  <2>1. snd.msg \in Seq(Byte) /\ k \in Nat
    BY <1>8, TypeFacts
  <2> QED BY <1>2, <1>8, <1>10, <2>1, WireGrows
<1>12. UNCHANGED <<untold, tasks, sent, sendQueue, delivered, rcv, torn>> /\ snd.state = "body"
  BY <1>1 DEF SendBody, Transmit
<1> QED BY <1>1, <1>8, <1>9, <1>10, <1>11, <1>12 DEF SentPart, w

\* k more bytes of the message have come from the wire.
ReadPart(k) ==
  /\ k <= Len(wire)
  /\ wire' \in Seq(Byte) /\ Len(wire') <= Capacity /\ Len(wire') = Len(wire) - k
  /\ \A j \in 1 .. Len(wire') : wire'[j] = wire[k + j]
  /\ rcv'.read \in Seq(Byte) /\ Len(rcv'.read) = Len(rcv.read) + k /\ Len(rcv.read) + k <= rcv.size
  /\ \A j \in 1 .. Len(rcv.read) : rcv'.read[j] = rcv.read[j]
  /\ \A j \in 1 .. k : rcv'.read[Len(rcv.read) + j] = wire[j]
  /\ rcv' \in ReceiverState /\ rcv'.size = rcv.size
  /\ rcv'.state = IF Len(rcv.read) + k >= rcv.size THEN "full" ELSE "body"
  /\ rcv.state = "body"
  /\ UNCHANGED <<untold, tasks, readable, sent, sendQueue, delivered, snd, torn>>

LEMMA RecvBodyStep ==
  ASSUME TypeOK, RecvBody
  PROVE  \E k \in Nat \ {0} : ReadPart(k)
<1>1. PICK k \in Receivable(ToRead) :
        /\ Receive(k)
        /\ rcv' = [rcv EXCEPT !.read = @ \o SubSeq(wire, 1, k),
                     !.state = IF Len(rcv.read) + k >= rcv.size THEN "full" ELSE @]
  BY DEF RecvBody
<1> DEFINE r == Len(rcv.read)
<1> DEFINE size == rcv.size
<1> DEFINE left == size - r
<1>2. r \in Nat /\ size \in Nat /\ Chunk \in Int /\ ToRead = Min({Chunk, left})
  BY TypeFacts, ChannelAssumption DEF ToRead
<1> HIDE DEF r, size
<1>3. left \in Int /\ r + left = size
  BY <1>2
<1> HIDE DEF left
<1>4. ToRead \in Int /\ ToRead <= left
  BY <1>2, <1>3, LesserOfTwo, Zenon
<1>5. k \in Nat \ {0} /\ k <= ToRead /\ k <= Len(wire) /\ Len(wire) \in Nat
  BY <1>1, <1>4, ReceivableFacts
<1>6. r + k <= size
  BY <1>2, <1>3, <1>4, <1>5
<1>7. /\ wire' \in Seq(Byte) /\ Len(wire') <= Capacity
      /\ Len(wire') = Len(wire) - k
      /\ \A j \in 1 .. Len(wire') : wire'[j] = wire[k + j]
  BY <1>1, <1>5, WireShrinks
<1> DEFINE p == SubSeq(wire, 1, k)
<1>8. p \in Seq(Byte) /\ Len(p) = k /\ \A j \in 1 .. k : p[j] = wire[j]
  <2>1. 0 + k <= Len(wire) /\ wire \in Seq(Byte) /\ 0 \in Nat /\ k \in Nat
    BY <1>5, TypeFacts
  <2> DEFINE q == SubSeq(wire, 0 + 1, 0 + k)
  <2>2. q \in Seq(Byte) /\ Len(q) = k /\ \A j \in 1 .. k : q[j] = wire[0 + j]
    BY <2>1, PrefixFacts
  <2>3. q = p
    BY <1>5
  <2> HIDE DEF q, p
  <2>4. \A j \in 1 .. k : 0 + j = j
    OBVIOUS
  <2> QED BY <2>2, <2>3, <2>4
<1>9. rcv' = [rcv EXCEPT !.read = rcv.read \o p,
                !.state = IF r + k >= size THEN "full" ELSE @] /\ rcv.state = "body"
  BY <1>1 DEF RecvBody, r, size
<1> HIDE DEF p
<1> DEFINE q == rcv.read \o p
<1>10. /\ q \in Seq(Byte) /\ Len(q) = Len(rcv.read) + k
       /\ \A j \in 1 .. Len(rcv.read) : q[j] = rcv.read[j]
       /\ \A j \in 1 .. k : q[Len(rcv.read) + j] = p[j]
  <2>1. rcv.read \in Seq(Byte) /\ p \in Seq(Byte)
    BY <1>8, TypeFacts
  <2>2. /\ q \in Seq(Byte) /\ Len(q) = Len(rcv.read) + Len(p)
        /\ \A j \in 1 .. Len(rcv.read) : q[j] = rcv.read[j]
        /\ \A j \in 1 .. Len(p) : q[Len(rcv.read) + j] = p[j]
    BY <2>1, JoinFacts
  <2> HIDE DEF q
  <2> QED BY <1>8, <2>2
<1> HIDE DEF q
<1>11. /\ rcv'.read = q /\ rcv'.size = rcv.size /\ rcv' \in ReceiverState
       /\ rcv'.state = IF r + k >= size THEN "full" ELSE "body"
  BY <1>9, <1>10, TypeFacts DEF ReceiverState, q
<1>12. UNCHANGED <<untold, tasks, readable, sent, sendQueue, delivered, snd, torn>>
  BY <1>1 DEF RecvBody, Receive
<1>13. ReadPart(k)
  BY <1>5, <1>6, <1>7, <1>8, <1>9, <1>10, <1>11, <1>12 DEF ReadPart, r, size
<1> QED BY <1>5, <1>13
-----------------------------------------------------------------------------
LEMMA TypeNext == IInv /\ [Next]_vars => TypeOK' /\ Counted'
<1> SUFFICES ASSUME IInv, [Next]_vars PROVE TypeOK' /\ Counted'
  OBVIOUS
<1> TypeOK /\ Counted
  BY DEF IInv
<1>1. ASSUME NEW m \in Message, EnqueueSendMessage(m) PROVE TypeOK' /\ Counted'
  <2>1. sendQueue' \in Seq(Message) /\ sent' \in Seq(Message) /\ Len(sent') = Len(sent) + 1
    <3>1. sendQueue' = Append(sendQueue, m) /\ sent' = Append(sent, m)
      BY <1>1 DEF EnqueueSendMessage
    <3>2. sendQueue \in Seq(Message) /\ sent \in Seq(Message)
      BY TypeFacts
    <3>3. Append(sendQueue, m) \in Seq(Message)
      BY <3>2, AppendFacts
    <3>4. Append(sent, m) \in Seq(Message) /\ Len(Append(sent, m)) = Len(sent) + 1
      BY <3>2, AppendFacts
    <3> QED BY <3>1, <3>3, <3>4
  <2>2. untold' = untold + 1 /\ tasks' = tasks /\ Len(sent) < MaxSent /\ untold + tasks <= Len(sent)
        /\ UNCHANGED <<snd, wire, readable, rcv, delivered, torn>>
    BY <1>1 DEF EnqueueSendMessage, Counted
  <2>3. untold' + tasks' <= Len(sent') /\ Len(sent') <= MaxSent /\ untold' \in 0 .. MaxSent
    <3>1. \A u, t, l, n \in Nat : u + t <= l /\ l < n
            => (u + 1) + t <= l + 1 /\ l + 1 <= n /\ u + 1 \in 0 .. n
      OBVIOUS
    <3>2. (untold + 1) + tasks <= Len(sent) + 1 /\ Len(sent) + 1 <= MaxSent
          /\ untold + 1 \in 0 .. MaxSent
      BY <2>2, <3>1, TypeFacts
    <3> QED BY <2>1, <2>2, <3>2
  <2> QED BY <2>1, <2>2, <2>3 DEF TypeOK, Counted
<1>2. CASE EnqueueEvent
  <2>1. untold > 0 /\ untold' = untold - 1 /\ tasks' = tasks + 1 /\ untold + tasks <= Len(sent)
        /\ Len(sent) <= MaxSent
        /\ UNCHANGED <<sendQueue, snd, wire, readable, rcv, sent, delivered, torn>>
    BY <1>2 DEF EnqueueEvent, Counted
  <2>2. untold' + tasks' <= Len(sent') /\ untold' \in 0 .. MaxSent /\ tasks' \in 0 .. MaxSent
    <3>1. \A u, t, l, n \in Nat : u > 0 /\ u + t <= l /\ l <= n
            => (u - 1) + (t + 1) <= l /\ u - 1 \in 0 .. n /\ t + 1 \in 0 .. n
      OBVIOUS
    <3>2. (untold - 1) + (tasks + 1) <= Len(sent) /\ untold - 1 \in 0 .. MaxSent
          /\ tasks + 1 \in 0 .. MaxSent
      BY <2>1, <3>1, TypeFacts
    <3> QED BY <2>1, <3>2
  <2> QED BY <2>1, <2>2 DEF TypeOK, Counted
<1>3. CASE TaskArrives
  <2>1. /\ tasks > 0 /\ tasks' = tasks - 1 /\ untold' = untold /\ untold + tasks <= Len(sent)
        /\ Len(sent) <= MaxSent /\ snd' = [snd EXCEPT !.run = TRUE]
        /\ UNCHANGED <<sendQueue, wire, readable, rcv, sent, delivered, torn>>
    BY <1>3 DEF TaskArrives, Counted
  <2>2. untold' + tasks' <= Len(sent') /\ tasks' \in 0 .. MaxSent
    BY <2>1, TypeFacts, SMTT(30)
  <2>3. snd' \in SenderState /\ snd'.write <= Len(snd'.msg)
    BY <2>1, TypeFacts DEF SenderState
  <2> QED BY <2>1, <2>2, <2>3 DEF TypeOK, Counted, SenderState
<1>4. CASE SendId
  <2>1. MyId \in Seq(Byte)
    BY ChannelAssumption DEF Byte
  <2> QED BY <1>4, <2>1, SendWholeTyped DEF SendId
<1>5. CASE PopMessage
  <2>1. Head(sendQueue) \in Message /\ sendQueue' \in Seq(Message)
    BY <1>5, TypeFacts, TailFacts DEF PopMessage
  <2>2. Head(sendQueue) \in Seq(Byte) /\ Len(Head(sendQueue)) \in Nat
    BY <2>1, MessageFacts
  <2>3. snd' = Begin(Head(sendQueue))
        /\ UNCHANGED <<untold, tasks, wire, readable, rcv, sent, delivered, torn>>
    BY <1>5 DEF PopMessage
  <2>4. snd' \in SenderState /\ snd'.write <= Len(snd'.msg)
    BY <2>2, <2>3 DEF Begin, SenderState
  <2> QED BY <2>1, <2>3, <2>4, TypeFacts, EndsTyped DEF TypeOK
<1>6. CASE ~torn /\ SendSize
  <2>1. snd.msg \in Message
    BY <1>6, SendingMessage DEF SendSize
  <2>2. NetworkOrder(Len(snd.msg)) \in Seq(Byte)
    BY <2>1, MessageFacts, SizeRoundTrip
  <2> QED BY <1>6, <2>2, SendWholeTyped DEF SendSize
<1>7. CASE SendBody
  <2>1. PICK k \in Nat \ {0} : SentPart(k)
    BY <1>7, SendBodyStep
  <2>2. snd' \in SenderState /\ snd'.write <= Len(snd'.msg)
    BY <2>1, TypeFacts DEF SentPart, SenderState
  <2>3. readable' \in BOOLEAN
    BY <1>7 DEF SendBody, Transmit
  <2> QED BY <2>1, <2>2, <2>3, TypeFacts, EndsTyped DEF SentPart, TypeOK
<1>8. CASE EndSending
  <2>1. snd' \in SenderState /\ snd'.write <= Len(snd'.msg)
    BY <1>8, TypeFacts DEF EndSending, SenderState
  <2> QED BY <1>8, <2>1, TypeFacts, EndsTyped DEF EndSending, TypeOK
<1>9. CASE BecomesReadable
  <2>1. rcv' \in ReceiverState /\ Len(rcv'.read) <= rcv'.size
    BY <1>9, TypeFacts DEF BecomesReadable, ReceiverState
  <2> QED BY <1>9, <2>1, TypeFacts, EndsTyped DEF BecomesReadable, TypeOK
<1>10. CASE RecvId
  <2>1. PICK k \in Receivable(2) :
          /\ Receive(k) /\ torn' = (k < 2)
          /\ rcv' = [rcv EXCEPT !.state = IF k < 2 THEN @ ELSE "size"]
    BY <1>10 DEF RecvId
  <2>2. wire' \in Seq(Byte) /\ Len(wire') <= Capacity
    BY <2>1, ReceivableFacts, WireShrinks
  <2>3. rcv' \in ReceiverState /\ Len(rcv'.read) <= rcv'.size
    BY <2>1, TypeFacts DEF ReceiverState
  <2> QED BY <1>10, <2>1, <2>2, <2>3, TypeFacts, EndsTyped, SMTT(30) DEF RecvId, Receive, TypeOK
<1>11. CASE RecvSize
  <2>1. PICK k \in Receivable(4) :
          /\ Receive(k) /\ torn' = (k < 4)
          /\ rcv' = IF k < 4 THEN rcv
                    ELSE [rcv EXCEPT !.state = "body", !.size = HostOrder(wire), !.read = <<>>]
    BY <1>11 DEF RecvSize
  <2>2. k \in Nat /\ k <= Len(wire) /\ Len(wire) \in Nat
        /\ wire' \in Seq(Byte) /\ Len(wire') <= Capacity
    BY <2>1, ReceivableFacts, WireShrinks
  <2>3. rcv' \in ReceiverState /\ Len(rcv'.read) <= rcv'.size
    <3>1. CASE k < 4
      BY <2>1, <3>1, TypeFacts
    <3>2. CASE ~(k < 4)
      <4> DEFINE h == HostOrder(wire)
      <4>1. h \in Nat
        BY <2>2, <3>2, HostOrderNat
      <4>2. <<>> \in Seq(Byte) /\ Len(<<>>) = 0
        BY EmptySeq
      <4>3. rcv' = [rcv EXCEPT !.state = "body", !.size = h, !.read = <<>>]
        BY <2>1, <3>2
      <4> HIDE DEF h
      <4>4. rcv' \in ReceiverState /\ rcv'.read = <<>> /\ rcv'.size = h
        BY <4>1, <4>2, <4>3, TypeFacts DEF ReceiverState
      <4> QED BY <4>1, <4>2, <4>4
    <3> QED BY <3>1, <3>2
  <2>4. torn' \in BOOLEAN /\ readable' = readable
        /\ UNCHANGED <<sendQueue, untold, tasks, snd, sent, delivered>>
    BY <1>11, <2>1 DEF RecvSize, Receive
  <2> QED BY <2>2, <2>3, <2>4, TypeFacts, EndsTyped DEF TypeOK
<1>12. CASE RecvBody
  <2>1. PICK k \in Nat \ {0} : ReadPart(k)
    BY <1>12, RecvBodyStep
  <2>2. rcv' \in ReceiverState /\ Len(rcv'.read) <= rcv'.size
    BY <2>1, TypeFacts DEF ReadPart, ReceiverState
  <2> QED BY <2>1, <2>2, TypeFacts, EndsTyped DEF ReadPart, TypeOK
<1>13. CASE Deliver
  <2>1. delivered' \in Seq(Seq(Byte))
    BY <1>13, TypeFacts, AppendFacts DEF Deliver
  <2>2. rcv' \in ReceiverState /\ Len(rcv'.read) <= rcv'.size
    BY <1>13, TypeFacts DEF Deliver, NextMessage, ReceiverState
  <2> QED BY <1>13, <2>1, <2>2, TypeFacts, EndsTyped DEF Deliver, TypeOK
<1>14. CASE EndReceiving
  <2>1. rcv' \in ReceiverState /\ Len(rcv'.read) <= rcv'.size
    BY <1>14, TypeFacts DEF EndReceiving, ReceiverState
  <2> QED BY <1>14, <2>1, TypeFacts, EndsTyped DEF EndReceiving, TypeOK
<1>15. CASE UNCHANGED vars
  BY <1>15 DEF TypeOK, Counted, vars
<1> QED BY <1>1, <1>2, <1>3, <1>4, <1>5, <1>6, <1>7, <1>8, <1>9, <1>10, <1>11, <1>12, <1>13,
           <1>14, <1>15 DEF Next, SenderStep, ReceiverStep
-----------------------------------------------------------------------------
(* The frames, while only one end moves. *)

LEMMA FrameFacts ==
  ASSUME IInv, ~torn
  PROVE  /\ Begun \in Nat /\ Received \in Nat /\ Received <= Begun /\ Len(sent) \in Nat
         /\ Begun <= Len(sent) /\ Len(sent) = Begun + Len(sendQueue) /\ Len(sendQueue) \in Nat
         /\ \A j \in 1 .. Begun : sent[j] \in Message /\ Len(sent[j]) \in Nat /\ Len(sent[j]) >= 1
         /\ Len(wire) \in Nat
<1>1. /\ sent \in Seq(Message) /\ Len(sent) \in Nat /\ Len(sendQueue) \in Nat
      /\ Len(delivered) \in Nat /\ Len(wire) \in Nat /\ Begun \in Nat /\ Received <= Begun
  BY TypeFacts DEF IInv, FrameInv
<1>2. Begun <= Len(sent) /\ Len(sent) = Begun + Len(sendQueue)
  BY <1>1 DEF Begun
<1>3. ASSUME NEW j \in 1 .. Begun
      PROVE  sent[j] \in Message /\ Len(sent[j]) \in Nat /\ Len(sent[j]) >= 1
  <2>1. j \in 1 .. Len(sent)
    BY <1>1, <1>2
  <2>2. sent[j] \in Message
    BY <1>1, <2>1, ElementOfSeq
  <2> QED BY <2>2, MessageFacts
<1> QED BY <1>1, <1>2, <1>3 DEF Received

\* An end starts or stops.
LEMMA NothingMoves ==
  ASSUME FrameInv, UNCHANGED <<sendQueue, sent, delivered, wire>>,
         snd'.state = snd.state, snd'.msg = snd.msg, snd'.write = snd.write,
         rcv'.state = rcv.state, rcv'.size = rcv.size, rcv'.read = rcv.read
  PROVE  FrameInv'
<1>1. Begun' = Begun /\ Received' = Received /\ Places' = Places
  BY DEF Begun, Received, Places
<1>2. PICK at \in Places : Framed(at)
  BY DEF FrameInv
<1>3. SenderAt(at)'
  BY <1>1, <1>2 DEF Framed, SenderAt
<1>4. ReceiverAt(at)'
  BY <1>1, <1>2 DEF Framed, ReceiverAt
<1>5. FramesInOrder(at)' /\ SizesOnWire(at)' /\ BodiesOnWire(at)'
  BY <1>1, <1>2 DEF Framed, FramesInOrder, SizesOnWire, BodiesOnWire
<1>6. QueueIsRest'
  BY <1>1 DEF FrameInv, QueueIsRest
<1> QED BY <1>1, <1>2, <1>3, <1>4, <1>5, <1>6 DEF FrameInv, Framed

LEMMA EnqueueFrames ==
  ASSUME IInv, ~torn, NEW m \in Message, EnqueueSendMessage(m)
  PROVE  FrameInv'
<1>1. /\ sendQueue' = Append(sendQueue, m) /\ sent' = Append(sent, m)
      /\ UNCHANGED <<snd, wire, rcv, delivered>> /\ FrameInv
      /\ sendQueue \in Seq(Message) /\ sent \in Seq(Message)
  BY TypeFacts DEF EnqueueSendMessage, IInv
<1> DEFINE n == Len(sent)
<1> DEFINE l == Len(sendQueue)
<1>2. /\ Len(sent') = n + 1 /\ \A j \in 1 .. n : sent'[j] = sent[j]
      /\ sent'[n + 1] = m
  BY <1>1, AppendFacts
<1>3. /\ Len(sendQueue') = l + 1 /\ \A j \in 1 .. l : sendQueue'[j] = sendQueue[j]
      /\ sendQueue'[l + 1] = m
  BY <1>1, AppendFacts
<1>4. n \in Nat /\ l \in Nat /\ Begun \in Nat /\ n = Begun + l /\ Received \in Nat /\ Received <= Begun
  BY FrameFacts
<1>5. Begun' = Begun
  <2>1. Begun' = (n + 1) - (l + 1)
    BY <1>2, <1>3 DEF Begun
  <2>2. \A x, y \in Nat : (x + 1) - (y + 1) = x - y
    OBVIOUS
  <2> QED BY <1>4, <2>1, <2>2 DEF Begun
<1> HIDE DEF n, l
<1>6. Received' = Received /\ Places' = Places
  BY <1>1, <1>5 DEF Received, Places
<1>7. \A j \in 1 .. Begun : sent'[j] = sent[j]
  BY <1>2, <1>4
<1>8. QueueIsRest'
  <2>1. ASSUME NEW i \in 1 .. l + 1
        PROVE  sendQueue'[i] = sent'[Begun + i]
    <3>1. CASE i = l + 1
      <4>1. Begun + i = n + 1
        BY <1>4, <3>1
      <4> QED BY <1>2, <1>3, <3>1, <4>1
    <3>2. CASE i # l + 1
      <4>1. i \in 1 .. l /\ Begun + i \in 1 .. n
        BY <1>4, <3>2
      <4>2. sendQueue[i] = sent[Begun + i]
        BY <1>1, <4>1 DEF FrameInv, QueueIsRest, l
      <4> QED BY <1>2, <1>3, <4>1, <4>2
    <3> QED BY <3>1, <3>2
  <2> QED BY <1>3, <1>5, <2>1 DEF QueueIsRest
<1>9. PICK at \in Places : Framed(at)
  BY <1>1 DEF FrameInv
<1>10. FramesInOrder(at)'
  <2>1. \A i, j \in 1 .. Begun + 1 : i < j => i \in 1 .. Begun
    BY <1>4
  <2> QED BY <1>5, <1>7, <1>9, <2>1 DEF Framed, FramesInOrder
<1>11. SizesOnWire(at)' /\ BodiesOnWire(at)'
  <2>1. SizesOnWire(at) /\ BodiesOnWire(at) /\ wire' = wire
    BY <1>1, <1>9 DEF Framed
  <2>2. ASSUME NEW j \in 1 .. Begun, NEW i \in 1 .. 4, at[j] + i \in 1 .. Len(wire)
        PROVE  wire[at[j] + i] = NetworkOrder(Len(sent'[j]))[i]
    <3>1. wire[at[j] + i] = NetworkOrder(Len(sent[j]))[i]
      BY <2>1, <2>2 DEF SizesOnWire
    <3>2. sent'[j] = sent[j]
      BY <1>7
    <3> QED BY <3>1, <3>2
  <2>3. SizesOnWire(at)'
    BY <1>5, <2>1, <2>2 DEF SizesOnWire
  <2>4. ASSUME NEW j \in 1 .. Begun
        PROVE  \A i \in 1 .. Len(sent'[j]) :
                 at[j] + 4 + i \in 1 .. Len(wire) => wire[at[j] + 4 + i] = sent'[j][i]
    <3>1. sent'[j] = sent[j]
      BY <1>7
    <3> QED BY <2>1, <3>1 DEF BodiesOnWire
  <2>5. BodiesOnWire(at)'
    BY <1>5, <2>1, <2>4 DEF BodiesOnWire
  <2> QED BY <2>3, <2>5
<1>12. SenderAt(at)'
  <2>1. Begun >= 1 => sent'[Begun] = sent[Begun]
    BY <1>4, <1>7
  <2> QED BY <1>1, <1>5, <1>9, <2>1 DEF Framed, SenderAt
<1>13. ReceiverAt(at)'
  <2>1. Received < Begun => sent'[Received + 1] = sent[Received + 1]
    BY <1>4, <1>7
  <2> QED BY <1>1, <1>5, <1>6, <1>9, <2>1 DEF Framed, ReceiverAt
<1> QED BY <1>4, <1>5, <1>6, <1>8, <1>9, <1>10, <1>11, <1>12, <1>13 DEF FrameInv, Framed
-----------------------------------------------------------------------------
(* The frames, while the receiving end takes bytes: every place moves. *)

LEMMA PlacesMove ==
  ASSUME IInv, ~torn, NEW at \in Places, Framed(at), NEW k \in Nat, k <= Len(wire),
         UNCHANGED <<sendQueue, sent, delivered, snd>>,
         Len(wire') = Len(wire) - k, \A j \in 1 .. Len(wire') : wire'[j] = wire[k + j],
         NEW s, s = [j \in 1 .. Begun + 1 |-> at[j] - k],
         ReceiverAt(s)'
  PROVE  FrameInv'
<1>1. /\ Begun \in Nat /\ Len(wire) \in Nat /\ Received <= Begun /\ QueueIsRest
      /\ \A j \in 1 .. Begun : Len(sent[j]) \in Nat
  BY FrameFacts DEF IInv, FrameInv
<1>2. Begun' = Begun /\ Received' = Received /\ Places' = Places /\ QueueIsRest'
  BY <1>1 DEF Begun, Received, Places, QueueIsRest
<1>3. \A j \in 1 .. Begun + 1 : at[j] \in Int /\ s[j] = at[j] - k /\ s[j] \in Int
  BY DEF Places
<1>4. s \in Places
  BY <1>3 DEF Places
<1>5. FramesInOrder(s)'
  <2>1. ASSUME NEW j \in 1 .. Begun
        PROVE  s[j + 1] = s[j] + 4 + Len(sent[j])
    <3>1. at[j + 1] = at[j] + 4 + Len(sent[j])
      BY DEF Framed, FramesInOrder
    <3>2. j \in 1 .. Begun + 1 /\ j + 1 \in 1 .. Begun + 1
      BY <1>1
    <3>3. \A x, y \in Int : \A n \in Nat : x = y + 4 + n => x - k = (y - k) + 4 + n
      OBVIOUS
    <3>4. /\ at[j] \in Int /\ at[j + 1] \in Int /\ Len(sent[j]) \in Nat
          /\ s[j] = at[j] - k /\ s[j + 1] = at[j + 1] - k
      BY <1>1, <1>3, <3>2
    <3>5. at[j + 1] - k = (at[j] - k) + 4 + Len(sent[j])
      BY <3>1, <3>3, <3>4, Zenon
    <3> QED BY <3>4, <3>5
  <2>2. ASSUME NEW i \in 1 .. Begun + 1, NEW j \in 1 .. Begun + 1, i < j
        PROVE  s[i] + 4 + Len(sent[i]) <= s[j]
    <3>1. at[i] + 4 + Len(sent[i]) <= at[j]
      BY <2>2 DEF Framed, FramesInOrder
    <3>2. i \in 1 .. Begun
      BY <1>1, <2>2
    <3>3. \A x, y \in Int : \A n \in Nat : y + 4 + n <= x => (y - k) + 4 + n <= x - k
      OBVIOUS
    <3> QED BY <1>1, <1>3, <3>1, <3>2, <3>3
  <2> QED BY <1>2, <2>1, <2>2 DEF FramesInOrder
<1>6. ASSUME NEW p \in Int, p - k \in 1 .. Len(wire')
      PROVE  p \in 1 .. Len(wire) /\ wire'[p - k] = wire[p]
  <2>1. p \in 1 .. Len(wire) /\ k + (p - k) = p
    BY <1>1, <1>6
  <2> QED BY <1>6, <2>1
<1>7. SizesOnWire(s)'
  <2>1. ASSUME NEW j \in 1 .. Begun, NEW i \in 1 .. 4, s[j] + i \in 1 .. Len(wire')
        PROVE  wire'[s[j] + i] = NetworkOrder(Len(sent'[j]))[i]
    <3>1. at[j] + i \in Int /\ s[j] + i = (at[j] + i) - k
      <4>1. j \in 1 .. Begun + 1
        BY <1>1
      <4>2. \A x \in Int : x + i \in Int /\ (x - k) + i = (x + i) - k
        OBVIOUS
      <4> QED BY <1>3, <4>1, <4>2
    <3>2. at[j] + i \in 1 .. Len(wire) /\ wire'[s[j] + i] = wire[at[j] + i]
      BY <1>6, <2>1, <3>1
    <3> QED BY <3>2 DEF Framed, SizesOnWire
  <2> QED BY <1>2, <2>1, Zenon DEF SizesOnWire
<1>8. BodiesOnWire(s)'
  <2>1. ASSUME NEW j \in 1 .. Begun, NEW i \in 1 .. Len(sent'[j]), s[j] + 4 + i \in 1 .. Len(wire')
        PROVE  wire'[s[j] + 4 + i] = sent'[j][i]
    <3>1. at[j] + 4 + i \in Int /\ s[j] + 4 + i = (at[j] + 4 + i) - k
      <4>1. j \in 1 .. Begun + 1 /\ i \in Int
        BY <1>1
      <4>2. \A x \in Int : x + 4 + i \in Int /\ (x - k) + 4 + i = (x + 4 + i) - k
        BY <4>1
      <4> QED BY <1>3, <4>1, <4>2
    <3>2. at[j] + 4 + i \in 1 .. Len(wire) /\ wire'[s[j] + 4 + i] = wire[at[j] + 4 + i]
      BY <1>6, <2>1, <3>1
    <3> QED BY <3>2 DEF Framed, BodiesOnWire
  <2> QED BY <1>2, <2>1, Zenon DEF BodiesOnWire
<1>9. SenderAt(s)'
  <2> DEFINE l == Len(wire)
  <2> DEFINE b == Begun
  <2>1. SenderAt(at) /\ snd' = snd /\ sent' = sent /\ b \in Nat /\ l \in Nat /\ Len(wire') = l - k
        /\ 1 \in 1 .. b + 1 /\ b + 1 \in 1 .. b + 1 /\ (b >= 1 => b \in 1 .. b + 1)
    BY <1>1 DEF Framed
  <2>2. \A x \in Int : l = x - 2 => l - k = (x - k) - 2
    BY <2>1
  <2>3. \A x \in Int, w \in Nat : l = x + 4 + w => l - k = (x - k) + 4 + w
    BY <2>1
  <2>4. snd.write \in Nat
    BY TypeFacts DEF IInv
  <2>5. CASE snd.state = "id"
    BY <1>2, <1>3, <2>1, <2>2, <2>5 DEF SenderAt
  <2>6. CASE snd.state = "idle"
    BY <1>2, <1>3, <2>1, <2>6 DEF SenderAt
  <2>7. CASE snd.state = "size"
    BY <1>2, <1>3, <2>1, <2>7 DEF SenderAt
  <2>8. CASE snd.state = "body"
    <3>1. b >= 1 /\ snd.msg = sent[b] /\ snd.write < Len(snd.msg) /\ l = at[b] + 4 + snd.write
      BY <2>1, <2>8 DEF SenderAt
    <3>2. Len(wire') = s[b] + 4 + snd.write
      BY <1>3, <2>1, <2>3, <2>4, <3>1
    <3> QED BY <1>2, <2>1, <2>8, <3>1, <3>2 DEF SenderAt
  <2> QED BY <2>1, <2>5, <2>6, <2>7, <2>8 DEF SenderAt
<1> QED BY <1>1, <1>2, <1>4, <1>5, <1>7, <1>8, <1>9 DEF FrameInv, Framed

\* What the receiving end finds at the beginning of the wire.
LEMMA SizeAtFront ==
  ASSUME IInv, ~torn, NEW at \in Places, Framed(at), rcv.state = "size", Len(wire) >= 4
  PROVE  Received < Begun /\ HostOrder(wire) = Len(sent[Received + 1])
<1> DEFINE r == Received + 1
<1>1. /\ Begun \in Nat /\ Received \in Nat /\ Received <= Begun /\ Len(wire) \in Nat
      /\ \A j \in 1 .. Begun : sent[j] \in Message
  BY FrameFacts
<1>2. at[r] = 0
  BY DEF Framed, ReceiverAt
<1>3. Received < Begun
  <2>1. SUFFICES ASSUME r = Begun + 1 PROVE FALSE
    BY <1>1
  <2>2. at[Begun + 1] = 0
    BY <1>2, <2>1
  <2>3. \A j \in 1 .. Begun : at[j] + 4 + Len(sent[j]) <= 0 /\ at[j] \in Int /\ Len(sent[j]) \in Nat
    <3>1. \A j \in 1 .. Begun : j < Begun + 1 /\ j \in 1 .. Begun + 1 /\ Begun + 1 \in 1 .. Begun + 1
      BY <1>1
    <3> QED BY <2>2, <3>1, FrameFacts DEF Framed, FramesInOrder, Places
  <2>4. SenderAt(at) /\ snd.write \in Nat
    BY TypeFacts DEF IInv, Framed
  <2>5. CASE snd.state = "id"
    BY <1>1, <2>2, <2>4, <2>5 DEF SenderAt
  <2>6. CASE snd.state = "idle"
    BY <1>1, <2>2, <2>4, <2>6 DEF SenderAt
  <2>7. CASE snd.state = "size"
    <3>1. Begun \in 1 .. Begun /\ Len(wire) = at[Begun]
      BY <1>1, <2>4, <2>7 DEF SenderAt
    <3>2. at[Begun] + 4 + Len(sent[Begun]) <= 0 /\ at[Begun] \in Int /\ Len(sent[Begun]) \in Nat
      BY <2>3, <3>1
    <3>3. \A x \in Int, n \in Nat : x + 4 + n <= 0 => x < 0
      OBVIOUS
    <3>4. at[Begun] < 0
      BY <3>2, <3>3
    <3> QED BY <1>1, <3>1, <3>4
  <2>8. CASE snd.state = "body"
    <3>1. Begun \in 1 .. Begun /\ Len(wire) = at[Begun] + 4 + snd.write /\ snd.write < Len(sent[Begun])
      BY <1>1, <2>4, <2>8 DEF SenderAt
    <3>2. at[Begun] + 4 + Len(sent[Begun]) <= 0 /\ at[Begun] \in Int /\ Len(sent[Begun]) \in Nat
      BY <2>3, <3>1
    <3>3. \A x \in Int, n, w \in Nat : x + 4 + n <= 0 /\ w < n => x + 4 + w < 0
      OBVIOUS
    <3>4. at[Begun] + 4 + snd.write < 0
      BY <2>4, <3>1, <3>2, <3>3
    <3> QED BY <1>1, <3>1, <3>4
  <2> QED BY <2>4, <2>5, <2>6, <2>7, <2>8 DEF SenderAt
<1>4. r \in 1 .. Begun /\ sent[r] \in Message
  BY <1>1, <1>3
<1> DEFINE order == NetworkOrder(Len(sent[r]))
<1>5. ASSUME NEW i \in 1 .. 4 PROVE wire[i] = order[i]
  <2>1. at[r] + i = i /\ i \in 1 .. Len(wire)
    BY <1>1, <1>2
  <2> QED BY <1>4, <2>1 DEF Framed, SizesOnWire
<1> HIDE DEF order
<1>6. wire[1] = order[1] /\ wire[2] = order[2] /\ wire[3] = order[3] /\ wire[4] = order[4]
  BY <1>5
<1>7. HostOrder(wire) = Len(sent[r])
  <2> DEFINE size == Len(sent[r])
  <2>1. size \in Nat /\ FitsInFourBytes(size) /\ order = NetworkOrder(size)
    BY <1>4, MessageFacts DEF order
  <2> HIDE DEF size
  <2>2. HostOrder(wire) = size
    BY <1>6, <2>1, SizeRoundTrip
  <2> QED BY <2>2 DEF size
<1> QED BY <1>3, <1>7

LEMMA RecvIdFrames ==
  ASSUME IInv, ~torn, RecvId, ~torn'
  PROVE  FrameInv'
<1>1. PICK at \in Places : Framed(at)
  BY DEF IInv, FrameInv
<1>2. PICK k \in Receivable(2) :
        /\ Receive(k) /\ torn' = (k < 2)
        /\ rcv' = [rcv EXCEPT !.state = IF k < 2 THEN @ ELSE "size"]
  BY DEF RecvId
<1>3. k = 2 /\ k <= Len(wire) /\ TypeOK
  <2>1. TypeOK /\ 2 \in Int
    BY DEF IInv
  <2>2. k \in Nat /\ k <= 2 /\ k <= Len(wire)
    BY <1>2, <2>1, ReceivableFacts
  <2>3. ~(k < 2)
    BY <1>2
  <2> QED BY <2>1, <2>2, <2>3
<1>4. Len(wire') = Len(wire) - 2 /\ \A j \in 1 .. Len(wire') : wire'[j] = wire[2 + j]
  BY <1>2, <1>3, WireShrinks
<1>5. UNCHANGED <<sendQueue, sent, delivered, snd>> /\ rcv.state = "id" /\ rcv'.state = "size"
  BY <1>2, <1>3, TypeFacts DEF RecvId, Receive, ReceiverState
<1>6. PICK s : s = [j \in 1 .. Begun + 1 |-> at[j] - 2]
  OBVIOUS
<1>7. ReceiverAt(s)'
  <2>1. Received = 0 /\ at[1] = 2 /\ 1 \in 1 .. Begun + 1
    BY <1>1, <1>5, FrameFacts DEF Framed, ReceiverAt
  <2>2. s[1] = 0 /\ Received' = 0 /\ 0 + 1 = 1
    BY <1>5, <1>6, <2>1 DEF Received
  <2> QED BY <1>5, <2>2 DEF ReceiverAt
<1> QED BY <1>1, <1>3, <1>4, <1>5, <1>6, <1>7, PlacesMove

LEMMA RecvSizeFrames ==
  ASSUME IInv, ~torn, RecvSize, ~torn'
  PROVE  FrameInv'
<1>1. PICK at \in Places : Framed(at)
  BY DEF IInv, FrameInv
<1>2. PICK k \in Receivable(4) :
        /\ Receive(k) /\ torn' = (k < 4)
        /\ rcv' = IF k < 4 THEN rcv
                  ELSE [rcv EXCEPT !.state = "body", !.size = HostOrder(wire), !.read = <<>>]
  BY DEF RecvSize
<1>3. k = 4 /\ k <= Len(wire) /\ TypeOK
  <2>1. TypeOK /\ 4 \in Int
    BY DEF IInv
  <2>2. k \in Nat /\ k <= 4 /\ k <= Len(wire)
    BY <1>2, <2>1, ReceivableFacts
  <2>3. ~(k < 4)
    BY <1>2
  <2> QED BY <2>1, <2>2, <2>3
<1>4. Len(wire') = Len(wire) - 4 /\ \A j \in 1 .. Len(wire') : wire'[j] = wire[4 + j]
  BY <1>2, <1>3, WireShrinks
<1> DEFINE h == HostOrder(wire)
<1>5. rcv' = [rcv EXCEPT !.state = "body", !.size = h, !.read = <<>>]
  BY <1>2, <1>3
<1>6. rcv.state = "size"
  BY DEF RecvSize
<1>7. Received < Begun /\ h = Len(sent[Received + 1])
  BY <1>1, <1>3, <1>6, SizeAtFront
<1> HIDE DEF h
<1>8. UNCHANGED <<sendQueue, sent, delivered, snd>>
      /\ rcv'.state = "body" /\ rcv'.size = h /\ rcv'.read = <<>>
  BY <1>2, <1>3, <1>5, TypeFacts DEF RecvSize, Receive, ReceiverState
<1>9. PICK s : s = [j \in 1 .. Begun + 1 |-> at[j] - 4]
  OBVIOUS
<1>10. ReceiverAt(s)'
  <2>1. at[Received + 1] = 0 /\ Received + 1 \in 1 .. Begun + 1 /\ Received + 1 \in 1 .. Begun
        /\ Begun' = Begun /\ Received' = Received
    BY <1>1, <1>6, <1>7, <1>8, FrameFacts DEF Framed, ReceiverAt, Received, Begun
  <2>2. s[Received + 1] + 4 + 0 = 0 /\ Len(<<>>) = 0 /\ h # 0 /\ 1 .. 0 = {}
    BY <1>7, <1>9, <2>1, FrameFacts
  <2>3. /\ rcv'.state = "body" /\ Received' < Begun' /\ s[Received' + 1] + 4 + Len(rcv'.read) = 0
        /\ rcv'.size = Len(sent'[Received' + 1])
        /\ \A j \in 1 .. Len(rcv'.read) : rcv'.read[j] = sent'[Received' + 1][j]
        /\ Len(rcv'.read) # rcv'.size
    BY <1>7, <1>8, <2>1, <2>2
  <2> QED BY <2>3 DEF ReceiverAt
<1> QED BY <1>1, <1>3, <1>4, <1>8, <1>9, <1>10, PlacesMove

LEMMA RecvBodyFrames ==
  ASSUME IInv, ~torn, RecvBody
  PROVE  FrameInv'
<1>1. PICK at \in Places : Framed(at)
  BY DEF IInv, FrameInv
<1>2. PICK k \in Nat \ {0} : ReadPart(k)
  BY RecvBodyStep DEF IInv
<1>3. /\ k \in Nat /\ k <= Len(wire)
      /\ Len(wire') = Len(wire) - k /\ \A j \in 1 .. Len(wire') : wire'[j] = wire[k + j]
      /\ UNCHANGED <<sendQueue, sent, delivered, snd>> /\ rcv.state = "body"
  BY <1>2 DEF ReadPart
<1>4. PICK s : s = [j \in 1 .. Begun + 1 |-> at[j] - k]
  OBVIOUS
<1> DEFINE r == Received + 1
<1> DEFINE n == Len(rcv.read)
<1>5. /\ Received < Begun /\ at[r] + 4 + n = 0 /\ rcv.size = Len(sent[r])
      /\ \A j \in 1 .. n : rcv.read[j] = sent[r][j]
  BY <1>1, <1>3 DEF Framed, ReceiverAt
<1>6. /\ r \in 1 .. Begun /\ r \in 1 .. Begun + 1 /\ n \in Nat /\ Len(wire) \in Nat
      /\ rcv.size \in Nat /\ at[r] \in Int /\ Begun' = Begun /\ Received' = Received
  <2>1. r \in 1 .. Begun /\ r \in 1 .. Begun + 1
    BY <1>5, FrameFacts
  <2>2. at[r] \in Int
    BY <1>1, <2>1 DEF Places
  <2>3. n \in Nat /\ Len(wire) \in Nat /\ rcv.size \in Nat
    BY TypeFacts DEF IInv
  <2>4. Begun' = Begun /\ Received' = Received
    BY <1>3 DEF Begun, Received
  <2> QED BY <2>1, <2>2, <2>3, <2>4
<1>7. /\ Len(rcv'.read) = n + k /\ n + k <= rcv.size /\ rcv'.size = rcv.size
      /\ \A j \in 1 .. n : rcv'.read[j] = rcv.read[j]
      /\ \A j \in 1 .. k : rcv'.read[n + j] = wire[j]
      /\ rcv'.state = IF n + k >= rcv.size THEN "full" ELSE "body"
  BY <1>2 DEF ReadPart
<1> HIDE DEF r, n
<1>8. s[r] + 4 + (n + k) = 0
  <2>1. \A x \in Int : x + 4 + n = 0 => (x - k) + 4 + (n + k) = 0
    BY <1>6
  <2>2. s[r] = at[r] - k
    BY <1>4, <1>6
  <2> QED BY <1>5, <1>6, <2>1, <2>2
<1>9. ASSUME NEW j \in 1 .. n + k PROVE rcv'.read[j] = sent[r][j]
  <2>1. CASE j <= n
    BY <1>5, <1>6, <1>7, <2>1
  <2>2. CASE ~(j <= n)
    <3>1. j - n \in 1 .. k /\ n + (j - n) = j /\ j - n \in 1 .. Len(wire) /\ j \in 1 .. Len(sent[r])
      BY <1>3, <1>5, <1>6, <1>7, <2>2, SMTT(30)
    <3>2. at[r] + 4 + j = j - n
      <4>1. \A x \in Int : x + 4 + n = 0 => x + 4 + j = j - n
        BY <1>6
      <4> QED BY <1>5, <1>6, <4>1
    <3>3. wire[j - n] = sent[r][j]
      BY <1>1, <1>6, <3>1, <3>2 DEF Framed, BodiesOnWire
    <3> QED BY <1>7, <3>1, <3>3
  <2> QED BY <2>1, <2>2
<1>10. ReceiverAt(s)'
  <2>1. /\ rcv'.state \in {"body", "full"}
        /\ rcv'.state = "full" <=> Len(rcv'.read) = rcv'.size
    BY <1>6, <1>7
  <2>2. /\ Received' < Begun' /\ s[Received' + 1] + 4 + Len(rcv'.read) = 0
        /\ rcv'.size = Len(sent'[Received' + 1])
        /\ \A j \in 1 .. Len(rcv'.read) : rcv'.read[j] = sent'[Received' + 1][j]
    BY <1>3, <1>5, <1>6, <1>7, <1>8, <1>9 DEF r
  <2> QED BY <2>1, <2>2 DEF ReceiverAt
<1> QED BY <1>1, <1>3, <1>4, <1>10, PlacesMove

\* What is delivered is the oldest message that was sent and not delivered.
LEMMA DeliverNext ==
  ASSUME IInv, ~torn, Deliver
  PROVE  Received < Begun /\ delivered' = Append(delivered, sent[Received + 1])
<1>1. PICK at \in Places : Framed(at)
  BY DEF IInv, FrameInv
<1> DEFINE r == Received + 1
<1>2. rcv.state = "full" /\ delivered' = Append(delivered, rcv.read)
  BY DEF Deliver
<1>3. /\ Received < Begun /\ rcv.size = Len(sent[r]) /\ Len(rcv.read) = rcv.size
      /\ \A j \in 1 .. Len(rcv.read) : rcv.read[j] = sent[r][j]
  BY <1>1, <1>2 DEF Framed, ReceiverAt
<1>4. rcv.read \in Seq(Byte) /\ sent[r] \in Seq(Byte)
  <2>1. r \in 1 .. Begun
    BY <1>3, FrameFacts
  <2>2. sent[r] \in Message
    BY <2>1, FrameFacts
  <2> QED BY <2>2, MessageFacts, TypeFacts DEF IInv
<1>5. rcv.read = sent[r]
  BY <1>3, <1>4, SeqEqual
<1> QED BY <1>2, <1>3, <1>5

LEMMA DeliverFrames ==
  ASSUME IInv, ~torn, Deliver
  PROVE  FrameInv'
<1>1. PICK at \in Places : Framed(at)
  BY DEF IInv, FrameInv
<1>2. /\ UNCHANGED <<sendQueue, sent, snd, wire>> /\ rcv.state = "full"
      /\ rcv' = NextMessage /\ FrameInv
  BY DEF Deliver, IInv, FrameInv
<1>3. rcv'.state = "size"
  BY <1>2, TypeFacts DEF NextMessage, ReceiverState, IInv
<1> DEFINE r == Received + 1
<1>4. Received < Begun /\ delivered' = Append(delivered, sent[r])
  BY DeliverNext
<1>5. Begun' = Begun /\ Places' = Places /\ Received' = Received + 1 /\ QueueIsRest'
  <2>1. Begun' = Begun
    BY <1>2 DEF Begun
  <2>2. delivered \in Seq(Seq(Byte)) /\ sent[r] \in Seq(Byte)
    <3>1. r \in 1 .. Begun
      BY <1>4, FrameFacts
    <3> QED BY <3>1, FrameFacts, MessageFacts, TypeFacts DEF IInv
  <2>3. Received' = Received + 1
    BY <1>4, <2>2, AppendFacts DEF Received
  <2> QED BY <1>2, <2>1, <2>3 DEF Places, FrameInv, QueueIsRest
<1>6. ReceiverAt(at)'
  <2>1. at[r] + 4 + Len(rcv.read) = 0 /\ rcv.size = Len(sent[r]) /\ Len(rcv.read) = rcv.size
    BY <1>1, <1>2 DEF Framed, ReceiverAt
  <2>2. r \in 1 .. Begun
    BY <1>4, FrameFacts
  <2>3. at[r + 1] = at[r] + 4 + Len(sent[r])
    BY <1>1, <2>2 DEF Framed, FramesInOrder
  <2>4. at[r + 1] = 0
    BY <2>1, <2>3
  <2> QED BY <1>3, <1>5, <2>4 DEF ReceiverAt
<1>7. SenderAt(at)' /\ FramesInOrder(at)' /\ SizesOnWire(at)' /\ BodiesOnWire(at)'
  BY <1>1, <1>2, <1>5 DEF Framed, SenderAt, FramesInOrder, SizesOnWire, BodiesOnWire
<1>8. Received' <= Begun' /\ Begun' \in Nat
  BY <1>4, <1>5, FrameFacts
<1> QED BY <1>1, <1>5, <1>6, <1>7, <1>8 DEF FrameInv, Framed
-----------------------------------------------------------------------------
(* The frames, while the sending end adds bytes: the places stay. *)

\* An id or a length that the kernel took whole.
LEMMA SentWhole ==
  ASSUME TypeOK, NEW bytes \in Seq(Byte), NEW next \in {"idle", "body"},
         SendWhole(bytes, next), ~torn'
  PROVE  /\ Len(bytes) \in Nat /\ Len(wire') = Len(wire) + Len(bytes)
         /\ \A j \in 1 .. Len(wire) : wire'[j] = wire[j]
         /\ \A j \in 1 .. Len(bytes) : wire'[Len(wire) + j] = bytes[j]
         /\ snd'.state = next /\ snd'.msg = snd.msg /\ snd'.write = snd.write
         /\ UNCHANGED <<sendQueue, sent, delivered, rcv>>
<1>1. PICK k \in Sendable(Len(bytes)) :
        /\ Transmit(SubSeq(bytes, 1, k))
        /\ torn' = (k < Len(bytes))
        /\ snd' = [snd EXCEPT !.state = IF k < Len(bytes) THEN @ ELSE next]
  BY DEF SendWhole
<1> DEFINE n == Len(bytes)
<1>2. n \in Nat
  BY LenProperties
<1>3. k \in Nat /\ k <= n /\ Len(wire) + k <= Capacity
  BY <1>1, <1>2, SendableFacts
<1>4. ~(k < n)
  BY <1>1
<1>5. k = n /\ 0 + n <= Len(bytes)
  BY <1>2, <1>3, <1>4
<1>6. wire' = wire \o SubSeq(bytes, 0 + 1, 0 + n) /\ Len(wire) + n <= Capacity
  BY <1>1, <1>2, <1>3, <1>5 DEF Transmit
<1>7. /\ Len(wire') = Len(wire) + n
      /\ \A j \in 1 .. Len(wire) : wire'[j] = wire[j]
      /\ \A j \in 1 .. n : wire'[Len(wire) + j] = bytes[0 + j]
  BY <1>2, <1>5, <1>6, WireGrows
<1>8. \A j \in 1 .. n : 0 + j = j
  OBVIOUS
<1>9. snd'.state = next /\ snd'.msg = snd.msg /\ snd'.write = snd.write
  BY <1>1, <1>4, TypeFacts DEF SenderState
<1>10. UNCHANGED <<sendQueue, sent, delivered, rcv>>
  BY <1>1 DEF SendWhole, Transmit
<1> QED BY <1>2, <1>7, <1>8, <1>9, <1>10

\* The new bytes are those of the frames at their places.
LEMMA BytesAdded ==
  ASSUME IInv, ~torn, NEW at \in Places, Framed(at), NEW k \in Nat,
         UNCHANGED <<sendQueue, sent, delivered, rcv>>,
         Len(wire') = Len(wire) + k, \A j \in 1 .. Len(wire) : wire'[j] = wire[j],
         \A j \in 1 .. Begun, i \in 1 .. 4 :
           at[j] + i \in Len(wire) + 1 .. Len(wire) + k
             => wire'[at[j] + i] = NetworkOrder(Len(sent[j]))[i],
         \A j \in 1 .. Begun : \A i \in 1 .. Len(sent[j]) :
           at[j] + 4 + i \in Len(wire) + 1 .. Len(wire) + k => wire'[at[j] + 4 + i] = sent[j][i],
         SenderAt(at)'
  PROVE  FrameInv'
<1>1. /\ Begun \in Nat /\ Len(wire) \in Nat /\ Received <= Begun /\ QueueIsRest
      /\ Begun' = Begun /\ Received' = Received /\ Places' = Places /\ QueueIsRest'
  BY FrameFacts DEF IInv, FrameInv, Begun, Received, Places, QueueIsRest
<1>2. \A p \in 1 .. Len(wire') : p \in 1 .. Len(wire) \/ p \in Len(wire) + 1 .. Len(wire) + k
  BY <1>1
<1>3. SizesOnWire(at)'
  <2>1. ASSUME NEW j \in 1 .. Begun, NEW i \in 1 .. 4, at[j] + i \in 1 .. Len(wire')
        PROVE  wire'[at[j] + i] = NetworkOrder(Len(sent'[j]))[i]
    BY <1>2, <2>1 DEF Framed, SizesOnWire
  <2> QED BY <1>1, <2>1, Zenon DEF SizesOnWire
<1>4. BodiesOnWire(at)'
  <2>1. ASSUME NEW j \in 1 .. Begun, NEW i \in 1 .. Len(sent'[j]),
               at[j] + 4 + i \in 1 .. Len(wire')
        PROVE  wire'[at[j] + 4 + i] = sent'[j][i]
    BY <1>2, <2>1 DEF Framed, BodiesOnWire
  <2> QED BY <1>1, <2>1, Zenon DEF BodiesOnWire
<1>5. FramesInOrder(at)' /\ ReceiverAt(at)'
  BY <1>1 DEF Framed, FramesInOrder, ReceiverAt
<1> QED BY <1>1, <1>3, <1>4, <1>5 DEF FrameInv, Framed

\* All of the frames before the last are on the wire, or received.
LEMMA EarlierFrames ==
  ASSUME IInv, ~torn, NEW at \in Places, Framed(at), NEW j \in 1 .. Begun, j # Begun
  PROVE  /\ \A i \in 1 .. 4 : at[j] + i <= at[Begun]
         /\ \A i \in 1 .. Len(sent[j]) : at[j] + 4 + i <= at[Begun]
<1>1. /\ Begun \in Nat /\ j \in 1 .. Begun + 1 /\ Begun \in 1 .. Begun + 1 /\ j < Begun
      /\ Len(sent[j]) \in Nat
  BY FrameFacts
<1>2. at[j] \in Int /\ at[Begun] \in Int /\ at[j] + 4 + Len(sent[j]) <= at[Begun]
  BY <1>1 DEF Places, Framed, FramesInOrder
<1>3. \A x, y \in Int, n \in Nat : x + 4 + n <= y
        => (\A i \in 1 .. 4 : x + i <= y) /\ (\A i \in 1 .. n : x + 4 + i <= y)
  OBVIOUS
<1> QED BY <1>1, <1>2, <1>3

LEMMA SendIdFrames ==
  ASSUME IInv, ~torn, SendId, ~torn'
  PROVE  FrameInv'
<1>1. PICK at \in Places : Framed(at)
  BY DEF IInv, FrameInv
<1>2. MyId \in Seq(Byte) /\ Len(MyId) = 2
  BY ChannelAssumption DEF Byte
<1>3. TypeOK /\ SendWhole(MyId, "idle") /\ snd.state = "id"
  BY DEF IInv, SendId
<1>4. /\ Len(wire') = Len(wire) + 2
      /\ \A j \in 1 .. Len(wire) : wire'[j] = wire[j]
      /\ snd'.state = "idle"
      /\ UNCHANGED <<sendQueue, sent, delivered, rcv>>
  BY <1>2, <1>3, SentWhole
<1>5. Begun = 0 /\ Len(wire) = at[1] - 2 /\ Begun' = Begun
  BY <1>1, <1>3, <1>4 DEF Framed, SenderAt, Begun
<1>6. SenderAt(at)'
  <2>1. 1 \in 1 .. Begun + 1 /\ Begun + 1 = 1
    BY <1>5
  <2>2. at[1] \in Int
    BY <2>1 DEF Places
  <2>3. Len(wire') = at[Begun' + 1]
    BY <1>4, <1>5, <2>1, <2>2
  <2> QED BY <1>4, <2>3 DEF SenderAt
<1>7. 1 .. Begun = {}
  BY <1>5
<1> QED BY <1>1, <1>4, <1>6, <1>7, BytesAdded

LEMMA SendSizeFrames ==
  ASSUME IInv, ~torn, SendSize, ~torn'
  PROVE  FrameInv'
<1>1. PICK at \in Places : Framed(at)
  BY DEF IInv, FrameInv
<1> DEFINE b == Begun
<1> DEFINE order == NetworkOrder(Len(snd.msg))
<1>2. /\ TypeOK /\ SendWhole(order, "body") /\ snd.state = "size"
      /\ snd.msg \in Message /\ snd.msg = sent[b] /\ b \in Nat /\ b >= 1 /\ b \in 1 .. b
  BY SendingMessage, FrameFacts DEF IInv, SendSize
<1>3. order \in Seq(Byte) /\ Len(order) = 4
  BY <1>2, MessageFacts, SizeRoundTrip
<1> HIDE DEF order
<1>4. /\ Len(wire') = Len(wire) + 4
      /\ \A j \in 1 .. Len(wire) : wire'[j] = wire[j]
      /\ \A j \in 1 .. 4 : wire'[Len(wire) + j] = order[j]
      /\ snd'.state = "body" /\ snd'.msg = snd.msg /\ snd'.write = snd.write
      /\ UNCHANGED <<sendQueue, sent, delivered, rcv>>
  BY <1>2, <1>3, SentWhole
<1>5. /\ Len(wire) = at[b] /\ snd.write = 0 /\ Begun' = b /\ Len(wire) \in Nat
  BY <1>1, <1>2, <1>4, FrameFacts DEF Framed, SenderAt, Begun
<1>6. SenderAt(at)'
  <2>1. Len(wire') = at[b] + 4 + 0 /\ 0 < Len(snd.msg)
    BY <1>2, <1>4, <1>5, MessageFacts
  <2> QED BY <1>2, <1>4, <1>5, <2>1 DEF SenderAt
<1>7. ASSUME NEW j \in 1 .. Begun, NEW i \in 1 .. 4,
             at[j] + i \in Len(wire) + 1 .. Len(wire) + 4
      PROVE  wire'[at[j] + i] = NetworkOrder(Len(sent[j]))[i]
  <2>1. CASE j = b
    BY <1>2, <1>4, <1>5, <2>1 DEF order
  <2>2. CASE j # b
    <3>1. at[j] + i <= Len(wire)
      BY <1>1, <1>5, <2>2, EarlierFrames
    <3> QED BY <1>5, <1>7, <3>1
  <2> QED BY <2>1, <2>2
<1>8. ASSUME NEW j \in 1 .. Begun, NEW i \in 1 .. Len(sent[j]),
             at[j] + 4 + i \in Len(wire) + 1 .. Len(wire) + 4
      PROVE  wire'[at[j] + 4 + i] = sent[j][i]
  <2>1. CASE j = b
    <3>1. at[j] + 4 + i = Len(wire) + 4 + i /\ Len(sent[j]) \in Nat
      BY <1>5, <2>1, FrameFacts
    <3> QED BY <1>5, <1>8, <3>1
  <2>2. CASE j # b
    <3>1. at[j] + 4 + i <= Len(wire)
      BY <1>1, <1>5, <2>2, EarlierFrames
    <3> QED BY <1>5, <1>8, <3>1
  <2> QED BY <2>1, <2>2
<1> QED BY <1>1, <1>4, <1>6, <1>7, <1>8, BytesAdded

LEMMA SendBodyFrames ==
  ASSUME IInv, ~torn, SendBody
  PROVE  FrameInv'
<1>1. PICK at \in Places : Framed(at)
  BY DEF IInv, FrameInv
<1>2. PICK k \in Nat \ {0} : SentPart(k)
  BY SendBodyStep DEF IInv
<1> DEFINE b == Begun
<1> DEFINE w == snd.write
<1> DEFINE n == Len(snd.msg)
<1> DEFINE l == Len(wire)
<1>3. /\ snd.state = "body" /\ snd.msg = sent[b] /\ w < n /\ l = at[b] + 4 + w
      /\ b \in Nat /\ b >= 1 /\ b \in 1 .. b /\ b \in 1 .. b + 1 /\ l \in Nat
      /\ w \in Nat /\ n \in Nat /\ n = Len(sent[b])
  <2>1. snd.state = "body"
    BY <1>2 DEF SentPart
  <2>2. snd.msg = sent[b] /\ w < n /\ l = at[b] + 4 + w /\ b >= 1
    BY <1>1, <2>1 DEF Framed, SenderAt
  <2>3. b \in Nat /\ \A j \in 1 .. b : Len(sent[j]) \in Nat
    BY FrameFacts
  <2>4. w \in Nat /\ n \in Nat /\ l \in Nat
    BY TypeFacts DEF IInv
  <2>5. b \in 1 .. b /\ b \in 1 .. b + 1
    BY <2>2, <2>3
  <2> QED BY <2>1, <2>2, <2>3, <2>4, <2>5
<1>4. at[b] \in Int /\ at[b + 1] = at[b] + 4 + n /\ at[b] <= l
  <2>1. at[b] \in Int /\ at[b + 1] = at[b] + 4 + n
    BY <1>1, <1>3 DEF Places, Framed, FramesInOrder
  <2> QED BY <1>3, <2>1
<1>5. /\ w + k \in Nat /\ w + k <= n /\ Len(wire') = l + k
      /\ \A j \in 1 .. l : wire'[j] = wire[j]
      /\ \A j \in 1 .. k : wire'[l + j] = snd.msg[w + j]
      /\ UNCHANGED <<sendQueue, sent, delivered, rcv>>
  BY <1>2 DEF SentPart
<1>6. /\ snd'.msg = snd.msg /\ snd'.write = w + k
      /\ snd'.state = IF w + k = n THEN "idle" ELSE "body"
  BY <1>2, <1>3, TypeFacts DEF SentPart, SenderState, IInv
<1>7. Begun' = b
  BY <1>5 DEF Begun
<1> HIDE DEF w, n, l
<1>8. SenderAt(at)'
  <2>1. CASE w + k = n
    <3>1. \A x \in Int : l = x + 4 + w => l + k = x + 4 + n
      <4>1. ASSUME NEW x \in Int, l = x + 4 + w PROVE l + k = x + 4 + (w + k)
        BY <1>3, <4>1
      <4> QED BY <2>1, <4>1
    <3>2. Len(wire') = at[b + 1]
      BY <1>3, <1>4, <1>5, <3>1
    <3> QED BY <1>6, <1>7, <2>1, <3>2 DEF SenderAt
  <2>2. CASE w + k # n
    <3>1. \A x \in Int : l = x + 4 + w => l + k = x + 4 + (w + k)
      BY <1>3
    <3>2. Len(wire') = at[b] + 4 + (w + k)
      BY <1>3, <1>4, <1>5, <3>1
    <3>3. w + k < n
      BY <1>3, <1>5, <2>2
    <3>4. snd'.write < Len(snd'.msg)
      BY <1>6, <3>3 DEF n
    <3> QED BY <1>3, <1>5, <1>6, <1>7, <2>2, <3>2, <3>4 DEF SenderAt
  <2> QED BY <2>1, <2>2
<1>9. ASSUME NEW j \in 1 .. Begun, NEW i \in 1 .. 4, at[j] + i \in l + 1 .. l + k
      PROVE  wire'[at[j] + i] = NetworkOrder(Len(sent[j]))[i]
  <2>1. CASE j = b
    <3>1. \A x \in Int : l = x + 4 + w => x + i <= l
      BY <1>3
    <3>2. at[j] + i <= l
      BY <1>3, <1>4, <2>1, <3>1
    <3> QED BY <1>3, <1>9, <3>2
  <2>2. CASE j # b
    <3>1. at[j] + i <= at[b]
      BY <1>1, <2>2, EarlierFrames
    <3>2. \A p \in l + 1 .. l + k, y \in Int : ~(p <= y /\ y <= l)
      BY <1>3
    <3> QED BY <1>4, <1>9, <3>1, <3>2
  <2> QED BY <2>1, <2>2
<1>10. ASSUME NEW j \in 1 .. Begun, NEW i \in 1 .. Len(sent[j]), at[j] + 4 + i \in l + 1 .. l + k
       PROVE  wire'[at[j] + 4 + i] = sent[j][i]
  <2>1. CASE j = b
    <3>1. i \in Nat
      BY <1>3, <2>1
    <3>2. \A x \in Int : l = x + 4 + w /\ x + 4 + i \in l + 1 .. l + k
            => i - w \in 1 .. k /\ l + (i - w) = x + 4 + i /\ w + (i - w) = i
      BY <1>3, <3>1
    <3>3. i - w \in 1 .. k /\ l + (i - w) = at[b] + 4 + i /\ w + (i - w) = i
      BY <1>3, <1>4, <1>10, <2>1, <3>2
    <3>4. wire'[l + (i - w)] = snd.msg[w + (i - w)]
      BY <1>5, <3>3
    <3> QED BY <1>3, <2>1, <3>3, <3>4
  <2>2. CASE j # b
    <3>1. at[j] + 4 + i <= at[b]
      BY <1>1, <2>2, EarlierFrames
    <3>2. \A p \in l + 1 .. l + k, y \in Int : ~(p <= y /\ y <= l)
      BY <1>3
    <3> QED BY <1>4, <1>10, <3>1, <3>2
  <2> QED BY <2>1, <2>2
<1> QED BY <1>1, <1>2, <1>5, <1>8, <1>9, <1>10, BytesAdded DEF l

\* A frame begins where the wire ends.
LEMMA PopMessageFrames ==
  ASSUME IInv, ~torn, PopMessage
  PROVE  FrameInv'
<1>1. PICK at \in Places : Framed(at)
  BY DEF IInv, FrameInv
<1> DEFINE b == Begun
<1>2. /\ b \in Nat /\ Received \in Nat /\ Received <= b /\ Len(sent) \in Nat /\ Len(wire) \in Nat
      /\ Len(sent) = b + Len(sendQueue) /\ Len(sendQueue) \in Nat /\ QueueIsRest
      /\ \A j \in 1 .. b : Len(sent[j]) \in Nat
  BY FrameFacts DEF IInv, FrameInv
<1>3. /\ snd.state = "idle" /\ sendQueue # <<>> /\ snd' = Begin(Head(sendQueue))
      /\ sendQueue' = Tail(sendQueue) /\ UNCHANGED <<wire, rcv, sent, delivered>>
  BY DEF PopMessage
<1>4. /\ Len(sendQueue) >= 1 /\ Len(sendQueue') = Len(sendQueue) - 1
      /\ Head(sendQueue) = sendQueue[1] /\ Head(sendQueue) \in Message
      /\ \A i \in 1 .. Len(sendQueue') : sendQueue'[i] = sendQueue[i + 1]
  BY <1>3, TypeFacts, TailFacts DEF IInv
<1> DEFINE m == sent[b + 1]
<1>5. Head(sendQueue) = m /\ m \in Message /\ Len(m) \in Nat /\ Len(m) >= 1
  <2>1. 1 \in 1 .. Len(sendQueue)
    BY <1>2, <1>4
  <2>2. sendQueue[1] = m
    BY <1>2, <2>1 DEF QueueIsRest
  <2> QED BY <1>4, <2>2, MessageFacts
<1>6. Begun' = b + 1 /\ Received' = Received /\ Len(wire) = at[b + 1]
  <2>1. Len(wire) = at[b + 1]
    BY <1>1, <1>3 DEF Framed, SenderAt
  <2>2. Begun' = Len(sent) - Len(sendQueue')
    BY <1>3 DEF Begun
  <2>3. Begun' = b + 1
    BY <1>2, <1>4, <2>2
  <2> QED BY <1>3, <2>1, <2>3 DEF Received
<1>7. QueueIsRest'
  <2>1. ASSUME NEW i \in 1 .. Len(sendQueue')
        PROVE  sendQueue'[i] = sent'[Begun' + i]
    <3>1. i + 1 \in 1 .. Len(sendQueue) /\ b + (i + 1) = (b + 1) + i
      BY <1>2, <1>4
    <3> QED BY <1>2, <1>3, <1>4, <1>6, <3>1 DEF QueueIsRest
  <2> QED BY <2>1, Zenon DEF QueueIsRest
<1>8. PICK s : s = [j \in 1 .. b + 2 |-> IF j = b + 2 THEN at[b + 1] + 4 + Len(m) ELSE at[j]]
  OBVIOUS
<1>9. /\ \A j \in 1 .. b + 1 : s[j] = at[j] /\ at[j] \in Int
      /\ s[b + 2] = at[b + 1] + 4 + Len(m) /\ s[b + 2] \in Int
  <2>1. \A j \in 1 .. b + 1 : j \in 1 .. b + 2 /\ j # b + 2
    BY <1>2
  <2>2. b + 2 \in 1 .. b + 2 /\ b + 1 \in 1 .. b + 1
    BY <1>2
  <2>3. \A j \in 1 .. b + 1 : at[j] \in Int
    BY DEF Places
  <2>4. at[b + 1] + 4 + Len(m) \in Int
    <3>1. at[b + 1] \in Int
      BY <2>2, <2>3
    <3>2. \A i \in Int, n \in Nat : i + 4 + n \in Int
      OBVIOUS
    <3> QED BY <1>5, <3>1, <3>2
  <2> QED BY <1>8, <2>1, <2>2, <2>3, <2>4
<1>10. s \in Places'
  <2>1. Begun' + 1 = b + 2
    BY <1>2, <1>6
  <2>2. \A j \in 1 .. b + 2 : j # b + 2 => j \in 1 .. b + 1
    BY <1>2
  <2>3. \A j \in 1 .. b + 2 : s[j] \in Int
    BY <1>9, <2>2
  <2> QED BY <1>8, <2>1, <2>3 DEF Places
<1>11. Len(wire) = s[b + 1]
  BY <1>2, <1>6, <1>9
<1> HIDE DEF m
<1>12. FramesInOrder(s)'
  <2>1. ASSUME NEW j \in 1 .. b + 1
        PROVE  s[j + 1] = s[j] + 4 + Len(sent[j])
    <3>1. CASE j = b + 1
      <4>1. j + 1 = b + 2 /\ s[b + 1] = at[b + 1]
        BY <1>2, <1>9, <3>1
      <4> QED BY <1>9, <3>1, <4>1 DEF m
    <3>2. CASE j # b + 1
      <4>1. j \in 1 .. b /\ j + 1 \in 1 .. b + 1
        BY <1>2, <3>2
      <4> QED BY <1>1, <1>9, <4>1 DEF Framed, FramesInOrder
    <3> QED BY <3>1, <3>2
  <2>2. ASSUME NEW i \in 1 .. b + 2, NEW j \in 1 .. b + 2, i < j
        PROVE  s[i] + 4 + Len(sent[i]) <= s[j]
    <3>1. CASE j # b + 2
      <4>1. i \in 1 .. b + 1 /\ j \in 1 .. b + 1
        BY <1>2, <2>2, <3>1
      <4> QED BY <1>1, <1>9, <2>2, <4>1 DEF Framed, FramesInOrder
    <3>2. CASE j = b + 2 /\ i = b + 1
      <4>1. s[i] = at[b + 1]
        BY <1>9, <3>2
      <4>2. s[j] = at[b + 1] + 4 + Len(m) /\ Len(sent[i]) = Len(m) /\ s[j] \in Int
        BY <1>9, <3>2 DEF m
      <4> QED BY <4>1, <4>2
    <3>3. CASE j = b + 2 /\ i # b + 1
      <4>1. i \in 1 .. b + 1 /\ i \in 1 .. b /\ b + 1 \in 1 .. b + 1 /\ i < b + 1
        BY <1>2, <2>2, <3>3
      <4>2. at[i] + 4 + Len(sent[i]) <= at[b + 1]
        BY <1>1, <4>1 DEF Framed, FramesInOrder
      <4>3. \A x, y \in Int, k, n \in Nat : x + 4 + k <= y => x + 4 + k <= y + 4 + n
        OBVIOUS
      <4>4. at[i] \in Int /\ at[b + 1] \in Int /\ Len(sent[i]) \in Nat /\ s[i] = at[i]
        BY <1>2, <1>9, <4>1
      <4>5. at[i] + 4 + Len(sent[i]) <= at[b + 1] + 4 + Len(m)
        BY <1>5, <4>2, <4>3, <4>4
      <4>6. s[j] = at[b + 1] + 4 + Len(m)
        BY <1>9, <3>3
      <4> QED BY <4>4, <4>5, <4>6
    <3> QED BY <3>1, <3>2, <3>3
  <2>3. Begun' + 1 = b + 2
    BY <1>2, <1>6
  <2> QED BY <1>3, <1>6, <2>1, <2>2, <2>3 DEF FramesInOrder
<1>13. \A j \in 1 .. b + 1 : j # b + 1 => j \in 1 .. b
  BY <1>2
<1>14. SizesOnWire(s)'
  <2>1. ASSUME NEW j \in 1 .. b + 1, NEW i \in 1 .. 4, s[j] + i \in 1 .. Len(wire)
        PROVE  wire[s[j] + i] = NetworkOrder(Len(sent[j]))[i]
    <3>1. CASE j = b + 1
      BY <1>2, <1>11, <2>1, <3>1
    <3>2. CASE j # b + 1
      BY <1>1, <1>9, <1>13, <2>1, <3>2 DEF Framed, SizesOnWire
    <3> QED BY <3>1, <3>2
  <2> QED BY <1>3, <1>6, <2>1 DEF SizesOnWire
<1>15. BodiesOnWire(s)'
  <2>1. ASSUME NEW j \in 1 .. b + 1, NEW i \in 1 .. Len(sent[j]), s[j] + 4 + i \in 1 .. Len(wire)
        PROVE  wire[s[j] + 4 + i] = sent[j][i]
    <3>1. CASE j = b + 1
      <4>1. i \in Nat /\ i >= 1
        BY <1>5, <3>1 DEF m
      <4> QED BY <1>2, <1>11, <2>1, <3>1, <4>1
    <3>2. CASE j # b + 1
      BY <1>1, <1>9, <1>13, <2>1, <3>2 DEF Framed, BodiesOnWire
    <3> QED BY <3>1, <3>2
  <2> QED BY <1>3, <1>6, <2>1 DEF BodiesOnWire
<1>16. SenderAt(s)'
  <2>1. snd'.state = "size" /\ snd'.msg = m /\ snd'.write = 0
    BY <1>3, <1>5 DEF Begin
  <2> QED BY <1>2, <1>3, <1>6, <1>11, <2>1 DEF SenderAt, m
<1>17. ReceiverAt(s)'
  <2>1. 1 \in 1 .. b + 1 /\ Received + 1 \in 1 .. b + 1 /\ Received < b + 1
    BY <1>2
  <2>2. s[1] = at[1] /\ s[Received + 1] = at[Received + 1]
    BY <1>9, <2>1
  <2> QED BY <1>1, <1>3, <1>6, <2>1, <2>2 DEF Framed, ReceiverAt
<1>18. Begun' \in Nat /\ Received' <= Begun'
  BY <1>2, <1>6
<1> QED BY <1>7, <1>10, <1>12, <1>14, <1>15, <1>16, <1>17, <1>18 DEF FrameInv, Framed
-----------------------------------------------------------------------------
LEMMA InvInit == Init => IInv
<1> SUFFICES ASSUME Init PROVE IInv
  OBVIOUS
<1>1. TypeOK /\ Counted
  BY TypeInit
<1>2. Len(<<>>) = 0 /\ 1 .. 0 = {}
  BY EmptySeq
<1>3. Begun = 0 /\ Received = 0 /\ QueueIsRest
  BY <1>2 DEF Init, Begun, Received, QueueIsRest
<1>4. PICK at : at = [j \in 1 .. 1 |-> 2]
  OBVIOUS
<1>5. at \in Places /\ at[1] = 2
  BY <1>3, <1>4 DEF Places
<1>6. SenderAt(at) /\ ReceiverAt(at)
  BY <1>2, <1>3, <1>5 DEF Init, SenderAt, ReceiverAt
<1>7. FramesInOrder(at) /\ SizesOnWire(at) /\ BodiesOnWire(at)
  BY <1>3 DEF FramesInOrder, SizesOnWire, BodiesOnWire
<1>8. FrameInv
  BY <1>3, <1>5, <1>6, <1>7 DEF FrameInv, Framed
<1> QED BY <1>1, <1>8 DEF IInv

LEMMA FramesNext ==
  ASSUME IInv, [Next]_vars, ~torn, ~torn'
  PROVE  FrameInv'
<1> FrameInv /\ TypeOK
  BY DEF IInv
<1>1. ASSUME NEW m \in Message, EnqueueSendMessage(m) PROVE FrameInv'
  BY <1>1, EnqueueFrames
<1>2. CASE EnqueueEvent
  BY <1>2, NothingMoves DEF EnqueueEvent
<1>3. CASE TaskArrives
  <2>1. snd'.state = snd.state /\ snd'.msg = snd.msg /\ snd'.write = snd.write
    BY <1>3, TypeFacts DEF TaskArrives, SenderState
  <2> QED BY <1>3, <2>1, NothingMoves DEF TaskArrives
<1>4. CASE SendId
  BY <1>4, SendIdFrames
<1>5. CASE PopMessage
  BY <1>5, PopMessageFrames
<1>6. CASE SendSize
  BY <1>6, SendSizeFrames
<1>7. CASE SendBody
  BY <1>7, SendBodyFrames
<1>8. CASE EndSending
  <2>1. snd'.state = snd.state /\ snd'.msg = snd.msg /\ snd'.write = snd.write
    BY <1>8, TypeFacts DEF EndSending, SenderState
  <2> QED BY <1>8, <2>1, NothingMoves DEF EndSending
<1>9. CASE BecomesReadable
  <2>1. rcv'.state = rcv.state /\ rcv'.size = rcv.size /\ rcv'.read = rcv.read
    BY <1>9, TypeFacts DEF BecomesReadable, ReceiverState
  <2> QED BY <1>9, <2>1, NothingMoves DEF BecomesReadable
<1>10. CASE RecvId
  BY <1>10, RecvIdFrames
<1>11. CASE RecvSize
  BY <1>11, RecvSizeFrames
<1>12. CASE RecvBody
  BY <1>12, RecvBodyFrames
<1>13. CASE Deliver
  BY <1>13, DeliverFrames
<1>14. CASE EndReceiving
  <2>1. rcv'.state = rcv.state /\ rcv'.size = rcv.size /\ rcv'.read = rcv.read
    BY <1>14, TypeFacts DEF EndReceiving, ReceiverState
  <2> QED BY <1>14, <2>1, NothingMoves DEF EndReceiving
<1>15. CASE UNCHANGED vars
  BY <1>15, NothingMoves DEF vars
<1> QED BY <1>1, <1>2, <1>3, <1>4, <1>5, <1>6, <1>7, <1>8, <1>9, <1>10, <1>11, <1>12, <1>13,
           <1>14, <1>15 DEF Next, SenderStep, ReceiverStep

\* A torn channel does nothing more.
LEMMA TornStays == IInv /\ [Next]_vars /\ torn => UNCHANGED vars
  BY DEF IInv, Next, SenderStep, ReceiverStep

LEMMA InvNext == IInv /\ [Next]_vars => IInv'
<1> SUFFICES ASSUME IInv, [Next]_vars PROVE IInv'
  OBVIOUS
<1>1. TypeOK' /\ Counted'
  BY TypeNext
<1>2. ASSUME ~torn' PROVE FrameInv'
  <2>1. ~torn
    BY <1>2, TornStays DEF vars
  <2> QED BY <1>2, <2>1, FramesNext
<1> QED BY <1>1, <1>2 DEF IInv

LEMMA Invariance == Spec => []IInv
<1>1. Spec => Init /\ [][Next]_vars
  BY PTL DEF Spec
<1> QED BY <1>1, InvInit, InvNext, PTL

\* The two ends keep their types: what is written of a message is never more
\* than the message, and what was read of one never more than its size.
THEOREM TypeCorrect == Spec => []TypeOK
<1>1. IInv => TypeOK
  BY DEF IInv
<1> QED BY <1>1, Invariance, PTL
-----------------------------------------------------------------------------
(* The channel implements the link. *)

Undelivered == SubSeq(sent, Len(delivered) + 1, Len(sent))

LEMMA UndeliveredFacts ==
  ASSUME NEW S, NEW q \in Seq(S), NEW d \in Nat, d <= Len(q)
  PROVE  LET rest == SubSeq(q, d + 1, Len(q)) IN
         /\ rest \in Seq(S) /\ Len(q) \in Nat /\ Len(rest) = Len(q) - d
         /\ \A j \in 1 .. Len(rest) : rest[j] = q[d + j]
<1> DEFINE n == Len(q) - d
<1>1. Len(q) \in Nat
  BY LenProperties
<1>2. n \in Nat /\ d + n = Len(q) /\ d + n <= Len(q)
  BY <1>1
<1> HIDE DEF n
<1> DEFINE rest == SubSeq(q, d + 1, d + n)
<1>3. rest \in Seq(S) /\ Len(rest) = n /\ \A j \in 1 .. n : rest[j] = q[d + j]
  BY <1>2, PrefixFacts
<1>4. rest = SubSeq(q, d + 1, Len(q))
  BY <1>2
<1> HIDE DEF rest
<1> QED BY <1>1, <1>3, <1>4 DEF n

\* One more message is sent.
LEMMA UndeliveredGrows ==
  ASSUME NEW S, NEW q \in Seq(S), NEW x \in S, NEW d \in Nat, d <= Len(q)
  PROVE  SubSeq(Append(q, x), d + 1, Len(Append(q, x))) = Append(SubSeq(q, d + 1, Len(q)), x)
<1> DEFINE a == Append(q, x)
<1>1. /\ a \in Seq(S) /\ Len(q) \in Nat /\ Len(a) = Len(q) + 1
      /\ \A j \in 1 .. Len(q) : a[j] = q[j]
      /\ a[Len(q) + 1] = x
  BY AppendFacts
<1> HIDE DEF a
<1> DEFINE l == SubSeq(a, d + 1, Len(a))
<1> DEFINE p == SubSeq(q, d + 1, Len(q))
<1>2. d <= Len(a)
  BY <1>1
<1>3. l \in Seq(S) /\ Len(l) = Len(a) - d /\ \A j \in 1 .. Len(l) : l[j] = a[d + j]
  BY <1>1, <1>2, UndeliveredFacts
<1>4. p \in Seq(S) /\ Len(p) = Len(q) - d /\ \A j \in 1 .. Len(p) : p[j] = q[d + j]
  BY UndeliveredFacts
<1> HIDE DEF l, p
<1> DEFINE r == Append(p, x)
<1>5. /\ r \in Seq(S) /\ Len(p) \in Nat /\ Len(r) = Len(p) + 1
      /\ \A j \in 1 .. Len(p) : r[j] = p[j]
      /\ r[Len(p) + 1] = x
  BY <1>4, AppendFacts
<1> HIDE DEF r
<1>6. Len(l) = Len(r) /\ Len(r) = (Len(q) - d) + 1
  BY <1>1, <1>3, <1>4, <1>5
<1>7. ASSUME NEW j \in 1 .. Len(l) PROVE l[j] = r[j]
  <2>1. CASE j = Len(p) + 1
    <3>1. d + j = Len(q) + 1
      BY <1>1, <1>4, <2>1
    <3> QED BY <1>1, <1>3, <1>5, <2>1, <3>1
  <2>2. CASE j # Len(p) + 1
    <3>1. j \in 1 .. Len(p) /\ d + j \in 1 .. Len(q)
      BY <1>1, <1>4, <1>5, <1>6, <2>2
    <3> QED BY <1>1, <1>3, <1>4, <1>5, <3>1
  <2> QED BY <2>1, <2>2
<1>8. l = r
  BY <1>3, <1>5, <1>6, <1>7, SeqEqual
<1> QED BY <1>8 DEF l, r, p, a

\* One more message is delivered.
LEMMA UndeliveredShrinks ==
  ASSUME NEW S, NEW q \in Seq(S), NEW d \in Nat, d < Len(q)
  PROVE  /\ SubSeq(q, d + 1, Len(q)) # <<>>
         /\ Head(SubSeq(q, d + 1, Len(q))) = q[d + 1]
         /\ SubSeq(q, (d + 1) + 1, Len(q)) = Tail(SubSeq(q, d + 1, Len(q)))
<1>1. Len(q) \in Nat /\ d <= Len(q) /\ d + 1 <= Len(q) /\ d + 1 \in Nat
  BY LenProperties
<1> DEFINE p == SubSeq(q, d + 1, Len(q))
<1> DEFINE l == SubSeq(q, (d + 1) + 1, Len(q))
<1>2. p \in Seq(S) /\ Len(p) = Len(q) - d /\ \A j \in 1 .. Len(p) : p[j] = q[d + j]
  BY <1>1, UndeliveredFacts
<1>3. l \in Seq(S) /\ Len(l) = Len(q) - (d + 1) /\ \A j \in 1 .. Len(l) : l[j] = q[(d + 1) + j]
  BY <1>1, UndeliveredFacts
<1> HIDE DEF p, l
<1>4. Len(p) \in Nat /\ Len(p) >= 1 /\ p # <<>>
  BY <1>1, <1>2, LenProperties, EmptySeq
<1> DEFINE t == Tail(p)
<1>5. /\ t \in Seq(S) /\ Len(t) = Len(p) - 1 /\ Head(p) = p[1]
      /\ \A j \in 1 .. Len(t) : t[j] = p[j + 1]
  BY <1>2, <1>4, TailFacts
<1> HIDE DEF t
<1>6. Head(p) = q[d + 1]
  BY <1>2, <1>4, <1>5
<1>7. Len(l) = Len(t)
  BY <1>1, <1>2, <1>3, <1>5
<1>8. ASSUME NEW j \in 1 .. Len(l) PROVE l[j] = t[j]
  <2>1. j \in 1 .. Len(t) /\ j + 1 \in 1 .. Len(p) /\ (d + 1) + j = d + (j + 1)
    BY <1>1, <1>4, <1>5, <1>7
  <2> QED BY <1>2, <1>3, <1>5, <2>1
<1>9. l = t
  BY <1>3, <1>5, <1>7, <1>8, SeqEqual
<1> QED BY <1>4, <1>6, <1>9 DEF p, l, t

LEMMA LinkInit == Init => Connection!Init
<1> SUFFICES ASSUME Init PROVE Connection!Init
  OBVIOUS
<1>1. sent = <<>> /\ delivered = <<>> /\ torn = FALSE
  BY DEF Init
<1>2. Undelivered = <<>>
  <2>1. <<>> \in Seq(Message) /\ Len(<<>>) = 0 /\ 0 \in Nat /\ 0 <= Len(<<>>)
    BY EmptySeq
  <2> DEFINE rest == SubSeq(<<>>, 0 + 1, Len(<<>>))
  <2>2. rest \in Seq(Message) /\ Len(rest) = Len(<<>>) - 0
    BY <2>1, UndeliveredFacts
  <2>3. Undelivered = rest
    BY <1>1, <2>1 DEF Undelivered
  <2> HIDE DEF rest
  <2> QED BY <2>1, <2>2, <2>3, EmptySeq
<1> QED BY <1>1, <1>2 DEF Connection!Init, Undelivered

LEMMA LinkNext == IInv /\ [Next]_vars => [Connection!Next]_(Connection!vars)
<1> SUFFICES ASSUME IInv, [Next]_vars
             PROVE  Connection!Next \/ UNCHANGED <<Undelivered, delivered, torn>>
  BY DEF Connection!vars, Undelivered
<1>1. sent \in Seq(Message) /\ Len(sent) \in Nat /\ Received \in Nat
  BY TypeFacts DEF IInv, Received
<1>2. CASE UNCHANGED <<sent, delivered>>
  <2>1. UNCHANGED <<Undelivered, delivered>>
    BY <1>2 DEF Undelivered
  <2>2. torn' = TRUE \/ torn' = torn
    <3>1. torn \in BOOLEAN /\ torn' \in BOOLEAN
      BY TypeNext DEF IInv, TypeOK
    <3>2. torn => UNCHANGED vars
      BY TornStays
    <3> QED BY <3>1, <3>2 DEF vars
  <2>3. CASE torn' = TRUE
    BY <2>1, <2>3 DEF Connection!Next, Connection!Break, Undelivered
  <2> QED BY <2>1, <2>2, <2>3
<1>3. ASSUME NEW m \in Message, ~torn, EnqueueSendMessage(m) PROVE Connection!Next
  <2>1. Received <= Len(sent)
    BY <1>3, FrameFacts
  <2>2. sent' = Append(sent, m) /\ delivered' = delivered /\ torn' = torn
    BY <1>3 DEF EnqueueSendMessage
  <2>3. Undelivered' = Append(Undelivered, m)
    <3>1. SubSeq(Append(sent, m), Received + 1, Len(Append(sent, m)))
            = Append(SubSeq(sent, Received + 1, Len(sent)), m)
      BY <1>1, <2>1, UndeliveredGrows
    <3> QED BY <2>2, <3>1 DEF Undelivered, Received
  <2> QED BY <2>2, <2>3 DEF Connection!Next, Connection!Send, Undelivered
<1>4. CASE ~torn /\ Deliver
  <2>1. delivered' = Append(delivered, sent[Received + 1]) /\ Received < Len(sent)
        /\ Received' = Received + 1
    <3>1. Received < Begun /\ delivered' = Append(delivered, sent[Received + 1])
      BY <1>4, DeliverNext
    <3>2. Received < Len(sent) /\ Received + 1 \in 1 .. Begun
      BY <1>4, <3>1, FrameFacts
    <3>3. delivered \in Seq(Seq(Byte)) /\ sent[Received + 1] \in Seq(Byte)
      BY <1>4, <3>2, FrameFacts, MessageFacts, TypeFacts DEF IInv
    <3>4. Received' = Received + 1
      BY <3>1, <3>3, AppendFacts DEF Received
    <3> QED BY <3>1, <3>2, <3>4
  <2>2. sent' = sent /\ torn' = torn
    BY <1>4 DEF Deliver
  <2>3. Undelivered # <<>> /\ Head(Undelivered) = sent[Received + 1]
        /\ Undelivered' = Tail(Undelivered)
    <3>1. /\ SubSeq(sent, Received + 1, Len(sent)) # <<>>
          /\ Head(SubSeq(sent, Received + 1, Len(sent))) = sent[Received + 1]
          /\ SubSeq(sent, (Received + 1) + 1, Len(sent))
               = Tail(SubSeq(sent, Received + 1, Len(sent)))
      BY <1>1, <2>1, UndeliveredShrinks
    <3>2. Undelivered = SubSeq(sent, Received + 1, Len(sent))
          /\ Undelivered' = SubSeq(sent, (Received + 1) + 1, Len(sent))
      BY <2>1, <2>2 DEF Undelivered, Received
    <3> QED BY <3>1, <3>2
  <2> QED BY <1>4, <2>1, <2>2, <2>3 DEF Connection!Next, Connection!Deliver, Undelivered
<1>5. \/ UNCHANGED <<sent, delivered>>
      \/ \E m \in Message : ~torn /\ EnqueueSendMessage(m)
      \/ ~torn /\ Deliver
  BY DEF Next, SenderStep, ReceiverStep, vars, EnqueueEvent, TaskArrives, SendId, SendWhole,
         Transmit, PopMessage, SendSize, SendBody, EndSending, BecomesReadable, RecvId,
         Receive, RecvSize, RecvBody, EndReceiving
<1> QED BY <1>2, <1>3, <1>4, <1>5

\* In whatever pieces the kernel takes and gives the bytes, what OnReceivePeerMessage
\* gets is what SendMessageToPeer was given, whole, in its order, none twice and none
\* left out, until a length or an id is split.
THEOREM LinkImplemented == Spec => ImplementsLink
<1>1. Spec => Init /\ [][Next]_vars
  BY PTL DEF Spec
<1> QED BY <1>1, Invariance, LinkInit, LinkNext, PTL DEF ImplementsLink, Connection!Spec
==============================================================================
