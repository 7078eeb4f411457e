------------------------- MODULE ReplicatedLogProofs ------------------------
(***************************************************************************)
(* Proof that, with one proposer and without faults, the state machines    *)
(* form a replicated log: in whatever order messages of different nodes    *)
(* are handled, however often clients time out and propose again, and      *)
(* whichever nodes catch up.                                               *)
(*                                                                         *)
(* What the nodes do is decided by the proposer's broadcasts, which reach  *)
(* all of them in one order.  So every node, if it handled what is queued  *)
(* for it, would get to one and the same state; and what it has executed   *)
(* by now is a prefix of what it would have executed then.                 *)
(***************************************************************************)
EXTENDS InstanceProofs

\* The part of a node's state that the proposer's broadcasts determine.
NodeState ==
  {a \in [inst : Nat, acc : State, log : Seq(AnyValue)] : Len(a.log) = a.inst}

View(n) == [inst |-> inst[n], acc |-> acc[n], log |-> ExecutedValues(n)]

Views == [n \in Node |-> View(n)]

\* The messages that one node sends to all, and the others.
Neutral(m) == m.type \notin {"PREPARE", "ACCEPT", "LEARN"}

\* The state of a node that handles the message m in state a.
Handled(a, m) ==
  IF m.type = "PREPARE" /\ m.inst = a.inst
       /\ (~a.acc.promised \/ a.acc.promisedId <= m.id)
    THEN [inst |-> a.inst, log |-> a.log,
          acc |-> [a.acc EXCEPT !.promised = TRUE, !.promisedId = m.id]]
  ELSE IF m.type = "ACCEPT" /\ m.inst = a.inst /\ a.acc.promisedId <= m.proposal.id
    THEN [inst |-> a.inst, log |-> a.log,
          acc |-> [a.acc EXCEPT !.accepted = TRUE, !.proposal = m.proposal]]
  ELSE IF m.type = "LEARN" /\ m.inst = a.inst
    THEN [inst |-> a.inst + 1, log |-> Append(a.log, a.acc.proposal.value),
          acc |-> EmptyState]
  ELSE a

\* The sequence s is a prefix of t.
Starts(s, t) == Len(s) <= Len(t) /\ \A k \in 1 .. Len(s) : s[k] = t[k]

\* V takes a node through the messages q to the state f: no broadcast is for an
\* instance that the node has not reached when it gets to it.
Path(V, q, f) ==
  /\ V \in [0 .. Len(q) -> NodeState]
  /\ V[Len(q)] = f
  /\ \A j \in 1 .. Len(q) :
       /\ V[j] = Handled(V[j - 1], q[j])
       /\ ~Neutral(q[j]) => q[j].inst <= V[j - 1].inst
  /\ \A j \in 0 .. Len(q) : Starts(V[j].log, f.log)

\* Handling the messages q takes a node from state a to state f.
Leads(a, q, f) == \E V : Path(V, q, f) /\ V[0] = a

\* Handling what p has sent takes every node from its state in w to f.
AllLead(p, nt, w, f) == \A n \in Node : Leads(w[n], nt[p][n], f)
-----------------------------------------------------------------------------
(* States and messages. *)

LEMMA HandledType ==
  ASSUME NEW a \in NodeState, NEW m \in Message
  PROVE  /\ Handled(a, m) \in NodeState
         /\ Starts(a.log, Handled(a, m).log)
         /\ Neutral(m) => Handled(a, m) = a
         /\ Handled(a, m).inst = a.inst \/ /\ Handled(a, m).inst = a.inst + 1
                                           /\ Handled(a, m).acc = EmptyState
         /\ ~Neutral(m) /\ m.inst # a.inst => Handled(a, m) = a
<1>1. /\ a.inst \in Nat /\ a.acc \in State /\ a.log \in Seq(AnyValue)
      /\ Len(a.log) = a.inst
      /\ a = [inst |-> a.inst, acc |-> a.acc, log |-> a.log]
  BY DEF NodeState
<1>2. Starts(a.log, a.log)
  BY <1>1 DEF Starts
<1>3. CASE Handled(a, m) = a
  BY <1>2, <1>3
<1>4. ASSUME NEW st \in State, Handled(a, m) = [inst |-> a.inst, log |-> a.log, acc |-> st]
      PROVE  /\ Handled(a, m) \in NodeState /\ Starts(a.log, Handled(a, m).log)
             /\ Handled(a, m).inst = a.inst
  BY <1>1, <1>2, <1>4 DEF NodeState
<1>5. CASE /\ m.type = "PREPARE" /\ m.inst = a.inst
           /\ ~a.acc.promised \/ a.acc.promisedId <= m.id
  <2>1. m.id \in Nat
    BY <1>5, MessageFields
  <2>2. [a.acc EXCEPT !.promised = TRUE, !.promisedId = m.id] \in State
    BY <1>1, <2>1 DEF State
  <2>3. Handled(a, m) = [inst |-> a.inst, log |-> a.log,
                         acc |-> [a.acc EXCEPT !.promised = TRUE, !.promisedId = m.id]]
    BY <1>5 DEF Handled
  <2> QED BY <1>4, <1>5, <2>2, <2>3 DEF Neutral
<1>6. CASE m.type = "ACCEPT" /\ m.inst = a.inst /\ a.acc.promisedId <= m.proposal.id
  <2>1. m.proposal \in Proposal
    BY <1>6, MessageFields
  <2>2. [a.acc EXCEPT !.accepted = TRUE, !.proposal = m.proposal] \in State
    BY <1>1, <2>1 DEF State
  <2>3. Handled(a, m) = [inst |-> a.inst, log |-> a.log,
                         acc |-> [a.acc EXCEPT !.accepted = TRUE, !.proposal = m.proposal]]
    BY <1>6 DEF Handled
  <2> QED BY <1>4, <1>6, <2>2, <2>3 DEF Neutral
<1>7. CASE m.type = "LEARN" /\ m.inst = a.inst
  <2>1. a.acc.proposal.value \in AnyValue
    BY <1>1 DEF State, Proposal
  <2> DEFINE log == Append(a.log, a.acc.proposal.value)
  <2>2. /\ log \in Seq(AnyValue) /\ Len(log) = Len(a.log) + 1
        /\ \A k \in 1 .. Len(a.log) : log[k] = a.log[k]
    BY <1>1, <2>1, AppendProperties
  <2>3. Handled(a, m) = [inst |-> a.inst + 1, log |-> log, acc |-> EmptyState]
    BY <1>7 DEF Handled
  <2> HIDE DEF log
  <2>4. Handled(a, m) \in NodeState
    BY <1>1, <2>2, <2>3, EmptyStateType DEF NodeState
  <2>5. Starts(a.log, log)
    BY <1>1, <2>2 DEF Starts
  <2> QED BY <1>7, <2>3, <2>4, <2>5 DEF Neutral
<1>8. CASE Neutral(m) \/ m.inst # a.inst
  BY <1>3, <1>8 DEF Handled, Neutral
<1> QED BY <1>3, <1>5, <1>6, <1>7, <1>8 DEF Handled

LEMMA StartsTransitive ==
  ASSUME NEW S, NEW s \in Seq(S), NEW t \in Seq(S), NEW u \in Seq(S),
         Starts(s, t), Starts(t, u)
  PROVE  Starts(s, u)
<1>1. Len(s) \in Nat /\ Len(t) \in Nat /\ Len(u) \in Nat
  BY LenProperties
<1>2. \A k \in 1 .. Len(s) : k \in 1 .. Len(t)
  BY <1>1 DEF Starts
<1> QED BY <1>1, <1>2 DEF Starts
-----------------------------------------------------------------------------
(* Paths. *)

\* The ends of a path.
LEMMA LeadsFacts ==
  ASSUME NEW q \in Seq(Message), NEW a, NEW f, Leads(a, q, f)
  PROVE  /\ a \in NodeState /\ f \in NodeState
         /\ Starts(a.log, f.log) /\ a.inst <= f.inst
<1>1. PICK V : Path(V, q, f) /\ V[0] = a
  BY DEF Leads
<1>2. Len(q) \in Nat /\ 0 \in 0 .. Len(q) /\ Len(q) \in 0 .. Len(q)
  BY LenProperties
<1>3. a \in NodeState /\ f \in NodeState /\ Starts(a.log, f.log)
  BY <1>1, <1>2 DEF Path
<1> QED BY <1>3 DEF Starts, NodeState

LEMMA NothingLeads ==
  ASSUME NEW a \in NodeState
  PROVE  Leads(a, <<>>, a)
<1> DEFINE V == [j \in 0 .. 0 |-> a]
<1>1. /\ V \in [0 .. Len(<<>>) -> NodeState] /\ V[0] = a
      /\ Len(<<>>) = 0
  BY EmptySeq
<1>2. Starts(a.log, a.log)
  BY DEF NodeState, Starts
<1> HIDE DEF V
<1>3. Path(V, <<>>, a)
  <2>1. \A j \in 0 .. Len(<<>>) : j = 0
    BY <1>1
  <2>2. \A j \in 1 .. Len(<<>>) : FALSE
    BY <1>1
  <2> QED BY <1>1, <1>2, <2>1, <2>2 DEF Path
<1> QED BY <1>1, <1>3 DEF Leads

\* A message is added at the end.
LEMMA AppendLeads ==
  ASSUME NEW q \in Seq(Message), NEW a, NEW f, Leads(a, q, f), NEW m \in Message,
         ~Neutral(m) => m.inst <= f.inst
  PROVE  Leads(a, Append(q, m), Handled(f, m))
<1> DEFINE l == Len(q)
           r == Append(q, m)
           g == Handled(f, m)
<1>1. PICK V : Path(V, q, f) /\ V[0] = a
  BY DEF Leads
<1>2. /\ l \in Nat /\ Len(r) = l + 1 /\ r[l + 1] = m
      /\ \A j \in 1 .. l : r[j] = q[j]
  BY LenProperties, AppendProperties
<1>3. f \in NodeState /\ g \in NodeState /\ Starts(f.log, g.log)
  BY LeadsFacts, HandledType
<1>4. /\ V \in [0 .. l -> NodeState] /\ V[l] = f
      /\ \A j \in 1 .. l : /\ V[j] = Handled(V[j - 1], q[j])
                           /\ ~Neutral(q[j]) => q[j].inst <= V[j - 1].inst
      /\ \A j \in 0 .. l : Starts(V[j].log, f.log)
  BY <1>1 DEF Path
<1> DEFINE U == [j \in 0 .. l + 1 |-> IF j = l + 1 THEN g ELSE V[j]]
<1> HIDE DEF l, r, g
<1>5. /\ \A j \in 0 .. l : j \in 0 .. l + 1 /\ j # l + 1
      /\ \A j \in 0 .. l + 1 : j = l + 1 \/ j \in 0 .. l
      /\ l + 1 \in 0 .. l + 1 /\ 0 \in 0 .. l /\ l \in 0 .. l
  BY <1>2
<1>6. /\ U \in [0 .. l + 1 -> NodeState] /\ U[l + 1] = g
      /\ \A j \in 0 .. l : U[j] = V[j]
  BY <1>3, <1>4, <1>5
<1> HIDE DEF U
<1>7. ASSUME NEW j \in 1 .. l + 1
      PROVE  /\ U[j] = Handled(U[j - 1], r[j])
             /\ ~Neutral(r[j]) => r[j].inst <= U[j - 1].inst
  <2>1. CASE j = l + 1
    <3>1. j - 1 = l
      BY <1>2, <2>1
    <3>2. U[j - 1] = f /\ r[j] = m
      BY <1>2, <1>4, <1>5, <1>6, <2>1, <3>1
    <3> QED BY <1>6, <2>1, <3>2 DEF g
  <2>2. CASE j \in 1 .. l
    <3>1. j \in 0 .. l /\ j - 1 \in 0 .. l
      BY <1>2, <2>2
    <3>2. U[j] = V[j] /\ U[j - 1] = V[j - 1] /\ r[j] = q[j]
      BY <1>2, <1>6, <2>2, <3>1
    <3> QED BY <1>4, <2>2, <3>2
  <2> QED BY <1>2, <2>1, <2>2
<1>8. ASSUME NEW j \in 0 .. l + 1 PROVE Starts(U[j].log, g.log)
  <2>1. CASE j = l + 1
    <3>1. g.log \in Seq(AnyValue)
      BY <1>3 DEF NodeState
    <3> QED BY <1>6, <2>1, <3>1, LenProperties DEF Starts
  <2>2. CASE j \in 0 .. l
    <3>1. Starts(V[j].log, f.log) /\ U[j] = V[j] /\ V[j] \in NodeState
      BY <1>4, <1>6, <2>2
    <3>2. V[j].log \in Seq(AnyValue) /\ f.log \in Seq(AnyValue) /\ g.log \in Seq(AnyValue)
      BY <1>3, <3>1 DEF NodeState
    <3> QED BY <1>3, <3>1, <3>2, StartsTransitive
  <2> QED BY <1>5, <2>1, <2>2
<1>9. Path(U, r, g)
  BY <1>2, <1>6, <1>7, <1>8 DEF Path
<1>10. U[0] = a
  BY <1>1, <1>5, <1>6
<1> QED BY <1>9, <1>10 DEF Leads, r, g

\* The first message is handled.
LEMMA TailLeads ==
  ASSUME NEW q \in Seq(Message), NEW a, NEW f, Leads(a, q, f), q # <<>>
  PROVE  Leads(Handled(a, Head(q)), Tail(q), f)
<1> DEFINE l == Len(q)
           r == Tail(q)
<1>1. PICK V : Path(V, q, f) /\ V[0] = a
  BY DEF Leads
<1>2. /\ l \in Nat /\ l >= 1 /\ Len(r) = l - 1
      /\ \A j \in 1 .. l - 1 : r[j] = q[j + 1]
      /\ Head(q) = q[1]
  BY LenProperties, EmptySeq, HeadTailProperties
<1>3. /\ V \in [0 .. l -> NodeState] /\ V[l] = f
      /\ \A j \in 1 .. l : /\ V[j] = Handled(V[j - 1], q[j])
                           /\ ~Neutral(q[j]) => q[j].inst <= V[j - 1].inst
      /\ \A j \in 0 .. l : Starts(V[j].log, f.log)
  BY <1>1 DEF Path
<1> DEFINE U == [j \in 0 .. l - 1 |-> V[j + 1]]
<1> HIDE DEF l, r
<1>4. \A j \in 0 .. l - 1 : j + 1 \in 0 .. l
  BY <1>2
<1>5. U \in [0 .. l - 1 -> NodeState] /\ \A j \in 0 .. l - 1 : U[j] = V[j + 1]
  BY <1>3, <1>4
<1> HIDE DEF U
<1>6. U[l - 1] = f
  <2>1. l - 1 \in 0 .. l - 1 /\ (l - 1) + 1 = l
    BY <1>2
  <2> QED BY <1>3, <1>5, <2>1
<1>7. U[0] = Handled(a, Head(q))
  <2>1. 0 \in 0 .. l - 1 /\ 0 + 1 = 1 /\ 1 - 1 = 0 /\ 1 \in 1 .. l
    BY <1>2
  <2>2. U[0] = V[1]
    BY <1>5, <2>1
  <2>3. V[1] = Handled(V[0], q[1])
    BY <1>3, <2>1
  <2> QED BY <1>1, <1>2, <2>2, <2>3
<1>8. ASSUME NEW j \in 1 .. l - 1
      PROVE  /\ U[j] = Handled(U[j - 1], r[j])
             /\ ~Neutral(r[j]) => r[j].inst <= U[j - 1].inst
  <2>1. /\ j \in 0 .. l - 1 /\ j - 1 \in 0 .. l - 1 /\ (j - 1) + 1 = j
        /\ j + 1 \in 1 .. l /\ (j + 1) - 1 = j
    BY <1>2
  <2>2. U[j] = V[j + 1] /\ U[j - 1] = V[j] /\ r[j] = q[j + 1]
    <3>1. U[j - 1] = V[(j - 1) + 1]
      BY <1>5, <2>1
    <3> QED BY <1>2, <1>5, <2>1, <3>1
  <2>3. /\ V[j + 1] = Handled(V[(j + 1) - 1], q[j + 1])
        /\ ~Neutral(q[j + 1]) => q[j + 1].inst <= V[(j + 1) - 1].inst
    BY <1>3, <2>1
  <2> QED BY <2>1, <2>2, <2>3
<1>9. \A j \in 0 .. l - 1 : Starts(U[j].log, f.log)
  BY <1>3, <1>4, <1>5
<1>10. Path(U, r, f)
  BY <1>2, <1>5, <1>6, <1>8, <1>9 DEF Path
<1> QED BY <1>7, <1>10 DEF Leads, r

\* A node that catches up gets to the beginning of an instance it would have got
\* to anyway: the messages it skips are of instances it has left.
LEMMA JumpLeads ==
  ASSUME NEW q \in Seq(Message), NEW a, NEW f, Leads(a, q, f),
         NEW b \in NodeState, b.acc = EmptyState, Starts(b.log, f.log), a.inst < b.inst
  PROVE  Leads(b, q, f)
<1> DEFINE l == Len(q)
<1>1. PICK V : Path(V, q, f) /\ V[0] = a
  BY DEF Leads
<1>2. l \in Nat /\ \A j \in 1 .. l : q[j] \in Message
  BY LenProperties, ElementOfSeq
<1>3. /\ V \in [0 .. l -> NodeState] /\ V[l] = f
      /\ \A j \in 1 .. l : /\ V[j] = Handled(V[j - 1], q[j])
                           /\ ~Neutral(q[j]) => q[j].inst <= V[j - 1].inst
      /\ \A j \in 0 .. l : Starts(V[j].log, f.log)
  BY <1>1 DEF Path
<1> HIDE DEF l
<1>4. 0 \in 0 .. l /\ l \in 0 .. l /\ \A j \in 1 .. l : j \in 0 .. l /\ j - 1 \in 0 .. l
  BY <1>2
<1>5. /\ b.inst \in Nat /\ b.log \in Seq(AnyValue) /\ Len(b.log) = b.inst
      /\ b = [inst |-> b.inst, acc |-> EmptyState, log |-> b.log]
  BY DEF NodeState
<1>6. \A j \in 0 .. l : /\ V[j].inst \in Nat /\ V[j].log \in Seq(AnyValue)
                        /\ Len(V[j].log) = V[j].inst
                        /\ V[j] = [inst |-> V[j].inst, acc |-> V[j].acc, log |-> V[j].log]
  BY <1>3 DEF NodeState
<1>7. f.inst \in Nat /\ Len(f.log) = f.inst /\ b.inst <= f.inst
  BY <1>3, <1>4, <1>5, <1>6 DEF Starts
<1> DEFINE U == [j \in 0 .. l |-> IF V[j].inst < b.inst THEN b ELSE V[j]]
<1>8. /\ U \in [0 .. l -> NodeState]
      /\ \A j \in 0 .. l : U[j] = IF V[j].inst < b.inst THEN b ELSE V[j]
  BY <1>3
<1> HIDE DEF U
<1>9. U[l] = f /\ U[0] = b
  <2>1. U[l] = IF f.inst < b.inst THEN b ELSE f
    BY <1>3, <1>4, <1>8
  <2>2. ~(f.inst < b.inst)
    BY <1>5, <1>7
  <2>3. U[0] = IF a.inst < b.inst THEN b ELSE a
    BY <1>1, <1>4, <1>8
  <2> QED BY <2>1, <2>2, <2>3
<1>10. ASSUME NEW j \in 1 .. l
       PROVE  /\ U[j] = Handled(U[j - 1], q[j])
              /\ ~Neutral(q[j]) => q[j].inst <= U[j - 1].inst
  <2> DEFINE u == V[j - 1]
             v == V[j]
             m == q[j]
  <2>1. /\ v = Handled(u, m) /\ (~Neutral(m) => m.inst <= u.inst)
        /\ u \in NodeState /\ m \in Message
        /\ u.inst \in Nat /\ v.inst \in Nat
        /\ v.log \in Seq(AnyValue) /\ Len(v.log) = v.inst /\ Starts(v.log, f.log)
        /\ v = [inst |-> v.inst, acc |-> v.acc, log |-> v.log]
        /\ U[j] = (IF v.inst < b.inst THEN b ELSE v)
        /\ U[j - 1] = (IF u.inst < b.inst THEN b ELSE u)
    BY <1>2, <1>3, <1>4, <1>6, <1>8
  <2> HIDE DEF u, v, m
  <2>2. v.inst = u.inst \/ (v.inst = u.inst + 1 /\ v.acc = EmptyState)
    BY <2>1, HandledType
  <2>3. ~Neutral(m) => m \in Message /\ m.inst \in Nat
    BY <2>1, MessageFields, MaxInstAssumption DEF Neutral, HasInstance, Inst
  <2>4. CASE u.inst < b.inst
    <3>1. Handled(b, m) = b
      <4>1. ~Neutral(m) => m.inst # b.inst
        BY <1>5, <2>1, <2>3, <2>4
      <4> QED BY <2>1, <4>1, HandledType
    <3>2. v.inst < b.inst \/ v = b
      <4>1. SUFFICES ASSUME ~(v.inst < b.inst) PROVE v = b
        OBVIOUS
      <4>2. v.inst = b.inst /\ v.acc = EmptyState
        BY <1>5, <2>1, <2>2, <2>4, <4>1
      <4>3. \A k \in 1 .. Len(b.log) : v.log[k] = b.log[k]
        BY <1>5, <2>1, <4>2 DEF Starts
      <4>4. /\ v.log \in Seq(AnyValue) /\ b.log \in Seq(AnyValue)
            /\ Len(v.log) = Len(b.log)
        BY <1>5, <2>1, <4>2 DEF NodeState
      <4>5. v.log = b.log
        BY <4>3, <4>4, SeqEqual
      <4> QED BY <1>5, <2>1, <4>2, <4>5
    <3>3. U[j] = b /\ U[j - 1] = b
      BY <2>1, <2>4, <3>2
    <3>4. ~Neutral(m) => m.inst <= b.inst
      BY <1>5, <2>1, <2>3, <2>4
    <3> QED BY <3>1, <3>3, <3>4 DEF m
  <2>5. CASE ~(u.inst < b.inst)
    <3>1. ~(v.inst < b.inst)
      BY <1>5, <2>1, <2>2, <2>5
    <3> QED BY <2>1, <2>5, <3>1 DEF m
  <2> QED BY <2>4, <2>5
<1>11. ASSUME NEW j \in 0 .. l PROVE Starts(U[j].log, f.log)
  BY <1>3, <1>8
<1>12. Path(U, q, f)
  BY <1>8, <1>9, <1>10, <1>11 DEF Path, l
<1> QED BY <1>9, <1>12 DEF Leads
-----------------------------------------------------------------------------
(* The network. *)

LEMMA SendTo ==
  ASSUME NEW nt \in Network, NEW n \in Node, NEW dests, NEW m,
         NEW a \in Node, NEW b \in Node
  PROVE  Send(nt, n, dests, m)[a][b] =
           IF a = n /\ b \in dests THEN Append(nt[a][b], m) ELSE nt[a][b]
  BY DEF Send, Network

\* Other messages do not matter, whoever sends them.
LEMMA NeutralSend ==
  ASSUME NEW p \in Node, NEW nt \in Network, NEW w, NEW f, AllLead(p, nt, w, f),
         NEW n \in Node, NEW dests, NEW m \in Message, Neutral(m)
  PROVE  AllLead(p, Send(nt, n, dests, m), w, f)
<1> SUFFICES ASSUME NEW r \in Node
             PROVE  Leads(w[r], Send(nt, n, dests, m)[p][r], f)
  BY DEF AllLead
<1>1. nt[p][r] \in Seq(Message) /\ Leads(w[r], nt[p][r], f)
  BY DEF AllLead, Network
<1>2. Handled(f, m) = f
  BY <1>1, LeadsFacts, HandledType
<1>3. Leads(w[r], Append(nt[p][r], m), f)
  BY <1>1, <1>2, AppendLeads
<1> QED BY <1>1, <1>3, SendTo

\* A broadcast takes all nodes one message further.
LEMMA ProposerBroadcast ==
  ASSUME NEW p \in Node, NEW nt \in Network, NEW w, NEW f, AllLead(p, nt, w, f),
         NEW m \in Message, m.inst <= f.inst, \A n \in Node : up[n]
  PROVE  AllLead(p, Broadcast(nt, p, m), w, Handled(f, m))
<1> SUFFICES ASSUME NEW r \in Node
             PROVE  Leads(w[r], Broadcast(nt, p, m)[p][r], Handled(f, m))
  BY DEF AllLead
<1>1. nt[p][r] \in Seq(Message) /\ Leads(w[r], nt[p][r], f)
  BY DEF AllLead, Network
<1>2. Leads(w[r], Append(nt[p][r], m), Handled(f, m))
  BY <1>1, AppendLeads
<1>3. r \in Running
  BY DEF Running
<1> QED BY <1>2, <1>3, SendTo DEF Broadcast

\* The message that is taken is handled.
LEMMA ReceivedLead ==
  ASSUME net \in Network, NEW p \in Node, NEW w \in [Node -> NodeState], NEW f,
         AllLead(p, net, w, f),
         NEW s \in Node, NEW n \in Node, net[s][n] # <<>>,
         s = p \/ Neutral(Head(net[s][n]))
  PROVE  AllLead(p, Received(s, n), [w EXCEPT ![n] = Handled(w[n], Head(net[s][n]))], f)
<1> DEFINE x == Head(net[s][n])
           u == [w EXCEPT ![n] = Handled(w[n], x)]
<1>1. x \in Message
  BY ReceivedType
<1>2. SUFFICES ASSUME NEW r \in Node
               PROVE  Leads(u[r], Received(s, n)[p][r], f)
  BY DEF AllLead
<1>3. /\ net[p][r] \in Seq(Message) /\ Leads(w[r], net[p][r], f)
      /\ Received(s, n)[p][r] = IF p = s /\ r = n THEN Tail(net[p][r]) ELSE net[p][r]
      /\ u[r] = IF r = n THEN Handled(w[r], x) ELSE w[r]
  BY DEF AllLead, Network, Received
<1>4. CASE p = s /\ r = n
  <2>1. Leads(Handled(w[r], Head(net[p][r])), Tail(net[p][r]), f)
    BY <1>3, <1>4, TailLeads
  <2> QED BY <1>3, <1>4, <2>1
<1>5. CASE p # s \/ r # n
  <2>1. u[r] = w[r]
    <3>1. CASE r = n
      <4>1. Neutral(x)
        BY <1>5, <3>1
      <4> HIDE DEF x
      <4> QED BY <1>1, <1>3, <4>1, HandledType
    <3> QED BY <1>3, <3>1
  <2> QED BY <1>3, <1>5, <2>1
<1> QED BY <1>4, <1>5
-----------------------------------------------------------------------------
(* What a node has executed. *)

\* The value that was executed in an instance is at its place.
LEMMA ExecutedAt ==
  ASSUME TypeOK, InOrder, NEW n \in Node, NEW i, NEW v,
         [id |-> i, value |-> v] \in Entries(n)
  PROVE  i \in Nat /\ i < inst[n] /\ ExecutedValues(n)[i + 1] = v
<1>1. PICK k \in DOMAIN smlog[n] : smlog[n][k] = [id |-> i, value |-> v]
  BY DEF Entries
<1>2. /\ smlog[n] \in Seq(Execution) /\ Len(smlog[n]) = inst[n]
      /\ smlog[n][k].id = k - 1
  BY DEF TypeOK, StateMachineTypeOK, InOrder
<1>3. k \in 1 .. inst[n] /\ inst[n] \in Nat
  BY <1>2, LenProperties
<1>4. i = k - 1 /\ ExecutedValues(n)[k] = v
  BY <1>1, <1>2 DEF ExecutedValues
<1>5. i + 1 = k /\ i \in Nat /\ i < inst[n]
  BY <1>3, <1>4
<1> QED BY <1>4, <1>5

LEMMA ValuesType ==
  ASSUME NEW e \in Seq(Execution), NEW s, s = [k \in DOMAIN e |-> e[k].value]
  PROVE  s \in Seq(AnyValue) /\ Len(s) = Len(e)
<1>1. Len(e) \in Nat /\ DOMAIN e = 1 .. Len(e)
  BY LenProperties
<1>2. \A k \in 1 .. Len(e) : e[k] \in Execution
  BY <1>1, ElementOfSeq
<1>3. \A x \in Execution : x.value \in AnyValue
  BY DEF Execution
<1>4. s \in [1 .. Len(e) -> AnyValue]
  BY <1>1, <1>2, <1>3
<1>5. s \in Seq(AnyValue)
  BY <1>1, <1>4, SeqDef
<1> QED BY <1>1, <1>4, <1>5, LenProperties

LEMMA ExecutedValuesStep ==
  ASSUME TypeOK, TypeOK', NEW n \in Node, NEW first \in Nat, NEW vals \in Seq(AnyValue),
         ExecuteAll(n, first, vals)
  PROVE  /\ ExecutedValues(n)' = ExecutedValues(n) \o vals
         /\ \A r \in Node \ {n} : ExecutedValues(r)' = ExecutedValues(r)
<1> DEFINE Any == [id : Int, value : AnyValue]
           ex == Executions(first, vals)
           old == smlog[n]
           new == smlog'[n]
           s == ExecutedValues(n)
           t == ExecutedValues(n)'
<1>1. smlog \in [Node -> Seq(Execution)] /\ smlog' = [smlog EXCEPT ![n] = old \o ex]
  BY DEF ExecuteAll, TypeOK, StateMachineTypeOK
<1>2. \A r \in Node \ {n} : ExecutedValues(r)' = ExecutedValues(r)
  BY <1>1 DEF ExecutedValues
<1>3. /\ Len(vals) \in Nat /\ DOMAIN vals = 1 .. Len(vals)
      /\ \A j \in 1 .. Len(vals) : vals[j] \in AnyValue
  BY LenProperties, ElementOfSeq
<1>4. ex \in Seq(Any) /\ Len(ex) = Len(vals) /\ \A j \in 1 .. Len(vals) : ex[j].value = vals[j]
  <2>1. ex \in [1 .. Len(vals) -> Any] /\ \A j \in 1 .. Len(vals) : ex[j].value = vals[j]
    BY <1>3 DEF Executions
  <2> HIDE DEF ex, Any
  <2>2. ex \in Seq(Any)
    BY <1>3, <2>1, SeqDef
  <2> QED BY <1>3, <2>1, <2>2, LenProperties
<1>5. old \in Seq(Any)
  <2>1. Execution \subseteq Any
    BY MaxInstAssumption DEF Execution, Inst
  <2>2. old \in Seq(Execution)
    BY <1>1
  <2> QED BY <2>1, <2>2, SeqMonotonic
<1>6. new = old \o ex
  BY <1>1
<1>7. /\ s \in Seq(AnyValue) /\ Len(s) = Len(old) /\ t \in Seq(AnyValue) /\ Len(t) = Len(new)
  <2>1. smlog[n] \in Seq(Execution) /\ smlog'[n] \in Seq(Execution)
    BY DEF TypeOK, StateMachineTypeOK
  <2>2. s = [k \in DOMAIN old |-> old[k].value] /\ t = [k \in DOMAIN new |-> new[k].value]
    BY DEF ExecutedValues
  <2> HIDE DEF s, t
  <2> QED BY <2>1, <2>2, ValuesType
<1>8. /\ \A k \in DOMAIN old : s[k] = old[k].value
      /\ \A k \in DOMAIN new : t[k] = new[k].value
  BY DEF ExecutedValues
<1> HIDE DEF Any, ex, old, new, s, t
<1>9. /\ new \in Seq(Any) /\ Len(old) \in Nat /\ Len(new) = Len(old) + Len(vals)
      /\ DOMAIN old = 1 .. Len(old) /\ DOMAIN new = 1 .. Len(new)
      /\ \A k \in 1 .. Len(old) + Len(vals) :
           new[k] = IF k <= Len(old) THEN old[k] ELSE ex[k - Len(old)]
  <2>1. /\ new \in Seq(Any) /\ Len(new) = Len(old) + Len(ex)
        /\ \A k \in 1 .. Len(old) + Len(ex) :
             new[k] = IF k <= Len(old) THEN old[k] ELSE ex[k - Len(old)]
    <3>1. old \in Seq(Any) /\ ex \in Seq(Any)
      BY <1>4, <1>5
    <3>2. /\ old \o ex \in Seq(Any) /\ Len(old \o ex) = Len(old) + Len(ex)
          /\ \A k \in 1 .. Len(old) + Len(ex) :
               (old \o ex)[k] = IF k <= Len(old) THEN old[k] ELSE ex[k - Len(old)]
      BY <3>1, ConcatProperties
    <3> QED BY <1>6, <3>2
  <2>2. Len(old) \in Nat /\ DOMAIN old = 1 .. Len(old)
    BY <1>5, LenProperties
  <2>3. DOMAIN new = 1 .. Len(new)
    BY <2>1, LenProperties
  <2> QED BY <1>4, <2>1, <2>2, <2>3
<1>10. /\ s \o vals \in Seq(AnyValue) /\ Len(s \o vals) = Len(old) + Len(vals)
       /\ \A k \in 1 .. Len(old) + Len(vals) :
            (s \o vals)[k] = IF k <= Len(old) THEN s[k] ELSE vals[k - Len(old)]
  <2>1. /\ s \o vals \in Seq(AnyValue) /\ Len(s \o vals) = Len(s) + Len(vals)
        /\ \A k \in 1 .. Len(s) + Len(vals) :
             (s \o vals)[k] = IF k <= Len(s) THEN s[k] ELSE vals[k - Len(s)]
    BY <1>7, ConcatProperties
  <2> QED BY <1>7, <2>1
<1>11. ASSUME NEW k \in 1 .. Len(old) + Len(vals) PROVE t[k] = (s \o vals)[k]
  <2>1. CASE k <= Len(old)
    <3>1. k \in DOMAIN old /\ k \in DOMAIN new
      BY <1>3, <1>9, <2>1
    <3> QED BY <1>8, <1>9, <1>10, <2>1, <3>1
  <2>2. CASE ~(k <= Len(old))
    <3>1. k - Len(old) \in 1 .. Len(vals) /\ k \in DOMAIN new
      BY <1>3, <1>9, <2>2
    <3> QED BY <1>4, <1>8, <1>9, <1>10, <2>2, <3>1
  <2> QED BY <2>1, <2>2
<1>12. t = s \o vals
  BY <1>7, <1>9, <1>10, <1>11, SeqEqual
<1> QED BY <1>2, <1>12 DEF s, t

LEMMA ViewsType ==
  ASSUME TypeOK, InOrder
  PROVE  Views \in [Node -> NodeState]
<1>1. ASSUME NEW n \in Node PROVE View(n) \in NodeState
  <2>1. inst[n] \in Nat /\ acc[n] \in State /\ Len(smlog[n]) = inst[n]
    BY MaxInstAssumption DEF TypeOK, RoleTypeOK, AccepterTypeOK, InstOrEnd, InOrder
  <2>2. smlog[n] \in Seq(Execution)
    BY DEF TypeOK, StateMachineTypeOK
  <2>3. ExecutedValues(n) \in Seq(AnyValue) /\ Len(ExecutedValues(n)) = Len(smlog[n])
    BY <2>2, ValuesType DEF ExecutedValues
  <2> QED BY <2>1, <2>3 DEF View, NodeState
<1> QED BY <1>1 DEF Views

\* A step that changes n only.
LEMMA ViewsAt ==
  ASSUME NEW n \in Node,
         \A r \in Node \ {n} : /\ inst'[r] = inst[r] /\ acc'[r] = acc[r]
                               /\ ExecutedValues(r)' = ExecutedValues(r)
  PROVE  Views' = [Views EXCEPT ![n] = [inst |-> inst'[n], acc |-> acc'[n],
                                        log |-> ExecutedValues(n)']]
BY DEF Views, View

LEMMA ViewsKept ==
  ASSUME UNCHANGED <<inst, acc, smlog>>
  PROVE  Views' = Views
BY DEF Views, View, ExecutedValues
-----------------------------------------------------------------------------
(* One proposer. *)

\* The others never get a number, so they never propose.
OnlyProposer(p) == \A n \in Node \ {p} : ProposalIds[n] = {}

QuietOthers(p) ==
  \A n \in Node \ {p} :
    /\ prop[n].stage = "Idle"
    /\ \A r \in Node : \A m \in Carried(net, n, r) : Neutral(m)

LEMMA QuietOthersStep ==
  ASSUME TypeOK, Next, NEW p \in Node, OnlyProposer(p), QuietOthers(p)
  PROVE  QuietOthers(p)'
<1> SUFFICES ASSUME NEW n \in Node \ {p}
             PROVE  /\ prop'[n].stage = "Idle"
                    /\ \A r \in Node : \A m \in Carried(net', n, r) : Neutral(m)
  BY DEF QuietOthers, Carried
<1>1. ProposalIds[n] = {} /\ prop[n].stage = "Idle"
  BY DEF OnlyProposer, QuietOthers
<1>2. ASSUME NEW r \in Node, NEW m \in Carried(net', n, r) PROVE Neutral(m)
  <2>1. CASE m \in Carried(net, n, r)
    BY <2>1 DEF QuietOthers
  <2>2. CASE NewMessage(n, r, m)
    <3>1. Explained(n, r, m)
      BY <2>2, NewMessages
    <3>2. prop[n].stage # "Accepting" /\ prop[n].stage # "Preparing"
      BY <1>1
    <3> QED BY <1>1, <3>1, <3>2 DEF Explained, Neutral
  <2> QED BY <1>2, <2>1, <2>2 DEF NewMessage
<1> QED BY <1>1, <1>2, IdleStays
-----------------------------------------------------------------------------
(* Every step leaves all nodes on the way to one state. *)

LEMMA NeutralReply ==
  ASSUME NEW p \in Node, NEW nt \in Network, NEW w, NEW f, AllLead(p, nt, w, f),
         NEW n \in Node, NEW r, NEW m \in Message, Neutral(m)
  PROVE  AllLead(p, SendMessageTo(nt, n, r, m), w, f)
BY NeutralSend DEF SendMessageTo

LEMMA NeutralAsk ==
  ASSUME NEW p \in Node, NEW nt \in Network, NEW w, NEW f, AllLead(p, nt, w, f),
         NEW n \in Node, NEW l, NEW i \in InstOrEnd
  PROVE  AllLead(p, AskForLearn(nt, n, l, i), w, f)
<1> DEFINE m == [type |-> "ASK_FOR_LEARN", from |-> i]
<1>1. m \in Message /\ Neutral(m)
  BY LearnerMessages DEF Neutral
<1>2. AskForLearn(nt, n, l, i) = nt
      \/ AskForLearn(nt, n, l, i) = SendMessageTo(nt, n, l.seenNode, m)
  BY DEF AskForLearn
<1> HIDE DEF m
<1> QED BY <1>1, <1>2, NeutralReply

\* Where n gets by the message it takes, whatever else the step does.
LEMMA TakenLead ==
  ASSUME TypeOK, InOrder, NEW p \in Node, QuietOthers(p),
         NEW f, AllLead(p, net, Views, f),
         NEW s \in Node, NEW n \in Node, net[s][n] # <<>>,
         NEW x, x = Head(net[s][n])
  PROVE  /\ AllLead(p, Received(s, n), [Views EXCEPT ![n] = Handled(View(n), x)], f)
         /\ Neutral(x) => AllLead(p, Received(s, n), Views, f)
         /\ HasInstance(x) /\ x.inst # inst[n] => AllLead(p, Received(s, n), Views, f)
<1>1. net \in Network /\ Views \in [Node -> NodeState] /\ Views[n] = View(n)
  BY TypeFacts, ViewsType DEF Views, Network
<1>2. x \in Message /\ x \in Carried(net, s, n)
  BY ReceivedFacts
<1>3. s = p \/ Neutral(x)
  BY <1>2 DEF QuietOthers
<1>4. AllLead(p, Received(s, n), [Views EXCEPT ![n] = Handled(Views[n], Head(net[s][n]))], f)
  BY <1>1, <1>3, ReceivedLead
<1>5. View(n) \in NodeState /\ View(n).inst = inst[n]
  BY <1>1 DEF View
<1>6. Neutral(x) \/ x.inst # inst[n] => Handled(View(n), x) = View(n)
  BY <1>2, <1>5, HandledType
<1>7. Handled(View(n), x) = View(n) => [Views EXCEPT ![n] = Handled(View(n), x)] = Views
  BY <1>1
<1> QED BY <1>1, <1>4, <1>6, <1>7

\* All get at least to the instance that any of them is in.
LEMMA AllBehind ==
  ASSUME TypeOK, NEW p \in Node, NEW nt \in Network, NEW w \in [Node -> NodeState], NEW f,
         AllLead(p, nt, w, f), NEW n \in Node
  PROVE  f \in NodeState /\ w[n].inst <= f.inst /\ Starts(w[n].log, f.log)
<1>1. nt[p][n] \in Seq(Message) /\ Leads(w[n], nt[p][n], f)
  BY DEF AllLead, Network
<1> QED BY <1>1, LeadsFacts

LEMMA LeadOtherInstance ==
  ASSUME TypeOK, InOrder, NEW p \in Node, QuietOthers(p),
         NEW f, AllLead(p, net, Views, f),
         NEW s \in Node, NEW n \in Node, net[s][n] # <<>>,
         NEW x, x = Head(net[s][n]), OnOtherInstance(n, s, x)
  PROVE  AllLead(p, net', Views', f)
<1>1. Views' = Views
  BY ViewsKept DEF OnOtherInstance, accepterVars, stateMachineVars
<1>2. HasInstance(x) /\ x.inst # inst[n] /\ net' = Received(s, n)
  BY DEF OnOtherInstance
<1>3. AllLead(p, Received(s, n), Views, f)
  BY <1>2, TakenLead
<1> QED BY <1>1, <1>2, <1>3

LEMMA LeadProposer ==
  ASSUME TypeOK, InOrder, \A r \in Node : up[r], NEW p \in Node, QuietOthers(p),
         NEW f, AllLead(p, net, Views, f),
         NEW s \in Node, NEW n \in Node, net[s][n] # <<>>,
         NEW x, x = Head(net[s][n]), OnProposerMessage(n, s, x)
  PROVE  \E g : AllLead(p, net', Views', g)
<1>1. Views' = Views
  BY ViewsKept DEF OnProposerMessage, accepterVars, stateMachineVars
<1>2. AllLead(p, Received(s, n), Views, f)
  <2>1. Neutral(x)
    BY DEF OnProposerMessage, Neutral
  <2> QED BY <2>1, TakenLead
<1>3. /\ x \in Message /\ Received(s, n) \in Network /\ Views \in [Node -> NodeState]
      /\ inst[n] \in Inst
  BY ReceivedFacts, ViewsType, MessageFields DEF OnProposerMessage
<1>4. inst[n] <= f.inst
  <2>1. Views[n].inst = inst[n]
    BY DEF Views, View
  <2> QED BY <1>2, <1>3, <2>1, AllBehind
<1>5. CASE net' = Received(s, n)
  BY <1>1, <1>2, <1>5
<1>6. ASSUME NEW m \in Message, m.inst = inst[n], net' = Broadcast(Received(s, n), n, m),
             prop[n].stage # "Idle"
      PROVE  \E g : AllLead(p, net', Views', g)
  <2>1. n = p
    BY <1>6 DEF QuietOthers
  <2>2. AllLead(p, Broadcast(Received(s, n), p, m), Views, Handled(f, m))
    BY <1>2, <1>3, <1>4, <1>6, ProposerBroadcast
  <2> QED BY <1>1, <1>6, <2>1, <2>2
<1>7. net' = Received(s, n)
      \/ /\ prop[n].stage # "Idle"
         /\ \/ \E v \in AnyValue : net' = Accept(n, Received(s, n), prop[n].id, v)
            \/ net' = Learn(n, Received(s, n))
  <2>1. CASE x.type = "PROMISED" /\ OnPromised(n, s, x)
    <3>1. x.accepted \in BOOLEAN /\ x.proposal \in Proposal
      BY <1>3, <2>1, MessageFields
    <3> DEFINE b == IF x.accepted THEN VoteUpWith(ballot[n], s, x.proposal)
                                  ELSE VoteUp(ballot[n], s)
               v == GetChosenValue(b, prop[n].value)
    <3>2. v \in AnyValue
      <4>1. ballot[n] \in BallotState /\ prop[n].value \in AnyValue
        BY DEF TypeOK, ProposerTypeOK, ProposerState
      <4>2. b \in BallotState
        BY <3>1, <4>1, VoteTypes, ReportedTypes
      <4> HIDE DEF b
      <4> QED BY <3>1, <4>1, <4>2, ReportedTypes
    <3>3. \/ prop[n].stage = "Preparing" /\ net' = Accept(n, Received(s, n), prop[n].id, v)
          \/ net' = Received(s, n)
      BY <2>1 DEF OnPromised, Skipped
    <3> HIDE DEF v
    <3> QED BY <3>2, <3>3
  <2>2. CASE x.type = "REJECT_PROMISE" /\ OnRejectPromise(n, s)
    BY <2>2 DEF OnRejectPromise, Rejected, Skipped
  <2>3. CASE x.type = "ACCEPTED" /\ OnAccepted(n, s)
    BY <2>3 DEF OnAccepted, Skipped
  <2>4. CASE x.type = "REJECT_ACCEPT" /\ OnRejectAccept(n, s)
    BY <2>4 DEF OnRejectAccept, Rejected, Skipped
  <2> QED BY <2>1, <2>2, <2>3, <2>4 DEF OnProposerMessage
<1>8. CASE \E v \in AnyValue : /\ prop[n].stage # "Idle"
                               /\ net' = Accept(n, Received(s, n), prop[n].id, v)
  <2>1. PICK v \in AnyValue : /\ prop[n].stage # "Idle"
                              /\ net' = Accept(n, Received(s, n), prop[n].id, v)
    BY <1>8
  <2> DEFINE m == [type |-> "ACCEPT", inst |-> inst[n],
                   proposal |-> [id |-> prop[n].id, value |-> v]]
  <2>2. m \in Message /\ m.inst = inst[n]
    <3>1. [id |-> prop[n].id, value |-> v] \in Proposal
      BY DEF TypeOK, ProposerTypeOK, ProposerState, Proposal
    <3> QED BY <1>3, <3>1, InstanceMessages
  <2>3. net' = Broadcast(Received(s, n), n, m)
    BY <2>1 DEF Accept
  <2> HIDE DEF m
  <2> QED BY <1>6, <2>1, <2>2, <2>3
<1>9. CASE prop[n].stage # "Idle" /\ net' = Learn(n, Received(s, n))
  <2> DEFINE m == [type |-> "LEARN", inst |-> inst[n]]
  <2>1. m \in Message /\ m.inst = inst[n]
    BY <1>3, InstanceMessages
  <2>2. net' = Broadcast(Received(s, n), n, m)
    BY <1>9 DEF Learn
  <2> HIDE DEF m
  <2> QED BY <1>6, <1>9, <2>1, <2>2
<1> QED BY <1>5, <1>7, <1>8, <1>9

LEMMA LeadAccepter ==
  ASSUME TypeOK, InOrder, NEW p \in Node, QuietOthers(p),
         NEW f, AllLead(p, net, Views, f),
         NEW s \in Node, NEW n \in Node, net[s][n] # <<>>,
         NEW x, x = Head(net[s][n]), OnAccepterMessage(n, s, x)
  PROVE  AllLead(p, net', Views', f)
<1> DEFINE w == [Views EXCEPT ![n] = Handled(View(n), x)]
           nt == Received(s, n)
           a == acc[n]
<1>1. /\ x \in Message /\ nt \in Network /\ inst[n] \in Inst /\ x.inst = inst[n]
      /\ acc \in [Node -> State] /\ UNCHANGED inst /\ smlog' = smlog
  BY ReceivedFacts, MessageFields
  DEF OnAccepterMessage, TypeOK, AccepterTypeOK, stateMachineVars
<1>2. AllLead(p, nt, w, f)
  BY TakenLead
<1>3. \A r \in Node : ExecutedValues(r)' = ExecutedValues(r)
  BY <1>1 DEF ExecutedValues
<1>4. View(n) = [inst |-> inst[n], acc |-> a, log |-> ExecutedValues(n)]
  BY DEF View
<1>5. ASSUME NEW st, acc' = [acc EXCEPT ![n] = st],
             Handled(View(n), x) = [inst |-> inst[n], acc |-> st, log |-> ExecutedValues(n)]
      PROVE  Views' = w
  <2>1. /\ acc'[n] = st /\ inst'[n] = inst[n]
        /\ \A r \in Node \ {n} : acc'[r] = acc[r] /\ inst'[r] = inst[r]
    BY <1>1, <1>5
  <2>2. Views' = [Views EXCEPT ![n] = [inst |-> inst'[n], acc |-> acc'[n],
                                       log |-> ExecutedValues(n)']]
    BY <1>3, <2>1, ViewsAt
  <2> QED BY <1>3, <1>5, <2>1, <2>2
<1>6. ASSUME acc' = acc, Handled(View(n), x) = View(n) PROVE Views' = w
  <2>1. acc' = [acc EXCEPT ![n] = a]
    BY <1>1, <1>6
  <2> QED BY <1>4, <1>5, <1>6, <2>1
<1>7. ASSUME NEW m \in Message, Neutral(m), net' = SendMessageTo(nt, n, s, m), Views' = w
      PROVE  AllLead(p, net', Views', f)
  <2> HIDE DEF nt, w
  <2> QED BY <1>1, <1>2, <1>7, NeutralReply
<1>8. /\ [type |-> "PROMISED", inst |-> inst[n],
          accepted |-> acc[n].accepted, proposal |-> acc[n].proposal] \in Message
      /\ [type |-> "REJECT_PROMISE", inst |-> inst[n]] \in Message
      /\ [type |-> "ACCEPTED", inst |-> inst[n]] \in Message
      /\ [type |-> "REJECT_ACCEPT", inst |-> inst[n]] \in Message
  <2>1. acc[n].accepted \in BOOLEAN /\ acc[n].proposal \in Proposal
    BY <1>1 DEF State
  <2> QED BY <1>1, <2>1, InstanceMessages
<1>9. CASE x.type = "PREPARE" /\ OnPrepare(n, s, x)
  <2>1. CASE /\ ~a.promised \/ a.promisedId <= x.id
             /\ acc' = [acc EXCEPT ![n].promised = TRUE, ![n].promisedId = x.id]
             /\ net' = ReplyPromised(n, s)
    <3>1. acc' = [acc EXCEPT ![n] = [a EXCEPT !.promised = TRUE, !.promisedId = x.id]]
      BY <1>1, <2>1 DEF State
    <3>2. Handled(View(n), x) =
            [inst |-> inst[n], log |-> ExecutedValues(n),
             acc |-> [a EXCEPT !.promised = TRUE, !.promisedId = x.id]]
      BY <1>1, <1>4, <1>9, <2>1 DEF Handled
    <3>3. Views' = w
      BY <1>5, <3>1, <3>2
    <3> QED BY <1>7, <1>8, <2>1, <3>3 DEF ReplyPromised, Neutral
  <2>2. CASE /\ a.promised /\ a.promisedId > x.id
             /\ acc' = acc
             /\ net' = ReplyRejectPromise(n, s)
    <3>1. ~(a.promisedId <= x.id)
      BY <1>1, <1>9, <2>2, MessageFields DEF State
    <3>2. Handled(View(n), x) = View(n)
      BY <1>4, <1>9, <2>2, <3>1 DEF Handled
    <3>3. Views' = w
      BY <1>6, <2>2, <3>2
    <3> QED BY <1>7, <1>8, <2>2, <3>3 DEF ReplyRejectPromise, Neutral
  <2> QED BY <1>9, <2>1, <2>2 DEF OnPrepare, accepterVars
<1>10. CASE x.type = "ACCEPT" /\ OnAccept(n, s, x)
  <2>1. CASE /\ a.promisedId <= x.proposal.id
             /\ acc' = [acc EXCEPT ![n].accepted = TRUE, ![n].proposal = x.proposal]
             /\ net' = ReplyAccepted(n, s)
    <3>1. acc' = [acc EXCEPT ![n] = [a EXCEPT !.accepted = TRUE, !.proposal = x.proposal]]
      BY <1>1, <2>1 DEF State
    <3>2. Handled(View(n), x) =
            [inst |-> inst[n], log |-> ExecutedValues(n),
             acc |-> [a EXCEPT !.accepted = TRUE, !.proposal = x.proposal]]
      BY <1>1, <1>4, <1>10, <2>1 DEF Handled
    <3>3. Views' = w
      BY <1>5, <3>1, <3>2
    <3> QED BY <1>7, <1>8, <2>1, <3>3 DEF ReplyAccepted, Neutral
  <2>2. CASE /\ a.promisedId > x.proposal.id
             /\ acc' = acc
             /\ net' = ReplyRejectAccept(n, s)
    <3>1. ~(a.promisedId <= x.proposal.id)
      BY <1>1, <1>10, <2>2, MessageFields DEF State, Proposal
    <3>2. Handled(View(n), x) = View(n)
      BY <1>4, <1>10, <2>2, <3>1 DEF Handled
    <3>3. Views' = w
      BY <1>6, <2>2, <3>2
    <3> QED BY <1>7, <1>8, <2>2, <3>3 DEF ReplyRejectAccept, Neutral
  <2> QED BY <1>10, <2>1, <2>2 DEF OnAccept, accepterVars
<1> QED BY <1>9, <1>10 DEF OnAccepterMessage

LEMMA LeadLearn ==
  ASSUME TypeOK, TypeOK', InOrder, MayFail = {}, NEW p \in Node, QuietOthers(p),
         NEW f, AllLead(p, net, Views, f),
         NEW s \in Node, NEW n \in Node, net[s][n] # <<>>,
         NEW x, x = Head(net[s][n]), OnLearn(n, s, x)
  PROVE  AllLead(p, net', Views', f)
<1> DEFINE v == acc[n].proposal.value
           w == [Views EXCEPT ![n] = Handled(View(n), x)]
<1>1. /\ inst \in [Node -> InstOrEnd] /\ acc \in [Node -> State] /\ inst[n] \in Nat
      /\ v \in AnyValue
  <2>1. inst \in [Node -> InstOrEnd] /\ acc \in [Node -> State]
    BY DEF TypeOK, RoleTypeOK, AccepterTypeOK
  <2> QED BY <2>1, MaxInstAssumption DEF InstOrEnd, State, Proposal
<1>2. /\ ExecuteAll(n, inst[n], <<v>>) /\ inst' = [inst EXCEPT ![n] = inst[n] + 1]
      /\ acc' = [acc EXCEPT ![n] = EmptyState] /\ net' = Received(s, n)
      /\ x.type = "LEARN" /\ x.inst = inst[n]
  <2>1. Execute(n, inst[n], v) /\ inst' = [inst EXCEPT ![n] = @ + 1]
    BY DEF OnLearn
  <2>2. [inst EXCEPT ![n] = @ + 1] = [inst EXCEPT ![n] = inst[n] + 1]
    BY <1>1
  <2>3. /\ acc' = [acc EXCEPT ![n] = EmptyState] /\ net' = Received(s, n)
        /\ x.type = "LEARN" /\ x.inst = inst[n]
    BY DEF OnLearn
  <2> QED BY <2>1, <2>2, <2>3 DEF Execute
<1> DEFINE log == ExecutedValues(n)
<1>3. log \in Seq(AnyValue)
  <2>1. smlog[n] \in Seq(Execution)
    BY DEF TypeOK, StateMachineTypeOK
  <2> QED BY <2>1, ValuesType DEF ExecutedValues
<1> HIDE DEF v
<1>4. /\ ExecutedValues(n)' = log \o <<v>>
      /\ \A r \in Node \ {n} : ExecutedValues(r)' = ExecutedValues(r)
  <2>1. <<v>> \in Seq(AnyValue)
    BY <1>1
  <2> QED BY <1>1, <1>2, <2>1, ExecutedValuesStep
<1>5. log \o <<v>> = Append(log, v)
  BY <1>1, <1>3, AppendIsConcat
<1>6. Handled(View(n), x) = [inst |-> inst[n] + 1, acc |-> EmptyState, log |-> Append(log, v)]
  <2>1. /\ View(n).inst = inst[n] /\ View(n).acc.proposal.value = v /\ View(n).log = log
    BY DEF View, v
  <2> QED BY <1>2, <2>1 DEF Handled
<1>7. /\ inst'[n] = inst[n] + 1 /\ acc'[n] = EmptyState
      /\ \A r \in Node \ {n} : inst'[r] = inst[r] /\ acc'[r] = acc[r]
  BY <1>1, <1>2
<1>8. Views' = [Views EXCEPT ![n] = [inst |-> inst'[n], acc |-> acc'[n],
                                     log |-> ExecutedValues(n)']]
  BY <1>4, <1>7, ViewsAt
<1>9. Views' = w
  BY <1>4, <1>5, <1>6, <1>7, <1>8
<1>10. AllLead(p, Received(s, n), w, f)
  BY TakenLead
<1> QED BY <1>2, <1>9, <1>10

\* What a node copies is what the node it asked has executed, and so what it
\* would have executed itself.
LEMMA LeadCopies ==
  ASSUME TypeOK, TypeOK', InOrder, AsksFromReached, CatchUpFaithful, NEW p \in Node,
         NEW f, AllLead(p, net, Views, f), NEW nt \in Network, AllLead(p, nt, Views, f),
         NEW s \in Node, NEW n \in Node, NEW x \in Carried(net, s, n),
         x \in Message, x.type = "ASK_FOR_LEARN_REPLY",
         NEW new, new = NewStates(n, x), Learned(n, x, Len(new), Len(new)),
         acc' = [acc EXCEPT ![n] = IF new # <<>> THEN EmptyState ELSE acc[n]]
  PROVE  AllLead(p, nt, Views', f)
<1> DEFINE vals == [j \in 1 .. Len(new) |-> new[j].proposal.value]
           log == ExecutedValues(n)
           i == inst[n]
           l == Len(new)
<1>1. /\ x \in LearnReply /\ x.start \in Nat /\ x.start <= i /\ i \in Nat
      /\ inst \in [Node -> InstOrEnd] /\ acc \in [Node -> State]
      /\ Views \in [Node -> NodeState]
  <2>1. x \in LearnReply /\ x.start <= i
    BY MessageFields DEF AsksFromReached
  <2>2. inst \in [Node -> InstOrEnd] /\ acc \in [Node -> State]
    BY DEF TypeOK, RoleTypeOK, AccepterTypeOK
  <2>3. x.start \in Nat /\ i \in Nat
    BY <2>1, <2>2, MaxInstAssumption DEF LearnReply, InstOrEnd
  <2> QED BY <2>1, <2>2, <2>3, ViewsType
<1>2. FirstNew(n, x) = i
  BY <1>1 DEF FirstNew
<1>3. /\ new \in Seq(State) /\ l \in Nat
      /\ l = IF i - x.start < Len(x.states) THEN Len(x.states) - (i - x.start) ELSE 0
      /\ \A j \in 1 .. l : new[j] = x.states[(i - x.start) + j]
  <2> DEFINE k == i - x.start
  <2>1. x.states \in Seq(State) /\ k \in Nat
    BY <1>1 DEF LearnReply
  <2>2. new = SubSeq(x.states, k + 1, Len(x.states))
    BY <1>2 DEF NewStates
  <2> DEFINE t == SubSeq(x.states, k + 1, Len(x.states))
  <2> HIDE DEF k
  <2>3. /\ new \in Seq(State)
        /\ l = IF k < Len(x.states) THEN Len(x.states) - k ELSE 0
        /\ \A j \in 1 .. l : new[j] = x.states[k + j]
    <3>1. /\ t \in Seq(State)
          /\ Len(t) = IF k < Len(x.states) THEN Len(x.states) - k ELSE 0
          /\ \A j \in 1 .. Len(t) : t[j] = x.states[k + j]
      BY <2>1, SuffixProperties
    <3>2. new = t
      BY <2>2
    <3> HIDE DEF t
    <3> QED BY <3>1, <3>2
  <2> QED BY <2>3, LenProperties DEF k
<1>4. /\ ExecuteAll(n, i, vals) /\ inst' = [inst EXCEPT ![n] = i + l]
  BY <1>1, <1>2 DEF Learned
<1>5. vals \in Seq(AnyValue) /\ Len(vals) = l /\ \A j \in 1 .. l : vals[j] = new[j].proposal.value
  <2>1. l \in 0 .. Len(NewStates(n, x))
    BY <1>3
  <2> QED BY <1>1, <2>1, LearnedValuesType
<1>6. log \in Seq(AnyValue) /\ Len(log) = i
  BY <1>1 DEF Views, View, NodeState
<1> HIDE DEF vals
<1>7. /\ ExecutedValues(n)' = log \o vals
      /\ \A r \in Node \ {n} : ExecutedValues(r)' = ExecutedValues(r)
  BY <1>1, <1>4, <1>5, ExecutedValuesStep
<1>8. /\ inst'[n] = i + l /\ acc'[n] = IF new # <<>> THEN EmptyState ELSE acc[n]
      /\ \A r \in Node \ {n} : inst'[r] = inst[r] /\ acc'[r] = acc[r]
  BY <1>1, <1>4
<1>9. Views' = [Views EXCEPT ![n] = [inst |-> inst'[n], acc |-> acc'[n],
                                     log |-> ExecutedValues(n)']]
  BY <1>7, <1>8, ViewsAt
<1>10. CASE new = <<>>
  <2>1. l = 0 /\ vals = <<>>
    BY <1>3, <1>5, <1>10, EmptySeq
  <2>2. ExecutedValues(n)' = log /\ inst'[n] = i /\ acc'[n] = acc[n]
    BY <1>1, <1>6, <1>7, <1>8, <1>10, <2>1, ConcatEmptySeq
  <2>3. Views' = Views
    BY <1>1, <1>9, <2>2 DEF Views, View
  <2> QED BY <2>3
<1>11. CASE new # <<>>
  <2> DEFINE b == [inst |-> i + l, acc |-> EmptyState, log |-> log \o vals]
  <2>1. l > 0
    BY <1>3, <1>11, EmptySeq
  <2>2. /\ log \o vals \in Seq(AnyValue) /\ Len(log \o vals) = i + l
        /\ \A k \in 1 .. i + l : (log \o vals)[k] = IF k <= i THEN log[k] ELSE vals[k - i]
    <3>1. log \in Seq(AnyValue) /\ vals \in Seq(AnyValue)
      BY <1>5, <1>6
    <3> HIDE DEF log, i, l
    <3>2. /\ log \o vals \in Seq(AnyValue) /\ Len(log \o vals) = Len(log) + Len(vals)
          /\ \A k \in 1 .. Len(log) + Len(vals) :
               (log \o vals)[k] = IF k <= Len(log) THEN log[k] ELSE vals[k - Len(log)]
      BY <3>1, ConcatProperties
    <3> QED BY <1>5, <1>6, <3>2
  <2>3. b \in NodeState
    <3>1. i + l \in Nat
      BY <1>1, <1>3 DEF NodeState
    <3> QED BY <3>1, <2>2, EmptyStateType DEF NodeState
  <2>4. Views' = [Views EXCEPT ![n] = b]
    BY <1>7, <1>8, <1>9, <1>11
  <2>5. /\ f \in NodeState /\ Starts(log, f.log)
        /\ Starts(ExecutedValues(s), f.log) /\ Len(ExecutedValues(s)) = inst[s]
    <3>1. \A r \in Node : /\ f \in NodeState /\ Starts(Views[r].log, f.log)
                          /\ Views[r].log = ExecutedValues(r)
                          /\ Len(ExecutedValues(r)) = inst[r]
      BY <1>1, AllBehind DEF Views, View, NodeState
    <3> QED BY <3>1
  <2>6. ASSUME NEW j \in 1 .. l
        PROVE  i + j <= inst[s] /\ vals[j] = ExecutedValues(s)[i + j]
    <3> DEFINE k == (i - x.start) + j
    <3>1. /\ k \in 1 .. Len(x.states) /\ x.start + k - 1 = (i + j) - 1
          /\ ((i + j) - 1) + 1 = i + j
      <4>1. x.states \in Seq(State)
        BY <1>1 DEF LearnReply
      <4>2. Len(x.states) \in Nat
        BY <4>1, LenProperties
      <4> DEFINE a == x.start
                 c == Len(x.states)
      <4>3. /\ i \in Nat /\ l \in Nat /\ a \in Nat /\ c \in Nat /\ a <= i /\ j \in 1 .. l
            /\ l = IF i - a < c THEN c - (i - a) ELSE 0
        BY <1>1, <1>3, <2>6, <4>2
      <4> HIDE DEF a, c, i, l
      <4>4. k \in 1 .. c /\ a + k - 1 = (i + j) - 1 /\ ((i + j) - 1) + 1 = i + j
        BY <4>3 DEF a
      <4> QED BY <4>4 DEF a, c
    <3>2. k \in DOMAIN x.states
      <4>1. x.states \in Seq(State)
        BY <1>1 DEF LearnReply
      <4> QED BY <3>1, <4>1, LenProperties
    <3>3. vals[j] = x.states[k].proposal.value
      BY <1>3, <1>5, <2>6
    <3> HIDE DEF k
    <3>4. PICK q \in DOMAIN net[s][n] : x = net[s][n][q]
      BY DEF Carried
    <3>5. [id |-> x.start + k - 1, value |-> x.states[k].proposal.value] \in Entries(s)
      BY <3>2, <3>4 DEF CatchUpFaithful
    <3>6. [id |-> (i + j) - 1, value |-> vals[j]] \in Entries(s)
      BY <3>1, <3>3, <3>5
    <3>7. /\ (i + j) - 1 \in Nat /\ (i + j) - 1 < inst[s]
          /\ ExecutedValues(s)[((i + j) - 1) + 1] = vals[j]
      BY <3>6, ExecutedAt
    <3>8. inst[s] \in Nat
      BY <1>1, MaxInstAssumption DEF InstOrEnd
    <3> QED BY <1>1, <2>6, <3>1, <3>7, <3>8
  <2>7. Starts(b.log, f.log)
    <3>1. inst[s] \in Nat /\ Len(f.log) \in Nat
      BY <1>1, <2>5, LenProperties, MaxInstAssumption DEF InstOrEnd, NodeState
    <3>2. i + l <= inst[s] /\ inst[s] <= Len(f.log)
      BY <1>3, <2>1, <2>5, <2>6 DEF Starts
    <3>3. ASSUME NEW k \in 1 .. i + l PROVE (log \o vals)[k] = f.log[k]
      <4>1. CASE k <= i
        <5>1. k \in 1 .. Len(log)
          BY <1>1, <1>3, <1>6, <4>1
        <5> QED BY <2>2, <2>5, <4>1, <5>1 DEF Starts
      <4>2. CASE ~(k <= i)
        <5>1. k - i \in 1 .. l /\ i + (k - i) = k /\ k \in 1 .. inst[s]
          BY <1>1, <1>3, <3>1, <3>2, <4>2
        <5>2. vals[k - i] = ExecutedValues(s)[k]
          BY <2>6, <5>1
        <5> QED BY <2>2, <2>5, <4>2, <5>1, <5>2 DEF Starts
      <4> QED BY <4>1, <4>2
    <3>4. Len(log \o vals) <= Len(f.log)
      BY <1>1, <1>3, <2>2, <3>1, <3>2
    <3> QED BY <2>2, <3>3, <3>4 DEF Starts
  <2>8. b.acc = EmptyState /\ Views[n].inst < b.inst
    <3>1. Views[n].inst = i
      BY DEF Views, View
    <3> QED BY <1>1, <1>3, <2>1, <3>1
  <2> HIDE DEF b
  <2>9. SUFFICES ASSUME NEW r \in Node PROVE Leads(Views'[r], nt[p][r], f)
    BY DEF AllLead
  <2>10. nt[p][r] \in Seq(Message) /\ Leads(Views[r], nt[p][r], f)
    BY DEF AllLead, Network
  <2>11. Views'[r] = IF r = n THEN b ELSE Views[r]
    BY <1>1, <2>4
  <2>12. CASE r = n
    <3>1. Leads(b, nt[p][n], f)
      BY <2>3, <2>7, <2>8, <2>10, <2>12, JumpLeads
    <3> QED BY <2>11, <2>12, <3>1
  <2> QED BY <2>10, <2>11, <2>12
<1> QED BY <1>10, <1>11

LEMMA LeadLearner ==
  ASSUME TypeOK, TypeOK', InOrder, AsksFromReached, CatchUpFaithful, MayFail = {},
         NEW p \in Node, QuietOthers(p), NEW f, AllLead(p, net, Views, f),
         NEW s \in Node, NEW n \in Node, net[s][n] # <<>>,
         NEW x, x = Head(net[s][n]), OnLearnerMessage(n, s, x)
  PROVE  AllLead(p, net', Views', f)
<1> DEFINE nt == Received(s, n)
<1>1. /\ x \in Message /\ nt \in Network /\ x \in Carried(net, s, n)
      /\ inst[n] \in InstOrEnd /\ inst' \in [Node -> InstOrEnd]
  BY ReceivedFacts, LearnerFacts DEF TypeOK, RoleTypeOK
<1>2. AllLead(p, nt, Views, f)
  <2>1. Neutral(x)
    BY DEF OnLearnerMessage, Neutral
  <2> QED BY <2>1, TakenLead
<1> HIDE DEF nt
<1>3. CASE /\ \/ x.type = "ASK_FOR_INSTANCE_ID" /\ OnAskForInstanceID(n, s, x)
              \/ x.type = "ASK_FOR_INSTANCE_ID_REPLY" /\ OnAskForInstanceIDReply(n, s, x)
           /\ UNCHANGED <<inst, acc, stateMachineVars>>
  <2>1. Views' = Views
    BY <1>3, ViewsKept DEF stateMachineVars
  <2>2. CASE OnAskForInstanceID(n, s, x)
    <3> DEFINE asked == AskForLearn(nt, n, Seen(lrn[n], s, x.my), inst[n])
               m == [type |-> "ASK_FOR_INSTANCE_ID_REPLY", my |-> inst[n]]
    <3>1. net' = SendMessageTo(asked, n, s, m)
      BY <2>2 DEF OnAskForInstanceID, nt
    <3>2. asked \in Network /\ AllLead(p, asked, Views, f)
      BY <1>1, <1>2, AskForLearnType, NeutralAsk
    <3>3. m \in Message /\ Neutral(m)
      BY <1>1, LearnerMessages DEF Neutral
    <3> HIDE DEF asked, m
    <3> QED BY <2>1, <3>1, <3>2, <3>3, NeutralReply
  <2>3. CASE OnAskForInstanceIDReply(n, s, x)
    BY <1>1, <1>2, <2>1, <2>3, NeutralAsk
    DEF OnAskForInstanceIDReply, OnSeenOthersInstanceID, nt
  <2> QED BY <1>3, <2>2, <2>3
<1>4. CASE /\ x.type = "ASK_FOR_LEARN" /\ OnAskForLearn(n, s, x)
           /\ UNCHANGED <<inst, acc, stateMachineVars>>
  <2>1. Views' = Views
    BY <1>4, ViewsKept DEF stateMachineVars
  <2>2. CASE net' = nt
    BY <1>2, <2>1, <2>2
  <2>3. ASSUME NEW y \in Message, net' = SendMessageTo(nt, n, s, y),
               y.type = "ASK_FOR_LEARN_REPLY"
        PROVE  AllLead(p, net', Views', f)
    <3>1. Neutral(y)
      BY <2>3 DEF Neutral
    <3> QED BY <1>1, <1>2, <2>1, <2>3, <3>1, NeutralReply
  <2> QED BY <1>1, <1>4, <2>2, <2>3, AskForLearnAnswer DEF nt
<1>5. CASE x.type = "ASK_FOR_LEARN_REPLY" /\ OnAskForLearnReply(n, s, x)
  <2>1. PICK new : new = NewStates(n, x)
    OBVIOUS
  <2>2. /\ Learned(n, x, Len(new), Len(new))
        /\ acc' = [acc EXCEPT ![n] = IF new # <<>> THEN EmptyState ELSE @]
        /\ OnSeenOthersInstanceID(n, nt, Answered(lrn[n]), inst'[n], s, x.my)
    BY <1>5, <2>1 DEF OnAskForLearnReply, nt
  <2>3. acc' = [acc EXCEPT ![n] = IF new # <<>> THEN EmptyState ELSE acc[n]]
    BY <2>2 DEF TypeOK, AccepterTypeOK
  <2>4. AllLead(p, nt, Views', f)
    BY <1>1, <1>2, <1>5, <2>1, <2>2, <2>3, LeadCopies
  <2>5. net' = AskForLearn(nt, n, Seen(Answered(lrn[n]), s, x.my), inst'[n])
    BY <2>2 DEF OnSeenOthersInstanceID
  <2>6. inst'[n] \in InstOrEnd
    BY <1>1
  <2> QED BY <1>1, <2>4, <2>5, <2>6, NeutralAsk
<1> QED BY <1>3, <1>4, <1>5 DEF OnLearnerMessage

LEMMA LeadClient ==
  ASSUME TypeOK, InOrder, \A r \in Node : up[r], NEW p \in Node, OnlyProposer(p),
         NEW f, AllLead(p, net, Views, f), NEW n \in Node, ClientStep(n)
  PROVE  \E g : AllLead(p, net', Views', g)
<1>1. Views' = Views
  BY ViewsKept DEF ClientStep, accepterVars, stateMachineVars
<1>2. CASE UNCHANGED net
  BY <1>1, <1>2
<1>3. ASSUME NEW v \in Value, Propose(n, v)
      PROVE  \E g : AllLead(p, net', Views', g)
  <2>1. PICK id \in RespawnProposalId(n) :
          net' = Broadcast(net, n, [type |-> "PREPARE", inst |-> inst[n], id |-> id])
    BY <1>3 DEF Propose
  <2> DEFINE m == [type |-> "PREPARE", inst |-> inst[n], id |-> id]
  <2>2. n = p
    BY DEF RespawnProposalId, OnlyProposer
  <2>3. inst[n] \in Inst /\ id \in Nat
    BY <1>3, TypeFacts, IdAssumption DEF Propose, RespawnProposalId
  <2>4. m \in Message /\ m.inst = inst[n]
    BY <2>3, InstanceMessages
  <2>5. net \in Network /\ Views \in [Node -> NodeState] /\ Views[n].inst = inst[n]
    BY TypeFacts, ViewsType DEF Views, View
  <2>6. inst[n] <= f.inst
    BY <2>5, AllBehind
  <2> HIDE DEF m
  <2>7. AllLead(p, Broadcast(net, p, m), Views, Handled(f, m))
    BY <2>4, <2>5, <2>6, ProposerBroadcast
  <2> QED BY <1>1, <2>1, <2>2, <2>7 DEF m
<1> QED BY <1>2, <1>3 DEF ClientStep

LEMMA LeadStep ==
  ASSUME TypeOK, NoCrash, InOrder, AsksFromReached, CatchUpFaithful,
         MaxCrashes = 0, MaxBreaks = 0, MayFail = {},
         NEW p \in Node, OnlyProposer(p), QuietOthers(p),
         NEW f, AllLead(p, net, Views, f), Next
  PROVE  \E g : AllLead(p, net', Views', g)
<1>1. TypeOK' /\ (\A r \in Node : up[r])
  BY NextType DEF NoCrash
<1>2. ASSUME NEW n \in Node, ClientStep(n) PROVE \E g : AllLead(p, net', Views', g)
  BY <1>1, <1>2, LeadClient
<1>3. ASSUME NEW n \in Node, ProposeTimeoutStep(n) PROVE AllLead(p, net', Views', f)
  <2>1. Views' = Views /\ UNCHANGED net
    BY <1>3, ViewsKept DEF ProposeTimeoutStep, accepterVars, stateMachineVars
  <2> QED BY <2>1
<1>4. ASSUME NEW n \in Node, AskStep(n) PROVE AllLead(p, net', Views', f)
  <2> DEFINE m == [type |-> "ASK_FOR_INSTANCE_ID", my |-> inst[n]]
  <2>1. Views' = Views
    BY <1>4, ViewsKept DEF AskStep, accepterVars, stateMachineVars
  <2>2. net' = Send(net, n, Running, m) /\ net \in Network
    BY <1>4, TypeFacts DEF AskStep, AskForInstanceID, Broadcast
  <2>3. m \in Message /\ Neutral(m)
    BY LearnerFacts, LearnerMessages DEF Neutral
  <2> HIDE DEF m
  <2> QED BY <2>1, <2>2, <2>3, NeutralSend
<1>5. ASSUME NEW s \in Node, NEW n \in Node, OnMessage(s, n)
      PROVE  \E g : AllLead(p, net', Views', g)
  <2>1. PICK x : x = Head(net[s][n])
    OBVIOUS
  <2>2. /\ net[s][n] # <<>>
        /\ \/ OnOtherInstance(n, s, x) \/ OnProposerMessage(n, s, x)
           \/ OnAccepterMessage(n, s, x) \/ OnLearn(n, s, x) \/ OnLearnerMessage(n, s, x)
    BY <1>5, <2>1 DEF OnMessage
  <2> QED
    BY <1>1, <2>1, <2>2, LeadOtherInstance, LeadProposer, LeadAccepter, LeadLearn, LeadLearner
<1>6. \A s, n \in Node : ~BreakStep(s, n)
  BY DEF BreakStep, Break, TypeOK, RoleTypeOK
<1>7. \A n \in Node : ~Crash(n) /\ ~Restart(n)
  BY <1>1 DEF Crash, Restart, TypeOK
<1> QED BY <1>2, <1>3, <1>4, <1>5, <1>6, <1>7 DEF Next
-----------------------------------------------------------------------------
(* The theorems. *)

\* One node of the group proposes.
OneProposer == \E p \in Node : OnlyProposer(p)

OnTheWay(p) == QuietOthers(p) /\ \E f : AllLead(p, net, Views, f)

LEMMA LeadInit ==
  ASSUME Init, NEW p \in Node
  PROVE  OnTheWay(p)
<1> DEFINE a == [inst |-> 0, acc |-> EmptyState, log |-> <<>>]
<1>1. a \in NodeState
  BY EmptyStateType, EmptySeq DEF NodeState
<1>2. /\ inst = [n \in Node |-> 0] /\ acc = [n \in Node |-> EmptyState]
      /\ smlog = [n \in Node |-> <<>>] /\ net = [s \in Node |-> [r \in Node |-> <<>>]]
      /\ prop = [n \in Node |-> NoRound]
  BY DEF Init, RoleInit, AccepterInit, StateMachineInit, ProposerInit
<1>3. \A n \in Node : ExecutedValues(n) = <<>>
  <2>1. \A n \in Node : DOMAIN smlog[n] = {} /\ smlog[n] = <<>>
    BY <1>2, EmptySeq
  <2> QED BY <2>1 DEF ExecutedValues
<1>4. \A n \in Node : Views[n] = a /\ net[p][n] = <<>>
  BY <1>2, <1>3 DEF Views, View
<1> HIDE DEF a
<1>5. AllLead(p, net, Views, a)
  BY <1>1, <1>4, NothingLeads DEF AllLead
<1>6. QuietOthers(p)
  <2>1. \A n, r \in Node : Carried(net, n, r) = {}
    BY <1>2, EmptySeq DEF Carried
  <2> QED BY <1>2, <2>1 DEF QuietOthers, NoRound
<1> QED BY <1>5, <1>6 DEF OnTheWay

\* What two nodes have executed agrees as far as both have got.
LogsCompatible ==
  \A n, r \in Node :
    /\ ExecutedValues(n) \in Seq(AnyValue)
    /\ \A k \in DOMAIN ExecutedValues(n) \cap DOMAIN ExecutedValues(r) :
         ExecutedValues(n)[k] = ExecutedValues(r)[k]

LEMMA OnTheWayCompatible ==
  ASSUME TypeOK, InOrder, NEW p \in Node, OnTheWay(p)
  PROVE  LogsCompatible
<1>1. PICK f : AllLead(p, net, Views, f)
  BY DEF OnTheWay
<1>2. ASSUME NEW q \in Node
      PROVE  /\ ExecutedValues(q) \in Seq(AnyValue) /\ Starts(ExecutedValues(q), f.log)
             /\ DOMAIN ExecutedValues(q) = 1 .. Len(ExecutedValues(q))
  <2>1. net \in Network /\ Views \in [Node -> NodeState] /\ Views[q].log = ExecutedValues(q)
    BY TypeFacts, ViewsType DEF Views, View
  <2>2. ExecutedValues(q) \in Seq(AnyValue)
    BY <2>1 DEF NodeState
  <2>3. Starts(Views[q].log, f.log)
    BY <1>1, <2>1, AllBehind
  <2> QED BY <2>1, <2>2, <2>3, LenProperties
<1> QED BY <1>2 DEF Starts, LogsCompatible

LEMMA AlwaysOnTheWay ==
  ASSUME NEW p \in Node, OnlyProposer(p), MaxCrashes = 0, MaxBreaks = 0, MayFail = {}
  PROVE  Spec => [](TypeOK /\ InOrder /\ LogsCompatible)
<1>1. TypeOK /\ NoCrash /\ AsksFromReached /\ InOrder /\ CatchUpFaithful /\ OnTheWay(p)
        /\ [Next]_vars => OnTheWay(p)'
  <2> SUFFICES ASSUME TypeOK, NoCrash, AsksFromReached, InOrder, CatchUpFaithful,
                      OnTheWay(p), [Next]_vars
               PROVE  OnTheWay(p)'
    OBVIOUS
  <2>1. PICK f : AllLead(p, net, Views, f)
    BY DEF OnTheWay
  <2>2. CASE UNCHANGED vars
    <3>1. Views' = Views
      BY <2>2, ViewsKept DEF vars, accepterVars, stateMachineVars
    <3>2. QuietOthers(p)'
      BY <2>2 DEF OnTheWay, QuietOthers, Carried, vars, proposerVars
    <3>3. AllLead(p, net', Views', f)
      BY <2>1, <2>2, <3>1 DEF vars
    <3> QED BY <3>2, <3>3 DEF OnTheWay
  <2>3. CASE Next
    <3>1. QuietOthers(p)'
      BY <2>3, QuietOthersStep DEF OnTheWay
    <3>2. \E g : AllLead(p, net', Views', g)
      BY <2>1, <2>3, LeadStep DEF OnTheWay
    <3> QED BY <3>1, <3>2 DEF OnTheWay
  <2> QED BY <2>2, <2>3
<1>2. Init => OnTheWay(p)
  BY LeadInit
<1>3. TypeOK /\ InOrder /\ OnTheWay(p) => LogsCompatible
  BY OnTheWayCompatible
<1>4. /\ Spec => [](NoCrash /\ AsksFromReached)
      /\ Spec => []InOrder
      /\ Spec => [](Synced /\ StoredExecuted /\ CatchUpFaithful)
  BY Reached, AlwaysInOrder, Copies
<1> QED BY <1>1, <1>2, <1>3, <1>4, TypeCorrect, PTL DEF Spec

\* With one proposer, no crash, broken connection or failing execution, no two
\* nodes execute different values in an instance, though OnLearn executes what
\* the node's own accepter happens to hold: the LEARN of a decided instance
\* reaches every accepter right after the ACCEPT that was decided, or after it
\* has left the instance.
THEOREM AgreementCorrect ==
  /\ OneProposer /\ MaxCrashes = 0 /\ MaxBreaks = 0 /\ MayFail = {}
  /\ Spec
  => []Agreement
<1> SUFFICES ASSUME OneProposer, MaxCrashes = 0, MaxBreaks = 0, MayFail = {}
             PROVE  Spec => []Agreement
  OBVIOUS
<1>1. PICK p \in Node : OnlyProposer(p)
  BY DEF OneProposer
<1>2. TypeOK /\ InOrder /\ LogsCompatible => Agreement
  <2> SUFFICES ASSUME TypeOK, InOrder, LogsCompatible, NEW n \in Node, NEW r \in Node,
                      NEW e \in Entries(n), NEW g \in Entries(r), e.id = g.id
               PROVE  e.value = g.value
    BY DEF Agreement
  <2>1. e = [id |-> e.id, value |-> e.value] /\ g = [id |-> g.id, value |-> g.value]
    <3>1. \A q \in Node : \A x \in Entries(q) : x \in Execution
      <4> SUFFICES ASSUME NEW q \in Node, NEW k \in DOMAIN smlog[q]
                   PROVE  smlog[q][k] \in Execution
        BY DEF Entries
      <4>1. smlog[q] \in Seq(Execution)
        BY DEF TypeOK, StateMachineTypeOK
      <4> QED BY <4>1, LenProperties, ElementOfSeq
    <3> QED BY <3>1 DEF Execution
  <2> DEFINE i == e.id
  <2>2. /\ i \in Nat /\ i < inst[n] /\ i < inst[r]
        /\ ExecutedValues(n)[i + 1] = e.value /\ ExecutedValues(r)[i + 1] = g.value
    BY <2>1, ExecutedAt
  <2>3. i + 1 \in DOMAIN ExecutedValues(n) /\ i + 1 \in DOMAIN ExecutedValues(r)
    <3>1. \A q \in Node : /\ DOMAIN ExecutedValues(q) = 1 .. inst[q]
                          /\ inst[q] \in Nat
      <4>1. \A q \in Node : smlog[q] \in Seq(Execution) /\ Len(smlog[q]) = inst[q]
        BY DEF TypeOK, StateMachineTypeOK, InOrder
      <4> QED BY <4>1, LenProperties DEF ExecutedValues
    <3> HIDE DEF i
    <3> QED BY <2>2, <3>1
  <2> QED BY <2>2, <2>3 DEF LogsCompatible
<1> QED BY <1>1, <1>2, AlwaysOnTheWay, PTL

\* The state machines of such a group implement a replicated log: every one
\* executes a prefix of one sequence of values, whatever the order in which the
\* nodes handle their messages, however often the client's call times out and is
\* made again, and whichever nodes copy instances from others.
THEOREM ReplicatedLogCorrect ==
  /\ OneProposer /\ MaxCrashes = 0 /\ MaxBreaks = 0 /\ MayFail = {}
  /\ Spec
  => ImplementsReplicatedLog
<1> SUFFICES ASSUME OneProposer, MaxCrashes = 0, MaxBreaks = 0, MayFail = {}
             PROVE  Spec => ImplementsReplicatedLog
  OBVIOUS
<1>1. PICK p \in Node : OnlyProposer(p)
  BY DEF OneProposer
<1> DEFINE log == [n \in Node |-> ExecutedValues(n)]
<1>2. Init => Log!Init
  <2> SUFFICES ASSUME Init PROVE log = [n \in Node |-> <<>>]
    BY DEF Log!Init
  <2>1. \A n \in Node : DOMAIN smlog[n] = {} /\ smlog[n] = <<>>
    BY EmptySeq DEF Init, StateMachineInit
  <2> QED BY <2>1 DEF ExecutedValues
<1>3. TypeOK /\ LogsCompatible /\ TypeOK' /\ LogsCompatible' /\ [Next]_vars
        => [Log!Next]_log
  <2> SUFFICES ASSUME TypeOK, LogsCompatible, TypeOK', LogsCompatible', [Next]_vars
               PROVE  [Log!Next]_log
    OBVIOUS
  <2>1. CASE UNCHANGED smlog
    BY <2>1 DEF ExecutedValues
  <2>2. ASSUME NEW n \in Node, NEW first \in Nat, NEW vals \in Seq(AnyValue),
               ExecuteAll(n, first, vals)
        PROVE  Log!Execute(n)
    <3> DEFINE s == ExecutedValues(n)
               t == ExecutedValues(n)'
    <3>1. t = s \o vals /\ \A r \in Node \ {n} : ExecutedValues(r)' = ExecutedValues(r)
      BY <2>2, ExecutedValuesStep
    <3>2. s \in Seq(AnyValue)
      BY DEF LogsCompatible
    <3>3. /\ t \in Seq(AnyValue) /\ Len(s) <= Len(t)
          /\ \A k \in DOMAIN s \cap DOMAIN t : s[k] = t[k]
      <4> HIDE DEF s, t
      <4>1. /\ t \in Seq(AnyValue) /\ Len(t) = Len(s) + Len(vals)
            /\ \A k \in 1 .. Len(s) + Len(vals) :
                 t[k] = IF k <= Len(s) THEN s[k] ELSE vals[k - Len(s)]
        <5>1. /\ s \o vals \in Seq(AnyValue) /\ Len(s \o vals) = Len(s) + Len(vals)
              /\ \A k \in 1 .. Len(s) + Len(vals) :
                   (s \o vals)[k] = IF k <= Len(s) THEN s[k] ELSE vals[k - Len(s)]
          BY <3>2, ConcatProperties
        <5> QED BY <3>1, <5>1
      <4>2. /\ Len(s) \in Nat /\ Len(vals) \in Nat
            /\ DOMAIN s = 1 .. Len(s)
        BY <3>2, LenProperties
      <4> QED BY <4>1, <4>2
    <3>4. ASSUME NEW q \in Node \ {n}
          PROVE  \A k \in DOMAIN t \cap DOMAIN ExecutedValues(q) : t[k] = ExecutedValues(q)[k]
      <4>1. \A k \in DOMAIN ExecutedValues(n)' \cap DOMAIN ExecutedValues(q)' :
              ExecutedValues(n)'[k] = ExecutedValues(q)'[k]
        BY DEF LogsCompatible
      <4> QED BY <3>1, <4>1
    <3> HIDE DEF s, t
    <3>5. /\ log[n] = s /\ log'[n] = t
          /\ \A q \in Node \ {n} : /\ log[q] = ExecutedValues(q)
                                   /\ log'[q] = ExecutedValues(q)
      BY <3>1 DEF s, t
    <3> HIDE DEF log
    <3> QED BY <3>3, <3>4, <3>5 DEF Log!Execute, Log!Compatible, log
  <2>3. CASE UNCHANGED vars
    BY <2>1, <2>3 DEF vars, stateMachineVars
  <2> QED BY <2>1, <2>2, <2>3, Executed DEF Log!Next
<1>4. Spec => [](TypeOK /\ InOrder /\ LogsCompatible)
  BY <1>1, AlwaysOnTheWay
<1> QED BY <1>2, <1>3, <1>4, PTL DEF Spec, ImplementsReplicatedLog, Log!Spec
=============================================================================
