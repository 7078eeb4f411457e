---------------------------- MODULE GroupProofs -----------------------------
(***************************************************************************)
(* Proofs about the two other specifications of a group: learners that     *)
(* catch up (CatchUp), for any number of nodes that are behind, of         *)
(* crashes, of connections that break and of executions that fail; and     *)
(* clients that call Propose access by access (ProposeCall).               *)
(***************************************************************************)
EXTENDS CatchUp, ProposeCall, InstanceProofs
-----------------------------------------------------------------------------
(* The invariant. *)

NoProposals == \A n \in Node : ProposalIds[n] = {}

\* No round is in progress, and no message of one is under way.
Quiet ==
  /\ \A n \in Node : prop[n].stage = "Idle"
  /\ \A s, r \in Node : \A m \in Carried(net, s, r) :
       m.type \notin {"PREPARE", "ACCEPT", "LEARN"}

\* The record st of instance i is of the value v[i], which was chosen: the
\* instances of C were decided.
Right(v, C, i, st) == i \in C /\ st = Decided(i, v[i])

\* The records of a node in instance i: right ones of the instances before it,
\* none of later instances.
RecordsUpTo(v, C, records, i) ==
  \A j \in Inst : /\ j < i => Right(v, C, j, records[j])
                  /\ j > i => records[j] = NoRecord

\* What a state machine with checkpoint c has executed when its node is in
\* instance i: right values, in order, and all of them but perhaps the first one
\* (Init does not replay instance 0).
LogUpTo(v, log, c, i) ==
  /\ c = IF i = 0 THEN 0 ELSE i - 1
  /\ \A k \in DOMAIN log : log[k].id < i /\ log[k].value = v[log[k].id]
  /\ \A j, k \in DOMAIN log : j < k => log[j].id < log[k].id

\* The record of the instance a node is in, if it has one, is a right one.
RightOrNone(v, C, records, i) ==
  i \in Inst => records[i] = NoRecord \/ Right(v, C, i, records[i])

RightReply(v, C, m) ==
  m.type = "ASK_FOR_LEARN_REPLY" =>
    \A k \in DOMAIN m.states : Right(v, C, m.start + k - 1, m.states[k])

\* Every node, whether it runs or not, and every reply under way hold values
\* that were chosen.  A node that restarts takes its last record for decided:
\* that of its own instance is, where a crash can come between persisting it and
\* executing its value.
Settled(v, C) ==
  /\ \A i \in C : Chosen(i, v[i])
  /\ \A n \in Node :
       /\ RecordsUpTo(v, C, storage[n], inst[n])
       /\ LogUpTo(v, smlog[n], cp[n], inst[n])
       /\ up[n] \/ n \in CrashingNodes
       /\ n \in CrashingNodes => RightOrNone(v, C, storage[n], inst[n])
  /\ \A s, r \in Node : \A m \in Carried(net, s, r) : RightReply(v, C, m)
-----------------------------------------------------------------------------
(* Records and executions. *)

\* The new states of a reply that does not begin ahead of its reader are those
\* of the reader's instance, the next one, ...
LEMMA NewStatesAre ==
  ASSUME TypeOK, NEW n \in Node, NEW m \in LearnReply, m.start <= inst[n],
         NEW j \in 1 .. Len(NewStates(n, m))
  PROVE  \E k \in DOMAIN m.states :
           NewStates(n, m)[j] = m.states[k] /\ m.start + k - 1 = inst[n] + j - 1
<1> USE MaxInstAssumption
<1>1. /\ m.start \in Nat /\ inst[n] \in Nat /\ m.states \in Seq(State)
      /\ Len(m.states) \in Nat /\ DOMAIN m.states = 1 .. Len(m.states)
  BY LearnerFacts, LenProperties DEF LearnReply, InstOrEnd
<1>2. FirstNew(n, m) = inst[n]
  BY <1>1 DEF FirstNew
<1> DEFINE d == inst[n] - m.start
<1>3. d \in Nat
  BY <1>1
<1>4. NewStates(n, m) = SubSeq(m.states, d + 1, Len(m.states))
  BY <1>2 DEF NewStates
<1> HIDE DEF d
<1> DEFINE t == SubSeq(m.states, d + 1, Len(m.states))
<1>5. /\ Len(t) = IF d < Len(m.states) THEN Len(m.states) - d ELSE 0
      /\ \A k \in 1 .. Len(t) : t[k] = m.states[d + k]
  BY <1>1, <1>3, SuffixProperties
<1> HIDE DEF t
<1>6. j \in 1 .. Len(t) /\ NewStates(n, m)[j] = m.states[d + j]
  BY <1>4, <1>5 DEF t
<1>7. d + j \in DOMAIN m.states
  BY <1>1, <1>3, <1>5, <1>6
<1>8. m.start + (d + j) - 1 = inst[n] + j - 1
  <2>1. d = inst[n] - m.start /\ j \in Int
    BY <1>1, <1>3, <1>5, <1>6 DEF d
  <2> QED BY <1>1, <2>1
<1> QED BY <1>6, <1>7, <1>8

\* What executing some values adds to a log and its checkpoint.
LEMMA ExecuteAllAppends ==
  ASSUME TypeOK, Unparsable = {}, NEW n \in Node, NEW first \in Nat,
         NEW vals \in Seq(AnyValue), first + Len(vals) <= MaxInst + 1,
         ExecuteAll(n, first, vals)
  PROVE  LET old == smlog[n]
             l == Len(smlog[n])
         IN
         /\ \A r \in Node \ {n} : smlog'[r] = smlog[r] /\ cp'[r] = cp[r]
         /\ cp'[n] = IF Len(vals) = 0 THEN cp[n] ELSE first + Len(vals) - 1
         /\ l \in Nat /\ DOMAIN old = 1 .. l
         /\ DOMAIN smlog'[n] = 1 .. l + Len(vals)
         /\ \A k \in 1 .. l : smlog'[n][k] = old[k]
         /\ \A j \in 1 .. Len(vals) :
              smlog'[n][l + j] = [id |-> first + j - 1, value |-> vals[j]]
<1> DEFINE ex == Executions(first, vals)
           l == Len(smlog[n])
<1>1. /\ smlog \in [Node -> Seq(Execution)] /\ smlog[n] \in Seq(Execution)
      /\ cp \in [Node -> Inst]
  BY DEF TypeOK, StateMachineTypeOK
<1>2. /\ DOMAIN vals = 1 .. Len(vals) /\ Len(vals) \in Nat
      /\ DOMAIN ex = 1 .. Len(vals)
      /\ \A j \in 1 .. Len(vals) : ex[j] = [id |-> first + j - 1, value |-> vals[j]]
  BY LenProperties DEF Executions
<1>3. ex \in Seq(Execution)
  BY ExecutionsType
<1>4. smlog'[n] = smlog[n] \o ex
  BY <1>1 DEF ExecuteAll
<1>5. \A r \in Node \ {n} : smlog'[r] = smlog[r] /\ cp'[r] = cp[r]
  BY <1>1 DEF ExecuteAll
<1>6. cp'[n] = IF Len(vals) = 0 THEN cp[n] ELSE first + Len(vals) - 1
  <2> DEFINE parsed == {j \in DOMAIN vals : vals[j] \notin Unparsable}
  <2>1. parsed = 1 .. Len(vals)
    BY <1>2
  <2>2. cp'[n] = Checkpoint(cp[n], first, vals)
    BY <1>1 DEF ExecuteAll
  <2>3. Checkpoint(cp[n], first, vals) =
          IF parsed = {} THEN cp[n]
          ELSE first - 1 + CHOOSE j \in parsed : \A k \in parsed : k <= j
    BY DEF Checkpoint
  <2> HIDE DEF parsed
  <2>4. CASE Len(vals) = 0
    BY <1>2, <2>1, <2>2, <2>3, <2>4
  <2>5. CASE Len(vals) # 0
    <3>1. Len(vals) \in parsed /\ \A k \in parsed : k <= Len(vals)
      BY <1>2, <2>1, <2>5
    <3>2. PICK j \in parsed : /\ j = CHOOSE h \in parsed : \A k \in parsed : k <= h
                             /\ \A k \in parsed : k <= j
      BY <3>1
    <3>3. j = Len(vals)
      <4>1. j \in 1 .. Len(vals) /\ Len(vals) <= j /\ Len(vals) \in Nat
        BY <1>2, <2>1, <3>1, <3>2
      <4> QED BY <4>1
    <3>4. cp'[n] = first - 1 + Len(vals)
      BY <2>2, <2>3, <3>1, <3>2, <3>3
    <3>5. Len(vals) \in Nat
      BY <1>2
    <3> QED BY <2>5, <3>4, <3>5
  <2> QED BY <2>4, <2>5
<1> HIDE DEF ex
<1>7. Len(ex) = Len(vals)
  BY <1>2, <1>3, LenProperties
<1>8. /\ l \in Nat /\ DOMAIN smlog[n] = 1 .. l
      /\ smlog'[n] \in Seq(Execution) /\ Len(smlog'[n]) = l + Len(vals)
      /\ \A k \in 1 .. l + Len(vals) :
           smlog'[n][k] = IF k <= l THEN smlog[n][k] ELSE ex[k - l]
  <2>1. /\ smlog[n] \o ex \in Seq(Execution) /\ Len(smlog[n] \o ex) = Len(smlog[n]) + Len(ex)
        /\ \A k \in 1 .. Len(smlog[n]) + Len(ex) :
             (smlog[n] \o ex)[k] = IF k <= Len(smlog[n]) THEN smlog[n][k]
                                    ELSE ex[k - Len(smlog[n])]
    BY <1>1, <1>3, ConcatProperties
  <2>2. l \in Nat /\ DOMAIN smlog[n] = 1 .. l
    BY <1>1, LenProperties
  <2> QED BY <1>4, <1>7, <2>1, <2>2
<1>9. DOMAIN smlog'[n] = 1 .. l + Len(vals)
  BY <1>8, LenProperties
<1> HIDE DEF l
<1>10. \A k \in 1 .. l : smlog'[n][k] = smlog[n][k]
  <2> SUFFICES ASSUME NEW k \in 1 .. l PROVE smlog'[n][k] = smlog[n][k]
    OBVIOUS
  <2>1. k \in 1 .. l + Len(vals) /\ k <= l
    BY <1>2, <1>8
  <2> QED BY <1>8, <2>1
<1>11. ASSUME NEW j \in 1 .. Len(vals)
       PROVE  smlog'[n][l + j] = [id |-> first + j - 1, value |-> vals[j]]
  <2>1. l + j \in 1 .. l + Len(vals) /\ ~(l + j <= l) /\ (l + j) - l = j
    BY <1>2, <1>8
  <2> QED BY <1>2, <1>8, <2>1
<1> QED BY <1>5, <1>6, <1>8, <1>9, <1>10, <1>11 DEF l

\* Executing the values of the instances from the current one on.
LEMMA ExecuteRight ==
  ASSUME TypeOK, Unparsable = {}, NEW v, NEW n \in Node, NEW vals \in Seq(AnyValue),
         NEW i \in Nat, i + Len(vals) <= MaxInst + 1, ExecuteAll(n, i, vals),
         \A j \in 1 .. Len(vals) : vals[j] = v[i + j - 1],
         LogUpTo(v, smlog[n], cp[n], i)
  PROVE  /\ LogUpTo(v, smlog'[n], cp'[n], i + Len(vals))
         /\ \A r \in Node \ {n} : smlog'[r] = smlog[r] /\ cp'[r] = cp[r]
<1> DEFINE l == Len(smlog[n])
           t == Len(vals)
<1>1. /\ \A r \in Node \ {n} : smlog'[r] = smlog[r] /\ cp'[r] = cp[r]
      /\ cp'[n] = IF t = 0 THEN cp[n] ELSE i + t - 1
      /\ l \in Nat /\ DOMAIN smlog[n] = 1 .. l
      /\ DOMAIN smlog'[n] = 1 .. l + t
      /\ \A k \in 1 .. l : smlog'[n][k] = smlog[n][k]
      /\ \A j \in 1 .. t : smlog'[n][l + j] = [id |-> i + j - 1, value |-> vals[j]]
  BY ExecuteAllAppends
<1>2. t \in Nat
  BY LenProperties
<1>3. \A k \in 1 .. l : smlog[n][k].id \in Nat
  <2>1. smlog[n] \in Seq(Execution)
    BY DEF TypeOK, StateMachineTypeOK
  <2>2. \A k \in 1 .. l : smlog[n][k] \in Execution
    BY <2>1, ElementOfSeq
  <2>3. \A x \in Execution : x.id \in Nat
    BY MaxInstAssumption DEF Execution, Inst
  <2> QED BY <2>2, <2>3
<1>4. /\ cp[n] = IF i = 0 THEN 0 ELSE i - 1
      /\ \A k \in 1 .. l : smlog[n][k].id < i /\ smlog[n][k].value = v[smlog[n][k].id]
      /\ \A j, k \in 1 .. l : j < k => smlog[n][j].id < smlog[n][k].id
  BY <1>1 DEF LogUpTo
<1> HIDE DEF l, t
<1>5. cp'[n] = IF i + t = 0 THEN 0 ELSE i + t - 1
  BY <1>1, <1>2, <1>4
<1>6. \A k \in 1 .. l + t : k \in 1 .. l \/ (k - l \in 1 .. t /\ k = l + (k - l))
  BY <1>1, <1>2
<1>7. \A j \in 1 .. t : /\ smlog'[n][l + j].id = i + j - 1
                        /\ smlog'[n][l + j].value = v[i + j - 1]
  <2>1. TAKE j \in 1 .. t
  <2>2. smlog'[n][l + j] = [id |-> i + j - 1, value |-> vals[j]]
    BY <1>1
  <2>3. vals[j] = v[i + j - 1]
    BY DEF t
  <2> QED BY <2>2, <2>3
<1>8. ASSUME NEW k \in 1 .. l + t
      PROVE  smlog'[n][k].id < i + t /\ smlog'[n][k].value = v[smlog'[n][k].id]
  <2>1. CASE k \in 1 .. l
    <3>1. smlog'[n][k] = smlog[n][k] /\ smlog[n][k].id \in Nat /\ smlog[n][k].id < i
      BY <1>1, <1>3, <1>4, <2>1
    <3> QED BY <1>2, <1>4, <2>1, <3>1
  <2>2. CASE k - l \in 1 .. t /\ k = l + (k - l)
    <3>1. smlog'[n][k].id = i + (k - l) - 1 /\ smlog'[n][k].value = v[i + (k - l) - 1]
      BY <1>7, <2>2
    <3> QED BY <1>1, <1>2, <2>2, <3>1
  <2> QED BY <1>6, <2>1, <2>2
<1>9. ASSUME NEW j \in 1 .. l + t, NEW k \in 1 .. l + t, j < k
      PROVE  smlog'[n][j].id < smlog'[n][k].id
  <2>1. CASE k \in 1 .. l
    <3>1. j \in 1 .. l
      BY <1>1, <1>9, <2>1
    <3> QED BY <1>1, <1>4, <1>9, <2>1, <3>1
  <2>2. CASE k - l \in 1 .. t /\ k = l + (k - l)
    <3>1. smlog'[n][k].id = i + (k - l) - 1
      BY <1>7, <2>2
    <3>2. CASE j \in 1 .. l
      <4>1. smlog'[n][j] = smlog[n][j] /\ smlog[n][j].id \in Nat /\ smlog[n][j].id < i
        BY <1>1, <1>3, <1>4, <3>2
      <4>2. k - l \in Nat /\ k - l >= 1
        BY <1>2, <2>2
      <4> QED BY <3>1, <4>1, <4>2
    <3>3. CASE j - l \in 1 .. t /\ j = l + (j - l)
      <4>1. smlog'[n][j].id = i + (j - l) - 1
        BY <1>7, <3>3
      <4> QED BY <1>1, <1>2, <1>9, <2>2, <3>1, <3>3, <4>1
    <3> QED BY <1>6, <3>2, <3>3
  <2> QED BY <1>6, <2>1, <2>2
<1> QED BY <1>1, <1>5, <1>8, <1>9 DEF LogUpTo, t

\* The node n has records and a log as it should.
SettledNode(v, C, n) ==
  /\ RecordsUpTo(v, C, storage[n], inst[n])
  /\ LogUpTo(v, smlog[n], cp[n], inst[n])
  /\ n \in CrashingNodes => RightOrNone(v, C, storage[n], inst[n])

\* Only the node n has learned or executed anything.
OthersKept(n) ==
  \A r \in Node \ {n} : /\ inst'[r] = inst[r] /\ storage'[r] = storage[r]
                        /\ smlog'[r] = smlog[r] /\ cp'[r] = cp[r]

\* Copying right states, also if the last one is not executed.
LEMMA LearnedRight ==
  ASSUME TypeOK, Unparsable = {}, NEW v, NEW C, NEW n \in Node, SettledNode(v, C, n),
         NEW m \in LearnReply, m.start <= inst[n], RightReply(v, C, m),
         NEW k \in Nat, NEW p \in {k, k + 1}, p <= Len(NewStates(n, m)),
         Learned(n, m, p, k)
  PROVE  /\ SettledNode(v, C, n)' /\ OthersKept(n) /\ inst'[n] = inst[n] + k
         /\ \A h \in Inst : storage'[n][h] = storage[n][h] \/ Right(v, C, h, storage'[n][h])
<1> USE MaxInstAssumption
<1> DEFINE new == NewStates(n, m)
           i == inst[n]
           vals == [j \in 1 .. k |-> new[j].proposal.value]
<1>1. /\ new \in Seq(State) /\ Len(new) \in Nat /\ i \in Nat /\ i + Len(new) <= MaxInst + 1
      /\ k \in 0 .. Len(new) /\ p \in Nat
  <2>1. new \in Seq(State) /\ Len(new) \in Nat /\ i + Len(new) <= MaxInst + 1
    BY NewStatesType
  <2>2. i \in Nat
    BY LearnerFacts DEF InstOrEnd
  <2> HIDE DEF new
  <2>3. p \in Nat /\ p >= k /\ k <= Len(new)
    BY <2>1 DEF new
  <2> QED BY <2>1, <2>2, <2>3
<1>2. FirstNew(n, m) = i
  <2>1. m.start \in Nat
    BY DEF LearnReply, InstOrEnd
  <2> QED BY <1>1, <2>1 DEF FirstNew
<1>3. /\ storage \in [Node -> [Inst -> State \cup {NoRecord}]]
      /\ inst \in [Node -> InstOrEnd]
      /\ RecordsUpTo(v, C, storage[n], i) /\ LogUpTo(v, smlog[n], cp[n], i)
  BY DEF TypeOK, RoleTypeOK, StorageTypeOK, SettledNode
<1>4. /\ storage'[n] = [h \in Inst |-> IF h \in i .. (i + p - 1) THEN new[h - i + 1]
                                       ELSE storage[n][h]]
      /\ \A r \in Node \ {n} : storage'[r] = storage[r] /\ inst'[r] = inst[r]
      /\ inst'[n] = i + k
      /\ ExecuteAll(n, i, vals)
  BY <1>2, <1>3 DEF Learned
<1>5. \A j \in 1 .. Len(new) : Right(v, C, i + j - 1, new[j])
  <2>1. TAKE j \in 1 .. Len(new)
  <2>2. PICK h \in DOMAIN m.states : new[j] = m.states[h] /\ m.start + h - 1 = i + j - 1
    BY NewStatesAre
  <2>3. m.type = "ASK_FOR_LEARN_REPLY"
    BY DEF LearnReply
  <2> HIDE DEF new, i
  <2> QED BY <2>2, <2>3 DEF RightReply
<1>6. vals \in Seq(AnyValue) /\ Len(vals) = k
  BY <1>1, LearnedValuesType
<1>7. \A j \in 1 .. k : vals[j] = v[i + j - 1]
  <2>1. TAKE j \in 1 .. k
  <2>2. Right(v, C, i + j - 1, new[j])
    BY <1>1, <1>5
  <2>3. new[j].proposal.value = v[i + j - 1]
    BY <2>2 DEF Right, Decided
  <2> QED BY <2>3
<1> HIDE DEF vals
<1>8. /\ LogUpTo(v, smlog'[n], cp'[n], i + k)
      /\ \A r \in Node \ {n} : smlog'[r] = smlog[r] /\ cp'[r] = cp[r]
  <2>1. i + Len(vals) <= MaxInst + 1
    BY <1>1, <1>6
  <2> HIDE DEF i
  <2>2. \A j \in 1 .. Len(vals) : vals[j] = v[i + j - 1]
    BY <1>6, <1>7
  <2>3. i \in Nat /\ vals \in Seq(AnyValue) /\ ExecuteAll(n, i, vals)
        /\ LogUpTo(v, smlog[n], cp[n], i)
    BY <1>1, <1>3, <1>4, <1>6
  <2>4. /\ LogUpTo(v, smlog'[n], cp'[n], i + Len(vals))
        /\ \A r \in Node \ {n} : smlog'[r] = smlog[r] /\ cp'[r] = cp[r]
    BY <2>1, <2>2, <2>3, ExecuteRight
  <2> QED BY <1>6, <2>4
<1> HIDE DEF new, i
<1>9. ASSUME NEW h \in Inst, h < i + p
      PROVE  h < i + k \/ h >= i => Right(v, C, h, storage'[n][h])
  <2>1. h \in Nat
    BY DEF Inst
  <2>2. CASE h < i
    BY <1>1, <1>3, <1>4, <2>1, <2>2 DEF RecordsUpTo
  <2>3. CASE h >= i
    <3>1. h - i + 1 \in 1 .. Len(new) /\ i + (h - i + 1) - 1 = h /\ h \in i .. (i + p - 1)
      BY <1>1, <1>9, <2>1, <2>3 DEF new
    <3>2. storage'[n][h] = new[h - i + 1]
      BY <1>4, <3>1
    <3>3. Right(v, C, i + (h - i + 1) - 1, new[h - i + 1])
      BY <1>5, <3>1
    <3> QED BY <3>1, <3>2, <3>3
  <2> QED BY <1>1, <2>1, <2>2, <2>3
<1>10. \A h \in Inst : h >= i + p => storage'[n][h] = storage[n][h]
  <2>1. TAKE h \in Inst
  <2>2. h >= i + p => h \notin i .. (i + p - 1)
    BY <1>1 DEF Inst
  <2> QED BY <1>4, <2>2
<1>11. RecordsUpTo(v, C, storage'[n], i + k)
  <2> SUFFICES ASSUME NEW h \in Inst
               PROVE  /\ h < i + k => Right(v, C, h, storage'[n][h])
                      /\ h > i + k => storage'[n][h] = NoRecord
    BY DEF RecordsUpTo
  <2>1. h \in Nat /\ p \in {k, k + 1}
    BY DEF Inst
  <2>2. h < i + k => h < i + p
    BY <1>1, <2>1
  <2>3. h > i + k => h >= i + p /\ h > i
    BY <1>1, <2>1
  <2> QED BY <1>3, <1>9, <1>10, <2>2, <2>3 DEF RecordsUpTo
<1>12. n \in CrashingNodes => RightOrNone(v, C, storage'[n], i + k)
  <2> SUFFICES ASSUME n \in CrashingNodes, i + k \in Inst
               PROVE  \/ storage'[n][i + k] = NoRecord
                      \/ Right(v, C, i + k, storage'[n][i + k])
    BY DEF RightOrNone
  <2>1. CASE p = k + 1
    <3>1. i + k < i + p /\ i + k >= i
      BY <1>1, <2>1
    <3> QED BY <1>9, <3>1
  <2>2. CASE p = k
    <3>1. storage'[n][i + k] = storage[n][i + k]
      BY <1>1, <1>10, <2>2
    <3>2. CASE k = 0
      <4>1. i + k = i
        BY <1>1, <3>2
      <4>2. RightOrNone(v, C, storage[n], i)
        BY DEF SettledNode, i
      <4> QED BY <3>1, <4>1, <4>2 DEF RightOrNone
    <3>3. CASE k # 0
      <4>1. i + k > i
        BY <1>1, <3>3
      <4> QED BY <1>3, <3>1, <4>1 DEF RecordsUpTo
    <3> QED BY <3>2, <3>3
  <2> QED BY <2>1, <2>2
<1>13. inst'[n] = inst[n] + k
  BY <1>4 DEF i
<1>14. SettledNode(v, C, n)'
  BY <1>4, <1>8, <1>11, <1>12 DEF SettledNode
<1>15. \A h \in Inst : storage'[n][h] = storage[n][h] \/ Right(v, C, h, storage'[n][h])
  <2>1. TAKE h \in Inst
  <2>2. h \in Nat /\ (h < i + p \/ h >= i + p) /\ (h >= i \/ h \notin i .. (i + p - 1))
    BY <1>1 DEF Inst
  <2> QED BY <1>4, <1>9, <1>10, <2>2
<1> QED BY <1>4, <1>8, <1>13, <1>14, <1>15 DEF OthersKept

\* The last record is one there is.
LEMMA LastIsRecorded ==
  ASSUME TypeOK, NEW n \in Node, NEW i \in Inst, storage[n][i] # NoRecord
  PROVE  /\ GetMaxInstanceId(n) \in Inst /\ i <= GetMaxInstanceId(n)
         /\ storage[n][GetMaxInstanceId(n)] # NoRecord
         /\ LoadLastState(n) = storage[n][GetMaxInstanceId(n)]
<1> USE MaxInstAssumption
<1>1. Recorded(n) \subseteq Nat /\ IsFiniteSet(Recorded(n)) /\ i \in Recorded(n)
  <2>1. Recorded(n) \subseteq Inst /\ Inst \subseteq Nat /\ i \in Recorded(n)
    BY DEF Recorded, Inst
  <2>2. IsFiniteSet(Inst)
    BY FS_Interval DEF Inst
  <2> QED BY <2>1, <2>2, FS_Subset
<1>2. \E j \in Recorded(n) : \A k \in Recorded(n) : k <= j
  BY <1>1, MaximumExists
<1>3. GetMaxInstanceId(n) \in Recorded(n) /\ i <= GetMaxInstanceId(n)
  BY <1>1, <1>2 DEF GetMaxInstanceId
<1> QED BY <1>3 DEF Recorded, LoadLastState

\* What Init finds: the record of the instance the node is in, or of the one
\* before, or none at all.
LEMMA LastIsRight ==
  ASSUME TypeOK, NEW v \in [Inst -> Value], NEW C, NEW n \in CrashingNodes, SettledNode(v, C, n)
  PROVE  LET i == inst[n]
             max == GetMaxInstanceId(n)
             last == LoadLastState(n)
         IN
         \/ i \in Inst /\ max = i /\ Right(v, C, i, storage[n][i]) /\ last = Decided(i, v[i])
         \/ /\ i \in Inst => storage[n][i] = NoRecord
            /\ \/ i = 0 /\ max = 0 /\ last = EmptyState
               \/ i > 0 /\ max = i - 1 /\ last = Decided(max, v[max])
<1> USE MaxInstAssumption
<1> DEFINE i == inst[n]
           max == GetMaxInstanceId(n)
           last == LoadLastState(n)
<1>1. n \in Node /\ i \in Nat /\ i <= MaxInst + 1 /\ 0 \in Inst
  BY CrashAssumption, LearnerFacts DEF InstOrEnd, Inst
<1>2. /\ \A j \in Inst : /\ j < i => Right(v, C, j, storage[n][j])
                         /\ j > i => storage[n][j] = NoRecord
      /\ i \in Inst => storage[n][i] = NoRecord \/ Right(v, C, i, storage[n][i])
  BY DEF SettledNode, RecordsUpTo, RightOrNone
<1>3. \A j \in Inst : \A st : Right(v, C, j, st) => st = Decided(j, v[j])
  BY DEF Right
<1>4. \A j \in Inst : Decided(j, v[j]) # NoRecord
  <2>1. TAKE j \in Inst
  <2>2. v[j] \in AnyValue /\ 2 * j + 2 \in Nat
    BY DEF AnyValue, Inst
  <2>3. Decided(j, v[j]) \in State
    BY <2>2 DEF Decided, State, Proposal
  <2> QED BY <2>3, NoRecordAssumption
<1> HIDE DEF i
<1>5. CASE i \in Inst /\ Right(v, C, i, storage[n][i])
  <2>1. /\ max \in Inst /\ i <= max /\ storage[n][max] # NoRecord
        /\ last = storage[n][max]
    BY <1>1, <1>3, <1>4, <1>5, LastIsRecorded
  <2>2. max = i
    <3> HIDE DEF max
    <3>1. max \in Nat /\ ~(max > i)
      BY <1>2, <2>1 DEF Inst
    <3> QED BY <1>1, <2>1, <3>1
  <2> QED BY <1>3, <1>5, <2>1, <2>2 DEF i
<1>6. CASE i \in Inst => storage[n][i] = NoRecord
  <2>1. CASE i = 0
    <3>1. \A j \in Inst : storage[n][j] = NoRecord
      <4>1. TAKE j \in Inst
      <4>2. j = 0 \/ j > i
        BY <2>1 DEF Inst
      <4> QED BY <1>1, <1>2, <1>6, <2>1, <4>2
    <3>2. Recorded(n) = {}
      BY <3>1 DEF Recorded
    <3>3. max = 0 /\ last = EmptyState
      BY <1>1, <3>1, <3>2 DEF GetMaxInstanceId, LoadLastState
    <3> QED BY <1>6, <2>1, <3>3 DEF i
  <2>2. CASE i > 0
    <3>1. i - 1 \in Inst /\ i - 1 < i
      BY <1>1, <2>2 DEF Inst
    <3>2. storage[n][i - 1] = Decided(i - 1, v[i - 1]) /\ storage[n][i - 1] # NoRecord
      BY <1>2, <1>3, <1>4, <3>1
    <3>3. /\ max \in Inst /\ i - 1 <= max /\ storage[n][max] # NoRecord
          /\ last = storage[n][max]
      BY <1>1, <3>1, <3>2, LastIsRecorded
    <3>4. max = i - 1
      <4> HIDE DEF max
      <4>1. max \in Nat /\ ~(max > i) /\ max # i
        BY <1>2, <1>6, <3>3 DEF Inst
      <4> QED BY <1>1, <3>3, <4>1
    <3> QED BY <1>6, <2>2, <3>2, <3>3, <3>4 DEF i
  <2> QED BY <1>1, <2>1, <2>2
<1> QED BY <1>2, <1>5, <1>6

\* Executing no values changes nothing.
LEMMA ExecuteNothing ==
  ASSUME TypeOK, NEW n \in Node, NEW first \in Nat, NEW vals, vals = <<>>,
         ExecuteAll(n, first, vals)
  PROVE  UNCHANGED <<smlog, cp>>
<1>1. /\ smlog \in [Node -> Seq(Execution)] /\ cp \in [Node -> Inst]
      /\ smlog[n] \in Seq(Execution)
  BY DEF TypeOK, StateMachineTypeOK
<1>2. DOMAIN vals = {}
  <2>1. <<>> \in Seq(Int) /\ Len(<<>>) = 0
    OBVIOUS
  <2> QED BY <2>1, LenProperties
<1>3. Executions(first, vals) = <<>>
  <2>1. Executions(first, vals) \in [1 .. 0 -> Execution]
    BY <1>2 DEF Executions
  <2>2. Executions(first, vals) \in Seq(Execution)
    BY <2>1, SeqDef
  <2>3. Len(Executions(first, vals)) = 0
    BY <2>1, <2>2, LenProperties
  <2> QED BY <2>2, <2>3, EmptySeq
<1>4. smlog[n] \o Executions(first, vals) = smlog[n]
  BY <1>1, <1>3, ConcatEmptySeq
<1>5. Checkpoint(cp[n], first, vals) = cp[n]
  BY <1>2 DEF Checkpoint
<1>6. /\ smlog' = [smlog EXCEPT ![n] = smlog[n] \o Executions(first, vals)]
      /\ cp' = [cp EXCEPT ![n] = Checkpoint(cp[n], first, vals)]
  BY <1>1 DEF ExecuteAll
<1> QED BY <1>1, <1>4, <1>5, <1>6

\* A node that restarts replays the last record at most, which is that of the
\* instance it was in, and never goes back.
LEMMA RestartRight ==
  ASSUME TypeOK, Unparsable = {}, NEW v \in [Inst -> Value], NEW C,
         NEW n \in CrashingNodes, SettledNode(v, C, n), Restart(n)
  PROVE  SettledNode(v, C, n)' /\ OthersKept(n) /\ inst[n] <= inst'[n]
<1> USE MaxInstAssumption
<1> DEFINE i == inst[n]
           max == GetMaxInstanceId(n)
           last == LoadLastState(n)
           todo == Replayed(n)
<1>1. /\ n \in Node /\ i \in Nat /\ i <= MaxInst + 1
      /\ inst \in [Node -> InstOrEnd]
  BY CrashAssumption, LearnerFacts DEF InstOrEnd, TypeOK, RoleTypeOK
<1>2. /\ \A j \in Inst : /\ j < i => Right(v, C, j, storage[n][j])
                         /\ j > i => storage[n][j] = NoRecord
      /\ cp[n] = IF i = 0 THEN 0 ELSE i - 1
      /\ LogUpTo(v, smlog[n], cp[n], i)
  BY DEF SettledNode, RecordsUpTo, LogUpTo
<1>3. \/ i \in Inst /\ max = i /\ Right(v, C, i, storage[n][i]) /\ last = Decided(i, v[i])
      \/ /\ i \in Inst => storage[n][i] = NoRecord
         /\ \/ i = 0 /\ max = 0 /\ last = EmptyState
            \/ i > 0 /\ max = i - 1 /\ last = Decided(max, v[max])
  BY LastIsRight
<1>4. /\ UNCHANGED storage
      /\ \/ /\ ExecuteAll(n, cp[n] + 1, todo)
            /\ inst' = [inst EXCEPT ![n] = IF last.accepted THEN max + 1 ELSE max]
         \/ /\ \E k \in 0 .. (Len(todo) - 1) : ExecuteAll(n, cp[n] + 1, SubSeq(todo, 1, k))
            /\ UNCHANGED inst
  BY DEF Restart
<1>5. /\ todo \in Seq(AnyValue) /\ Len(todo) \in Nat
      /\ cp[n] \in Nat /\ cp[n] + 1 + Len(todo) <= MaxInst + 1
  BY <1>1, ReplayedType DEF Inst
<1>6. todo = [j \in 1 .. (IF last.accepted /\ cp[n] < max THEN max - cp[n] ELSE 0) |->
                last.proposal.value]
  BY DEF Replayed
<1>7. \A j \in Inst : Decided(j, v[j]).accepted /\ Decided(j, v[j]).proposal.value = v[j]
  BY DEF Decided
<1>8. ~EmptyState.accepted
  BY DEF EmptyState
<1> HIDE DEF max, last, todo, i
<1>9. ASSUME UNCHANGED <<smlog, cp>>, inst'[n] = i,
             \A r \in Node \ {n} : inst'[r] = inst[r]
      PROVE  SettledNode(v, C, n)' /\ OthersKept(n) /\ inst[n] <= inst'[n]
  BY <1>1, <1>4, <1>9 DEF SettledNode, OthersKept, i
<1>10. \A k \in 0 .. (Len(todo) - 1) : k = 0 => SubSeq(todo, 1, k) = <<>>
  OBVIOUS
<1>11. ASSUME last.accepted, inst' = [inst EXCEPT ![n] = max + 1], i \in Inst,
              max = i, Right(v, C, i, storage[n][i]), LogUpTo(v, smlog'[n], cp'[n], i + 1),
              \A r \in Node \ {n} : smlog'[r] = smlog[r] /\ cp'[r] = cp[r]
       PROVE  SettledNode(v, C, n)' /\ OthersKept(n) /\ inst[n] <= inst'[n]
  <2>1. inst'[n] = i + 1 /\ \A r \in Node \ {n} : inst'[r] = inst[r]
    BY <1>1, <1>11
  <2>2. RecordsUpTo(v, C, storage'[n], i + 1)
    <3> SUFFICES ASSUME NEW j \in Inst
                 PROVE  /\ j < i + 1 => Right(v, C, j, storage[n][j])
                        /\ j > i + 1 => storage[n][j] = NoRecord
      BY <1>4 DEF RecordsUpTo
    <3>1. j \in Nat
      BY DEF Inst
    <3>2. (j < i + 1 => j < i \/ j = i) /\ (j > i + 1 => j > i)
      BY <1>1, <3>1
    <3> QED BY <1>2, <1>11, <3>2
  <2>3. RightOrNone(v, C, storage'[n], i + 1)
    <3>1. i + 1 \in Inst => storage[n][i + 1] = NoRecord
      BY <1>1, <1>2
    <3> QED BY <1>4, <3>1 DEF RightOrNone
  <2>4. SettledNode(v, C, n)'
    BY <1>11, <2>1, <2>2, <2>3 DEF SettledNode
  <2>5. inst[n] <= inst'[n]
    BY <1>1, <2>1 DEF i
  <2> QED BY <1>4, <1>11, <2>1, <2>4, <2>5 DEF OthersKept
<1>12. CASE i \in Inst /\ max = i /\ Right(v, C, i, storage[n][i]) /\ last = Decided(i, v[i])
  <2>1. last.accepted /\ last.proposal.value = v[i]
    BY <1>7, <1>12
  <2>2. CASE i = 0
    <3>1. todo = [j \in 1 .. 0 |-> last.proposal.value]
      BY <1>2, <1>6, <1>12, <2>2
    <3>2. todo = <<>>
      BY <1>5, <3>1, LenProperties, EmptySeq
    <3>3. ExecuteAll(n, cp[n] + 1, todo) /\ inst' = [inst EXCEPT ![n] = max + 1]
      BY <1>4, <2>1, <3>2
    <3>4. UNCHANGED <<smlog, cp>>
      BY <1>1, <1>5, <3>2, <3>3, ExecuteNothing
    <3>5. LogUpTo(v, smlog'[n], cp'[n], i + 1)
      <4>1. \A k \in DOMAIN smlog[n] : smlog[n][k].id \in Nat
        <5>1. smlog[n] \in Seq(Execution)
          BY <1>1 DEF TypeOK, StateMachineTypeOK
        <5>2. \A k \in DOMAIN smlog[n] : smlog[n][k] \in Execution
          BY <5>1, ElementOfSeq, LenProperties
        <5> QED BY <5>2 DEF Execution, Inst
      <4> QED BY <1>2, <2>2, <3>4, <4>1 DEF LogUpTo
    <3> QED BY <1>11, <1>12, <2>1, <3>3, <3>4, <3>5
  <2>3. CASE i > 0
    <3>1. todo = [j \in 1 .. 1 |-> v[i]] /\ cp[n] + 1 = i
      BY <1>1, <1>2, <1>6, <1>12, <2>1, <2>3
    <3>2. Len(todo) = 1
      BY <1>5, <3>1, LenProperties
    <3>3. CASE /\ ExecuteAll(n, cp[n] + 1, todo)
               /\ inst' = [inst EXCEPT ![n] = IF last.accepted THEN max + 1 ELSE max]
      <4>1. \A j \in 1 .. Len(todo) : todo[j] = v[i + j - 1]
        BY <1>1, <3>1, <3>2
      <4>2. i + Len(todo) <= MaxInst + 1 /\ ExecuteAll(n, i, todo)
        BY <1>5, <3>1, <3>3
      <4>3. /\ n \in Node /\ i \in Nat /\ todo \in Seq(AnyValue)
            /\ LogUpTo(v, smlog[n], cp[n], i)
        BY <1>1, <1>2, <1>5
      <4>4. /\ LogUpTo(v, smlog'[n], cp'[n], i + Len(todo))
            /\ \A r \in Node \ {n} : smlog'[r] = smlog[r] /\ cp'[r] = cp[r]
        BY ONLY TypeOK, Unparsable = {}, <4>1, <4>2, <4>3, ExecuteRight
      <4> QED BY <1>11, <1>12, <2>1, <3>2, <3>3, <4>4
    <3>4. CASE /\ \E k \in 0 .. (Len(todo) - 1) : ExecuteAll(n, cp[n] + 1, SubSeq(todo, 1, k))
               /\ UNCHANGED inst
      <4>1. PICK k \in 0 .. (Len(todo) - 1) : ExecuteAll(n, cp[n] + 1, SubSeq(todo, 1, k))
        BY <3>4
      <4>2. k = 0 /\ SubSeq(todo, 1, k) = <<>>
        BY <1>10, <3>2, <4>1
      <4>3. n \in Node /\ cp[n] + 1 \in Nat
        BY <1>1, <1>5
      <4> DEFINE none == SubSeq(todo, 1, k)
      <4>4. none = <<>> /\ ExecuteAll(n, cp[n] + 1, none)
        BY <4>1, <4>2
      <4> HIDE DEF none
      <4>5. UNCHANGED <<smlog, cp>>
        BY <4>3, <4>4, ExecuteNothing
      <4>6. inst'[n] = i /\ \A r \in Node \ {n} : inst'[r] = inst[r]
        BY <3>4 DEF i
      <4> QED BY <1>9, <4>5, <4>6
    <3> QED BY <1>4, <3>3, <3>4
  <2> QED BY <1>1, <2>2, <2>3
<1>13. CASE \/ i = 0 /\ max = 0 /\ last = EmptyState
            \/ i > 0 /\ max = i - 1 /\ last = Decided(max, v[max])
  <2>1. todo = [j \in 1 .. 0 |-> last.proposal.value]
    BY <1>1, <1>2, <1>6, <1>13
  <2>2. todo = <<>> /\ Len(todo) = 0
    BY <1>5, <2>1, LenProperties, EmptySeq
  <2>3. /\ ExecuteAll(n, cp[n] + 1, todo)
        /\ inst' = [inst EXCEPT ![n] = IF last.accepted THEN max + 1 ELSE max]
    BY <1>4, <2>2
  <2>4. UNCHANGED <<smlog, cp>>
    BY <1>1, <1>5, <2>2, <2>3, ExecuteNothing
  <2>5. (IF last.accepted THEN max + 1 ELSE max) = i
    <3>1. CASE i = 0 /\ max = 0 /\ last = EmptyState
      BY <1>8, <3>1
    <3>2. CASE i > 0 /\ max = i - 1 /\ last = Decided(max, v[max])
      <4>1. max \in Inst
        BY <1>1, <3>2 DEF Inst
      <4>2. last.accepted
        BY <1>7, <3>2, <4>1
      <4> QED BY <1>1, <3>2, <4>2
    <3> QED BY <1>13, <3>1, <3>2
  <2>6. inst'[n] = i /\ \A r \in Node \ {n} : inst'[r] = inst[r]
    BY <1>1, <2>3, <2>5
  <2> QED BY <1>9, <2>4, <2>6
<1> QED BY <1>3, <1>12, <1>13
-----------------------------------------------------------------------------
(* A step of the group. *)

\* n handles the reply m: k of its states are executed, p are copied.
CopiesStates(n, m, k, p) ==
  /\ m \in LearnReply
  /\ \E s \in Node : m \in Carried(net, s, n)
  /\ k \in Nat /\ p \in {k, k + 1} /\ p <= Len(NewStates(n, m))
  /\ Learned(n, m, p, k)

\* Without rounds a node changes its records or executes only by catching up
\* and by restarting.
LEMMA QuietSteps ==
  ASSUME TypeOK, Quiet, Next
  PROVE  /\ UNCHANGED votes
         /\ \A n \in Node : up[n] \/ n \in CrashingNodes => up'[n] \/ n \in CrashingNodes
         /\ \/ UNCHANGED <<inst, storage, stateMachineVars>>
            \/ \E n \in Node : \E m, k, p : CopiesStates(n, m, k, p)
            \/ \E n \in Node : ~up[n] /\ Restart(n)
<1>1. ASSUME NEW s \in Node, NEW n \in Node, net[s][n] # <<>>,
             NEW m, m = Head(net[s][n])
      PROVE  /\ m \in Message /\ m \in Carried(net, s, n)
             /\ m.type \notin {"PREPARE", "ACCEPT", "LEARN"}
             /\ m.type = "ASK_FOR_LEARN_REPLY" =>
                  m \in LearnReply /\ Len(NewStates(n, m)) \in Nat
  <2>1. m \in Message /\ m \in Carried(net, s, n)
    BY <1>1, ReceivedFacts
  <2>2. m.type = "ASK_FOR_LEARN_REPLY" => m \in LearnReply
    BY <2>1, MessageFields
  <2> QED BY <2>1, <2>2, NewStatesType DEF Quiet
<1>2. ASSUME NEW s \in Node, NEW n \in Node, OnMessage(s, n)
      PROVE  /\ UNCHANGED <<up, votes>>
             /\ \/ UNCHANGED <<inst, storage, stateMachineVars>>
                \/ \E m, k, p : CopiesStates(n, m, k, p)
  <2> DEFINE m == Head(net[s][n])
             new == NewStates(n, m)
  <2>1. net[s][n] # <<>> /\ UNCHANGED up
    BY <1>2 DEF OnMessage
  <2>2. /\ m \in Message /\ m \in Carried(net, s, n)
        /\ m.type \notin {"PREPARE", "ACCEPT", "LEARN"}
        /\ m.type = "ASK_FOR_LEARN_REPLY" => m \in LearnReply /\ Len(new) \in Nat
    BY <1>1, <2>1
  <2> HIDE DEF m, new
  <2>3. CASE OnOtherInstance(n, s, m) \/ OnProposerMessage(n, s, m)
    BY <2>1, <2>3 DEF OnOtherInstance, OnProposerMessage, accepterVars
  <2>4. CASE OnAccepterMessage(n, s, m) \/ OnLearn(n, s, m)
    BY <2>2, <2>4 DEF OnAccepterMessage, OnLearn
  <2>5. CASE OnLearnerMessage(n, s, m)
    <3>1. CASE UNCHANGED <<inst, storage, stateMachineVars, votes>>
      BY <2>1, <3>1
    <3>2. CASE /\ m.type = "ASK_FOR_LEARN_REPLY" /\ OnAskForLearnReply(n, s, m)
               /\ UNCHANGED votes
      <4>1. PICK k \in Nat, p \in Nat :
              p \in {k, k + 1} /\ p <= Len(new) /\ Learned(n, m, p, k)
        <5>1. CASE Learned(n, m, Len(new), Len(new))
          BY <2>2, <3>2, <5>1
        <5>2. ASSUME NEW k \in 0 .. (Len(new) - 1), Learned(n, m, k + 1, k)
              PROVE  \E h \in Nat, p \in Nat :
                       p \in {h, h + 1} /\ p <= Len(new) /\ Learned(n, m, p, h)
          <6>1. k \in Nat /\ k + 1 \in Nat /\ k + 1 \in {k, k + 1} /\ k + 1 <= Len(new)
            BY <2>2, <3>2, <5>2
          <6> QED BY <5>2, <6>1
        <5> QED BY <3>2, <5>1, <5>2 DEF OnAskForLearnReply, new
      <4>2. CopiesStates(n, m, k, p)
        BY <2>2, <3>2, <4>1 DEF CopiesStates, new
      <4> QED BY <2>1, <3>2, <4>2
    <3> QED BY <2>5, <3>1, <3>2 DEF OnLearnerMessage
  <2> QED BY <1>2, <2>3, <2>4, <2>5 DEF OnMessage, m
<1>3. ASSUME NEW n \in Node, Crash(n)
      PROVE  /\ n \in CrashingNodes /\ UNCHANGED votes
             /\ up' = [up EXCEPT ![n] = FALSE]
             /\ \/ UNCHANGED <<inst, storage, stateMachineVars>>
                \/ \E m, k, p : CopiesStates(n, m, k, p)
  <2>1. CASE UNCHANGED <<inst, storage, stateMachineVars>>
    BY <1>3, <2>1 DEF Crash
  <2>2. CASE CrashWhileLearning(n)
    <3>1. PICK s \in Node :
            /\ net[s][n] # <<>> /\ Head(net[s][n]).type = "ASK_FOR_LEARN_REPLY"
            /\ \E h \in 1 .. Len(NewStates(n, Head(net[s][n]))) :
                 Learned(n, Head(net[s][n]), h, h - 1)
      BY <2>2 DEF CrashWhileLearning
    <3> DEFINE m == Head(net[s][n])
    <3>2. m \in LearnReply /\ m \in Carried(net, s, n) /\ Len(NewStates(n, m)) \in Nat
      BY <1>1, <3>1
    <3>3. PICK h \in 1 .. Len(NewStates(n, m)) : Learned(n, m, h, h - 1)
      BY <3>1
    <3> HIDE DEF m
    <3> DEFINE k == h - 1
    <3>4. k \in Nat /\ h \in {k, k + 1} /\ h <= Len(NewStates(n, m))
      BY <3>2, <3>3
    <3>5. CopiesStates(n, m, k, h)
      BY <3>2, <3>3, <3>4 DEF CopiesStates
    <3> QED BY <1>3, <3>5 DEF Crash
  <2> QED BY <1>3, <2>1, <2>2 DEF Crash
<1>4. ASSUME NEW n \in Node, Restart(n)
      PROVE  ~up[n] /\ UNCHANGED votes /\ (up' = [up EXCEPT ![n] = TRUE] \/ UNCHANGED up)
  BY <1>4 DEF Restart
<1>5. up \in [Node -> BOOLEAN]
  BY DEF TypeOK, RoleTypeOK
<1>6. CASE UNCHANGED <<up, votes, inst, storage, stateMachineVars>>
  BY <1>6
<1>7. CASE \E s, n \in Node : OnMessage(s, n)
  BY <1>2, <1>7
<1>8. CASE \E n \in Node : Crash(n)
  BY <1>3, <1>5, <1>8
<1>9. CASE \E n \in Node : Restart(n)
  BY <1>4, <1>5, <1>9
<1> QED
  BY <1>6, <1>7, <1>8, <1>9
  DEF Next, ClientStep, ProposeTimeoutStep, AskStep, BreakStep, Break, accepterVars

LEMMA QuietStep ==
  ASSUME TypeOK, NoProposals, Quiet, Next
  PROVE  Quiet'
<1>1. \A n \in Node : prop'[n].stage = "Idle"
  BY IdleStays DEF Quiet, NoProposals
<1>2. ASSUME NEW s \in Node, NEW r \in Node, NEW m \in Carried(net', s, r)
      PROVE  m.type \notin {"PREPARE", "ACCEPT", "LEARN"}
  <2>1. CASE m \in Carried(net, s, r)
    BY <2>1 DEF Quiet
  <2>2. CASE NewMessage(s, r, m)
    <3>1. Explained(s, r, m) /\ ProposalIds[s] = {} /\ prop[s].stage = "Idle"
      BY <2>2, NewMessages DEF Quiet, NoProposals
    <3> QED BY <3>1 DEF Explained
  <2> QED BY <1>2, <2>1, <2>2 DEF NewMessage
<1> QED BY <1>1, <1>2 DEF Quiet, Carried

\* Nothing but decided values spreads, and no node goes back.
LEMMA SettledStep ==
  ASSUME TypeOK, Unparsable = {}, Quiet, AsksFromReached, NEW v \in [Inst -> Value], NEW C,
         Settled(v, C), Next
  PROVE  /\ Settled(v, C)'
         /\ \A n \in Node : inst[n] <= inst'[n]
         /\ \A n \in Node : \A i \in Inst :
              storage'[n][i] # storage[n][i] => Chosen(i, storage'[n][i].proposal.value)
<1>1. /\ UNCHANGED votes
      /\ \A n \in Node : up[n] \/ n \in CrashingNodes => up'[n] \/ n \in CrashingNodes
      /\ \/ UNCHANGED <<inst, storage, stateMachineVars>>
         \/ \E n \in Node : \E m, k, p : CopiesStates(n, m, k, p)
         \/ \E n \in Node : ~up[n] /\ Restart(n)
  BY QuietSteps
<1>2. /\ \A i \in C : Chosen(i, v[i])
      /\ \A n \in Node : SettledNode(v, C, n) /\ (up[n] \/ n \in CrashingNodes)
      /\ \A s, r \in Node : \A m \in Carried(net, s, r) : RightReply(v, C, m)
  BY DEF Settled, SettledNode
<1>3. \A n \in Node : inst[n] \in Nat
  BY LearnerFacts, MaxInstAssumption DEF InstOrEnd
<1>4. ASSUME NEW n \in Node, SettledNode(v, C, n)', OthersKept(n), inst[n] <= inst'[n]
      PROVE  \A r \in Node : SettledNode(v, C, r)' /\ inst[r] <= inst'[r]
  <2>1. TAKE r \in Node
  <2>2. CASE r = n
    BY <1>4, <2>2
  <2>3. CASE r # n
    <3>1. /\ inst'[r] = inst[r] /\ storage'[r] = storage[r]
          /\ smlog'[r] = smlog[r] /\ cp'[r] = cp[r]
      BY <1>4, <2>3 DEF OthersKept
    <3>2. SettledNode(v, C, r) /\ inst[r] \in Nat
      BY <1>2, <1>3
    <3> QED BY <3>1, <3>2 DEF SettledNode
  <2> QED BY <2>2, <2>3
<1>5. \A i \in Inst : \A st : Right(v, C, i, st) => Chosen(i, st.proposal.value)
  BY <1>2 DEF Right, Decided
<1>6. /\ \A n \in Node : SettledNode(v, C, n)' /\ inst[n] <= inst'[n]
      /\ \A n \in Node : \A i \in Inst :
           storage'[n][i] # storage[n][i] => Chosen(i, storage'[n][i].proposal.value)
  <2>1. CASE UNCHANGED <<inst, storage, stateMachineVars>>
    <3>1. \A n \in Node : inst[n] <= inst'[n] /\ SettledNode(v, C, n)'
      BY <1>2, <1>3, <2>1 DEF SettledNode, stateMachineVars
    <3> QED BY <2>1, <3>1
  <2>2. ASSUME NEW n \in Node, NEW m, NEW k, NEW p, CopiesStates(n, m, k, p)
        PROVE  /\ \A r \in Node : SettledNode(v, C, r)' /\ inst[r] <= inst'[r]
               /\ \A r \in Node : \A i \in Inst :
                    storage'[r][i] # storage[r][i] => Chosen(i, storage'[r][i].proposal.value)
    <3>1. PICK s \in Node : m \in Carried(net, s, n)
      BY <2>2 DEF CopiesStates
    <3>2. /\ m \in LearnReply /\ k \in Nat /\ p \in {k, k + 1}
          /\ p <= Len(NewStates(n, m)) /\ Learned(n, m, p, k)
      BY <2>2 DEF CopiesStates
    <3>3. m.start <= inst[n] /\ RightReply(v, C, m) /\ SettledNode(v, C, n)
      BY <1>2, <3>1, <3>2 DEF AsksFromReached, LearnReply
    <3>4. /\ SettledNode(v, C, n)' /\ OthersKept(n) /\ inst'[n] = inst[n] + k
          /\ \A h \in Inst : storage'[n][h] = storage[n][h] \/ Right(v, C, h, storage'[n][h])
      BY <3>2, <3>3, LearnedRight
    <3>5. inst[n] <= inst'[n]
      BY <1>3, <3>2, <3>4
    <3>6. \A r \in Node : SettledNode(v, C, r)' /\ inst[r] <= inst'[r]
      BY <1>4, <3>4, <3>5
    <3>7. \A r \in Node : \A i \in Inst :
            storage'[r][i] # storage[r][i] => Chosen(i, storage'[r][i].proposal.value)
      BY <1>5, <3>4 DEF OthersKept
    <3> QED BY <3>6, <3>7
  <2>3. ASSUME NEW n \in Node, ~up[n], Restart(n)
        PROVE  /\ \A r \in Node : SettledNode(v, C, r)' /\ inst[r] <= inst'[r]
               /\ \A r \in Node : \A i \in Inst :
                    storage'[r][i] # storage[r][i] => Chosen(i, storage'[r][i].proposal.value)
    <3>1. n \in CrashingNodes /\ SettledNode(v, C, n)
      BY <1>2, <2>3
    <3>2. SettledNode(v, C, n)' /\ OthersKept(n) /\ inst[n] <= inst'[n]
      BY <2>3, <3>1, RestartRight
    <3>3. UNCHANGED storage
      BY <2>3 DEF Restart
    <3> QED BY <1>4, <3>2, <3>3
  <2> QED BY <1>1, <2>1, <2>2, <2>3
<1>7. \A s, r \in Node : \A m \in Carried(net', s, r) : RightReply(v, C, m)
  <2> SUFFICES ASSUME NEW s \in Node, NEW r \in Node, NEW m \in Carried(net', s, r),
                      m.type = "ASK_FOR_LEARN_REPLY", NEW k \in DOMAIN m.states
               PROVE  Right(v, C, m.start + k - 1, m.states[k])
    BY DEF RightReply
  <2>1. CASE m \in Carried(net, s, r)
    BY <1>2, <2>1 DEF RightReply
  <2>2. CASE NewMessage(s, r, m)
    <3>1. Explained(s, r, m)
      BY <2>2, NewMessages
    <3> DEFINE i == m.start + k - 1
    <3>2. i \in Inst /\ i < inst[s] /\ m.states[k] = storage[s][i]
      BY <3>1 DEF Explained, Loaded
    <3> HIDE DEF i
    <3>3. Right(v, C, i, storage[s][i])
      BY <1>2, <3>2 DEF SettledNode, RecordsUpTo
    <3> QED BY <3>2, <3>3 DEF i
  <2> QED BY <2>1, <2>2 DEF NewMessage
<1>8. \A i \in C : Chosen(i, v[i])'
  BY <1>1, <1>2 DEF Chosen
<1>9. \A n \in Node : up'[n] \/ n \in CrashingNodes
  BY <1>1, <1>2
<1>10. Settled(v, C)'
  BY <1>6, <1>7, <1>8, <1>9 DEF Settled, SettledNode, Carried
<1> QED BY <1>6, <1>10
-----------------------------------------------------------------------------
(* The theorems. *)

\* What holds as long as learners catch up.
CatchingUp ==
  /\ TypeOK
  /\ Quiet
  /\ AsksFromReached
  /\ \E v \in [Inst -> Value] : \E C \in SUBSET Inst : Settled(v, C)

LEMMA CatchingUpStep ==
  ASSUME NoProposals, Unparsable = {}, CatchingUp, [Next]_vars
  PROVE  /\ CatchingUp'
         /\ \A n \in Node : \A i \in Inst :
              storage'[n][i] # storage[n][i] => Chosen(i, storage'[n][i].proposal.value)
<1>1. TypeOK'
  BY NextType DEF CatchingUp
<1>2. PICK v \in [Inst -> Value], C \in SUBSET Inst : Settled(v, C)
  BY DEF CatchingUp
<1>3. CASE Next
  <2>1. /\ Settled(v, C)' /\ \A n \in Node : inst[n] <= inst'[n]
        /\ \A n \in Node : \A i \in Inst :
             storage'[n][i] # storage[n][i] => Chosen(i, storage'[n][i].proposal.value)
    BY <1>2, <1>3, SettledStep DEF CatchingUp
  <2>2. Quiet' /\ AsksFromReached'
    BY <1>3, <2>1, QuietStep, AsksStep DEF CatchingUp
  <2> QED BY <1>1, <2>1, <2>2 DEF CatchingUp
<1>4. CASE UNCHANGED vars
  <2>1. Quiet' /\ AsksFromReached'
    BY <1>4 DEF CatchingUp, vars, proposerVars, Quiet, AsksFromReached, Carried
  <2>2. Settled(v, C)'
    <3>1. UNCHANGED <<up, inst, net, storage, smlog, cp, votes>>
      BY <1>4 DEF vars, accepterVars, stateMachineVars
    <3>2. \A i \in C : Chosen(i, v[i])'
      BY <1>2, <3>1 DEF Settled, Chosen
    <3> QED BY <1>2, <3>1, <3>2 DEF Settled, Carried
  <2>3. UNCHANGED storage
    BY <1>4 DEF vars
  <2> QED BY <1>1, <2>1, <2>2, <2>3 DEF CatchingUp
<1> QED BY <1>3, <1>4

LEMMA CatchingUpInit == CatchUpInit => CatchingUp
<1> USE MaxInstAssumption
<1> SUFFICES ASSUME CatchUpInit PROVE CatchingUp
  OBVIOUS
<1>1. PICK learned \in [Node -> InstOrEnd], vals \in [Inst -> Value], old \in Value :
        \E voted, stale \in SUBSET Behind(learned) :
          CatchUpFrom(learned, vals, old, voted, stale)
  BY DEF CatchUpInit
<1>2. PICK voted \in SUBSET Behind(learned), stale \in SUBSET Behind(learned) :
        CatchUpFrom(learned, vals, old, voted, stale)
  BY <1>1
<1> DEFINE Rec(n, i) == FirstRecord(learned, vals, old, voted, stale, n, i)
           Records == {r \in Node \X Inst : Rec(r[1], r[2]) # NoRecord}
           C == {i \in Inst : \E n \in Node : i < learned[n]}
<1>3. \A n \in Node : learned[n] \in Nat /\ learned[n] <= MaxInst + 1
  BY DEF InstOrEnd
<1>4. \A n \in Behind(learned) : learned[n] \in C
  <2>1. TAKE n \in Behind(learned)
  <2>2. n \in Node /\ \E r \in Node : learned[n] < learned[r]
    BY DEF Behind
  <2>3. learned[n] \in Inst
    BY <1>3, <2>2 DEF Inst
  <2> QED BY <2>2, <2>3
<1>5. \A i \in Inst : /\ Decided(i, vals[i]) \in State /\ Earlier(i, old) \in State
                      /\ Decided(i, vals[i]) # NoRecord
  <2>1. TAKE i \in Inst
  <2>2. vals[i] \in AnyValue /\ old \in AnyValue /\ 2 * i + 2 \in Nat /\ 2 * i + 1 \in Nat
    BY DEF AnyValue, Inst
  <2>3. Decided(i, vals[i]) \in State /\ Earlier(i, old) \in State
    BY <2>2 DEF Decided, Earlier, State, Proposal
  <2> QED BY <2>3, NoRecordAssumption
<1>6. \A n \in Node : \A i \in Inst : Rec(n, i) \in State \cup {NoRecord}
  BY <1>5 DEF FirstRecord
<1>7. /\ voted \subseteq Behind(learned) /\ stale \subseteq Behind(learned)
      /\ voted \cap stale = {} /\ stale \cap CrashingNodes = {}
      /\ \A i \in C : Cardinality({n \in Node : Rec(n, i) = Decided(i, vals[i])}) >= GetMajority
      /\ up = [n \in Node |-> TRUE] /\ inst = learned
      /\ net = [s \in Node |-> [r \in Node |-> <<>>]]
      /\ storage = [n \in Node |-> [i \in Inst |-> Rec(n, i)]]
      /\ smlog = [n \in Node |->
                    [k \in 1 .. learned[n] |-> [id |-> k - 1, value |-> vals[k - 1]]]]
      /\ cp = [n \in Node |-> IF learned[n] = 0 THEN 0 ELSE learned[n] - 1]
  BY <1>2 DEF CatchUpFrom
<1>8. /\ breaks = 0 /\ crashes = 0 /\ ContextInit /\ LearnerInit
      /\ prop = [n \in Node |-> [NoRound EXCEPT !.id = 2 * MaxInst + 2]]
      /\ ballot = [n \in Node |-> EmptyBallot]
  BY <1>2 DEF CatchUpFrom
<1>9. /\ promises = {[node |-> r[1], inst |-> r[2], id |-> Rec(r[1], r[2]).promisedId] :
                       r \in Records}
      /\ votes = {[node |-> r[1], inst |-> r[2], id |-> Rec(r[1], r[2]).proposal.id,
                    value |-> Rec(r[1], r[2]).proposal.value] : r \in Records}
  BY <1>2 DEF CatchUpFrom
<1>10. acc \in [Node -> State]
  <2>1. acc = [n \in Node |-> IF n \in voted \cup stale THEN Rec(n, learned[n])
                              ELSE EmptyState]
    BY <1>2 DEF CatchUpFrom
  <2>2. ASSUME NEW n \in Node, n \in voted \cup stale
        PROVE  Rec(n, learned[n]) \in State
    <3>1. learned[n] \in Inst
      BY <1>4, <1>7, <2>2
    <3>2. Rec(n, learned[n]) \in {Decided(learned[n], vals[learned[n]]), Earlier(learned[n], old)}
      BY <1>3, <2>2 DEF FirstRecord
    <3> QED BY <1>5, <3>1, <3>2
  <2> QED BY <2>1, <2>2, EmptyStateType
<1>11. \A r \in Records : /\ r[1] \in Node /\ r[2] \in Inst /\ Rec(r[1], r[2]) \in State
                          /\ r = <<r[1], r[2]>>
  BY <1>6
<1> HIDE DEF Rec
<1>12. promises \in SUBSET Promise /\ votes \in SUBSET Vote
  BY <1>9, <1>11 DEF Promise, Vote, State, Proposal
<1>13. smlog \in [Node -> Seq(Execution)]
  <2>1. ASSUME NEW n \in Node
        PROVE  [k \in 1 .. learned[n] |-> [id |-> k - 1, value |-> vals[k - 1]]]
                 \in Seq(Execution)
    <3>1. \A k \in 1 .. learned[n] : k - 1 \in Inst
      BY <1>3 DEF Inst
    <3>2. \A k \in 1 .. learned[n] : [id |-> k - 1, value |-> vals[k - 1]] \in Execution
      BY <3>1 DEF Execution, AnyValue
    <3> DEFINE l == learned[n]
               log == [k \in 1 .. l |-> [id |-> k - 1, value |-> vals[k - 1]]]
    <3>3. log \in [1 .. l -> Execution] /\ l \in Nat
      BY <1>3, <3>2
    <3> HIDE DEF l, log
    <3>4. log \in Seq(Execution)
      BY <3>3, SeqDef
    <3> QED BY <3>4 DEF log, l
  <2> QED BY <1>7, <2>1
<1>14. cp \in [Node -> Inst]
  BY <1>3, <1>7 DEF Inst
<1>15. TypeOK
  <2>1. RoleTypeOK
    BY <1>7, <1>8, EmptySeq, MaxBreaksAssumption DEF RoleTypeOK
  <2>2. StorageTypeOK
    BY <1>6, <1>7 DEF StorageTypeOK
  <2>3. AccepterTypeOK
    BY <1>10, <1>12 DEF AccepterTypeOK
  <2>4. ContextTypeOK
    BY <1>8 DEF ContextInit, ContextTypeOK, NoCall, Call, NoTimers, Timers, InstOrEnd,
                AnyValue, NotSuccess
  <2>5. ProposerTypeOK
    BY <1>8, EmptyBallotType DEF ProposerTypeOK, NoRound, ProposerState, AnyValue
  <2>6. LearnerTypeOK
    BY <1>8 DEF LearnerInit, LearnerTypeOK, NothingSeen, LearnerState, InstOrEnd
  <2>7. StateMachineTypeOK
    BY <1>13, <1>14 DEF StateMachineTypeOK
  <2>8. crashes \in 0 .. MaxCrashes
    BY <1>8, CrashAssumption
  <2> QED BY <2>1, <2>2, <2>3, <2>4, <2>5, <2>6, <2>7, <2>8 DEF TypeOK
<1>16. \A s, r \in Node : Carried(net, s, r) = {}
  BY <1>7, EmptySeq DEF Carried
<1>17. Quiet /\ AsksFromReached
  BY <1>8, <1>16 DEF Quiet, AsksFromReached, NoRound
<1>18. ASSUME NEW i \in C PROVE Chosen(i, vals[i])
  <2>1. PICK n \in Node : i < learned[n]
    OBVIOUS
  <2> DEFINE vote(r) == [node |-> r, inst |-> i, id |-> 2 * i + 2, value |-> vals[i]]
             A == {r \in Node : Rec(r, i) = Decided(i, vals[i])}
             B == {r \in Node : [vote(n) EXCEPT !.node = r] \in votes}
  <2>2. \A r \in A : vote(r) \in votes
    <3>1. TAKE r \in A
    <3> DEFINE q == <<r, i>>
    <3>2. q \in Records /\ q[1] = r /\ q[2] = i /\ Rec(r, i) = Decided(i, vals[i])
      BY <1>5
    <3> HIDE DEF q, Records
    <3>3. [node |-> q[1], inst |-> q[2], id |-> Rec(q[1], q[2]).proposal.id,
           value |-> Rec(q[1], q[2]).proposal.value] \in votes
      BY <1>9, <3>2
    <3> QED BY <3>2, <3>3 DEF Decided
  <2>3. n \in A
    BY <2>1 DEF Rec, FirstRecord
  <2>4. A \subseteq B
    BY <2>2
  <2>5. IsFiniteSet(B) /\ Cardinality(A) <= Cardinality(B)
    BY <2>4, NodeAssumption, FS_Subset
  <2>6. Cardinality(A) \in Nat /\ Cardinality(B) \in Nat /\ GetMajority \in Nat
    <3>1. IsFiniteSet(A)
      BY <2>4, <2>5, FS_Subset
    <3>2. GetMajority \in Nat
      BY DEF GetMajority, BallotTotal
    <3> HIDE DEF A, B
    <3> QED BY <2>5, <3>1, <3>2, FS_CardinalityType
  <2>7. Cardinality(A) >= GetMajority
    BY <1>7
  <2>8. Cardinality(B) >= GetMajority
    BY <2>5, <2>6, <2>7
  <2>9. vote(n) \in votes /\ vote(n).inst = i /\ vote(n).value = vals[i]
    BY <2>2, <2>3
  <2> QED BY <2>8, <2>9 DEF Chosen
<1>19. ASSUME NEW n \in Node PROVE SettledNode(vals, C, n)
  <2>1. /\ storage[n] = [i \in Inst |-> Rec(n, i)] /\ inst[n] = learned[n]
        /\ smlog[n] = [k \in 1 .. learned[n] |-> [id |-> k - 1, value |-> vals[k - 1]]]
        /\ cp[n] = IF learned[n] = 0 THEN 0 ELSE learned[n] - 1
    BY <1>7
  <2>2. RecordsUpTo(vals, C, storage[n], inst[n])
    <3> SUFFICES ASSUME NEW j \in Inst
                 PROVE  /\ j < learned[n] => Right(vals, C, j, Rec(n, j))
                        /\ j > learned[n] => Rec(n, j) = NoRecord
      BY <2>1 DEF RecordsUpTo
    <3>1. j \in Nat
      BY DEF Inst
    <3> QED BY <1>3, <3>1 DEF Right, Rec, FirstRecord
  <2>3. LogUpTo(vals, smlog[n], cp[n], inst[n])
    <3>1. DOMAIN smlog[n] = 1 .. learned[n]
      BY <2>1
    <3>2. \A k \in 1 .. learned[n] : /\ smlog[n][k].id = k - 1
                                     /\ smlog[n][k].value = vals[k - 1]
                                     /\ k - 1 < learned[n]
      BY <1>3, <2>1
    <3>3. \A j, k \in 1 .. learned[n] : j < k => j - 1 < k - 1
      BY <1>3
    <3> QED BY <2>1, <3>1, <3>2, <3>3 DEF LogUpTo
  <2>4. n \in CrashingNodes => RightOrNone(vals, C, storage[n], inst[n])
    <3> SUFFICES ASSUME n \in CrashingNodes, learned[n] \in Inst
                 PROVE  \/ Rec(n, learned[n]) = NoRecord
                        \/ Right(vals, C, learned[n], Rec(n, learned[n]))
      BY <2>1 DEF RightOrNone
    <3>1. n \notin stale
      BY <1>7
    <3>2. n \in voted => learned[n] \in C
      BY <1>4, <1>7
    <3> QED BY <1>3, <3>1, <3>2 DEF Right, Rec, FirstRecord
  <2> QED BY <2>2, <2>3, <2>4 DEF SettledNode
<1>20. Settled(vals, C)
  BY <1>7, <1>16, <1>18, <1>19 DEF Settled, SettledNode
<1> QED BY <1>15, <1>17, <1>20 DEF CatchingUp

LEMMA AlwaysCatchingUp ==
  NoProposals /\ Unparsable = {} /\ CatchUpSpec =>
    /\ []CatchingUp
    /\ CopiesOnlyChosen
<1> SUFFICES ASSUME NoProposals, Unparsable = {}
             PROVE  CatchUpSpec => []CatchingUp /\ CopiesOnlyChosen
  OBVIOUS
<1> DEFINE Justified == \A n \in Node : \A i \in Inst :
             storage'[n][i] # storage[n][i] => Chosen(i, storage'[n][i].proposal.value)
<1>1. CatchingUp /\ [Next]_vars => CatchingUp' /\ Justified
  BY CatchingUpStep
<1>2. Justified => [Justified]_vars
  OBVIOUS
<1> HIDE DEF Justified
<1>3. CatchUpSpec => []CatchingUp /\ [][Justified]_vars
  BY <1>1, <1>2, CatchingUpInit, PTL DEF CatchUpSpec
<1> QED BY <1>3 DEF CopiesOnlyChosen, Justified

\* What has been executed when the nodes catch up: in instance i, the value v[i].
LEMMA SettledLogs ==
  ASSUME CatchingUp
  PROVE  \E v \in [Inst -> Value] : \A n \in Node :
           /\ \A k \in DOMAIN smlog[n] : /\ smlog[n][k].value = v[smlog[n][k].id]
                                         /\ Chosen(smlog[n][k].id, smlog[n][k].value)
           /\ \A j, k \in DOMAIN smlog[n] : j < k => smlog[n][j].id < smlog[n][k].id
<1>1. PICK v \in [Inst -> Value], C \in SUBSET Inst : Settled(v, C)
  BY DEF CatchingUp
<1>2. ASSUME NEW n \in Node
      PROVE  /\ \A k \in DOMAIN smlog[n] : /\ smlog[n][k].value = v[smlog[n][k].id]
                                           /\ Chosen(smlog[n][k].id, smlog[n][k].value)
             /\ \A j, k \in DOMAIN smlog[n] : j < k => smlog[n][j].id < smlog[n][k].id
  <2>1. RecordsUpTo(v, C, storage[n], inst[n]) /\ LogUpTo(v, smlog[n], cp[n], inst[n])
    BY <1>1 DEF Settled
  <2>2. ASSUME NEW k \in DOMAIN smlog[n] PROVE smlog[n][k].id \in Inst
    <3>1. smlog[n] \in Seq(Execution)
      BY DEF CatchingUp, TypeOK, StateMachineTypeOK
    <3>2. smlog[n][k] \in Execution
      BY <3>1, ElementOfSeq, LenProperties
    <3> QED BY <3>2 DEF Execution
  <2>3. ASSUME NEW k \in DOMAIN smlog[n]
        PROVE  /\ smlog[n][k].value = v[smlog[n][k].id]
               /\ Chosen(smlog[n][k].id, smlog[n][k].value)
    <3> DEFINE i == smlog[n][k].id
    <3>1. i \in Inst /\ i < inst[n] /\ smlog[n][k].value = v[i]
      BY <2>1, <2>2 DEF LogUpTo
    <3> HIDE DEF i
    <3>2. i \in C /\ Chosen(i, v[i])
      BY <1>1, <2>1, <3>1 DEF RecordsUpTo, Right, Settled
    <3> QED BY <3>1, <3>2 DEF i
  <2> QED BY <2>1, <2>3 DEF LogUpTo
<1> QED BY <1>2

\* Learners that catch up keep every variable in its type: no copied record, no
\* replayed value and no instance id lies beyond the last instance.
THEOREM CatchUpTypeCorrect == NoProposals /\ Unparsable = {} /\ CatchUpSpec => []TypeOK
<1>1. CatchingUp => TypeOK
  BY DEF CatchingUp
<1> QED BY <1>1, AlwaysCatchingUp, PTL

\* Learners that catch up (OnAskForLearnReply), crash between persisting a copied
\* record and executing it, and replay it when they restart (Init), execute in
\* each instance the value all others do.
THEOREM CatchUpAgreement == NoProposals /\ Unparsable = {} /\ CatchUpSpec => []Agreement
<1>1. CatchingUp => Agreement
  <2> SUFFICES ASSUME CatchingUp PROVE Agreement
    OBVIOUS
  <2>1. PICK v \in [Inst -> Value] : \A n \in Node : \A k \in DOMAIN smlog[n] :
               smlog[n][k].value = v[smlog[n][k].id]
    BY SettledLogs
  <2> QED BY <2>1 DEF Agreement, Entries
<1> QED BY <1>1, AlwaysCatchingUp, PTL

\* None of them executes an instance again: neither a record it has already nor
\* the one that Init replays.
THEOREM CatchUpNoReexecution ==
  NoProposals /\ Unparsable = {} /\ CatchUpSpec => []NoReexecution
<1>1. CatchingUp => NoReexecution
  BY SettledLogs DEF NoReexecution
<1> QED BY <1>1, AlwaysCatchingUp, PTL

\* What they execute was chosen, though a node that restarts takes its last
\* record for decided.
THEOREM CatchUpExecutesChosen ==
  NoProposals /\ Unparsable = {} /\ CatchUpSpec => []ExecutedIsChosen
<1>1. CatchingUp => ExecutedIsChosen
  BY SettledLogs DEF ExecutedIsChosen, Entries
<1> QED BY <1>1, AlwaysCatchingUp, PTL

\* A record changes only into one with a value that a majority accepted.
THEOREM CatchUpCopiesOnlyChosen ==
  NoProposals /\ Unparsable = {} /\ CatchUpSpec => CopiesOnlyChosen
  BY AlwaysCatchingUp

\* Also if it crashes and restarts, a learner neither asks for nor is sent
\* records from an instance on that it has not reached.
THEOREM CatchUpAsksFromReached ==
  NoProposals /\ Unparsable = {} /\ CatchUpSpec => []AsksFromReached
<1>1. CatchingUp => AsksFromReached
  BY DEF CatchingUp
<1> QED BY <1>1, AlwaysCatchingUp, PTL

LEMMA CatchingUpFilled == CatchingUp => Filled
<1> SUFFICES ASSUME CatchingUp, NEW n \in Node, NEW i \in Inst, i < inst[n]
             PROVE  storage[n][i] # NoRecord
  BY DEF Filled
<1>1. PICK v \in [Inst -> Value], C \in SUBSET Inst : Settled(v, C)
  BY DEF CatchingUp
<1>2. storage[n][i] = Decided(i, v[i])
  BY <1>1 DEF Settled, RecordsUpTo, Right
<1>3. v[i] \in AnyValue /\ 2 * i + 2 \in Nat
  BY MaxInstAssumption DEF AnyValue, Inst
<1>4. Decided(i, v[i]) \in State
  BY <1>3 DEF Decided, State, Proposal
<1> QED BY <1>2, <1>4, NoRecordAssumption

\* Without faults, a learner waits for a reply only as long as its question or
\* the reply is on its way, so that it goes on asking (`asking').
THEOREM CatchUpAskIsAnswered ==
  /\ MaxCrashes = 0 /\ MaxBreaks = 0 /\ MayFail = {}
  /\ NoProposals /\ Unparsable = {}
  /\ CatchUpSpec
  => []AskIsAnswered
<1> SUFFICES ASSUME MaxCrashes = 0, MaxBreaks = 0, MayFail = {}, NoProposals, Unparsable = {}
             PROVE  CatchUpSpec => []AskIsAnswered
  OBVIOUS
<1>1. CatchUpInit => NoCrash /\ AskIsAnswered
  BY DEF CatchUpInit, CatchUpFrom, LearnerInit, NothingSeen, NoCrash, AskIsAnswered
<1>2. CatchingUp /\ NoCrash /\ AskIsAnswered /\ [Next]_vars => NoCrash' /\ AskIsAnswered'
  <2> SUFFICES ASSUME CatchingUp, NoCrash, AskIsAnswered, [Next]_vars
               PROVE  NoCrash' /\ AskIsAnswered'
    OBVIOUS
  <2>1. TypeOK /\ Filled
    BY CatchingUpFilled DEF CatchingUp
  <2>2. NoCrash'
    <3>1. CASE UNCHANGED vars
      BY <3>1 DEF vars, NoCrash
    <3> QED BY <2>1, <3>1, NoCrashStep
  <2> QED BY <2>1, <2>2, AskIsAnsweredStep
<1>3. NoProposals /\ Unparsable = {}
  OBVIOUS
<1> QED BY <1>1, <1>2, <1>3, AlwaysCatchingUp, PTL DEF CatchUpSpec
-----------------------------------------------------------------------------
(* A client that calls Propose access by access (ProposeCall). *)

\* What a step of the client leaves alone: everything but its own node's context
\* and proposer; and it sends PREPARE only.
LEMMA CallStepEffect ==
  ASSUME CallTypeOK, NEW n \in Node, CallStep(n)
  PROVE  /\ CallTypeOK'
         /\ UNCHANGED <<up, inst, storage, acc, promises, votes, smlog, cp>>
         /\ \A a, b \in Node : \A m : NewMessage(a, b, m) => m.type = "PREPARE"
<1>1. TypeOK /\ pc \in [Node -> Steps] /\ read \in [Node -> InstOrEnd]
  BY DEF CallTypeOK
<1>2. UNCHANGED <<up, inst, storage, acc, promises, votes, smlog, cp, breaks, lrn, crashes>>
  BY DEF CallStep, accepterVars, stateMachineVars
<1>3. CASE pc[n] = "none" /\ (Wait(n) \/ Wakeup(n) \/ Return(n))
           /\ UNCHANGED <<net, callVars, proposerVars>>
  <2>1. ClientStep(n)
    BY <1>3 DEF ClientStep, CallStep
  <2>2. TypeOK'
    BY <1>1, <2>1, ClientStepType
  <2> QED BY <1>1, <1>2, <1>3, <2>2 DEF CallTypeOK, callVars, NewMessage
<1>4. ASSUME net' \in Network, ctx' \in [Node -> Call], timers' \in [Node -> Timers],
             prop' \in [Node -> ProposerState], ballot' \in [Node -> BallotState],
             pc' \in [Node -> Steps], read' \in [Node -> InstOrEnd]
      PROVE  CallTypeOK'
  BY <1>1, <1>2, <1>4
  DEF CallTypeOK, TypeOK, RoleTypeOK, Network, StorageTypeOK, AccepterTypeOK, ContextTypeOK,
      ProposerTypeOK, LearnerTypeOK, StateMachineTypeOK
<1>5. /\ net \in Network /\ ctx \in [Node -> Call] /\ timers \in [Node -> Timers]
      /\ prop \in [Node -> ProposerState] /\ ballot \in [Node -> BallotState]
      /\ inst \in [Node -> InstOrEnd]
  BY <1>1 DEF TypeOK, RoleTypeOK, Network, ContextTypeOK, ProposerTypeOK
<1>6. ASSUME NEW from, NEW to \in Steps, At(n, from, to) PROVE pc' \in [Node -> Steps]
  BY <1>1, <1>6 DEF At
<1>7. CASE UNCHANGED net /\ CallTypeOK'
  BY <1>2, <1>7 DEF NewMessage
<1>8. CASE ReadId(n) \/ MakeMessage(n)
  <2>1. /\ UNCHANGED <<net, ctx, timers, prop, ballot>>
        /\ read' \in [Node -> InstOrEnd] /\ pc' \in [Node -> Steps]
    BY <1>1, <1>5, <1>6, <1>8 DEF ReadId, MakeMessage, proposerVars, Steps
  <2> QED BY <1>4, <1>5, <1>7, <2>1
<1>9. CASE \E v \in Value : ResetContext(n, v)
  <2>1. PICK v \in Value : ResetContext(n, v)
    BY <1>9
  <2>2. Reset(ctx[n], read[n], v) \in Call
    BY <1>1, <1>5 DEF Reset, Call, AnyValue
  <2>3. /\ UNCHANGED <<net, read, timers, prop, ballot>>
        /\ ctx' \in [Node -> Call] /\ pc' \in [Node -> Steps]
    BY <1>1, <1>5, <1>6, <2>1, <2>2 DEF ResetContext, proposerVars, Steps
  <2> QED BY <1>1, <1>4, <1>5, <1>7, <2>3
<1>10. CASE SetTimeout(n)
  <2>1. AddTimeout(timers[n]) \in Timers
    BY <1>5, TimersType
  <2>2. /\ UNCHANGED <<net, read, ctx, prop, ballot>>
        /\ timers' \in [Node -> Timers] /\ pc' \in [Node -> Steps]
    BY <1>1, <1>5, <1>6, <1>10, <2>1 DEF SetTimeout, proposerVars, Steps
  <2> QED BY <1>1, <1>4, <1>5, <1>7, <2>2
<1>11. CASE Respawn(n) \/ SetStage(n) \/ SetProposal(n)
  <2>1. \A id \in RespawnProposalId(n) : id \in Nat
    BY IdAssumption DEF RespawnProposalId
  <2>2. ctx[n].value \in AnyValue
    BY <1>5 DEF Call
  <2>3. prop' \in [Node -> ProposerState]
    BY <1>5, <1>11, <2>1, <2>2 DEF Respawn, SetStage, SetProposal, ProposerState
  <2>4. UNCHANGED <<net, read, ctx, timers, ballot>> /\ pc' \in [Node -> Steps]
    BY <1>6, <1>11 DEF Respawn, SetStage, SetProposal, Steps
  <2> QED BY <1>1, <1>4, <1>5, <1>7, <2>3, <2>4
<1>12. CASE ResetBallot(n)
  <2>1. ballot' \in [Node -> BallotState]
    BY <1>5, <1>12, EmptyBallotType DEF ResetBallot
  <2>2. UNCHANGED <<net, read, ctx, timers, prop>> /\ pc' \in [Node -> Steps]
    BY <1>6, <1>12 DEF ResetBallot, Steps
  <2> QED BY <1>1, <1>4, <1>5, <1>7, <2>1, <2>2
<1>13. CASE SendPrepare(n)
  <2> DEFINE prepare == [type |-> "PREPARE", inst |-> read[n], id |-> prop[n].id]
  <2>1. UNCHANGED <<read, ctx, timers, prop, ballot>> /\ pc' \in [Node -> Steps]
    BY <1>6, <1>13 DEF SendPrepare, proposerVars, Steps
  <2>2. CASE net' = net
    BY <1>1, <1>4, <1>5, <1>7, <2>1, <2>2
  <2>3. CASE ~(read[n] > MaxInst) /\ net' = Broadcast(net, n, prepare)
    <3>1. read[n] \in Inst /\ prop[n].id \in Nat
      BY <1>1, <1>5, <2>3, MaxInstAssumption DEF InstOrEnd, Inst, ProposerState
    <3>2. prepare \in Message /\ prepare.type = "PREPARE"
      BY <3>1, InstanceMessages
    <3> HIDE DEF prepare
    <3>3. net' \in Network
      BY <1>5, <2>3, <3>2, BroadcastType
    <3>4. \A a, b \in Node : \A m : NewMessage(a, b, m) => m.type = "PREPARE"
      BY <1>5, <2>3, <3>2, OnlyBroadcast
    <3> QED BY <1>1, <1>2, <1>4, <1>5, <2>1, <3>3, <3>4
  <2> QED BY <1>13, <2>2, <2>3 DEF SendPrepare
<1> QED
  BY <1>3, <1>8, <1>9, <1>10, <1>11, <1>12, <1>13 DEF CallStep

\* Every other step is one of the group.
LEMMA CallNextIs ==
  ASSUME [CallNext]_<<vars, callVars>>
  PROVE  \/ \E n \in Node : CallStep(n)
         \/ Next /\ UNCHANGED callVars
         \/ UNCHANGED vars /\ UNCHANGED callVars
  BY DEF CallNext, Next

LEMMA CallTypeStep == CallTypeOK /\ [CallNext]_<<vars, callVars>> => CallTypeOK'
<1> SUFFICES ASSUME CallTypeOK, [CallNext]_<<vars, callVars>> PROVE CallTypeOK'
  OBVIOUS
<1>1. CASE \E n \in Node : CallStep(n)
  BY <1>1, CallStepEffect
<1>2. CASE [Next]_vars /\ UNCHANGED callVars
  BY <1>2, NextType DEF CallTypeOK, callVars
<1> QED BY <1>1, <1>2, CallNextIs

\* Whatever the event loop does between two accesses of the client, every
\* variable stays in its type: Propose reads the instance id again for its
\* message, and may find one after the last.
THEOREM CallTypeCorrect == CallSpec => []CallTypeOK
<1>1. CallInit => CallTypeOK
  BY InitType, MaxInstAssumption DEF CallInit, CallTypeOK, Steps, InstOrEnd
<1> QED BY <1>1, CallTypeStep, PTL DEF CallSpec

\* A client is told Ok only if its node has executed its value in its instance,
\* also where the event loop commits results or answers messages between two
\* accesses of Propose.
THEOREM CallResultSound == ~SpuriousWakeups /\ CallSpec => []ResultSound
<1> SUFFICES ASSUME ~SpuriousWakeups PROVE CallSpec => []ResultSound
  OBVIOUS
<1>1. CallInit => ResultSound
  BY DEF CallInit, Init, ContextInit, NoCall, ResultSound
<1>2. CallTypeOK /\ ResultSound /\ [CallNext]_<<vars, callVars>> => ResultSound'
  <2> SUFFICES ASSUME CallTypeOK, ResultSound, [CallNext]_<<vars, callVars>>,
                      NEW r \in Node, ToldOk(r)'
               PROVE  [id |-> ctx'[r].id, value |-> ctx'[r].value] \in Entries(r)'
    BY DEF ResultSound, ToldOk
  <2>1. ASSUME ToldOk(r), ctx'[r] = ctx[r], Entries(r) \subseteq Entries(r)'
        PROVE  [id |-> ctx'[r].id, value |-> ctx'[r].value] \in Entries(r)'
    <3>1. [id |-> ctx[r].id, value |-> ctx[r].value] \in Entries(r)
      BY <2>1 DEF ResultSound, ToldOk
    <3> QED BY <2>1, <3>1
  <2>2. CASE Next
    <3>1. TypeOK
      BY DEF CallTypeOK
    <3>2. Entries(r) \subseteq Entries(r)'
      BY <2>2, <3>1, EntriesGrow
    <3> QED BY <2>1, <2>2, <3>1, <3>2, ToldOkStep
  <2>3. CASE UNCHANGED vars
    BY <2>1, <2>3 DEF vars, contextVars, stateMachineVars, ToldOk, Entries
  <2>4. ASSUME NEW n \in Node, CallStep(n)
        PROVE  [id |-> ctx'[r].id, value |-> ctx'[r].value] \in Entries(r)'
    <3>1. ctx \in [Node -> Call]
      BY DEF CallTypeOK, TypeOK, ContextTypeOK
    <3>2. \/ UNCHANGED ctx
          \/ \E v \in Value : ctx' = [ctx EXCEPT ![n] = Reset(ctx[n], read[n], v)]
          \/ \E state \in {"waiting", "idle"} : ctx' = [ctx EXCEPT ![n].state = state]
      BY <2>4, <3>1
      DEF CallStep, ReadId, ResetContext, SetTimeout, Respawn, SetStage, SetProposal,
          MakeMessage, ResetBallot, SendPrepare, Wait, Wakeup, Return
    <3>3. ctx'[r] = ctx[r]
      BY <3>1, <3>2 DEF ToldOk, Reset, Call
    <3>4. UNCHANGED smlog
      BY <2>4, CallStepEffect
    <3> QED BY <2>1, <3>3, <3>4 DEF ToldOk, Entries
  <2> QED BY <2>2, <2>3, <2>4, CallNextIs
<1> QED BY <1>1, <1>2, CallTypeCorrect, PTL DEF CallSpec

\* The accepters and learners, to whom a client's step is a PREPARE at most.
Undisturbed ==
  /\ CallTypeOK /\ NoCrash /\ AsksFromReached
  /\ PromiseKept /\ InOrder

LEMMA UndisturbedStep ==
  ASSUME MaxCrashes = 0, Undisturbed, [CallNext]_<<vars, callVars>>
  PROVE  Undisturbed'
<1>1. CallTypeOK' /\ TypeOK
  BY CallTypeStep DEF Undisturbed, CallTypeOK
<1>2. CASE Next
  <2>1. \A n \in Node : ~Restart(n)
    BY <1>1 DEF Undisturbed, NoCrash, Restart, TypeOK
  <2>2. PromiseKept'
    BY <1>1, <1>2, <2>1, PromiseKeptStep DEF Undisturbed
  <2> QED BY <1>1, <1>2, <2>2, NoCrashStep, AsksFromReachedStep, InOrderStep DEF Undisturbed
<1>3. ASSUME UNCHANGED <<up, inst, acc, promises, smlog>>,
             \A a, b \in Node : \A m : NewMessage(a, b, m) => m.type = "PREPARE"
      PROVE  Undisturbed'
  <2>1. AsksFromReached'
    BY <1>3 DEF Undisturbed, AsksFromReached, NewMessage, Carried
  <2> QED BY <1>1, <1>3, <2>1 DEF Undisturbed, NoCrash, PromiseKept, Knows, InOrder
<1>4. CASE \E n \in Node : CallStep(n)
  BY <1>3, <1>4, CallStepEffect DEF Undisturbed
<1>5. CASE UNCHANGED vars
  BY <1>3, <1>5 DEF vars, accepterVars, stateMachineVars, NewMessage
<1> QED BY <1>2, <1>4, <1>5, CallNextIs

LEMMA AlwaysUndisturbed == MaxCrashes = 0 /\ CallSpec => []Undisturbed
<1> SUFFICES ASSUME MaxCrashes = 0 PROVE CallSpec => []Undisturbed
  OBVIOUS
<1>1. CallInit => Undisturbed
  <2> SUFFICES ASSUME CallInit PROVE Undisturbed
    OBVIOUS
  <2>1. CallTypeOK
    BY InitType, MaxInstAssumption DEF CallInit, CallTypeOK, Steps, InstOrEnd
  <2>2. NoCrash /\ AsksFromReached
    BY EmptySeq DEF CallInit, Init, RoleInit, NoCrash, AsksFromReached, Carried
  <2>3. PromiseKept
    BY DEF CallInit, Init, AccepterInit, PromiseKept, Knows
  <2>4. InOrder
    BY EmptySeq DEF CallInit, Init, RoleInit, StateMachineInit, InOrder
  <2> QED BY <2>1, <2>2, <2>3, <2>4 DEF Undisturbed
<1>2. Undisturbed /\ [CallNext]_<<vars, callVars>> => Undisturbed'
  BY UndisturbedStep
<1> QED BY <1>1, <1>2, PTL DEF CallSpec

\* An accepter keeps its promises although a proposer, between two accesses of
\* Propose, can ask it to accept the value of one proposal under the number of
\* the next: OnAccept compares the number only.
THEOREM CallAcceptRespectsPromise == MaxCrashes = 0 /\ CallSpec => AcceptRespectsPromise
<1> SUFFICES ASSUME MaxCrashes = 0 PROVE CallSpec => AcceptRespectsPromise
  OBVIOUS
<1> DEFINE Respected == \A v \in votes' \ votes : \A p \in promises :
                          p.node = v.node /\ p.inst = v.inst => p.id <= v.id
<1>1. Undisturbed /\ [CallNext]_<<vars, callVars>> => [Respected]_vars
  <2> SUFFICES ASSUME Undisturbed, [CallNext]_<<vars, callVars>>,
                      ~UNCHANGED vars
               PROVE  Respected
    OBVIOUS
  <2>1. TypeOK /\ PromiseKept
    BY DEF Undisturbed, CallTypeOK
  <2>2. CASE \E n \in Node : CallStep(n)
    BY <2>2, CallStepEffect DEF Undisturbed
  <2>3. CASE Next
    BY <2>1, <2>3, NewVoteKeepsPromise
  <2> QED BY <2>2, <2>3, CallNextIs
<1> HIDE DEF Respected
<1>2. CallSpec => [][Respected]_vars
  BY <1>1, AlwaysUndisturbed, PTL DEF CallSpec
<1> QED BY <1>2 DEF AcceptRespectsPromise, Respected

\* State machines execute the instances in order, with no gap and none twice,
\* whatever their clients are in the middle of.
THEOREM CallExecutesInOrder ==
  MaxCrashes = 0 /\ CallSpec => [](ExecutesInOrder /\ NoReexecution)
<1>1. Undisturbed => ExecutesInOrder /\ NoReexecution
  <2>1. Undisturbed => TypeOK /\ InOrder
    BY DEF Undisturbed, CallTypeOK
  <2> QED BY <2>1, InOrderOnce DEF InOrder, ExecutesInOrder
<1> QED BY <1>1, AlwaysUndisturbed, PTL

\* The accepters write ahead, and a catch-up reply carries what its sender has
\* executed.
THEOREM CallCatchUpFaithful ==
  MaxCrashes = 0 /\ MayFail = {} /\ CallSpec => [](WriteAhead /\ CatchUpFaithful)
<1> SUFFICES ASSUME MaxCrashes = 0, MayFail = {}
             PROVE  CallSpec => [](WriteAhead /\ CatchUpFaithful)
  OBVIOUS
<1> DEFINE Faithful == Synced /\ StoredExecuted /\ CatchUpFaithful
<1>1. CallInit => Faithful
  BY CopiesInit DEF CallInit
<1>2. Undisturbed /\ Faithful /\ [CallNext]_<<vars, callVars>> => Faithful'
  <2> SUFFICES ASSUME Undisturbed, Faithful, [CallNext]_<<vars, callVars>>
               PROVE  Faithful'
    OBVIOUS
  <2>1. TypeOK /\ NoCrash /\ AsksFromReached
    BY DEF Undisturbed, CallTypeOK
  <2>2. CASE [Next]_vars
    BY <2>1, <2>2, CopiesStep
  <2>3. CASE \E n \in Node : CallStep(n)
    <3>1. /\ UNCHANGED <<up, inst, storage, acc, smlog>>
          /\ \A a, b \in Node : \A m : NewMessage(a, b, m) => m.type = "PREPARE"
      BY <2>3, CallStepEffect DEF Undisturbed
    <3>2. Synced' /\ StoredExecuted'
      BY <3>1 DEF Synced, UpToStorage, NothingAhead, StoredExecuted, Entries
    <3>3. ASSUME NEW a \in Node, NEW b \in Node, NEW j \in DOMAIN net'[a][b],
                 net'[a][b][j].type = "ASK_FOR_LEARN_REPLY"
          PROVE  \E h \in DOMAIN net[a][b] : net[a][b][h] = net'[a][b][j]
      BY <3>1, <3>3 DEF NewMessage, Carried
    <3>4. CatchUpFaithful'
      <4> SUFFICES ASSUME NEW a \in Node, NEW b \in Node, NEW j \in DOMAIN net'[a][b],
                          net'[a][b][j].type = "ASK_FOR_LEARN_REPLY",
                          NEW k \in DOMAIN net'[a][b][j].states
                   PROVE  [id |-> net'[a][b][j].start + k - 1,
                           value |-> net'[a][b][j].states[k].proposal.value] \in Entries(a)'
        BY DEF CatchUpFaithful
      <4>1. PICK h \in DOMAIN net[a][b] : net[a][b][h] = net'[a][b][j]
        BY <3>3
      <4>2. Entries(a)' = Entries(a)
        BY <3>1 DEF Entries
      <4> QED BY <4>1, <4>2 DEF CatchUpFaithful
    <3> QED BY <3>2, <3>4
  <2> QED BY <2>2, <2>3, CallNextIs
<1>3. Synced => WriteAhead
  BY DEF Synced, UpToStorage, WriteAhead
<1> QED BY <1>1, <1>2, <1>3, AlwaysUndisturbed, PTL DEF CallSpec
=============================================================================
