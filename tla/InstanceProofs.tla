--------------------------- MODULE InstanceProofs ---------------------------
(***************************************************************************)
(* Proofs about a group: every step keeps its variables typed, and the     *)
(* safety properties hold for any configuration and any number of faults   *)
(* or, where the theorem says so, without crashes.                         *)
(***************************************************************************)
EXTENDS InstanceProperties, TLAPS, SequenceTheorems, FiniteSetTheorems

Network == [Node -> [Node -> Seq(Message)]]
-----------------------------------------------------------------------------
(* Sets of numbers and sequences. *)

\* A finite nonempty set of numbers has a maximum: the last key of the store
\* and the last value that could be parsed exist.
LEMMA MaximumExists ==
  ASSUME NEW S \in SUBSET Nat, S # {}, IsFiniteSet(S)
  PROVE  \E i \in S : \A j \in S : j <= i
<1> DEFINE Above(i) == {j \in S : j > i}
<1> DEFINE T == {Above(i) : i \in S}
<1>1. PICK x \in T : \A y \in T : ~ (<<y, x>> \in StrictSubsetOrdering(S))
  <2>1. T \subseteq SUBSET S /\ T # {}
    OBVIOUS
  <2>2. IsWellFoundedOn(StrictSubsetOrdering(S), SUBSET S)
    BY FS_StrictSubsetOrderingWellFounded, FS_FiniteSubsetsOfFinite
  <2> HIDE DEF T
  <2> QED BY <2>1, <2>2, WFMin
<1>2. PICK i \in S : x = Above(i)
  OBVIOUS
<1>3. ASSUME NEW j \in S, j > i
      PROVE  FALSE
  <2>1. Above(j) \in T
    OBVIOUS
  <2>2. Above(j) \subseteq x /\ Above(j) # x
    <3>1. i \in Nat /\ \A k \in S : k \in Nat
      OBVIOUS
    <3>2. \A k \in Above(j) : k \in S /\ k > i
      BY <1>3, <3>1
    <3>3. j \in x /\ j \notin Above(j)
      BY <1>2, <1>3, <3>1
    <3> QED BY <1>2, <3>2, <3>3
  <2>3. <<Above(j), x>> \in StrictSubsetOrdering(S)
    BY <1>2, <2>2 DEF StrictSubsetOrdering
  <2> QED BY <1>1, <2>1, <2>3
<1> QED BY <1>3

\* The suffix of a sequence from a place on.
LEMMA SuffixProperties ==
  ASSUME NEW S, NEW s \in Seq(S), NEW k \in Nat
  PROVE  LET t == SubSeq(s, k + 1, Len(s)) IN
         /\ t \in Seq(S)
         /\ Len(t) = IF k < Len(s) THEN Len(s) - k ELSE 0
         /\ \A j \in 1 .. Len(t) : t[j] = s[k + j]
<1>1. Len(s) \in Nat /\ \A i \in 1 .. Len(s) : s[i] \in S
  BY LenProperties, ElementOfSeq
<1>2. \A i \in (k + 1) .. Len(s) : s[i] \in S
  BY <1>1
<1> DEFINE t == SubSeq(s, k + 1, Len(s))
<1>3. /\ t \in Seq(S)
      /\ Len(t) = IF k + 1 <= Len(s) THEN Len(s) - (k + 1) + 1 ELSE 0
      /\ \A i \in 1 .. Len(s) - (k + 1) + 1 : t[i] = s[(k + 1) + i - 1]
  BY <1>1, <1>2, SubSeqProperties
<1> HIDE DEF t
<1>4. Len(t) = IF k < Len(s) THEN Len(s) - k ELSE 0
  BY <1>1, <1>3
<1>5. \A j \in 1 .. Len(t) : t[j] = s[k + j]
  BY <1>1, <1>3, <1>4
<1> QED BY <1>3, <1>4, <1>5 DEF t
-----------------------------------------------------------------------------
(* Messages. *)

\* What a receiver may assume of the fields of a message.
LEMMA MessageFields ==
  ASSUME NEW m \in Message
  PROVE  /\ HasInstance(m) => m.inst \in Inst
         /\ m.type = "PREPARE" => m.id \in Nat
         /\ m.type = "PROMISED" => m.accepted \in BOOLEAN /\ m.proposal \in Proposal
         /\ m.type = "ACCEPT" => m.proposal \in Proposal
         /\ m.type \in {"ASK_FOR_INSTANCE_ID", "ASK_FOR_INSTANCE_ID_REPLY"} =>
              m.my \in InstOrEnd
         /\ m.type = "ASK_FOR_LEARN" => m.from \in InstOrEnd
         /\ m.type = "ASK_FOR_LEARN_REPLY" => m \in LearnReply
  BY DEF Message, HasInstance, LearnReply

\* The messages that carry an instance.
LEMMA InstanceMessages ==
  ASSUME NEW i \in Inst
  PROVE  /\ \A id \in Nat : [type |-> "PREPARE", inst |-> i, id |-> id] \in Message
         /\ \A b \in BOOLEAN, p \in Proposal :
              [type |-> "PROMISED", inst |-> i, accepted |-> b, proposal |-> p] \in Message
         /\ \A p \in Proposal : [type |-> "ACCEPT", inst |-> i, proposal |-> p] \in Message
         /\ [type |-> "REJECT_PROMISE", inst |-> i] \in Message
         /\ [type |-> "ACCEPTED", inst |-> i] \in Message
         /\ [type |-> "REJECT_ACCEPT", inst |-> i] \in Message
         /\ [type |-> "LEARN", inst |-> i] \in Message
  BY DEF Message

\* The messages by which learners catch up.
LEMMA LearnerMessages ==
  ASSUME NEW i \in InstOrEnd
  PROVE  /\ [type |-> "ASK_FOR_INSTANCE_ID", my |-> i] \in Message
         /\ [type |-> "ASK_FOR_INSTANCE_ID_REPLY", my |-> i] \in Message
         /\ [type |-> "ASK_FOR_LEARN", from |-> i] \in Message
  BY DEF Message

LEMMA SendType ==
  ASSUME NEW nt \in Network, NEW n \in Node, NEW dests, NEW m \in Message
  PROVE  Send(nt, n, dests, m) \in Network
<1>1. \A r \in Node : nt[n][r] \in Seq(Message) /\ Append(nt[n][r], m) \in Seq(Message)
  BY AppendProperties DEF Network
<1> QED BY <1>1 DEF Send, Network

LEMMA SendMessageToType ==
  ASSUME NEW nt \in Network, NEW n \in Node, NEW r, NEW m \in Message
  PROVE  SendMessageTo(nt, n, r, m) \in Network
  BY SendType DEF SendMessageTo

LEMMA BroadcastType ==
  ASSUME NEW nt \in Network, NEW n \in Node, NEW m \in Message
  PROVE  Broadcast(nt, n, m) \in Network
  BY SendType DEF Broadcast

LEMMA ReceivedType ==
  ASSUME net \in Network, NEW s \in Node, NEW n \in Node, net[s][n] # <<>>
  PROVE  Received(s, n) \in Network /\ Head(net[s][n]) \in Message
<1>1. net[s][n] \in Seq(Message)
  BY DEF Network
<1>2. Head(net[s][n]) \in Message /\ Tail(net[s][n]) \in Seq(Message)
  BY <1>1, HeadTailProperties
<1> QED BY <1>2 DEF Received, Network
-----------------------------------------------------------------------------
(* The storage and the state machine. *)

LEMMA EmptyStateType == EmptyState \in State /\ NoProposal \in Proposal
  BY DEF EmptyState, State, NoProposal, Proposal, AnyValue

\* The last record of a node is in one of the instances, and can be loaded.
LEMMA LastRecordType ==
  ASSUME StorageTypeOK, NEW n \in Node
  PROVE  /\ GetMaxInstanceId(n) \in Inst
         /\ LoadLastState(n) \in State
<1> USE MaxInstAssumption
<1>1. GetMaxInstanceId(n) \in Inst
  <2>1. CASE Recorded(n) = {}
    BY <2>1 DEF GetMaxInstanceId, Inst
  <2>2. CASE Recorded(n) # {}
    <3>1. Recorded(n) \subseteq Inst /\ Inst \subseteq Nat
      BY DEF Recorded, Inst
    <3>2. IsFiniteSet(Inst)
      BY FS_Interval DEF Inst
    <3>3. IsFiniteSet(Recorded(n))
      BY <3>1, <3>2, FS_Subset
    <3>4. \E i \in Recorded(n) : \A j \in Recorded(n) : j <= i
      BY <2>2, <3>1, <3>3, MaximumExists
    <3> QED BY <2>2, <3>1, <3>4 DEF GetMaxInstanceId
  <2> QED BY <2>1, <2>2
<1>2. storage[n][GetMaxInstanceId(n)] \in State \cup {NoRecord}
  BY <1>1 DEF StorageTypeOK
<1> QED BY <1>1, <1>2, EmptyStateType DEF LoadLastState

LEMMA PersistType ==
  ASSUME StorageTypeOK, NEW n \in Node, NEW i \in Inst, NEW st \in State, Persist(n, i, st)
  PROVE  StorageTypeOK'
  BY DEF StorageTypeOK, Persist

\* The checkpoint is that of an instance executed just now, or stays.
LEMMA CheckpointType ==
  ASSUME NEW c \in Inst, NEW first \in Nat, NEW vals \in Seq(AnyValue),
         first + Len(vals) <= MaxInst + 1
  PROVE  Checkpoint(c, first, vals) \in Inst
<1> USE MaxInstAssumption
<1> DEFINE parsed == {j \in DOMAIN vals : vals[j] \notin Unparsable}
<1>1. Len(vals) \in Nat /\ DOMAIN vals = 1 .. Len(vals)
  BY LenProperties
<1>2. CASE parsed = {}
  BY <1>2 DEF Checkpoint
<1>3. CASE parsed # {}
  <2>1. parsed \subseteq 1 .. Len(vals) /\ parsed \subseteq Nat
    BY <1>1
  <2>2. IsFiniteSet(parsed)
    <3>1. IsFiniteSet(1 .. Len(vals))
      BY <1>1, FS_Interval
    <3> HIDE DEF parsed
    <3> QED BY <2>1, <3>1, FS_Subset
  <2>3. \E j \in parsed : \A k \in parsed : k <= j
    <3> HIDE DEF parsed
    <3> QED BY <1>3, <2>1, <2>2, MaximumExists
  <2>4. PICK j \in parsed : j = CHOOSE i \in parsed : \A k \in parsed : k <= i
    BY <2>3
  <2>5. Checkpoint(c, first, vals) = first - 1 + j
    BY <1>3, <2>4 DEF Checkpoint
  <2>6. j \in 1 .. Len(vals)
    BY <2>1
  <2> QED BY <1>1, <2>5, <2>6 DEF Inst
<1> QED BY <1>2, <1>3

LEMMA ExecutionsType ==
  ASSUME NEW first \in Nat, NEW vals \in Seq(AnyValue),
         first + Len(vals) <= MaxInst + 1
  PROVE  Executions(first, vals) \in Seq(Execution)
<1> USE MaxInstAssumption
<1>1. /\ Len(vals) \in Nat /\ DOMAIN vals = 1 .. Len(vals)
      /\ \A j \in 1 .. Len(vals) : vals[j] \in AnyValue
  BY LenProperties, ElementOfSeq
<1>2. \A j \in 1 .. Len(vals) : first + j - 1 \in Inst
  BY <1>1 DEF Inst
<1>3. Executions(first, vals) \in [1 .. Len(vals) -> Execution]
  BY <1>1, <1>2 DEF Executions, Execution
<1> QED BY <1>1, <1>3, SeqDef

\* Executing values in instances that exist.
LEMMA ExecuteAllType ==
  ASSUME StateMachineTypeOK, NEW n \in Node, NEW first \in Nat,
         NEW vals \in Seq(AnyValue), first + Len(vals) <= MaxInst + 1,
         ExecuteAll(n, first, vals)
  PROVE  StateMachineTypeOK'
<1>1. cp' = [cp EXCEPT ![n] = Checkpoint(cp[n], first, vals)] /\ cp[n] \in Inst
  BY DEF ExecuteAll, StateMachineTypeOK
<1>2. Checkpoint(cp[n], first, vals) \in Inst
  BY <1>1, CheckpointType
<1>3. smlog' = [smlog EXCEPT ![n] = smlog[n] \o Executions(first, vals)]
  BY DEF ExecuteAll, StateMachineTypeOK
<1>4. smlog[n] \o Executions(first, vals) \in Seq(Execution)
  BY ExecutionsType, ConcatProperties DEF StateMachineTypeOK
<1> QED BY <1>1, <1>2, <1>3, <1>4 DEF StateMachineTypeOK
-----------------------------------------------------------------------------
(* The steps of clients, timers and the environment. *)

LEMMA TypeFacts ==
  ASSUME TypeOK
  PROVE  /\ net \in Network /\ Network = [Node -> [Node -> Seq(Message)]]
         /\ inst \in [Node -> InstOrEnd] /\ Inst \subseteq InstOrEnd
         /\ \A n \in Node : inst[n] <= MaxInst => inst[n] \in Inst
  BY MaxInstAssumption DEF TypeOK, RoleTypeOK, Network, InstOrEnd, Inst

LEMMA CommitResultType ==
  ASSUME NEW c \in Call, NEW success, NEW id, NEW v
  PROVE  CommitResult(c, success, id, v) \in Call
<1>1. CASE c.state = "waiting"
  BY <1>1 DEF CommitResult, Call, Ok, NotSuccess, NotChosen
<1>2. CASE c.state # "waiting"
  BY <1>2 DEF CommitResult, Call, Ok, NotSuccess, NotChosen
<1> QED BY <1>1, <1>2

LEMMA TimersType ==
  ASSUME NEW t \in Timers
  PROVE  /\ AddTimeout(t) \in Timers
         /\ RemoveTimeout(t) \in Timers
         /\ t.stale > 0 => [t EXCEPT !.stale = @ - 1] \in Timers
<1>1. RemoveTimeout(t) \in Timers
  BY DEF Timers, RemoveTimeout
<1>2. (IF t.live THEN t.stale + 1 ELSE t.stale) \in Nat
  BY DEF Timers
<1>3. AddTimeout(t) \in Timers
  BY <1>2 DEF Timers, AddTimeout
<1>4. t.stale > 0 => t.stale - 1 \in Nat
  BY DEF Timers
<1>5. t.stale > 0 => [t EXCEPT !.stale = t.stale - 1] \in Timers
  BY <1>4 DEF Timers
<1> QED BY <1>1, <1>3, <1>5

LEMMA EmptyBallotType == EmptyBallot \in BallotState
  BY EmptyStateType DEF EmptyBallot, BallotState

LEMMA ClientStepType ==
  ASSUME TypeOK, NEW n \in Node, ClientStep(n)
  PROVE  TypeOK'
<1>1. CASE \E v \in Value : Propose(n, v)
  <2>1. PICK v \in Value : Propose(n, v)
    BY <1>1
  <2>2. PICK id \in RespawnProposalId(n) :
          /\ prop' = [prop EXCEPT ![n] = [id |-> id, stage |-> "Preparing", value |-> v]]
          /\ net' = Broadcast(net, n, [type |-> "PREPARE", inst |-> inst[n], id |-> id])
    BY <2>1 DEF Propose
  <2>3. inst[n] \in Inst /\ id \in Nat
    BY <2>1, TypeFacts, IdAssumption DEF Propose, RespawnProposalId
  <2>4. net' \in Network
    BY <2>2, <2>3, TypeFacts, InstanceMessages, BroadcastType
  <2>5. prop' \in [Node -> ProposerState]
    BY <2>2, <2>3 DEF TypeOK, ProposerTypeOK, ProposerState, AnyValue
  <2>6. ballot' \in [Node -> BallotState]
    BY <2>1, EmptyBallotType DEF Propose, TypeOK, ProposerTypeOK
  <2>7. ContextTypeOK'
    <3>1. Reset(ctx[n], inst[n], v) \in Call
      BY <2>3, TypeFacts DEF TypeOK, ContextTypeOK, Reset, Call, AnyValue
    <3>2. AddTimeout(timers[n]) \in Timers
      BY TimersType DEF TypeOK, ContextTypeOK
    <3> QED BY <2>1, <3>1, <3>2 DEF TypeOK, ContextTypeOK, Propose
  <2> QED
    BY <1>1, <2>4, <2>5, <2>6, <2>7
    DEF ClientStep, TypeOK, RoleTypeOK, Network, StorageTypeOK, AccepterTypeOK,
        ProposerTypeOK, LearnerTypeOK, StateMachineTypeOK, accepterVars, stateMachineVars
<1>2. CASE /\ Wait(n) \/ Wakeup(n) \/ Return(n)
           /\ UNCHANGED <<net, proposerVars>>
  <2>1. \A state \in {"idle", "waiting", "notified"} :
          [ctx[n] EXCEPT !.state = state] \in Call
    BY DEF TypeOK, ContextTypeOK, Call
  <2>2. ctx' \in [Node -> Call] /\ UNCHANGED timers
    BY <1>2, <2>1 DEF Wait, Wakeup, Return, TypeOK, ContextTypeOK
  <2> QED
    BY <1>2, <2>2
    DEF ClientStep, TypeOK, RoleTypeOK, StorageTypeOK, AccepterTypeOK,
        ContextTypeOK, ProposerTypeOK, LearnerTypeOK, StateMachineTypeOK,
        accepterVars, proposerVars, stateMachineVars
<1> QED BY <1>1, <1>2 DEF ClientStep

LEMMA ProposeTimeoutStepType ==
  ASSUME TypeOK, NEW n \in Node, ProposeTimeoutStep(n)
  PROVE  TypeOK'
<1>1. timers' \in [Node -> Timers]
  BY TimersType DEF ProposeTimeoutStep, ProposeTimeout, TypeOK, ContextTypeOK
<1>2. ctx' \in [Node -> Call]
  BY CommitResultType DEF ProposeTimeoutStep, ProposeTimeout, TypeOK, ContextTypeOK
<1> QED
  BY <1>1, <1>2
  DEF ProposeTimeoutStep, TypeOK, RoleTypeOK, StorageTypeOK, AccepterTypeOK,
      ContextTypeOK, ProposerTypeOK, LearnerTypeOK, StateMachineTypeOK,
      accepterVars, proposerVars, stateMachineVars

LEMMA AskStepType ==
  ASSUME TypeOK, NEW n \in Node, AskStep(n)
  PROVE  TypeOK'
<1>1. net' \in Network
  BY TypeFacts, LearnerMessages, BroadcastType DEF AskStep, AskForInstanceID
<1> QED
  BY <1>1
  DEF AskStep, AskForInstanceID, Network, TypeOK, RoleTypeOK, StorageTypeOK,
      AccepterTypeOK, ContextTypeOK, ProposerTypeOK, LearnerTypeOK,
      StateMachineTypeOK, accepterVars, contextVars, proposerVars, stateMachineVars

LEMMA BreakStepType ==
  ASSUME TypeOK, NEW s \in Node, NEW n \in Node, BreakStep(s, n)
  PROVE  TypeOK'
<1>1. PICK k \in 0 .. (Len(net[s][n]) - 1) :
        net' = [net EXCEPT ![s][n] = SubSeq(net[s][n], 1, k)]
  BY DEF BreakStep, Break
<1>2. net[s][n] \in Seq(Message)
  BY TypeFacts
<1>3. SubSeq(net[s][n], 1, k) \in Seq(Message)
  BY <1>2, LenProperties, ElementOfSeq, SubSeqProperties
<1>4. net' \in Network
  BY <1>1, <1>3, TypeFacts
<1>5. breaks' \in 0 .. MaxBreaks
  BY MaxBreaksAssumption DEF BreakStep, Break, TypeOK, RoleTypeOK
<1> QED
  BY <1>4, <1>5
  DEF BreakStep, Break, Network, TypeOK, RoleTypeOK, StorageTypeOK, AccepterTypeOK,
      ContextTypeOK, ProposerTypeOK, LearnerTypeOK, StateMachineTypeOK,
      accepterVars, contextVars, proposerVars, stateMachineVars
-----------------------------------------------------------------------------
(* The handlers.  Each lemma is about the first message m from s to n. *)

LEMMA VoteTypes ==
  ASSUME NEW b \in BallotState, NEW s \in Node
  PROVE  VoteUp(b, s) \in BallotState /\ VoteDown(b, s) \in BallotState
  BY DEF BallotState, VoteUp, VoteDown

LEMMA ReportedTypes ==
  ASSUME NEW b \in BallotState, NEW s \in Node, NEW p \in Proposal, NEW v \in AnyValue
  PROVE  VoteUpWith(b, s, p) \in BallotState /\ GetChosenValue(b, v) \in AnyValue
<1>1. [VoteUp(b, s) EXCEPT !.chosen = p, !.other = TRUE] \in BallotState
  BY VoteTypes DEF BallotState
<1>2. GetChosenValue(b, v) \in AnyValue
  BY DEF BallotState, Proposal, GetChosenValue
<1> QED BY <1>1, <1>2, VoteTypes DEF VoteUpWith

LEMMA OnPromisedType ==
  ASSUME TypeOK, NEW n \in Node, NEW s \in Node, net[s][n] # <<>>,
         NEW m \in Message, m.type = "PROMISED", inst[n] \in Inst, OnPromised(n, s, m)
  PROVE  ProposerTypeOK' /\ net' \in Network /\ ctx' \in [Node -> Call]
<1> DEFINE b == IF m.accepted THEN VoteUpWith(ballot[n], s, m.proposal)
                              ELSE VoteUp(ballot[n], s)
           v == GetChosenValue(b, prop[n].value)
<1>1. b \in BallotState
  BY MessageFields, VoteTypes, ReportedTypes, EmptyStateType
  DEF TypeOK, ProposerTypeOK, Proposal
<1>2. v \in AnyValue
  <2>1. prop[n].value \in AnyValue
    BY DEF TypeOK, ProposerTypeOK, ProposerState
  <2> QED BY <1>1, <2>1, ReportedTypes, EmptyStateType
<1>3. Received(s, n) \in Network
  BY ReceivedType, TypeFacts
<1>4. CASE /\ prop' = [prop EXCEPT ![n].stage = "Accepting", ![n].value = v]
           /\ ballot' = [ballot EXCEPT ![n] = EmptyBallot]
           /\ net' = Broadcast(Received(s, n), n,
                       [type |-> "ACCEPT", inst |-> inst[n],
                        proposal |-> [id |-> prop[n].id, value |-> v]])
           /\ UNCHANGED ctx
  <2>1. [id |-> prop[n].id, value |-> v] \in Proposal
    BY <1>2 DEF TypeOK, ProposerTypeOK, ProposerState, Proposal
  <2>2. net' \in Network
    BY <1>3, <1>4, <2>1, InstanceMessages, BroadcastType
  <2>3. prop' \in [Node -> ProposerState]
    BY <1>2, <1>4 DEF TypeOK, ProposerTypeOK, ProposerState
  <2>4. ballot' \in [Node -> BallotState]
    BY <1>4, EmptyBallotType DEF TypeOK, ProposerTypeOK
  <2> QED BY <1>4, <2>2, <2>3, <2>4 DEF TypeOK, ContextTypeOK, ProposerTypeOK
<1>5. CASE /\ ballot' = [ballot EXCEPT ![n] = b]
           /\ net' = Received(s, n)
           /\ UNCHANGED <<ctx, prop>>
  BY <1>1, <1>3, <1>5 DEF TypeOK, ContextTypeOK, ProposerTypeOK
<1>6. CASE Skipped(n, s)
  BY <1>3, <1>6 DEF Skipped, TypeOK, ContextTypeOK, ProposerTypeOK, proposerVars
<1> QED BY <1>4, <1>5, <1>6 DEF OnPromised, Accept

LEMMA RejectedType ==
  ASSUME TypeOK, NEW n \in Node, NEW s \in Node, net[s][n] # <<>>,
         NEW stage, Rejected(n, s, stage)
  PROVE  ProposerTypeOK' /\ net' \in Network /\ ctx' \in [Node -> Call]
<1> DEFINE b == VoteDown(ballot[n], s)
<1>1. b \in BallotState
  BY VoteTypes DEF TypeOK, ProposerTypeOK
<1>2. Received(s, n) \in Network
  BY ReceivedType, TypeFacts
<1>3. CASE Skipped(n, s)
  BY <1>2, <1>3 DEF Skipped, TypeOK, ContextTypeOK, ProposerTypeOK, proposerVars
<1>4. CASE /\ ballot' = [ballot EXCEPT ![n] = b]
           /\ net' = Received(s, n)
           /\ prop' = [prop EXCEPT ![n].stage = "Idle"]
           /\ ctx' = [ctx EXCEPT ![n] = CommitResult(ctx[n], FALSE, inst[n], Empty)]
  <2>1. prop' \in [Node -> ProposerState]
    BY <1>4 DEF TypeOK, ProposerTypeOK, ProposerState
  <2>2. ctx' \in [Node -> Call]
    BY <1>4, CommitResultType DEF TypeOK, ContextTypeOK
  <2> QED BY <1>1, <1>2, <1>4, <2>1, <2>2 DEF TypeOK, ProposerTypeOK
<1>5. CASE /\ ballot' = [ballot EXCEPT ![n] = b]
           /\ net' = Received(s, n)
           /\ UNCHANGED <<ctx, prop>>
  BY <1>1, <1>2, <1>5 DEF TypeOK, ContextTypeOK, ProposerTypeOK
<1>6. Skipped(n, s) \/
      ( /\ ballot' = [ballot EXCEPT ![n] = b]
        /\ net' = Received(s, n)
        /\ \/ /\ prop' = [prop EXCEPT ![n].stage = "Idle"]
              /\ ctx' = [ctx EXCEPT ![n] = CommitResult(ctx[n], FALSE, inst[n], Empty)]
           \/ UNCHANGED <<ctx, prop>>)
  BY DEF Rejected, TypeOK, ContextTypeOK
<1> QED BY <1>3, <1>4, <1>5, <1>6

LEMMA OnAcceptedType ==
  ASSUME TypeOK, NEW n \in Node, NEW s \in Node, net[s][n] # <<>>,
         inst[n] \in Inst, OnAccepted(n, s)
  PROVE  ProposerTypeOK' /\ net' \in Network /\ ctx' \in [Node -> Call]
<1> DEFINE b == VoteUp(ballot[n], s)
<1>1. b \in BallotState
  BY VoteTypes DEF TypeOK, ProposerTypeOK
<1>2. Received(s, n) \in Network
  BY ReceivedType, TypeFacts
<1>3. CASE Skipped(n, s)
  BY <1>2, <1>3 DEF Skipped, TypeOK, ContextTypeOK, ProposerTypeOK, proposerVars
<1>4. CASE /\ prop' = [prop EXCEPT ![n].stage = "Idle"]
           /\ ballot' = [ballot EXCEPT ![n] = b]
           /\ net' = Broadcast(Received(s, n), n, [type |-> "LEARN", inst |-> inst[n]])
           /\ UNCHANGED ctx
  <2>1. net' \in Network
    BY <1>2, <1>4, InstanceMessages, BroadcastType
  <2>2. prop' \in [Node -> ProposerState]
    BY <1>4 DEF TypeOK, ProposerTypeOK, ProposerState
  <2> QED BY <1>1, <1>4, <2>1, <2>2 DEF TypeOK, ContextTypeOK, ProposerTypeOK
<1>5. CASE /\ ballot' = [ballot EXCEPT ![n] = b]
           /\ net' = Received(s, n)
           /\ UNCHANGED <<ctx, prop>>
  BY <1>1, <1>2, <1>5 DEF TypeOK, ContextTypeOK, ProposerTypeOK
<1> QED BY <1>3, <1>4, <1>5 DEF OnAccepted, Learn

LEMMA OnProposerMessageType ==
  ASSUME TypeOK, NEW n \in Node, NEW s \in Node, net[s][n] # <<>>,
         NEW m \in Message, OnProposerMessage(n, s, m), UNCHANGED <<up, breaks, crashes>>
  PROVE  TypeOK'
<1>1. inst[n] \in Inst
  BY MessageFields DEF OnProposerMessage
<1>2. ProposerTypeOK' /\ net' \in Network /\ ctx' \in [Node -> Call]
  BY <1>1, OnPromisedType, RejectedType, OnAcceptedType
  DEF OnProposerMessage, OnRejectPromise, OnRejectAccept
<1> QED
  BY <1>2
  DEF OnProposerMessage, Network, TypeOK, RoleTypeOK, StorageTypeOK, AccepterTypeOK,
      ContextTypeOK, LearnerTypeOK, StateMachineTypeOK, accepterVars, stateMachineVars

LEMMA OnAccepterMessageType ==
  ASSUME TypeOK, NEW n \in Node, NEW s \in Node, net[s][n] # <<>>,
         NEW m \in Message, OnAccepterMessage(n, s, m), UNCHANGED <<up, breaks, crashes>>
  PROVE  TypeOK'
<1>1. inst[n] \in Inst /\ Received(s, n) \in Network
  BY MessageFields, ReceivedType, TypeFacts DEF OnAccepterMessage
<1>2. acc[n] \in State /\ storage[n] \in [Inst -> State \cup {NoRecord}]
  BY DEF TypeOK, AccepterTypeOK, StorageTypeOK
<1>3. CASE m.type = "PREPARE" /\ OnPrepare(n, s, m)
  <2>1. m.id \in Nat /\ acc[n].accepted \in BOOLEAN /\ acc[n].proposal \in Proposal
    BY <1>2, <1>3, MessageFields DEF State
  <2>2. net' \in Network
    <3>1. [type |-> "PROMISED", inst |-> inst[n], accepted |-> acc[n].accepted,
           proposal |-> acc[n].proposal] \in Message
      BY <1>1, <2>1, InstanceMessages
    <3>2. [type |-> "REJECT_PROMISE", inst |-> inst[n]] \in Message
      BY <1>1, InstanceMessages
    <3> QED BY <1>1, <1>3, <3>1, <3>2, SendMessageToType DEF OnPrepare, ReplyPromised, ReplyRejectPromise
  <2>3. AccepterTypeOK' /\ StorageTypeOK'
    <3>1. CASE UNCHANGED <<storage, accepterVars>>
      BY <3>1 DEF TypeOK, AccepterTypeOK, StorageTypeOK, accepterVars
    <3>2. CASE /\ acc' = [acc EXCEPT ![n].promised = TRUE, ![n].promisedId = m.id]
               /\ Persist(n, inst[n], acc'[n])
               /\ promises' = promises \cup {[node |-> n, inst |-> inst[n], id |-> m.id]}
               /\ UNCHANGED votes
      <4>1. acc' \in [Node -> State]
        BY <1>2, <2>1, <3>2 DEF TypeOK, AccepterTypeOK, State
      <4>2. StorageTypeOK'
        BY <1>1, <3>2, <4>1, PersistType DEF TypeOK
      <4>3. promises' \in SUBSET Promise
        BY <1>1, <2>1, <3>2 DEF TypeOK, AccepterTypeOK, Promise
      <4> QED BY <3>2, <4>1, <4>2, <4>3 DEF TypeOK, AccepterTypeOK
    <3> QED BY <1>3, <3>1, <3>2 DEF OnPrepare, ReplyPromised, ReplyRejectPromise
  <2> QED
    BY <1>3, <2>2, <2>3
    DEF OnAccepterMessage, Network, TypeOK, RoleTypeOK, ContextTypeOK, ProposerTypeOK,
        LearnerTypeOK, StateMachineTypeOK, contextVars, proposerVars, stateMachineVars
<1>4. CASE m.type = "ACCEPT" /\ OnAccept(n, s, m)
  <2>1. m.proposal \in Proposal
    BY <1>4, MessageFields
  <2>2. net' \in Network
    <3>1. /\ [type |-> "ACCEPTED", inst |-> inst[n]] \in Message
          /\ [type |-> "REJECT_ACCEPT", inst |-> inst[n]] \in Message
      BY <1>1, InstanceMessages
    <3> QED BY <1>1, <1>4, <3>1, SendMessageToType DEF OnAccept, ReplyAccepted, ReplyRejectAccept
  <2>3. AccepterTypeOK' /\ StorageTypeOK'
    <3>1. CASE UNCHANGED <<storage, accepterVars>>
      BY <3>1 DEF TypeOK, AccepterTypeOK, StorageTypeOK, accepterVars
    <3>2. CASE /\ acc' = [acc EXCEPT ![n].accepted = TRUE, ![n].proposal = m.proposal]
               /\ Persist(n, inst[n], acc'[n])
               /\ votes' = votes \cup {[node |-> n, inst |-> inst[n],
                                        id |-> m.proposal.id, value |-> m.proposal.value]}
               /\ UNCHANGED promises
      <4>1. acc' \in [Node -> State]
        BY <1>2, <2>1, <3>2 DEF TypeOK, AccepterTypeOK, State
      <4>2. StorageTypeOK'
        BY <1>1, <3>2, <4>1, PersistType DEF TypeOK
      <4>3. votes' \in SUBSET Vote
        BY <1>1, <2>1, <3>2 DEF TypeOK, AccepterTypeOK, Vote, Proposal
      <4> QED BY <3>2, <4>1, <4>2, <4>3 DEF TypeOK, AccepterTypeOK
    <3> QED BY <1>4, <3>1, <3>2 DEF OnAccept, ReplyAccepted, ReplyRejectAccept
  <2> QED
    BY <1>4, <2>2, <2>3
    DEF OnAccepterMessage, Network, TypeOK, RoleTypeOK, ContextTypeOK, ProposerTypeOK,
        LearnerTypeOK, StateMachineTypeOK, contextVars, proposerVars, stateMachineVars
<1> QED BY <1>3, <1>4 DEF OnAccepterMessage

\* Learning the value of the current instance.
LEMMA OnLearnType ==
  ASSUME TypeOK, NEW n \in Node, NEW s \in Node, net[s][n] # <<>>,
         NEW m \in Message, OnLearn(n, s, m), UNCHANGED <<up, breaks, crashes>>
  PROVE  TypeOK'
<1> DEFINE v == acc[n].proposal.value
<1>1. inst[n] \in Inst /\ net' \in Network
  BY MessageFields, ReceivedType, TypeFacts DEF OnLearn
<1>2. v \in AnyValue
  BY DEF TypeOK, AccepterTypeOK, State, Proposal
<1>3. CASE UNCHANGED <<inst, acc, contextVars, stateMachineVars>>
  BY <1>1, <1>3
  DEF OnLearn, Network, TypeOK, RoleTypeOK, StorageTypeOK, AccepterTypeOK,
      ContextTypeOK, ProposerTypeOK, LearnerTypeOK, StateMachineTypeOK,
      contextVars, proposerVars, stateMachineVars
<1>4. CASE /\ Execute(n, inst[n], v)
           /\ inst' = [inst EXCEPT ![n] = inst[n] + 1]
           /\ acc' = [acc EXCEPT ![n] = EmptyState]
           /\ \/ /\ timers' = [timers EXCEPT ![n] = RemoveTimeout(timers[n])]
                 /\ ctx' = [ctx EXCEPT ![n] = CommitResult(ctx[n], TRUE, inst[n], v)]
              \/ UNCHANGED contextVars
  <2>1. StateMachineTypeOK'
    <3>1. <<v>> \in Seq(AnyValue) /\ Len(<<v>>) = 1
      BY <1>2
    <3>2. inst[n] \in Nat /\ inst[n] + 1 <= MaxInst + 1
      BY <1>1, MaxInstAssumption DEF Inst
    <3> QED BY <1>4, <3>1, <3>2, ExecuteAllType DEF Execute, TypeOK
  <2>2. inst' \in [Node -> InstOrEnd]
    <3>1. inst[n] + 1 \in InstOrEnd
      BY <1>1, MaxInstAssumption DEF Inst, InstOrEnd
    <3> QED BY <1>4, <3>1 DEF TypeOK, RoleTypeOK
  <2>3. acc' \in [Node -> State]
    BY <1>4, EmptyStateType DEF TypeOK, AccepterTypeOK
  <2>4. ContextTypeOK'
    <3>1. RemoveTimeout(timers[n]) \in Timers
      BY TimersType DEF TypeOK, ContextTypeOK
    <3>2. CommitResult(ctx[n], TRUE, inst[n], v) \in Call
      BY CommitResultType DEF TypeOK, ContextTypeOK
    <3> QED BY <1>4, <3>1, <3>2 DEF TypeOK, ContextTypeOK, contextVars
  <2> QED
    BY <1>1, <2>1, <2>2, <2>3, <2>4
    DEF OnLearn, Network, TypeOK, RoleTypeOK, StorageTypeOK, AccepterTypeOK,
        ProposerTypeOK, LearnerTypeOK, proposerVars
<1> QED
  <2>1. inst' = [inst EXCEPT ![n] = @ + 1] => inst' = [inst EXCEPT ![n] = inst[n] + 1]
    BY DEF TypeOK, RoleTypeOK
  <2> QED BY <1>3, <1>4, <2>1 DEF OnLearn, TypeOK, ContextTypeOK
-----------------------------------------------------------------------------
(* Catching up. *)

LEMMA SeenType ==
  ASSUME NEW l \in LearnerState, l.seen > 0 => l.seenNode \in Node,
         NEW from \in Node, NEW my \in InstOrEnd
  PROVE  /\ Seen(l, from, my) \in LearnerState
         /\ Seen(l, from, my).seen > 0 => Seen(l, from, my).seenNode \in Node
<1>1. CASE l.seen < my
  BY <1>1 DEF Seen, LearnerState
<1>2. CASE ~(l.seen < my)
  BY <1>2 DEF Seen
<1> QED BY <1>1, <1>2

\* Keeping what was seen on n, and asking for more if that is new.
LEMMA AskedType ==
  ASSUME NEW n \in Node, NEW l \in LearnerState, NEW i \in InstOrEnd,
         l.seen > 0 => l.seenNode \in Node,
         LearnerTypeOK, lrn' = [lrn EXCEPT ![n] = Asked(l, i)]
  PROVE  LearnerTypeOK'
<1>1. /\ Asked(l, i) \in LearnerState
      /\ Asked(l, i).seen = l.seen /\ Asked(l, i).seenNode = l.seenNode
  BY DEF Asked, Asks, LearnerState
<1>2. lrn' \in [Node -> LearnerState]
  BY <1>1 DEF LearnerTypeOK
<1>3. \A r \in Node : lrn'[r].seen > 0 => lrn'[r].seenNode \in Node
  BY <1>1 DEF LearnerTypeOK
<1> QED BY <1>2, <1>3 DEF LearnerTypeOK

LEMMA AskForLearnType ==
  ASSUME NEW nt \in Network, NEW n \in Node, NEW l, NEW i \in InstOrEnd
  PROVE  AskForLearn(nt, n, l, i) \in Network
<1>1. SendMessageTo(nt, n, l.seenNode, [type |-> "ASK_FOR_LEARN", from |-> i]) \in Network
  BY LearnerMessages, SendMessageToType
<1> QED BY <1>1 DEF AskForLearn

LEMMA OnSeenOthersInstanceIDType ==
  ASSUME NEW n \in Node, NEW nt \in Network, NEW l \in LearnerState, NEW i \in InstOrEnd,
         l.seen > 0 => l.seenNode \in Node, NEW from \in Node, NEW my \in InstOrEnd,
         LearnerTypeOK, OnSeenOthersInstanceID(n, nt, l, i, from, my)
  PROVE  LearnerTypeOK' /\ net' \in Network
<1>1. net' \in Network
  BY AskForLearnType DEF OnSeenOthersInstanceID
<1>2. LearnerTypeOK'
  BY SeenType, AskedType DEF OnSeenOthersInstanceID
<1> QED BY <1>1, <1>2

LEMMA LearnerFacts ==
  ASSUME TypeOK, NEW n \in Node
  PROVE  /\ lrn[n] \in LearnerState /\ inst[n] \in InstOrEnd
         /\ lrn[n].seen > 0 => lrn[n].seenNode \in Node
  BY DEF TypeOK, LearnerTypeOK, RoleTypeOK

\* The two messages that carry an instance id.
LEMMA InstanceIDType ==
  ASSUME TypeOK, NEW n \in Node, NEW s \in Node, net[s][n] # <<>>, NEW m \in Message,
         \/ m.type = "ASK_FOR_INSTANCE_ID" /\ OnAskForInstanceID(n, s, m)
         \/ m.type = "ASK_FOR_INSTANCE_ID_REPLY" /\ OnAskForInstanceIDReply(n, s, m)
  PROVE  LearnerTypeOK' /\ net' \in Network
<1>1. m.my \in InstOrEnd /\ Received(s, n) \in Network
  BY MessageFields, ReceivedType, TypeFacts
<1>2. LearnerTypeOK
  BY DEF TypeOK
<1>3. CASE OnAskForInstanceID(n, s, m)
  <2> DEFINE l == Seen(lrn[n], s, m.my)
             asked == AskForLearn(Received(s, n), n, l, inst[n])
  <2>1. asked \in Network
    BY <1>1, LearnerFacts, AskForLearnType
  <2>2. l \in LearnerState /\ (l.seen > 0 => l.seenNode \in Node)
    BY <1>1, LearnerFacts, SeenType
  <2>3. /\ lrn' = [lrn EXCEPT ![n] = Asked(l, inst[n])]
        /\ net' = SendMessageTo(asked, n, s,
                     [type |-> "ASK_FOR_INSTANCE_ID_REPLY", my |-> inst[n]])
    BY <1>3 DEF OnAskForInstanceID
  <2> HIDE DEF l, asked
  <2>4. net' \in Network
    BY <2>1, <2>3, LearnerFacts, LearnerMessages, SendMessageToType
  <2>5. LearnerTypeOK'
    BY <1>2, <2>2, <2>3, LearnerFacts, AskedType
  <2> QED BY <2>4, <2>5
<1>4. CASE OnAskForInstanceIDReply(n, s, m)
  BY <1>1, <1>2, <1>4, LearnerFacts, OnSeenOthersInstanceIDType
  DEF OnAskForInstanceIDReply
<1> QED BY <1>3, <1>4

\* A batch of records from `from' on that can all be loaded.
LEMMA BatchType ==
  ASSUME TypeOK, NEW n \in Node, NEW from \in InstOrEnd, NEW k \in 1 .. (inst[n] - from),
         \A i \in {i \in from .. (inst[n] - 1) : storage[n][i] = NoRecord} : i > from + k
  PROVE  [type |-> "ASK_FOR_LEARN_REPLY", start |-> from,
          states |-> [j \in 1 .. k |-> storage[n][from + j - 1]],
          my |-> inst[n]] \in Message
<1> USE MaxInstAssumption
<1> DEFINE states == [j \in 1 .. k |-> storage[n][from + j - 1]]
<1>1. inst[n] \in InstOrEnd
  BY LearnerFacts
<1>2. \A j \in 1 .. k : /\ from + j - 1 \in Inst
                        /\ from + j - 1 \in from .. (inst[n] - 1)
                        /\ ~(from + j - 1 > from + k)
  BY <1>1 DEF Inst, InstOrEnd
<1>3. \A j \in 1 .. k : storage[n][from + j - 1] \in State
  <2>1. TAKE j \in 1 .. k
  <2>2. storage[n][from + j - 1] \in State \cup {NoRecord}
    BY <1>2 DEF TypeOK, StorageTypeOK
  <2>3. storage[n][from + j - 1] # NoRecord
    BY <1>2
  <2> QED BY <2>2, <2>3
<1>4. states \in [1 .. k -> State] /\ k \in Nat
  <2>1. k \in Nat
    BY <1>1 DEF InstOrEnd
  <2> QED BY <1>3, <2>1
<1>5. states \in Seq(State)
  BY <1>4, SeqDef
<1>6. Len(states) = k
  BY <1>4, <1>5, LenProperties
<1>7. from + Len(states) <= MaxInst + 1
  BY <1>1, <1>6 DEF InstOrEnd
<1> HIDE DEF states
<1>8. [type |-> "ASK_FOR_LEARN_REPLY", start |-> from, states |-> states,
       my |-> inst[n]] \in Message
  BY <1>1, <1>5, <1>7 DEF Message, LearnReply
<1> QED BY <1>8 DEF states

LEMMA NothingToLearnType == NothingToLearn \in Message
<1>1. <<>> \in Seq(State) /\ Len(<<>>) = 0
  BY EmptySeq
<1> QED BY <1>1, MaxInstAssumption DEF NothingToLearn, Message, LearnReply, InstOrEnd

\* The states in the reply m are the records of instances that n has left.
Loaded(n, m) ==
  \A k \in DOMAIN m.states :
    LET i == m.start + k - 1 IN
    i \in Inst /\ i < inst[n] /\ storage[n][i] # NoRecord /\ m.states[k] = storage[n][i]

\* What the answer to ASK_FOR_LEARN can be.
LEMMA AskForLearnAnswer ==
  ASSUME TypeOK, NEW n \in Node, NEW s \in Node, NEW m \in Message,
         m.type = "ASK_FOR_LEARN", OnAskForLearn(n, s, m)
  PROVE  \/ net' = Received(s, n)
         \/ \E y \in Message :
              /\ net' = SendMessageTo(Received(s, n), n, s, y)
              /\ y.type = "ASK_FOR_LEARN_REPLY" /\ y.start \in {0, m.from}
              /\ Loaded(n, y)
<1> DEFINE Missing == {i \in m.from .. (inst[n] - 1) : storage[n][i] = NoRecord}
<1>1. m.from \in InstOrEnd
  BY MessageFields
<1>2. CASE net' = SendMessageTo(Received(s, n), n, s, NothingToLearn)
  <2>1. Loaded(n, NothingToLearn)
    BY EmptySeq DEF Loaded, NothingToLearn
  <2> QED BY <1>2, <2>1, NothingToLearnType DEF NothingToLearn
<1>3. ASSUME NEW k \in 1 .. (inst[n] - m.from), \A i \in Missing : i > m.from + k,
             NEW y, net' = SendMessageTo(Received(s, n), n, s, y),
             y = [type |-> "ASK_FOR_LEARN_REPLY", start |-> m.from,
                  states |-> [j \in 1 .. k |-> storage[n][m.from + j - 1]],
                  my |-> inst[n]]
      PROVE  \E z \in Message :
               /\ net' = SendMessageTo(Received(s, n), n, s, z)
               /\ z.type = "ASK_FOR_LEARN_REPLY" /\ z.start \in {0, m.from}
               /\ Loaded(n, z)
  <2>1. y \in Message
    BY <1>1, <1>3, BatchType
  <2>2. y.type = "ASK_FOR_LEARN_REPLY" /\ y.start = m.from
    BY <1>3
  <2>3. DOMAIN y.states = 1 .. k /\ \A j \in 1 .. k : y.states[j] = storage[n][m.from + j - 1]
    BY <1>3
  <2>4. \A j \in 1 .. k : /\ m.from + j - 1 \in Inst /\ m.from + j - 1 < inst[n]
                          /\ m.from + j - 1 \in m.from .. (inst[n] - 1)
                          /\ ~(m.from + j - 1 > m.from + k)
    BY <1>1, <1>3, LearnerFacts, MaxInstAssumption DEF Inst, InstOrEnd
  <2>5. \A j \in 1 .. k : storage[n][m.from + j - 1] # NoRecord
    BY <1>3, <2>4
  <2>6. Loaded(n, y)
    BY <2>2, <2>3, <2>4, <2>5 DEF Loaded
  <2> WITNESS y \in Message
  <2> QED BY <1>3, <2>2, <2>6
<1> QED BY <1>2, <1>3 DEF OnAskForLearn

\* Every state in a reply was loaded: a missing record ends the batch before it.
LEMMA OnAskForLearnType ==
  ASSUME TypeOK, NEW n \in Node, NEW s \in Node, net[s][n] # <<>>, NEW m \in Message,
         m.type = "ASK_FOR_LEARN", OnAskForLearn(n, s, m)
  PROVE  net' \in Network
<1>1. Received(s, n) \in Network
  BY ReceivedType, TypeFacts
<1> QED BY <1>1, AskForLearnAnswer, SendMessageToType

\* The new states of a reply belong to instances that exist.
LEMMA NewStatesType ==
  ASSUME TypeOK, NEW n \in Node, NEW m \in LearnReply
  PROVE  /\ FirstNew(n, m) \in InstOrEnd
         /\ NewStates(n, m) \in Seq(State)
         /\ Len(NewStates(n, m)) \in Nat
         /\ FirstNew(n, m) + Len(NewStates(n, m)) <= MaxInst + 1
         /\ inst[n] + Len(NewStates(n, m)) <= MaxInst + 1
<1> USE MaxInstAssumption
<1> DEFINE first == FirstNew(n, m)
           k == first - m.start
<1>1. /\ m.start \in InstOrEnd /\ m.states \in Seq(State)
      /\ m.start + Len(m.states) <= MaxInst + 1
      /\ Len(m.states) \in Nat
      /\ inst[n] \in InstOrEnd
  BY LenProperties, LearnerFacts DEF LearnReply
<1>2. /\ first \in InstOrEnd /\ k \in Nat
      /\ IF m.start > inst[n] THEN first = m.start ELSE first = inst[n]
  BY <1>1 DEF FirstNew, InstOrEnd
<1>3. /\ NewStates(n, m) \in Seq(State)
      /\ Len(NewStates(n, m)) = IF k < Len(m.states) THEN Len(m.states) - k ELSE 0
  BY <1>1, <1>2, SuffixProperties DEF NewStates
<1> HIDE DEF first
<1>4. Len(NewStates(n, m)) \in Nat
  BY <1>3, LenProperties
<1>5. /\ first + Len(NewStates(n, m)) <= MaxInst + 1
      /\ inst[n] + Len(NewStates(n, m)) <= MaxInst + 1
  <2>1. /\ first \in Nat /\ m.start \in Nat /\ inst[n] \in Nat
        /\ first <= MaxInst + 1 /\ inst[n] <= first
    BY <1>1, <1>2 DEF InstOrEnd
  <2>2. MaxInst \in Nat
    BY MaxInstAssumption
  <2>3. \A f, s, l, i, c \in Nat :
          /\ f <= MaxInst + 1 /\ s + l <= MaxInst + 1 /\ i <= f
          /\ f - s \in Nat /\ c = IF f - s < l THEN l - (f - s) ELSE 0
          => f + c <= MaxInst + 1 /\ i + c <= MaxInst + 1
    BY <2>2
  <2> QED BY <1>1, <1>2, <1>3, <1>4, <2>1, <2>3
<1> QED BY <1>2, <1>3, <1>4, <1>5 DEF first

\* The values of the first k of them.
LEMMA LearnedValuesType ==
  ASSUME TypeOK, NEW n \in Node, NEW m \in LearnReply, NEW k \in 0 .. Len(NewStates(n, m))
  PROVE  LET vals == [j \in 1 .. k |-> NewStates(n, m)[j].proposal.value]
         IN  vals \in Seq(AnyValue) /\ Len(vals) = k
<1> DEFINE new == NewStates(n, m)
           vals == [j \in 1 .. k |-> new[j].proposal.value]
<1>1. new \in Seq(State) /\ Len(new) \in Nat /\ k \in 0 .. Len(new)
  BY NewStatesType
<1> HIDE DEF new
<1>2. \A j \in 1 .. k : j \in 1 .. Len(new) /\ k \in Nat
  BY <1>1
<1>3. \A j \in 1 .. k : new[j].proposal.value \in AnyValue
  <2>1. \A st \in State : st.proposal.value \in AnyValue
    BY DEF State, Proposal
  <2> QED BY <1>1, <1>2, <2>1, ElementOfSeq
<1>4. vals \in [1 .. k -> AnyValue] /\ k \in Nat
  BY <1>1, <1>3
<1>5. vals \in Seq(AnyValue)
  BY <1>4, SeqDef
<1>6. Len(vals) = k
  BY <1>4, <1>5, LenProperties
<1> QED BY <1>5, <1>6 DEF new

LEMMA LearnedType ==
  ASSUME TypeOK, NEW n \in Node, NEW m \in LearnReply,
         NEW p \in 0 .. Len(NewStates(n, m)), NEW k \in 0 .. Len(NewStates(n, m)),
         Learned(n, m, p, k)
  PROVE  StorageTypeOK' /\ StateMachineTypeOK' /\ inst' \in [Node -> InstOrEnd]
<1> USE MaxInstAssumption
<1> DEFINE first == FirstNew(n, m)
           new == NewStates(n, m)
           vals == [j \in 1 .. k |-> new[j].proposal.value]
<1>1. /\ first \in InstOrEnd /\ new \in Seq(State) /\ Len(new) \in Nat
      /\ first + Len(new) <= MaxInst + 1 /\ inst[n] + Len(new) <= MaxInst + 1
      /\ inst[n] \in InstOrEnd
  BY NewStatesType, LearnerFacts
<1>2. vals \in Seq(AnyValue) /\ Len(vals) = k
  BY LearnedValuesType
<1>3. /\ storage' = [storage EXCEPT ![n] =
           [i \in Inst |-> IF i \in first .. (first + p - 1)
                             THEN new[i - first + 1] ELSE storage[n][i]]]
      /\ ExecuteAll(n, first, vals)
      /\ inst' = [inst EXCEPT ![n] = inst[n] + k]
  BY DEF Learned, TypeOK, StorageTypeOK, RoleTypeOK
<1>4. p \in 0 .. Len(new) /\ k \in 0 .. Len(new)
  OBVIOUS
<1> HIDE DEF first, new, vals
<1>5. StorageTypeOK'
  <2>1. \A j \in 1 .. Len(new) : new[j] \in State
    BY <1>1, ElementOfSeq
  <2>2. \A i \in Inst : i \in first .. (first + p - 1) => i - first + 1 \in 1 .. Len(new)
    BY <1>1, <1>4 DEF Inst, InstOrEnd
  <2>3. \A i \in Inst : storage[n][i] \in State \cup {NoRecord}
    BY DEF TypeOK, StorageTypeOK
  <2>4. \A i \in Inst : (IF i \in first .. (first + p - 1)
                           THEN new[i - first + 1] ELSE storage[n][i]) \in State \cup {NoRecord}
    BY <2>1, <2>2, <2>3
  <2> QED BY <1>3, <2>4 DEF TypeOK, StorageTypeOK
<1>6. StateMachineTypeOK'
  <2>1. first \in Nat /\ first + k <= MaxInst + 1
    BY <1>1, <1>4 DEF InstOrEnd
  <2> QED BY <1>2, <1>3, <2>1, ExecuteAllType DEF TypeOK
<1>7. inst' \in [Node -> InstOrEnd]
  <2>1. inst[n] + k \in InstOrEnd
    BY <1>1, <1>4 DEF InstOrEnd
  <2> QED BY <1>3, <2>1, TypeFacts
<1> QED BY <1>5, <1>6, <1>7

LEMMA OnAskForLearnReplyType ==
  ASSUME TypeOK, NEW n \in Node, NEW s \in Node, net[s][n] # <<>>, NEW m \in Message,
         m.type = "ASK_FOR_LEARN_REPLY", OnAskForLearnReply(n, s, m)
  PROVE  /\ StorageTypeOK' /\ StateMachineTypeOK' /\ inst' \in [Node -> InstOrEnd]
         /\ acc' \in [Node -> State] /\ LearnerTypeOK' /\ net' \in Network
<1> USE MaxInstAssumption
<1> DEFINE new == NewStates(n, m)
<1>1. m \in LearnReply /\ Received(s, n) \in Network /\ Len(new) \in Nat
  BY MessageFields, ReceivedType, TypeFacts, NewStatesType
<1> HIDE DEF new
<1>2. \A b \in BOOLEAN : [acc EXCEPT ![n] = IF b THEN EmptyState ELSE acc[n]] \in [Node -> State]
  BY EmptyStateType DEF TypeOK, AccepterTypeOK
<1>3. CASE /\ Learned(n, m, Len(new), Len(new))
           /\ acc' = [acc EXCEPT ![n] = IF new # <<>> THEN EmptyState ELSE acc[n]]
           /\ OnSeenOthersInstanceID(n, Received(s, n),
                Answered(lrn[n]), inst'[n], s, m.my)
  <2>1. Len(new) \in 0 .. Len(new)
    BY <1>1
  <2>2. StorageTypeOK' /\ StateMachineTypeOK' /\ inst' \in [Node -> InstOrEnd]
    BY <1>1, <1>3, <2>1, LearnedType DEF new
  <2>3. /\ Answered(lrn[n]) \in LearnerState
        /\ Answered(lrn[n]).seen > 0 => Answered(lrn[n]).seenNode \in Node
    BY LearnerFacts DEF Answered, LearnerState
  <2>4. inst'[n] \in InstOrEnd /\ m.my \in InstOrEnd
    BY <1>1, <2>2 DEF LearnReply
  <2>5. LearnerTypeOK' /\ net' \in Network
    BY <1>1, <1>3, <2>3, <2>4, OnSeenOthersInstanceIDType DEF TypeOK
  <2> QED BY <1>2, <1>3, <2>2, <2>5
<1>4. ASSUME NEW k \in 0 .. (Len(new) - 1), Learned(n, m, k + 1, k),
             acc' = [acc EXCEPT ![n] = IF k > 0 THEN EmptyState ELSE acc[n]],
             net' = Received(s, n), UNCHANGED lrn
      PROVE  /\ StorageTypeOK' /\ StateMachineTypeOK' /\ inst' \in [Node -> InstOrEnd]
             /\ acc' \in [Node -> State] /\ LearnerTypeOK' /\ net' \in Network
  <2>1. k \in 0 .. Len(new) /\ k + 1 \in 0 .. Len(new)
    BY <1>1
  <2>2. StorageTypeOK' /\ StateMachineTypeOK' /\ inst' \in [Node -> InstOrEnd]
    BY <1>1, <1>4, <2>1, LearnedType DEF new
  <2> QED BY <1>1, <1>2, <1>4, <2>2 DEF TypeOK, LearnerTypeOK
<1> QED BY <1>3, <1>4 DEF OnAskForLearnReply, new, TypeOK, AccepterTypeOK

LEMMA OnLearnerMessageType ==
  ASSUME TypeOK, NEW n \in Node, NEW s \in Node, net[s][n] # <<>>,
         NEW m \in Message, OnLearnerMessage(n, s, m), UNCHANGED <<up, breaks, crashes>>
  PROVE  TypeOK'
<1>1. CASE /\ \/ m.type = "ASK_FOR_INSTANCE_ID" /\ OnAskForInstanceID(n, s, m)
              \/ m.type = "ASK_FOR_INSTANCE_ID_REPLY" /\ OnAskForInstanceIDReply(n, s, m)
           /\ UNCHANGED <<inst, storage, acc, stateMachineVars>>
           /\ UNCHANGED <<promises, votes, contextVars, proposerVars>>
  <2>1. LearnerTypeOK' /\ net' \in Network
    BY <1>1, InstanceIDType
  <2> QED
    BY <1>1, <2>1
    DEF Network, TypeOK, RoleTypeOK, StorageTypeOK, AccepterTypeOK, ContextTypeOK,
        ProposerTypeOK, StateMachineTypeOK, contextVars, proposerVars, stateMachineVars
<1>2. CASE /\ m.type = "ASK_FOR_LEARN" /\ OnAskForLearn(n, s, m)
           /\ UNCHANGED <<inst, storage, acc, lrn, stateMachineVars>>
           /\ UNCHANGED <<promises, votes, contextVars, proposerVars>>
  <2>1. net' \in Network
    BY <1>2, OnAskForLearnType
  <2> QED
    BY <1>2, <2>1
    DEF Network, TypeOK, RoleTypeOK, StorageTypeOK, AccepterTypeOK, ContextTypeOK,
        ProposerTypeOK, LearnerTypeOK, StateMachineTypeOK, contextVars, proposerVars,
        stateMachineVars
<1>3. CASE /\ m.type = "ASK_FOR_LEARN_REPLY" /\ OnAskForLearnReply(n, s, m)
           /\ UNCHANGED <<promises, votes, contextVars, proposerVars>>
  <2>1. /\ StorageTypeOK' /\ StateMachineTypeOK' /\ inst' \in [Node -> InstOrEnd]
        /\ acc' \in [Node -> State] /\ LearnerTypeOK' /\ net' \in Network
    BY <1>3, OnAskForLearnReplyType
  <2> QED
    BY <1>3, <2>1
    DEF Network, TypeOK, RoleTypeOK, AccepterTypeOK, ContextTypeOK, ProposerTypeOK,
        contextVars, proposerVars
<1> QED BY <1>1, <1>2, <1>3 DEF OnLearnerMessage

LEMMA OnOtherInstanceType ==
  ASSUME TypeOK, NEW n \in Node, NEW s \in Node, net[s][n] # <<>>,
         NEW m \in Message, OnOtherInstance(n, s, m), UNCHANGED <<up, breaks, crashes>>
  PROVE  TypeOK'
<1>1. net' \in Network
  BY ReceivedType, TypeFacts DEF OnOtherInstance
<1> QED
  BY <1>1
  DEF OnOtherInstance, Network, TypeOK, RoleTypeOK, StorageTypeOK, AccepterTypeOK,
      ContextTypeOK, ProposerTypeOK, LearnerTypeOK, StateMachineTypeOK,
      accepterVars, contextVars, proposerVars, stateMachineVars

LEMMA OnMessageType ==
  ASSUME TypeOK, NEW s \in Node, NEW n \in Node, OnMessage(s, n)
  PROVE  TypeOK'
<1> DEFINE m == Head(net[s][n])
<1>1. net[s][n] # <<>> /\ m \in Message /\ UNCHANGED <<up, breaks, crashes>>
  BY ReceivedType, TypeFacts DEF OnMessage
<1>2. \/ OnOtherInstance(n, s, m) \/ OnProposerMessage(n, s, m)
      \/ OnAccepterMessage(n, s, m) \/ OnLearn(n, s, m) \/ OnLearnerMessage(n, s, m)
  BY DEF OnMessage
<1> HIDE DEF m
<1> QED
  BY <1>1, <1>2, OnOtherInstanceType, OnProposerMessageType, OnAccepterMessageType,
     OnLearnType, OnLearnerMessageType
-----------------------------------------------------------------------------
(* Crash and restart. *)

LEMMA CrashType ==
  ASSUME TypeOK, NEW n \in Node, Crash(n)
  PROVE  TypeOK'
<1>1. StorageTypeOK' /\ StateMachineTypeOK' /\ inst' \in [Node -> InstOrEnd]
  <2>1. CASE UNCHANGED <<inst, storage, stateMachineVars>>
    BY <2>1 DEF TypeOK, RoleTypeOK, StorageTypeOK, StateMachineTypeOK, stateMachineVars
  <2>2. CASE CrashWhileLearning(n)
    <3>1. PICK s \in Node : /\ net[s][n] # <<>>
                            /\ Head(net[s][n]).type = "ASK_FOR_LEARN_REPLY"
                            /\ \E k \in 1 .. Len(NewStates(n, Head(net[s][n]))) :
                                  Learned(n, Head(net[s][n]), k, k - 1)
      BY <2>2 DEF CrashWhileLearning
    <3> DEFINE m == Head(net[s][n])
    <3>2. m \in LearnReply
      BY <3>1, ReceivedType, TypeFacts, MessageFields
    <3>3. PICK k \in 1 .. Len(NewStates(n, m)) : Learned(n, m, k, k - 1)
      BY <3>1
    <3> HIDE DEF m
    <3>4. k \in 0 .. Len(NewStates(n, m)) /\ k - 1 \in 0 .. Len(NewStates(n, m))
      BY <3>2, NewStatesType
    <3> QED BY <3>2, <3>3, <3>4, LearnedType
  <2> QED BY <2>1, <2>2 DEF Crash
<1>2. net' \in Network
  <2>1. \A s \in Node : [net[s] EXCEPT ![n] = <<>>] \in [Node -> Seq(Message)]
    BY TypeFacts, EmptySeq
  <2> QED BY <2>1, TypeFacts DEF Crash
<1>3. acc' \in [Node -> State] /\ UNCHANGED <<promises, votes>>
  BY EmptyStateType DEF Crash, TypeOK, AccepterTypeOK
<1>4. ContextTypeOK'
  <2>1. NoCall \in Call
    BY MaxInstAssumption DEF NoCall, Call, InstOrEnd, AnyValue, NotSuccess
  <2>2. NoTimers \in Timers
    BY DEF NoTimers, Timers
  <2> QED BY <2>1, <2>2 DEF Crash, TypeOK, ContextTypeOK
<1>5. ProposerTypeOK'
  <2>1. [NoRound EXCEPT !.id = prop[n].id] \in ProposerState
    BY DEF TypeOK, ProposerTypeOK, ProposerState, NoRound, AnyValue
  <2> QED BY <2>1, EmptyBallotType DEF Crash, TypeOK, ProposerTypeOK
<1>6. LearnerTypeOK'
  <2>1. NothingSeen \in LearnerState /\ ~(NothingSeen.seen > 0)
    BY MaxInstAssumption DEF NothingSeen, LearnerState, InstOrEnd
  <2> QED BY <2>1 DEF Crash, TypeOK, LearnerTypeOK
<1>7. up' \in [Node -> BOOLEAN] /\ UNCHANGED breaks /\ crashes' \in 0 .. MaxCrashes
  BY CrashAssumption DEF Crash, TypeOK, RoleTypeOK
<1> QED
  BY <1>1, <1>2, <1>3, <1>4, <1>5, <1>6, <1>7
  DEF Network, TypeOK, RoleTypeOK, AccepterTypeOK

\* What Init executes ends with the last record.
LEMMA ReplayedType ==
  ASSUME TypeOK, NEW n \in Node
  PROVE  /\ Replayed(n) \in Seq(AnyValue) /\ Len(Replayed(n)) \in Nat
         /\ cp[n] \in Inst /\ cp[n] + 1 + Len(Replayed(n)) <= MaxInst + 1
<1> USE MaxInstAssumption
<1> DEFINE max == GetMaxInstanceId(n)
           v == LoadLastState(n).proposal.value
           k == IF LoadLastState(n).accepted /\ cp[n] < max THEN max - cp[n] ELSE 0
<1>1. max \in Inst /\ cp[n] \in Inst /\ v \in AnyValue
  BY LastRecordType DEF TypeOK, StateMachineTypeOK, State, Proposal
<1>2. k \in Nat /\ cp[n] + 1 + k <= MaxInst + 1
  <2> HIDE DEF max
  <2> QED BY <1>1 DEF Inst
<1>3. Replayed(n) = [j \in 1 .. k |-> v]
  BY DEF Replayed
<1> HIDE DEF k, v
<1>4. Replayed(n) \in [1 .. k -> AnyValue]
  BY <1>1, <1>3
<1>5. Replayed(n) \in Seq(AnyValue)
  BY <1>2, <1>4, SeqDef
<1>6. Len(Replayed(n)) = k
  BY <1>2, <1>4, <1>5, LenProperties
<1> QED BY <1>1, <1>2, <1>5, <1>6

LEMMA RestartType ==
  ASSUME TypeOK, NEW n \in Node, Restart(n)
  PROVE  TypeOK'
<1> USE MaxInstAssumption
<1> DEFINE max == GetMaxInstanceId(n)
           last == LoadLastState(n)
           todo == Replayed(n)
<1>1. max \in Inst /\ last \in State
  BY LastRecordType DEF TypeOK
<1>2. /\ todo \in Seq(AnyValue) /\ Len(todo) \in Nat
      /\ cp[n] \in Inst /\ cp[n] + 1 + Len(todo) <= MaxInst + 1
  BY ReplayedType
<1> HIDE DEF max, last, todo
<1>3. ASSUME NEW vals \in Seq(AnyValue), Len(vals) <= Len(todo), Len(vals) \in Nat,
             ExecuteAll(n, cp[n] + 1, vals)
      PROVE  StateMachineTypeOK'
  <2>1. cp[n] \in Nat /\ cp[n] + 1 \in Nat
    BY <1>2 DEF Inst
  <2>2. cp[n] + 1 + Len(vals) <= MaxInst + 1
    BY <1>2, <1>3, <2>1
  <2> QED BY <1>3, <2>1, <2>2, ExecuteAllType DEF TypeOK
<1>4. CASE /\ ExecuteAll(n, cp[n] + 1, todo)
           /\ up' = [up EXCEPT ![n] = TRUE]
           /\ inst' = [inst EXCEPT ![n] = IF last.accepted THEN max + 1 ELSE max]
           /\ acc' = [acc EXCEPT ![n] = IF last.accepted THEN EmptyState ELSE last]
           /\ \E heard \in SUBSET (Running \cup {n}) :
                net' = Send(net, n, heard,
                            [type |-> "ASK_FOR_INSTANCE_ID", my |-> inst'[n]])
  <2>1. StateMachineTypeOK'
    BY <1>2, <1>3, <1>4
  <2>2. inst' \in [Node -> InstOrEnd]
    <3>1. max \in InstOrEnd /\ max + 1 \in InstOrEnd
      BY <1>1 DEF Inst, InstOrEnd
    <3> QED BY <1>4, <3>1, TypeFacts
  <2>3. net' \in Network
    BY <1>4, <2>2, TypeFacts, LearnerMessages, SendType
  <2>4. acc' \in [Node -> State] /\ up' \in [Node -> BOOLEAN]
    BY <1>1, <1>4, EmptyStateType DEF TypeOK, AccepterTypeOK, RoleTypeOK
  <2> QED
    BY <2>1, <2>2, <2>3, <2>4
    DEF Restart, Network, TypeOK, RoleTypeOK, StorageTypeOK, AccepterTypeOK,
        ContextTypeOK, ProposerTypeOK, LearnerTypeOK, contextVars, proposerVars
<1>5. ASSUME NEW k \in 0 .. (Len(todo) - 1), ExecuteAll(n, cp[n] + 1, SubSeq(todo, 1, k)),
             UNCHANGED <<up, inst, acc, net>>
      PROVE  TypeOK'
  <2>1. SubSeq(todo, 1, k) \in Seq(AnyValue) /\ Len(SubSeq(todo, 1, k)) = k
    <3>1. \A i \in 1 .. k : todo[i] \in AnyValue
      BY <1>2, ElementOfSeq
    <3> QED BY <1>2, <3>1, SubSeqProperties
  <2>2. k \in Nat /\ k <= Len(todo)
    BY <1>2
  <2>3. StateMachineTypeOK'
    BY <1>3, <1>5, <2>1, <2>2
  <2> QED
    BY <1>5, <2>3
    DEF Restart, TypeOK, RoleTypeOK, StorageTypeOK, AccepterTypeOK, ContextTypeOK,
        ProposerTypeOK, LearnerTypeOK, contextVars, proposerVars
<1> QED BY <1>4, <1>5 DEF Restart, max, last, todo
-----------------------------------------------------------------------------
LEMMA InitType == Init => TypeOK
<1> USE MaxInstAssumption, MaxBreaksAssumption, CrashAssumption
<1> SUFFICES ASSUME Init PROVE TypeOK
  OBVIOUS
<1>1. RoleTypeOK
  BY EmptySeq DEF Init, RoleInit, RoleTypeOK, InstOrEnd
<1>2. StorageTypeOK /\ AccepterTypeOK
  BY EmptyStateType DEF Init, StorageInit, StorageTypeOK, AccepterInit, AccepterTypeOK
<1>3. ContextTypeOK
  BY DEF Init, ContextInit, ContextTypeOK, NoCall, Call, NoTimers, Timers, InstOrEnd,
         AnyValue, NotSuccess
<1>4. ProposerTypeOK
  BY EmptyBallotType
  DEF Init, ProposerInit, ProposerTypeOK, NoRound, ProposerState, AnyValue
<1>5. LearnerTypeOK
  BY DEF Init, LearnerInit, LearnerTypeOK, NothingSeen, LearnerState, InstOrEnd
<1>6. StateMachineTypeOK
  BY EmptySeq DEF Init, StateMachineInit, StateMachineTypeOK, Inst
<1>7. crashes \in 0 .. MaxCrashes
  BY DEF Init
<1> QED BY <1>1, <1>2, <1>3, <1>4, <1>5, <1>6, <1>7 DEF TypeOK

LEMMA NextType == TypeOK /\ [Next]_vars => TypeOK'
<1> SUFFICES ASSUME TypeOK, [Next]_vars PROVE TypeOK'
  OBVIOUS
<1>1. CASE UNCHANGED vars
  BY <1>1
  DEF vars, TypeOK, RoleTypeOK, StorageTypeOK, AccepterTypeOK, ContextTypeOK,
      ProposerTypeOK, LearnerTypeOK, StateMachineTypeOK, accepterVars, contextVars,
      proposerVars, stateMachineVars
<1>2. CASE Next
  BY <1>2, ClientStepType, ProposeTimeoutStepType, AskStepType, OnMessageType,
     BreakStepType, CrashType, RestartType
  DEF Next
<1> QED BY <1>1, <1>2

\* Whatever messages are lost and whoever crashes, every variable of a group
\* stays in its type; in particular no instance, no catch-up reply and no
\* execution lies beyond the last instance, no record that does not exist is
\* sent to a learner (OnAskForLearn), and a node that has seen an instance id
\* knows whom to ask.
THEOREM TypeCorrect == Spec => []TypeOK
  BY InitType, NextType, PTL DEF Spec
-----------------------------------------------------------------------------
(* The messages on their way. *)

LEMMA SendCarries ==
  ASSUME NEW nt \in Network, NEW n \in Node, NEW dests, NEW m \in Message,
         NEW a \in Node, NEW b \in Node
  PROVE  Carried(Send(nt, n, dests, m), a, b) \subseteq
           Carried(nt, a, b) \cup (IF a = n /\ b \in dests THEN {m} ELSE {})
<1>1. CASE a = n /\ b \in dests
  <2>1. nt[n][b] \in Seq(Message)
    BY <1>1 DEF Network
  <2>2. Send(nt, n, dests, m)[a][b] = Append(nt[n][b], m)
    BY <1>1 DEF Send, Network
  <2>3. /\ DOMAIN Append(nt[n][b], m) = 1 .. (Len(nt[n][b]) + 1)
        /\ DOMAIN nt[n][b] = 1 .. Len(nt[n][b]) /\ Len(nt[n][b]) \in Nat
        /\ \A j \in 1 .. Len(nt[n][b]) : Append(nt[n][b], m)[j] = nt[n][b][j]
        /\ Append(nt[n][b], m)[Len(nt[n][b]) + 1] = m
    BY <2>1, AppendProperties, LenProperties
  <2>4. \A j \in 1 .. (Len(nt[n][b]) + 1) :
          j \in 1 .. Len(nt[n][b]) \/ j = Len(nt[n][b]) + 1
    BY <2>3
  <2> QED BY <1>1, <2>2, <2>3, <2>4 DEF Carried
<1>2. CASE ~(a = n /\ b \in dests)
  <2>1. Send(nt, n, dests, m)[a][b] = nt[a][b]
    BY <1>2 DEF Send, Network
  <2> QED BY <1>2, <2>1 DEF Carried
<1> QED BY <1>1, <1>2

LEMMA SubSeqCarries ==
  ASSUME NEW S, NEW q \in Seq(S), NEW i \in Nat, NEW k \in Int, i >= 1, k <= Len(q)
  PROVE  {SubSeq(q, i, k)[j] : j \in DOMAIN SubSeq(q, i, k)} \subseteq {q[j] : j \in DOMAIN q}
<1> DEFINE t == SubSeq(q, i, k)
<1>1. /\ Len(q) \in Nat /\ DOMAIN q = 1 .. Len(q)
      /\ \A j \in i .. k : q[j] \in S
  BY LenProperties, ElementOfSeq
<1>2. /\ t \in Seq(S) /\ Len(t) = IF i <= k THEN k - i + 1 ELSE 0
      /\ \A j \in 1 .. k - i + 1 : t[j] = q[i + j - 1]
  BY <1>1, SubSeqProperties
<1>3. DOMAIN t = 1 .. Len(t)
  BY <1>2, LenProperties
<1> HIDE DEF t
<1>4. \A j \in DOMAIN t : i + j - 1 \in DOMAIN q /\ t[j] = q[i + j - 1]
  BY <1>1, <1>2, <1>3
<1> QED BY <1>4 DEF t

\* Handling the first message takes it away, and adds nothing.
LEMMA ReceivedCarries ==
  ASSUME net \in Network, NEW s \in Node, NEW n \in Node, net[s][n] # <<>>,
         NEW a \in Node, NEW b \in Node
  PROVE  /\ Carried(Received(s, n), a, b) \subseteq Carried(net, a, b)
         /\ Head(net[s][n]) \in Carried(net, s, n)
<1>1. net[s][n] \in Seq(Message) /\ Len(net[s][n]) \in Nat /\ Len(net[s][n]) >= 1
  BY EmptySeq, LenProperties DEF Network
<1>2. Head(net[s][n]) = net[s][n][1] /\ DOMAIN net[s][n] = 1 .. Len(net[s][n])
  BY <1>1, LenProperties
<1>3. Tail(net[s][n]) = SubSeq(net[s][n], 2, Len(net[s][n]))
  BY <1>1, TailIsSubSeq
<1>4. Carried(Received(s, n), a, b) \subseteq Carried(net, a, b)
  <2>1. CASE a = s /\ b = n
    <3>1. Received(s, n)[a][b] = Tail(net[s][n])
      BY <2>1 DEF Received, Network
    <3> QED BY <1>1, <1>3, <2>1, <3>1, SubSeqCarries DEF Carried
  <2>2. CASE ~(a = s /\ b = n)
    <3>1. Received(s, n)[a][b] = net[a][b]
      BY <2>2 DEF Received, Network
    <3> QED BY <3>1 DEF Carried
  <2> QED BY <2>1, <2>2
<1>5. Head(net[s][n]) \in Carried(net, s, n)
  BY <1>1, <1>2 DEF Carried
<1> QED BY <1>4, <1>5

\* The last step put m into the connection from a to b.
NewMessage(a, b, m) == m \in Carried(net', a, b) /\ m \notin Carried(net, a, b)

LEMMA OnlySent ==
  ASSUME NEW nt \in Network, \A a, b \in Node : Carried(nt, a, b) \subseteq Carried(net, a, b),
         NEW n \in Node, NEW dests, NEW x \in Message, net' = Send(nt, n, dests, x),
         NEW a \in Node, NEW b \in Node, NEW m, NewMessage(a, b, m)
  PROVE  a = n /\ b \in dests /\ m = x
<1>1. Carried(net', a, b) \subseteq
        Carried(nt, a, b) \cup (IF a = n /\ b \in dests THEN {x} ELSE {})
  BY SendCarries
<1> QED BY <1>1 DEF NewMessage

LEMMA OnlySentTo ==
  ASSUME NEW nt \in Network, \A a, b \in Node : Carried(nt, a, b) \subseteq Carried(net, a, b),
         NEW n \in Node, NEW r \in Node, NEW x \in Message, net' = SendMessageTo(nt, n, r, x),
         NEW a \in Node, NEW b \in Node, NEW m, NewMessage(a, b, m)
  PROVE  a = n /\ b = r /\ m = x
  BY OnlySent DEF SendMessageTo

LEMMA OnlyBroadcast ==
  ASSUME NEW nt \in Network, \A a, b \in Node : Carried(nt, a, b) \subseteq Carried(net, a, b),
         NEW n \in Node, NEW x \in Message, net' = Broadcast(nt, n, x),
         NEW a \in Node, NEW b \in Node, NEW m, NewMessage(a, b, m)
  PROVE  a = n /\ m = x
  BY OnlySent DEF Broadcast

\* The messages by which nodes catch up.
CatchUpTypes == {"ASK_FOR_INSTANCE_ID", "ASK_FOR_INSTANCE_ID_REPLY",
                 "ASK_FOR_LEARN", "ASK_FOR_LEARN_REPLY"}

\* Why a message was sent, for those messages that change what others have
\* promised, accepted or executed.
Explained(a, b, m) ==
  /\ m.type \in CatchUpTypes =>
       \/ a \in AskingNodes \/ Restart(a)
       \/ \E s \in Node : \E q \in Carried(net, s, a) : q.type \in CatchUpTypes
  /\ m.type = "PREPARE" => ProposalIds[a] # {}
  /\ m.type = "LEARN" => prop[a].stage = "Accepting"
  /\ m.type = "ACCEPT" =>
       /\ prop[a].stage = "Preparing" /\ prop'[a].stage = "Accepting"
       /\ m.proposal.id = prop[a].id /\ prop'[a].id = prop[a].id
       /\ m.inst = inst[a] /\ m.proposal.value = prop'[a].value
  /\ m.type = "ASK_FOR_LEARN" => m.from = inst'[a]
  /\ m.type = "ASK_FOR_LEARN_REPLY" =>
       /\ \/ m.start = 0
          \/ \E q \in Carried(net, b, a) : q.type = "ASK_FOR_LEARN" /\ m.start = q.from
       /\ Loaded(a, m)

LEMMA ReceivedFacts ==
  ASSUME TypeOK, NEW s \in Node, NEW n \in Node, net[s][n] # <<>>
  PROVE  /\ Received(s, n) \in Network
         /\ \A a, b \in Node : Carried(Received(s, n), a, b) \subseteq Carried(net, a, b)
         /\ Head(net[s][n]) \in Carried(net, s, n)
         /\ Head(net[s][n]) \in Message
  BY TypeFacts, ReceivedType, ReceivedCarries

LEMMA NothingNew ==
  ASSUME TypeOK, NEW s \in Node, NEW n \in Node, net[s][n] # <<>>, net' = Received(s, n),
         NEW a \in Node, NEW b \in Node, NEW m
  PROVE  ~NewMessage(a, b, m)
  BY ReceivedFacts DEF NewMessage

LEMMA ProposerMessages ==
  ASSUME TypeOK, NEW s \in Node, NEW n \in Node, net[s][n] # <<>>,
         NEW x \in Message, OnProposerMessage(n, s, x),
         NEW a \in Node, NEW b \in Node, NEW m, NewMessage(a, b, m)
  PROVE  Explained(a, b, m)
<1>1. inst[n] \in Inst
  BY MessageFields DEF OnProposerMessage
<1>2. CASE x.type = "PROMISED" /\ OnPromised(n, s, x)
  <2> DEFINE bl == IF x.accepted THEN VoteUpWith(ballot[n], s, x.proposal)
                                 ELSE VoteUp(ballot[n], s)
             v == GetChosenValue(bl, prop[n].value)
  <2>1. CASE net' = Received(s, n)
    BY <2>1, NothingNew
  <2>2. CASE /\ prop[n].stage = "Preparing"
             /\ prop' = [prop EXCEPT ![n].stage = "Accepting", ![n].value = v]
             /\ net' = Broadcast(Received(s, n), n,
                         [type |-> "ACCEPT", inst |-> inst[n],
                          proposal |-> [id |-> prop[n].id, value |-> v]])
    <3>1. prop' \in [Node -> ProposerState] /\ prop \in [Node -> ProposerState]
      BY <1>1, <1>2, OnPromisedType DEF ProposerTypeOK, TypeOK
    <3>2. /\ prop'[n].stage = "Accepting" /\ prop'[n].value = v
          /\ prop'[n].id = prop[n].id
      BY <2>2, <3>1 DEF ProposerState
    <3> HIDE DEF bl, v
    <3>3. [id |-> prop[n].id, value |-> v] \in Proposal
      BY <3>1, <3>2 DEF ProposerState, Proposal
    <3> DEFINE accept == [type |-> "ACCEPT", inst |-> inst[n],
                          proposal |-> [id |-> prop[n].id, value |-> v]]
    <3>4. accept \in Message
      BY <1>1, <3>3, InstanceMessages
    <3>5. a = n /\ m = accept
      <4> HIDE DEF accept
      <4>1. net' = Broadcast(Received(s, n), n, accept)
        BY <2>2 DEF accept
      <4> QED BY <3>4, <4>1, ReceivedFacts, OnlyBroadcast
    <3> QED BY <2>2, <3>2, <3>5 DEF Explained, CatchUpTypes
  <2> QED BY <1>2, <2>1, <2>2 DEF OnPromised, Accept, Skipped
<1>3. CASE x.type = "ACCEPTED" /\ OnAccepted(n, s)
  <2>1. CASE net' = Received(s, n)
    BY <2>1, NothingNew
  <2>2. CASE /\ prop[n].stage = "Accepting"
             /\ net' = Broadcast(Received(s, n), n, [type |-> "LEARN", inst |-> inst[n]])
    <3> DEFINE learn == [type |-> "LEARN", inst |-> inst[n]]
    <3>1. learn \in Message /\ learn.type = "LEARN"
      BY <1>1, InstanceMessages
    <3>2. a = n /\ m = learn
      <4> HIDE DEF learn
      <4>1. net' = Broadcast(Received(s, n), n, learn)
        BY <2>2 DEF learn
      <4> QED BY <3>1, <4>1, ReceivedFacts, OnlyBroadcast
    <3> QED BY <2>2, <3>1, <3>2 DEF Explained, CatchUpTypes
  <2> QED BY <1>3, <2>1, <2>2 DEF OnAccepted, Learn, Skipped
<1>4. CASE OnRejectPromise(n, s) \/ OnRejectAccept(n, s)
  <2>1. net' = Received(s, n)
    BY <1>4 DEF OnRejectPromise, OnRejectAccept, Rejected, Skipped
  <2> QED BY <2>1, NothingNew
<1> QED BY <1>2, <1>3, <1>4 DEF OnProposerMessage

LEMMA AccepterMessages ==
  ASSUME TypeOK, NEW s \in Node, NEW n \in Node, net[s][n] # <<>>,
         NEW x \in Message, OnAccepterMessage(n, s, x),
         NEW a \in Node, NEW b \in Node, NEW m, NewMessage(a, b, m)
  PROVE  Explained(a, b, m)
<1>1. inst[n] \in Inst
  BY MessageFields DEF OnAccepterMessage
<1>2. CASE OnPrepare(n, s, x)
  <2> DEFINE yes == [type |-> "PROMISED", inst |-> inst[n],
                     accepted |-> acc[n].accepted, proposal |-> acc[n].proposal]
             no == [type |-> "REJECT_PROMISE", inst |-> inst[n]]
  <2>1. yes \in Message /\ no \in Message
    BY <1>1, InstanceMessages DEF TypeOK, AccepterTypeOK, State
  <2>2. yes.type = "PROMISED" /\ no.type = "REJECT_PROMISE"
    OBVIOUS
  <2>3. \/ net' = SendMessageTo(Received(s, n), n, s, yes)
        \/ net' = SendMessageTo(Received(s, n), n, s, no)
    BY <1>2 DEF OnPrepare, ReplyPromised, ReplyRejectPromise
  <2> HIDE DEF yes, no
  <2>4. m = yes \/ m = no
    BY <2>1, <2>3, ReceivedFacts, OnlySentTo
  <2> QED BY <2>2, <2>4 DEF Explained, CatchUpTypes
<1>3. CASE OnAccept(n, s, x)
  <2> DEFINE yes == [type |-> "ACCEPTED", inst |-> inst[n]]
             no == [type |-> "REJECT_ACCEPT", inst |-> inst[n]]
  <2>1. yes \in Message /\ no \in Message
    BY <1>1, InstanceMessages
  <2>2. yes.type = "ACCEPTED" /\ no.type = "REJECT_ACCEPT"
    OBVIOUS
  <2>3. \/ net' = SendMessageTo(Received(s, n), n, s, yes)
        \/ net' = SendMessageTo(Received(s, n), n, s, no)
    BY <1>3 DEF OnAccept, ReplyAccepted, ReplyRejectAccept
  <2> HIDE DEF yes, no
  <2>4. m = yes \/ m = no
    BY <2>1, <2>3, ReceivedFacts, OnlySentTo
  <2> QED BY <2>2, <2>4 DEF Explained, CatchUpTypes
<1> QED BY <1>2, <1>3 DEF OnAccepterMessage

LEMMA SeenMessages ==
  ASSUME NEW nt \in Network, NEW n \in Node, NEW l, NEW i \in InstOrEnd,
         NEW a \in Node, NEW b \in Node, NEW m \in Carried(AskForLearn(nt, n, l, i), a, b)
  PROVE  m \in Carried(nt, a, b) \/ (a = n /\ m = [type |-> "ASK_FOR_LEARN", from |-> i])
<1> DEFINE ask == [type |-> "ASK_FOR_LEARN", from |-> i]
<1>1. ask \in Message
  BY LearnerMessages
<1> HIDE DEF ask
<1>2. CASE AskForLearn(nt, n, l, i) = nt
  BY <1>2
<1>3. CASE AskForLearn(nt, n, l, i) = SendMessageTo(nt, n, l.seenNode, ask)
  <2>1. Carried(AskForLearn(nt, n, l, i), a, b) \subseteq
          Carried(nt, a, b) \cup
            (IF a = n /\ b \in {l.seenNode} \cap Running THEN {ask} ELSE {})
    BY <1>1, <1>3, SendCarries DEF SendMessageTo
  <2> QED BY <2>1 DEF ask
<1> QED BY <1>2, <1>3 DEF AskForLearn, ask

LEMMA LearnerStepMessages ==
  ASSUME TypeOK, NEW s \in Node, NEW n \in Node, net[s][n] # <<>>,
         NEW x, x = Head(net[s][n]), OnLearnerMessage(n, s, x),
         NEW a \in Node, NEW b \in Node, NEW m, NewMessage(a, b, m)
  PROVE  Explained(a, b, m)
<1>1. x \in Message /\ x \in Carried(net, s, n) /\ x.type \in CatchUpTypes
  BY ReceivedFacts DEF OnLearnerMessage, CatchUpTypes
<1>2. CASE /\ x.type = "ASK_FOR_INSTANCE_ID" /\ OnAskForInstanceID(n, s, x)
           /\ UNCHANGED inst
  <2> DEFINE reply == [type |-> "ASK_FOR_INSTANCE_ID_REPLY", my |-> inst[n]]
             nt == AskForLearn(Received(s, n), n, Seen(lrn[n], s, x.my), inst[n])
  <2>1. reply \in Message /\ reply.type = "ASK_FOR_INSTANCE_ID_REPLY"
    BY LearnerMessages, LearnerFacts
  <2>2. nt \in Network /\ inst[n] \in InstOrEnd
    BY ReceivedFacts, AskForLearnType, LearnerFacts
  <2>3. net' = SendMessageTo(nt, n, s, reply)
    BY <1>2 DEF OnAskForInstanceID
  <2>4. ASSUME m \in Carried(nt, a, b)
        PROVE  \/ m \in Carried(net, a, b)
               \/ a = n /\ m = [type |-> "ASK_FOR_LEARN", from |-> inst[n]]
    <3>1. \/ m \in Carried(Received(s, n), a, b)
          \/ a = n /\ m = [type |-> "ASK_FOR_LEARN", from |-> inst[n]]
      BY <2>2, <2>4, ReceivedFacts, SeenMessages
    <3> QED BY <3>1, ReceivedFacts
  <2> HIDE DEF reply, nt
  <2>5. m \in Carried(nt, a, b) \/ (a = n /\ m = reply)
    <3>1. Carried(net', a, b) \subseteq Carried(nt, a, b) \cup
            (IF a = n /\ b \in {s} \cap Running THEN {reply} ELSE {})
      BY <2>1, <2>2, <2>3, SendCarries DEF SendMessageTo
    <3> QED BY <3>1 DEF NewMessage
  <2>6. CASE a = n /\ m = reply
    BY <1>1, <2>1, <2>6 DEF Explained
  <2>7. CASE a = n /\ m = [type |-> "ASK_FOR_LEARN", from |-> inst[n]]
    BY <1>1, <1>2, <2>7 DEF Explained
  <2> QED BY <2>4, <2>5, <2>6, <2>7 DEF NewMessage
<1>3. ASSUME NEW l, NEW i \in InstOrEnd, i = inst'[n],
             OnSeenOthersInstanceID(n, Received(s, n), l, i, s, x.my)
      PROVE  Explained(a, b, m)
  <2>1. \/ m \in Carried(Received(s, n), a, b)
        \/ a = n /\ m = [type |-> "ASK_FOR_LEARN", from |-> i]
    BY <1>3, ReceivedFacts, SeenMessages DEF NewMessage, OnSeenOthersInstanceID
  <2>2. a = n /\ m = [type |-> "ASK_FOR_LEARN", from |-> i]
    BY <2>1, ReceivedFacts DEF NewMessage
  <2> QED BY <1>1, <1>3, <2>2 DEF Explained
<1>4. CASE /\ x.type = "ASK_FOR_INSTANCE_ID_REPLY" /\ OnAskForInstanceIDReply(n, s, x)
           /\ UNCHANGED inst
  BY <1>3, <1>4, LearnerFacts DEF OnAskForInstanceIDReply
<1>5. CASE x.type = "ASK_FOR_LEARN" /\ OnAskForLearn(n, s, x)
  <2>1. CASE net' = Received(s, n)
    BY <2>1, NothingNew
  <2>2. ASSUME NEW y \in Message, net' = SendMessageTo(Received(s, n), n, s, y),
               y.type = "ASK_FOR_LEARN_REPLY", y.start \in {0, x.from}, Loaded(n, y)
        PROVE  Explained(a, b, m)
    <3>1. a = n /\ b = s /\ m = y
      BY <2>2, ReceivedFacts, OnlySentTo
    <3> QED BY <1>1, <1>5, <2>2, <3>1 DEF Explained
  <2> QED BY <1>1, <1>5, <2>1, <2>2, AskForLearnAnswer
<1>6. CASE x.type = "ASK_FOR_LEARN_REPLY" /\ OnAskForLearnReply(n, s, x)
  <2>1. inst' \in [Node -> InstOrEnd]
    BY <1>1, <1>6, OnAskForLearnReplyType
  <2>2. CASE net' = Received(s, n)
    BY <2>2, NothingNew
  <2>3. CASE OnSeenOthersInstanceID(n, Received(s, n), Answered(lrn[n]), inst'[n], s, x.my)
    BY <1>3, <2>1, <2>3
  <2> QED BY <1>6, <2>2, <2>3 DEF OnAskForLearnReply
<1> QED BY <1>2, <1>4, <1>5, <1>6 DEF OnLearnerMessage

\* Every message that was sent by the last step is explained by it.
LEMMA NewMessages ==
  ASSUME TypeOK, Next, NEW a \in Node, NEW b \in Node, NEW m, NewMessage(a, b, m)
  PROVE  Explained(a, b, m)
<1>1. ASSUME NEW n \in Node, ClientStep(n) PROVE Explained(a, b, m)
  <2>1. CASE \E v \in Value : Propose(n, v)
    <3>1. PICK id \in RespawnProposalId(n) :
            net' = Broadcast(net, n, [type |-> "PREPARE", inst |-> inst[n], id |-> id])
      BY <2>1 DEF Propose
    <3> DEFINE prepare == [type |-> "PREPARE", inst |-> inst[n], id |-> id]
    <3>2. inst[n] \in Inst /\ id \in Nat
      BY <2>1, TypeFacts, IdAssumption DEF Propose, RespawnProposalId
    <3>3. prepare \in Message /\ prepare.type = "PREPARE"
      BY <3>2, InstanceMessages
    <3> HIDE DEF prepare
    <3>4. net' = Broadcast(net, n, prepare)
      BY <3>1 DEF prepare
    <3>5. a = n /\ m = prepare
      BY <3>3, <3>4, TypeFacts, OnlyBroadcast
    <3>6. ProposalIds[n] # {}
      BY <3>1 DEF RespawnProposalId
    <3> QED BY <3>3, <3>5, <3>6 DEF Explained, CatchUpTypes
  <2>2. CASE UNCHANGED net
    BY <2>2 DEF NewMessage
  <2> QED BY <1>1, <2>1, <2>2 DEF ClientStep
<1>2. ASSUME NEW n \in Node, ProposeTimeoutStep(n) PROVE Explained(a, b, m)
  BY <1>2 DEF ProposeTimeoutStep, NewMessage
<1>3. ASSUME NEW n \in Node, NEW x \in Message, x.type = "ASK_FOR_INSTANCE_ID",
             NEW dests, net' = Send(net, n, dests, x), n \in AskingNodes \/ Restart(n)
      PROVE  Explained(a, b, m)
  <2>1. a = n /\ m = x
    BY <1>3, TypeFacts, OnlySent
  <2> QED BY <1>3, <2>1 DEF Explained
<1>4. ASSUME NEW n \in Node, AskStep(n) PROVE Explained(a, b, m)
  <2>1. [type |-> "ASK_FOR_INSTANCE_ID", my |-> inst[n]] \in Message
    BY LearnerFacts, LearnerMessages
  <2> QED BY <1>3, <1>4, <2>1 DEF AskStep, AskForInstanceID, Broadcast
<1>5. ASSUME NEW s \in Node, NEW n \in Node, OnMessage(s, n) PROVE Explained(a, b, m)
  <2> DEFINE x == Head(net[s][n])
  <2>1. net[s][n] # <<>> /\ x \in Message
    BY <1>5, ReceivedFacts DEF OnMessage
  <2>2. \/ OnOtherInstance(n, s, x) \/ OnProposerMessage(n, s, x)
        \/ OnAccepterMessage(n, s, x) \/ OnLearn(n, s, x) \/ OnLearnerMessage(n, s, x)
    BY <1>5 DEF OnMessage
  <2>3. CASE OnOtherInstance(n, s, x) \/ OnLearn(n, s, x)
    <3>1. net' = Received(s, n)
      BY <2>3 DEF OnOtherInstance, OnLearn
    <3> QED BY <2>1, <3>1, NothingNew
  <2>4. CASE OnLearnerMessage(n, s, x)
    BY <2>1, <2>4, LearnerStepMessages
  <2> HIDE DEF x
  <2> QED BY <2>1, <2>2, <2>3, <2>4, ProposerMessages, AccepterMessages
<1>6. ASSUME NEW s \in Node, NEW n \in Node, BreakStep(s, n) PROVE Explained(a, b, m)
  <2>1. PICK k \in 0 .. (Len(net[s][n]) - 1) :
          net' = [net EXCEPT ![s][n] = SubSeq(net[s][n], 1, k)]
    BY <1>6 DEF BreakStep, Break
  <2>2. net[s][n] \in Seq(Message) /\ k \in Int /\ k <= Len(net[s][n])
    BY <2>1, TypeFacts, LenProperties
  <2>3. CASE a = s /\ b = n
    <3>1. net'[a][b] = SubSeq(net[a][b], 1, k)
      BY <2>1, <2>3, TypeFacts
    <3> QED BY <2>2, <2>3, <3>1, SubSeqCarries DEF NewMessage, Carried
  <2>4. CASE ~(a = s /\ b = n)
    <3>1. net'[a][b] = net[a][b]
      BY <2>1, <2>4, TypeFacts
    <3> QED BY <3>1 DEF NewMessage, Carried
  <2> QED BY <2>3, <2>4
<1>7. ASSUME NEW n \in Node, Crash(n) PROVE Explained(a, b, m)
  <2>1. net'[a][b] = net[a][b] \/ net'[a][b] = <<>>
    BY <1>7, TypeFacts DEF Crash
  <2> QED BY <2>1 DEF NewMessage, Carried
<1>8. ASSUME NEW n \in Node, Restart(n) PROVE Explained(a, b, m)
  <2>1. CASE UNCHANGED net
    BY <2>1 DEF NewMessage
  <2>2. CASE \E heard \in SUBSET (Running \cup {n}) :
               net' = Send(net, n, heard, [type |-> "ASK_FOR_INSTANCE_ID", my |-> inst'[n]])
    <3>1. inst'[n] \in InstOrEnd
      BY <1>8, RestartType DEF TypeOK, RoleTypeOK
    <3>2. [type |-> "ASK_FOR_INSTANCE_ID", my |-> inst'[n]] \in Message
      BY <3>1, LearnerMessages
    <3> QED BY <1>3, <1>8, <2>2, <3>2
  <2> QED BY <1>8, <2>1, <2>2 DEF Restart
<1> QED BY <1>1, <1>2, <1>4, <1>5, <1>6, <1>7, <1>8 DEF Next
-----------------------------------------------------------------------------
(* What a step does to the accepters and the proposers. *)

\* A vote is for a proposal that was on its way and that its node had not
\* promised against.
LEMMA NewVotes ==
  ASSUME TypeOK, Next, NEW v \in votes', v \notin votes
  PROVE  /\ v.node \in Node /\ up[v.node]
         /\ v.inst = inst[v.node] /\ acc[v.node].promisedId <= v.id
         /\ \E s \in Node : \E m \in Carried(net, s, v.node) :
              /\ m.type = "ACCEPT" /\ m.inst = v.inst
              /\ m.proposal.id = v.id /\ m.proposal.value = v.value
<1>1. PICK s \in Node, n \in Node : OnMessage(s, n)
  BY DEF Next, ClientStep, ProposeTimeoutStep, AskStep, BreakStep, Crash, Restart,
         accepterVars
<1> DEFINE x == Head(net[s][n])
<1>2. net[s][n] # <<>> /\ x \in Message /\ x \in Carried(net, s, n) /\ up[n]
  BY <1>1, ReceivedFacts DEF OnMessage
<1>3. OnAccepterMessage(n, s, x)
  BY <1>1 DEF OnMessage, OnOtherInstance, OnProposerMessage, OnLearn, OnLearnerMessage,
              accepterVars
<1> HIDE DEF x
<1>4. x.type = "ACCEPT" /\ OnAccept(n, s, x) /\ x.inst = inst[n]
  BY <1>3 DEF OnAccepterMessage, OnPrepare, accepterVars
<1>5. /\ acc[n].promisedId <= x.proposal.id
      /\ votes' = votes \cup {[node |-> n, inst |-> inst[n],
                               id |-> x.proposal.id, value |-> x.proposal.value]}
  BY <1>4 DEF OnAccept, accepterVars
<1>6. v = [node |-> n, inst |-> inst[n], id |-> x.proposal.id, value |-> x.proposal.value]
  BY <1>5
<1> QED BY <1>2, <1>4, <1>5, <1>6

\* A proposer without a number stays idle.
LEMMA IdleStays ==
  ASSUME TypeOK, Next, NEW n \in Node, ProposalIds[n] = {}, prop[n].stage = "Idle"
  PROVE  prop'[n].stage = "Idle"
<1>1. prop \in [Node -> ProposerState] /\ prop[n].stage = "Idle"
  BY DEF TypeOK, ProposerTypeOK
<1>2. ASSUME NEW r \in Node, ClientStep(r)
      PROVE  \/ UNCHANGED prop
             \/ r # n /\ \E x : prop' = [prop EXCEPT ![r] = x]
  <2>1. RespawnProposalId(n) = {}
    BY DEF RespawnProposalId
  <2> QED BY <1>2, <2>1 DEF ClientStep, Propose, proposerVars
<1>3. ASSUME NEW s \in Node, NEW r \in Node, OnMessage(s, r)
      PROVE  \/ UNCHANGED prop
             \/ r # n /\ \E v : prop' = [prop EXCEPT ![r].stage = "Accepting", ![r].value = v]
             \/ prop' = [prop EXCEPT ![r].stage = "Idle"]
  BY <1>1, <1>3 DEF OnMessage, OnOtherInstance, OnProposerMessage, OnAccepterMessage, OnLearn,
              OnLearnerMessage, OnPromised, OnRejectPromise, OnRejectAccept, Rejected,
              OnAccepted, Skipped, proposerVars
<1>4. ASSUME NEW r \in Node, Crash(r)
      PROVE  prop' = [prop EXCEPT ![r] = [NoRound EXCEPT !.id = prop[r].id]]
  BY <1>4 DEF Crash
<1>5. ASSUME NEW r \in Node,
             \/ r # n /\ \E x : prop' = [prop EXCEPT ![r] = x]
             \/ r # n /\ \E v : prop' = [prop EXCEPT ![r].stage = "Accepting", ![r].value = v]
             \/ prop' = [prop EXCEPT ![r].stage = "Idle"]
             \/ prop' = [prop EXCEPT ![r] = [NoRound EXCEPT !.id = prop[r].id]]
      PROVE  prop'[n].stage = "Idle"
  BY <1>1, <1>5 DEF ProposerState, NoRound
<1>6. CASE UNCHANGED prop
  BY <1>1, <1>6
<1> QED
  BY <1>2, <1>3, <1>4, <1>5, <1>6
  DEF Next, ProposeTimeoutStep, AskStep, BreakStep, Restart, proposerVars

\* A proposer takes larger and larger numbers of its own.
LEMMA ProposalNumbers ==
  ASSUME TypeOK, Next, NEW n \in Node
  PROVE  \/ /\ prop'[n].id = prop[n].id
            /\ prop'[n].stage = "Preparing" => prop[n].stage = "Preparing"
         \/ prop'[n].id > prop[n].id /\ prop'[n].id \in ProposalIds[n]
<1>1. prop \in [Node -> ProposerState]
  BY DEF TypeOK, ProposerTypeOK
<1>2. ASSUME NEW r \in Node, ClientStep(r)
      PROVE  \/ UNCHANGED prop
             \/ \E v \in Value, id \in RespawnProposalId(r) :
                  prop' = [prop EXCEPT ![r] = [id |-> id, stage |-> "Preparing", value |-> v]]
  BY <1>2 DEF ClientStep, Propose, proposerVars
<1>3. ASSUME NEW s \in Node, NEW r \in Node, OnMessage(s, r)
      PROVE  \/ UNCHANGED prop
             \/ prop' = [prop EXCEPT ![r].stage = "Idle"]
             \/ \E v : prop' = [prop EXCEPT ![r].stage = "Accepting", ![r].value = v]
  BY <1>3 DEF OnMessage, OnOtherInstance, OnProposerMessage, OnAccepterMessage, OnLearn,
              OnLearnerMessage, OnPromised, OnRejectPromise, OnRejectAccept, Rejected,
              OnAccepted, Skipped, proposerVars
<1>4. ASSUME NEW r \in Node, Crash(r)
      PROVE  prop' = [prop EXCEPT ![r] = [NoRound EXCEPT !.id = prop[r].id]]
  BY <1>4 DEF Crash
<1>5. \/ UNCHANGED prop
      \/ \E r \in Node :
           \/ \E v \in Value, id \in RespawnProposalId(r) :
                prop' = [prop EXCEPT ![r] = [id |-> id, stage |-> "Preparing", value |-> v]]
           \/ prop' = [prop EXCEPT ![r].stage = "Idle"]
           \/ \E v : prop' = [prop EXCEPT ![r].stage = "Accepting", ![r].value = v]
           \/ prop' = [prop EXCEPT ![r] = [NoRound EXCEPT !.id = prop[r].id]]
  BY <1>2, <1>3, <1>4 DEF Next, ProposeTimeoutStep, AskStep, BreakStep, Restart, proposerVars
<1>6. ASSUME NEW r \in Node, NEW v, NEW id \in RespawnProposalId(r),
             prop' = [prop EXCEPT ![r] = [id |-> id, stage |-> "Preparing", value |-> v]]
      PROVE  IF r = n THEN prop'[n].id > prop[n].id /\ prop'[n].id \in ProposalIds[n]
                      ELSE prop'[n] = prop[n]
  BY <1>1, <1>6 DEF RespawnProposalId
<1>7. ASSUME NEW r \in Node, NEW stage, NEW v, stage # "Preparing",
             \/ prop' = [prop EXCEPT ![r].stage = stage]
             \/ prop' = [prop EXCEPT ![r].stage = stage, ![r].value = v]
             \/ prop' = [prop EXCEPT ![r] = [NoRound EXCEPT !.id = prop[r].id]]
      PROVE  IF r = n THEN prop'[n].id = prop[n].id /\ prop'[n].stage # "Preparing"
                      ELSE prop'[n] = prop[n]
  BY <1>1, <1>7 DEF ProposerState, NoRound
<1>8. CASE UNCHANGED prop
  BY <1>8
<1>9. ASSUME NEW r \in Node,
             \/ prop' = [prop EXCEPT ![r].stage = "Idle"]
             \/ \E v : prop' = [prop EXCEPT ![r].stage = "Accepting", ![r].value = v]
             \/ prop' = [prop EXCEPT ![r] = [NoRound EXCEPT !.id = prop[r].id]]
      PROVE  /\ prop'[n].id = prop[n].id
             /\ prop'[n].stage = "Preparing" => prop[n].stage = "Preparing"
  <2>1. "Idle" # "Preparing" /\ "Accepting" # "Preparing"
    OBVIOUS
  <2> QED BY <1>7, <1>9, <2>1
<1>10. ASSUME NEW r \in Node, NEW v \in Value, NEW id \in RespawnProposalId(r),
              prop' = [prop EXCEPT ![r] = [id |-> id, stage |-> "Preparing", value |-> v]]
       PROVE  \/ prop'[n] = prop[n]
              \/ prop'[n].id > prop[n].id /\ prop'[n].id \in ProposalIds[n]
  BY <1>6, <1>10
<1> QED BY <1>5, <1>8, <1>9, <1>10
-----------------------------------------------------------------------------
(* One value per proposal. *)

AcceptSent(m) == m.type = "ACCEPT" /\ \E a, b \in Node : m \in Carried(net, a, b)

\* The proposals that were made: those on their way and those accepted.
Proposed(i, id, v) ==
  \/ \E m \in Message : /\ AcceptSent(m)
                        /\ m.inst = i /\ m.proposal.id = id /\ m.proposal.value = v
  \/ \E w \in votes : w.inst = i /\ w.id = id /\ w.value = v

\* n took the number id, and has not got it or has left the first phase of it.
LeftPreparing(n, id) ==
  /\ id \in ProposalIds[n] /\ id <= prop[n].id
  /\ id = prop[n].id => prop[n].stage # "Preparing"

\* A proposer makes at most one proposal of a number: it makes it when it
\* leaves the first phase, and takes a larger number to get there again.
ProposedOnce ==
  /\ \A n \in Node : prop[n].stage = "Preparing" => prop[n].id \in ProposalIds[n]
  /\ \A i \in Inst, id \in Nat, v \in AnyValue : Proposed(i, id, v) =>
       /\ \E n \in Node : LeftPreparing(n, id)
       /\ \A j \in Inst, w \in AnyValue : Proposed(j, id, w) => j = i /\ w = v

\* A proposal is new only if a proposer has just left the first phase of it.
LEMMA NewProposals ==
  ASSUME TypeOK, Next, NEW i, NEW id, NEW v, Proposed(i, id, v)'
  PROVE  \/ Proposed(i, id, v)
         \/ \E n \in Node :
              /\ prop[n].stage = "Preparing" /\ prop'[n].stage = "Accepting"
              /\ prop[n].id = id /\ prop'[n].id = id
              /\ i = inst[n] /\ v = prop'[n].value
<1>1. ASSUME NEW m \in Message, m.type = "ACCEPT",
             NEW a \in Node, NEW b \in Node, m \in Carried(net', a, b),
             m.inst = i, m.proposal.id = id, m.proposal.value = v
      PROVE  \/ Proposed(i, id, v)
             \/ \E n \in Node :
                  /\ prop[n].stage = "Preparing" /\ prop'[n].stage = "Accepting"
                  /\ prop[n].id = id /\ prop'[n].id = id
                  /\ i = inst[n] /\ v = prop'[n].value
  <2>1. CASE m \in Carried(net, a, b)
    BY <1>1, <2>1 DEF Proposed, AcceptSent
  <2>2. CASE NewMessage(a, b, m)
    <3>1. Explained(a, b, m)
      BY <2>2, NewMessages
    <3> QED BY <1>1, <3>1 DEF Explained
  <2> QED BY <1>1, <2>1, <2>2 DEF NewMessage
<1>2. ASSUME NEW w \in votes', w.inst = i, w.id = id, w.value = v
      PROVE  Proposed(i, id, v)
  <2>1. CASE w \in votes
    BY <1>2, <2>1 DEF Proposed
  <2>2. CASE w \notin votes
    <3>1. PICK s \in Node, n \in Node : \E m \in Carried(net, s, n) :
            /\ m.type = "ACCEPT" /\ m.inst = i
            /\ m.proposal.id = id /\ m.proposal.value = v
      BY <1>2, <2>2, NewVotes
    <3>2. Carried(net, s, n) \subseteq Message
      <4>1. net[s][n] \in Seq(Message)
        BY TypeFacts
      <4> QED BY <4>1, LenProperties, ElementOfSeq DEF Carried
    <3> QED BY <3>1, <3>2 DEF Proposed, AcceptSent
  <2> QED BY <2>1, <2>2
<1>3. \/ \E m \in Message, a \in Node, b \in Node :
           /\ m.type = "ACCEPT" /\ m \in Carried(net', a, b)
           /\ m.inst = i /\ m.proposal.id = id /\ m.proposal.value = v
      \/ \E w \in votes' : w.inst = i /\ w.id = id /\ w.value = v
  BY DEF Proposed, AcceptSent, Carried
<1> QED BY <1>1, <1>2, <1>3

LEMMA ProposedOnceStep ==
  ASSUME DisjointIds, TypeOK, ProposedOnce, Next
  PROVE  ProposedOnce'
<1> DEFINE Fresh(n, i, id, v) ==
             /\ prop[n].stage = "Preparing" /\ prop'[n].stage = "Accepting"
             /\ prop[n].id = id /\ prop'[n].id = id
             /\ i = inst[n] /\ v = prop'[n].value
<1>1. \A i \in Inst, id \in Nat, v \in AnyValue : Proposed(i, id, v)' =>
        Proposed(i, id, v) \/ \E n \in Node : Fresh(n, i, id, v)
  BY NewProposals
<1>2. prop \in [Node -> ProposerState] /\ prop' \in [Node -> ProposerState]
  BY NextType DEF TypeOK, ProposerTypeOK
<1>3. \A n \in Node : prop[n].id \in Nat /\ prop'[n].id \in Nat
  BY <1>2 DEF ProposerState
<1>4. \A n \in Node : prop'[n].stage = "Preparing" => prop'[n].id \in ProposalIds[n]
  BY ProposalNumbers DEF ProposedOnce
<1>5. \A n \in Node, id \in Nat : LeftPreparing(n, id) => LeftPreparing(n, id)'
  BY <1>3, ProposalNumbers DEF LeftPreparing
<1>6. \A n \in Node, i \in Inst, id \in Nat, v \in AnyValue :
        Fresh(n, i, id, v) => LeftPreparing(n, id)' /\ ~LeftPreparing(n, id)
                              /\ id \in ProposalIds[n]
  BY <1>3 DEF LeftPreparing, ProposedOnce
<1>7. \A n, r \in Node, id \in Nat :
        LeftPreparing(n, id) /\ id \in ProposalIds[r] => n = r
  BY DisjointIds DEF DisjointIds, LeftPreparing
<1> HIDE DEF Fresh
<1>8. ASSUME NEW i \in Inst, NEW id \in Nat, NEW v \in AnyValue, Proposed(i, id, v)'
      PROVE  /\ \E n \in Node : LeftPreparing(n, id)'
             /\ \A j \in Inst, w \in AnyValue : Proposed(j, id, w)' => j = i /\ w = v
  <2>1. CASE Proposed(i, id, v)
    <3>1. PICK n \in Node : LeftPreparing(n, id)
      BY <2>1 DEF ProposedOnce
    <3>2. \A j \in Inst, w \in AnyValue : Proposed(j, id, w)' => Proposed(j, id, w)
      BY <1>1, <1>6, <1>7, <3>1
    <3> QED BY <1>5, <2>1, <3>1, <3>2 DEF ProposedOnce
  <2>2. CASE \E n \in Node : Fresh(n, i, id, v)
    <3>1. PICK n \in Node : Fresh(n, i, id, v)
      BY <2>2
    <3>2. \A j \in Inst, w \in AnyValue : ~Proposed(j, id, w)
      BY <1>6, <1>7, <3>1 DEF ProposedOnce
    <3>3. \A r \in Node, j \in Inst, w \in AnyValue : Fresh(r, j, id, w) => r = n
      BY <1>6, <3>1, DisjointIds DEF DisjointIds
    <3>4. \A j \in Inst, w \in AnyValue : Proposed(j, id, w)' => Fresh(n, j, id, w)
      BY <1>1, <3>2, <3>3
    <3> QED BY <1>6, <3>1, <3>4 DEF Fresh
  <2> QED BY <1>1, <1>8, <2>1, <2>2
<1> QED BY <1>4, <1>8 DEF ProposedOnce

LEMMA ProposedOnceInit == Init => ProposedOnce
<1> SUFFICES ASSUME Init PROVE ProposedOnce
  OBVIOUS
<1>1. \A i, id, v : ~Proposed(i, id, v)
  <2>1. \A a, b \in Node : Carried(net, a, b) = {}
    BY EmptySeq DEF Init, RoleInit, Carried
  <2> QED BY <2>1 DEF Init, AccepterInit, Proposed, AcceptSent
<1>2. \A n \in Node : prop[n].stage # "Preparing"
  BY DEF Init, ProposerInit, NoRound
<1> QED BY <1>1, <1>2 DEF ProposedOnce

LEMMA ProposedOnceVotes == TypeOK /\ ProposedOnce => OneValuePerProposal
<1> SUFFICES ASSUME TypeOK, ProposedOnce, NEW v \in votes, NEW w \in votes, v.id = w.id
             PROVE  v.inst = w.inst /\ v.value = w.value
  BY DEF OneValuePerProposal
<1>1. v \in Vote /\ w \in Vote
  BY DEF TypeOK, AccepterTypeOK
<1>2. /\ v.inst \in Inst /\ v.id \in Nat /\ v.value \in AnyValue
      /\ w.inst \in Inst /\ w.value \in AnyValue
  BY <1>1 DEF Vote
<1>3. Proposed(v.inst, v.id, v.value) /\ Proposed(w.inst, v.id, w.value)
  BY DEF Proposed
<1> QED BY <1>2, <1>3 DEF ProposedOnce

\* No two accepters, of any configuration and after any number of crashes and
\* lost messages, accept different values, or values of different instances,
\* under the same proposal number: although OnPromised adopts a value in the
\* middle of a round, counts promises of earlier rounds, and a new round may
\* start in any stage, the proposer sends ACCEPT once per number.  This needs
\* the numbers of different nodes to be different.
THEOREM OneValuePerProposalCorrect == DisjointIds /\ Spec => []OneValuePerProposal
<1> SUFFICES ASSUME DisjointIds PROVE Spec => []OneValuePerProposal
  OBVIOUS
<1>1. ProposedOnce /\ UNCHANGED vars => ProposedOnce'
  <2> SUFFICES ASSUME ProposedOnce, UNCHANGED vars PROVE ProposedOnce'
    OBVIOUS
  <2>1. UNCHANGED <<net, votes, prop>>
    BY DEF vars, accepterVars, proposerVars
  <2>2. \A i, id, v : Proposed(i, id, v)' <=> Proposed(i, id, v)
    BY <2>1 DEF Proposed, AcceptSent, Carried
  <2>3. \A n, id : LeftPreparing(n, id)' <=> LeftPreparing(n, id)
    BY <2>1 DEF LeftPreparing
  <2> QED BY <2>1, <2>2, <2>3 DEF ProposedOnce
<1>2. TypeOK /\ ProposedOnce /\ [Next]_vars => ProposedOnce'
  BY <1>1, ProposedOnceStep
<1> QED
  BY <1>2, TypeCorrect, ProposedOnceInit, ProposedOnceVotes, PTL DEF Spec
-----------------------------------------------------------------------------
(* Promises are kept. *)

\* The promises of n are of instances it has left, or its accepter knows them.
Knows(n) ==
  \A p \in promises : p.node = n =>
    \/ p.inst < inst[n]
    \/ p.inst = inst[n] /\ acc[n].promised /\ p.id <= acc[n].promisedId

PromiseKept == \A n \in Node : up[n] => Knows(n)

\* Its storage remembers them: from a record with a vote, a process that starts
\* goes on to the next instance.
Remembers(n) ==
  \A p \in promises : p.node = n =>
    LET st == storage[n][p.inst] IN
    /\ st # NoRecord
    /\ st.accepted \/ (st.promised /\ p.id <= st.promisedId)

\* Without crashes every node runs, and learning an instance is the only way
\* to leave it.
NoCrash == MaxCrashes = 0 => \A n \in Node : up[n]

LEMMA NoCrashStep ==
  ASSUME TypeOK, NoCrash, Next
  PROVE  NoCrash'
<1>1. SUFFICES ASSUME MaxCrashes = 0 PROVE UNCHANGED up
  BY DEF NoCrash
<1>2. \A n \in Node : ~Crash(n) /\ ~Restart(n)
  BY <1>1 DEF NoCrash, Crash, Restart, TypeOK
<1> QED
  BY <1>2 DEF Next, ClientStep, ProposeTimeoutStep, AskStep, OnMessage, BreakStep, Break

\* How, without crashes, a node leaves an instance: forgetting what its
\* accepter promised in it.
Advances(n) ==
  /\ \E k \in Nat : k > 0 /\ inst' = [inst EXCEPT ![n] = inst[n] + k]
  /\ acc' = [acc EXCEPT ![n] = EmptyState]
  /\ UNCHANGED <<promises, votes>>

LEMMA OnAskForLearnReplyAdvances ==
  ASSUME TypeOK, NEW n \in Node, NEW s \in Node, net[s][n] # <<>>, NEW m \in Message,
         m.type = "ASK_FOR_LEARN_REPLY", OnAskForLearnReply(n, s, m),
         UNCHANGED <<promises, votes>>
  PROVE  Advances(n) \/ UNCHANGED <<inst, acc, promises>>
<1> DEFINE new == NewStates(n, m)
<1>1. new \in Seq(State) /\ Len(new) \in Nat
  BY MessageFields, NewStatesType
<1> HIDE DEF new
<1>2. inst \in [Node -> InstOrEnd] /\ acc \in [Node -> State]
  BY DEF TypeOK, RoleTypeOK, AccepterTypeOK
<1>3. inst[n] \in Nat
  BY <1>2, MaxInstAssumption DEF InstOrEnd
<1>4. ASSUME NEW k \in Nat, inst' = [inst EXCEPT ![n] = inst[n] + k],
             acc' = [acc EXCEPT ![n] = IF k > 0 THEN EmptyState ELSE acc[n]]
      PROVE  Advances(n) \/ UNCHANGED <<inst, acc, promises>>
  <2>1. CASE k > 0
    BY <1>4, <2>1 DEF Advances
  <2>2. CASE k = 0
    BY <1>2, <1>3, <1>4, <2>2
  <2> QED BY <2>1, <2>2
<1>5. CASE /\ Learned(n, m, Len(new), Len(new))
           /\ acc' = [acc EXCEPT ![n] = IF new # <<>> THEN EmptyState ELSE acc[n]]
  <2>1. new # <<>> <=> Len(new) > 0
    BY <1>1, EmptySeq
  <2>2. inst' = [inst EXCEPT ![n] = inst[n] + Len(new)]
    BY <1>2, <1>5 DEF Learned
  <2> QED BY <1>1, <1>4, <1>5, <2>1, <2>2
<1>6. ASSUME NEW k \in 0 .. (Len(new) - 1), Learned(n, m, k + 1, k),
             acc' = [acc EXCEPT ![n] = IF k > 0 THEN EmptyState ELSE acc[n]]
      PROVE  Advances(n) \/ UNCHANGED <<inst, acc, promises>>
  <2>1. inst' = [inst EXCEPT ![n] = inst[n] + k] /\ k \in Nat
    BY <1>1, <1>2, <1>6 DEF Learned
  <2> QED BY <1>4, <1>6, <2>1
<1> QED BY <1>2, <1>5, <1>6 DEF OnAskForLearnReply, new

\* What a step does to the promises and the accepters, if no process starts
\* or ends.
LEMMA AccepterSteps ==
  ASSUME TypeOK, Next, \A n \in Node : ~Crash(n) /\ ~Restart(n)
  PROVE  \/ UNCHANGED <<inst, acc, promises>>
         \/ \E n \in Node :
              \/ Advances(n)
              \/ \E id \in Nat :
                   /\ ~acc[n].promised \/ acc[n].promisedId <= id
                   /\ acc' = [acc EXCEPT ![n].promised = TRUE, ![n].promisedId = id]
                   /\ promises' = promises \cup {[node |-> n, inst |-> inst[n], id |-> id]}
                   /\ UNCHANGED inst
              \/ \E p \in Proposal :
                   /\ acc' = [acc EXCEPT ![n].accepted = TRUE, ![n].proposal = p]
                   /\ UNCHANGED <<inst, promises>>
<1> DEFINE Goal ==
      \/ UNCHANGED <<inst, acc, promises>>
      \/ \E n \in Node :
           \/ Advances(n)
           \/ \E id \in Nat :
                /\ ~acc[n].promised \/ acc[n].promisedId <= id
                /\ acc' = [acc EXCEPT ![n].promised = TRUE, ![n].promisedId = id]
                /\ promises' = promises \cup {[node |-> n, inst |-> inst[n], id |-> id]}
                /\ UNCHANGED inst
           \/ \E p \in Proposal :
                /\ acc' = [acc EXCEPT ![n].accepted = TRUE, ![n].proposal = p]
                /\ UNCHANGED <<inst, promises>>
<1>1. ASSUME NEW s \in Node, NEW n \in Node, OnMessage(s, n)
      PROVE  Goal
  <2> DEFINE x == Head(net[s][n])
  <2>1. net[s][n] # <<>> /\ x \in Message
    BY <1>1, ReceivedFacts DEF OnMessage
  <2>2. \/ OnOtherInstance(n, s, x) \/ OnProposerMessage(n, s, x)
        \/ OnAccepterMessage(n, s, x) \/ OnLearn(n, s, x) \/ OnLearnerMessage(n, s, x)
    BY <1>1 DEF OnMessage
  <2> HIDE DEF x
  <2>3. CASE OnOtherInstance(n, s, x) \/ OnProposerMessage(n, s, x)
    BY <2>3 DEF OnOtherInstance, OnProposerMessage, accepterVars
  <2>4. CASE OnAccepterMessage(n, s, x)
    <3>1. CASE UNCHANGED accepterVars
      BY <2>4, <3>1 DEF OnAccepterMessage, accepterVars
    <3>2. CASE /\ x.type = "PREPARE"
               /\ ~acc[n].promised \/ acc[n].promisedId <= x.id
               /\ acc' = [acc EXCEPT ![n].promised = TRUE, ![n].promisedId = x.id]
               /\ promises' = promises \cup {[node |-> n, inst |-> inst[n], id |-> x.id]}
      <4>1. x.id \in Nat
        BY <2>1, <3>2, MessageFields
      <4> QED BY <2>4, <3>2, <4>1 DEF OnAccepterMessage
    <3>3. CASE /\ x.type = "ACCEPT"
               /\ acc' = [acc EXCEPT ![n].accepted = TRUE, ![n].proposal = x.proposal]
               /\ UNCHANGED promises
      <4>1. x.proposal \in Proposal
        BY <2>1, <3>3, MessageFields
      <4> QED BY <2>4, <3>3, <4>1 DEF OnAccepterMessage
    <3> QED BY <2>4, <3>1, <3>2, <3>3 DEF OnAccepterMessage, OnPrepare, OnAccept
  <2>5. CASE OnLearn(n, s, x)
    <3>1. inst' = [inst EXCEPT ![n] = @ + 1] => inst' = [inst EXCEPT ![n] = inst[n] + 1]
      BY TypeFacts
    <3>2. CASE UNCHANGED <<inst, acc, contextVars, stateMachineVars>>
      BY <2>5, <3>2 DEF OnLearn
    <3>3. CASE /\ inst' = [inst EXCEPT ![n] = inst[n] + 1]
               /\ acc' = [acc EXCEPT ![n] = EmptyState]
      <4>1. 1 \in Nat /\ 1 > 0 /\ UNCHANGED <<promises, votes>>
        BY <2>5 DEF OnLearn
      <4>2. Advances(n)
        BY <3>3, <4>1 DEF Advances
      <4> QED BY <4>2
    <3> QED BY <2>5, <3>1, <3>2, <3>3 DEF OnLearn
  <2>6. CASE OnLearnerMessage(n, s, x)
    <3>1. CASE x.type = "ASK_FOR_LEARN_REPLY" /\ OnAskForLearnReply(n, s, x)
      BY <2>1, <2>6, <3>1, OnAskForLearnReplyAdvances DEF OnLearnerMessage
    <3>2. CASE UNCHANGED <<inst, acc>>
      BY <2>6, <3>2 DEF OnLearnerMessage
    <3> QED BY <2>6, <3>1, <3>2 DEF OnLearnerMessage
  <2> QED BY <2>2, <2>3, <2>4, <2>5, <2>6
<1>2. Goal
  BY <1>1
  DEF Next, ClientStep, ProposeTimeoutStep, AskStep, BreakStep, Break, accepterVars
<1> QED BY <1>2

LEMMA KnowsStep ==
  ASSUME TypeOK, Next, \A n \in Node : ~Crash(n) /\ ~Restart(n),
         NEW r \in Node, Knows(r)
  PROVE  Knows(r)'
<1>1. /\ inst \in [Node -> InstOrEnd] /\ acc \in [Node -> State]
      /\ inst[r] \in Nat /\ acc[r].promisedId \in Nat
      /\ \A p \in promises : p.node \in Node /\ p.inst \in Nat /\ p.id \in Nat
  BY MaxInstAssumption
  DEF TypeOK, RoleTypeOK, AccepterTypeOK, InstOrEnd, Promise, Inst, State
<1>2. CASE UNCHANGED <<inst, acc, promises>>
  BY <1>2 DEF Knows
<1>3. ASSUME NEW n \in Node, Advances(n) PROVE Knows(r)'
  <2>1. PICK k \in Nat : k > 0 /\ inst' = [inst EXCEPT ![n] = inst[n] + k]
    BY <1>3 DEF Advances
  <2>2. CASE r = n
    <3>1. inst'[r] = inst[r] + k /\ UNCHANGED promises
      BY <1>1, <1>3, <2>1, <2>2 DEF Advances
    <3>2. \A p \in promises : p.node = r => p.inst < inst[r] + k
      BY <1>1, <2>1 DEF Knows
    <3> QED BY <3>1, <3>2 DEF Knows
  <2>3. CASE r # n
    <3>1. inst'[r] = inst[r] /\ acc'[r] = acc[r] /\ UNCHANGED promises
      BY <1>1, <1>3, <2>1, <2>3 DEF Advances
    <3> QED BY <3>1 DEF Knows
  <2> QED BY <2>2, <2>3
<1>4. ASSUME NEW n \in Node, NEW id \in Nat,
             ~acc[n].promised \/ acc[n].promisedId <= id,
             acc' = [acc EXCEPT ![n].promised = TRUE, ![n].promisedId = id],
             promises' = promises \cup {[node |-> n, inst |-> inst[n], id |-> id]},
             UNCHANGED inst
      PROVE  Knows(r)'
  <2> SUFFICES ASSUME NEW p \in promises', p.node = r
               PROVE  \/ p.inst < inst[r]
                      \/ p.inst = inst[r] /\ acc'[r].promised /\ p.id <= acc'[r].promisedId
    BY <1>4 DEF Knows
  <2>1. CASE r = n
    <3>1. acc'[r].promised /\ acc'[r].promisedId = id
      BY <1>1, <1>4, <2>1 DEF State
    <3>2. CASE p \in promises
      BY <1>1, <1>4, <2>1, <3>1, <3>2 DEF Knows
    <3>3. CASE p = [node |-> n, inst |-> inst[n], id |-> id]
      BY <2>1, <3>1, <3>3
    <3> QED BY <1>4, <3>2, <3>3
  <2>2. CASE r # n
    <3>1. acc'[r] = acc[r]
      BY <1>1, <1>4, <2>2
    <3>2. p \in promises
      BY <1>4, <2>2
    <3> QED BY <3>1, <3>2 DEF Knows
  <2> QED BY <2>1, <2>2
<1>5. ASSUME NEW n \in Node, NEW q \in Proposal,
             acc' = [acc EXCEPT ![n].accepted = TRUE, ![n].proposal = q],
             UNCHANGED <<inst, promises>>
      PROVE  Knows(r)'
  <2>1. acc'[r].promised = acc[r].promised /\ acc'[r].promisedId = acc[r].promisedId
    BY <1>1, <1>5 DEF State
  <2> QED BY <1>5, <2>1 DEF Knows
<1> QED
  <2>1. CASE \E n \in Node : Advances(n)
    BY <1>3, <2>1
  <2>2. CASE \E n \in Node, id \in Nat :
               /\ ~acc[n].promised \/ acc[n].promisedId <= id
               /\ acc' = [acc EXCEPT ![n].promised = TRUE, ![n].promisedId = id]
               /\ promises' = promises \cup {[node |-> n, inst |-> inst[n], id |-> id]}
               /\ UNCHANGED inst
    BY <1>4, <2>2
  <2>3. CASE \E n \in Node, q \in Proposal :
               /\ acc' = [acc EXCEPT ![n].accepted = TRUE, ![n].proposal = q]
               /\ UNCHANGED <<inst, promises>>
    BY <1>5, <2>3
  <2> QED BY <1>2, <2>1, <2>2, <2>3, AccepterSteps

\* The last record of a node is the last.
LEMMA LastRecord ==
  ASSUME TypeOK, NEW n \in Node, NEW i \in Inst, i > GetMaxInstanceId(n)
  PROVE  storage[n][i] = NoRecord
<1> USE MaxInstAssumption
<1>1. SUFFICES ASSUME i \in Recorded(n) PROVE FALSE
  BY DEF Recorded
<1>2. Recorded(n) \subseteq Inst /\ Recorded(n) \subseteq Nat /\ IsFiniteSet(Inst)
  <2>1. Recorded(n) \subseteq Inst /\ Inst \subseteq Nat
    BY DEF Recorded, Inst
  <2>2. IsFiniteSet(Inst)
    BY FS_Interval DEF Inst
  <2> QED BY <2>1, <2>2
<1>3. \E j \in Recorded(n) : \A k \in Recorded(n) : k <= j
  <2>1. IsFiniteSet(Recorded(n))
    BY <1>2, FS_Subset
  <2> QED BY <1>1, <1>2, <2>1, MaximumExists
<1>4. GetMaxInstanceId(n) \in Recorded(n) /\ \A k \in Recorded(n) : k <= GetMaxInstanceId(n)
  BY <1>1, <1>3 DEF GetMaxInstanceId
<1> QED BY <1>1, <1>2, <1>4

\* A process that starts finds its promises in its storage.
LEMMA KnowsAgain ==
  ASSUME TypeOK, NEW n \in Node, Remembers(n), Restart(n), up'[n]
  PROVE  Knows(n)'
<1> USE MaxInstAssumption
<1> DEFINE max == GetMaxInstanceId(n)
           last == LoadLastState(n)
<1>1. /\ up \in [Node -> BOOLEAN] /\ inst \in [Node -> InstOrEnd] /\ acc \in [Node -> State]
      /\ promises \in SUBSET Promise
  BY DEF TypeOK, RoleTypeOK, AccepterTypeOK
<1>2. /\ inst' = [inst EXCEPT ![n] = IF last.accepted THEN max + 1 ELSE max]
      /\ acc' = [acc EXCEPT ![n] = IF last.accepted THEN EmptyState ELSE last]
      /\ UNCHANGED promises
  BY DEF Restart
<1>3. /\ max \in Nat
      /\ last = IF storage[n][max] = NoRecord THEN EmptyState ELSE storage[n][max]
      /\ \A i \in Inst : i > max => storage[n][i] = NoRecord
  BY LastRecordType, LastRecord DEF LoadLastState, TypeOK, Inst
<1> HIDE DEF max, last
<1>4. /\ inst'[n] = IF last.accepted THEN max + 1 ELSE max
      /\ acc'[n] = IF last.accepted THEN EmptyState ELSE last
  BY <1>1, <1>2
<1>5. ASSUME NEW p \in promises, p.node = n
      PROVE  \/ p.inst < inst'[n]
             \/ p.inst = inst'[n] /\ acc'[n].promised /\ p.id <= acc'[n].promisedId
  <2>1. /\ p.inst \in Inst /\ p.inst \in Nat
        /\ storage[n][p.inst] # NoRecord
        /\ \/ storage[n][p.inst].accepted
           \/ storage[n][p.inst].promised /\ p.id <= storage[n][p.inst].promisedId
    BY <1>1, <1>5 DEF Remembers, Promise, Inst
  <2>2. p.inst <= max
    BY <1>3, <2>1
  <2>3. CASE p.inst < max
    BY <1>3, <1>4, <2>1, <2>3
  <2>4. CASE p.inst = max
    BY <1>3, <1>4, <2>1, <2>4
  <2> QED BY <1>3, <2>1, <2>2, <2>3, <2>4
<1> QED BY <1>2, <1>5 DEF Knows

LEMMA PromiseKeptStep ==
  ASSUME TypeOK, PromiseKept, Next, \A n \in Node : Restart(n) => Remembers(n)
  PROVE  PromiseKept'
<1>1. up \in [Node -> BOOLEAN] /\ inst \in [Node -> InstOrEnd] /\ acc \in [Node -> State]
  BY DEF TypeOK, RoleTypeOK, AccepterTypeOK
<1>2. ASSUME NEW n \in Node, UNCHANGED promises, up'[n] => Knows(n)',
             \A r \in Node \ {n} : /\ up'[r] = up[r] /\ inst'[r] = inst[r]
                                   /\ acc'[r] = acc[r]
      PROVE  PromiseKept'
  BY <1>2 DEF PromiseKept, Knows
<1>3. CASE \A n \in Node : ~Crash(n) /\ ~Restart(n)
  <2>1. UNCHANGED up
    BY <1>3 DEF Next, ClientStep, ProposeTimeoutStep, AskStep, OnMessage, BreakStep, Break
  <2> QED BY <1>3, <2>1, KnowsStep DEF PromiseKept
<1>4. ASSUME NEW n \in Node, Crash(n) PROVE PromiseKept'
  <2>1. /\ ~up'[n] /\ UNCHANGED promises
        /\ \A r \in Node \ {n} : up'[r] = up[r] /\ acc'[r] = acc[r]
    BY <1>1, <1>4 DEF Crash
  <2>2. \A r \in Node \ {n} : inst'[r] = inst[r]
    BY <1>1, <1>4 DEF Crash, CrashWhileLearning, Learned
  <2> QED BY <1>2, <2>1, <2>2
<1>5. ASSUME NEW n \in Node, Restart(n) PROVE PromiseKept'
  <2>1. up'[n] => Knows(n)'
    BY <1>5, KnowsAgain
  <2>2. /\ UNCHANGED promises
        /\ \A r \in Node \ {n} : up'[r] = up[r] /\ inst'[r] = inst[r] /\ acc'[r] = acc[r]
    BY <1>1, <1>5 DEF Restart
  <2> QED BY <1>2, <2>1, <2>2
<1> QED BY <1>3, <1>4, <1>5

LEMMA NewVoteKeepsPromise ==
  ASSUME TypeOK, PromiseKept, Next
  PROVE  \A v \in votes' \ votes : \A p \in promises :
           p.node = v.node /\ p.inst = v.inst => p.id <= v.id
<1> SUFFICES ASSUME NEW v \in votes', v \notin votes, NEW p \in promises,
                    p.node = v.node, p.inst = v.inst
             PROVE  p.id <= v.id
  OBVIOUS
<1>1. /\ v.node \in Node /\ up[v.node] /\ v.inst = inst[v.node] /\ acc[v.node].promisedId <= v.id
      /\ v.id \in Nat
  <2>1. v \in Vote
    BY NextType DEF TypeOK, AccepterTypeOK
  <2> QED BY <2>1, NewVotes DEF Vote
<1>2. p.id <= acc[v.node].promisedId /\ p.id \in Nat /\ acc[v.node].promisedId \in Nat
  <2>1. inst[v.node] \in Nat /\ acc[v.node] \in State /\ p \in Promise
    BY <1>1, MaxInstAssumption DEF TypeOK, RoleTypeOK, AccepterTypeOK, InstOrEnd
  <2> QED BY <1>1, <2>1 DEF PromiseKept, Knows, State, Promise
<1> QED BY <1>1, <1>2

\* Without crashes, and whatever messages are lost or come late, no node
\* accepts a proposal below one it has promised in the same instance: the
\* accepter compares with the last promise only, which is the largest one, and
\* forgets it only when it leaves the instance for good.
THEOREM AcceptRespectsPromiseCorrect == MaxCrashes = 0 /\ Spec => AcceptRespectsPromise
<1> SUFFICES ASSUME MaxCrashes = 0 PROVE Spec => AcceptRespectsPromise
  OBVIOUS
<1>1. Init => NoCrash /\ PromiseKept
  BY DEF Init, RoleInit, AccepterInit, NoCrash, PromiseKept, Knows
<1>2. TypeOK /\ NoCrash /\ PromiseKept /\ [Next]_vars => NoCrash' /\ PromiseKept'
  <2> SUFFICES ASSUME TypeOK, NoCrash, PromiseKept, [Next]_vars
               PROVE  NoCrash' /\ PromiseKept'
    OBVIOUS
  <2>1. CASE Next
    <3>1. \A n \in Node : ~Crash(n) /\ ~Restart(n)
      BY DEF NoCrash, Crash, Restart, TypeOK
    <3>2. PromiseKept'
      BY <2>1, <3>1, PromiseKeptStep
    <3> QED BY <2>1, <3>2, NoCrashStep
  <2>2. CASE UNCHANGED vars
    BY <2>2 DEF vars, accepterVars, NoCrash, PromiseKept, Knows
  <2> QED BY <2>1, <2>2
<1>3. TypeOK /\ PromiseKept /\ [Next]_vars =>
        [\A v \in votes' \ votes : \A p \in promises :
           p.node = v.node /\ p.inst = v.inst => p.id <= v.id]_vars
  BY NewVoteKeepsPromise
<1> QED
  BY <1>1, <1>2, <1>3, TypeCorrect, PTL DEF Spec, AcceptRespectsPromise
-----------------------------------------------------------------------------
(* Results that clients are given. *)

\* A step executes values on at most one node.
LEMMA Executed ==
  ASSUME TypeOK, Next
  PROVE  \/ UNCHANGED smlog
         \/ \E n \in Node, first \in Nat, vals \in Seq(AnyValue) : ExecuteAll(n, first, vals)
<1> USE MaxInstAssumption
<1>1. ASSUME NEW n \in Node, NEW m \in LearnReply, NEW p, NEW k \in 0 .. Len(NewStates(n, m)),
             Learned(n, m, p, k)
      PROVE  \E first \in Nat, vals \in Seq(AnyValue) : ExecuteAll(n, first, vals)
  <2>1. FirstNew(n, m) \in Nat
    BY NewStatesType DEF InstOrEnd
  <2> QED BY <1>1, <2>1, LearnedValuesType DEF Learned
<1>2. ASSUME NEW s \in Node, NEW n \in Node, OnMessage(s, n)
      PROVE  \/ UNCHANGED smlog
             \/ \E first \in Nat, vals \in Seq(AnyValue) : ExecuteAll(n, first, vals)
  <2> DEFINE x == Head(net[s][n])
  <2>1. net[s][n] # <<>> /\ x \in Message
    BY <1>2, ReceivedFacts DEF OnMessage
  <2> HIDE DEF x
  <2>2. CASE OnLearn(n, s, x)
    <3>1. inst[n] \in Nat /\ <<acc[n].proposal.value>> \in Seq(AnyValue)
      <4>1. acc[n].proposal.value \in AnyValue
        BY DEF TypeOK, AccepterTypeOK, State, Proposal
      <4> QED BY <4>1, LearnerFacts DEF InstOrEnd
    <3> QED BY <2>2, <3>1 DEF OnLearn, Execute, stateMachineVars
  <2>3. CASE x.type = "ASK_FOR_LEARN_REPLY" /\ OnAskForLearnReply(n, s, x)
    <3>1. x \in LearnReply /\ Len(NewStates(n, x)) \in Nat
      BY <2>1, <2>3, MessageFields, NewStatesType
    <3>2. /\ Len(NewStates(n, x)) \in 0 .. Len(NewStates(n, x))
          /\ \A k \in 0 .. (Len(NewStates(n, x)) - 1) : k \in 0 .. Len(NewStates(n, x))
      BY <3>1
    <3> QED BY <1>1, <2>3, <3>1, <3>2 DEF OnAskForLearnReply
  <2>4. CASE UNCHANGED stateMachineVars
    BY <2>4 DEF stateMachineVars
  <2>5. \/ OnOtherInstance(n, s, x) \/ OnProposerMessage(n, s, x)
        \/ OnAccepterMessage(n, s, x) \/ OnLearn(n, s, x) \/ OnLearnerMessage(n, s, x)
    BY <1>2 DEF OnMessage, x
  <2> QED
    BY <2>2, <2>3, <2>4, <2>5
    DEF OnOtherInstance, OnProposerMessage, OnAccepterMessage, OnLearnerMessage
<1>3. ASSUME NEW n \in Node, Crash(n)
      PROVE  \/ UNCHANGED smlog
             \/ \E first \in Nat, vals \in Seq(AnyValue) : ExecuteAll(n, first, vals)
  <2>1. CASE CrashWhileLearning(n)
    <3>1. PICK s \in Node : /\ net[s][n] # <<>>
                            /\ Head(net[s][n]).type = "ASK_FOR_LEARN_REPLY"
                            /\ \E k \in 1 .. Len(NewStates(n, Head(net[s][n]))) :
                                  Learned(n, Head(net[s][n]), k, k - 1)
      BY <2>1 DEF CrashWhileLearning
    <3> DEFINE m == Head(net[s][n])
    <3>2. m \in LearnReply
      BY <3>1, ReceivedFacts, MessageFields
    <3>3. PICK k \in 1 .. Len(NewStates(n, m)) : Learned(n, m, k, k - 1)
      BY <3>1
    <3> HIDE DEF m
    <3>4. k - 1 \in 0 .. Len(NewStates(n, m))
      BY <3>2, NewStatesType
    <3> QED BY <1>1, <3>2, <3>3, <3>4
  <2>2. CASE UNCHANGED smlog
    BY <2>2
  <2> QED BY <1>3, <2>1, <2>2 DEF Crash, stateMachineVars
<1>4. ASSUME NEW n \in Node, Restart(n)
      PROVE  \E first \in Nat, vals \in Seq(AnyValue) : ExecuteAll(n, first, vals)
  <2>1. /\ Replayed(n) \in Seq(AnyValue) /\ Len(Replayed(n)) \in Nat
        /\ cp[n] + 1 \in Nat
    BY ReplayedType DEF Inst
  <2>2. \A k \in 0 .. (Len(Replayed(n)) - 1) : SubSeq(Replayed(n), 1, k) \in Seq(AnyValue)
    <3>1. TAKE k \in 0 .. (Len(Replayed(n)) - 1)
    <3>2. \A i \in 1 .. k : Replayed(n)[i] \in AnyValue
      BY <2>1, ElementOfSeq
    <3> QED BY <3>2, SubSeqProperties
  <2> QED BY <1>4, <2>1, <2>2 DEF Restart
<1> QED
  BY <1>2, <1>3, <1>4
  DEF Next, ClientStep, ProposeTimeoutStep, AskStep, BreakStep, stateMachineVars

\* What has been executed stays executed.
LEMMA EntriesGrow ==
  ASSUME TypeOK, Next, NEW r \in Node
  PROVE  Entries(r) \subseteq Entries(r)'
<1>1. CASE UNCHANGED smlog
  BY <1>1 DEF Entries
<1>2. ASSUME NEW n \in Node, NEW first \in Nat, NEW vals \in Seq(AnyValue),
             ExecuteAll(n, first, vals)
      PROVE  Entries(r) \subseteq Entries(r)'
  <2> DEFINE ex == Executions(first, vals)
             Any == [id : Int, value : AnyValue]
  <2>1. ex \in Seq(Any)
    <3>1. /\ Len(vals) \in Nat /\ DOMAIN vals = 1 .. Len(vals)
          /\ \A j \in 1 .. Len(vals) : vals[j] \in AnyValue
      BY LenProperties, ElementOfSeq
    <3>2. ex \in [1 .. Len(vals) -> Any]
      BY <3>1 DEF Executions
    <3> HIDE DEF ex, Any
    <3> QED BY <3>1, <3>2, SeqDef
  <2>2. smlog[r] \in Seq(Any) /\ smlog \in [Node -> Seq(Execution)]
    <3>1. Execution \subseteq Any
      BY MaxInstAssumption DEF Execution, Inst
    <3>2. smlog \in [Node -> Seq(Execution)] /\ smlog[r] \in Seq(Execution)
      BY DEF TypeOK, StateMachineTypeOK
    <3> HIDE DEF Any
    <3> QED BY <3>1, <3>2, SeqMonotonic
  <2> HIDE DEF ex, Any
  <2>3. smlog'[r] = IF r = n THEN smlog[r] \o ex ELSE smlog[r]
    BY <1>2, <2>2 DEF ExecuteAll, ex
  <2>4. \A k \in DOMAIN smlog[r] :
          k \in DOMAIN (smlog[r] \o ex) /\ (smlog[r] \o ex)[k] = smlog[r][k]
    BY <2>1, <2>2, ConcatProperties, LenProperties
  <2> QED BY <2>3, <2>4 DEF Entries
<1> QED BY <1>1, <1>2, Executed

\* What is executed just now is among the entries.
LEMMA ExecuteEntry ==
  ASSUME TypeOK, NEW n \in Node, NEW i \in Inst, NEW v \in AnyValue, Execute(n, i, v)
  PROVE  [id |-> i, value |-> v] \in Entries(n)'
<1>1. /\ smlog \in [Node -> Seq(Execution)] /\ i + 1 - 1 = i
      /\ Executions(i, <<v>>) = <<[id |-> i, value |-> v]>>
  BY MaxInstAssumption DEF TypeOK, StateMachineTypeOK, Executions, Inst
<1>2. smlog'[n] = smlog[n] \o <<[id |-> i, value |-> v]>>
  BY <1>1 DEF Execute, ExecuteAll
<1>3. smlog[n] \in Seq(Execution) /\ [id |-> i, value |-> v] \in Execution
  BY <1>1 DEF Execution
<1>4. smlog'[n] = Append(smlog[n], [id |-> i, value |-> v])
  BY <1>2, <1>3, AppendIsConcat
<1>5. /\ Len(smlog[n]) + 1 \in DOMAIN smlog'[n]
      /\ smlog'[n][Len(smlog[n]) + 1] = [id |-> i, value |-> v]
  BY <1>3, <1>4, AppendProperties, LenProperties
<1> QED BY <1>5 DEF Entries

\* The client of n may have been told Ok.
ToldOk(n) == ctx[n].state = "notified" /\ ctx[n].ret \in {Ok, Unset}

\* Only the node's own LEARN tells it Ok, after the execution.
LEMMA ToldOkStep ==
  ASSUME ~SpuriousWakeups, TypeOK, Next, NEW n \in Node, ToldOk(n)'
  PROVE  \/ ToldOk(n) /\ ctx'[n] = ctx[n]
         \/ [id |-> ctx'[n].id, value |-> ctx'[n].value] \in Entries(n)'
<1>1. ctx \in [Node -> Call]
  BY DEF TypeOK, ContextTypeOK
<1>2. CASE ctx'[n] = ctx[n]
  BY <1>2 DEF ToldOk
<1>3. ASSUME NEW r \in Node, NEW id, NEW v,
             ctx' = [ctx EXCEPT ![r] = CommitResult(ctx[r], FALSE, id, v)]
      PROVE  ctx'[n] = ctx[n]
  <2>1. CASE r = n
    <3>1. ctx'[n].ret = NotSuccess
      BY <1>1, <1>3, <2>1 DEF CommitResult, Call
    <3> QED BY <3>1 DEF ToldOk, Ok, Unset, NotSuccess
  <2>2. CASE r # n
    BY <1>1, <1>3, <2>2
  <2> QED BY <2>1, <2>2
<1>4. ASSUME NEW r \in Node, ClientStep(r) PROVE ctx'[n] = ctx[n]
  <2>1. CASE r = n
    <3>1. ctx[n] \in Call
      BY <1>1
    <3>2. CASE Return(n)
      <4>1. ctx'[n] = [ctx[n] EXCEPT !.state = "idle"]
        BY <1>1, <3>2 DEF Return
      <4>2. ctx'[n].state = "idle"
        BY <3>1, <4>1 DEF Call
      <4> QED BY <4>2 DEF ToldOk
    <3>3. CASE Wait(n)
      <4>1. ctx'[n] = [ctx[n] EXCEPT !.state = "waiting"]
        BY <1>1, <3>3 DEF Wait
      <4>2. ctx'[n].state = "waiting"
        BY <3>1, <4>1 DEF Call
      <4> QED BY <4>2 DEF ToldOk
    <3>4. ASSUME NEW v \in Value, Propose(n, v) PROVE ctx'[n] = ctx[n]
      <4>1. ctx'[n] = Reset(ctx[n], inst[n], v)
        BY <1>1, <3>4 DEF Propose
      <4>2. ctx'[n].state = "called"
        BY <3>1, <4>1 DEF Reset, Call
      <4> QED BY <4>2 DEF ToldOk
    <3> QED BY <1>4, <2>1, <3>2, <3>3, <3>4 DEF ClientStep, Wakeup
  <2>2. CASE r # n
    BY <1>1, <1>4, <2>2 DEF ClientStep, Propose, Wait, Wakeup, Return
  <2> QED BY <2>1, <2>2
<1>5. ASSUME NEW r \in Node, ProposeTimeoutStep(r) PROVE ctx'[n] = ctx[n]
  <2>1. ctx' = [ctx EXCEPT ![r] = CommitResult(ctx[r], FALSE, inst[r], Empty)]
    BY <1>1, <1>5 DEF ProposeTimeoutStep, ProposeTimeout
  <2> QED BY <1>3, <2>1
<1>6. ASSUME NEW r \in Node, Crash(r) PROVE ctx'[n] = ctx[n]
  <2>1. CASE r = n
    <3>1. ctx'[n].state # "notified"
      BY <1>1, <1>6, <2>1 DEF Crash, NoCall
    <3> QED BY <3>1 DEF ToldOk
  <2>2. CASE r # n
    BY <1>1, <1>6, <2>2 DEF Crash
  <2> QED BY <2>1, <2>2
<1>7. ASSUME NEW s \in Node, NEW r \in Node, OnMessage(s, r)
      PROVE  \/ ctx'[n] = ctx[n]
             \/ [id |-> ctx'[n].id, value |-> ctx'[n].value] \in Entries(n)'
  <2> DEFINE x == Head(net[s][r])
  <2>1. x \in Message
    BY <1>7, ReceivedFacts DEF OnMessage
  <2> HIDE DEF x
  <2>2. \/ OnOtherInstance(r, s, x) \/ OnProposerMessage(r, s, x)
        \/ OnAccepterMessage(r, s, x) \/ OnLearn(r, s, x) \/ OnLearnerMessage(r, s, x)
    BY <1>7 DEF OnMessage, x
  <2>3. CASE UNCHANGED ctx
    BY <2>3
  <2>4. CASE OnProposerMessage(r, s, x)
    <3>1. \/ UNCHANGED ctx
          \/ ctx' = [ctx EXCEPT ![r] = CommitResult(ctx[r], FALSE, inst[r], Empty)]
      BY <1>1, <2>4
      DEF OnProposerMessage, OnPromised, OnRejectPromise, OnRejectAccept, Rejected,
          OnAccepted, Skipped
    <3> QED BY <1>3, <3>1
  <2>5. CASE OnLearn(r, s, x)
    <3> DEFINE v == acc[r].proposal.value
    <3>1. inst[r] \in Inst /\ v \in AnyValue
      BY <2>1, <2>5, MessageFields DEF OnLearn, TypeOK, AccepterTypeOK, State, Proposal
    <3>2. CASE UNCHANGED ctx
      BY <3>2
    <3>3. CASE /\ Execute(r, inst[r], v)
               /\ ctx' = [ctx EXCEPT ![r] = CommitResult(ctx[r], TRUE, inst[r], v)]
      <4>1. CASE r # n
        BY <1>1, <3>3, <4>1
      <4>2. CASE r = n
        <5>1. [id |-> inst[n], value |-> v] \in Entries(n)'
          BY <3>1, <3>3, <4>2, ExecuteEntry
        <5>2. ctx'[n] = CommitResult(ctx[n], TRUE, inst[n], v) /\ ctx[n] \in Call
          BY <1>1, <3>3, <4>2
        <5> HIDE DEF v
        <5>3. ctx'[n].id = ctx[n].id /\ ctx'[n].value = ctx[n].value
          BY <5>2 DEF CommitResult, Call
        <5>4. ctx'[n].ret = IF inst[n] = ctx[n].id /\ v = ctx[n].value THEN Ok ELSE NotChosen
          BY <5>2 DEF CommitResult, Call
        <5>5. inst[n] = ctx'[n].id /\ v = ctx'[n].value
          BY <5>3, <5>4 DEF ToldOk, Ok, Unset, NotChosen
        <5> QED BY <5>1, <5>5
      <4> QED BY <4>1, <4>2
    <3> QED BY <1>1, <2>5, <3>2, <3>3 DEF OnLearn, contextVars
  <2> QED
    BY <2>2, <2>3, <2>4, <2>5
    DEF OnOtherInstance, OnAccepterMessage, OnLearnerMessage, contextVars
<1> QED
  BY <1>2, <1>4, <1>5, <1>6, <1>7
  DEF Next, AskStep, BreakStep, Restart, contextVars

\* In any configuration, with any number of crashes, lost messages and stale
\* timers, a client that is told Ok finds its value executed by its node in the
\* instance of its call: no result of an earlier call or of another instance is
\* taken for success.  This needs a wait that does not end by itself.
THEOREM ResultSoundCorrect == ~SpuriousWakeups /\ Spec => []ResultSound
<1> SUFFICES ASSUME ~SpuriousWakeups PROVE Spec => []ResultSound
  OBVIOUS
<1>1. Init => ResultSound
  BY DEF Init, ContextInit, NoCall, ResultSound
<1>2. TypeOK /\ ResultSound /\ [Next]_vars => ResultSound'
  <2>1. CASE UNCHANGED vars
    BY <2>1 DEF vars, contextVars, stateMachineVars, ResultSound, Entries
  <2>2. ASSUME TypeOK, ResultSound, Next, NEW n \in Node, ToldOk(n)'
        PROVE  [id |-> ctx'[n].id, value |-> ctx'[n].value] \in Entries(n)'
    <3>1. CASE ToldOk(n) /\ ctx'[n] = ctx[n]
      <4>1. [id |-> ctx[n].id, value |-> ctx[n].value] \in Entries(n)
        BY <2>2, <3>1 DEF ResultSound, ToldOk
      <4> QED BY <2>2, <3>1, <4>1, EntriesGrow
    <3> QED BY <2>2, <3>1, ToldOkStep
  <2> QED BY <2>1, <2>2 DEF ResultSound, ToldOk
<1> QED BY <1>1, <1>2, TypeCorrect, PTL DEF Spec
-----------------------------------------------------------------------------
(* The order of executions. *)

\* The state machine has executed the instances before the current one.
InOrder ==
  \A n \in Node : /\ Len(smlog[n]) = inst[n]
                  /\ \A k \in DOMAIN smlog[n] : smlog[n][k].id = k - 1

LEMMA InstGrows ==
  ASSUME TypeOK, Next, \A r \in Node : ~Crash(r) /\ ~Restart(r), NEW n \in Node
  PROVE  inst[n] \in Nat /\ inst'[n] \in Nat /\ inst[n] <= inst'[n]
<1>1. inst[n] \in Nat /\ inst \in [Node -> InstOrEnd]
  BY MaxInstAssumption DEF TypeOK, RoleTypeOK, InstOrEnd
<1>2. CASE UNCHANGED inst
  BY <1>1, <1>2
<1>3. ASSUME NEW r \in Node, Advances(r)
      PROVE  inst'[n] \in Nat /\ inst[n] <= inst'[n]
  <2>1. PICK k \in Nat : inst' = [inst EXCEPT ![r] = inst[r] + k]
    BY <1>3 DEF Advances
  <2>2. inst'[n] = IF r = n THEN inst[n] + k ELSE inst[n]
    BY <1>1, <2>1
  <2> QED BY <1>1, <2>2
<1> QED BY <1>1, <1>2, <1>3, AccepterSteps

\* As long as no node goes back, nobody asks for what is ahead of it.
LEMMA AsksStep ==
  ASSUME TypeOK, AsksFromReached, Next, \A n \in Node : inst[n] <= inst'[n]
  PROVE  AsksFromReached'
<1> SUFFICES ASSUME NEW s \in Node, NEW r \in Node, NEW m \in Carried(net', s, r)
             PROVE  /\ m.type = "ASK_FOR_LEARN" => m.from <= inst'[s]
                    /\ m.type = "ASK_FOR_LEARN_REPLY" => m.start <= inst'[r]
  BY DEF AsksFromReached, Carried
<1>1. /\ inst[s] \in Nat /\ inst'[s] \in Nat /\ inst[s] <= inst'[s]
      /\ inst[r] \in Nat /\ inst'[r] \in Nat /\ inst[r] <= inst'[r]
  BY NextType, MaxInstAssumption DEF TypeOK, RoleTypeOK, InstOrEnd
<1>2. ASSUME NEW a \in Node, NEW b \in Node, NEW q \in Carried(net, a, b)
      PROVE  /\ q.type = "ASK_FOR_LEARN" => q.from \in Nat /\ q.from <= inst[a]
             /\ q.type = "ASK_FOR_LEARN_REPLY" => q.start \in Nat /\ q.start <= inst[b]
  <2>1. q \in Message
    <3>1. net[a][b] \in Seq(Message)
      BY TypeFacts
    <3> QED BY <3>1, LenProperties, ElementOfSeq DEF Carried
  <2>2. /\ q.type = "ASK_FOR_LEARN" => q.from \in InstOrEnd
        /\ q.type = "ASK_FOR_LEARN_REPLY" => q.start \in InstOrEnd
    BY <2>1, MessageFields DEF LearnReply
  <2> QED BY <2>2, MaxInstAssumption DEF AsksFromReached, InstOrEnd
<1>3. CASE m \in Carried(net, s, r)
  BY <1>1, <1>2, <1>3
<1>4. CASE NewMessage(s, r, m)
  <2>1. Explained(s, r, m)
    BY <1>4, NewMessages
  <2>2. m.type = "ASK_FOR_LEARN" => m.from <= inst'[s]
    BY <1>1, <2>1 DEF Explained
  <2>3. ASSUME m.type = "ASK_FOR_LEARN_REPLY" PROVE m.start <= inst'[r]
    <3>1. CASE m.start = 0
      BY <1>1, <3>1
    <3>2. CASE \E q \in Carried(net, r, s) : q.type = "ASK_FOR_LEARN" /\ m.start = q.from
      BY <1>1, <1>2, <3>2
    <3> QED BY <2>1, <2>3, <3>1, <3>2 DEF Explained
  <2> QED BY <2>2, <2>3
<1> QED BY <1>3, <1>4 DEF NewMessage

LEMMA AsksFromReachedStep ==
  ASSUME TypeOK, NoCrash, MaxCrashes = 0, AsksFromReached, Next
  PROVE  AsksFromReached'
<1>1. \A n \in Node : ~Crash(n) /\ ~Restart(n)
  BY DEF NoCrash, Crash, Restart, TypeOK
<1> QED BY <1>1, InstGrows, AsksStep

LEMMA Reached == MaxCrashes = 0 /\ Spec => [](NoCrash /\ AsksFromReached)
<1> SUFFICES ASSUME MaxCrashes = 0 PROVE Spec => [](NoCrash /\ AsksFromReached)
  OBVIOUS
<1>1. Init => NoCrash /\ AsksFromReached
  BY EmptySeq DEF Init, RoleInit, NoCrash, AsksFromReached, Carried
<1>2. TypeOK /\ NoCrash /\ AsksFromReached /\ [Next]_vars => NoCrash' /\ AsksFromReached'
  <2>1. CASE UNCHANGED vars
    BY <2>1 DEF vars, NoCrash, AsksFromReached, Carried
  <2> QED BY <2>1, NoCrashStep, AsksFromReachedStep
<1> QED BY <1>1, <1>2, TypeCorrect, PTL DEF Spec

\* Without crashes a node executes just the instances it leaves.
LEMMA ExecutesWhatItLeaves ==
  ASSUME TypeOK, NoCrash, MaxCrashes = 0, AsksFromReached, Next
  PROVE  \/ UNCHANGED <<inst, smlog>>
         \/ \E n \in Node, vals \in Seq(AnyValue) :
              /\ ExecuteAll(n, inst[n], vals)
              /\ inst' = [inst EXCEPT ![n] = inst[n] + Len(vals)]
<1> DEFINE Leaves(n) == \E vals \in Seq(AnyValue) :
                          /\ ExecuteAll(n, inst[n], vals)
                          /\ inst' = [inst EXCEPT ![n] = inst[n] + Len(vals)]
<1>1. \A n \in Node : ~Crash(n) /\ ~Restart(n)
  BY DEF NoCrash, Crash, Restart, TypeOK
<1>2. ASSUME NEW s \in Node, NEW n \in Node, OnMessage(s, n)
      PROVE  UNCHANGED <<inst, smlog>> \/ Leaves(n)
  <2> DEFINE x == Head(net[s][n])
  <2>1. net[s][n] # <<>> /\ x \in Message /\ x \in Carried(net, s, n)
    BY <1>2, ReceivedFacts DEF OnMessage
  <2>2. \/ OnOtherInstance(n, s, x) \/ OnProposerMessage(n, s, x)
        \/ OnAccepterMessage(n, s, x) \/ OnLearn(n, s, x) \/ OnLearnerMessage(n, s, x)
    BY <1>2 DEF OnMessage
  <2> HIDE DEF x
  <2>3. CASE UNCHANGED <<inst, stateMachineVars>>
    BY <2>3 DEF stateMachineVars
  <2>4. CASE OnLearn(n, s, x)
    <3> DEFINE vals == <<acc[n].proposal.value>>
    <3>1. vals \in Seq(AnyValue) /\ Len(vals) = 1
      <4>1. acc[n].proposal.value \in AnyValue
        BY DEF TypeOK, AccepterTypeOK, State, Proposal
      <4> QED BY <4>1
    <3>2. CASE ExecuteAll(n, inst[n], vals) /\ inst' = [inst EXCEPT ![n] = inst[n] + 1]
      <4> HIDE DEF vals
      <4> QED BY <3>1, <3>2
    <3>3. inst' = [inst EXCEPT ![n] = @ + 1] => inst' = [inst EXCEPT ![n] = inst[n] + 1]
      BY TypeFacts
    <3> QED BY <2>3, <2>4, <3>2, <3>3 DEF OnLearn, Execute
  <2>5. CASE x.type = "ASK_FOR_LEARN_REPLY" /\ OnAskForLearnReply(n, s, x)
    <3>1. x \in LearnReply /\ Len(NewStates(n, x)) \in Nat /\ FirstNew(n, x) = inst[n]
      <4>1. x \in LearnReply /\ x.start <= inst[n]
        BY <2>1, <2>5, MessageFields DEF AsksFromReached
      <4>2. x.start \in Nat /\ inst[n] \in Nat
        BY <4>1, LearnerFacts, MaxInstAssumption DEF LearnReply, InstOrEnd
      <4> QED BY <4>1, <4>2, NewStatesType DEF FirstNew
    <3>2. ASSUME NEW p, NEW k \in 0 .. Len(NewStates(n, x)), Learned(n, x, p, k)
          PROVE  Leaves(n)
      <4> DEFINE vals == [j \in 1 .. k |-> NewStates(n, x)[j].proposal.value]
      <4>1. vals \in Seq(AnyValue) /\ Len(vals) = k
        BY <3>1, LearnedValuesType
      <4>2. ExecuteAll(n, inst[n], vals) /\ inst' = [inst EXCEPT ![n] = inst[n] + k]
        BY <3>1, <3>2, TypeFacts DEF Learned
      <4> HIDE DEF vals
      <4> QED BY <4>1, <4>2
    <3>3. /\ Len(NewStates(n, x)) \in 0 .. Len(NewStates(n, x))
          /\ \A k \in 0 .. (Len(NewStates(n, x)) - 1) : k \in 0 .. Len(NewStates(n, x))
      BY <3>1
    <3> HIDE DEF Leaves
    <3> QED BY <2>5, <3>2, <3>3 DEF OnAskForLearnReply
  <2> HIDE DEF Leaves
  <2> QED
    BY <2>2, <2>3, <2>4, <2>5
    DEF OnOtherInstance, OnProposerMessage, OnAccepterMessage, OnLearnerMessage
<1> HIDE DEF Leaves
<1>3. (\E s, n \in Node : OnMessage(s, n)) \/ UNCHANGED <<inst, smlog>>
  BY <1>1
  DEF Next, ClientStep, ProposeTimeoutStep, AskStep, BreakStep, Break, stateMachineVars
<1>4. UNCHANGED <<inst, smlog>> \/ \E n \in Node : Leaves(n)
  BY <1>2, <1>3
<1> QED BY <1>4 DEF Leaves

LEMMA InOrderStep ==
  ASSUME TypeOK, NoCrash, MaxCrashes = 0, AsksFromReached, InOrder, Next
  PROVE  InOrder'
<1>1. CASE UNCHANGED <<inst, smlog>>
  BY <1>1 DEF InOrder
<1>2. ASSUME NEW n \in Node, NEW vals \in Seq(AnyValue),
             ExecuteAll(n, inst[n], vals),
             inst' = [inst EXCEPT ![n] = inst[n] + Len(vals)]
      PROVE  InOrder'
  <2> DEFINE ex == Executions(inst[n], vals)
  <2>1. /\ inst \in [Node -> InstOrEnd] /\ inst[n] \in Nat
        /\ smlog \in [Node -> Seq(Execution)] /\ smlog' \in [Node -> Seq(Execution)]
        /\ inst'[n] <= MaxInst + 1
    BY NextType, MaxInstAssumption DEF TypeOK, RoleTypeOK, StateMachineTypeOK, InstOrEnd
  <2>2. Len(vals) \in Nat /\ DOMAIN vals = 1 .. Len(vals)
    BY LenProperties
  <2>3. inst[n] + Len(vals) <= MaxInst + 1
    BY <1>2, <2>1
  <2>4. ex \in Seq(Execution)
    BY <2>1, <2>3, ExecutionsType
  <2>5. /\ DOMAIN ex = 1 .. Len(vals)
        /\ \A j \in 1 .. Len(vals) : ex[j].id = inst[n] + j - 1
    BY <2>2 DEF Executions
  <2>6. Len(ex) = Len(vals)
    <3> HIDE DEF ex
    <3> QED BY <2>2, <2>4, <2>5, LenProperties
  <2>7. smlog'[n] = smlog[n] \o ex
    BY <1>2, <2>1 DEF ExecuteAll
  <2> HIDE DEF ex
  <2>8. /\ Len(smlog[n]) = inst[n] /\ DOMAIN smlog[n] = 1 .. Len(smlog[n])
        /\ \A k \in 1 .. inst[n] : smlog[n][k].id = k - 1
    BY <2>1, LenProperties DEF InOrder
  <2>9. /\ Len(smlog'[n]) = inst[n] + Len(vals)
        /\ DOMAIN smlog'[n] = 1 .. (inst[n] + Len(vals))
        /\ \A k \in 1 .. (inst[n] + Len(vals)) :
             smlog'[n][k] = IF k <= inst[n] THEN smlog[n][k] ELSE ex[k - inst[n]]
    <3>1. smlog[n] \in Seq(Execution) /\ smlog'[n] \in Seq(Execution)
      BY <2>1
    <3>2. /\ Len(smlog'[n]) = Len(smlog[n]) + Len(ex)
          /\ \A k \in 1 .. (Len(smlog[n]) + Len(ex)) :
               smlog'[n][k] = IF k <= Len(smlog[n]) THEN smlog[n][k]
                                                     ELSE ex[k - Len(smlog[n])]
      BY <2>4, <2>7, <3>1, ConcatProperties
    <3>3. DOMAIN smlog'[n] = 1 .. Len(smlog'[n])
      BY <3>1, LenProperties
    <3> QED BY <2>6, <2>8, <3>2, <3>3
  <2>10. \A k \in DOMAIN smlog'[n] : smlog'[n][k].id = k - 1
    <3>1. TAKE k \in DOMAIN smlog'[n]
    <3>2. k \in 1 .. (inst[n] + Len(vals))
      BY <2>9
    <3>3. CASE k <= inst[n]
      BY <2>1, <2>8, <2>9, <3>2, <3>3
    <3>4. CASE ~(k <= inst[n])
      <4>1. k - inst[n] \in 1 .. Len(vals) /\ inst[n] + (k - inst[n]) - 1 = k - 1
        BY <2>1, <2>2, <3>2, <3>4
      <4> QED BY <2>5, <2>9, <3>2, <3>4, <4>1
    <3> QED BY <3>3, <3>4
  <2>11. inst'[n] = inst[n] + Len(vals)
    BY <1>2, <2>1
  <2>12. \A r \in Node \ {n} : smlog'[r] = smlog[r] /\ inst'[r] = inst[r]
    BY <1>2, <2>1 DEF ExecuteAll
  <2>13. Len(smlog'[n]) = inst'[n]
    BY <2>9, <2>11
  <2>14. ASSUME NEW r \in Node
         PROVE  /\ Len(smlog'[r]) = inst'[r]
                /\ \A k \in DOMAIN smlog'[r] : smlog'[r][k].id = k - 1
    <3>1. CASE r = n
      BY <2>10, <2>13, <3>1
    <3>2. CASE r # n
      BY <2>12, <3>2 DEF InOrder
    <3> QED BY <3>1, <3>2
  <2> QED BY <2>14 DEF InOrder
<1> QED BY <1>1, <1>2, ExecutesWhatItLeaves

LEMMA AlwaysInOrder == MaxCrashes = 0 /\ Spec => []InOrder
<1> SUFFICES ASSUME MaxCrashes = 0 PROVE Spec => []InOrder
  OBVIOUS
<1>1. Init => InOrder
  BY EmptySeq DEF Init, RoleInit, StateMachineInit, InOrder
<1>2. TypeOK /\ NoCrash /\ AsksFromReached /\ InOrder /\ [Next]_vars => InOrder'
  <2>1. CASE UNCHANGED vars
    BY <2>1 DEF vars, stateMachineVars, InOrder
  <2> QED BY <2>1, InOrderStep
<1> QED BY <1>1, <1>2, TypeCorrect, Reached, PTL DEF Spec

\* Without crashes, and whatever messages are lost or come late, every state
\* machine executes the instances in order, with no gap and none twice: a node
\* asks for records from its own instance on, which it never goes back behind,
\* and skips what it has learned in the meantime.
THEOREM ExecutesInOrderCorrect == MaxCrashes = 0 /\ Spec => []ExecutesInOrder
<1>1. InOrder => ExecutesInOrder
  BY DEF InOrder, ExecutesInOrder
<1> QED BY <1>1, AlwaysInOrder, PTL

LEMMA InOrderOnce == TypeOK /\ InOrder => NoReexecution
<1> SUFFICES ASSUME TypeOK, InOrder, NEW n \in Node,
                    NEW j \in DOMAIN smlog[n], NEW k \in DOMAIN smlog[n], j < k
             PROVE  smlog[n][j].id < smlog[n][k].id
  BY DEF NoReexecution
<1>1. smlog[n][j].id = j - 1 /\ smlog[n][k].id = k - 1
  BY DEF InOrder
<1>2. DOMAIN smlog[n] = 1 .. Len(smlog[n]) /\ Len(smlog[n]) \in Nat
  BY LenProperties DEF TypeOK, StateMachineTypeOK
<1>3. j \in Nat /\ k \in Nat
  BY <1>2
<1> QED BY <1>1, <1>3

\* Without crashes, no instance is executed again by catching up on what was
\* executed already.
THEOREM NoReexecutionCorrect == MaxCrashes = 0 /\ Spec => []NoReexecution
  BY InOrderOnce, TypeCorrect, AlwaysInOrder, PTL
-----------------------------------------------------------------------------
(* The accepter and its storage. *)

\* The accepter of n has its state from the storage, or nothing to remember.
UpToStorage(n) ==
  inst[n] <= MaxInst =>
    \/ storage[n][inst[n]] = acc[n]
    \/ storage[n][inst[n]] = NoRecord /\ acc[n] = EmptyState

NothingAhead(n) == \A i \in Inst : i > inst[n] => storage[n][i] = NoRecord

\* A node that runs has recorded what it knows of its instance and, so that
\* this is so in the next one too, nothing of later instances.
Synced == \A n \in Node : up[n] => UpToStorage(n) /\ NothingAhead(n)

LEMMA SyncedAt ==
  ASSUME Synced, NEW n \in Node,
         \A r \in Node \ {n} : /\ up'[r] = up[r] /\ inst'[r] = inst[r]
                               /\ storage'[r] = storage[r] /\ acc'[r] = acc[r],
         up'[n] => UpToStorage(n)' /\ NothingAhead(n)'
  PROVE  Synced'
  BY DEF Synced, UpToStorage, NothingAhead

\* What a reply does that does not begin ahead of its reader, where no
\* execution fails.
LEMMA Copied ==
  ASSUME TypeOK, MayFail = {}, NEW n \in Node, NEW s \in Node, NEW m \in LearnReply,
         m.start <= inst[n], OnAskForLearnReply(n, s, m)
  PROVE  LET new == NewStates(n, m) IN
         /\ new \in Seq(State) /\ Len(new) \in Nat /\ inst[n] + Len(new) <= MaxInst + 1
         /\ storage' = [storage EXCEPT ![n] =
              [i \in Inst |-> IF i \in inst[n] .. (inst[n] + Len(new) - 1)
                                THEN new[i - inst[n] + 1] ELSE storage[n][i]]]
         /\ ExecuteAll(n, inst[n], [j \in 1 .. Len(new) |-> new[j].proposal.value])
         /\ inst' = [inst EXCEPT ![n] = inst[n] + Len(new)]
         /\ acc' = [acc EXCEPT ![n] = IF new # <<>> THEN EmptyState ELSE acc[n]]
<1> DEFINE new == NewStates(n, m)
<1>1. new \in Seq(State) /\ Len(new) \in Nat /\ inst[n] + Len(new) <= MaxInst + 1
  BY NewStatesType
<1>2. FirstNew(n, m) = inst[n]
  <2>1. m.start \in Nat /\ inst[n] \in Nat
    BY LearnerFacts, MaxInstAssumption DEF LearnReply, InstOrEnd
  <2> QED BY <2>1 DEF FirstNew
<1>3. /\ Learned(n, m, Len(new), Len(new))
      /\ acc' = [acc EXCEPT ![n] = IF new # <<>> THEN EmptyState ELSE @]
  BY DEF OnAskForLearnReply
<1>4. /\ storage \in [Node -> [Inst -> State \cup {NoRecord}]] /\ acc \in [Node -> State]
      /\ inst \in [Node -> InstOrEnd]
  BY DEF TypeOK, RoleTypeOK, StorageTypeOK, AccepterTypeOK
<1>5. /\ storage' = [storage EXCEPT ![n] =
           [i \in Inst |-> IF i \in inst[n] .. (inst[n] + Len(new) - 1)
                             THEN new[i - inst[n] + 1] ELSE @[i]]]
      /\ ExecuteAll(n, inst[n], [j \in 1 .. Len(new) |-> new[j].proposal.value])
      /\ inst' = [inst EXCEPT ![n] = @ + Len(new)]
  BY <1>2, <1>3 DEF Learned
<1> HIDE DEF new
<1>6. /\ storage' = [storage EXCEPT ![n] =
           [i \in Inst |-> IF i \in inst[n] .. (inst[n] + Len(new) - 1)
                             THEN new[i - inst[n] + 1] ELSE storage[n][i]]]
      /\ inst' = [inst EXCEPT ![n] = inst[n] + Len(new)]
      /\ acc' = [acc EXCEPT ![n] = IF new # <<>> THEN EmptyState ELSE acc[n]]
  BY <1>3, <1>4, <1>5
<1> QED BY <1>1, <1>5, <1>6 DEF new

LEMMA SyncedMessage ==
  ASSUME TypeOK, MayFail = {}, AsksFromReached, Synced,
         NEW s \in Node, NEW n \in Node, OnMessage(s, n)
  PROVE  Synced'
<1> USE MaxInstAssumption
<1> DEFINE x == Head(net[s][n])
<1>1. /\ net[s][n] # <<>> /\ x \in Message /\ x \in Carried(net, s, n)
      /\ up[n] /\ UNCHANGED up
  BY ReceivedFacts DEF OnMessage
<1>2. \/ OnOtherInstance(n, s, x) \/ OnProposerMessage(n, s, x)
      \/ OnAccepterMessage(n, s, x) \/ OnLearn(n, s, x) \/ OnLearnerMessage(n, s, x)
  BY DEF OnMessage
<1> HIDE DEF x
<1>3. /\ inst \in [Node -> InstOrEnd] /\ acc \in [Node -> State]
      /\ storage \in [Node -> [Inst -> State \cup {NoRecord}]]
      /\ inst[n] \in Nat /\ inst[n] <= MaxInst + 1
  BY DEF TypeOK, RoleTypeOK, StorageTypeOK, AccepterTypeOK, InstOrEnd
<1>4. UpToStorage(n) /\ NothingAhead(n)
  BY <1>1 DEF Synced
<1>5. CASE UNCHANGED <<inst, storage, acc>>
  BY <1>1, <1>5 DEF Synced, UpToStorage, NothingAhead
<1>6. CASE OnAccepterMessage(n, s, x)
  <2>1. CASE acc'[n] \in State /\ inst[n] \in Inst /\ Persist(n, inst[n], acc'[n])
             /\ \E st : acc' = [acc EXCEPT ![n] = st]
    <3>1. UNCHANGED inst
      BY <1>6 DEF OnAccepterMessage
    <3>2. storage' = [storage EXCEPT ![n][inst[n]] = acc'[n]]
      BY <2>1 DEF Persist
    <3>3. /\ storage'[n][inst[n]] = acc'[n]
          /\ \A i \in Inst : i # inst[n] => storage'[n][i] = storage[n][i]
          /\ \A r \in Node \ {n} : storage'[r] = storage[r] /\ acc'[r] = acc[r]
      BY <1>3, <2>1, <3>2
    <3>4. UpToStorage(n)'
      BY <3>1, <3>3 DEF UpToStorage
    <3>5. NothingAhead(n)'
      BY <1>3, <1>4, <3>1, <3>3 DEF NothingAhead
    <3> QED BY <1>1, <3>1, <3>3, <3>4, <3>5, SyncedAt
  <2>2. CASE UNCHANGED <<storage, accepterVars>>
    BY <1>5, <1>6, <2>2 DEF OnAccepterMessage, accepterVars
  <2>3. inst[n] \in Inst
    BY <1>1, <1>6, MessageFields DEF OnAccepterMessage
  <2>4. CASE x.type = "PREPARE" /\ OnPrepare(n, s, x)
             /\ acc' = [acc EXCEPT ![n].promised = TRUE, ![n].promisedId = x.id]
    <3>1. x.id \in Nat
      BY <1>1, <2>4, MessageFields
    <3>2. [acc[n] EXCEPT !.promised = TRUE, !.promisedId = x.id] \in State
      BY <1>3, <3>1 DEF State
    <3>3. acc' = [acc EXCEPT ![n] = [acc[n] EXCEPT !.promised = TRUE, !.promisedId = x.id]]
      BY <1>3, <2>4
    <3>4. Persist(n, inst[n], acc'[n]) \/ UNCHANGED <<storage, accepterVars>>
      BY <2>4 DEF OnPrepare
    <3> QED BY <1>3, <2>1, <2>2, <2>3, <3>2, <3>3, <3>4
  <2>5. CASE x.type = "ACCEPT" /\ OnAccept(n, s, x)
             /\ acc' = [acc EXCEPT ![n].accepted = TRUE, ![n].proposal = x.proposal]
    <3>1. x.proposal \in Proposal
      BY <1>1, <2>5, MessageFields
    <3>2. [acc[n] EXCEPT !.accepted = TRUE, !.proposal = x.proposal] \in State
      BY <1>3, <3>1 DEF State
    <3>3. acc' = [acc EXCEPT ![n] = [acc[n] EXCEPT !.accepted = TRUE, !.proposal = x.proposal]]
      BY <1>3, <2>5
    <3>4. Persist(n, inst[n], acc'[n]) \/ UNCHANGED <<storage, accepterVars>>
      BY <2>5 DEF OnAccept
    <3> QED BY <1>3, <2>1, <2>2, <2>3, <3>2, <3>3, <3>4
  <2> QED BY <1>6, <2>2, <2>4, <2>5 DEF OnAccepterMessage, OnPrepare, OnAccept
<1>7. CASE OnLearn(n, s, x)
  <2>1. CASE inst' = [inst EXCEPT ![n] = @ + 1] /\ acc' = [acc EXCEPT ![n] = EmptyState]
    <3>1. /\ inst'[n] = inst[n] + 1 /\ acc'[n] = EmptyState /\ UNCHANGED storage
          /\ \A r \in Node \ {n} : inst'[r] = inst[r] /\ acc'[r] = acc[r]
      BY <1>3, <1>7, <2>1 DEF OnLearn
    <3>2. \A i \in Inst : i > inst[n] => storage[n][i] = NoRecord
      BY <1>4 DEF NothingAhead
    <3>3. UpToStorage(n)'
      <4>1. inst[n] + 1 <= MaxInst => inst[n] + 1 \in Inst /\ inst[n] + 1 > inst[n]
        BY <1>3 DEF Inst
      <4> QED BY <3>1, <3>2, <4>1 DEF UpToStorage
    <3>4. NothingAhead(n)'
      <4>1. \A i \in Inst : i > inst[n] + 1 => i > inst[n]
        BY <1>3 DEF Inst
      <4> QED BY <3>1, <3>2, <4>1 DEF NothingAhead
    <3> QED BY <1>1, <3>1, <3>3, <3>4, SyncedAt
  <2> QED BY <1>5, <1>7, <2>1 DEF OnLearn
<1>8. CASE x.type = "ASK_FOR_LEARN_REPLY" /\ OnAskForLearnReply(n, s, x)
  <2> DEFINE new == NewStates(n, x)
  <2>1. x \in LearnReply /\ x.start <= inst[n]
    BY <1>1, <1>8, MessageFields DEF AsksFromReached
  <2>2. /\ new \in Seq(State) /\ Len(new) \in Nat /\ inst[n] + Len(new) <= MaxInst + 1
        /\ storage' = [storage EXCEPT ![n] =
             [i \in Inst |-> IF i \in inst[n] .. (inst[n] + Len(new) - 1)
                               THEN new[i - inst[n] + 1] ELSE storage[n][i]]]
        /\ ExecuteAll(n, inst[n], [j \in 1 .. Len(new) |-> new[j].proposal.value])
        /\ inst' = [inst EXCEPT ![n] = inst[n] + Len(new)]
        /\ acc' = [acc EXCEPT ![n] = IF new # <<>> THEN EmptyState ELSE acc[n]]
    BY <1>8, <2>1, Copied
  <2> HIDE DEF new
  <2>3. /\ inst'[n] = inst[n] + Len(new)
        /\ acc'[n] = IF new # <<>> THEN EmptyState ELSE acc[n]
        /\ \A r \in Node \ {n} : /\ inst'[r] = inst[r] /\ acc'[r] = acc[r]
                                 /\ storage'[r] = storage[r]
    BY <1>3, <2>2
  <2>4. \A i \in Inst : i >= inst[n] + Len(new) => storage'[n][i] = storage[n][i]
    <3>1. TAKE i \in Inst
    <3>2. storage'[n][i] = IF i \in inst[n] .. (inst[n] + Len(new) - 1)
                             THEN new[i - inst[n] + 1] ELSE storage[n][i]
      BY <1>3, <2>2
    <3>3. i >= inst[n] + Len(new) => i \notin inst[n] .. (inst[n] + Len(new) - 1)
      BY <1>3, <2>2 DEF Inst
    <3> QED BY <3>2, <3>3
  <2>5. \A i \in Inst : i > inst[n] => storage[n][i] = NoRecord
    BY <1>4 DEF NothingAhead
  <2>6. NothingAhead(n)'
    <3>1. \A i \in Inst : i > inst[n] + Len(new) => i >= inst[n] + Len(new) /\ i > inst[n]
      BY <1>3, <2>2 DEF Inst
    <3> QED BY <2>3, <2>4, <2>5, <3>1 DEF NothingAhead
  <2>7. UpToStorage(n)'
    <3>1. SUFFICES ASSUME inst[n] + Len(new) <= MaxInst
                   PROVE  \/ storage'[n][inst[n] + Len(new)] = acc'[n]
                          \/ /\ storage'[n][inst[n] + Len(new)] = NoRecord
                             /\ acc'[n] = EmptyState
      BY <2>3 DEF UpToStorage
    <3>2. inst[n] + Len(new) \in Inst /\ inst[n] + Len(new) >= inst[n] + Len(new)
      BY <1>3, <2>2, <3>1 DEF Inst
    <3>3. storage'[n][inst[n] + Len(new)] = storage[n][inst[n] + Len(new)]
      BY <2>4, <3>2
    <3>4. CASE new = <<>>
      <4>1. inst[n] + Len(new) = inst[n]
        BY <1>3, <3>4
      <4> QED BY <1>4, <2>3, <3>1, <3>3, <3>4, <4>1 DEF UpToStorage
    <3>5. CASE new # <<>>
      <4>1. inst[n] + Len(new) > inst[n]
        <5>1. Len(new) > 0
          BY <2>2, <3>5, EmptySeq
        <5> QED BY <1>3, <2>2, <5>1
      <4> QED BY <2>3, <2>5, <3>2, <3>3, <3>5, <4>1
    <3> QED BY <3>4, <3>5
  <2> QED BY <1>1, <2>3, <2>6, <2>7, SyncedAt
<1> QED
  BY <1>2, <1>5, <1>6, <1>7, <1>8
  DEF OnOtherInstance, OnProposerMessage, OnLearnerMessage, accepterVars

LEMMA SyncedRestart ==
  ASSUME TypeOK, MayFail = {}, Synced, NEW n \in Node, Restart(n)
  PROVE  Synced'
<1> USE MaxInstAssumption
<1> DEFINE max == GetMaxInstanceId(n)
           last == LoadLastState(n)
<1>1. /\ up' = [up EXCEPT ![n] = TRUE]
      /\ inst' = [inst EXCEPT ![n] = IF last.accepted THEN max + 1 ELSE max]
      /\ acc' = [acc EXCEPT ![n] = IF last.accepted THEN EmptyState ELSE last]
      /\ UNCHANGED storage
  BY DEF Restart
<1>2. /\ max \in Inst
      /\ last = IF storage[n][max] = NoRecord THEN EmptyState ELSE storage[n][max]
      /\ \A i \in Inst : i > max => storage[n][i] = NoRecord
  BY LastRecordType, LastRecord DEF LoadLastState, TypeOK
<1> HIDE DEF max, last
<1>3. inst \in [Node -> InstOrEnd] /\ acc \in [Node -> State] /\ up \in [Node -> BOOLEAN]
  BY DEF TypeOK, RoleTypeOK, AccepterTypeOK
<1>4. \A r \in Node \ {n} : up'[r] = up[r] /\ inst'[r] = inst[r] /\ acc'[r] = acc[r]
  BY <1>1, <1>3
<1>5. /\ inst'[n] = IF last.accepted THEN max + 1 ELSE max
      /\ acc'[n] = IF last.accepted THEN EmptyState ELSE last
  BY <1>1, <1>3
<1>6. max \in Nat /\ max + 1 > max /\ (max + 1 <= MaxInst => max + 1 \in Inst)
  BY <1>2 DEF Inst
<1>7. UpToStorage(n)'
  BY <1>1, <1>2, <1>5, <1>6 DEF UpToStorage
<1>8. NothingAhead(n)'
  <2>1. \A i \in Inst : i > inst'[n] => i > max
    BY <1>5, <1>6 DEF Inst
  <2> QED BY <1>1, <1>2, <2>1 DEF NothingAhead
<1> QED BY <1>1, <1>4, <1>7, <1>8, SyncedAt

LEMMA SyncedStep ==
  ASSUME TypeOK, MayFail = {}, AsksFromReached, Synced, [Next]_vars
  PROVE  Synced'
<1>1. CASE UNCHANGED <<up, inst, storage, acc>>
  BY <1>1 DEF Synced, UpToStorage, NothingAhead
<1>2. ASSUME NEW n \in Node, Crash(n)
      PROVE  Synced'
  <2>1. /\ up' = [up EXCEPT ![n] = FALSE] /\ acc' = [acc EXCEPT ![n] = EmptyState]
        /\ \/ UNCHANGED <<inst, storage, stateMachineVars>>
           \/ CrashWhileLearning(n)
    BY <1>2 DEF Crash
  <2>2. /\ inst \in [Node -> InstOrEnd] /\ acc \in [Node -> State]
        /\ storage \in [Node -> [Inst -> State \cup {NoRecord}]]
        /\ up \in [Node -> BOOLEAN]
    BY DEF TypeOK, RoleTypeOK, StorageTypeOK, AccepterTypeOK
  <2>3. \A r \in Node \ {n} : inst'[r] = inst[r] /\ storage'[r] = storage[r]
    <3>1. CASE UNCHANGED <<inst, storage, stateMachineVars>>
      BY <3>1
    <3>2. CASE CrashWhileLearning(n)
      BY <2>2, <3>2 DEF CrashWhileLearning, Learned
    <3> QED BY <2>1, <3>1, <3>2
  <2>4. ~up'[n] /\ \A r \in Node \ {n} : up'[r] = up[r] /\ acc'[r] = acc[r]
    BY <2>1, <2>2
  <2> QED BY <2>3, <2>4, SyncedAt
<1> QED
  BY <1>1, <1>2, SyncedMessage, SyncedRestart
  DEF Next, vars, ClientStep, ProposeTimeoutStep, AskStep, BreakStep, Break, accepterVars

LEMMA SyncedInit == Init => Synced
<1>1. Init => \A n \in Node : /\ inst[n] = 0 /\ acc[n] = EmptyState
                              /\ \A i \in Inst : storage[n][i] = NoRecord
  BY DEF Init, RoleInit, StorageInit, AccepterInit
<1>2. 0 \in Inst
  BY MaxInstAssumption DEF Inst
<1> QED BY <1>1, <1>2 DEF Synced, UpToStorage, NothingAhead

\* Whatever is lost or delayed, and also after crashes and restarts, what an
\* accepter has promised or accepted in memory is in its storage, which holds
\* nothing of later instances.  This needs executions that do not fail (a record
\* is persisted before its value is executed) and replies that begin with an
\* instance their reader has reached, which only a crash between question and
\* reply could prevent: without crashes it is proved below.
THEOREM WriteAheadCorrect == MayFail = {} /\ Spec /\ []AsksFromReached => []WriteAhead
<1> SUFFICES ASSUME MayFail = {} PROVE Spec /\ []AsksFromReached => []WriteAhead
  OBVIOUS
<1>1. Init => Synced
  BY SyncedInit
<1>2. TypeOK /\ AsksFromReached /\ Synced /\ [Next]_vars => Synced'
  BY SyncedStep
<1>3. Synced => WriteAhead
  BY DEF Synced, UpToStorage, WriteAhead
<1> QED BY <1>1, <1>2, <1>3, TypeCorrect, PTL DEF Spec
-----------------------------------------------------------------------------
(* What catch-up replies carry. *)

\* What n has recorded of the instances it has left is what it executed.
StoredExecuted ==
  \A n \in Node : \A i \in Inst : i < inst[n] /\ storage[n][i] # NoRecord =>
    [id |-> i, value |-> storage[n][i].proposal.value] \in Entries(n)

StoredAt(n) ==
  \A i \in Inst : i < inst[n] /\ storage[n][i] # NoRecord =>
    [id |-> i, value |-> storage[n][i].proposal.value] \in Entries(n)

LEMMA StoredExecutedAt ==
  ASSUME TypeOK, Next, StoredExecuted, NEW n \in Node,
         \A r \in Node \ {n} : inst'[r] = inst[r] /\ storage'[r] = storage[r],
         StoredAt(n)'
  PROVE  StoredExecuted'
<1> SUFFICES ASSUME NEW r \in Node PROVE StoredAt(r)'
  BY DEF StoredExecuted, StoredAt
<1>1. CASE r = n
  BY <1>1
<1>2. CASE r # n
  <2>1. inst'[r] = inst[r] /\ storage'[r] = storage[r] /\ StoredAt(r)
    BY <1>2 DEF StoredExecuted, StoredAt
  <2>2. Entries(r) \subseteq Entries(r)'
    BY EntriesGrow
  <2> QED BY <2>1, <2>2 DEF StoredAt
<1> QED BY <1>1, <1>2

\* All the values that are executed at once are among the entries.
LEMMA ExecuteEntries ==
  ASSUME TypeOK, NEW n \in Node, NEW first \in Nat, NEW vals \in Seq(AnyValue),
         first + Len(vals) <= MaxInst + 1, ExecuteAll(n, first, vals),
         NEW j \in 1 .. Len(vals)
  PROVE  [id |-> first + j - 1, value |-> vals[j]] \in Entries(n)'
<1> DEFINE ex == Executions(first, vals)
<1>1. smlog \in [Node -> Seq(Execution)] /\ smlog[n] \in Seq(Execution)
  BY DEF TypeOK, StateMachineTypeOK
<1>2. ex \in Seq(Execution)
  BY ExecutionsType
<1>3. /\ DOMAIN vals = 1 .. Len(vals) /\ Len(vals) \in Nat
      /\ DOMAIN ex = 1 .. Len(vals)
      /\ ex[j] = [id |-> first + j - 1, value |-> vals[j]]
  BY LenProperties DEF Executions
<1>4. smlog'[n] = smlog[n] \o ex
  BY <1>1 DEF ExecuteAll
<1> HIDE DEF ex
<1>5. Len(ex) = Len(vals)
  BY <1>2, <1>3, LenProperties
<1>6. /\ smlog'[n] \in Seq(Execution) /\ Len(smlog[n]) \in Nat
      /\ Len(smlog'[n]) = Len(smlog[n]) + Len(ex)
      /\ \A k \in 1 .. Len(smlog[n]) + Len(ex) :
           smlog'[n][k] = IF k <= Len(smlog[n]) THEN smlog[n][k] ELSE ex[k - Len(smlog[n])]
  BY <1>1, <1>2, <1>4, ConcatProperties, LenProperties
<1>7. DOMAIN smlog'[n] = 1 .. Len(smlog'[n])
  BY <1>6, LenProperties
<1>8. /\ Len(smlog[n]) + j \in DOMAIN smlog'[n]
      /\ smlog'[n][Len(smlog[n]) + j] = ex[j]
  <2> DEFINE l == Len(smlog[n])
  <2>1. l \in Nat /\ j \in 1 .. Len(ex) /\ Len(ex) \in Nat
    BY <1>3, <1>5, <1>6
  <2> HIDE DEF l
  <2>2. l + j \in 1 .. l + Len(ex) /\ ~(l + j <= l) /\ (l + j) - l = j
    BY <2>1
  <2> QED BY <1>6, <1>7, <2>2 DEF l
<1> QED BY <1>3, <1>8 DEF Entries

LEMMA StoredExecutedMessage ==
  ASSUME TypeOK, MayFail = {}, AsksFromReached, Synced, StoredExecuted, Next,
         NEW s \in Node, NEW n \in Node, OnMessage(s, n)
  PROVE  StoredExecuted'
<1> USE MaxInstAssumption
<1> DEFINE x == Head(net[s][n])
<1>1. /\ net[s][n] # <<>> /\ x \in Message /\ x \in Carried(net, s, n)
      /\ up[n]
  BY ReceivedFacts DEF OnMessage
<1>2. \/ OnOtherInstance(n, s, x) \/ OnProposerMessage(n, s, x)
      \/ OnAccepterMessage(n, s, x) \/ OnLearn(n, s, x) \/ OnLearnerMessage(n, s, x)
  BY DEF OnMessage
<1> HIDE DEF x
<1>3. /\ inst \in [Node -> InstOrEnd] /\ acc \in [Node -> State]
      /\ storage \in [Node -> [Inst -> State \cup {NoRecord}]]
      /\ inst[n] \in Nat /\ inst[n] <= MaxInst + 1
  BY DEF TypeOK, RoleTypeOK, StorageTypeOK, AccepterTypeOK, InstOrEnd
<1>4. UpToStorage(n) /\ NothingAhead(n) /\ StoredAt(n)
  BY <1>1 DEF Synced, StoredExecuted, StoredAt
<1>5. Entries(n) \subseteq Entries(n)'
  BY EntriesGrow
<1>6. ASSUME UNCHANGED inst, \A r \in Node \ {n} : storage'[r] = storage[r],
             \A i \in Inst : i < inst[n] => storage'[n][i] = storage[n][i]
      PROVE  StoredExecuted'
  <2>1. StoredAt(n)'
    BY <1>4, <1>5, <1>6 DEF StoredAt
  <2> QED BY <1>6, <2>1, StoredExecutedAt
<1>7. CASE UNCHANGED <<inst, storage>>
  BY <1>6, <1>7
<1>8. CASE OnAccepterMessage(n, s, x)
  <2>1. inst[n] \in Inst /\ UNCHANGED inst
    BY <1>1, <1>8, MessageFields DEF OnAccepterMessage
  <2>2. CASE UNCHANGED storage
    BY <1>7, <2>1, <2>2
  <2>3. CASE storage' = [storage EXCEPT ![n][inst[n]] = acc'[n]]
    <3>1. /\ \A r \in Node \ {n} : storage'[r] = storage[r]
          /\ \A i \in Inst : i # inst[n] => storage'[n][i] = storage[n][i]
      BY <1>3, <2>3
    <3>2. \A i \in Inst : i < inst[n] => i # inst[n]
      BY <1>3
    <3> QED BY <1>6, <2>1, <3>1, <3>2
  <2> QED
    BY <1>8, <2>2, <2>3 DEF OnAccepterMessage, OnPrepare, OnAccept, Persist
<1>9. CASE OnLearn(n, s, x)
  <2> DEFINE v == acc[n].proposal.value
  <2>1. CASE inst' = [inst EXCEPT ![n] = @ + 1] /\ Execute(n, inst[n], v)
    <3>1. /\ inst'[n] = inst[n] + 1 /\ UNCHANGED storage
          /\ \A r \in Node \ {n} : inst'[r] = inst[r]
      BY <1>3, <1>9, <2>1 DEF OnLearn
    <3>2. inst[n] \in Inst /\ v \in AnyValue
      BY <1>1, <1>3, <1>9, MessageFields DEF OnLearn, State, Proposal
    <3>3. [id |-> inst[n], value |-> v] \in Entries(n)'
      BY <2>1, <3>2, ExecuteEntry
    <3>4. storage[n][inst[n]] # NoRecord => storage[n][inst[n]].proposal.value = v
      <4>1. inst[n] <= MaxInst
        BY <3>2 DEF Inst
      <4> QED BY <1>4, <4>1 DEF UpToStorage
    <3>5. \A i \in Inst : i < inst[n] + 1 => i < inst[n] \/ i = inst[n]
      BY <1>3 DEF Inst
    <3>6. ASSUME NEW i \in Inst, i < inst'[n], storage'[n][i] # NoRecord
          PROVE  [id |-> i, value |-> storage'[n][i].proposal.value] \in Entries(n)'
      <4>1. CASE i < inst[n]
        <5>1. [id |-> i, value |-> storage[n][i].proposal.value] \in Entries(n)
          BY <1>4, <3>1, <3>6, <4>1 DEF StoredAt
        <5> QED BY <1>5, <3>1, <5>1
      <4>2. CASE i = inst[n]
        <5>1. storage'[n][i].proposal.value = v
          BY <3>1, <3>4, <3>6, <4>2
        <5> QED BY <3>3, <4>2, <5>1
      <4> QED BY <3>1, <3>5, <3>6, <4>1, <4>2
    <3>7. StoredAt(n)'
      BY <3>6 DEF StoredAt
    <3> QED BY <3>1, <3>7, StoredExecutedAt
  <2> QED BY <1>7, <1>9, <2>1 DEF OnLearn
<1>10. CASE x.type = "ASK_FOR_LEARN_REPLY" /\ OnAskForLearnReply(n, s, x)
  <2> DEFINE new == NewStates(n, x)
             vals == [j \in 1 .. Len(new) |-> new[j].proposal.value]
  <2>1. x \in LearnReply /\ x.start <= inst[n]
    BY <1>1, <1>10, MessageFields DEF AsksFromReached
  <2>2. /\ new \in Seq(State) /\ Len(new) \in Nat /\ inst[n] + Len(new) <= MaxInst + 1
        /\ storage' = [storage EXCEPT ![n] =
             [i \in Inst |-> IF i \in inst[n] .. (inst[n] + Len(new) - 1)
                               THEN new[i - inst[n] + 1] ELSE storage[n][i]]]
        /\ ExecuteAll(n, inst[n], vals)
        /\ inst' = [inst EXCEPT ![n] = inst[n] + Len(new)]
        /\ acc' = [acc EXCEPT ![n] = IF new # <<>> THEN EmptyState ELSE acc[n]]
    BY <1>10, <2>1, Copied
  <2>3. vals \in Seq(AnyValue) /\ Len(vals) = Len(new)
    <3>1. Len(NewStates(n, x)) \in 0 .. Len(NewStates(n, x))
      BY <2>2
    <3> QED BY <2>1, <3>1, LearnedValuesType
  <2>4. \A j \in 1 .. Len(new) : vals[j] = new[j].proposal.value
    OBVIOUS
  <2> HIDE DEF vals, new
  <2>5. /\ inst'[n] = inst[n] + Len(new)
        /\ \A r \in Node \ {n} : inst'[r] = inst[r] /\ storage'[r] = storage[r]
    BY <1>3, <2>2
  <2>6. \A j \in 1 .. Len(new) :
          [id |-> inst[n] + j - 1, value |-> new[j].proposal.value] \in Entries(n)'
    <3>1. \A j \in 1 .. Len(vals) :
            [id |-> inst[n] + j - 1, value |-> vals[j]] \in Entries(n)'
      BY <1>3, <2>2, <2>3, ExecuteEntries
    <3> QED BY <2>3, <2>4, <3>1
  <2>7. ASSUME NEW i \in Inst, i < inst'[n], storage'[n][i] # NoRecord
        PROVE  [id |-> i, value |-> storage'[n][i].proposal.value] \in Entries(n)'
    <3>1. storage'[n][i] = IF i \in inst[n] .. (inst[n] + Len(new) - 1)
                             THEN new[i - inst[n] + 1] ELSE storage[n][i]
      BY <1>3, <2>2
    <3>2. i \in Nat
      BY DEF Inst
    <3>3. CASE i \in inst[n] .. (inst[n] + Len(new) - 1)
      <4>1. /\ i - inst[n] + 1 \in 1 .. Len(new)
            /\ inst[n] + (i - inst[n] + 1) - 1 = i
        BY <1>3, <2>2, <3>2, <3>3
      <4> QED BY <2>6, <3>1, <3>3, <4>1
    <3>4. CASE i \notin inst[n] .. (inst[n] + Len(new) - 1)
      <4>1. i < inst[n]
        BY <1>3, <2>2, <2>5, <2>7, <3>2, <3>4
      <4>2. [id |-> i, value |-> storage[n][i].proposal.value] \in Entries(n)
        BY <1>4, <2>7, <3>1, <3>4, <4>1 DEF StoredAt
      <4> QED BY <1>5, <3>1, <3>4, <4>2
    <3> QED BY <3>3, <3>4
  <2>8. StoredAt(n)'
    BY <2>7 DEF StoredAt
  <2> QED BY <2>5, <2>8, StoredExecutedAt
<1> QED
  BY <1>2, <1>7, <1>8, <1>9, <1>10
  DEF OnOtherInstance, OnProposerMessage, OnLearnerMessage

LEMMA StoredExecutedStep ==
  ASSUME TypeOK, NoCrash, MaxCrashes = 0, MayFail = {}, AsksFromReached, Synced,
         StoredExecuted, Next
  PROVE  StoredExecuted'
<1>1. CASE UNCHANGED <<inst, storage>>
  <2>1. \A n \in Node : Entries(n) \subseteq Entries(n)'
    BY EntriesGrow
  <2> QED BY <1>1, <2>1 DEF StoredExecuted
<1>2. \A n \in Node : ~Crash(n) /\ ~Restart(n)
  BY DEF NoCrash, Crash, Restart, TypeOK
<1> QED
  BY <1>1, <1>2, StoredExecutedMessage
  DEF Next, ClientStep, ProposeTimeoutStep, AskStep, BreakStep, Break

\* A reply that is sent carries values its sender has executed, and what was
\* executed stays executed.
LEMMA CatchUpFaithfulStep ==
  ASSUME TypeOK, StoredExecuted, CatchUpFaithful, Next
  PROVE  CatchUpFaithful'
<1> SUFFICES ASSUME NEW s \in Node, NEW r \in Node, NEW j \in DOMAIN net'[s][r],
                    net'[s][r][j].type = "ASK_FOR_LEARN_REPLY",
                    NEW k \in DOMAIN net'[s][r][j].states
             PROVE  [id |-> net'[s][r][j].start + k - 1,
                     value |-> net'[s][r][j].states[k].proposal.value] \in Entries(s)'
  BY DEF CatchUpFaithful
<1> DEFINE m == net'[s][r][j]
<1>1. m \in Carried(net', s, r)
  BY DEF Carried
<1>2. Entries(s) \subseteq Entries(s)'
  BY EntriesGrow
<1>3. CASE m \in Carried(net, s, r)
  <2>1. PICK i \in DOMAIN net[s][r] : m = net[s][r][i]
    BY <1>3 DEF Carried
  <2>2. [id |-> m.start + k - 1, value |-> m.states[k].proposal.value] \in Entries(s)
    BY <2>1 DEF CatchUpFaithful
  <2> QED BY <1>2, <2>2
<1>4. CASE NewMessage(s, r, m)
  <2> HIDE DEF m
  <2>1. Explained(s, r, m)
    BY <1>4, NewMessages
  <2>2. m.type = "ASK_FOR_LEARN_REPLY" /\ k \in DOMAIN m.states
    BY DEF m
  <2> DEFINE i == m.start + k - 1
  <2>3. /\ i \in Inst /\ i < inst[s] /\ storage[s][i] # NoRecord
        /\ m.states[k] = storage[s][i]
    BY <2>1, <2>2 DEF Explained, Loaded
  <2>4. [id |-> i, value |-> storage[s][i].proposal.value] \in Entries(s)
    BY <2>3 DEF StoredExecuted
  <2> QED BY <1>2, <2>3, <2>4 DEF m
<1> QED BY <1>1, <1>3, <1>4 DEF NewMessage

LEMMA CopiesInit == Init => Synced /\ StoredExecuted /\ CatchUpFaithful
<1> SUFFICES ASSUME Init PROVE Synced /\ StoredExecuted /\ CatchUpFaithful
  OBVIOUS
<1>1. Synced
  BY SyncedInit
<1>2. StoredExecuted
  BY DEF Init, StorageInit, StoredExecuted
<1>3. CatchUpFaithful
  BY EmptySeq DEF Init, RoleInit, CatchUpFaithful
<1> QED BY <1>1, <1>2, <1>3

LEMMA CopiesStep ==
  ASSUME TypeOK, NoCrash, MaxCrashes = 0, MayFail = {}, AsksFromReached, Synced,
         StoredExecuted, CatchUpFaithful, [Next]_vars
  PROVE  Synced' /\ StoredExecuted' /\ CatchUpFaithful'
<1>1. Synced'
  BY SyncedStep
<1>2. CASE UNCHANGED vars
  BY <1>1, <1>2 DEF vars, stateMachineVars, StoredExecuted, Entries, CatchUpFaithful
<1>3. CASE Next
  BY <1>1, <1>3, StoredExecutedStep, CatchUpFaithfulStep
<1> QED BY <1>2, <1>3

LEMMA Copies ==
  MaxCrashes = 0 /\ MayFail = {} /\ Spec => [](Synced /\ StoredExecuted /\ CatchUpFaithful)
<1> SUFFICES ASSUME MaxCrashes = 0, MayFail = {}
             PROVE  Spec => [](Synced /\ StoredExecuted /\ CatchUpFaithful)
  OBVIOUS
<1>1. TypeOK /\ NoCrash /\ AsksFromReached /\ Synced /\ StoredExecuted /\ CatchUpFaithful
        /\ [Next]_vars => Synced' /\ StoredExecuted' /\ CatchUpFaithful'
  BY CopiesStep
<1> QED BY <1>1, CopiesInit, TypeCorrect, Reached, PTL DEF Spec

\* Without crashes and failing executions, and whatever messages are lost or
\* come late, a catch-up reply carries for each instance the value its sender
\* has executed, though the sender took it from its storage: of the instances it
\* has left, the storage holds what was executed, whether the node learned them
\* from LEARN or copied them itself.
THEOREM CatchUpFaithfulCorrect ==
  MaxCrashes = 0 /\ MayFail = {} /\ Spec => [](WriteAhead /\ CatchUpFaithful)
<1>1. Synced => WriteAhead
  BY DEF Synced, UpToStorage, WriteAhead
<1> QED BY <1>1, Copies, PTL
-----------------------------------------------------------------------------
(* Every question of a learner is answered. *)

\* Sending adds a message and takes none away.
LEMMA SendKeeps ==
  ASSUME NEW nt \in Network, NEW n \in Node, NEW dests, NEW m,
         NEW a \in Node, NEW b \in Node
  PROVE  /\ Carried(nt, a, b) \subseteq Carried(Send(nt, n, dests, m), a, b)
         /\ a = n /\ b \in dests => m \in Carried(Send(nt, n, dests, m), a, b)
<1>1. CASE a = n /\ b \in dests
  <2> DEFINE q == nt[n][b]
             S == Message \cup {m}
  <2>1. q \in Seq(Message)
    BY <1>1 DEF Network
  <2>2. Send(nt, n, dests, m)[a][b] = Append(q, m)
    BY <1>1 DEF Send, Network
  <2>3. q \in Seq(S) /\ m \in S
    <3>1. Message \subseteq S
      OBVIOUS
    <3> HIDE DEF q, S
    <3>2. DOMAIN q = 1 .. Len(q) /\ Len(q) \in Nat /\ \A j \in 1 .. Len(q) : q[j] \in Message
      BY <2>1, LenProperties, ElementOfSeq
    <3>3. q = [j \in DOMAIN q |-> q[j]]
      BY <2>1
    <3>4. q \in [1 .. Len(q) -> S]
      BY <3>1, <3>2, <3>3
    <3>5. q \in Seq(S)
      BY <3>2, <3>4, SeqDef
    <3> QED BY <3>5 DEF S
  <2> HIDE DEF q, S
  <2>4. /\ DOMAIN Append(q, m) = 1 .. (Len(q) + 1)
        /\ DOMAIN q = 1 .. Len(q) /\ Len(q) \in Nat
        /\ \A j \in 1 .. Len(q) : Append(q, m)[j] = q[j]
        /\ Append(q, m)[Len(q) + 1] = m
    BY <2>3, AppendProperties, LenProperties
  <2>5. /\ 1 .. Len(q) \subseteq 1 .. (Len(q) + 1)
        /\ Len(q) + 1 \in 1 .. (Len(q) + 1)
    BY <2>4
  <2> QED BY <1>1, <2>2, <2>4, <2>5 DEF Carried, q
<1>2. CASE ~(a = n /\ b \in dests)
  <2>1. Send(nt, n, dests, m)[a][b] = nt[a][b]
    BY <1>2 DEF Send, Network
  <2> QED BY <1>2, <2>1 DEF Carried
<1> QED BY <1>1, <1>2

\* Handling the first message leaves all the others.
LEMMA ReceivedKeeps ==
  ASSUME net \in Network, NEW s \in Node, NEW n \in Node, net[s][n] # <<>>,
         NEW a \in Node, NEW b \in Node, NEW m \in Carried(net, a, b)
  PROVE  \/ m \in Carried(Received(s, n), a, b)
         \/ a = s /\ b = n /\ m = Head(net[s][n])
<1>1. CASE a = s /\ b = n
  <2> DEFINE q == net[s][n]
  <2>1. q \in Seq(Message) /\ Len(q) \in Nat /\ Len(q) >= 1 /\ DOMAIN q = 1 .. Len(q)
    BY EmptySeq, LenProperties DEF Network
  <2>2. Received(s, n)[a][b] = Tail(q)
    BY <1>1 DEF Received, Network
  <2>3. Head(q) = q[1]
    BY <2>1
  <2>4. PICK j \in 1 .. Len(q) : m = q[j]
    BY <1>1, <2>1 DEF Carried
  <2>5. CASE j = 1
    BY <1>1, <2>3, <2>4, <2>5
  <2>6. CASE j # 1
    <3>1. /\ Tail(q) \in Seq(Message) /\ Len(Tail(q)) = Len(q) - 1
          /\ \A k \in 1 .. Len(q) - 1 : Tail(q)[k] = q[k + 1]
      BY <2>1
    <3>2. DOMAIN Tail(q) = 1 .. Len(q) - 1
      BY <3>1, LenProperties
    <3>3. j - 1 \in 1 .. Len(q) - 1 /\ (j - 1) + 1 = j
      BY <2>1, <2>4, <2>6
    <3> HIDE DEF q
    <3>4. m = Tail(q)[j - 1] /\ j - 1 \in DOMAIN Tail(q)
      BY <2>4, <3>1, <3>2, <3>3
    <3> QED BY <2>2, <3>4 DEF Carried
  <2> QED BY <2>4, <2>5, <2>6
<1>2. CASE ~(a = s /\ b = n)
  <2>1. Received(s, n)[a][b] = net[a][b]
    BY <1>2 DEF Received, Network
  <2> QED BY <2>1 DEF Carried
<1> QED BY <1>1, <1>2

\* A question of the learner n, or an answer to it, is on its way in nt.
Awaited(nt, n) ==
  \E s \in Node :
    \/ \E m \in Carried(nt, n, s) : m.type = "ASK_FOR_LEARN"
    \/ \E m \in Carried(nt, s, n) : m.type = "ASK_FOR_LEARN_REPLY"

LEMMA AwaitedStays ==
  ASSUME NEW nt, NEW mt, \A a, b \in Node : Carried(nt, a, b) \subseteq Carried(mt, a, b),
         NEW n \in Node, Awaited(nt, n)
  PROVE  Awaited(mt, n)
  BY DEF Awaited

LEMMA AskIsAwaited ==
  ASSUME NEW nt \in Network, NEW n \in Node, NEW l \in LearnerState, NEW i \in InstOrEnd,
         \A r \in Node : up[r], l.seen > 0 => l.seenNode \in Node, Asked(l, i).asking
  PROVE  l.asking \/ Awaited(AskForLearn(nt, n, l, i), n)
<1> SUFFICES ASSUME ~l.asking PROVE Awaited(AskForLearn(nt, n, l, i), n)
  OBVIOUS
<1> DEFINE ask == [type |-> "ASK_FOR_LEARN", from |-> i]
<1>1. Asks(l, i)
  BY DEF Asked, LearnerState
<1>2. l.seenNode \in Node
  BY <1>1, MaxInstAssumption DEF Asks, LearnerState, InstOrEnd
<1>3. AskForLearn(nt, n, l, i) = Send(nt, n, {l.seenNode} \cap Running, ask)
  BY <1>1 DEF AskForLearn, SendMessageTo
<1>4. l.seenNode \in {l.seenNode} \cap Running /\ ask \in Message /\ ask.type = "ASK_FOR_LEARN"
  BY <1>2, LearnerMessages DEF Running
<1> HIDE DEF ask
<1>5. ask \in Carried(Send(nt, n, {l.seenNode} \cap Running, ask), n, l.seenNode)
  BY <1>2, <1>4, SendKeeps
<1> QED BY <1>2, <1>3, <1>4, <1>5 DEF Awaited

\* The handler of one message takes no other away.
LEMMA OthersStay ==
  ASSUME TypeOK, NEW s \in Node, NEW n \in Node, OnMessage(s, n),
         NEW a \in Node, NEW b \in Node
  PROVE  Carried(Received(s, n), a, b) \subseteq Carried(net', a, b)
<1> DEFINE nt == Received(s, n)
           m == Head(net[s][n])
<1>1. net[s][n] # <<>> /\ nt \in Network /\ m \in Message
  BY ReceivedFacts DEF OnMessage
<1>2. ASSUME NEW dests, NEW x, net' = Send(nt, n, dests, x)
      PROVE  Carried(nt, a, b) \subseteq Carried(net', a, b)
  BY <1>1, <1>2, SendKeeps
<1>3. CASE net' = nt
  BY <1>3
<1>4. \A l : \A i \in InstOrEnd :
        /\ AskForLearn(nt, n, l, i) \in Network
        /\ Carried(nt, a, b) \subseteq Carried(AskForLearn(nt, n, l, i), a, b)
  BY <1>1, AskForLearnType, SendKeeps DEF AskForLearn, SendMessageTo
<1>5. /\ inst[n] \in InstOrEnd
      /\ OnLearnerMessage(n, s, m) => inst' \in [Node -> InstOrEnd]
  <2>1. OnLearnerMessage(n, s, m) => inst' \in [Node -> InstOrEnd]
    <3>1. UNCHANGED <<up, breaks, crashes>>
      BY DEF OnMessage
    <3> QED BY <1>1, <3>1, OnLearnerMessageType DEF TypeOK, RoleTypeOK
  <2> QED BY <2>1, LearnerFacts
<1> HIDE DEF nt, m
<1>6. CASE OnOtherInstance(n, s, m) \/ OnLearn(n, s, m)
  BY <1>3, <1>6 DEF OnOtherInstance, OnLearn, nt
<1>7. CASE OnProposerMessage(n, s, m)
  <2>1. net' = nt \/ \E dests, x : net' = Send(nt, n, dests, x)
    BY <1>7
    DEF OnProposerMessage, OnPromised, OnRejectPromise, OnRejectAccept, Rejected, OnAccepted,
        Skipped, Accept, Learn, Broadcast, nt
  <2> QED BY <1>2, <1>3, <2>1 DEF nt
<1>8. CASE OnAccepterMessage(n, s, m)
  <2>1. \E dests, x : net' = Send(nt, n, dests, x)
    BY <1>8
    DEF OnAccepterMessage, OnPrepare, OnAccept, ReplyPromised, ReplyRejectPromise,
        ReplyAccepted, ReplyRejectAccept, SendMessageTo, nt
  <2> QED BY <1>2, <2>1 DEF nt
<1>9. CASE OnLearnerMessage(n, s, m)
  <2>1. CASE OnAskForInstanceID(n, s, m)
    <3>1. PICK mt \in Network : \E dests, x :
            Carried(nt, a, b) \subseteq Carried(mt, a, b) /\ net' = Send(mt, n, dests, x)
      BY <1>4, <1>5, <2>1 DEF OnAskForInstanceID, SendMessageTo, nt
    <3>2. PICK dests, x : net' = Send(mt, n, dests, x)
      BY <3>1
    <3>3. Carried(mt, a, b) \subseteq Carried(net', a, b)
      BY <3>2, SendKeeps
    <3> QED BY <3>1, <3>3 DEF nt
  <2>2. CASE OnAskForInstanceIDReply(n, s, m)
    BY <1>4, <1>5, <2>2 DEF OnAskForInstanceIDReply, OnSeenOthersInstanceID, nt
  <2>3. CASE OnAskForLearn(n, s, m)
    <3>1. net' = nt \/ \E dests, x : net' = Send(nt, n, dests, x)
      BY <2>3 DEF OnAskForLearn, SendMessageTo, nt
    <3> QED BY <1>2, <1>3, <3>1 DEF nt
  <2>4. CASE OnAskForLearnReply(n, s, m)
    <3>1. inst'[n] \in InstOrEnd
      BY <1>5, <1>9
    <3> QED BY <1>3, <1>4, <2>4, <3>1 DEF OnAskForLearnReply, OnSeenOthersInstanceID, nt
  <2> QED BY <1>9, <2>1, <2>2, <2>3, <2>4 DEF OnLearnerMessage
<1> QED BY <1>6, <1>7, <1>8, <1>9 DEF OnMessage, m, nt

\* There is a record of every instance a node has left.
Filled == \A n \in Node : \A i \in Inst : i < inst[n] => storage[n][i] # NoRecord

LEMMA AwaitedMessage ==
  ASSUME TypeOK, Filled, MayFail = {}, \A r \in Node : up[r],
         \A r \in Node : lrn[r].asking => Awaited(net, r),
         NEW s \in Node, NEW n \in Node, OnMessage(s, n)
  PROVE  \A r \in Node : lrn'[r].asking => Awaited(net', r)
<1> DEFINE nt == Received(s, n)
           m == Head(net[s][n])
<1>1. /\ net[s][n] # <<>> /\ nt \in Network /\ m \in Message /\ m \in Carried(net, s, n)
      /\ \A a, b \in Node : Carried(nt, a, b) \subseteq Carried(net', a, b)
  BY ReceivedFacts, OthersStay DEF OnMessage
<1>2. /\ \A a, b \in Node : \A q \in Carried(net, a, b) :
           q \in Carried(nt, a, b) \/ (a = s /\ b = n /\ q = m)
      /\ lrn \in [Node -> LearnerState]
  BY <1>1, ReceivedKeeps, TypeFacts DEF TypeOK, LearnerTypeOK
<1> HIDE DEF nt, m
<1>3. ASSUME NEW r \in Node, lrn[r].asking,
             m.type = "ASK_FOR_LEARN" => r # s, m.type = "ASK_FOR_LEARN_REPLY" => r # n
      PROVE  Awaited(net', r)
  <2>1. Awaited(nt, r)
    BY <1>2, <1>3 DEF Awaited
  <2> QED BY <1>1, <2>1, AwaitedStays
<1>4. ASSUME NEW l \in LearnerState, NEW i \in InstOrEnd, NEW mt \in Network,
             l.seen > 0 => l.seenNode \in Node,
             lrn' = [lrn EXCEPT ![n] = Asked(l, i)],
             \A a, b \in Node : Carried(AskForLearn(mt, n, l, i), a, b) \subseteq
                                  Carried(net', a, b),
             NEW r \in Node, lrn'[r].asking
      PROVE  (lrn[r].asking /\ r # n) \/ (l.asking /\ r = n) \/ Awaited(net', r)
  <2>1. CASE r # n
    <3>1. lrn'[r] = lrn[r]
      BY <1>2, <1>4, <2>1
    <3> QED BY <1>4, <2>1, <3>1
  <2>2. CASE r = n
    <3>1. Asked(l, i).asking
      BY <1>2, <1>4, <2>2
    <3>2. l.asking \/ Awaited(AskForLearn(mt, n, l, i), n)
      BY <1>4, <3>1, AskIsAwaited
    <3> QED BY <1>4, <2>2, <3>2, AwaitedStays
  <2> QED BY <2>1, <2>2
<1>5. CASE UNCHANGED lrn /\ m.type \notin {"ASK_FOR_LEARN", "ASK_FOR_LEARN_REPLY"}
  BY <1>3, <1>5
<1>6. lrn[n] \in LearnerState /\ inst[n] \in InstOrEnd /\ (lrn[n].seen > 0 => lrn[n].seenNode \in Node)
  BY LearnerFacts
<1>7. CASE m.type = "ASK_FOR_INSTANCE_ID" /\ OnAskForInstanceID(n, s, m)
  <2> DEFINE l == Seen(lrn[n], s, m.my)
             mt == AskForLearn(nt, n, l, inst[n])
  <2>1. m.my \in InstOrEnd
    BY <1>1, <1>7, MessageFields
  <2>2. l \in LearnerState /\ (l.seen > 0 => l.seenNode \in Node) /\ (l.asking <=> lrn[n].asking)
    BY <1>6, <2>1, SeenType DEF Seen, LearnerState
  <2>3. mt \in Network
    BY <1>1, <1>6, AskForLearnType
  <2>4. \A a, b \in Node : Carried(mt, a, b) \subseteq Carried(net', a, b)
    <3>1. net' = SendMessageTo(mt, n, s, [type |-> "ASK_FOR_INSTANCE_ID_REPLY", my |-> inst[n]])
      BY <1>7 DEF OnAskForInstanceID, nt
    <3> HIDE DEF mt
    <3> QED BY <2>3, <3>1, SendKeeps DEF SendMessageTo
  <2>5. lrn' = [lrn EXCEPT ![n] = Asked(l, inst[n])]
    BY <1>7 DEF OnAskForInstanceID
  <2> HIDE DEF l
  <2>6. ASSUME NEW r \in Node, lrn'[r].asking PROVE Awaited(net', r)
    <3>1. (lrn[r].asking /\ r # n) \/ (l.asking /\ r = n) \/ Awaited(net', r)
      BY <1>1, <1>4, <1>6, <2>2, <2>4, <2>5, <2>6
    <3>2. lrn[r].asking => Awaited(net', r)
      BY <1>3, <1>7
    <3> QED BY <2>2, <3>1, <3>2
  <2> QED BY <2>6
<1>8. CASE m.type = "ASK_FOR_INSTANCE_ID_REPLY" /\ OnAskForInstanceIDReply(n, s, m)
  <2> DEFINE l == Seen(lrn[n], s, m.my)
  <2>1. m.my \in InstOrEnd
    BY <1>1, <1>8, MessageFields
  <2>2. l \in LearnerState /\ (l.seen > 0 => l.seenNode \in Node) /\ (l.asking <=> lrn[n].asking)
    BY <1>6, <2>1, SeenType DEF Seen, LearnerState
  <2>3. lrn' = [lrn EXCEPT ![n] = Asked(l, inst[n])] /\ net' = AskForLearn(nt, n, l, inst[n])
    BY <1>8 DEF OnAskForInstanceIDReply, OnSeenOthersInstanceID, nt
  <2> HIDE DEF l
  <2>4. ASSUME NEW r \in Node, lrn'[r].asking PROVE Awaited(net', r)
    <3>1. (lrn[r].asking /\ r # n) \/ (l.asking /\ r = n) \/ Awaited(net', r)
      BY <1>1, <1>4, <1>6, <2>2, <2>3, <2>4
    <3>2. lrn[r].asking => Awaited(net', r)
      BY <1>3, <1>8
    <3> QED BY <2>2, <3>1, <3>2
  <2> QED BY <2>4
<1>9. CASE m.type = "ASK_FOR_LEARN" /\ OnAskForLearn(n, s, m) /\ UNCHANGED lrn
  <2>1. m.from \in InstOrEnd
    BY <1>1, <1>9, MessageFields
  <2>2. {i \in m.from .. (inst[n] - 1) : storage[n][i] = NoRecord} = {}
    <3>1. \A i \in m.from .. (inst[n] - 1) : i \in Inst /\ i < inst[n]
      BY <1>6, <2>1, MaxInstAssumption DEF InstOrEnd, Inst
    <3> QED BY <3>1 DEF Filled
  <2>3. \E y : y.type = "ASK_FOR_LEARN_REPLY" /\ net' = SendMessageTo(nt, n, s, y)
    <3>1. CASE net' = SendMessageTo(nt, n, s, NothingToLearn)
      BY <3>1 DEF NothingToLearn
    <3>2. ASSUME NEW k,
                 net' = SendMessageTo(nt, n, s,
                   [type |-> "ASK_FOR_LEARN_REPLY", start |-> m.from,
                    states |-> [j \in 1 .. k |-> storage[n][m.from + j - 1]],
                    my |-> inst[n]])
          PROVE  \E y : y.type = "ASK_FOR_LEARN_REPLY" /\ net' = SendMessageTo(nt, n, s, y)
      BY <3>2
    <3> QED BY <1>9, <2>2, <3>1, <3>2 DEF OnAskForLearn, nt
  <2>4. PICK y : y.type = "ASK_FOR_LEARN_REPLY" /\ net' = SendMessageTo(nt, n, s, y)
    BY <2>3
  <2>5. y \in Carried(net', n, s)
    BY <1>1, <2>4, SendKeeps DEF SendMessageTo, Running
  <2>6. Awaited(net', s)
    BY <2>4, <2>5 DEF Awaited
  <2> QED BY <1>3, <1>9, <2>6
<1>10. CASE m.type = "ASK_FOR_LEARN_REPLY" /\ OnAskForLearnReply(n, s, m)
  <2> DEFINE l == Seen(Answered(lrn[n]), s, m.my)
  <2>1. m.my \in InstOrEnd /\ Len(NewStates(n, m)) \in Nat
    BY <1>1, <1>10, MessageFields, NewStatesType DEF LearnReply
  <2>2. inst' \in [Node -> InstOrEnd]
    BY <1>1, <1>10, OnAskForLearnReplyType
  <2>3. l \in LearnerState /\ (l.seen > 0 => l.seenNode \in Node) /\ ~l.asking
    <3>1. /\ Answered(lrn[n]) \in LearnerState
          /\ Answered(lrn[n]).seen > 0 => Answered(lrn[n]).seenNode \in Node
          /\ ~Answered(lrn[n]).asking
      BY <1>6 DEF Answered, LearnerState
    <3>2. l.asking = Answered(lrn[n]).asking
      BY <3>1 DEF Seen, LearnerState
    <3> QED BY <2>1, <3>1, <3>2, SeenType
  <2>4. lrn' = [lrn EXCEPT ![n] = Asked(l, inst'[n])] /\ net' = AskForLearn(nt, n, l, inst'[n])
    BY <1>10 DEF OnAskForLearnReply, OnSeenOthersInstanceID, nt
  <2> HIDE DEF l
  <2>5. ASSUME NEW r \in Node, lrn'[r].asking PROVE Awaited(net', r)
    <3>1. (lrn[r].asking /\ r # n) \/ (l.asking /\ r = n) \/ Awaited(net', r)
      BY <1>1, <1>4, <2>2, <2>3, <2>4, <2>5
    <3>2. r # n /\ lrn[r].asking => Awaited(net', r)
      BY <1>3, <1>10
    <3> QED BY <2>3, <3>1, <3>2
  <2> QED BY <2>5
<1>11. CASE OnLearnerMessage(n, s, m)
  BY <1>7, <1>8, <1>9, <1>10, <1>11 DEF OnLearnerMessage
<1>12. CASE OnOtherInstance(n, s, m)
  BY <1>5, <1>12 DEF OnOtherInstance, HasInstance
<1>13. CASE OnProposerMessage(n, s, m) \/ OnAccepterMessage(n, s, m)
  BY <1>5, <1>13 DEF OnProposerMessage, OnAccepterMessage
<1>14. CASE OnLearn(n, s, m)
  BY <1>5, <1>14 DEF OnLearn
<1> QED BY <1>11, <1>12, <1>13, <1>14 DEF OnMessage, m

\* Without faults.
LEMMA AskIsAnsweredStep ==
  ASSUME TypeOK, Filled, NoCrash, MaxCrashes = 0, MaxBreaks = 0, MayFail = {},
         AskIsAnswered, [Next]_vars
  PROVE  AskIsAnswered'
<1>1. (\A n \in Node : lrn[n].asking => Awaited(net, n)) <=> AskIsAnswered
  BY DEF AskIsAnswered, Awaited, Carried
<1>2. (\A n \in Node : lrn'[n].asking => Awaited(net', n)) <=> AskIsAnswered'
  BY DEF AskIsAnswered, Awaited, Carried
<1> SUFFICES \A n \in Node : lrn'[n].asking => Awaited(net', n)
  BY <1>2
<1>3. \A n \in Node : up[n] /\ ~Crash(n) /\ ~Restart(n) /\ \A s \in Node : ~BreakStep(s, n)
  BY DEF NoCrash, Crash, Restart, BreakStep, Break, TypeOK, RoleTypeOK
<1>4. CASE UNCHANGED <<lrn, net>>
  BY <1>1, <1>4
<1>5. ASSUME NEW n \in Node, NEW dests, NEW m, net' = Send(net, n, dests, m), UNCHANGED lrn
      PROVE  \A r \in Node : lrn'[r].asking => Awaited(net', r)
  <2>1. \A a, b \in Node : Carried(net, a, b) \subseteq Carried(net', a, b)
    BY <1>5, SendKeeps, TypeFacts
  <2> QED BY <1>1, <1>5, <2>1, AwaitedStays
<1>6. ASSUME NEW n \in Node, ClientStep(n)
      PROVE  UNCHANGED lrn /\ (UNCHANGED net \/ \E dests, m : net' = Send(net, n, dests, m))
  BY <1>6 DEF ClientStep, Propose, Broadcast
<1>7. ASSUME NEW n \in Node, AskStep(n)
      PROVE  UNCHANGED lrn /\ \E dests, m : net' = Send(net, n, dests, m)
  BY <1>7 DEF AskStep, AskForInstanceID, Broadcast
<1>8. ASSUME NEW s \in Node, NEW n \in Node, OnMessage(s, n)
      PROVE  \A r \in Node : lrn'[r].asking => Awaited(net', r)
  BY <1>1, <1>3, <1>8, AwaitedMessage
<1>9. CASE UNCHANGED vars
  BY <1>4, <1>9 DEF vars
<1>10. CASE \E n \in Node : ProposeTimeoutStep(n)
  BY <1>4, <1>10 DEF ProposeTimeoutStep
<1> QED BY <1>3, <1>4, <1>5, <1>6, <1>7, <1>8, <1>9, <1>10 DEF Next
-----------------------------------------------------------------------------
(* Promises, and what nodes ask for, when processes crash. *)

\* Every record that is copied has a vote.
CopiesVotes ==
  \A s, r \in Node : \A m \in Carried(net, s, r) :
    m.type = "ASK_FOR_LEARN_REPLY" => \A k \in DOMAIN m.states : m.states[k].accepted

\* A record is copied as it is.
LEMMA CopiedRecords ==
  ASSUME TypeOK, CopiesVotes, NEW s \in Node, NEW n \in Node, net[s][n] # <<>>,
         NEW m, m = Head(net[s][n]), m.type = "ASK_FOR_LEARN_REPLY",
         NEW p \in 0 .. Len(NewStates(n, m)), NEW k, Learned(n, m, p, k),
         NEW r \in Node, NEW i \in Inst
  PROVE  \/ storage'[r][i] = storage[r][i]
         \/ storage'[r][i] # NoRecord /\ storage'[r][i].accepted
<1> DEFINE first == FirstNew(n, m)
           new == NewStates(n, m)
           d == first - m.start
<1>1. m \in LearnReply /\ m \in Carried(net, s, n)
  BY ReceivedFacts, MessageFields
<1>2. /\ first \in Nat /\ new \in Seq(State) /\ Len(new) \in Nat
      /\ i \in Nat /\ inst[n] \in Nat
      /\ m.start \in Nat /\ m.states \in Seq(State) /\ Len(m.states) \in Nat
      /\ DOMAIN m.states = 1 .. Len(m.states)
  BY <1>1, NewStatesType, LearnerFacts, LenProperties, MaxInstAssumption
  DEF LearnReply, InstOrEnd, Inst
<1>3. d \in Nat /\ first = m.start + d
  BY <1>2 DEF FirstNew
<1>4. /\ Len(new) = IF d < Len(m.states) THEN Len(m.states) - d ELSE 0
      /\ \A j \in 1 .. Len(new) : new[j] = m.states[d + j]
  <2>1. new = SubSeq(m.states, d + 1, Len(m.states))
    BY DEF NewStates
  <2>2. m.states \in Seq(State) /\ d \in Nat
    BY <1>2, <1>3
  <2> HIDE DEF new, d
  <2>3. LET t == SubSeq(m.states, d + 1, Len(m.states)) IN
        /\ Len(t) = IF d < Len(m.states) THEN Len(m.states) - d ELSE 0
        /\ \A j \in 1 .. Len(t) : t[j] = m.states[d + j]
    BY ONLY <2>2, SuffixProperties
  <2> QED BY <2>1, <2>3
<1>5. storage' = [storage EXCEPT ![n] =
        [h \in Inst |-> IF h \in first .. (first + p - 1)
                          THEN new[h - first + 1] ELSE storage[n][h]]]
  BY DEF Learned, TypeOK, StorageTypeOK
<1>6. storage \in [Node -> [Inst -> State \cup {NoRecord}]] /\ p \in 0 .. Len(new)
  BY DEF TypeOK, StorageTypeOK
<1> HIDE DEF first, new, d
<1>7. CASE r = n /\ i \in first .. (first + p - 1)
  <2>1. storage'[r][i] = new[i - first + 1]
    BY <1>5, <1>6, <1>7
  <2>2. i - first + 1 \in 1 .. Len(new)
    BY <1>2, <1>6, <1>7
  <2>3. storage'[r][i] \in State
    BY <1>2, <2>1, <2>2, ElementOfSeq
  <2>4. d + (i - first + 1) \in DOMAIN m.states
    <3> DEFINE j == i - first + 1
    <3>1. j \in 1 .. Len(new)
      BY <2>2
    <3> HIDE DEF j
    <3>2. Len(new) = IF d < Len(m.states) THEN Len(m.states) - d ELSE 0
      BY <1>4
    <3>3. d + j \in 1 .. Len(m.states)
      BY <1>2, <1>3, <3>1, <3>2
    <3> QED BY <1>2, <3>3 DEF j
  <2>5. m.states[d + (i - first + 1)].accepted
    BY <1>1, <2>4 DEF CopiesVotes
  <2> QED BY <1>4, <2>1, <2>2, <2>3, <2>5, NoRecordAssumption
<1>8. CASE ~(r = n /\ i \in first .. (first + p - 1))
  BY <1>5, <1>6, <1>8
<1> QED BY <1>7, <1>8

LEMMA RemembersStep ==
  ASSUME TypeOK, PromiseKept, CopiesVotes, Next, NEW r \in Node, Remembers(r)
  PROVE  Remembers(r)'
<1> USE MaxInstAssumption
<1>1. /\ storage \in [Node -> [Inst -> State \cup {NoRecord}]] /\ acc \in [Node -> State]
      /\ \A p \in promises : p.node \in Node /\ p.inst \in Inst /\ p.id \in Nat
  BY DEF TypeOK, StorageTypeOK, AccepterTypeOK, Promise
<1>2. ASSUME UNCHANGED promises,
             \A i \in Inst : \/ storage'[r][i] = storage[r][i]
                             \/ storage'[r][i] # NoRecord /\ storage'[r][i].accepted
      PROVE  Remembers(r)'
  BY <1>1, <1>2 DEF Remembers
<1>3. CASE UNCHANGED <<storage, promises>>
  BY <1>2, <1>3
<1>4. ASSUME NEW n \in Node, inst[n] \in Inst, NEW st \in State,
             storage' = [storage EXCEPT ![n][inst[n]] = st],
             \A p \in promises' : p \in promises \/ (p.node = n /\ p.inst = inst[n]),
             \A p \in promises' : p.node = n /\ p.inst = inst[n] =>
               st.accepted \/ (st.promised /\ p.id <= st.promisedId)
      PROVE  Remembers(r)'
  <2> SUFFICES ASSUME NEW p \in promises', p.node = r
               PROVE  /\ storage'[r][p.inst] # NoRecord
                      /\ \/ storage'[r][p.inst].accepted
                         \/ /\ storage'[r][p.inst].promised
                            /\ p.id <= storage'[r][p.inst].promisedId
    BY DEF Remembers
  <2>1. CASE r = n /\ p.inst = inst[n]
    <3>1. storage'[r][p.inst] = st
      BY <1>1, <1>4, <2>1
    <3> QED BY <1>4, <2>1, <3>1, NoRecordAssumption
  <2>2. CASE ~(r = n /\ p.inst = inst[n])
    <3>1. p \in promises /\ p.inst \in Inst
      BY <1>1, <1>4, <2>2
    <3>2. storage'[r][p.inst] = storage[r][p.inst]
      BY <1>1, <1>4, <2>2, <3>1
    <3> QED BY <3>1, <3>2 DEF Remembers
  <2> QED BY <2>1, <2>2
<1>5. ASSUME NEW s \in Node, NEW n \in Node, OnMessage(s, n) PROVE Remembers(r)'
  <2> DEFINE x == Head(net[s][n])
  <2>1. net[s][n] # <<>> /\ x \in Message /\ Knows(n)
    BY <1>5, ReceivedFacts DEF OnMessage, PromiseKept
  <2>2. \/ OnOtherInstance(n, s, x) \/ OnProposerMessage(n, s, x)
        \/ OnAccepterMessage(n, s, x) \/ OnLearn(n, s, x) \/ OnLearnerMessage(n, s, x)
    BY <1>5 DEF OnMessage
  <2>3. CASE x.type = "ASK_FOR_LEARN_REPLY" /\ OnAskForLearnReply(n, s, x)
             /\ UNCHANGED promises
    <3>1. /\ x \in LearnReply /\ Len(NewStates(n, x)) \in Nat
      BY <2>1, <2>3, MessageFields, NewStatesType
    <3>2. PICK p \in 0 .. Len(NewStates(n, x)) : \E k : Learned(n, x, p, k)
      <4>1. /\ Len(NewStates(n, x)) \in 0 .. Len(NewStates(n, x))
            /\ \A k \in 0 .. (Len(NewStates(n, x)) - 1) : k + 1 \in 0 .. Len(NewStates(n, x))
        BY <3>1
      <4> HIDE DEF x
      <4> QED BY <2>3, <4>1 DEF OnAskForLearnReply
    <3>3. \A i \in Inst : \/ storage'[r][i] = storage[r][i]
                          \/ storage'[r][i] # NoRecord /\ storage'[r][i].accepted
      BY <2>1, <2>3, <3>2, CopiedRecords
    <3> QED BY <1>2, <2>3, <3>3
  <2> HIDE DEF x
  <2>4. CASE OnAccepterMessage(n, s, x)
    <3>1. inst[n] \in Inst
      BY <2>1, <2>4, MessageFields DEF OnAccepterMessage
    <3>2. CASE UNCHANGED <<storage, accepterVars>>
      BY <1>3, <3>2 DEF accepterVars
    <3>3. CASE /\ x.type = "PREPARE"
               /\ ~acc[n].promised \/ acc[n].promisedId <= x.id
               /\ acc' = [acc EXCEPT ![n].promised = TRUE, ![n].promisedId = x.id]
               /\ Persist(n, inst[n], acc'[n])
               /\ promises' = promises \cup {[node |-> n, inst |-> inst[n], id |-> x.id]}
      <4>1. x.id \in Nat /\ acc[n].promisedId \in Nat
        BY <1>1, <2>1, <3>3, MessageFields DEF State
      <4>2. acc'[n] \in State /\ acc'[n].promised /\ acc'[n].promisedId = x.id
        BY <1>1, <3>3, <4>1 DEF State
      <4>3. \A p \in promises : p.node = n /\ p.inst = inst[n] => p.id <= x.id
        BY <1>1, <2>1, <3>1, <3>3, <4>1 DEF Knows, Inst
      <4>4. \A p \in promises' : p.node = n /\ p.inst = inst[n] => p.id <= x.id
        BY <3>3, <4>1, <4>3
      <4>5. \A p \in promises' : p \in promises \/ (p.node = n /\ p.inst = inst[n])
        BY <3>3
      <4>6. storage' = [storage EXCEPT ![n][inst[n]] = acc'[n]]
        BY <3>3 DEF Persist
      <4> QED BY <1>4, <3>1, <4>2, <4>4, <4>5, <4>6
    <3>4. CASE /\ x.type = "ACCEPT"
               /\ acc' = [acc EXCEPT ![n].accepted = TRUE, ![n].proposal = x.proposal]
               /\ Persist(n, inst[n], acc'[n])
               /\ UNCHANGED promises
      <4>1. x.proposal \in Proposal
        BY <2>1, <3>4, MessageFields
      <4>2. acc'[n] \in State /\ acc'[n].accepted
        BY <1>1, <3>4, <4>1 DEF State
      <4> QED BY <1>4, <3>1, <3>4, <4>2 DEF Persist
    <3> QED BY <2>4, <3>2, <3>3, <3>4 DEF OnAccepterMessage, OnPrepare, OnAccept
  <2> QED
    BY <1>3, <2>2, <2>3, <2>4
    DEF OnOtherInstance, OnProposerMessage, OnLearn, OnLearnerMessage, accepterVars
<1>6. ASSUME NEW n \in Node, Crash(n) PROVE Remembers(r)'
  <2>1. UNCHANGED promises
    BY <1>6 DEF Crash
  <2>2. CASE CrashWhileLearning(n)
    <3>1. PICK s \in Node : /\ net[s][n] # <<>>
                            /\ Head(net[s][n]).type = "ASK_FOR_LEARN_REPLY"
                            /\ \E k \in 1 .. Len(NewStates(n, Head(net[s][n]))) :
                                  Learned(n, Head(net[s][n]), k, k - 1)
      BY <2>2 DEF CrashWhileLearning
    <3> DEFINE m == Head(net[s][n])
    <3>2. m \in LearnReply
      BY <3>1, ReceivedFacts, MessageFields
    <3>3. PICK k \in 1 .. Len(NewStates(n, m)) : Learned(n, m, k, k - 1)
      BY <3>1
    <3>4. k \in 0 .. Len(NewStates(n, m))
      BY <3>2, NewStatesType
    <3>5. \A i \in Inst : \/ storage'[r][i] = storage[r][i]
                          \/ storage'[r][i] # NoRecord /\ storage'[r][i].accepted
      BY <3>1, <3>3, <3>4, CopiedRecords
    <3> QED BY <1>2, <2>1, <3>5
  <2> QED BY <1>3, <1>6, <2>1, <2>2 DEF Crash
<1> QED
  BY <1>3, <1>5, <1>6
  DEF Next, ClientStep, ProposeTimeoutStep, AskStep, BreakStep, Restart, accepterVars

\* However many processes crash, and in whatever state, an accepter keeps its
\* promises if only records with a vote are copied.  A process goes on from its
\* last record: from one with a vote in the next instance, from another with the
\* promise in it.  But a record that is copied takes the place of the node's own:
\* one without a vote would lower the promise.
THEOREM CrashesKeepPromises == Spec /\ []CopiesVotes => AcceptRespectsPromise
<1> DEFINE Kept == PromiseKept /\ \A n \in Node : Remembers(n)
<1>1. Init => Kept
  BY DEF Init, AccepterInit, PromiseKept, Knows, Remembers
<1>2. TypeOK /\ Kept /\ CopiesVotes /\ [Next]_vars => Kept'
  <2> SUFFICES ASSUME TypeOK, Kept, CopiesVotes, [Next]_vars
               PROVE  Kept'
    OBVIOUS
  <2>1. CASE Next
    BY <2>1, PromiseKeptStep, RemembersStep
  <2>2. CASE UNCHANGED vars
    BY <2>2 DEF vars, accepterVars, PromiseKept, Knows, Remembers
  <2> QED BY <2>1, <2>2
<1>3. TypeOK /\ Kept /\ [Next]_vars =>
        [\A v \in votes' \ votes : \A p \in promises :
           p.node = v.node /\ p.inst = v.inst => p.id <= v.id]_vars
  BY NewVoteKeepsPromise
<1> QED
  BY <1>1, <1>2, <1>3, TypeCorrect, PTL DEF Spec, AcceptRespectsPromise

\* No message by which nodes catch up is under way.
NobodyAsks ==
  \A s, r \in Node : \A m \in Carried(net, s, r) : m.type \notin CatchUpTypes

\* No process has started again.
NoneBack == crashes = 0 \/ \E n \in Node : ~up[n]

\* When one process crashes: until it has started again, nobody asks for records,
\* and all remember their promises.
AroundCrash ==
  /\ crashes = 0 => \A n \in Node : up[n]
  /\ \A n, r \in Node : ~up[n] /\ ~up[r] => n = r
  /\ NoneBack => NobodyAsks /\ \A n \in Node : Remembers(n)
  /\ PromiseKept /\ AsksFromReached

LEMMA AroundCrashStep ==
  ASSUME MaxCrashes <= 1, AskingNodes = {}, TypeOK, AroundCrash, Next
  PROVE  AroundCrash'
<1>1. up \in [Node -> BOOLEAN] /\ crashes \in Nat /\ MaxCrashes \in Nat
  BY CrashAssumption DEF TypeOK, RoleTypeOK
<1>2. \/ UNCHANGED <<up, crashes>> /\ \A n \in Node : ~Crash(n) /\ ~Restart(n)
      \/ \E n \in Node : Crash(n) /\ ~Restart(n)
      \/ \E n \in Node : Restart(n)
  <2>1. CASE \A n \in Node : ~Crash(n) /\ ~Restart(n)
    BY <2>1 DEF Next, ClientStep, ProposeTimeoutStep, AskStep, OnMessage, BreakStep, Break
  <2> QED BY <2>1
<1>3. ASSUME NEW n \in Node, Crash(n)
      PROVE  /\ crashes = 0 /\ crashes' = 1 /\ up' = [up EXCEPT ![n] = FALSE]
             /\ \A r \in Node : ~Restart(r)
  <2>1. crashes = 0 /\ crashes' = crashes + 1
    BY <1>1, <1>3 DEF Crash
  <2> QED BY <1>3, <2>1 DEF Crash, Restart, AroundCrash
<1>4. ASSUME NEW n \in Node, Restart(n)
      PROVE  /\ ~up[n] /\ UNCHANGED crashes /\ crashes # 0
             /\ \/ up' = [up EXCEPT ![n] = TRUE]
                \/ UNCHANGED <<up, net>>
  BY <1>4 DEF Restart, AroundCrash
<1>5. (crashes = 0 => \A n \in Node : up[n])'
  <2>1. CASE \E n \in Node : Crash(n)
    BY <1>1, <1>3, <2>1
  <2> QED BY <1>1, <1>2, <1>4, <2>1 DEF AroundCrash
<1>6. (\A n, r \in Node : ~up[n] /\ ~up[r] => n = r)'
  <2>1. ASSUME NEW n \in Node, Crash(n)
        PROVE  \A a, b \in Node : ~up'[a] /\ ~up'[b] => a = b
    <3>1. \A a \in Node : up[a]
      BY <1>3, <2>1 DEF AroundCrash
    <3> QED BY <1>1, <1>3, <2>1, <3>1
  <2>2. ASSUME NEW n \in Node, Restart(n)
        PROVE  \A a, b \in Node : ~up'[a] /\ ~up'[b] => a = b
    <3>1. \A a \in Node : ~up'[a] => ~up[a]
      BY <1>1, <1>4, <2>2
    <3> QED BY <3>1 DEF AroundCrash
  <2> QED BY <1>2, <2>1, <2>2 DEF AroundCrash
<1>7. PromiseKept'
  <2>1. \A n \in Node : Restart(n) => Remembers(n)
    BY DEF Restart, AroundCrash, NoneBack
  <2> QED BY <2>1, PromiseKeptStep DEF AroundCrash
<1>8. ASSUME NoneBack'
      PROVE  NobodyAsks' /\ \A n \in Node : Remembers(n)'
  <2>1. NoneBack /\ \A n \in Node : Restart(n) => UNCHANGED net
    <3>1. CASE \E n \in Node : Crash(n)
      BY <1>3, <3>1 DEF NoneBack
    <3>2. ASSUME NEW n \in Node, Restart(n)
          PROVE  NoneBack /\ UNCHANGED net
      <4>1. NoneBack
        BY <1>4, <3>2 DEF NoneBack
      <4>2. CASE up' = [up EXCEPT ![n] = TRUE]
        <5>1. \A a \in Node : ~up'[a] => ~up[a] /\ a # n
          BY <1>1, <4>2
        <5>2. \A a \in Node : up'[a]
          BY <1>4, <3>2, <5>1 DEF AroundCrash
        <5> QED BY <1>4, <1>8, <3>2, <5>2 DEF NoneBack
      <4> QED BY <1>4, <3>2, <4>1, <4>2
    <3>3. CASE UNCHANGED <<up, crashes>> /\ \A n \in Node : ~Restart(n)
      BY <1>8, <3>3 DEF NoneBack
    <3> QED BY <1>2, <3>1, <3>2, <3>3
  <2>2. NobodyAsks /\ \A n \in Node : Remembers(n)
    BY <2>1 DEF AroundCrash
  <2>3. NobodyAsks'
    <3> SUFFICES ASSUME NEW s \in Node, NEW r \in Node, NEW m \in Carried(net', s, r)
                 PROVE  m.type \notin CatchUpTypes
      BY DEF NobodyAsks, Carried
    <3>1. CASE m \in Carried(net, s, r)
      BY <2>2, <3>1 DEF NobodyAsks
    <3>2. CASE NewMessage(s, r, m)
      <4>1. Explained(s, r, m) /\ ~Restart(s)
        BY <2>1, <3>2, NewMessages DEF NewMessage, Carried
      <4> QED BY <2>2, <4>1 DEF Explained, NobodyAsks
    <3> QED BY <3>1, <3>2 DEF NewMessage
  <2>4. CopiesVotes
    BY <2>2 DEF NobodyAsks, CopiesVotes, CatchUpTypes
  <2> QED BY <2>2, <2>3, <2>4, RemembersStep DEF AroundCrash
<1>9. AsksFromReached'
  <2>1. CASE NoneBack
    <3> SUFFICES ASSUME NEW s \in Node, NEW r \in Node, NEW m \in Carried(net', s, r)
                 PROVE  /\ m.type = "ASK_FOR_LEARN" => m.from <= inst'[s]
                        /\ m.type = "ASK_FOR_LEARN_REPLY" => m.start <= inst'[r]
      BY DEF AsksFromReached, Carried
    <3>1. inst'[s] \in Nat /\ inst'[r] \in Nat
      BY NextType, MaxInstAssumption DEF TypeOK, RoleTypeOK, InstOrEnd
    <3>2. NobodyAsks
      BY <2>1 DEF AroundCrash
    <3>3. CASE m \in Carried(net, s, r)
      BY <3>2, <3>3 DEF NobodyAsks, CatchUpTypes
    <3>4. CASE NewMessage(s, r, m)
      <4>1. Explained(s, r, m)
        BY <3>4, NewMessages
      <4>2. ASSUME NEW q \in Carried(net, r, s) PROVE q.type # "ASK_FOR_LEARN"
        BY <3>2, <4>2 DEF NobodyAsks, CatchUpTypes
      <4> QED BY <3>1, <4>1, <4>2 DEF Explained
    <3> QED BY <3>3, <3>4 DEF NewMessage
  <2>2. CASE ~NoneBack
    <3>1. \A n \in Node : ~Crash(n) /\ ~Restart(n)
      BY <1>3, <1>4, <2>2 DEF NoneBack
    <3>2. \A n \in Node : inst[n] <= inst'[n]
      BY <3>1, InstGrows
    <3> QED BY <3>2, AsksStep DEF AroundCrash
  <2> QED BY <2>1, <2>2
<1> QED BY <1>5, <1>6, <1>7, <1>8, <1>9 DEF AroundCrash

LEMMA AlwaysAroundCrash ==
  MaxCrashes <= 1 /\ AskingNodes = {} /\ Spec => [](TypeOK /\ AroundCrash)
<1> SUFFICES ASSUME MaxCrashes <= 1, AskingNodes = {}
             PROVE  Spec => [](TypeOK /\ AroundCrash)
  OBVIOUS
<1>1. Init => AroundCrash
  <2> SUFFICES ASSUME Init PROVE AroundCrash
    OBVIOUS
  <2>1. /\ \A n \in Node : up[n] /\ Remembers(n) /\ Knows(n)
        /\ \A s, r \in Node : Carried(net, s, r) = {}
    BY EmptySeq DEF Init, RoleInit, AccepterInit, Remembers, Knows, Carried
  <2> QED BY <2>1 DEF AroundCrash, NobodyAsks, PromiseKept, AsksFromReached
<1>2. TypeOK /\ AroundCrash /\ [Next]_vars => AroundCrash'
  <2> SUFFICES ASSUME TypeOK, AroundCrash, [Next]_vars
               PROVE  AroundCrash'
    OBVIOUS
  <2>1. CASE Next
    BY <2>1, AroundCrashStep
  <2>2. CASE UNCHANGED vars
    BY <2>2
    DEF vars, accepterVars, AroundCrash, NoneBack, NobodyAsks, Remembers, PromiseKept,
        Knows, AsksFromReached, Carried
  <2> QED BY <2>1, <2>2
<1> QED BY <1>1, <1>2, TypeCorrect, PTL DEF Spec

\* One process crashes, in whatever state, and starts again, perhaps in an
\* earlier instance: while the learners' timer is off, nobody asks for records
\* of instances it has not reached.
THEOREM OneCrashAsksFromReached ==
  MaxCrashes <= 1 /\ AskingNodes = {} /\ Spec => []AsksFromReached
<1>1. AroundCrash => AsksFromReached
  BY DEF AroundCrash
<1> QED BY <1>1, AlwaysAroundCrash, PTL

\* Nor does its accepter break a promise, whatever it copies when it is back.
THEOREM OneCrashKeepsPromises ==
  MaxCrashes <= 1 /\ AskingNodes = {} /\ Spec => AcceptRespectsPromise
<1>1. TypeOK /\ AroundCrash /\ [Next]_vars =>
        [\A v \in votes' \ votes : \A p \in promises :
           p.node = v.node /\ p.inst = v.inst => p.id <= v.id]_vars
  BY NewVoteKeepsPromise DEF AroundCrash
<1> QED BY <1>1, AlwaysAroundCrash, PTL DEF Spec, AcceptRespectsPromise

\* Nor does it know more than its storage, if no execution fails.
THEOREM OneCrashWriteAhead ==
  MaxCrashes <= 1 /\ AskingNodes = {} /\ MayFail = {} /\ Spec => []WriteAhead
  BY OneCrashAsksFromReached, WriteAheadCorrect, PTL
=============================================================================
