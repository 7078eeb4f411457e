# A TLA+ model of PaxosLib

PaxosLib replicates a log: every node runs the three Paxos roles for each of
ten groups, decides one value per *instance*, and hands the values to a state
machine in the order of the instances. This directory models one group of the
library at the level of its message handlers, and in modules of their own what
these handlers take for granted: the event loop, the connections, the byte
stream, the client's thread and recovery. It checks small instances with TLC,
and proves the properties that hold for groups of any size with TLAPS.

## 1. The system

| component | code | state | operations |
|---|---|---|---|
| Proposer | `src/proposer.cpp`, `util/ballot.hpp` | proposal id, stage, value, ballot | `Propose`, `OnPromised`, `OnRejectPromise`, `OnAccepted`, `OnRejectAccept` |
| Accepter | `src/accepter.cpp` | promised id, accepted proposal | `OnPrepare`, `OnAccept`, `SetState`, `InitForNewInstance` |
| Learner | `src/learner.cpp` | asking flag, largest instance seen and where | `OnLearn`, the two questions and their replies, the 10 s timer |
| InstanceImpl | `src/instance.cpp` | the instance id, shared by the roles | dispatch, LEARN, `NewInstance`, timeouts, `Init`, `Propose` |
| Context | `src/context.cpp` | the instance, value and result of one client call | `Reset`, `CommitResult`, `WaitAndGetResult` |
| Persistence | `src/state.cpp`, `src/storageleveldb.cpp` | one durable record per instance | `Persist`, `LoadState`, `GetMaxInstanceId` |
| State machine | `src/statemachinemgr.cpp`, `app/kvsm.hpp` | the executed values, a durable checkpoint | `Execute`, `ExecuteForReplay`, `GetCheckpointMinInstanceID` |
| EventLoop | `src/eventloop.cpp` | queue of packages; heap and map of timers | `AddEventTail`, `AddTimeout`, `RemoveTimeout`; one event or timeout at a time |
| Network, Peer | `src/network.cpp`, `src/peer.cpp` | the vector of channels, the event queue of the network thread | connect, accept, choose a channel, ask for one, remove one |
| Channel | `src/channel.cpp` | send queue, how far a message has been sent or read | `OnWritableOrTaskArrive`, `OnReadable` |
| Node, Group | `src/node.cpp`, `src/group.cpp` | peers, ten instances | start up, delegate |

**How they interact.** The client's thread calls `InstanceImpl::Propose`, which
resets the Context, adds a 2 s timer, lets the proposer broadcast PREPARE, and
waits on the Context's condition variable. A message goes channel → network →
peer → group → the event loop of the instance (`docs/network.md`), where one
thread handles packages and timeouts in turn; a node sends to itself through a
channel of its own. The roles share the instance id. A proposer that has its
majority broadcasts LEARN; a node that handles LEARN executes the value *its own
accepter* holds, moves to the next instance, and, if it sent the LEARN itself,
commits the client's result. Learners ask every 10 s which instance others are
in, and copy the records of instances they missed.

**What is hard here.** Two threads and a condition variable without a predicate;
timeouts and retries whose late replies cannot be told from fresh ones; timers
that outlive their call; messages lost with a broken connection; a crash between
a write and a reply, or in the middle of catching up; replay from a checkpoint
that a state machine may leave behind; two nodes that connect to each other at
once; edge-triggered reports. `PROJECT.json` lists each of these at its line
("hazards").

**What makes each component correct.** Proposer: a proposal number stands for
one value. Accepter: it keeps its promises, across crashes too, and nobody is
told more than the storage has. State machines: the same values, in order, none
twice. Learner: what is copied is what was executed, and a laggard catches up.
Context: a client is told Ok only for its own value, and is told something in
the end. Init: what it skips was executed, what it replays is decided. Event
loop: removed timers do not fire, nothing starves. Network: one order per pair
of nodes, no channel left over. Channel: what arrives is what was sent.

## 2. The modules

`EXTENDS` goes downwards; each module owns the variables of its component.

| module | models | variables |
|---|---|---|
| `Ballot` | `util::Ballot`; the majority is of 3 because every caller runs `ResetBallot(3)` | |
| `Role` | messages, `Broadcast`, `SendMessageTo`, the links | `up`, `inst`, `net`, `breaks` |
| `Storage` | `persistence::State` and the LevelDB store | `storage` |
| `Accepter` | the accepter | `acc`; histories `promises`, `votes` |
| `Context` | the client call and the `ProposeTimeout` timers | `ctx`, `timers` |
| `Proposer` | the proposer, with `InstanceImpl::Propose` | `prop`, `ballot` |
| `StateMachineMgr` | the state machine and its checkpoint | `smlog`, `cp` |
| `Learner` | the learner | `lrn` |
| `Instance` | the composition: dispatch, LEARN, `NewInstance`, crash, `Init` | `crashes` |
| `InstanceProperties` | the properties and the fairness | |
| `ReplicatedLog` | the abstract specification: replicas execute prefixes of one sequence | `log` |
| `CatchUp` | initial states in which nodes are behind | |
| `ProposeCall` | `Instance` with the client's thread access by access | `pc`, `read` |
| `Recovery` | one node's log and state machines, write by write; `Init` | `rec`, `done`, `cp`, `doing`, ... |
| `EventLoop` | the event loop | `queue`, `heap`, `items`, `phase`, ... |
| `Reactor` | abstract: what an instance is promised by its event loop | `todo`, `calls` |
| `Network` | connections and channels between nodes, from `Node::Init` on | `conns`, `channels`, `backlog`, `requests`, ... |
| `Channel` | one direction of a connection: framing, wakeups | `sendQueue`, `snd`, `wire`, `rcv`, ... |
| `Link` | abstract: what the roles are promised of a connection | `queue`, `delivered`, `broken` |
| `MCInstance`, `MCProposeCall`, `MCNetwork`, `MCChannel` | small instances for TLC | |
| `Lemmas` | what the operators on sequences, sets and maps return: cited by all proofs | |
| `InstanceProofs`, `ReplicatedLogProofs`, `GroupProofs` | theorems about groups; the last two extend the first | |
| `EventLoopProofs`, `RecoveryProofs`, `ChannelProofs`, `NetworkProofs` | theorems about these modules | |

`Ballot → Role → {Storage → Accepter, Context → Proposer, StateMachineMgr}`,
`Learner` extends `Accepter` and `StateMachineMgr`, `Instance` extends `Proposer`
and `Learner`. `CatchUp` and `ProposeCall` extend `InstanceProperties`.

**How the parts fit.** `Instance` has an event loop that handles one message or
timer at a time, timers that fire in the order they were set and never after
their removal, and one FIFO between two nodes. The modules below it say how much
of this the code gives:

- `EventLoop` implements `Reactor`, with `todo` the queue without its stubs and
  `calls` the set of ids of the `ProposeTimeout` timers that are in the map. Ids
  grow, so the smallest is the oldest. `Reactor`'s `calls` are the `timers` of
  `Context` (the oldest are the stale ones), its `todo` the last part of a link.
- `Channel` implements `Link`, with `queue` what was sent and not delivered: one
  connection is a FIFO until it is torn.
- `Network` says which connections there are: `InOrder` is the FIFO of a *pair*
  of nodes, up to the moment the first channel for a peer changes. `Role` takes
  the rest for granted.
- `ProposeCall` refines the step `Propose` of `Proposer`, which the theorems take
  as atomic. What the finer steps break is said below.
- `Recovery` has several machines and two writes per execution where
  `StateMachineMgr` has one machine and one step.

**Steps.** One action is one handler run by the event loop: it takes the first
message of a link (`OnMessage`), or a timer (`ProposeTimeoutStep`, `AskStep`),
and does everything the handler does, replies included. A node has one event
loop, so its handlers do not interleave. `ClientStep` is the client's thread.
`Crash` may also cut `OnAskForLearnReply` between persisting a state and
executing it; of the other handlers, a crash in the middle leaves what a crash
before or after it, or the loss of its messages, leaves. `Restart` is `Init`,
in which a failing assertion is a guard: the process does not come up.

**Abstractions.**

- `net[s][r]` is one FIFO: send queue, connection and event queue. `Break(s, n)`
  loses a suffix of it, which is what a broken channel loses. A message to a node
  that is down is dropped. The channel to oneself never breaks. The broadcast of
  a restarting node may reach any of the nodes, whose channels to it may not be
  up again.
- `Propose` is one step up to the wait, and the wait is a step of its own
  (`Wait`): a result committed in between is modelled. `ProposeCall` takes the
  step apart: read the instance id, `Reset`, `AddTimeout`, number, stage, proposal,
  instance id again, ballot, broadcast, each a step between which the event loop
  may handle anything. A read or write of a string is whole.
- A catch-up reply may have any length of at least one, whatever its byte size.
- Timers have no clock: a timer may fire at any moment, those of earlier calls
  first, because all run 2000 ms.
- Left out because nothing depends on them: `bCommited` (a log line),
  `m_ddwMaxProposalId` (never read), `m_bLearned` (set whenever it is read),
  message ids, and the proposals inside ACCEPTED and LEARN (never read).
- `m_iRet` has no initial value: `Unset` stands for any.
- `EventLoop`: a clock of a few ticks instead of milliseconds; whether a handler
  removes a timer, and which, is left open. The lock-free queue is a FIFO.
- `Network`: a message is a number per pair of nodes, sent by one call; send queue
  and kernel buffers of an end are one queue. Two seconds are a step that may
  happen at any time. A removed channel is not closed by the code; its other end
  is gone. What waits in the backlog is accepted one per report. `Started` has
  two steps, because answers to the first broadcast come before the group holds
  the instance.
- `Channel`: bytes, because lengths are; a body of one and of three bytes with
  chunks of two is shorter, equal to and longer than a chunk. A split length or
  id is undefined behaviour (the address is wrong): `torn`, and the model stops.
- `Recovery`: a log of values, promised and missing records; what other nodes do
  is which value is accepted next. UINT64_MAX + 1 = 0 is kept.

**Constants that bound the model.** `MaxInst`: clients propose in instances up to
it. `ProposalIds[n]`: the numbers node n may draw, so also how often it proposes;
they grow on one node, and `DisjointIds` (no two nodes share one) is *not*
assumed by the model. `MaxBreaks`, `MaxCrashes`, `CrashingNodes`: the faults.
`AskingNodes`: whose 10 s timer goes off; with `RoundOver`, not while a round is
still on its way. `MayFail`, `Unparsable`: what a state machine does with a value.
`SpuriousWakeups`: whether the condition variable may wake up by itself. The other
modules say beside each constant what it bounds.

## 3. The runs

| run | instance | checks |
|---|---|---|
| `deployment` | 3 nodes, n1 proposes three times over 2 instances, no fault, as in `app/test.cpp` | `ResultSound`, `OneValuePerProposal`, `ImplementsReplicatedLog` (refinement of `ReplicatedLog`) |
| `propose_call` | 2 of 3 nodes up, three calls of n1 access by access over 2 instances, fairness | `CallTypeOK`, `ResultSound`, `WaitReturns` |
| `crash_recovery` | 2 of 3 nodes up, both propose, one break, n2 crashes once | `TypeOK`, `WriteAhead`, `AsksFromReached`, `AcceptRespectsPromise` |
| `lossy` | 3 nodes, one proposal, one break, n2 asks, spurious wakeups | `ExecutesInOrder`, `CatchUpFaithful` |
| `catch_up` | 3 nodes from every start in which a majority holds what was decided, some with votes of an earlier proposal; n3 asks, fairness | `AskIsAnswered`, `LaggardCatchesUp` |
| `catch_up_faults` | the same, n3 crashes once, executions of `a` may fail | `Agreement`, `NoReexecution`, `CopiesOnlyChosen` |
| `recovery` | 0 to 2 machines, instances 0 to 3, three crashes | `TypeOK`, `FirstMachineFollowsLog`, `OneMachineRestarts` |
| `event_loop` | two kinds of events, two waiting; three calls with timers of 2 ticks and the learner's of 3, over 6 ticks; fairness | `TypeOK`, `HeapCoversItems`, `ImplementsReactor`, `DueTimerFires` |
| `channel` | three messages of one or three bytes, chunks of 2, sockets that hold 6; fairness | `TypeOK`, `ImplementsLink`, `OnlyFullSocketsStall` |
| `network` | 2 nodes, three connections, two messages one way, one crash or break; fairness | `TypeOK`, `OneOutgoing`, `EndsMeet`, `InOrder`, `RequestConnects` |

Two more runs, below, expect a violation. A group of two nodes is a group of
three whose third node never comes up: the majority is still two.

**Why the bounds are enough.** Each is small, but lets the case happen that a
property is about. Groups: three proposals over two instances give a timeout, a
retry with late replies, a round that outlives its instance and a stale timer;
one break loses any suffix of any link; one crash happens at every point.
Proposal numbers 1, 2, 3 stand for times and counters, of which only the order
matters. `recovery`: four instances and three crashes are a replay that is
itself cut, twice, with a second machine behind by more than one. `event_loop`:
six ticks let the timer of the learner go off twice, in between and together
with timers of calls, set before and after it, removed or not. `channel`: six
bytes are less than a length and a body, so every length, chunk and body meets a
full socket; a length is also split at each of its bytes. `network`: with three
connections two nodes can connect to each other at once and once more after a
fault, and two messages are what it takes to be out of order; the other
direction would only add messages that are accepted and dropped in the same way.

Every property is shown to depend on the code by a mutant: a plausible bug in
one operator (a `Wrong:` definition beside it) that makes TLC find it violated.

Symmetry is used only in runs without liveness, and only between nodes and
values that a configuration treats alike. Deadlock is checked in `event_loop`,
whose thread never stops. Everywhere else the system may stop: proposals,
messages and faults are bounded, and a node may have nothing to do.

**Fairness.** Groups: weak fairness of every handler: the event loop is one
thread that takes its timers and its queue in turn (`EventLoop::Start`; that this
starves neither is what `DueTimerFires` and the fairness of `Reactor`'s `Handle`
show), and FIFO links keep every message first in its link until it is handled.
Weak fairness of the client's wait and return, and in `propose_call` of a call it
has begun: the thread is scheduled. None for proposing, crashing, restarting,
breaking, or a spurious wakeup. `event_loop`: the loop thread; not the clock, the
network or the client. `channel`: both network threads, and a thread that has
pushed a message and is about to say so. `network`: only `MakePeerChannel` and
the rest of a connect that has begun. Accepting and reading are *not* fair there,
because the code loses edge-triggered reports (see below).

### What the abstractions of the lower layers leave out

- `ImplementsLink` is safety. Delivery is `OnlyFullSocketsStall`: what was sent
  arrives, or the sender met a full socket. It cannot be stronger: the loop tests
  for `POLL_OUT` (2), which is not `EPOLLOUT` (4), so nothing but the next message
  wakes a sender up (`src/network.cpp:267`).
- `InOrder` has an exception (`overtaken`): a node that leaves a channel for
  another while messages wait in the first. This happens when an accepted channel,
  added before an outgoing one, learns whose it is, and when a channel is removed.
- `FirstMachineFollowsLog` leaves out instance 0, of which a checkpoint of 0 says
  nothing, and the machines after the first, which `Execute` never runs.
- `WaitReturns` speaks of a wait that begins while a timer runs.

### Disagreements between the code and what it says

Two runs expect a violation; TLC's counterexample is the evidence, and
`PROJECT.json` ("findings") quotes the lines.

| run | property | what happens |
|---|---|---|
| `lost_accept` | `Agreement` | LEARN reaches a node that lost the ACCEPT; it executes an empty value |
| `stale_promises` | `ExecutedIsChosen` | replies name no proposal; late ones of a timed-out proposal complete the next one, and a value is executed that no majority accepted in one proposal |

In `stale_promises` the state machines still agree when one node proposes, no
message is lost and no node crashes: that is what `deployment` shows. With a
second proposer or a crash, `Agreement` is not claimed.

The models have these behaviours as well. No run shows them, and every property
above is stated so that it does not deny them:

- **Lost wakeup.** A result committed before the client waits is lost together
  with the timer, and the client waits for ever (`src/context.cpp:15`,
  `src/instance.cpp:218`). With `Wait` as a step, any one-proposal run has it.
- **Torn Propose.** The number is new before the stage, the value and the ballot
  are (`src/proposer.cpp:41-50`). A late PROMISED of the call before, handled in
  between, sends ACCEPT of the old value under the new number. With two calls of
  one proposer and no fault `OneValuePerProposal` fails under `CallSpec`;
  `Agreement`, `ResultSound` and `ExecutesInOrder` held there with three nodes.
- **Shared numbers.** `Proposer::m_ddwNodeId` is never set (`src/proposer.cpp:22`),
  so two processes may draw one number; without `DisjointIds`,
  `OneValuePerProposal` fails.
- **Executed votes.** `Init` executes whatever the last record has accepted
  (`src/instance.cpp:54-68`), decided or not. `CatchUpInit` lets only nodes
  without a vote of an earlier proposal crash; otherwise `Agreement` fails.
- **Skipped instance 0.** Checkpoint 0 also means "no checkpoint"
  (`app/kvsm.hpp:83`): after a crash between accepting and learning, instance 0
  is never executed.
- **Replay of the wrong record.** The loop of `Init` loads the last record for
  every instance and asserts that it is accepted (`src/instance.cpp:39-41`). With
  one machine the loop does not run (`OneMachineRestarts`), unless KVSM cannot
  parse values and leaves its checkpoint behind; with two machines it runs at
  every restart, and with none `Init` aborts once the log has got past instance 0,
  because `ExecuteForReplay` returns -1.
- **A connection stays in the backlog.** One accept per edge-triggered report
  (`src/network.cpp:301`): of two connections that arrive together one waits until
  a third comes, and what is sent into it is not read.
- **A report is lost.** A socket is watched before its channel can be found
  (`src/network.cpp:206-210`).

## 4. The theorems

They hold for every value of the constants: any number of nodes, values,
instances, proposals, timers, messages and faults. They rest on the constant
assumptions of the modules (the nodes are finitely many, numbers are positive
naturals, the markers are not data) and on the hypotheses in their statements.
Each theorem of a run's property also has the run, which shows the property on a
small instance and that a bug breaks it.

**Groups** (`InstanceProofs`, `ReplicatedLogProofs`). As theorems about `Spec`,
they take `Propose` as one step.

| theorem | argument |
|---|---|
| `TypeCorrect`: `Spec => []TypeOK` | `TypeOK` is inductive; one lemma per handler. The delicate part is the length of catch-up replies: they never reach beyond the instance of their sender, so `inst` and `storage` stay in range |
| `OneValuePerProposalCorrect`: if `DisjointIds`, a number stands for one value | `ProposedOnce`: of all ACCEPTs on their way and all votes, those of one number have one instance and one value, and a proposer has left the Preparing stage of that number for good. The votes alone are not inductive: the value is fixed when ACCEPT is sent, long before anyone accepts it |
| `AcceptRespectsPromiseCorrect`: without crashes, no vote below a promise | `PromiseKept`: a running node made no promise in a later instance, and the one in memory is at least every promise made in the current instance |
| `CrashesKeepPromises`: with any number of crashes, if only records with a vote are copied | `Remembers`, of the storage: for each promise there is a record with a vote or with at least this promise. `Init` goes on from the last record, so `PromiseKept` holds again (`KnowsAgain`) |
| `OneCrashAsksFromReached`, `OneCrashKeepsPromises`, `OneCrashWriteAhead`: with one crash, and the learners' timer off, as in `crash_recovery` | `AroundCrash`: until the process has started again, no message of catching up is under way and all remember their promises; after that nobody goes back to an earlier instance |
| `ResultSoundCorrect`: without spurious wakeups, Ok is told only for an executed value | `ToldOkStep`: whoever sets a call to notified sets its result in the same step, Ok only for what it has just executed; `EntriesGrow`: executions are never taken back |
| `ExecutesInOrderCorrect`, `NoReexecutionCorrect`: without crashes, instances are executed in order, none twice | `InOrder`: the log of a node is as long as its instance id. It needs `AsksFromReached`: a request or reply under way starts no later than the instance its asker has reached by now |
| `WriteAheadCorrect`: also with crashes, the accepter knows no more than its storage | `Synced`: the record of the current instance is what the accepter holds, *and there is none of a later instance*. The second half is what makes it inductive: `NewInstance` and `Init` start an instance with an empty accepter, which an old record would contradict |
| `CatchUpFaithfulCorrect`: without crashes and failing executions, what is copied was executed | `StoredExecuted` (with `Synced`): for each instance a node has left, its storage holds the value it executed; and a reply under way holds values that its sender executed |
| `AgreementCorrect`, `ReplicatedLogCorrect`: in a group as in `deployment`, of any size, with nodes that catch up, `Agreement` holds and the group implements `ReplicatedLog` | `OnTheWay`, below |

*The hypotheses of `WriteAheadCorrect`.* A record is persisted before its value
is executed, so a failing execution leaves a record of an instance that is not
over: `MayFail = {}`. A node that asks, crashes and restarts behind may get a
reply that begins ahead of it and leave a gap: `[]AsksFromReached`. That is itself
proved without crashes (`Reached`), with one crash (`OneCrashAsksFromReached`), and
for learners that catch up with any number of them (`CatchUpAsksFromReached`).

*The hypothesis of `CrashesKeepPromises`*, `[]CopiesVotes`. LEARN moves a node on
whether it has voted or not, so its record of the instance may hold a promise
only. Copied by another node, it takes the place of that node's own record; a
crash before the next instance has a record leads back to it, and to a promise
that may be lower than the one made. One crash is not enough, because nobody
copies before it: that is `OneCrashKeepsPromises`.

*One proposer: why all nodes agree.* A node executes what *its own accepter* holds
when LEARN arrives, so agreement is not a matter of majorities (`stale_promises`
shows that the value need not be chosen) but of every accepter having seen the
same messages of the proposer. `OnTheWay(p)` says: all other nodes' proposers and
links carry nothing that a vote depends on (`QuietOthers`), and there is *one*
state f (instance, accepter, executed values) at which every node arrives that
handles what the proposer p has queued for it (`Path`, `Leads`, `AllLead`): a
node that has handled less of the queue is behind on the same path. A broadcast
puts the same message at the end of all paths and moves f; handling the first
message moves a node one step along its own path. A node that catches up jumps to
the state another node had when it sent the reply, which lies on the path of both
(`JumpLeads`). So logs are prefixes of the log of f, which is all the abstract
specification asks (`LogsCompatible`). `OneProposer` allows one node to draw
proposal numbers, as in `app/test.cpp`; a break, a crash or a failing execution
takes a node off the path, and `Agreement` is then false (`lost_accept`).
`OnTheWay` quantifies over all states f; TLC checks what follows from it only.

**Learners that catch up** (`GroupProofs`, about `CatchUpSpec`), where nobody
proposes: `CatchUpTypeCorrect`, `CatchUpAgreement`, `CatchUpNoReexecution`,
`CatchUpExecutesChosen`, `CatchUpCopiesOnlyChosen` and `CatchUpAsksFromReached`, for
any number of nodes that are behind, crashes, breaks and failing executions. The
invariant, `CatchingUp`, has two witnesses: a value v[i] for each instance and the set
C of instances that were decided. `Settled(v, C)` says that v[i] was chosen if i is
in C, that what a node has stored, replied or executed is v[i] of an instance of C,
and how far records, log and checkpoint reach: *all records before the node's
instance, none after it*, and the checkpoint at its last execution. The record of
the instance a node is in is what makes crashes hard. It may be a copy that is not
yet executed, and `Init` then takes it for decided, as it does any last record with a
vote. So a node that can crash must not hold an old vote there (`RightOrNone`), which
is the restriction `CatchUpInit` puts on `stale`. Unparsable values are left out
(`Unparsable = {}`): they move the log without the checkpoint, which is the subject
of `Recovery`.

`CatchUpAskIsAnswered`: without faults, `asking` is set only while a question or a
reply is under way. It needs `Filled`: a node has the records of all instances it has left,
since a record that is missing ends `OnAskForLearn` without a reply. `AskIsAnsweredStep`
shows the rest for any group with `Filled`, clients that propose included.

**Propose access by access** (`GroupProofs`, about `CallSpec`): `CallTypeCorrect`,
`CallResultSound`, `CallAcceptRespectsPromise`, `CallExecutesInOrder`,
`CallCatchUpFaithful`. A step of the client changes only its own context and proposer
and sends at most PREPARE (`CallStepEffect`), so what is proved of the accepters, the
learners and the state machines stays true however its accesses and the event loop
interleave. `OneValuePerProposal` does not: the proposer's number, value and stage are
written one after the other while `OnPromised` may read them (the torn Propose of
section 3), so neither it nor the `Agreement` that rests on it is stated there.

**The event loop** (`EventLoopProofs`).

| theorem | argument |
|---|---|
| `TypeCorrect`, `HeapCoversItemsCorrect` | `EntriesMatch`: an id is in the heap once, and every timer of the map has its entry. The type invariant bounds the counter of ids, for which `CounterBounded` relates it to the learner's timer, that is set again and again |
| `ReactorImplemented`: `Spec => Loop!Safe` | `CallsInOrder`: the timers of calls have their deadlines in the order of their ids, the one about to be set included, so that the earliest entry of the heap is the oldest call; all run equally long, and the clock does not go back. `StubMarksTurn`: the stub is in the queue while events are handled and only then |

**Recovery** (`RecoveryProofs`): `TypeCorrect`, `FirstMachineFollowsLogCorrect`,
`OneMachineRestartsCorrect`. The invariant says, apart from types, that records
have no gaps (`LogWithoutGaps`), that each execution follows or repeats the one
before (`Consecutive`), that log and machine are at most one instance ahead of the
checkpoint (`CheckpointNearEnd`), and where the checkpoint is, and which execution
is under way, in a running node (`WhileRunning`) and in the loop of `Init`
(`WhileReplaying`). The last part is needed because a crash may come between any
two writes, those of `Init` included.

**The channel** (`ChannelProofs`): `TypeCorrect` and `LinkImplemented`
(`ImplementsLink`). The invariant has a witness: a function `at` that tells for
each message begun where its frame is, counted from the first byte on the wire,
and negative for what was read (`Framed`). Frames follow each other, what is on the
wire of a frame is that frame, the sender is where the wire ends and the receiver
where it begins. That a length is not split is exactly what keeps the two ends at
those places: the rest is claimed while nothing is `torn`.

**The network** (`NetworkProofs`): `TypeCorrect`, `OneOutgoingCorrect`,
`EndsMeetCorrect` and `InOrderCorrect`, whatever nodes crash and connections break,
for any number of them. The invariant, in the order its parts rest on each other:

- `EndsOwned`: what a node has as a channel, in its backlog or half made is an end
  of its own, each once. `Phases`: a process that is down has neither channels
  nor half made ones, and channels are asked for only after `Init` has connected to every peer.
- `OneEach`: of the connections a node has opened, half made ones included, there is
  at most one for each peer, and none for a peer that `Init` has still to connect to. This
  is why `MakePeerChannel` must count before it connects, and why `Init` need not.
- `Meets`: an end is held as long as the other one is, or that one is gone. For a
  step of `Crash` or `RemoveChannel` this alone is not enough: it also says that
  an end that is gone and still held is an end of a broken connection.
- `Carries`: while n has not left a channel to p behind (`overtaken`), everything
  under way from n to p is in the *one* channel that n uses, the first one of the
  vector for p; it is in order there, follows what p has got, and ends with the
  last one sent. `GotInOrder` says the same of what p got. `InOrder` alone is not
  inductive: it does not know what is still to be read. The hard steps are those
  that change which channel is the first: an id read (`Readable`), a channel removed
  (`PeerDisconnect`). `IdFromOut`: only the end that connected sends an id, so the
  other one never mistakes a message for it.

The model calls a channel overtaken only in those two steps and in a crash, so
`InOrderCorrect` also shows that nothing else changes the order: not a connection
accepted later, nor a second one made at once by the peer.

**Only model-checked**: liveness (`WaitReturns`, `LaggardCatchesUp`, `DueTimerFires`,
`OnlyFullSocketsStall`, `RequestConnects`), which is out of reach of the prover, and the
fairness that `ImplementsReactor` asks of the event loop; its safety is proved. All
other properties of the runs are stated by a theorem, in the environment of the run
or a more general one.

## 5. Not modelled

- Groups beyond one: they share the network and the state machine manager, and
  nothing the properties are about. `Group` and `Node` otherwise delegate.
- `ChannelSelf`: a queue in memory, which `Role` has as a link to oneself that
  never breaks.
- Serialisation, the group index in front of a message, `role.proto`'s role types
  (every peer has all three), configuration and build files.
- The order of LevelDB's keys beyond "the largest is last"; writes that fail or
  are not synced; byte formats of records.
- The inside of the lock-free queue (boost) and of epoll (the kernel), beyond
  FIFO order and edge-triggered reports.
- Logging and tracing; `Stop`, `LockCheckpointState` and the other members of
  interfaces that are empty and have no caller.

## 6. Plan

Done, in this order: the Paxos core (`Ballot` to `Proposer`), the learner, the
composition with crashes, the properties, catching up, types and the first
safety theorems; `ProposeCall`, `Recovery`, `EventLoop` with `Reactor`, `Channel`
with `Link`, and `Network`; then the theorems about `EventLoop`, `Recovery`,
`Channel` and `Network`, the storage, groups with one proposer, learners that catch
up, `ProposeCall`, and groups with crashes. Left, by importance:

1. Proofs about groups: `AskIsAnswered` where clients propose, for which `Filled` is
   missing; `Agreement` where a node crashes and others propose.
2. `ProposalId`: the 64-bit number, wrapping counter and clock, against the
   assumption that the numbers of one node grow.
3. `Role` over a link that loses order where `Network` does (`overtaken`), and
   `ChannelSelf`.
