-------------------------------- MODULE Role --------------------------------
(***************************************************************************)
(* What the three roles of a node share (src/role.cpp): the instance they  *)
(* work on, the messages they exchange (proto/message.proto), and the      *)
(* connections that carry them.                                            *)
(*                                                                         *)
(* net[s][r] holds what s sent to r and r's event loop has not handled     *)
(* yet: the channel's send queue, the TCP connection and r's event queue,  *)
(* one FIFO.  A node also sends to itself (ChannelSelf).  A message to a   *)
(* node that is down has no channel and is dropped.                        *)
(***************************************************************************)
EXTENDS Ballot, Sequences

CONSTANTS
  Node,          \* the node ids of the configuration
  Value,         \* the values clients propose
  MaxInst,       \* bound: clients propose in instances 0..MaxInst only
  ProposalIds,   \* ProposalIds[n]: ids RespawnProposalId may produce on n
  MaxBreaks      \* bound: how many connections break in a behaviour

VARIABLES
  up,            \* up[n]: node n runs
  inst,          \* inst[n]: m_ddwInstranceID, the same in all three roles
  net,           \* net[s][r]: messages from s that r has not handled yet
  breaks         \* how many connections have broken (bounded by MaxBreaks)

ASSUME NodeAssumption == Node # {} /\ IsFiniteSet(Node)

ASSUME MaxInstAssumption == MaxInst \in Nat

ASSUME ValueAssumption == Empty \notin Value

ASSUME IdAssumption == ProposalIds \in [Node -> SUBSET (Nat \ {0})]

ASSUME MaxBreaksAssumption == MaxBreaks \in Nat
-----------------------------------------------------------------------------
\* No two nodes produce the same number.  The low 16 bits of a number are meant
\* to be the node's id, but no code sets the member they are taken from.
DisjointIds ==
  \A n, r \in Node : n # r => ProposalIds[n] \cap ProposalIds[r] = {}

Inst == 0 .. MaxInst

\* Instances a node can be in: the last one that can be learned, plus one.
InstOrEnd == 0 .. (MaxInst + 1)

AnyValue == Value \cup {Empty}

Proposal == [id : Nat, value : AnyValue]

\* State / StateProto: what an accepter remembers of one instance.
State == [promised : BOOLEAN, accepted : BOOLEAN,
          promisedId : Nat, proposal : Proposal]

\* A catch-up reply holds the states of instances start, start + 1, ...
LearnReply ==
  {m \in [type : {"ASK_FOR_LEARN_REPLY"}, start : InstOrEnd,
          states : Seq(State), my : InstOrEnd] :
      m.start + Len(m.states) <= MaxInst + 1}

\* LEARN and ACCEPTED carry no data that a receiver reads.
Message ==
  [type : {"PREPARE"}, inst : Inst, id : Nat]
    \cup [type : {"PROMISED"}, inst : Inst, accepted : BOOLEAN, proposal : Proposal]
    \cup [type : {"REJECT_PROMISE"}, inst : Inst]
    \cup [type : {"ACCEPT"}, inst : Inst, proposal : Proposal]
    \cup [type : {"ACCEPTED"}, inst : Inst]
    \cup [type : {"REJECT_ACCEPT"}, inst : Inst]
    \cup [type : {"LEARN"}, inst : Inst]
    \cup [type : {"ASK_FOR_INSTANCE_ID"}, my : InstOrEnd]
    \cup [type : {"ASK_FOR_INSTANCE_ID_REPLY"}, my : InstOrEnd]
    \cup [type : {"ASK_FOR_LEARN"}, from : InstOrEnd]
    \cup LearnReply

RoleTypeOK ==
  /\ up \in [Node -> BOOLEAN]
  /\ inst \in [Node -> InstOrEnd]
  /\ net \in [Node -> [Node -> Seq(Message)]]
  /\ breaks \in 0 .. MaxBreaks

RoleInit ==
  /\ up = [n \in Node |-> TRUE]
  /\ inst = [n \in Node |-> 0]
  /\ net = [s \in Node |-> [r \in Node |-> <<>>]]
  /\ breaks = 0
-----------------------------------------------------------------------------
\* The network once the head of net[s][n] has been taken by n.
Received(s, n) == [net EXCEPT ![s][n] = Tail(@)]

Running == {n \in Node : up[n]}

\* Wrong: the new message overtakes those that are queued.
SendOvertaking(nt, n, dests, m) ==
  [nt EXCEPT ![n] = [r \in Node |->
      IF r \in dests THEN <<m>> \o nt[n][r] ELSE nt[n][r]]]

\* The network nt once n has also sent m to dests.
Send(nt, n, dests, m) ==
  [nt EXCEPT ![n] = [r \in Node |->
      IF r \in dests THEN Append(nt[n][r], m) ELSE nt[n][r]]]

Broadcast(nt, n, m) == Send(nt, n, Running, m)

SendMessageTo(nt, n, to, m) == Send(nt, n, {to} \cap Running, m)

\* The connection from s to n breaks: RemoveChannel drops the send queue, and
\* what the connection had not delivered is lost.  The channel to oneself
\* (ChannelSelf) never breaks.
Break(s, n) ==
  /\ s # n
  /\ breaks < MaxBreaks
  /\ \E k \in 0 .. (Len(net[s][n]) - 1) :
        net' = [net EXCEPT ![s][n] = SubSeq(@, 1, k)]
  /\ breaks' = breaks + 1
  /\ UNCHANGED <<up, inst>>
=============================================================================
