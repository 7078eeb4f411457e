--------------------------- MODULE StateMachineMgr --------------------------
(***************************************************************************)
(* The state machine of a node: src/statemachinemgr.cpp in front of the    *)
(* one state machine of the application, KVSM (app/kvsm.hpp), which writes *)
(* a checkpoint, CPID, after every value it has executed.  What it has     *)
(* executed and its checkpoint are in its own database and survive a       *)
(* crash.                                                                  *)
(***************************************************************************)
EXTENDS Role

CONSTANTS
  MayFail,       \* values whose execution may return an error
  Unparsable     \* values KVSM::Execute cannot parse: 0, but no checkpoint

VARIABLES
  smlog,   \* smlog[n]: the executions of n's state machine that returned 0
  cp       \* cp[n]: GetCheckpointMinInstanceID, 0 when there is no checkpoint

stateMachineVars == <<smlog, cp>>

ASSUME MayFailAssumption == MayFail \subseteq AnyValue

ASSUME UnparsableAssumption == Unparsable \subseteq Value

Execution == [id : Inst, value : AnyValue]

StateMachineTypeOK ==
  /\ smlog \in [Node -> Seq(Execution)]
  /\ cp \in [Node -> Inst]

StateMachineInit ==
  /\ smlog = [n \in Node |-> <<>>]
  /\ cp = [n \in Node |-> 0]
-----------------------------------------------------------------------------
\* Execute or ExecuteForReplay of the values vals in the instances first,
\* first + 1, ...: all of them return 0.
Executions(first, vals) ==
  [j \in DOMAIN vals |-> [id |-> first + j - 1, value |-> vals[j]]]

\* Wrong: the checkpoint is not written.
NoCheckpoint(c, first, vals) == c

\* The checkpoint after them: the last one that could be parsed.
Checkpoint(c, first, vals) ==
  LET parsed == {j \in DOMAIN vals : vals[j] \notin Unparsable}
  IN  IF parsed = {} THEN c
      ELSE first - 1 + CHOOSE j \in parsed : \A k \in parsed : k <= j

ExecuteAll(n, first, vals) ==
  /\ smlog' = [smlog EXCEPT ![n] = @ \o Executions(first, vals)]
  /\ cp' = [cp EXCEPT ![n] = Checkpoint(@, first, vals)]

Execute(n, i, v) == ExecuteAll(n, i, <<v>>)
=============================================================================
