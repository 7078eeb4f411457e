------------------------------- MODULE Context ------------------------------
(***************************************************************************)
(* The client side of a node: the Context a Propose call waits in          *)
(* (src/context.cpp) and the ProposeTimeout timers of the event loop       *)
(* (src/eventloop.cpp) that end the wait.                                  *)
(*                                                                         *)
(* bCommited is left out: it only selects a log line.  Reset does not      *)
(* touch m_iRet.                                                           *)
(***************************************************************************)
EXTENDS Role

CONSTANT SpuriousWakeups   \* whether m_cv.wait may return without a notification

ASSUME SpuriousWakeupsAssumption == SpuriousWakeups \in BOOLEAN

VARIABLES
  ctx,      \* ctx[n]: the Propose call of n's client
  timers    \* timers[n]: the ProposeTimeout timers that have not fired

contextVars == <<ctx, timers>>

Ok == 0             \* m_iRet: the client's value is the value of the instance
NotSuccess == -1    \* the proposer gave up or a timer fired
NotChosen == -2     \* another value, or another instance
Unset == 1          \* no result yet: m_iRet is not initialised, it may be any

\* idle: no call.  called: the proposal is under way, the client not yet in
\* m_cv.wait.  waiting: in it.  notified: past it, not returned yet.
Call == [state : {"idle", "called", "waiting", "notified"}, id : InstOrEnd,
         value : AnyValue, ret : {Ok, NotSuccess, NotChosen, Unset}]

\* live: m_propose_timeout_id is set and has neither fired nor been removed.
\* stale: timers of earlier calls.  All run 2000 ms, so stale ones fire first.
Timers == [live : BOOLEAN, stale : Nat]

ContextTypeOK ==
  /\ ctx \in [Node -> Call]
  /\ timers \in [Node -> Timers]

NoCall == [state |-> "idle", id |-> 0, value |-> Empty, ret |-> Unset]

NoTimers == [live |-> FALSE, stale |-> 0]

ContextInit ==
  /\ ctx = [n \in Node |-> NoCall]
  /\ timers = [n \in Node |-> NoTimers]
-----------------------------------------------------------------------------
\* Context::Reset, of an instance id and a value.
Reset(c, id, v) == [c EXCEPT !.state = "called", !.id = id, !.value = v]

\* Wrong: a client is told Ok whatever value its instance got.
CommitAnyResult(c, success, id, v) ==
  [c EXCEPT !.ret = IF success /\ id = c.id THEN Ok ELSE NotSuccess,
            !.state = IF @ = "waiting" THEN "notified" ELSE @]

\* Wrong: a client whose value was not chosen is not notified.
CommitOwnResult(c, success, id, v) ==
  IF success /\ (id # c.id \/ v # c.value) THEN [c EXCEPT !.ret = NotChosen]
  ELSE [c EXCEPT !.ret = IF success THEN Ok ELSE NotSuccess,
                 !.state = IF @ = "waiting" THEN "notified" ELSE @]

\* Context::CommitResult(success, id, v): the last result wins until the
\* client has taken the mutex again; notify_one without a waiter is lost.
CommitResult(c, success, id, v) ==
  [c EXCEPT !.ret = IF ~success THEN NotSuccess
                    ELSE IF id = c.id /\ v = c.value THEN Ok ELSE NotChosen,
            !.state = IF @ = "waiting" THEN "notified" ELSE @]

AddTimeout(t) == [live |-> TRUE, stale |-> IF t.live THEN t.stale + 1 ELSE t.stale]

\* Wrong: the timer of an earlier call is removed.
RemoveOldTimeout(t) == [t EXCEPT !.stale = @ - 1]

\* RemoveTimeout(m_propose_timeout_id): nothing to do when it has fired.
RemoveTimeout(t) == [t EXCEPT !.live = FALSE]

\* A ProposeTimeout of any call fails the call in progress.
ProposeTimeout(n) ==
  /\ up[n]
  /\ \/ /\ timers[n].stale > 0
        /\ timers' = [timers EXCEPT ![n].stale = @ - 1]
     \/ /\ timers[n].stale = 0 /\ timers[n].live
        /\ timers' = [timers EXCEPT ![n] = RemoveTimeout(@)]
  /\ ctx' = [ctx EXCEPT ![n] = CommitResult(@, FALSE, inst[n], Empty)]

\* WaitAndGetResult begins to wait: nothing tells it of an earlier result.
Wait(n) ==
  /\ up[n]
  /\ ctx[n].state = "called"
  /\ ctx' = [ctx EXCEPT ![n].state = "waiting"]
  /\ UNCHANGED timers

Wakeup(n) ==
  /\ SpuriousWakeups
  /\ up[n]
  /\ ctx[n].state = "waiting"
  /\ ctx' = [ctx EXCEPT ![n].state = "notified"]
  /\ UNCHANGED timers

\* WaitAndGetResult returns; the client may call Propose again.
Return(n) ==
  /\ up[n]
  /\ ctx[n].state = "notified"
  /\ ctx' = [ctx EXCEPT ![n].state = "idle"]
  /\ UNCHANGED timers
=============================================================================
