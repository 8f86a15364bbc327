----------------------------- MODULE ToolCalls -----------------------------
(***************************************************************************)
(* Tool calls of one turn: ToolCallRuntime.handle_tool_call[_with_source]  *)
(* (pycodex/core/tools/parallel.py) racing each dispatch against the       *)
(* turn's cancellation token, and the part of the registry dispatch        *)
(* (dispatch_tool_call_with_terminal_outcome, pycodex/core/tools/router.py) *)
(* that decides which side reports the call's end to the lifecycle          *)
(* contributors.                                                            *)
(*                                                                          *)
(* Two coroutines serve a call: the handler (handler[c]) and the dispatch   *)
(* task it creates (stage[c]), which goes through the gate.  A third, the   *)
(* cancel task, polls the token every 50 ms; watched[c] says that it ended. *)
(* One action is one stretch of a coroutine between two suspensions.        *)
(***************************************************************************)
EXTENDS ToolGate, Sequences

CONSTANT WaitingCalls    \* calls whose tool waits_for_runtime_cancellation

ASSUME WaitingAssumption == WaitingCalls \subseteq Calls

VARIABLES
    cancelled,    \* the token's event is set
    handler,      \* where handle_tool_call_with_source stands
    watched,      \* the cancel task has seen the token
    stage,        \* where the dispatch task stands
    killed,       \* task.cancel() was called and not yet delivered
    outcome,      \* what the dispatch task returned or raised
    claimed,      \* the TerminalOutcomeFlag
    started,      \* notify_tool_start was sent
    finishes,     \* the outcomes sent by notify_tool_finish, in order
    response      \* what handle_tool_call gave its caller

callVars == <<cancelled, handler, watched, stage, killed, outcome, claimed,
              started, finishes, response>>
vars == <<gateVars, callVars>>

HandlerStates == {"new", "racing", "settling", "awaitResult", "awaitAbort",
                  "awaitKilled", "replied"}
Stages    == {"none", "queued", "entered", "running", "ran", "reporting", "done"}
Errors    == {"error", "fatal"}   \* a FunctionCallError for the model, or a fatal one
Outcomes  == {"none", "ok", "hookTypeError", "cancelled"} \cup Errors
Finishes  == {"completed", "failed", "blocked", "aborted"}
Responses == {"none", "completed", "failed", "aborted", "raised"}

CallsTypeOK ==
    /\ GateTypeOK
    /\ cancelled \in BOOLEAN
    /\ handler \in [Calls -> HandlerStates]
    /\ watched \in [Calls -> BOOLEAN]
    /\ stage \in [Calls -> Stages]
    /\ killed \in [Calls -> BOOLEAN]
    /\ outcome \in [Calls -> Outcomes]
    /\ claimed \in [Calls -> BOOLEAN]
    /\ started \in [Calls -> BOOLEAN]
    /\ finishes \in [Calls -> Seq(Finishes)]
    /\ response \in [Calls -> Responses]

Init ==
    /\ GateInit
    /\ cancelled = FALSE
    /\ handler  = [c \in Calls |-> "new"]
    /\ watched  = [c \in Calls |-> FALSE]
    /\ stage    = [c \in Calls |-> "none"]
    /\ killed   = [c \in Calls |-> FALSE]
    /\ outcome  = [c \in Calls |-> "none"]
    /\ claimed  = [c \in Calls |-> FALSE]
    /\ started  = [c \in Calls |-> FALSE]
    /\ finishes = [c \in Calls |-> <<>>]
    /\ response = [c \in Calls |-> "none"]

TaskDone(c) == stage[c] = "done"

Report(c, f) == finishes' = [finishes EXCEPT ![c] = Append(@, f)]
Goto(c, h)   == handler' = [handler EXCEPT ![c] = h]

Reply(c, r) ==
    /\ Goto(c, "replied")
    /\ response' = [response EXCEPT ![c] = r]

\* aborted_tool_result and notify_aborted: the handler reads nothing after
\* the contributors are told, so the awaits inside are part of the step.
ReplyAborted(c) == Reply(c, "aborted") /\ Report(c, "aborted")

\* `return await task`: handle_tool_call turns a FunctionCallError that is not
\* fatal into a failure response and raises for anything else.
ReplyWithResult(c) ==
    Reply(c, CASE outcome[c] = "ok"    -> "completed"
               [] outcome[c] = "error" -> "failed"
               [] OTHER                -> "raised")
-----------------------------------------------------------------------------
(* The user interrupts the turn.                                           *)
CancelToken ==
    /\ ~ cancelled
    /\ cancelled' = TRUE
    /\ UNCHANGED <<gateVars, handler, watched, stage, killed, outcome, claimed,
                   started, finishes, response>>

(* The cancel task's poll finds the token set.                             *)
NoticeCancel(c) ==
    /\ cancelled /\ handler[c] = "racing" /\ ~ watched[c]
    /\ watched' = [watched EXCEPT ![c] = TRUE]
    /\ UNCHANGED <<gateVars, cancelled, handler, stage, killed, outcome, claimed,
                   started, finishes, response>>
-----------------------------------------------------------------------------
(* The handler.                                                            *)

HandleCall(c) ==
    /\ handler[c] = "new"
    /\ \/ /\ cancelled
          /\ ReplyAborted(c)
          /\ UNCHANGED stage
       \/ /\ ~ cancelled
          /\ Goto(c, "racing")
          /\ stage' = [stage EXCEPT ![c] = "queued"]
          /\ UNCHANGED <<response, finishes>>
    /\ UNCHANGED <<gateVars, cancelled, watched, killed, outcome, claimed, started>>

\* asyncio.wait returned and the dispatch task is in `done`: the cancel task
\* is cancelled and awaited before the token is looked at again.
RaceWonByTask(c) ==
    /\ handler[c] = "racing" /\ TaskDone(c)
    /\ Goto(c, "settling")
    /\ UNCHANGED <<gateVars, cancelled, watched, stage, killed, outcome, claimed,
                   started, finishes, response>>

FaultySettleIgnoringClaim(c) ==
    /\ handler[c] = "settling"
    /\ IF cancelled /\ c \in WaitingCalls
         THEN ReplyAborted(c)
         ELSE ReplyWithResult(c) /\ UNCHANGED finishes
    /\ UNCHANGED <<gateVars, cancelled, watched, stage, killed, outcome, claimed,
                   started>>

\* A finished task is still reported as aborted when the token was cancelled
\* meanwhile and its tool waits for cancellation, unless the task reached its
\* terminal outcome; a TypeError of the post hook is not suppressed.
Settle(c) ==
    /\ handler[c] = "settling"
    /\ IF cancelled /\ c \in WaitingCalls /\ ~ claimed[c]
          /\ outcome[c] # "hookTypeError"
         THEN ReplyAborted(c)
         ELSE ReplyWithResult(c) /\ UNCHANGED finishes
    /\ UNCHANGED <<gateVars, cancelled, watched, stage, killed, outcome, claimed,
                   started>>

\* _handle_inflight_cancellation up to its first await.
RaceWonByCancel(c) ==
    /\ handler[c] = "racing" /\ watched[c] /\ ~ TaskDone(c)
    /\ \/ /\ claimed[c]
          /\ Goto(c, "awaitResult")
          /\ UNCHANGED <<claimed, killed>>
       \/ /\ ~ claimed[c] /\ c \in WaitingCalls
          /\ claimed' = [claimed EXCEPT ![c] = TRUE]
          /\ Goto(c, "awaitAbort")
          /\ UNCHANGED killed
       \/ /\ ~ claimed[c] /\ c \notin WaitingCalls
          /\ killed' = [killed EXCEPT ![c] = TRUE]
          /\ Goto(c, "awaitKilled")
          /\ UNCHANGED claimed
    /\ UNCHANGED <<gateVars, cancelled, watched, stage, outcome, started, finishes,
                   response>>

FaultyDeliverWithoutAwait(c) ==
    /\ \/ handler[c] = "awaitResult" /\ TaskDone(c)
          /\ ReplyWithResult(c) /\ UNCHANGED finishes
       \/ handler[c] \in {"awaitAbort", "awaitKilled"} /\ ReplyAborted(c)
    /\ UNCHANGED <<gateVars, cancelled, watched, stage, killed, outcome, claimed,
                   started>>

\* The awaits on the task after the cancellation won.
Deliver(c) ==
    /\ TaskDone(c)
    /\ \/ /\ handler[c] = "awaitResult"
          /\ ReplyWithResult(c) /\ UNCHANGED finishes
       \/ /\ handler[c] = "awaitAbort"
          /\ IF outcome[c] = "hookTypeError"
               THEN ReplyWithResult(c) /\ UNCHANGED finishes
               ELSE ReplyAborted(c)
       \/ /\ handler[c] = "awaitKilled"
          /\ IF outcome[c] = "cancelled"
               THEN ReplyAborted(c)
               ELSE ReplyWithResult(c) /\ UNCHANGED finishes
    /\ UNCHANGED <<gateVars, cancelled, watched, stage, killed, outcome, claimed,
                   started>>
-----------------------------------------------------------------------------
(* The dispatch task.  A pending task.cancel() is delivered the next time  *)
(* the task is resumed, before any of its own statements.                  *)

handlerSide == <<cancelled, handler, watched, response>>

AtGate(c) ==
    /\ stage[c] = "queued" /\ ~ killed[c]
    /\ \/ Enter(c) /\ stage' = [stage EXCEPT ![c] = "entered"]
       \/ Park(c)  /\ UNCHANGED stage
    /\ UNCHANGED <<handlerSide, killed, outcome, claimed, started, finishes>>

TaskEnds(c, o) ==
    /\ stage' = [stage EXCEPT ![c] = "done"]
    /\ outcome' = [outcome EXCEPT ![c] = o]

\* The tool is unknown, or the payload does not fit it, which is fatal: an error
\* without any lifecycle notification.
RejectCall(c) ==
    /\ stage[c] = "entered" /\ ~ killed[c]
    /\ \E o \in Errors : TaskEnds(c, o)
    /\ Leave(c)
    /\ UNCHANGED <<handlerSide, killed, claimed, started, finishes>>

StartTool(c) ==
    /\ stage[c] = "entered" /\ ~ killed[c]
    /\ stage' = [stage EXCEPT ![c] = "running"]
    /\ started' = [started EXCEPT ![c] = TRUE]
    /\ UNCHANGED <<gateVars, handlerSide, killed, outcome, claimed, finishes>>

\* _handle_tool returned; telemetry and the post hook are still to come.
ToolReturns(c) ==
    /\ stage[c] = "running" /\ ~ killed[c]
    /\ stage' = [stage EXCEPT ![c] = "ran"]
    /\ UNCHANGED <<gateVars, handlerSide, killed, outcome, claimed, started, finishes>>

\* notify_tool_finish_if_unclaimed: only the side that swaps the flag first
\* reports.
Claim(c, f) ==
    /\ IF claimed[c] THEN UNCHANGED finishes ELSE Report(c, f)
    /\ claimed' = [claimed EXCEPT ![c] = TRUE]

\* _apply_pre_tool_use_hook: the hook blocks the tool or fails.  "running"
\* covers the hook and the handler.
HookStopsTool(c) ==
    /\ stage[c] = "running" /\ ~ killed[c]
    /\ stage' = [stage EXCEPT ![c] = "reporting"]
    /\ \E o \in Errors :
          /\ outcome' = [outcome EXCEPT ![c] = o]
          /\ Claim(c, "failed") \/ (o = "error" /\ Claim(c, "blocked"))
    /\ UNCHANGED <<gateVars, handlerSide, killed, started>>

\* The handler raises, or the post hook fails after it.
ToolFails(c) ==
    /\ stage[c] \in {"running", "ran"} /\ ~ killed[c]
    /\ Claim(c, "failed")
    /\ stage' = [stage EXCEPT ![c] = "reporting"]
    /\ \E o \in Errors \cup (IF stage[c] = "ran" THEN {"hookTypeError"} ELSE {}) :
          outcome' = [outcome EXCEPT ![c] = o]
    /\ UNCHANGED <<gateVars, handlerSide, killed, started>>

ToolCompletes(c) ==
    /\ stage[c] = "ran" /\ ~ killed[c]
    /\ Claim(c, "completed")
    /\ stage' = [stage EXCEPT ![c] = "reporting"]
    /\ outcome' = [outcome EXCEPT ![c] = "ok"]
    /\ UNCHANGED <<gateVars, handlerSide, killed, started>>

\* The contributors have been told: the gate is released and the task ends.
EndTask(c) ==
    /\ stage[c] = "reporting" /\ ~ killed[c]
    /\ TaskEnds(c, outcome[c])
    /\ Leave(c)
    /\ UNCHANGED <<handlerSide, killed, claimed, started, finishes>>

\* CancelledError unwinds the task: out of a task that never ran, out of the
\* gate's wait(), or through the dispatch and the gate's finally.
KillTask(c) ==
    /\ killed[c] /\ ~ TaskDone(c)
    /\ TaskEnds(c, "cancelled")
    /\ killed' = [killed EXCEPT ![c] = FALSE]
    /\ CASE phase[c] = "outside" -> UNCHANGED gateVars
         [] phase[c] = "inside"  -> Leave(c)
         [] OTHER                -> Interrupt(c)
    /\ UNCHANGED <<handlerSide, claimed, started, finishes>>

\* A tool that catches CancelledError carries on.
SwallowCancel(c) ==
    /\ killed[c] /\ stage[c] = "running"
    /\ killed' = [killed EXCEPT ![c] = FALSE]
    /\ UNCHANGED <<gateVars, handlerSide, stage, outcome, claimed, started, finishes>>
-----------------------------------------------------------------------------
HandlerStep(c) == \/ HandleCall(c) \/ RaceWonByTask(c) \/ Settle(c)
                  \/ RaceWonByCancel(c) \/ Deliver(c)
TaskStep(c)    == \/ AtGate(c) \/ RejectCall(c) \/ StartTool(c) \/ HookStopsTool(c)
                  \/ ToolReturns(c) \/ ToolFails(c) \/ ToolCompletes(c)
                  \/ EndTask(c) \/ KillTask(c) \/ SwallowCancel(c)

Next == \/ CancelToken
        \/ \E c \in Calls : NoticeCancel(c) \/ HandlerStep(c) \/ TaskStep(c)

\* Every coroutine whose await is over is resumed by the event loop, the
\* cancel task keeps polling, and tools are assumed to return: weak fairness
\* of the coroutines, none of the user.
Fairness == \A c \in Calls : /\ WF_vars(HandlerStep(c))
                             /\ WF_vars(NoticeCancel(c))
                             /\ WF_vars(TaskStep(c))

Spec     == Init /\ [][Next]_vars
FairSpec == Spec /\ Fairness
-----------------------------------------------------------------------------
(***************************************************************************)
(* Properties                                                              *)
(***************************************************************************)

\* The caller's answer and the lifecycle contributors agree, whichever of the
\* handler, the tool and the user came first: a completed call was reported
\* completed, an aborted one aborted, a failed one failed or blocked and one
\* that raised a fatal error failed, unless it was rejected before it started;
\* and each is reported once.
ResponseMatchesLifecycle ==
    \A c \in Calls : handler[c] = "replied" =>
        /\ response[c] = "completed" => finishes[c] = <<"completed">>
        /\ response[c] = "aborted"   => finishes[c] = <<"aborted">>
        /\ response[c] = "failed"    =>
              finishes[c] \in IF started[c] THEN {<<"failed">>, <<"blocked">>} ELSE {<<>>}
        /\ response[c] = "raised" /\ outcome[c] = "fatal" =>
              finishes[c] = IF started[c] THEN <<"failed">> ELSE <<>>

\* The caller gets its answer only after the dispatch task is over: nothing
\* of an answered call still runs or holds the gate.
AnsweredIsOver ==
    \A c \in Calls : handler[c] = "replied" =>
        stage[c] \in {"none", "done"} /\ phase[c] \in {"outside", "gone"}

\* A tool that had not started when the cancellation won its race never
\* starts, unless it is one that waits for the runtime cancellation.
NoStartAfterAbort ==
    [][\A c \in Calls \ WaitingCalls :
          handler[c] = "awaitKilled" => started'[c] = started[c]]_vars

\* Every call is answered, cancelled or not; no wait at the gate is for ever.
EveryCallAnswered == <>(\A c \in Calls : handler[c] = "replied")
=============================================================================
