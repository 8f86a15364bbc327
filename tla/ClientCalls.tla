----------------------------- MODULE ClientCalls -----------------------------
(***************************************************************************)
(* Requests of a remote exec-server client: ExecServerClient.call and its  *)
(* reader loop (pycodex/exec_server/client/__init__.py) on a               *)
(* JsonRpcConnection with a bounded outgoing queue (connection.py), or on   *)
(* one that goes through a relay (_relay_harness_connection_loop of        *)
(* pycodex/exec_server/relay.py).                                          *)
(*                                                                         *)
(* Each caller makes one call; request ids are unique, so a call stands    *)
(* for its id.  The server answers what it was asked in any order or not   *)
(* at all.                                                                 *)
(***************************************************************************)
EXTENDS Integers, Sequences, FiniteSets, SequencesExt

CONSTANTS Calls,       \* the calls callers make
          Gone,        \* an event that ends the reader loop: "disconnected",
                       \* "malformed" or a notification it cannot handle
          Capacity     \* CHANNEL_CAPACITY of the outgoing queue

ASSUME CallsAssumption ==
    /\ IsFiniteSet(Calls) /\ Gone \notin Calls
    /\ Capacity \in Nat \ {0}

VARIABLES
    call,            \* where each call's coroutine stands
    future,          \* the future of each call
    pendingCalls,    \* pending_calls
    outgoing,        \* outgoing_tx
    writer,          \* the task that writes it: "running", for a relay "opening"
                     \* and "relaying", and "ended" or "silent"
    asked,           \* requests that reached the server and are unanswered
    incoming,        \* incoming_rx
    reader,          \* _reader_loop: "running" or "ended"
    disconnected,    \* the connection's event
    failure          \* disconnected_message is set

callVars       == <<call, future, pendingCalls>>
connectionVars == <<outgoing, writer, asked, incoming, disconnected>>
loopVars       == <<reader, failure>>
clientVars     == <<callVars, connectionVars, loopVars>>

CallsTypeOK ==
    /\ call \in [Calls -> {"new", "putting", "awaiting", "answered", "failed", "cancelled"}]
    /\ future \in [Calls -> {"none", "unset", "result", "error"}]
    /\ pendingCalls \subseteq Calls
    /\ outgoing \in Seq(Calls) /\ Len(outgoing) <= Capacity
    /\ writer \in {"running", "opening", "relaying", "ended", "silent"}
    /\ asked \subseteq Calls
    /\ incoming \in Seq(Calls \cup {Gone})
    /\ reader \in {"running", "ended"}
    /\ disconnected \in BOOLEAN /\ failure \in BOOLEAN

CallsInit ==
    /\ call = [c \in Calls |-> "new"]
    /\ future = [c \in Calls |-> "none"]
    /\ pendingCalls = {}
    /\ outgoing = <<>>
    /\ writer \in {"running", "opening"}
    /\ asked = {}
    /\ incoming = <<>>
    /\ reader = "running"
    /\ disconnected = FALSE
    /\ failure = FALSE
-----------------------------------------------------------------------------
Full == Len(outgoing) = Capacity

\* The outgoing queue takes a request, or its caller waits for room.
Put(c) ==
    IF Full THEN call' = [call EXCEPT ![c] = "putting"] /\ UNCHANGED outgoing
            ELSE call' = [call EXCEPT ![c] = "awaiting"] /\ outgoing' = Append(outgoing, c)

\* Faulty variants, used only to confirm that the properties notice them, are
\* named Faulty... and precede the definition they vary.
FaultyStartUnchecked(c) ==
    /\ call[c] = "new"
    /\ future' = [future EXCEPT ![c] = "unset"]
    /\ pendingCalls' = pendingCalls \cup {c}
    /\ Put(c)
    /\ UNCHANGED <<writer, asked, incoming, disconnected, loopVars>>

\* A call on a live connection is registered and put on the queue.
Start(c) ==
    /\ call[c] = "new"
    /\ ~ failure /\ ~ disconnected
    /\ future' = [future EXCEPT ![c] = "unset"]
    /\ pendingCalls' = pendingCalls \cup {c}
    /\ Put(c)
    /\ UNCHANGED <<writer, asked, incoming, disconnected, loopVars>>

StartRejected(c) ==
    /\ call[c] = "new"
    /\ failure \/ disconnected
    /\ call' = [call EXCEPT ![c] = "failed"]
    /\ UNCHANGED <<future, pendingCalls, connectionVars, loopVars>>

PutResumes(c) ==
    /\ call[c] = "putting" /\ ~ Full
    /\ Put(c)
    /\ UNCHANGED <<future, pendingCalls, writer, asked, incoming, disconnected, loopVars>>

\* The future is done, and the finally clause forgets the call.
Return(c) ==
    /\ call[c] = "awaiting" /\ future[c] # "unset"
    /\ call' = [call EXCEPT ![c] = IF future[c] = "result" THEN "answered" ELSE "failed"]
    /\ pendingCalls' = pendingCalls \ {c}
    /\ UNCHANGED <<future, connectionVars, loopVars>>

\* The caller is cancelled.  The put stands before the try, so a call that is
\* cancelled there stays registered.
Cancel(c) ==
    /\ call[c] \in {"putting", "awaiting"}
    /\ call' = [call EXCEPT ![c] = "cancelled"]
    /\ pendingCalls' = IF call[c] = "awaiting" THEN pendingCalls \ {c} ELSE pendingCalls
    /\ UNCHANGED <<future, connectionVars, loopVars>>
-----------------------------------------------------------------------------
\* The harness's end of a relay announces its stream first.
Resume ==
    /\ writer = "opening"
    /\ writer' = "relaying"
    /\ UNCHANGED <<callVars, outgoing, asked, incoming, disconnected, loopVars>>

Write ==
    /\ writer \in {"running", "relaying"} /\ outgoing # <<>>
    /\ outgoing' = Tail(outgoing)
    /\ asked' = asked \cup {Head(outgoing)}
    /\ UNCHANGED <<callVars, writer, incoming, disconnected, loopVars>>

\* The server answers and the transport's reader queues the response.
Respond(c) ==
    /\ c \in asked /\ ~ disconnected
    /\ asked' = asked \ {c}
    /\ incoming' = Append(incoming, c)
    /\ UNCHANGED <<callVars, outgoing, writer, disconnected, loopVars>>

\* A write fails, or the transport ends; see ServerConnection.
WriteFails ==
    /\ writer = "running" /\ outgoing # <<>>
    /\ writer' = "ended"
    /\ outgoing' = Tail(outgoing)
    /\ disconnected' = TRUE
    /\ incoming' = Append(incoming, Gone)
    /\ UNCHANGED <<callVars, asked, loopVars>>

\* A relay that cannot send sets the connection's event and puts none of its
\* own on the incoming queue.
RelaySendFails ==
    /\ \/ writer = "opening" /\ UNCHANGED outgoing
       \/ writer = "relaying" /\ outgoing # <<>> /\ outgoing' = Tail(outgoing)
    /\ writer' = "silent"
    /\ disconnected' = TRUE
    /\ UNCHANGED <<callVars, asked, incoming, loopVars>>

\* The transport or the relay's stream ends.
ReadEnds ==
    /\ ~ disconnected /\ writer # "opening"
    /\ writer' \in {"ended"} \cup ({writer} \ {"relaying"})
    /\ disconnected' = TRUE
    /\ incoming' = Append(incoming, Gone)
    /\ UNCHANGED <<callVars, outgoing, asked, loopVars>>

\* A malformed message, or a notification the reader loop cannot handle, comes
\* in over a connection that stays up.  At most one waits to be read (a bound).
Malformed ==
    /\ ~ disconnected /\ writer # "opening" /\ reader = "running"
    /\ Gone \notin Range(incoming)
    /\ incoming' = Append(incoming, Gone)
    /\ UNCHANGED <<callVars, outgoing, writer, asked, disconnected, loopVars>>
-----------------------------------------------------------------------------
FaultyReadAnyone ==
    /\ reader = "running"
    /\ incoming # <<>> /\ Head(incoming) # Gone
    /\ incoming' = Tail(incoming)
    /\ \E c \in pendingCalls :
          future' = [future EXCEPT ![c] = IF @ = "unset" THEN "result" ELSE @]
    /\ UNCHANGED <<call, pendingCalls, outgoing, writer, asked, disconnected, loopVars>>

\* The reader loop resolves the call a response names, if it still waits.
ReadResponse ==
    /\ reader = "running"
    /\ incoming # <<>> /\ Head(incoming) # Gone
    /\ incoming' = Tail(incoming)
    /\ future' = [c \in Calls |->
          IF c = Head(incoming) /\ c \in pendingCalls /\ future[c] = "unset" THEN "result"
          ELSE future[c]]
    /\ UNCHANGED <<call, pendingCalls, outgoing, writer, asked, disconnected, loopVars>>

FaultyReadGoneSilently ==
    /\ reader = "running"
    /\ incoming # <<>> /\ Head(incoming) = Gone
    /\ incoming' = Tail(incoming)
    /\ reader' = "ended"
    /\ failure' = TRUE
    /\ pendingCalls' = {}
    /\ UNCHANGED <<call, future, outgoing, writer, asked, disconnected>>

\* _fail_all_sessions and _fail_pending_calls; the loop ends.
ReadGone ==
    /\ reader = "running"
    /\ incoming # <<>> /\ Head(incoming) = Gone
    /\ incoming' = Tail(incoming)
    /\ reader' = "ended"
    /\ failure' = TRUE
    /\ future' = [c \in Calls |->
          IF c \in pendingCalls /\ future[c] = "unset" THEN "error" ELSE future[c]]
    /\ pendingCalls' = {}
    /\ UNCHANGED <<call, outgoing, writer, asked, disconnected>>
-----------------------------------------------------------------------------
CallerStep(c) == Start(c) \/ StartRejected(c) \/ PutResumes(c) \/ Return(c)

CallsNext ==
    \/ \E c \in Calls : CallerStep(c) \/ Cancel(c) \/ Respond(c)
    \/ Resume \/ Write \/ WriteFails \/ RelaySendFails \/ ReadEnds
    \/ Malformed \/ ReadResponse \/ ReadGone

\* Coroutines go on when they can, a running writer writes or fails, and the
\* reader loop reads.  Nothing is assumed of the server.
CallsSpec == CallsInit /\ [][CallsNext]_clientVars
CallsFairSpec ==
    /\ CallsSpec
    /\ \A c \in Calls : WF_clientVars(PutResumes(c)) /\ WF_clientVars(Return(c))
    /\ WF_clientVars(Resume \/ Write \/ WriteFails \/ RelaySendFails)
    /\ WF_clientVars(ReadResponse \/ ReadGone)
-----------------------------------------------------------------------------
(***************************************************************************)
(* Properties                                                              *)
(***************************************************************************)
Waits(c) == call[c] \in {"putting", "awaiting"}

\* Whoever waits on a future that is not done is registered with a reader that
\* still runs: no call starts, however close to the disconnection, that
\* nobody will fail.
WaitingIsRegistered ==
    \A c \in Calls : Waits(c) /\ future[c] = "unset" => c \in pendingCalls /\ reader = "running"

\* A call that is answered was written and answered by the server, and not
\* resolved by another one's response: while its request is in the outgoing
\* queue or with the server, its future has no result.
AnswerIsOwn ==
    \A c \in Calls :
        future[c] = "result" => c \notin Range(outgoing) /\ c \notin asked /\ c \notin Range(incoming)

\* A call whose request was queued ends when the transport is lost, except
\* behind a relay that could not send: nobody tells the reader loop.
QueuedCallEnds ==
    \A c \in Calls :
        disconnected /\ call[c] = "awaiting" ~> ~ Waits(c) \/ writer = "silent"
=============================================================================
