-------------------------- MODULE ServerConnection --------------------------
(***************************************************************************)
(* One connection of the exec server: the message loop of                  *)
(* ConnectionProcessor.run_connection (server/processor.py), the queue of  *)
(* notifications a session's processes write to                            *)
(* (RpcNotificationSender, rpc.py), and the bounded queue of outgoing      *)
(* messages with the task that writes them to the transport                *)
(* (pycodex/exec_server/connection.py).                                    *)
(*                                                                         *)
(* Requests and notifications are numbered as they are made.  The queue of *)
(* incoming messages is left unbounded: MaxRequests is below its capacity. *)
(***************************************************************************)
EXTENDS Integers, Sequences, SequencesExt

CONSTANTS Capacity,       \* CHANNEL_CAPACITY of the outgoing queue
          MaxRequests,    \* bound on the requests the client sends
          MaxNotices      \* bound on the notifications of its processes

ASSUME BoundsAssumption ==
    /\ Capacity \in Nat \ {0}
    /\ MaxRequests \in Nat /\ MaxNotices \in Nat

VARIABLES
    incoming,        \* requests and "disconnected" events the loop has not taken
    asked,           \* requests the client has sent
    phase,            \* where run_connection stands
    serving,         \* the request it serves
    notices,         \* the handler's queue of notifications
    noticed,         \* notifications made so far
    outgoing,        \* outgoing_tx
    writer,          \* the task that writes it: "running" or "ended"
    disconnected,    \* the event of that name
    handlerUp,        \* the handler has not been shut down
    wire             \* every message written to the transport

loopVars       == <<phase, serving, handlerUp>>
queueVars      == <<incoming, notices, outgoing>>
transportVars  == <<writer, disconnected, wire>>
connectionVars == <<loopVars, queueVars, transportVars, asked, noticed>>

Gone == 0       \* the "disconnected" event among the incoming requests
Response(n) == [kind |-> "response", number |-> n]
Notice(n)   == [kind |-> "notice", number |-> n]
Messages    == [kind : {"response", "notice"}, number : Nat]

ConnectionTypeOK ==
    /\ incoming \in Seq(0 .. MaxRequests)
    /\ asked \in 0 .. MaxRequests
    /\ phase \in {"waiting", "routing", "answering", "draining", "stopping",
                "joining", "closed"}
    /\ serving \in 0 .. MaxRequests
    /\ notices \in Seq(Messages)
    /\ noticed \in 0 .. MaxNotices
    /\ outgoing \in Seq(Messages) /\ Len(outgoing) <= Capacity
    /\ writer \in {"running", "ended"}
    /\ disconnected \in BOOLEAN /\ handlerUp \in BOOLEAN
    /\ wire \in Seq(Messages)

ConnectionInit ==
    /\ incoming = <<>>
    /\ asked = 0
    /\ phase = "waiting"
    /\ serving = 0
    /\ notices = <<>>
    /\ noticed = 0
    /\ outgoing = <<>>
    /\ writer = "running"
    /\ disconnected = FALSE
    /\ handlerUp = TRUE
    /\ wire = <<>>
-----------------------------------------------------------------------------
\* The client sends a request and the reader queues it.
Ask ==
    /\ ~ disconnected /\ phase # "closed" /\ asked < MaxRequests
    /\ asked' = asked + 1
    /\ incoming' = Append(incoming, asked + 1)
    /\ UNCHANGED <<loopVars, notices, outgoing, transportVars, noticed>>

\* A process of the session notifies; put_nowait on an unbounded queue.
Notify ==
    /\ handlerUp /\ noticed < MaxNotices
    /\ noticed' = noticed + 1
    /\ notices' = Append(notices, Notice(noticed + 1))
    /\ UNCHANGED <<loopVars, incoming, outgoing, transportVars, asked>>

TakeRequest ==
    /\ phase = "waiting"
    /\ incoming # <<>> /\ Head(incoming) # Gone
    /\ serving' = Head(incoming)
    /\ incoming' = Tail(incoming)
    /\ phase' = "routing"
    /\ UNCHANGED <<handlerUp, notices, outgoing, transportVars, asked, noticed>>

\* Faulty variants, used only to confirm that the properties notice them, are
\* named Faulty... and precede the definition they vary.
FaultyIgnoreDisconnected ==
    /\ phase = "waiting"
    /\ incoming # <<>> /\ Head(incoming) = Gone
    /\ incoming' = Tail(incoming)
    /\ UNCHANGED <<loopVars, notices, outgoing, transportVars, asked, noticed>>

\* The loop breaks and its finally clause runs handler.shutdown().
TakeDisconnected ==
    /\ phase = "waiting"
    /\ incoming # <<>> /\ Head(incoming) = Gone
    /\ incoming' = Tail(incoming)
    /\ phase' = "joining"
    /\ handlerUp' = FALSE
    /\ UNCHANGED <<serving, notices, outgoing, transportVars, asked, noticed>>

Room == Capacity - Len(outgoing)

FaultyMoveWhatFits(first, goesOn) ==
    LET moved == Min({Len(notices), Room - Len(first)})
    IN  /\ outgoing' = outgoing \o first \o SubSeq(notices, 1, moved)
        /\ notices' = <<>>
        /\ phase' = IF goesOn THEN "waiting" ELSE "joining"
        /\ handlerUp' = goesOn

\* The loop puts first and then the handler's notifications on the outgoing
\* queue, as many as it has room for; with all of them it waits for the next
\* request or, if the connection is over, shuts the handler down.
Move(first, goesOn) ==
    LET moved == Min({Len(notices), Room - Len(first)})
        rest  == Len(notices) - moved
    IN  /\ outgoing' = outgoing \o first \o SubSeq(notices, 1, moved)
        /\ notices' = SubSeq(notices, moved + 1, Len(notices))
        /\ phase' = CASE rest = 0 /\ goesOn   -> "waiting"
                     [] rest = 0 /\ ~ goesOn -> "joining"
                     [] rest > 0 /\ goesOn   -> "draining"
                     [] OTHER                -> "stopping"
        /\ handlerUp' = (goesOn \/ rest > 0)

FaultyRouteEndsDropped ==
    /\ phase = "routing"
    /\ IF Room > 0 THEN Move(<<Response(serving)>>, TRUE)
                   ELSE phase' = "waiting" /\ UNCHANGED <<handlerUp, notices, outgoing>>
    /\ UNCHANGED <<serving, incoming, transportVars, asked, noticed>>

\* The handler returned, before or together with the disconnection, and its
\* response is put on the queue.
RouteEnds ==
    /\ phase = "routing"
    /\ IF Room > 0 THEN Move(<<Response(serving)>>, TRUE)
                   ELSE phase' = "answering" /\ UNCHANGED <<handlerUp, notices, outgoing>>
    /\ UNCHANGED <<serving, incoming, transportVars, asked, noticed>>

\* There is room for the response.
Answer ==
    /\ phase = "answering"
    /\ Room > 0
    /\ Move(<<Response(serving)>>, TRUE)
    /\ UNCHANGED <<serving, incoming, transportVars, asked, noticed>>

\* The message ends the connection: its handler is cancelled by the
\* disconnection, or it is a notification that is unknown or refused.
RouteBreaks ==
    /\ phase = "routing"
    /\ Move(<<>>, FALSE)
    /\ UNCHANGED <<serving, incoming, transportVars, asked, noticed>>

\* _drain_outbound_connection goes on when there is room again.
Drain ==
    /\ phase \in {"draining", "stopping"}
    /\ Room > 0
    /\ Move(<<>>, phase = "draining")
    /\ UNCHANGED <<serving, incoming, transportVars, asked, noticed>>

\* After the shutdown the loop waits at most 0.1 s for the queue to empty and
\* closes the connection, which cancels the writer.
Close ==
    /\ phase = "joining"
    /\ phase' = "closed"
    /\ writer' = "ended"
    /\ UNCHANGED <<serving, handlerUp, queueVars, disconnected, wire, asked, noticed>>
-----------------------------------------------------------------------------
Write ==
    /\ writer = "running" /\ outgoing # <<>>
    /\ wire' = Append(wire, Head(outgoing))
    /\ outgoing' = Tail(outgoing)
    /\ UNCHANGED <<loopVars, incoming, notices, writer, disconnected, asked, noticed>>

\* A message cannot be written: it is lost and the writer ends.
WriteFails ==
    /\ writer = "running" /\ outgoing # <<>>
    /\ outgoing' = Tail(outgoing)
    /\ writer' = "ended"
    /\ disconnected' = TRUE
    /\ incoming' = Append(incoming, Gone)
    /\ UNCHANGED <<loopVars, notices, wire, asked, noticed>>

\* The reader sees the end of the transport.  The websocket's one task reads
\* and writes, so its writer ends too; a stdio writer goes on.
ReadEnds ==
    /\ ~ disconnected
    /\ disconnected' = TRUE
    /\ incoming' = Append(incoming, Gone)
    /\ writer' \in {writer, "ended"}
    /\ UNCHANGED <<loopVars, notices, outgoing, wire, asked, noticed>>
-----------------------------------------------------------------------------
LoopStep == TakeRequest \/ TakeDisconnected \/ RouteEnds \/ RouteBreaks
            \/ Answer \/ Drain \/ Close

ConnectionNext == LoopStep \/ Write \/ WriteFails \/ ReadEnds \/ Ask \/ Notify

\* The event loop resumes the message loop wherever it can go on, handlers
\* return or are cancelled, and a running writer writes or fails.  Nothing is
\* assumed of the client, its processes or the transport.
ConnectionSpec     == ConnectionInit /\ [][ConnectionNext]_connectionVars
FairConnectionSpec == ConnectionSpec /\ WF_connectionVars(LoopStep) /\ WF_connectionVars(Write \/ WriteFails)
-----------------------------------------------------------------------------
(***************************************************************************)
(* Properties                                                              *)
(***************************************************************************)
\* The messages of each kind are in the order of their numbers, and none comes
\* without all smaller numbers of its kind, from 1.
Ordered(messages) ==
    \A i, j \in DOMAIN messages :
        i < j /\ messages[i].kind = messages[j].kind => messages[i].number < messages[j].number
InSequence(messages) ==
    /\ Ordered(messages)
    /\ \A m \in ToSet(messages) :
          m.number > 0 /\ \A n \in 1 .. m.number : [m EXCEPT !.number = n] \in ToSet(messages)

\* Every request is answered at most once and in order, and the notifications
\* reach the transport in order and without a gap.  While the connection is up,
\* every notification is on the wire or on its way: none is dropped or
\* duplicated by the queues, whichever of them is full.
WireInOrder ==
    /\ InSequence(wire)
    /\ ~ disconnected =>
          LET all == wire \o outgoing \o notices
          IN  /\ InSequence(all)
              /\ {m \in ToSet(all) : m.kind = "notice"} = {Notice(n) : n \in 1 .. noticed}

\* While the connection is up, a request is answered, and a notification that
\* is made before the loop rests is written with the answers.  One that is made
\* while the loop waits for a request stays where it is until the client asks.
Busy == phase # "waiting" \/ incoming # <<>>
Over == disconnected \/ ~ handlerUp
AskedIsAnswered ==
    /\ \A n \in 1 .. MaxRequests : asked >= n ~> Over \/ Response(n) \in ToSet(wire)
    /\ \A n \in 1 .. MaxNotices : noticed >= n /\ Busy ~> Over \/ Notice(n) \in ToSet(wire)

\* The one way in which a lost connection can keep its session: the loop waits
\* for room in a full queue whose writer has ended.
StuckOnFullQueue == writer = "ended" /\ Room = 0 /\ phase \in {"answering", "draining", "stopping"}
DetachesUnlessStuck == disconnected ~> ~ handlerUp \/ StuckOnFullQueue
=============================================================================
