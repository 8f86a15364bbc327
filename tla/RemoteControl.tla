--------------------------- MODULE RemoteControl ---------------------------
(***************************************************************************)
(* The inbound side of remote control: one websocket to the backend        *)
(* carries the messages of many remote clients.  RemoteControlWebsocket    *)
(* (websocket.py) reads it and reconnects when it is lost; ClientTracker   *)
(* (client_tracker.py) turns each client stream into a virtual connection  *)
(* and tells the app server of it through a bounded queue of transport     *)
(* events: opened, messages, closed.                                       *)
(*                                                                         *)
(* The backend is external.  It keeps the envelopes the clients sent in    *)
(* order and, on a new websocket, sends them again from some position no   *)
(* later than the one after the subscribe cursor.  An envelope's cursor is *)
(* its position.  Each stream numbers its messages upwards from 1, and     *)
(* every envelope names its stream.                                        *)
(*                                                                         *)
(* The reader task runs on one event loop and is suspended only where it   *)
(* waits for the websocket or for room in the queue, so every action runs  *)
(* to the next such place.                                                 *)
(***************************************************************************)
EXTENDS Integers, Sequences, FiniteSets, SegmentAssembly

CONSTANTS Clients,      \* remote clients
          Streams,      \* their streams
          ClientOf,     \* the client of each stream
          Logs,         \* what the clients may have sent
          NoStream,
          Capacity,     \* of the queue of transport events
          MaxDrops,     \* bound on lost websockets
          Watched       \* the connections the liveness property is about

Envelopes == [kind : {"initialize", "message", "chunk", "closed"}, stream : Streams,
              seq : Nat, segment : Nat, count : Nat]
IsLast(e) == e.kind # "chunk" \/ e.segment + 1 = e.count

\* Two chunks of one message.
OneMessage(d, e) ==
    d.kind = "chunk" /\ e.kind = "chunk" /\ d.stream = e.stream /\ d.seq = e.seq

\* The messages of a stream are numbered upwards from 1, and one that is cut
\* into chunks is sent from its first chunk on.  (A closed envelope is not a
\* message.)
WellNumbered(l) ==
    LET IsMessage(p) == l[p].kind # "closed" IN
    /\ \A p \in DOMAIN l : IsMessage(p) => l[p].seq > 0
    /\ \A p, q \in DOMAIN l :
          p < q /\ l[p].stream = l[q].stream /\ IsMessage(p) /\ IsMessage(q)
             => \/ l[p].seq < l[q].seq
                \/ /\ OneMessage(l[p], l[q])
                   /\ l[p].segment < l[q].segment /\ l[p].count = l[q].count
    /\ \A p \in DOMAIN l : l[p].kind = "chunk" =>
          /\ l[p].segment < l[p].count
          /\ l[p].segment > 0 =>
                \E q \in 1 .. p - 1 : OneMessage(l[p], l[q]) /\ l[q].segment + 1 = l[p].segment

ASSUME RemoteAssumption ==
    /\ \A l \in Logs : l \in Seq(Envelopes) /\ WellNumbered(l)
    /\ ClientOf \in [Streams -> Clients]
    /\ NoStream \notin Streams
    /\ Capacity \in Nat \ {0}
    /\ MaxDrops \in Nat
    /\ Watched \subseteq Nat \ {0}

VARIABLES
    log,          \* the envelopes the backend keeps
    drops,        \* websockets lost so far
    reader,       \* where the reader of the websocket stands
    pos,          \* the envelope it handles, or is to receive next
    cursor,       \* subscribe_cursor
    assembly,     \* per client, the message being put together
    completedSeq, \* last_completed_client_chunk_seq_id_by_stream
    clients,      \* the tracker's connection of each stream, or NoId
    lastSeq,      \* last_inbound_seq_id of that connection
    streamOf,     \* the stream of each connection opened
    cancelled,    \* connections whose disconnect token is cancelled
    ended,        \* connections whose outbound task has ended
    completed,    \* the tracker's queue of streams whose task has ended
    got,          \* the stream bookkeep_join_set has taken from it
    orphans,      \* abandoned completed.get() tasks still waiting
    closing,      \* the connection close_client announces, and what follows
    idle,         \* streams close_expired_clients still has to close
    background,   \* connections a background task announces closed
    events,       \* every transport event put in the queue
    taken,        \* how many of them the app server has taken
    handled,      \* positions of the log that were delivered or had no connection
    torn          \* last chunks of messages that were interrupted or displaced

wireVars     == <<log, drops, pos, cursor>>
fateVars     == <<handled, torn>>
segmentVars  == <<assembly, completedSeq>>
trackerVars  == <<clients, lastSeq, streamOf>>
taskVars     == <<cancelled, ended, completed, got, orphans>>
closingVars  == <<closing, idle>>
eventVars    == <<events, taken, background>>
vars == <<wireVars, fateVars, reader, segmentVars, trackerVars, taskVars, closingVars, eventVars>>

NoId       == 0
Ids        == 1 .. Len(streamOf)
NotClosing == [id |-> NoId, after |-> "nothing", streams |-> {}]
Event(kind, i, n) == [kind |-> kind, id |-> i, seq |-> n]

Registered(s) == clients[s] # NoId
Room          == Len(events) - taken < Capacity
Current       == log[pos]

\* The last chunks of the messages that are lost when a chunk arrives and its
\* client's assembly is that of another message.  An assembly of another
\* stream gives way to the chunk's; one of the same stream goes with it.
Displaced(a, e) ==
    IF a = NoAssembly \/ (a.stream = e.stream /\ a.seq = e.seq)
    THEN {}
    ELSE {p \in DOMAIN log :
             /\ log[p].kind = "chunk" /\ IsLast(log[p]) /\ log[p].stream = a.stream
             /\ log[p].seq = a.seq \/ (a.stream = e.stream /\ log[p].seq = e.seq)}

Assemblies == [stream : Streams \cup {"none"}, seq : Nat, count : Nat, next : Nat]
Closings   == [id : Ids \cup {NoId}, after : {"nothing", "reopen", "record", "bookkeep", "sweep"},
               streams : SUBSET Streams]
Told       == [kind : {"opened", "message", "closed"}, id : Ids, seq : Nat]

RemoteTypeOK ==
    /\ log \in Logs
    /\ drops \in 0 .. MaxDrops
    /\ reader \in {"off", "idle", "opening", "first", "forwarding", "closing"}
    /\ pos \in 1 .. Len(log) + 1 /\ cursor \in 0 .. Len(log)
    /\ assembly \in [Clients -> Assemblies]
    /\ completedSeq \in [Streams -> Nat]
    /\ streamOf \in Seq(Streams)
    /\ clients \in [Streams -> Ids \cup {NoId}]
    /\ lastSeq \in [Streams -> Nat]
    /\ cancelled \subseteq Ids /\ ended \subseteq cancelled /\ background \subseteq cancelled
    /\ completed \in Seq(Streams) /\ got \in Streams \cup {NoStream}
    /\ orphans \in Nat
    /\ closing \in Closings /\ idle \subseteq Streams
    /\ events \in Seq(Told)
    /\ taken \in 0 .. Len(events) /\ Len(events) - taken <= Capacity
    /\ handled \subseteq 1 .. Len(log) /\ torn \subseteq 1 .. Len(log)

Init ==
    /\ log \in Logs
    /\ drops = 0
    /\ reader = "idle"
    /\ pos = 1
    /\ cursor = 0
    /\ assembly = [c \in Clients |-> NoAssembly]
    /\ completedSeq = [s \in Streams |-> 0]
    /\ clients = [s \in Streams |-> NoId]
    /\ lastSeq = [s \in Streams |-> 0]
    /\ streamOf = <<>>
    /\ cancelled = {}
    /\ ended = {}
    /\ completed = <<>>
    /\ got = NoStream
    /\ orphans = 0
    /\ closing = NotClosing
    /\ idle = {}
    /\ background = {}
    /\ events = <<>>
    /\ taken = 0
    /\ handled = {}
    /\ torn = {}
-----------------------------------------------------------------------------
\* close_client of a registered stream: the tracker forgets the connection and
\* cancels its token before it waits to announce that it is closed.  Then it
\* does what follows, the invalidation of some streams among it.
CloseClient(s, after, streams) ==
    /\ closing' = [id |-> clients[s], after |-> after, streams |-> streams]
    /\ reader' = "closing"
    /\ cancelled' = cancelled \cup {clients[s]}
    /\ clients' = [clients EXCEPT ![s] = NoId]

\* _invalidate_client_streams, and what the reader does after client_closed.
Invalidate(streams) ==
    /\ assembly' = [c \in Clients |->
            IF assembly[c].stream \in streams THEN NoAssembly ELSE assembly[c]]
    /\ completedSeq' = [s \in Streams |-> IF s \in streams THEN 0 ELSE completedSeq[s]]

\* Faulty variants, used only to confirm that the properties notice them, are
\* named Faulty... and precede the definition they vary.
FaultyRecordAhead ==
    /\ cursor' = pos + 1
    /\ pos' = pos + 1
    /\ reader' = "idle"
    /\ UNCHANGED <<log, drops>>

\* record_client_message_delivery, and the reader goes back to its loop.
RecordDelivery ==
    /\ cursor' = pos
    /\ pos' = pos + 1
    /\ reader' = "idle"
    /\ UNCHANGED <<log, drops>>

RecordChunk ==
    completedSeq' = IF Current.kind = "chunk"
                    THEN [completedSeq EXCEPT ![Current.stream] = Current.seq]
                    ELSE completedSeq

\* The reader receives a chunk that completes no message.
ReceiveChunk ==
    /\ reader = "idle" /\ pos <= Len(log)
    /\ LET e == Current
           c == ClientOf[e.stream] IN
       /\ e.kind = "chunk"
       /\ ~ Completes(assembly[c], completedSeq[e.stream], e)
       /\ assembly' = [assembly EXCEPT ![c] = Observe(@, completedSeq[e.stream], e)]
       /\ torn' = IF Dropped(assembly[c], completedSeq[e.stream], e)
                  THEN torn ELSE torn \cup Displaced(assembly[c], e)
       /\ handled' = IF IsLast(e) /\ ~ Registered(e.stream) THEN handled \cup {pos} ELSE handled
    /\ pos' = pos + 1
    /\ UNCHANGED <<log, drops, cursor, reader, completedSeq, trackerVars,
                   taskVars, closingVars, eventVars>>

\* An envelope that observe_client_message forwards.
Forwarded(e) ==
    \/ e.kind # "chunk"
    \/ Completes(assembly[ClientOf[e.stream]], completedSeq[e.stream], e)

FaultyDuplicateOffByOne(e) == Registered(e.stream) /\ lastSeq[e.stream] > e.seq

Duplicate(e) == Registered(e.stream) /\ lastSeq[e.stream] >= e.seq

\* handle_message of a message: it is forwarded to the stream's connection,
\* unless there is none or the connection has had it.
ReceiveMessage ==
    /\ reader = "idle" /\ pos <= Len(log)
    /\ LET e == Current
           c == ClientOf[e.stream] IN
       /\ e.kind \in {"message", "chunk"} /\ Forwarded(e)
       /\ assembly' = IF e.kind = "chunk" THEN [assembly EXCEPT ![c] = NoAssembly] ELSE assembly
       /\ torn' = IF e.kind = "chunk" THEN torn \cup Displaced(assembly[c], e) ELSE torn
       /\ IF Registered(e.stream) /\ ~ Duplicate(e)
          THEN /\ reader' = "forwarding"
               /\ UNCHANGED <<wireVars, handled, completedSeq>>
          ELSE /\ RecordDelivery
               /\ RecordChunk
               /\ handled' = IF Duplicate(e) THEN handled ELSE handled \cup {pos}
    /\ UNCHANGED <<trackerVars, taskVars, closingVars, eventVars>>

\* handle_message of an initialize request: an earlier connection of the stream
\* is closed first.
ReceiveInitialize ==
    /\ reader = "idle" /\ pos <= Len(log)
    /\ Current.kind = "initialize"
    /\ IF Registered(Current.stream)
       THEN CloseClient(Current.stream, "reopen", {})
       ELSE reader' = "opening" /\ UNCHANGED <<closing, cancelled, clients>>
    /\ UNCHANGED <<wireVars, fateVars, segmentVars, lastSeq, streamOf, ended, completed,
                   got, orphans, idle, eventVars>>

\* handle_message of client_closed.
ReceiveClosed ==
    /\ reader = "idle" /\ pos <= Len(log)
    /\ Current.kind = "closed"
    /\ IF Registered(Current.stream)
       THEN /\ CloseClient(Current.stream, "record", {Current.stream})
            /\ UNCHANGED <<wireVars, handled, segmentVars>>
       ELSE /\ RecordDelivery
            /\ Invalidate({Current.stream})
            /\ handled' = handled \cup {pos}
            /\ UNCHANGED <<closing, cancelled, clients>>
    /\ UNCHANGED <<torn, lastSeq, streamOf, ended, completed, got, orphans, idle, eventVars>>

\* The opened event finds room: the connection is registered and its outbound
\* task started, and the reader goes on to forward the initialize request.
PutOpened ==
    /\ reader = "opening" /\ Room
    /\ LET i == Len(streamOf) + 1
           s == Current.stream IN
       /\ events' = Append(events, Event("opened", i, 0))
       /\ streamOf' = Append(streamOf, s)
       /\ clients' = [clients EXCEPT ![s] = i]
       /\ lastSeq' = [lastSeq EXCEPT ![s] = 0]
    /\ reader' = "first"
    /\ UNCHANGED <<wireVars, fateVars, segmentVars, taskVars, closingVars, taken, background>>

\* A message finds room: delivery is recorded before the reader waits again.
PutMessage ==
    /\ reader \in {"first", "forwarding"} /\ Room
    /\ LET e == Current IN
       /\ events' = Append(events, Event("message", clients[e.stream], e.seq))
       /\ lastSeq' = [lastSeq EXCEPT ![e.stream] = e.seq]
    /\ RecordDelivery
    /\ RecordChunk
    /\ handled' = handled \cup {pos}
    /\ UNCHANGED <<torn, assembly, clients, streamOf, taskVars, closingVars, taken, background>>

\* The closed event finds room, and the reader does what follows.
PutClosed ==
    /\ reader = "closing" /\ Room
    /\ events' = Append(events, Event("closed", closing.id, 0))
    /\ CASE closing.after = "reopen" ->
              /\ reader' = "opening"
              /\ closing' = NotClosing
              /\ UNCHANGED <<wireVars, handled, segmentVars, clients, cancelled, got, idle>>
         [] closing.after = "record" ->
              /\ RecordDelivery
              /\ Invalidate(closing.streams)
              /\ handled' = handled \cup {pos}
              /\ closing' = NotClosing
              /\ UNCHANGED <<clients, cancelled, got, idle>>
         [] closing.after = "bookkeep" ->
              /\ reader' = "idle"
              /\ Invalidate(closing.streams)
              /\ got' = NoStream
              /\ closing' = NotClosing
              /\ UNCHANGED <<wireVars, handled, clients, cancelled, idle>>
         [] closing.after = "sweep" ->
              /\ IF idle = {}
                 THEN /\ reader' = "idle"
                      /\ Invalidate(closing.streams)
                      /\ closing' = NotClosing
                      /\ UNCHANGED <<clients, cancelled, idle>>
                 ELSE /\ \E s \in idle :
                            /\ CloseClient(s, "sweep", closing.streams)
                            /\ idle' = idle \ {s}
                      /\ UNCHANGED segmentVars
              /\ UNCHANGED <<wireVars, handled, got>>
    /\ UNCHANGED <<torn, lastSeq, streamOf, ended, completed, orphans, taken, background>>

\* The reader takes the stream whose outbound task has ended, and closes
\* whatever connection that stream has now.
Bookkeep ==
    /\ reader = "idle" /\ got # NoStream
    /\ IF Registered(got)
       THEN /\ CloseClient(got, "bookkeep", {got})
            /\ UNCHANGED <<segmentVars, got>>
       ELSE /\ Invalidate({got})
            /\ got' = NoStream
            /\ UNCHANGED <<reader, closing, cancelled, clients>>
    /\ UNCHANGED <<wireVars, fateVars, lastSeq, streamOf, ended, completed, orphans, idle, eventVars>>

\* close_expired_clients: any set of clients may have been silent for too long.
Sweep ==
    /\ reader = "idle"
    /\ \E expired \in SUBSET {s \in Streams : Registered(s)} : \E s \in expired :
          /\ CloseClient(s, "sweep", expired)
          /\ idle' = expired \ {s}
    /\ UNCHANGED <<wireVars, fateVars, segmentVars, lastSeq, streamOf, ended, completed,
                   got, orphans, eventVars>>
-----------------------------------------------------------------------------
\* The reader ends where it stands: the websocket failed, remote control was
\* disabled, or an event waited five seconds for room (not a closed event).
\* The initialize request it could not forward takes its connection back; the
\* closed event it could not put is lost.  The completed.get() task that
\* bookkeep_join_set was waiting for is left behind.
ReaderEnds ==
    /\ reader # "off" /\ drops < MaxDrops
    /\ drops' = drops + 1
    /\ reader' = "off"
    /\ closing' = NotClosing /\ idle' = {}
    /\ IF reader = "first"
       THEN LET s == Current.stream IN
            /\ clients' = [clients EXCEPT ![s] = NoId]
            /\ cancelled' = cancelled \cup {clients[s]}
            /\ background' = background \cup {clients[s]}
       ELSE UNCHANGED <<clients, cancelled, background>>
    /\ torn' = IF reader = "forwarding" /\ Current.kind = "chunk" THEN torn \cup {pos} ELSE torn
    /\ got' = NoStream
    /\ IF got # NoStream
       THEN UNCHANGED <<completed, orphans>>
       ELSE IF completed = <<>>
            THEN orphans' = orphans + 1 /\ UNCHANGED completed
            ELSE completed' = Tail(completed) /\ UNCHANGED orphans
    /\ UNCHANGED <<log, pos, cursor, handled, segmentVars, lastSeq, streamOf, ended,
                   events, taken>>

\* A new websocket: the backend starts again from a position of its choice,
\* the one after the cursor at the latest.
Reconnect ==
    /\ reader = "off"
    /\ reader' = "idle"
    /\ pos' \in 1 .. cursor + 1
    /\ UNCHANGED <<log, drops, cursor, fateVars, segmentVars, trackerVars, taskVars,
                   closingVars, eventVars>>

FaultyTaskEndsUnreported(i) ==
    /\ i \in cancelled \ ended
    /\ ended' = ended \cup {i}
    /\ UNCHANGED <<wireVars, fateVars, reader, segmentVars, trackerVars, cancelled, completed,
                   got, orphans, closingVars, eventVars>>

\* The outbound task of a connection whose token is cancelled ends, and its
\* stream is put in the queue of completed ones; an abandoned get() is first
\* in line for it.
TaskEnds(i) ==
    /\ i \in cancelled \ ended
    /\ ended' = ended \cup {i}
    /\ IF orphans > 0
       THEN orphans' = orphans - 1 /\ UNCHANGED completed
       ELSE completed' = Append(completed, streamOf[i]) /\ UNCHANGED orphans
    /\ UNCHANGED <<wireVars, fateVars, reader, segmentVars, trackerVars, cancelled, got,
                   closingVars, eventVars>>

\* bookkeep_join_set has a completed stream.
BookkeepGets ==
    /\ reader # "off" /\ got = NoStream /\ completed # <<>>
    /\ got' = Head(completed)
    /\ completed' = Tail(completed)
    /\ UNCHANGED <<wireVars, fateVars, reader, segmentVars, trackerVars, cancelled, ended,
                   orphans, closingVars, eventVars>>

\* The background task announces a connection closed.
PutClosedLater(i) ==
    /\ i \in background /\ Room
    /\ background' = background \ {i}
    /\ events' = Append(events, Event("closed", i, 0))
    /\ UNCHANGED <<wireVars, fateVars, reader, segmentVars, trackerVars, taskVars,
                   closingVars, taken>>

\* The app server takes the next transport event.
AppTakes ==
    /\ taken < Len(events)
    /\ taken' = taken + 1
    /\ UNCHANGED <<wireVars, fateVars, reader, segmentVars, trackerVars, taskVars,
                   closingVars, events, background>>

\* The app server disconnects a connection it has been told of.
AppDisconnects(i) ==
    /\ i \in Ids \ cancelled
    /\ \E j \in 1 .. taken : events[j] = Event("opened", i, 0)
    /\ cancelled' = cancelled \cup {i}
    /\ UNCHANGED <<wireVars, fateVars, reader, segmentVars, trackerVars, ended, completed,
                   got, orphans, closingVars, eventVars>>
-----------------------------------------------------------------------------
ReaderStep ==
    \/ ReceiveChunk \/ ReceiveMessage \/ ReceiveInitialize \/ ReceiveClosed
    \/ PutOpened \/ PutMessage \/ PutClosed

Next ==
    \/ ReaderStep \/ Bookkeep \/ Sweep \/ ReaderEnds \/ Reconnect
    \/ BookkeepGets \/ AppTakes
    \/ \E i \in Ids : TaskEnds(i) \/ PutClosedLater(i) \/ AppDisconnects(i)

Spec == Init /\ [][Next]_vars

\* The event loop runs every task that can run, and the app server goes on
\* taking events.  Nothing is assumed of the network, the clients or the clock.
Fairness ==
    /\ WF_vars(ReaderStep) /\ WF_vars(Bookkeep) /\ WF_vars(BookkeepGets)
    /\ WF_vars(AppTakes)
    /\ WF_vars(\E i \in Ids : TaskEnds(i))
    /\ WF_vars(\E i \in Ids : PutClosedLater(i))

FairSpec == Spec /\ Fairness
-----------------------------------------------------------------------------
\* What the app server is told of one virtual connection is a conversation: it
\* is opened first, closed at most once and last, and its messages come in the
\* order of their sequence ids, each once, whatever was sent again or
\* interrupted in between.
Conversations ==
    /\ \A i \in Ids : \E n \in DOMAIN events : events[n] = Event("opened", i, 0)
    /\ \A m, n \in DOMAIN events :
          m < n /\ events[m].id = events[n].id =>
             /\ events[m].kind # "closed" /\ events[n].kind # "opened"
             /\ events[m].kind = "message" /\ events[n].kind = "message"
                   => events[m].seq < events[n].seq

\* The subscribe cursor never stands past an envelope that was neither
\* delivered nor without a connection to go to, so that a new websocket which
\* starts there misses nothing.  The exception the code has is a message put
\* together from chunks that was interrupted in its delivery, or whose assembly
\* met a chunk of another message of its client: its chunks are gone, and the
\* cursor may be past the first of them.
CursorLosesNothing ==
    \A p \in 1 .. cursor : IsLast(log[p]) => p \in handled \cup torn

\* As long as the websocket is not lost, a connection whose token is cancelled
\* is announced closed, or somebody still has to announce it: a background
\* task, the reader that closes it, or the reader once it learns from the
\* outbound task of the connection, which has not ended or has reported.
DisconnectIsPending ==
    drops = 0 => \A i \in cancelled :
       \/ i \in background \/ closing.id = i
       \/ \E n \in DOMAIN events : events[n] = Event("closed", i, 0)
       \/ /\ clients[streamOf[i]] = i
          /\ i \in ended => streamOf[i] = got \/ \E n \in DOMAIN completed : completed[n] = streamOf[i]

\* As long as the websocket is not lost, the app server is told that a
\* connection is closed after it has disconnected it, or anyone else has
\* cancelled its token.
DisconnectIsAnnounced ==
    \A i \in Watched :
       (i \in cancelled) ~> (drops > 0 \/ \E j \in 1 .. Len(events) : events[j] = Event("closed", i, 0))
=============================================================================
