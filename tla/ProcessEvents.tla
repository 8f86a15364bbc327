---------------------------- MODULE ProcessEvents ----------------------------
(***************************************************************************)
(* The events of one process on their way to a remote client: the          *)
(* notifications of ProcessOutput, the client's session state that puts    *)
(* them in order (ClientSessionState and the reader loop of                *)
(* ExecServerClient, pycodex/exec_server/client/__init__.py), and the      *)
(* bounded event log with one subscriber (ExecProcessEventLog and          *)
(* ExecProcessEventReceiver, pycodex/exec_server/process.py).              *)
(*                                                                         *)
(* The client is written for notifications that arrive out of order; here  *)
(* they arrive in any order, each once.  The log is bounded by events and  *)
(* by bytes; chunks are at most 4096 bytes and both bounds stand for 256   *)
(* of them, so the number of events is the bound that is met.              *)
(*                                                                         *)
(* The server puts notifications on the transport only when it has served  *)
(* a message of the client (run_connection, exec_server/server/            *)
(* processor.py): until the client sends one, they wait at the server.     *)
(***************************************************************************)
EXTENDS ProcessOutput, SequencesExt

CONSTANT EventCapacity     \* events the log retains and a subscriber may lag

ASSUME CapacityAssumption == EventCapacity \in Nat \ {0}

VARIABLES
    link,            \* "up" until the reader loop handles the disconnection
    moved,           \* notifications the server has put on the transport
    arrived,         \* indices of the notifications the reader loop handled
    routed,          \* the process id is in the client's sessions
    lastPublished,   \* last_published_seq
    pending,         \* pending_events
    log,             \* the retained events
    subscribed,      \* whether the subscriber has come
    replay,          \* its replayed events
    live,            \* its live queue
    published,       \* every event the session published
    received         \* every event the subscriber received

sessionVars    == <<link, moved, arrived, routed, lastPublished, pending, published>>
subscriberVars == <<log, subscribed, replay, live, received>>
eventVars      == <<vars, sessionVars, subscriberVars>>

Failed == [kind |-> "failed", seq |-> 0]

EventsTypeOK ==
    /\ link \in {"up", "lost"}
    /\ moved \in 0 .. Len(sent)
    /\ arrived \subseteq 1 .. moved
    /\ routed \in BOOLEAN /\ subscribed \in BOOLEAN
    /\ lastPublished \in Nat
    /\ pending \subseteq Events
    /\ \A s \in {log, replay, live, published, received} : s \in Seq(Events \cup {Failed})
    /\ Len(log) <= EventCapacity /\ Len(live) <= EventCapacity

EventsInit ==
    /\ Init
    /\ link = "up"
    /\ moved = 0
    /\ arrived = {}
    /\ routed = TRUE
    /\ lastPublished = 0
    /\ pending = {}
    /\ log = <<>>
    /\ subscribed = FALSE
    /\ replay = <<>>
    /\ live = <<>>
    /\ published = <<>>
    /\ received = <<>>
-----------------------------------------------------------------------------
\* Faulty variants, used only to confirm that the properties notice them, are
\* named Faulty... and precede the definition they vary.
\* Both the log and a live queue drop their oldest events when they are full.
KeepLatest(events) ==
    SubSeq(events, Max({1, Len(events) - EventCapacity + 1}), Len(events))

\* ExecProcessEventLog.publish, for each of these events in turn.
Publish(events) ==
    /\ published' = published \o events
    /\ log' = KeepLatest(log \o events)
    /\ live' = IF subscribed THEN KeepLatest(live \o events) ELSE live

FaultyReadyOne(waiting) ==
    [i \in 1 .. Cardinality({e \in waiting : e.seq = lastPublished + 1}) |->
        CHOOSE e \in waiting : e.seq = lastPublished + 1]

\* The events that follow the last published one, up to the first that has
\* not arrived.
Ready(waiting) ==
    LET here(n) == \E e \in waiting : e.seq = lastPublished + n
        count   == CHOOSE k \in 0 .. Cardinality(waiting) :
                      (\A n \in 1 .. k : here(n)) /\ ~ here(k + 1)
    IN  [n \in 1 .. count |-> CHOOSE e \in waiting : e.seq = lastPublished + n]
-----------------------------------------------------------------------------
\* The server has served a message of this client, whatever it asked for, and
\* puts what was notified by then on the transport.
Serve ==
    /\ link = "up"
    /\ moved' = Len(sent)
    /\ UNCHANGED <<link, arrived, routed, lastPublished, pending, published>>
    /\ UNCHANGED <<subscriberVars, vars>>

\* The reader loop handles a notification: publish_ordered_event, and the
\* session is dropped once its closed event is published.
Arrive(i) ==
    /\ link = "up"
    /\ i <= moved /\ i \notin arrived
    /\ arrived' = arrived \cup {i}
    /\ IF routed /\ sent[i].seq > lastPublished
         THEN LET waiting == pending \cup {sent[i]}
                  ready   == Ready(waiting)
              IN  /\ pending' = waiting \ Range(ready)
                  /\ lastPublished' = lastPublished + Len(ready)
                  /\ routed' = (\A n \in DOMAIN ready : ready[n].kind # "closed")
                  /\ Publish(ready)
         ELSE UNCHANGED <<routed, lastPublished, pending, published, log, live>>
    /\ UNCHANGED <<link, moved, subscribed, replay, received, vars>>

FaultyDisconnectAgain ==
    /\ link = "up"
    /\ link' = "lost"
    /\ Publish(<<Failed>>)
    /\ routed' = FALSE
    /\ UNCHANGED <<moved, arrived, lastPublished, pending, subscribed, replay, received, vars>>

\* The reader loop handles the disconnection and ends: a session that is still
\* routed publishes its failure.
Disconnect ==
    /\ link = "up"
    /\ link' = "lost"
    /\ IF routed THEN Publish(<<Failed>>) ELSE UNCHANGED <<published, log, live>>
    /\ routed' = FALSE
    /\ UNCHANGED <<moved, arrived, lastPublished, pending, subscribed, replay, received, vars>>

\* unregister_session, when the caller drops its process handle.
Unregister ==
    /\ routed
    /\ routed' = FALSE
    /\ UNCHANGED <<link, moved, arrived, lastPublished, pending, published>>
    /\ UNCHANGED <<subscriberVars, vars>>

Subscribe ==
    /\ ~ subscribed
    /\ subscribed' = TRUE
    /\ replay' = log
    /\ UNCHANGED <<sessionVars, log, live, received, vars>>

FaultyRecvLiveFirst ==
    /\ subscribed
    /\ \/ /\ live # <<>>
          /\ received' = Append(received, Head(live))
          /\ live' = Tail(live)
          /\ UNCHANGED replay
       \/ /\ live = <<>> /\ replay # <<>>
          /\ received' = Append(received, Head(replay))
          /\ replay' = Tail(replay)
          /\ UNCHANGED live
    /\ UNCHANGED <<sessionVars, log, subscribed, vars>>

\* recv: the replay first, then the live queue.
Recv ==
    /\ subscribed
    /\ \/ /\ replay # <<>>
          /\ received' = Append(received, Head(replay))
          /\ replay' = Tail(replay)
          /\ UNCHANGED live
       \/ /\ replay = <<>> /\ live # <<>>
          /\ received' = Append(received, Head(live))
          /\ live' = Tail(live)
          /\ UNCHANGED replay
    /\ UNCHANGED <<sessionVars, log, subscribed, vars>>
-----------------------------------------------------------------------------
\* The process, and another client of the server that reads it page by page.
ServerStep == Next /\ UNCHANGED <<sessionVars, subscriberVars>>

EventsNext == ServerStep \/ Serve \/ (\E i \in DOMAIN sent : Arrive(i))
              \/ Disconnect \/ Unregister \/ Subscribe \/ Recv

\* A notification that was put on the transport arrives while the connection is
\* up.  Nothing is assumed of Serve: a client that only awaits its events sends
\* nothing, and what waits at the server is not moved.  Connections need not
\* fail and a subscriber need not receive.
EventsSpec     == EventsInit /\ [][EventsNext]_eventVars
EventsFairSpec ==
    /\ EventsSpec
    /\ \A i \in 1 .. MaxChunks + 2 : WF_eventVars(Arrive(i))
-----------------------------------------------------------------------------
(***************************************************************************)
(* Properties                                                              *)
(***************************************************************************)
Ended(events) == events # <<>> /\ Last(events).kind \in {"closed", "failed"}

\* Whatever the order of arrival, the session publishes the server's events in
\* the server's order, without a gap, and one end at most: closed and failed
\* exclude each other and nothing follows them.
PublishedInOrder ==
    /\ \A n \in 1 .. lastPublished : published[n] = sent[n]
    /\ \A n \in DOMAIN published : n < Len(published) => published[n].kind \notin {"closed", "failed"}
    /\ Len(published) = lastPublished + (IF Ended(published) /\ Last(published) = Failed THEN 1 ELSE 0)

\* A subscriber that does not lag behind gets every event exactly once, also
\* when it comes in mid-stream.  One that lags loses events but sees the others
\* in order, once, and the newest one is always still ahead of it.
Stream == received \o replay \o live
SubscriberInOrder ==
    subscribed =>
        /\ Len(published) <= EventCapacity => Stream = published
        /\ \A m, n \in DOMAIN Stream : m < n /\ Stream[n] # Failed => Stream[m].seq < Stream[n].seq
        /\ published # <<>> => Last(Stream) = Last(published)

\* A process that closes ends its session at the client, unless the connection
\* or the caller ends it first, once the server has served a message of the
\* client after the close.  The premise cannot be dropped: a client that has
\* sent its last message and only awaits subscribe_events().recv(), as receive
\* of rmcp_client/executor_process_transport.py does, is never told.
CloseReachesClient == closed /\ routed /\ moved = Len(sent) ~> ~ routed
=============================================================================
