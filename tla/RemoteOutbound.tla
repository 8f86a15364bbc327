--------------------------- MODULE RemoteOutbound ---------------------------
(***************************************************************************)
(* The outbound side of remote control: the events of all client streams   *)
(* pass through one queue to the writer of the websocket, which numbers    *)
(* them per stream, splits what is too long for one envelope and keeps     *)
(* every envelope until its client acknowledges it; a new websocket starts *)
(* with all that is kept (_run_server_writer, BoundedOutboundBuffer and    *)
(* record_client_message_delivery of remote_control/websocket.py, and      *)
(* split_server_envelope_for_transport of segment.py).                     *)
(*                                                                         *)
(* The clients are external.  A client takes the envelopes of its stream   *)
(* in order, passes over those it has seen, and acknowledges any that it   *)
(* has taken, late or twice.  The state lock is never held across a        *)
(* suspension, so that each stretch of the writer is one action.           *)
(***************************************************************************)
EXTENDS Integers, Sequences, SequencesExt

CONSTANTS Streams,    \* client streams
          Patient,    \* those whose client goes on reading and acknowledging
          Capacity,   \* CHANNEL_CAPACITY: of the queue and of the buffer
          Parts,      \* numbers of envelopes an event may be split into
          MaxEvents,  \* bound on the events of each stream
          MaxDrops,   \* bound on lost websockets
          NoEvent

ASSUME OutboundAssumption ==
    /\ IsFiniteSet(Streams) /\ Patient \subseteq Streams
    /\ Capacity \in Nat \ {0} /\ Parts \subseteq Nat
    /\ MaxEvents \in Nat /\ MaxDrops \in Nat
    /\ NoEvent \notin Streams \X Nat

VARIABLES
    emitted,    \* how many events each stream has put in the queue
    queue,      \* server_event_rx
    writer,     \* where _run_server_writer stands
    current,    \* the event in its hands (queued)
    unsent,     \* envelopes of each stream it has still to send
    numbered,   \* per stream, the event of each seq_id and its envelopes
    buffer,     \* outbound_buffer
    flight,     \* envelopes sent and not yet read by the client
    got,        \* envelopes the client has taken
    written,    \* events whose write_complete_tx is set
    torn,       \* events whose sending was broken off
    lost,       \* events that were dropped with the writer that held them
    drops       \* websockets lost so far

writerVars == <<writer, current, unsent>>
clientVars == <<flight, got>>
fateVars   == <<written, torn, lost>>
vars == <<emitted, queue, writerVars, numbered, buffer, clientVars, fateVars, drops>>

Events    == Streams \X (1 .. MaxEvents)
Envelopes == [seq : Nat, segment : Nat]

OutboundTypeOK ==
    /\ emitted \in [Streams -> 0 .. MaxEvents]
    /\ queue \in Seq(Events) /\ Len(queue) <= Capacity
    /\ writer \in {"down", "polling", "sending"}
    /\ current \in Events \cup {NoEvent}
    /\ unsent \in [Streams -> Seq(Envelopes)]
    /\ numbered \in [Streams -> Seq([event : 1 .. MaxEvents, parts : Parts])]
    /\ buffer \in [Streams -> Seq(Envelopes)]
    /\ flight \in [Streams -> Seq(Envelopes)]
    /\ got \in [Streams -> Seq(Envelopes)]
    /\ written \subseteq Events /\ torn \subseteq Events /\ lost \subseteq Events
    /\ drops \in 0 .. MaxDrops

Init ==
    /\ emitted = [s \in Streams |-> 0]
    /\ queue = <<>>
    /\ writer = "down" /\ current = NoEvent
    /\ unsent = [s \in Streams |-> <<>>]
    /\ numbered = [s \in Streams |-> <<>>]
    /\ buffer = [s \in Streams |-> <<>>]
    /\ flight = [s \in Streams |-> <<>>] /\ got = [s \in Streams |-> <<>>]
    /\ written = {} /\ torn = {} /\ lost = {}
    /\ drops = 0
-----------------------------------------------------------------------------
Buffered(streams) == MapThenSumSet(LAMBDA s : Len(buffer[s]), streams)
used == Buffered(Streams)

\* The order of cursors, which are pairs of a seq_id and a segment id.
AtMost(e, f) == e.seq < f.seq \/ (e.seq = f.seq /\ e.segment <= f.segment)

\* What is left of the envelopes when e is acknowledged.
Retained(envelopes, e) ==
    LET kept[n \in 0 .. Len(envelopes)] ==
            IF n = 0 THEN <<>>
            ELSE IF AtMost(envelopes[n], e) THEN kept[n - 1]
                 ELSE Append(kept[n - 1], envelopes[n])
    IN  kept[Len(envelopes)]

Segments(seq, parts) == [n \in 1 .. parts |-> [seq |-> seq, segment |-> n - 1]]

AllSent == \A s \in Streams : unsent[s] = <<>>

\* The outbound task of a stream finds room in the queue for its next event.
Emit(s) ==
    /\ emitted[s] < MaxEvents /\ Len(queue) < Capacity
    /\ emitted' = [emitted EXCEPT ![s] = @ + 1]
    /\ queue' = Append(queue, <<s, emitted[s] + 1>>)
    /\ UNCHANGED <<writerVars, numbered, buffer, clientVars, fateVars, drops>>

\* A new websocket: the writer takes note of all that is buffered.  The code
\* goes through it stream by stream; here the streams may be mixed.
Connect ==
    /\ writer = "down"
    /\ writer' = "sending"
    /\ unsent' = buffer
    /\ UNCHANGED <<emitted, queue, current, numbered, buffer, clientVars, fateVars, drops>>

Send(s) ==
    /\ writer = "sending" /\ unsent[s] # <<>>
    /\ unsent' = [unsent EXCEPT ![s] = Tail(@)]
    /\ flight' = [flight EXCEPT ![s] = Append(@, Head(unsent[s]))]
    /\ UNCHANGED <<emitted, queue, writer, current, numbered, buffer, got, fateVars, drops>>

\* The last send of the event has returned.
Complete ==
    /\ writer = "sending" /\ AllSent /\ current # NoEvent
    /\ written' = written \cup {current}
    /\ current' = NoEvent
    /\ UNCHANGED <<emitted, queue, writer, unsent, numbered, buffer, clientVars, torn, lost,
                   drops>>

Take ==
    /\ writer = "sending" /\ AllSent /\ current = NoEvent
    /\ queue # <<>>
    /\ current' = Head(queue) /\ queue' = Tail(queue)
    /\ writer' = "polling"
    /\ UNCHANGED <<emitted, unsent, numbered, buffer, clientVars, fateVars, drops>>

\* There is room for one more envelope in the buffer: the event gets the next
\* seq_id of its stream, and all its segments enter the buffer at once.  A
\* message that is too long is split into none.
Number(parts) ==
    /\ writer = "polling" /\ used < Capacity
    /\ LET s   == current[1]
           seq == Len(numbered[s]) + 1
           new == Segments(seq, parts)
       IN  /\ numbered' = [numbered EXCEPT ![s] = Append(@, [event |-> current[2],
                                                             parts |-> parts])]
           /\ buffer' = [buffer EXCEPT ![s] = @ \o new]
           /\ unsent' = [unsent EXCEPT ![s] = new]
    /\ writer' = "sending"
    /\ UNCHANGED <<emitted, queue, current, clientVars, fateVars, drops>>

\* Faulty variants, used only to confirm that the properties notice them, are
\* named Faulty... and precede the definition they vary.
FaultyDropRequeues ==
    /\ writer # "down" /\ drops < MaxDrops
    /\ drops' = drops + 1
    /\ queue' = IF writer = "polling" THEN Append(queue, current) ELSE queue
    /\ lost' = lost
    /\ torn' = IF writer = "sending" /\ current # NoEvent THEN torn \cup {current} ELSE torn
    /\ writer' = "down" /\ current' = NoEvent
    /\ unsent' = [s \in Streams |-> <<>>]
    /\ flight' = [s \in Streams |-> <<>>]
    /\ UNCHANGED <<emitted, numbered, buffer, got, written>>

\* The websocket is lost, a send fails, or remote control is disabled: the
\* writer ends, and with it the event it holds.
Drop ==
    /\ writer # "down" /\ drops < MaxDrops
    /\ drops' = drops + 1
    /\ lost' = IF writer = "polling" THEN lost \cup {current} ELSE lost
    /\ torn' = IF writer = "sending" /\ current # NoEvent THEN torn \cup {current} ELSE torn
    /\ writer' = "down" /\ current' = NoEvent
    /\ unsent' = [s \in Streams |-> <<>>]
    /\ flight' = [s \in Streams |-> <<>>]
    /\ UNCHANGED <<emitted, queue, numbered, buffer, got, written>>

\* The client reads an envelope, and takes it unless it has seen it.
Read(s) ==
    LET e    == Head(flight[s])
        seen == got[s] # <<>> /\ AtMost(e, Last(got[s]))
    IN  /\ flight[s] # <<>>
        /\ flight' = [flight EXCEPT ![s] = Tail(@)]
        /\ got' = IF seen THEN got ELSE [got EXCEPT ![s] = Append(@, e)]
        /\ UNCHANGED <<emitted, queue, writerVars, numbered, buffer, fateVars, drops>>

FaultyAckOneMore(s, e) ==
    /\ writer # "down"
    /\ buffer' = [buffer EXCEPT ![s] = Retained(@, [e EXCEPT !.segment = @ + 1])]
    /\ UNCHANGED <<emitted, queue, writerVars, numbered, clientVars, fateVars, drops>>

FaultyAckStrictly(s, e) ==
    /\ writer # "down"
    /\ buffer' = [buffer EXCEPT ![s] = Retained(@, [e EXCEPT !.segment = @ - 1])]
    /\ UNCHANGED <<emitted, queue, writerVars, numbered, clientVars, fateVars, drops>>

\* The reader records an acknowledgement.  One without a segment id counts as
\* one of the last segment.
Ack(s, e) ==
    /\ writer # "down"
    /\ buffer' = [buffer EXCEPT ![s] = Retained(@, e)]
    /\ UNCHANGED <<emitted, queue, writerVars, numbered, clientVars, fateVars, drops>>

Next ==
    \/ Connect \/ Complete \/ Take \/ Drop
    \/ \E s \in Streams : Emit(s) \/ Send(s) \/ Read(s)
    \/ \E parts \in Parts : Number(parts)
    \/ \E s \in Streams : \E e \in ToSet(got[s]) : Ack(s, e)

Spec == Init /\ [][Next]_vars

\* The event loop runs a writer that can go on, the connection is made again
\* when it is lost, and a patient client reads and acknowledges what it has.
Fairness ==
    /\ WF_vars(Connect) /\ WF_vars(Complete) /\ WF_vars(Take)
    /\ WF_vars(\E parts \in Parts : Number(parts))
    /\ \A s \in Streams : WF_vars(Send(s))
    /\ \A s \in Patient : WF_vars(Read(s)) /\ WF_vars(got[s] # <<>> /\ Ack(s, Last(got[s])))

FairSpec == Spec /\ Fairness
-----------------------------------------------------------------------------
\* Every envelope ever made for a stream.
Made(s) == UNION {ToSet(Segments(n, numbered[s][n].parts)) : n \in DOMAIN numbered[s]}

InCursorOrder(envelopes) ==
    \A m, n \in DOMAIN envelopes : m < n => ~ AtMost(envelopes[n], envelopes[m])

\* An envelope is forgotten only once the client has it, and the client gets
\* the envelopes of its stream in order, each once and without a gap, however
\* often the websocket is lost and whatever is acknowledged late or again.
\* What is kept are the latest envelopes, in order.
KeptUntilTaken ==
    \A s \in Streams :
        /\ ToSet(got[s]) \cup ToSet(buffer[s]) = Made(s)
        /\ InCursorOrder(got[s]) /\ InCursorOrder(buffer[s])
        /\ \A e \in ToSet(got[s]), f \in Made(s) : AtMost(f, e) => f \in ToSet(got[s])
        /\ \A e \in ToSet(buffer[s]), f \in Made(s) : AtMost(e, f) => f \in ToSet(buffer[s])

\* The events of a stream that have a number, that the writer holds without
\* one, and that are in the queue.
Numbered(s) == {numbered[s][n].event : n \in DOMAIN numbered[s]}
Held(s)     == {k \in 1 .. MaxEvents : writer = "polling" /\ current = <<s, k>>}
Queued(s)   == {k \in 1 .. MaxEvents : <<s, k>> \in ToSet(queue)}

\* The events of a stream are numbered in the order in which they were put in
\* the queue, and one that is in the queue no more has its number, is held by
\* the writer, or was held by a writer whose websocket was lost: of those
\* there is at most one for each lost websocket.  What is reported written
\* has its number.
NumberedInOrder ==
    /\ Cardinality(lost) <= drops
    /\ \A s \in Streams :
        /\ \A m, n \in DOMAIN numbered[s] : m < n => numbered[s][m].event < numbered[s][n].event
        /\ \A m, n \in DOMAIN queue :
              m < n /\ queue[m][1] = s /\ queue[n][1] = s => queue[m][2] < queue[n][2]
        /\ \A j \in Numbered(s), k \in Held(s) \cup Queued(s) : j < k
        /\ \A j \in Held(s), k \in Queued(s) : j < k
        /\ Numbered(s) \cup Held(s) \cup Queued(s) \cup {k \in 1 .. MaxEvents : <<s, k>> \in lost}
              = 1 .. emitted[s]
        /\ \A k \in 1 .. MaxEvents : <<s, k>> \in written => k \in Numbered(s)

\* The client has all of the event, which may be nothing.
Arrived(s, k) ==
    \E n \in DOMAIN numbered[s] :
        /\ numbered[s][n].event = k
        /\ ToSet(Segments(n, numbered[s][n].parts)) \subseteq ToSet(got[s])

\* The buffer is full of envelopes that nobody is sure to acknowledge.
HeldUp == writer = "polling" /\ Buffered(Streams \ Patient) >= Capacity

\* An event for a patient client arrives and is reported written, but for the
\* event a writer held when its websocket was lost: it does not arrive if it
\* had no number, and is not reported if it had.  Or the writer waits for
\* ever for room that only the clients of other streams could make.
ArrivesUnlessHeldUp ==
    \/ <>[]HeldUp
    \/ \A s \in Patient : \A k \in 1 .. MaxEvents :
           emitted[s] >= k ~>
               \/ <<s, k>> \in lost
               \/ Arrived(s, k) /\ <<s, k>> \in written \cup torn
=============================================================================
