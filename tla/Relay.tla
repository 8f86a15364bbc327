-------------------------------- MODULE Relay --------------------------------
(***************************************************************************)
(* The environment's end of the exec-server relay: one websocket carries   *)
(* the frames of many virtual streams, each of which is a connection of    *)
(* the exec server (run_multiplexed_environment, _spawn_virtual_stream,    *)
(* _RelayVirtualStream and _relay_virtual_stream_writer of                 *)
(* pycodex/exec_server/relay.py, with run_connection of                    *)
(* server/processor.py behind each stream).                                *)
(*                                                                         *)
(* The loop has a task that receives from the websocket and one that takes *)
(* the next frame to send (pulled); a pulled frame goes first.  A stream   *)
(* that was reset may be spawned again under its name, so that what the    *)
(* loop spawns is numbered and name tells the stream.  Messages of a       *)
(* stream are numbered as they come, and as its processor makes them.      *)
(***************************************************************************)
EXTENDS Integers, Sequences, SequencesExt

CONSTANTS Streams,       \* stream ids a harness uses
          Capacity,      \* CHANNEL_CAPACITY, with what a task holds in its hand
          MaxMessages,   \* bound on the messages of all streams
          MaxSpawned,    \* bound on the virtual streams that are spawned
          Notices        \* numbers of notifications made while a message is served

ASSUME BoundsAssumption ==
    /\ IsFiniteSet(Streams)
    /\ Capacity \in Nat \ {0} /\ Notices \subseteq Nat
    /\ MaxMessages \in Nat /\ MaxSpawned \in Nat

VARIABLES
    env,           \* where run_multiplexed_environment stands
    table,         \* streams: the virtual stream of each id, 0 if there is none
    victims,       \* virtual streams the loop still has to disconnect
    pulled,        \* the head of physical is in the hands of the loop
    physical,      \* physical_outgoing_tx
    wire,          \* frames of each virtual stream sent on the websocket
    received,      \* messages received for each stream
    name,          \* stream id of each virtual stream
    inbox,         \* incoming_tx of each virtual stream
    delivered,     \* everything ever put on it
    disconnected,  \* virtual streams whose disconnected event is set
    proc,          \* where run_connection of each virtual stream stands
    owed,          \* messages it still has to put on its outgoing queue
    made,          \* messages it has put there
    outbox,        \* json_outgoing_tx
    nextSeq        \* next_seq of the stream's writer

loopVars      == <<env, table, victims, received, name>>
transportVars == <<pulled, physical, wire>>
inVars        == <<inbox, delivered, disconnected>>
outVars       == <<owed, made, outbox, nextSeq>>
vars          == <<loopVars, transportVars, inVars, proc, outVars>>

Virtual == 1 .. MaxSpawned
Gone    == 0          \* the "disconnected" event among the messages
Frames  == [stream : Virtual, seq : Nat, number : Nat]

RelayTypeOK ==
    /\ env \in {"up", "resetting", "closing", "over"}
    /\ table \in [Streams -> Virtual \cup {0}]
    /\ victims \in Seq(Virtual)
    /\ pulled \in BOOLEAN
    /\ physical \in Seq(Frames) /\ Len(physical) <= Capacity
    /\ wire \in [Virtual -> Seq(Frames)]
    /\ received \in [Streams -> Nat]
    /\ name \in Seq(Streams) /\ Len(name) <= MaxSpawned
    /\ inbox \in [Virtual -> Seq(Nat)] /\ delivered \in [Virtual -> Seq(Nat)]
    /\ disconnected \subseteq Virtual
    /\ proc \in [Virtual -> {"unborn", "waiting", "routing", "draining", "stopping",
                             "joining", "closed"}]
    /\ owed \in [Virtual -> Nat]
    /\ made \in [Virtual -> Nat] /\ nextSeq \in [Virtual -> Nat]
    /\ outbox \in [Virtual -> Seq(Nat)]

Init ==
    /\ env = "up"
    /\ table = [s \in Streams |-> 0]
    /\ victims = <<>>
    /\ pulled = FALSE /\ physical = <<>>
    /\ wire = [v \in Virtual |-> <<>>]
    /\ received = [s \in Streams |-> 0]
    /\ name = <<>>
    /\ inbox = [v \in Virtual |-> <<>>] /\ delivered = [v \in Virtual |-> <<>>]
    /\ disconnected = {}
    /\ proc = [v \in Virtual |-> "unborn"]
    /\ owed = [v \in Virtual |-> 0] /\ made = [v \in Virtual |-> 0]
    /\ outbox = [v \in Virtual |-> <<>>]
    /\ nextSeq = [v \in Virtual |-> 0]
-----------------------------------------------------------------------------
Full(queue) == Len(queue) >= Capacity

\* _RelayVirtualStream.disconnect for each of these in turn.  The event is put
\* with await: the loop stands at the first one whose queue is full.
Disconnect(list, during, afterwards) ==
    LET through == {n \in 1 .. Len(list) : \A m \in 1 .. n : ~ Full(inbox[list[m]])}
        told    == {list[n] : n \in through}
        put(queues) == [v \in Virtual |-> IF v \in told THEN Append(queues[v], Gone)
                                                        ELSE queues[v]]
    IN  /\ inbox' = put(inbox)
        /\ delivered' = put(delivered)
        /\ victims' = SubSeq(list, Cardinality(through) + 1, Len(list))
        /\ disconnected' = disconnected \cup told \cup
                              (IF victims' = <<>> THEN {} ELSE {Head(victims')})
        /\ env' = IF victims' = <<>> THEN afterwards ELSE during

\* The loop waits for the websocket and for a frame to send: it looks at what
\* it received when it has nothing to send.
Receives == env = "up" /\ ~ pulled

\* Faulty variants, used only to confirm that the properties notice them, are
\* named Faulty... and precede the definition they vary.
FaultyOverflowKeepsRoute(s) ==
    LET v == table[s]
    IN  /\ Receives
        /\ v # 0 /\ Full(inbox[v])
        /\ MapThenSumSet(LAMBDA r : received[r], Streams) < MaxMessages
        /\ received' = [received EXCEPT ![s] = @ + 1]
        /\ Disconnect(<<v>>, "resetting", "up")
        /\ UNCHANGED <<table, name, transportVars, proc, outVars>>

\* A message for a stream whose incoming queue is full ends the stream.
Overflow(s) ==
    LET v == table[s]
    IN  /\ Receives
        /\ v # 0 /\ Full(inbox[v])
        /\ MapThenSumSet(LAMBDA r : received[r], Streams) < MaxMessages
        /\ received' = [received EXCEPT ![s] = @ + 1]
        /\ table' = [table EXCEPT ![s] = 0]
        /\ Disconnect(<<v>>, "resetting", "up")
        /\ UNCHANGED <<name, transportVars, proc, outVars>>

\* A message for a stream that is not there spawns it.
Data(s) ==
    LET new == table[s] = 0
        v   == IF new THEN Len(name) + 1 ELSE table[s]
    IN  /\ Receives
        /\ MapThenSumSet(LAMBDA r : received[r], Streams) < MaxMessages
        /\ v \in Virtual /\ ~ Full(inbox[v])
        /\ received' = [received EXCEPT ![s] = @ + 1]
        /\ table' = [table EXCEPT ![s] = v]
        /\ name' = IF new THEN Append(name, s) ELSE name
        /\ proc' = IF new THEN [proc EXCEPT ![v] = "waiting"] ELSE proc
        /\ inbox' = [inbox EXCEPT ![v] = Append(@, received[s] + 1)]
        /\ delivered' = [delivered EXCEPT ![v] = Append(@, received[s] + 1)]
        /\ UNCHANGED <<env, victims, disconnected, transportVars, outVars>>

Reset(s) ==
    /\ Receives
    /\ table[s] # 0
    /\ table' = [table EXCEPT ![s] = 0]
    /\ Disconnect(<<table[s]>>, "resetting", "up")
    /\ UNCHANGED <<received, name, transportVars, proc, outVars>>

\* The order of the dictionary is that of their spawning.
InSpawnOrder(streams) ==
    LET upTo[v \in 0 .. MaxSpawned] ==
            IF v = 0 THEN <<>>
            ELSE IF v \in streams THEN Append(upTo[v - 1], v) ELSE upTo[v - 1]
    IN  upTo[MaxSpawned]

\* The finally clause: every stream in the dictionary.
Finally == Disconnect(InSpawnOrder({table[s] : s \in Streams}), "closing", "over")

\* The websocket is closed, or receiving from it raises.
Close ==
    /\ Receives
    /\ Finally
    /\ UNCHANGED <<table, received, name, transportVars, proc, outVars>>

FaultyDisconnectSkipsFull ==
    /\ victims # <<>>
    /\ Disconnect(Tail(victims), env, IF env = "resetting" THEN "up" ELSE "over")
    /\ UNCHANGED <<table, received, name, transportVars, proc, outVars>>

\* There is room for the event the loop waits to put.
DisconnectResumes ==
    /\ victims # <<>> /\ ~ Full(inbox[Head(victims)])
    /\ Disconnect(victims, env, IF env = "resetting" THEN "up" ELSE "over")
    /\ UNCHANGED <<table, received, name, transportVars, proc, outVars>>
-----------------------------------------------------------------------------
\* The loop's task takes the next frame, also while the loop waits elsewhere.
Pull ==
    /\ env \in {"up", "resetting"}
    /\ physical # <<>> /\ ~ pulled
    /\ pulled' = TRUE
    /\ UNCHANGED <<loopVars, physical, wire, inVars, proc, outVars>>

Send ==
    /\ env = "up" /\ pulled
    /\ wire' = [wire EXCEPT ![Head(physical).stream] = Append(@, Head(physical))]
    /\ physical' = Tail(physical)
    /\ pulled' = FALSE
    /\ UNCHANGED <<loopVars, inVars, proc, outVars>>

FaultySendFailsGoesOn ==
    /\ env = "up" /\ pulled
    /\ physical' = Tail(physical)
    /\ pulled' = FALSE
    /\ UNCHANGED <<wire, loopVars, inVars, proc, outVars>>

SendFails ==
    /\ env = "up" /\ pulled
    /\ physical' = Tail(physical)
    /\ pulled' = FALSE
    /\ Finally
    /\ UNCHANGED <<wire, table, received, name, proc, outVars>>
-----------------------------------------------------------------------------
\* run_connection of one virtual stream.
Goto(v, where) == proc' = [proc EXCEPT ![v] = where]

TakeMessage(v) ==
    /\ proc[v] = "waiting" /\ inbox[v] # <<>>
    /\ inbox' = [inbox EXCEPT ![v] = Tail(@)]
    /\ Goto(v, IF Head(inbox[v]) = Gone THEN "joining" ELSE "routing")
    /\ UNCHANGED <<loopVars, transportVars, delivered, disconnected, outVars>>

\* This many messages are to be put on the outgoing queue, as far as it has
\* room; then the loop takes the next message or ends.
Put(v, count, goesOn) ==
    LET fits == Min({count, Capacity - Len(outbox[v])})
    IN  /\ outbox' = [outbox EXCEPT ![v] = @ \o [n \in 1 .. fits |-> made[v] + n]]
        /\ made' = [made EXCEPT ![v] = @ + fits]
        /\ owed' = [owed EXCEPT ![v] = count - fits]
        /\ Goto(v, CASE count = fits /\ goesOn -> "waiting"
                     [] count > fits /\ goesOn -> "draining"
                     [] count = fits           -> "joining"
                     [] OTHER                  -> "stopping")

\* The message is served: a response, and the notifications made meanwhile.
RouteEnds(v) ==
    /\ proc[v] = "routing"
    /\ \E notices \in Notices : Put(v, 1 + notices, TRUE)
    /\ UNCHANGED <<loopVars, transportVars, inVars, nextSeq>>

\* The disconnected event ends the route, or the message is a notification
\* that is unknown or refused: there is no response and the loop ends.
RouteBreaks(v) ==
    /\ proc[v] = "routing"
    /\ \E notices \in Notices : Put(v, notices, FALSE)
    /\ UNCHANGED <<loopVars, transportVars, inVars, nextSeq>>

PutResumes(v) ==
    /\ proc[v] \in {"draining", "stopping"} /\ ~ Full(outbox[v])
    /\ Put(v, owed[v], proc[v] = "draining")
    /\ UNCHANGED <<loopVars, transportVars, inVars, nextSeq>>

\* At most 0.1 s after the shutdown the connection is closed, which cancels
\* the writer with what it has not written.
CloseConnection(v) ==
    /\ proc[v] = "joining"
    /\ Goto(v, "closed")
    /\ outbox' = [outbox EXCEPT ![v] = <<>>]
    /\ UNCHANGED <<loopVars, transportVars, inVars, owed, made, nextSeq>>

\* _relay_virtual_stream_writer, when there is room for its frame.
Write(v) ==
    /\ outbox[v] # <<>> /\ ~ Full(physical)
    /\ physical' = Append(physical,
                          [stream |-> v, seq |-> nextSeq[v], number |-> Head(outbox[v])])
    /\ nextSeq' = [nextSeq EXCEPT ![v] = @ + 1]
    /\ outbox' = [outbox EXCEPT ![v] = Tail(@)]
    /\ UNCHANGED <<loopVars, pulled, wire, inVars, proc, owed, made>>
-----------------------------------------------------------------------------
Next ==
    \/ \E s \in Streams : Data(s) \/ Overflow(s) \/ Reset(s)
    \/ Close \/ DisconnectResumes \/ Pull \/ Send \/ SendFails
    \/ \E v \in Virtual : \/ TakeMessage(v) \/ RouteEnds(v) \/ RouteBreaks(v)
                          \/ PutResumes(v) \/ CloseConnection(v) \/ Write(v)

\* Tasks whose await is over are resumed, routes return and a frame that is
\* being sent is sent or fails.  Nothing is assumed of the harness: it need
\* not send, reset or close anything.
Fairness ==
    /\ WF_vars(DisconnectResumes) /\ WF_vars(Pull) /\ WF_vars(Send \/ SendFails)
    /\ \A v \in Virtual : /\ WF_vars(TakeMessage(v))
                          /\ WF_vars(RouteEnds(v) \/ RouteBreaks(v))
                          /\ WF_vars(PutResumes(v))
                          /\ WF_vars(CloseConnection(v))
                          /\ WF_vars(Write(v))

Spec     == Init /\ [][Next]_vars
FairSpec == Spec /\ Fairness
-----------------------------------------------------------------------------
(***************************************************************************)
(* Properties                                                              *)
(***************************************************************************)
Spawned(s) == {v \in DOMAIN name : name[v] = s}
Numbers(v) == ToSet(delivered[v]) \ {Gone}

\* Where a message of a stream is put comes after where another one is.
PutLater(v, m, w, n) == v < w \/ (v = w /\ m < n)

\* The message found the queue of this virtual stream full, and ended it.
Ended(v, k) == v \in disconnected /\ k - 1 \in Numbers(v) /\ \A n \in Numbers(v) : n < k

\* Every message of a stream reaches one virtual stream, in order, and none
\* reaches one that has been told to end; the only messages that are lost are
\* those that found the queue full, and each of them ended its virtual stream.
EachMessageOnce ==
    /\ \A v \in Virtual : \A n \in 1 .. Len(delivered[v]) - 1 : delivered[v][n] # Gone
    /\ \A s \in Streams :
        /\ \A v, w \in Spawned(s) : \A m \in DOMAIN delivered[v], n \in DOMAIN delivered[w] :
              PutLater(v, m, w, n) /\ delivered[v][m] # Gone /\ delivered[w][n] # Gone
                  => delivered[v][m] < delivered[w][n]
        /\ \A k \in 1 .. received[s] : \E v \in Spawned(s) : k \in Numbers(v) \/ Ended(v, k)

\* What a processor says leaves on the websocket in order and, as long as the
\* loop runs and the connection is not closed, completely, however the frames
\* of other streams are mixed with it.
AnswersInOrder ==
    \A v \in Virtual :
        /\ \A n \in DOMAIN wire[v] : wire[v][n].seq = n - 1 /\ wire[v][n].number = n
        /\ env \in {"up", "resetting"} /\ proc[v] # "closed" =>
              Len(wire[v]) + Cardinality({m \in DOMAIN physical : physical[m].stream = v})
                  + Len(outbox[v]) = made[v]

\* The processor waits for room that nobody will make: the frames ahead of it
\* are no longer sent.
Blocked(v) ==
    /\ proc[v] \in {"draining", "stopping"} /\ Full(outbox[v])
    /\ Full(physical) /\ env # "up"

\* The loop waits to disconnect a stream whose processor is over or blocked.
LoopStuck ==
    /\ victims # <<>> /\ Full(inbox[Head(victims)])
    /\ proc[Head(victims)] = "closed" \/ Blocked(Head(victims))

\* A virtual stream that is reset, overflows, or has lost the websocket comes to
\* its end, and the loop goes on.  There are two exceptions: the loop is stuck
\* on a stream whose full queue nobody reads, which holds up every other
\* stream; or the loop is over and its queue of frames is full.
EndsUnlessStuck ==
    \A v \in Virtual :
        v \in DOMAIN name /\ (v \in disconnected \/ env = "closing")
            ~> \/ proc[v] = "closed"
               \/ LoopStuck
               \/ Blocked(v) /\ env \in {"closing", "over"}
=============================================================================
