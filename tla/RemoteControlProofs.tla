------------------------ MODULE RemoteControlProofs ------------------------
(***************************************************************************)
(* Proofs about RemoteControl for any clients and streams, any capacity of *)
(* the queue of transport events, any number of lost websockets and any    *)
(* envelopes whose streams are numbered as RemoteAssumption says.          *)
(*                                                                         *)
(* Three arguments share what is known of the reader at each place where   *)
(* it waits.  Conversations follows the ids of connections: one belongs to *)
(* a stream, to the close being announced, or to the background, and an id *)
(* that belongs to any of them has not been announced closed.              *)
(* CursorLosesNothing follows the positions of the log: those behind the   *)
(* reader and behind the cursor are settled, and of a message that either  *)
(* of them cuts in two the assembly holds what lies before.                *)
(* DisconnectIsPending follows the streams of the outbound tasks.          *)
(***************************************************************************)
EXTENDS RemoteControl, SequenceTheorems, TLAPS

\* What the reader has in hand where it waits.
ReaderKnows ==
    /\ reader # "closing" => closing = NotClosing /\ idle = {}
    /\ reader \in {"opening", "first", "forwarding"} => pos <= Len(log)
    /\ reader \in {"opening", "first"} => Current.kind = "initialize"
    /\ reader = "first" => Registered(Current.stream) /\ lastSeq[Current.stream] = 0
    /\ reader = "forwarding" =>
          /\ Current.kind \in {"message", "chunk"} /\ IsLast(Current)
          /\ Registered(Current.stream) /\ lastSeq[Current.stream] < Current.seq
    /\ reader = "closing" =>
          /\ closing.id # NoId /\ closing.after # "nothing"
          /\ closing.after \in {"reopen", "record"} => pos <= Len(log)
          /\ closing.after = "reopen" => Current.kind = "initialize"
          /\ closing.after = "record" => Current.kind = "closed"
          /\ idle # {} => closing.after = "sweep"
          /\ \A s \in idle : Registered(s)
          /\ \A s \in closing.streams : s \in idle \/ ~ Registered(s)

RInv == RemoteTypeOK /\ ReaderKnows

\* Nothing told is that connection i is closed.
Unclosed(i, told) == \A n \in DOMAIN told : told[n].id = i => told[n].kind # "closed"

\* Whose a connection is, and what was told of it.
ConnectionsApart ==
    /\ \A s \in Streams : Registered(s) =>
          /\ streamOf[clients[s]] = s /\ Unclosed(clients[s], events)
          /\ clients[s] \notin background /\ closing.id # clients[s]
          /\ \A n \in DOMAIN events :
                events[n].id = clients[s] /\ events[n].kind = "message"
                   => events[n].seq <= lastSeq[s]
    /\ \A i \in background : Unclosed(i, events) /\ closing.id # i
    /\ closing.id # NoId => Unclosed(closing.id, events)

\* The inductive invariant for the conversations.
CInv == RInv /\ ConnectionsApart /\ Conversations

\* Nothing of the envelope at p is still to be delivered.
Settled(p) == IsLast(log[p]) => p \in handled \cup torn

\* All that was received is settled, now or when the cursor was set.
BehindIsSettled ==
    /\ \A p \in 1 .. pos - 1 : Settled(p)
    /\ \A p \in 1 .. cursor : Settled(p)

\* So is what the numbers of the stream make the reader drop.
NumbersAreSettled ==
    \A p \in DOMAIN log : log[p].kind # "closed" =>
       /\ Registered(log[p].stream) /\ log[p].seq <= lastSeq[log[p].stream] => Settled(p)
       /\ log[p].kind = "chunk" /\ log[p].seq <= completedSeq[log[p].stream] => Settled(p)

\* An assembly is of a client's own stream, begun and not complete, and the
\* messages before it are settled.
AssembliesFit ==
    \A c \in Clients : assembly[c] # NoAssembly =>
       LET a == assembly[c] IN
       /\ a.stream \in Streams /\ ClientOf[a.stream] = c
       /\ 0 < a.next /\ a.next < a.count
       /\ \A p \in DOMAIN log : log[p].kind = "chunk" /\ log[p].stream = a.stream =>
             /\ log[p].seq < a.seq => Settled(p)
             /\ log[p].seq = a.seq => log[p].count = a.count

\* The assembly of the client holds the chunk at q.
Holds(q) ==
    LET a == assembly[ClientOf[log[q].stream]] IN
    a.stream = log[q].stream /\ a.seq = log[q].seq /\ log[q].segment < a.next

\* The message that ends at p needs no assembly: it is settled or just about to
\* be, or no connection is there for it.
NeedsNoAssembly(p) ==
    \/ Settled(p)
    \/ reader = "forwarding" /\ pos = p
    \/ ~ Registered(log[p].stream)
    \/ reader = "first" /\ Current.stream = log[p].stream

\* What lies before x of a message that x cuts in two is held.
HeldBefore(x) ==
    \A p, q \in DOMAIN log :
       q < x /\ x <= p /\ OneMessage(log[q], log[p]) /\ IsLast(log[p])
          => NeedsNoAssembly(p) \/ Holds(q)

\* The inductive invariant for the cursor.
FInv ==
    /\ RInv /\ BehindIsSettled /\ NumbersAreSettled /\ AssembliesFit
    /\ HeldBefore(pos) /\ HeldBefore(cursor + 1)

\* The inductive invariant for the disconnections.
OpenStreamsKnown ==
    /\ \A s \in Streams : Registered(s) => streamOf[clients[s]] = s
    /\ \A i \in Ids \ cancelled : clients[streamOf[i]] = i
    /\ reader = "opening" \/ closing.after = "reopen" => ~ Registered(Current.stream)
    /\ closing.after = "bookkeep" => got # NoStream /\ ~ Registered(got)
    /\ drops = 0 => orphans = 0
    /\ reader = "off" => drops > 0
DInv == RInv /\ OpenStreamsKnown /\ DisconnectIsPending
-----------------------------------------------------------------------------
LEMMA LogFacts ==
  ASSUME RemoteTypeOK
  PROVE  /\ log \in Seq(Envelopes) /\ WellNumbered(log)
         /\ Len(log) \in Nat /\ DOMAIN log = 1 .. Len(log)
         /\ \A p \in DOMAIN log : log[p] \in Envelopes
         /\ pos \in Nat /\ 1 <= pos /\ cursor \in Nat /\ cursor <= Len(log)
         /\ pos <= Len(log) => pos \in DOMAIN log /\ Current \in Envelopes
<1>1. log \in Seq(Envelopes) /\ WellNumbered(log)
  BY RemoteAssumption DEF RemoteTypeOK
<1>2. Len(log) \in Nat /\ DOMAIN log = 1 .. Len(log)
  BY <1>1
<1>3. pos \in Nat /\ 1 <= pos /\ cursor \in Nat /\ cursor <= Len(log)
  BY <1>2 DEF RemoteTypeOK
<1> QED BY <1>1, <1>2, <1>3 DEF Current

LEMMA IdFacts ==
  ASSUME RemoteTypeOK
  PROVE  /\ Len(streamOf) \in Nat /\ Ids = DOMAIN streamOf /\ NoId \notin Ids
         /\ \A i \in Ids : i \in Nat /\ i > 0 /\ i <= Len(streamOf) /\ streamOf[i] \in Streams
         /\ Len(events) \in Nat /\ DOMAIN events = 1 .. Len(events)
         /\ \A n \in DOMAIN events : events[n] \in Told
<1>1. Len(streamOf) \in Nat /\ DOMAIN streamOf = 1 .. Len(streamOf)
      /\ \A i \in DOMAIN streamOf : streamOf[i] \in Streams
  BY DEF RemoteTypeOK
<1>2. Ids = DOMAIN streamOf
  BY <1>1 DEF Ids
<1>3. \A i \in Ids : i \in Nat /\ i > 0 /\ i <= Len(streamOf) /\ streamOf[i] \in Streams
  BY <1>1, <1>2
<1>4. NoId \notin Ids
  BY <1>3 DEF NoId
<1>5. Len(events) \in Nat /\ DOMAIN events = 1 .. Len(events)
      /\ \A n \in DOMAIN events : events[n] \in Told
  BY DEF RemoteTypeOK
<1> QED BY <1>1, <1>2, <1>3, <1>4, <1>5

LEMMA EnvelopeFacts ==
  ASSUME NEW e \in Envelopes
  PROVE  /\ e.kind \in {"initialize", "message", "chunk", "closed"}
         /\ e.stream \in Streams /\ ClientOf[e.stream] \in Clients
         /\ e.seq \in Nat /\ e.segment \in Nat /\ e.count \in Nat
BY RemoteAssumption DEF Envelopes

\* What the reassembler keeps is an assembly.
LEMMA ObserveType ==
  ASSUME NEW a \in Assemblies, NEW e \in Envelopes, NEW n \in Nat
  PROVE  Observe(a, n, e) \in Assemblies
<1>1. NoAssembly \in Assemblies
  BY DEF NoAssembly, Assemblies
<1>2. Started(e) \in Assemblies
  BY EnvelopeFacts DEF Started, Assemblies
<1>3. Base(a, e) \in Assemblies
  BY <1>2 DEF Base
<1>4. [Base(a, e) EXCEPT !.next = e.segment + 1] \in Assemblies
  BY <1>3, EnvelopeFacts DEF Assemblies
<1> QED BY <1>1, <1>4 DEF Observe

\* Closing a registered stream, and invalidating some, keep the types.
LEMMA CloseClientType ==
  ASSUME RemoteTypeOK, NEW s \in Streams, Registered(s), NEW streams \in SUBSET Streams,
         NEW after \in {"reopen", "record", "bookkeep", "sweep"},
         CloseClient(s, after, streams), UNCHANGED streamOf
  PROVE  /\ closing' \in Closings' /\ closing'.id = clients[s] /\ closing'.after = after
         /\ closing'.streams = streams /\ clients[s] \in Ids /\ reader' = "closing"
         /\ clients' \in [Streams -> Ids' \cup {NoId}] /\ clients'[s] = NoId
         /\ \A t \in Streams : t # s => clients'[t] = clients[t]
         /\ cancelled' = cancelled \cup {clients[s]} /\ cancelled' \subseteq Ids'
<1>1. clients[s] \in Ids /\ Ids' = Ids
  BY DEF RemoteTypeOK, Registered, Ids
<1> QED BY <1>1 DEF RemoteTypeOK, CloseClient, Closings

LEMMA InvalidateType ==
  ASSUME RemoteTypeOK, NEW streams, Invalidate(streams)
  PROVE  /\ assembly' \in [Clients -> Assemblies] /\ completedSeq' \in [Streams -> Nat]
         /\ \A c \in Clients : \/ assembly'[c] = assembly[c]
                               \/ assembly'[c] = NoAssembly /\ assembly[c].stream \in streams
         /\ \A s \in Streams : completedSeq'[s] = IF s \in streams THEN 0 ELSE completedSeq[s]
<1>1. NoAssembly \in Assemblies
  BY DEF NoAssembly, Assemblies
<1>2. assembly \in [Clients -> Assemblies] /\ completedSeq \in [Streams -> Nat]
  BY DEF RemoteTypeOK
<1> QED BY <1>1, <1>2 DEF Invalidate

\* A queue that grows by one event, or is taken from, keeps within its bound.
LEMMA EventType ==
  ASSUME RemoteTypeOK, Room, NEW kind \in {"opened", "message", "closed"}, NEW i \in Ids',
         NEW n \in Nat, events' = Append(events, Event(kind, i, n)), UNCHANGED taken,
         Ids \subseteq Ids'
  PROVE  events' \in Seq(Told') /\ taken' \in 0 .. Len(events') /\ Len(events') - taken' <= Capacity
<1>1. Event(kind, i, n) \in Told'
  BY DEF Event, Told
<1>2. events \in Seq(Told') /\ Len(events') = Len(events) + 1 /\ Len(events) \in Nat
  <2>1. Told \subseteq Told'
    BY DEF Told
  <2> QED BY <2>1 DEF RemoteTypeOK
<1>3. events' \in Seq(Told')
  BY <1>1, <1>2
<1> QED BY <1>2, <1>3, RemoteAssumption DEF RemoteTypeOK, Room
\* Recording a delivery moves the cursor and the reader within the log.
LEMMA RecordType ==
  ASSUME RemoteTypeOK, pos <= Len(log), RecordDelivery
  PROVE  /\ log' = log /\ drops' = drops /\ reader' = "idle"
         /\ pos' = pos + 1 /\ cursor' = pos
         /\ pos' \in 1 .. Len(log') + 1 /\ cursor' \in 0 .. Len(log')
BY LogFacts DEF RecordDelivery

LEMMA RecordChunkType ==
  ASSUME RemoteTypeOK, pos <= Len(log), RecordChunk
  PROVE  /\ completedSeq' \in [Streams -> Nat]
         /\ \A s \in Streams : \/ completedSeq'[s] = completedSeq[s]
                               \/ /\ Current.kind = "chunk" /\ s = Current.stream
                                  /\ completedSeq'[s] = Current.seq
<1>1. Current.seq \in Nat /\ completedSeq \in [Streams -> Nat]
  BY LogFacts, EnvelopeFacts DEF RemoteTypeOK
<1> QED BY <1>1 DEF RecordChunk

-----------------------------------------------------------------------------
\* What the reader knows, and the types, are kept by every step.
LEMMA ReceiveChunkR == ASSUME RInv, ReceiveChunk PROVE RInv'
<1> USE DEF RInv
<1>1. Current \in Envelopes /\ pos \in 1 .. Len(log)
  BY LogFacts DEF ReceiveChunk
<1>2. assembly' \in [Clients -> Assemblies]
  <2>1. /\ assembly \in [Clients -> Assemblies]
        /\ completedSeq[Current.stream] \in Nat
    BY <1>1, EnvelopeFacts DEF RemoteTypeOK
  <2>2. Observe(assembly[ClientOf[Current.stream]], completedSeq[Current.stream], Current) \in Assemblies
    BY <1>1, <2>1, EnvelopeFacts, ObserveType
  <2> QED BY <2>1, <2>2 DEF ReceiveChunk
<1>3. torn' \subseteq 1 .. Len(log) /\ handled' \subseteq 1 .. Len(log)
  <2>1. Displaced(assembly[ClientOf[Current.stream]], Current) \subseteq 1 .. Len(log)
    BY LogFacts DEF Displaced
  <2> QED BY <1>1, <2>1 DEF ReceiveChunk, RemoteTypeOK
<1>4. pos' \in 1 .. Len(log) + 1
  BY <1>1, LogFacts DEF ReceiveChunk
<1>5. RemoteTypeOK'
  BY <1>2, <1>3, <1>4 DEF ReceiveChunk, RemoteTypeOK, trackerVars, taskVars, closingVars,
     eventVars, Ids, Closings, Told
<1>6. ReaderKnows'
  BY DEF ReceiveChunk, ReaderKnows, closingVars
<1> QED BY <1>5, <1>6

LEMMA ReceiveMessageR == ASSUME RInv, ReceiveMessage PROVE RInv'
<1> USE DEF RInv
<1>1. Current \in Envelopes /\ pos \in 1 .. Len(log)
  BY LogFacts DEF ReceiveMessage
<1>2. assembly' \in [Clients -> Assemblies]
  BY DEF ReceiveMessage, RemoteTypeOK, NoAssembly, Assemblies
<1>3. torn' \subseteq 1 .. Len(log) /\ handled' \subseteq 1 .. Len(log)
  <2>1. Displaced(assembly[ClientOf[Current.stream]], Current) \subseteq 1 .. Len(log)
    BY LogFacts DEF Displaced
  <2> QED BY <1>1, <2>1 DEF ReceiveMessage, RemoteTypeOK
<1>4. CASE Registered(Current.stream) /\ ~ Duplicate(Current)
  <2>1. RemoteTypeOK'
    BY <1>2, <1>3, <1>4 DEF ReceiveMessage, RemoteTypeOK, wireVars, trackerVars, taskVars,
       closingVars, eventVars, Ids, Closings, Told
  <2>2. IsLast(Current) /\ Current.kind \in {"message", "chunk"}
    BY DEF ReceiveMessage, Forwarded, Completes, IsLast
  <2>3. lastSeq[Current.stream] < Current.seq
    BY <1>1, <1>4, EnvelopeFacts DEF Duplicate, RemoteTypeOK
  <2>4. ReaderKnows'
    BY <1>1, <1>4, <2>2, <2>3 DEF ReceiveMessage, ReaderKnows, wireVars, trackerVars,
       closingVars, Registered, Current
  <2> QED BY <2>1, <2>4
<1>5. CASE ~ (Registered(Current.stream) /\ ~ Duplicate(Current))
  <2>1. RecordDelivery /\ RecordChunk
    BY <1>5 DEF ReceiveMessage
  <2>2. RemoteTypeOK'
    BY <1>1, <1>2, <1>3, <2>1, RecordType, RecordChunkType
       DEF ReceiveMessage, RemoteTypeOK, trackerVars, taskVars, closingVars, eventVars, Ids,
       Closings, Told
  <2>3. ReaderKnows'
    BY <2>1, <1>1, RecordType DEF ReceiveMessage, ReaderKnows, closingVars
  <2> QED BY <2>2, <2>3
<1> QED BY <1>4, <1>5

LEMMA ReceiveInitializeR == ASSUME RInv, ReceiveInitialize PROVE RInv'
<1> USE DEF RInv
<1>1. Current \in Envelopes /\ pos \in 1 .. Len(log) /\ Current.stream \in Streams
  BY LogFacts, EnvelopeFacts DEF ReceiveInitialize
<1>2. CASE Registered(Current.stream)
  <2>1. CloseClient(Current.stream, "reopen", {}) /\ UNCHANGED streamOf
    BY <1>2 DEF ReceiveInitialize
  <2>2. /\ closing' \in Closings' /\ closing'.id = clients[Current.stream]
        /\ closing'.after = "reopen" /\ closing'.streams = {}
        /\ clients[Current.stream] \in Ids /\ reader' = "closing"
        /\ clients' \in [Streams -> Ids' \cup {NoId}]
        /\ cancelled' = cancelled \cup {clients[Current.stream]} /\ cancelled' \subseteq Ids'
    BY <1>1, <1>2, <2>1, CloseClientType
  <2>3. RemoteTypeOK'
    BY <2>2 DEF ReceiveInitialize, RemoteTypeOK, wireVars, fateVars, segmentVars, eventVars,
       Ids, Told
  <2>4. idle = {}
    BY DEF ReceiveInitialize, ReaderKnows
  <2>5. ReaderKnows'
    BY <1>1, <1>2, <2>2, <2>4 DEF ReceiveInitialize, ReaderKnows, wireVars, Current, Registered
  <2> QED BY <2>3, <2>5
<1>3. CASE ~ Registered(Current.stream)
  <2>1. RemoteTypeOK'
    BY <1>3 DEF ReceiveInitialize, RemoteTypeOK, wireVars, fateVars, segmentVars, eventVars,
       Ids, Told, Closings
  <2>2. ReaderKnows'
    BY <1>1, <1>3 DEF ReceiveInitialize, ReaderKnows, wireVars, Current
  <2> QED BY <2>1, <2>2
<1> QED BY <1>2, <1>3

LEMMA ReceiveClosedR == ASSUME RInv, ReceiveClosed PROVE RInv'
<1> USE DEF RInv
<1>1. Current \in Envelopes /\ pos \in 1 .. Len(log) /\ Current.stream \in Streams
  BY LogFacts, EnvelopeFacts DEF ReceiveClosed
<1>2. CASE Registered(Current.stream)
  <2>1. CloseClient(Current.stream, "record", {Current.stream}) /\ UNCHANGED streamOf
    BY <1>2 DEF ReceiveClosed
  <2>2. /\ closing' \in Closings' /\ closing'.id = clients[Current.stream]
        /\ closing'.after = "record" /\ closing'.streams = {Current.stream}
        /\ clients[Current.stream] \in Ids /\ reader' = "closing"
        /\ clients' \in [Streams -> Ids' \cup {NoId}] /\ clients'[Current.stream] = NoId
        /\ cancelled' = cancelled \cup {clients[Current.stream]} /\ cancelled' \subseteq Ids'
    BY <1>1, <1>2, <2>1, CloseClientType
  <2>3. RemoteTypeOK'
    BY <1>2, <2>2 DEF ReceiveClosed, RemoteTypeOK, wireVars, segmentVars, eventVars, Ids, Told
  <2>4. idle = {}
    BY DEF ReceiveClosed, ReaderKnows
  <2>5. ReaderKnows'
    BY <1>1, <1>2, <2>2, <2>4 DEF ReceiveClosed, ReaderKnows, wireVars, Current, Registered
  <2> QED BY <2>3, <2>5
<1>3. CASE ~ Registered(Current.stream)
  <2>1. RecordDelivery /\ Invalidate({Current.stream})
    BY <1>3 DEF ReceiveClosed
  <2>2. RemoteTypeOK'
    <3>1. assembly' \in [Clients -> Assemblies] /\ completedSeq' \in [Streams -> Nat]
      BY <2>1, InvalidateType
    <3>2. handled' \subseteq 1 .. Len(log)
      BY <1>1, <1>3 DEF ReceiveClosed, RemoteTypeOK
    <3> QED BY <1>1, <1>3, <2>1, <3>1, <3>2, RecordType DEF ReceiveClosed, RemoteTypeOK,
            eventVars, Ids, Told, Closings
  <2>3. ReaderKnows'
    BY <1>1, <1>3, <2>1, RecordType DEF ReceiveClosed, ReaderKnows
  <2> QED BY <2>2, <2>3
<1> QED BY <1>2, <1>3

LEMMA PutOpenedR == ASSUME RInv, PutOpened PROVE RInv'
<1> USE DEF RInv
<1> DEFINE s == Current.stream
           i == Len(streamOf) + 1
<1>1. Current \in Envelopes /\ pos \in 1 .. Len(log) /\ s \in Streams
  BY LogFacts, EnvelopeFacts DEF PutOpened, ReaderKnows
<1>2. /\ streamOf' = Append(streamOf, s) /\ streamOf' \in Seq(Streams)
      /\ Len(streamOf') = i /\ Ids' = Ids \cup {i} /\ i \in Ids' /\ Ids \subseteq Ids'
      /\ i # NoId
  <2>1. streamOf' = Append(streamOf, s) /\ streamOf \in Seq(Streams)
    BY DEF PutOpened, RemoteTypeOK
  <2>2. streamOf' \in Seq(Streams) /\ Len(streamOf') = i /\ Len(streamOf) \in Nat
    BY <1>1, <2>1
  <2> QED BY <2>1, <2>2 DEF Ids, NoId
<1>3. /\ clients' = [clients EXCEPT ![s] = i] /\ lastSeq' = [lastSeq EXCEPT ![s] = 0]
      /\ reader' = "first"
  BY DEF PutOpened
<1>4. /\ clients' \in [Streams -> Ids' \cup {NoId}]
      /\ lastSeq' \in [Streams -> Nat]
  BY <1>1, <1>2, <1>3 DEF RemoteTypeOK
<1>5. events' \in Seq(Told') /\ taken' \in 0 .. Len(events') /\ Len(events') - taken' <= Capacity
  BY <1>2, EventType DEF PutOpened
<1>6. closing' \in Closings'
  BY <1>2 DEF RemoteTypeOK, PutOpened, Closings, closingVars
<1>7. RemoteTypeOK'
  BY <1>2, <1>3, <1>4, <1>5, <1>6 DEF PutOpened, RemoteTypeOK, wireVars, fateVars, segmentVars,
     taskVars, closingVars
<1>8. ReaderKnows'
  <2>1. Current' = Current /\ pos' = pos /\ log' = log
    BY DEF PutOpened, wireVars, Current
  <2>2. clients'[s] = i /\ lastSeq'[s] = 0
    BY <1>1, <1>3 DEF RemoteTypeOK
  <2> QED BY <1>1, <1>2, <1>3, <2>1, <2>2 DEF PutOpened, ReaderKnows, Registered, closingVars
<1> QED BY <1>7, <1>8

LEMMA PutMessageR == ASSUME RInv, PutMessage PROVE RInv'
<1> USE DEF RInv
<1> DEFINE s == Current.stream
<1>1. /\ Current \in Envelopes /\ pos \in 1 .. Len(log) /\ s \in Streams /\ Current.seq \in Nat
      /\ pos <= Len(log)
  BY LogFacts, EnvelopeFacts DEF PutMessage, ReaderKnows
<1>2. clients[s] \in Ids /\ Ids' = Ids
  BY <1>1 DEF PutMessage, ReaderKnows, Registered, RemoteTypeOK, Ids
<1>3. events' \in Seq(Told') /\ taken' \in 0 .. Len(events') /\ Len(events') - taken' <= Capacity
  BY <1>1, <1>2, EventType DEF PutMessage
<1>4. lastSeq' \in [Streams -> Nat]
  BY <1>1 DEF PutMessage, RemoteTypeOK
<1>5. RecordDelivery /\ RecordChunk
  BY DEF PutMessage
<1>6. RemoteTypeOK'
  BY <1>1, <1>2, <1>3, <1>4, <1>5, RecordType, RecordChunkType DEF PutMessage, RemoteTypeOK,
     taskVars, closingVars, Closings
<1>7. ReaderKnows'
  BY <1>1, <1>5, RecordType DEF PutMessage, ReaderKnows, closingVars
<1> QED BY <1>6, <1>7

LEMMA PutClosedR == ASSUME RInv, PutClosed PROVE RInv'
<1> USE DEF RInv
<1>1. /\ reader = "closing" /\ Room /\ events' = Append(events, Event("closed", closing.id, 0))
      /\ UNCHANGED <<torn, lastSeq, streamOf, ended, completed, orphans, taken, background>>
  BY DEF PutClosed
<1>2. /\ closing.id \in Ids /\ Ids' = Ids
      /\ closing.after \in {"reopen", "record", "bookkeep", "sweep"}
      /\ closing.streams \in SUBSET Streams
  BY <1>1 DEF ReaderKnows, RemoteTypeOK, Closings, Ids
<1>3. events' \in Seq(Told') /\ taken' \in 0 .. Len(events') /\ Len(events') - taken' <= Capacity
  BY <1>1, <1>2, EventType
<1>4. NotClosing \in Closings'
  BY DEF NotClosing, Closings
<1>5. CASE closing.after = "reopen"
  <2>1. /\ reader' = "opening" /\ closing' = NotClosing
        /\ UNCHANGED <<wireVars, handled, segmentVars, clients, cancelled, got, idle>>
    BY <1>5 DEF PutClosed
  <2>2. idle = {}
    BY <1>1, <1>5 DEF ReaderKnows
  <2>3. RemoteTypeOK'
    BY <1>1, <1>2, <1>3, <1>4, <2>1 DEF RemoteTypeOK, wireVars, segmentVars
  <2>4. ReaderKnows'
    BY <1>1, <1>5, <2>1, <2>2 DEF ReaderKnows, wireVars, Current
  <2> QED BY <2>3, <2>4
<1>6. CASE closing.after = "record"
  <2>1. /\ RecordDelivery /\ Invalidate(closing.streams) /\ closing' = NotClosing
        /\ handled' = handled \cup {pos} /\ UNCHANGED <<clients, cancelled, got, idle>>
    BY <1>6 DEF PutClosed
  <2>2. idle = {} /\ pos \in 1 .. Len(log) /\ pos <= Len(log)
    BY <1>1, <1>6, LogFacts DEF ReaderKnows
  <2>3. assembly' \in [Clients -> Assemblies] /\ completedSeq' \in [Streams -> Nat]
    BY <2>1, InvalidateType
  <2>4. RemoteTypeOK'
    BY <1>1, <1>2, <1>3, <1>4, <2>1, <2>2, <2>3, RecordType DEF RemoteTypeOK
  <2>5. ReaderKnows'
    BY <2>1, <2>2, RecordType DEF ReaderKnows
  <2> QED BY <2>4, <2>5
<1>7. CASE closing.after = "bookkeep"
  <2>1. /\ reader' = "idle" /\ Invalidate(closing.streams) /\ got' = NoStream
        /\ closing' = NotClosing /\ UNCHANGED <<wireVars, handled, clients, cancelled, idle>>
    BY <1>7 DEF PutClosed
  <2>2. idle = {}
    BY <1>1, <1>7 DEF ReaderKnows
  <2>3. assembly' \in [Clients -> Assemblies] /\ completedSeq' \in [Streams -> Nat]
    BY <2>1, InvalidateType
  <2>4. RemoteTypeOK'
    BY <1>1, <1>2, <1>3, <1>4, <2>1, <2>3 DEF RemoteTypeOK, wireVars
  <2>5. ReaderKnows'
    BY <2>1, <2>2 DEF ReaderKnows
  <2> QED BY <2>4, <2>5
<1>8. CASE closing.after = "sweep" /\ idle = {}
  <2>1. /\ reader' = "idle" /\ Invalidate(closing.streams) /\ closing' = NotClosing
        /\ UNCHANGED <<wireVars, handled, clients, cancelled, got, idle>>
    BY <1>8 DEF PutClosed
  <2>2. assembly' \in [Clients -> Assemblies] /\ completedSeq' \in [Streams -> Nat]
    BY <2>1, InvalidateType
  <2>3. RemoteTypeOK'
    BY <1>1, <1>2, <1>3, <1>4, <2>1, <2>2 DEF RemoteTypeOK, wireVars
  <2>4. ReaderKnows'
    BY <1>8, <2>1 DEF ReaderKnows
  <2> QED BY <2>3, <2>4
<1>9. CASE closing.after = "sweep" /\ idle # {}
  <2>1. UNCHANGED <<wireVars, handled, segmentVars, got>>
    BY <1>9 DEF PutClosed
  <2>2. PICK s \in idle : CloseClient(s, "sweep", closing.streams) /\ idle' = idle \ {s}
    BY <1>9 DEF PutClosed
  <2>3. s \in Streams /\ Registered(s) /\ UNCHANGED streamOf
    BY <1>1 DEF RemoteTypeOK, ReaderKnows
  <2>4. /\ closing' \in Closings' /\ closing'.id = clients[s] /\ closing'.after = "sweep"
        /\ closing'.streams = closing.streams /\ clients[s] \in Ids /\ reader' = "closing"
        /\ clients' \in [Streams -> Ids' \cup {NoId}] /\ clients'[s] = NoId
        /\ \A t \in Streams : t # s => clients'[t] = clients[t]
        /\ cancelled' = cancelled \cup {clients[s]} /\ cancelled' \subseteq Ids'
    BY <1>2, <2>2, <2>3, CloseClientType
  <2>5. RemoteTypeOK'
    BY <1>1, <1>2, <1>3, <2>1, <2>2, <2>4 DEF RemoteTypeOK, wireVars, segmentVars
  <2>6. \A t \in Streams : Registered(t)' <=> t # s /\ Registered(t)
    BY <2>4 DEF Registered
  <2>7. ReaderKnows'
    BY <1>1, <1>2, <1>9, <2>2, <2>3, <2>4, <2>6 DEF ReaderKnows, RemoteTypeOK, Registered
  <2> QED BY <2>5, <2>7
<1> QED BY <1>2, <1>5, <1>6, <1>7, <1>8, <1>9

LEMMA BookkeepR == ASSUME RInv, Bookkeep PROVE RInv'
<1> USE DEF RInv
<1>1. got \in Streams /\ idle = {} /\ reader = "idle"
  BY DEF Bookkeep, RemoteTypeOK, ReaderKnows
<1>2. CASE Registered(got)
  <2>1. CloseClient(got, "bookkeep", {got}) /\ UNCHANGED <<streamOf, segmentVars, got>>
    BY <1>2 DEF Bookkeep
  <2>2. /\ closing' \in Closings' /\ closing'.id = clients[got] /\ closing'.after = "bookkeep"
        /\ closing'.streams = {got} /\ clients[got] \in Ids /\ reader' = "closing"
        /\ clients' \in [Streams -> Ids' \cup {NoId}] /\ clients'[got] = NoId
        /\ cancelled' = cancelled \cup {clients[got]} /\ cancelled' \subseteq Ids'
    BY <1>1, <1>2, <2>1, CloseClientType
  <2>3. RemoteTypeOK'
    BY <2>1, <2>2 DEF Bookkeep, RemoteTypeOK, wireVars, fateVars, segmentVars, eventVars, Ids, Told
  <2>4. ReaderKnows'
    BY <1>1, <1>2, <2>2 DEF Bookkeep, ReaderKnows, Registered
  <2> QED BY <2>3, <2>4
<1>3. CASE ~ Registered(got)
  <2>1. /\ Invalidate({got}) /\ got' = NoStream
        /\ UNCHANGED <<reader, closing, cancelled, clients>>
    BY <1>3 DEF Bookkeep
  <2>2. assembly' \in [Clients -> Assemblies] /\ completedSeq' \in [Streams -> Nat]
    BY <2>1, InvalidateType
  <2>3. RemoteTypeOK'
    BY <2>1, <2>2 DEF Bookkeep, RemoteTypeOK, wireVars, fateVars, eventVars, Ids, Told, Closings
  <2>4. ReaderKnows'
    BY <1>1, <2>1 DEF Bookkeep, ReaderKnows
  <2> QED BY <2>3, <2>4
<1> QED BY <1>2, <1>3

LEMMA SweepR == ASSUME RInv, Sweep PROVE RInv'
<1> USE DEF RInv
<1>1. PICK expired \in SUBSET {s \in Streams : Registered(s)} : \E s \in expired :
          CloseClient(s, "sweep", expired) /\ idle' = expired \ {s}
  BY DEF Sweep
<1>2. PICK s \in expired : CloseClient(s, "sweep", expired) /\ idle' = expired \ {s}
  BY <1>1
<1>3. /\ expired \in SUBSET Streams /\ s \in Streams /\ UNCHANGED streamOf
      /\ \A t \in expired : Registered(t)
  BY DEF Sweep
<1>4. /\ closing' \in Closings' /\ closing'.id = clients[s] /\ closing'.after = "sweep"
      /\ closing'.streams = expired /\ clients[s] \in Ids /\ reader' = "closing"
      /\ clients' \in [Streams -> Ids' \cup {NoId}] /\ clients'[s] = NoId
      /\ \A t \in Streams : t # s => clients'[t] = clients[t]
      /\ cancelled' = cancelled \cup {clients[s]} /\ cancelled' \subseteq Ids'
  BY <1>2, <1>3, CloseClientType
<1>5. RemoteTypeOK'
  BY <1>2, <1>3, <1>4 DEF Sweep, RemoteTypeOK, wireVars, fateVars, segmentVars, eventVars, Ids, Told
<1>6. ReaderKnows'
  BY <1>2, <1>3, <1>4 DEF ReaderKnows, Registered
<1> QED BY <1>5, <1>6

LEMMA ReaderEndsR == ASSUME RInv, ReaderEnds PROVE RInv'
<1> USE DEF RInv
<1>1. NotClosing \in Closings' /\ Ids' = Ids
  BY DEF NotClosing, Closings, ReaderEnds, Ids
<1>2. /\ clients' \in [Streams -> Ids' \cup {NoId}] /\ cancelled' \subseteq Ids'
      /\ ended \subseteq cancelled' /\ background' \subseteq cancelled'
  <2>1. CASE reader = "first"
    <3>1. Current.stream \in Streams
      BY <2>1, LogFacts, EnvelopeFacts DEF ReaderKnows
    <3>2. clients[Current.stream] \in Ids
      BY <2>1, <3>1 DEF ReaderKnows, Registered, RemoteTypeOK
    <3> QED BY <1>1, <2>1, <3>1, <3>2 DEF ReaderEnds, RemoteTypeOK
  <2>2. CASE reader # "first"
    BY <1>1, <2>2 DEF ReaderEnds, RemoteTypeOK
  <2> QED BY <2>1, <2>2
<1>3. torn' \subseteq 1 .. Len(log)
  BY LogFacts DEF ReaderEnds, RemoteTypeOK, ReaderKnows
<1>4. completed' \in Seq(Streams) /\ got' \in Streams \cup {NoStream} /\ orphans' \in Nat
  <2>1. completed \in Seq(Streams) /\ orphans \in Nat /\ got' = NoStream
    BY DEF ReaderEnds, RemoteTypeOK
  <2>2. \/ completed' = completed /\ orphans' = orphans
        \/ completed' = completed /\ orphans' = orphans + 1
        \/ completed # <<>> /\ completed' = Tail(completed) /\ orphans' = orphans
    BY DEF ReaderEnds
  <2> QED BY <2>1, <2>2
<1>5. drops' \in 0 .. MaxDrops
  BY RemoteAssumption DEF ReaderEnds, RemoteTypeOK
<1>6. RemoteTypeOK'
  BY <1>1, <1>2, <1>3, <1>4, <1>5 DEF ReaderEnds, RemoteTypeOK, segmentVars, Told
<1>7. ReaderKnows'
  BY DEF ReaderEnds, ReaderKnows
<1> QED BY <1>6, <1>7

LEMMA OthersR ==
  ASSUME RInv, \/ Reconnect \/ BookkeepGets \/ AppTakes
               \/ \E i \in Ids : TaskEnds(i) \/ PutClosedLater(i) \/ AppDisconnects(i)
               \/ UNCHANGED vars
  PROVE  RInv'
<1> USE DEF RInv
<1>1. ASSUME Reconnect PROVE RInv'
  <2>1. pos' \in 1 .. Len(log) + 1
    BY <1>1, LogFacts DEF Reconnect
  <2>2. RemoteTypeOK'
    BY <1>1, <2>1 DEF Reconnect, RemoteTypeOK, fateVars, segmentVars, trackerVars, taskVars,
       closingVars, eventVars, Ids, Told, Closings
  <2>3. ReaderKnows'
    BY <1>1 DEF Reconnect, ReaderKnows, closingVars
  <2> QED BY <2>2, <2>3
<1>2. ASSUME BookkeepGets PROVE RInv'
  <2>1. completed' \in Seq(Streams) /\ got' \in Streams
    BY <1>2 DEF BookkeepGets, RemoteTypeOK
  <2>2. RemoteTypeOK'
    BY <1>2, <2>1 DEF BookkeepGets, RemoteTypeOK, wireVars, fateVars, segmentVars, trackerVars,
       closingVars, eventVars, Ids, Told, Closings
  <2>3. ReaderKnows'
    BY <1>2 DEF BookkeepGets, ReaderKnows, closingVars, wireVars, trackerVars, Current, Registered
  <2> QED BY <2>2, <2>3
<1>3. ASSUME AppTakes PROVE RInv'
  <2>1. taken' \in 0 .. Len(events) /\ Len(events) - taken' <= Capacity
    BY <1>3, RemoteAssumption, IdFacts DEF AppTakes, RemoteTypeOK
  <2>2. RemoteTypeOK'
    BY <1>3, <2>1 DEF AppTakes, RemoteTypeOK, wireVars, fateVars, segmentVars, trackerVars,
       taskVars, closingVars, Ids, Told, Closings
  <2>3. ReaderKnows'
    BY <1>3 DEF AppTakes, ReaderKnows, closingVars, wireVars, trackerVars, Current, Registered
  <2> QED BY <2>2, <2>3
<1>4. ASSUME NEW i \in Ids, TaskEnds(i) PROVE RInv'
  <2>1. streamOf[i] \in Streams
    BY IdFacts
  <2>2. completed' \in Seq(Streams) /\ orphans' \in Nat
    <3>1. completed \in Seq(Streams) /\ orphans \in Nat
      BY DEF RemoteTypeOK
    <3>2. \/ completed' = completed /\ orphans > 0 /\ orphans' = orphans - 1
          \/ completed' = Append(completed, streamOf[i]) /\ orphans' = orphans
      BY <1>4 DEF TaskEnds
    <3> QED BY <2>1, <3>1, <3>2
  <2>3. RemoteTypeOK'
    BY <1>4, <2>2 DEF TaskEnds, RemoteTypeOK, wireVars, fateVars, segmentVars, trackerVars,
       closingVars, eventVars, Ids, Told, Closings
  <2>4. ReaderKnows'
    BY <1>4 DEF TaskEnds, ReaderKnows, closingVars, wireVars, trackerVars, Current, Registered
  <2> QED BY <2>3, <2>4
<1>5. ASSUME NEW i \in Ids, PutClosedLater(i) PROVE RInv'
  <2>1. Ids' = Ids
    BY <1>5 DEF PutClosedLater, trackerVars, Ids
  <2>2. events' \in Seq(Told') /\ taken' \in 0 .. Len(events') /\ Len(events') - taken' <= Capacity
    BY <1>5, <2>1, EventType DEF PutClosedLater
  <2>3. RemoteTypeOK'
    BY <1>5, <2>1, <2>2 DEF PutClosedLater, RemoteTypeOK, wireVars, fateVars, segmentVars,
       trackerVars, taskVars, closingVars, Closings
  <2>4. ReaderKnows'
    BY <1>5 DEF PutClosedLater, ReaderKnows, closingVars, wireVars, trackerVars, Current, Registered
  <2> QED BY <2>3, <2>4
<1>6. ASSUME NEW i \in Ids, AppDisconnects(i) PROVE RInv'
  <2>1. RemoteTypeOK'
    BY <1>6 DEF AppDisconnects, RemoteTypeOK, wireVars, fateVars, segmentVars,
       trackerVars, closingVars, eventVars, Ids, Told, Closings
  <2>2. ReaderKnows'
    BY <1>6 DEF AppDisconnects, ReaderKnows, closingVars, wireVars, trackerVars, Current, Registered
  <2> QED BY <2>1, <2>2
<1>7. ASSUME UNCHANGED vars PROVE RInv'
  <2> USE <1>7 DEF vars, wireVars, fateVars, segmentVars, trackerVars,
     taskVars, closingVars, eventVars
  <2>1. RemoteTypeOK'
    BY DEF RemoteTypeOK, Ids, Told, Closings
  <2>2. ReaderKnows'
    BY DEF ReaderKnows, Current, Registered
  <2> QED BY <2>1, <2>2
<1> QED BY <1>1, <1>2, <1>3, <1>4, <1>5, <1>6, <1>7

LEMMA ReaderInit == Init => RInv
<1> SUFFICES ASSUME Init PROVE RInv
  OBVIOUS
<1>1. log \in Seq(Envelopes) /\ Len(log) \in Nat
  BY RemoteAssumption DEF Init
<1>2. Ids = {} /\ Len(events) = 0 /\ Len(completed) = 0
  BY DEF Init, Ids
<1>3. NotClosing \in Closings /\ NoAssembly \in Assemblies
  BY DEF NotClosing, Closings, NoAssembly, Assemblies
<1>4. RemoteTypeOK
  BY <1>1, <1>2, <1>3, RemoteAssumption DEF Init, RemoteTypeOK
<1>5. ReaderKnows
  BY DEF Init, ReaderKnows
<1> QED BY <1>4, <1>5 DEF RInv

LEMMA ReaderStepR == RInv /\ [Next]_vars => RInv'
BY ReceiveChunkR, ReceiveMessageR, ReceiveInitializeR, ReceiveClosedR, PutOpenedR, PutMessageR,
   PutClosedR, BookkeepR, SweepR, ReaderEndsR, OthersR DEF Next, ReaderStep

\* Every variable keeps its type, and the queue of transport events its bound.
THEOREM RemoteTypeCorrect == Spec => []RemoteTypeOK
<1>1. Spec => []RInv
  BY ReaderInit, ReaderStepR, PTL DEF Spec
<1> QED BY <1>1, PTL DEF RInv
-----------------------------------------------------------------------------
\* What the app server is told next, and of whom.
LEMMA TellFacts ==
  ASSUME RInv, NEW kind, NEW i, NEW q, events' = Append(events, Event(kind, i, q))
  PROVE  /\ DOMAIN events' = DOMAIN events \cup {Len(events) + 1}
         /\ \A n \in DOMAIN events : events'[n] = events[n] /\ n < Len(events) + 1
         /\ events'[Len(events) + 1].kind = kind /\ events'[Len(events) + 1].id = i
         /\ events'[Len(events) + 1].seq = q /\ events'[Len(events) + 1] = Event(kind, i, q)
         /\ \A j : Unclosed(j, events) /\ (j # i \/ kind # "closed") => Unclosed(j, events')
<1>1. events \in Seq(Told) /\ Len(events) \in Nat /\ DOMAIN events = 1 .. Len(events)
  BY IdFacts DEF RInv, RemoteTypeOK
<1>2. /\ DOMAIN events' = 1 .. Len(events) + 1
      /\ \A n \in 1 .. Len(events) : events'[n] = events[n]
      /\ events'[Len(events) + 1] = Event(kind, i, q)
  BY <1>1
<1>3. DOMAIN events' = DOMAIN events \cup {Len(events) + 1}
  BY <1>1, <1>2
<1>4. \A n \in DOMAIN events : events'[n] = events[n] /\ n < Len(events) + 1
  BY <1>1, <1>2
<1>5. /\ events'[Len(events) + 1].kind = kind /\ events'[Len(events) + 1].id = i
      /\ events'[Len(events) + 1].seq = q
  BY <1>2 DEF Event
<1>6. \A j : Unclosed(j, events) /\ (j # i \/ kind # "closed") => Unclosed(j, events')
  BY <1>3, <1>4, <1>5 DEF Unclosed
<1> QED BY <1>2, <1>3, <1>4, <1>5, <1>6

\* It goes on with a conversation if its connection is not closed, it opens
\* only a connection nothing was told of, and a message has a higher number.
LEMMA TellKeeps ==
  ASSUME RInv, Conversations, NEW kind, NEW i, NEW q,
         events' = Append(events, Event(kind, i, q)), Unclosed(i, events),
         Ids' = Ids \/ (kind = "opened" /\ q = 0 /\ Ids' = Ids \cup {i}),
         kind = "opened" => \A n \in DOMAIN events : events[n].id # i,
         kind = "message" => \A n \in DOMAIN events :
            events[n].id = i /\ events[n].kind = "message" => events[n].seq < q
  PROVE  Conversations'
<1> DEFINE last == Len(events) + 1
<1>1. /\ DOMAIN events' = DOMAIN events \cup {last}
      /\ \A n \in DOMAIN events : events'[n] = events[n] /\ n < last
      /\ events'[last].kind = kind /\ events'[last].id = i
      /\ events'[last].seq = q /\ events'[last] = Event(kind, i, q)
  BY TellFacts
<1>2. \A j \in Ids' : \E n \in DOMAIN events' : events'[n] = Event("opened", j, 0)
  <2> SUFFICES ASSUME NEW j \in Ids'
               PROVE  \E n \in DOMAIN events' : events'[n] = Event("opened", j, 0)
    OBVIOUS
  <2>1. CASE j \in Ids
    BY <1>1, <2>1 DEF Conversations
  <2>2. CASE j \notin Ids
    BY <1>1, <2>2
  <2> QED BY <2>1, <2>2
<1>3. ASSUME NEW m \in DOMAIN events', NEW n \in DOMAIN events', m < n, events'[m].id = events'[n].id
      PROVE  /\ events'[m].kind # "closed" /\ events'[n].kind # "opened"
             /\ events'[m].kind = "message" /\ events'[n].kind = "message"
                   => events'[m].seq < events'[n].seq
  <2>1. m \in DOMAIN events
    <3> SUFFICES ASSUME m = last PROVE FALSE
      BY <1>1
    <3>1. n \in DOMAIN events \/ n = last
      BY <1>1
    <3>2. last \in Nat /\ (n \in DOMAIN events => n \in Nat /\ n < last)
      BY <1>1, IdFacts DEF RInv
    <3> QED BY <1>3, <3>1, <3>2
  <2>2. CASE n \in DOMAIN events
    BY <1>1, <1>3, <2>1, <2>2 DEF Conversations
  <2>3. CASE n = last
    BY <1>1, <1>3, <2>1, <2>3 DEF Unclosed
  <2> QED BY <1>1, <2>2, <2>3
<1> QED BY <1>2, <1>3 DEF Conversations, Event

\* Connections belong to one stream each.
LEMMA OneStream ==
  ASSUME RInv, ConnectionsApart, NEW s \in Streams, NEW t \in Streams, s # t, Registered(s)
  PROVE  clients[s] # clients[t]
BY DEF ConnectionsApart, Registered

\* A step that moves a connection from a stream to the close being announced,
\* after the one before was announced or when there was none.
LEMMA CloseClientApart ==
  ASSUME RInv, ConnectionsApart, NEW s \in Streams, Registered(s), NEW streams, NEW after,
         CloseClient(s, after, streams), UNCHANGED <<streamOf, lastSeq, background>>,
         \/ UNCHANGED events
         \/ closing.id # NoId /\ events' = Append(events, Event("closed", closing.id, 0))
  PROVE  ConnectionsApart'
<1>1. /\ clients'[s] = NoId /\ \A t \in Streams : t # s => clients'[t] = clients[t]
      /\ closing'.id = clients[s]
  BY DEF CloseClient, RInv, RemoteTypeOK
<1>2. \A j : Unclosed(j, events) /\ (UNCHANGED events \/ j # closing.id) => Unclosed(j, events')
  BY TellFacts DEF Unclosed
<1>3. ASSUME NEW t \in Streams, Registered(t)'
      PROVE  /\ t # s /\ Registered(t) /\ clients'[t] = clients[t]
             /\ clients[t] # clients[s] /\ clients[t] # closing.id
  BY <1>1, <1>3, OneStream DEF Registered, ConnectionsApart
<1>4. ASSUME NEW t \in Streams, Registered(t)', NEW n \in DOMAIN events',
             events'[n].id = clients'[t], events'[n].kind = "message"
      PROVE  events'[n].seq <= lastSeq'[t]
  <2>1. n \in DOMAIN events /\ events'[n] = events[n]
    BY <1>4, TellFacts
  <2> QED BY <1>3, <1>4, <2>1 DEF ConnectionsApart
<1>5. ASSUME NEW t \in Streams, Registered(t)'
      PROVE  /\ streamOf'[clients'[t]] = t /\ Unclosed(clients'[t], events')
             /\ clients'[t] \notin background' /\ closing'.id # clients'[t]
  BY <1>1, <1>2, <1>3, <1>5 DEF ConnectionsApart
<1>6. ASSUME NEW i \in background' PROVE Unclosed(i, events') /\ closing'.id # i
  BY <1>1, <1>2 DEF ConnectionsApart
<1>7. Unclosed(closing'.id, events')
  BY <1>1, <1>2 DEF ConnectionsApart
<1> QED BY <1>4, <1>5, <1>6, <1>7 DEF ConnectionsApart

\* A step that tells nothing and moves no connection.
LEMMA ApartFrame ==
  ASSUME CInv, RInv', UNCHANGED <<events, streamOf, clients, lastSeq, background>>,
         closing' = closing \/ closing' = NotClosing
  PROVE  CInv'
<1>1. Conversations' /\ Ids' = Ids
  BY DEF CInv, Conversations, Ids, Event
<1>2. NoId \notin background /\ NotClosing.id = NoId
  BY IdFacts DEF CInv, RInv, RemoteTypeOK, NotClosing
<1>3. ConnectionsApart'
  BY <1>2 DEF CInv, ConnectionsApart, Registered
<1> QED BY <1>1, <1>3 DEF CInv

LEMMA CloseClientC ==
  ASSUME CInv, RInv', NEW s \in Streams, Registered(s), NEW streams, NEW after,
         CloseClient(s, after, streams), UNCHANGED <<events, streamOf, lastSeq, background>>
  PROVE  CInv'
<1>1. ConnectionsApart'
  BY CloseClientApart DEF CInv
<1>2. Conversations'
  BY DEF CInv, Conversations, Ids, Event
<1> QED BY <1>1, <1>2 DEF CInv

LEMMA PutOpenedC == ASSUME CInv, PutOpened PROVE CInv'
<1> DEFINE s == Current.stream
           i == Len(streamOf) + 1
<1>1. RInv /\ RInv' /\ ConnectionsApart /\ Conversations
  BY PutOpenedR DEF CInv
<1>2. s \in Streams
  BY <1>1, LogFacts, EnvelopeFacts DEF PutOpened, ReaderKnows, RInv
<1>3. /\ events' = Append(events, Event("opened", i, 0))
      /\ streamOf' = Append(streamOf, s) /\ UNCHANGED <<closing, background>>
      /\ clients' = [clients EXCEPT ![s] = i] /\ lastSeq' = [lastSeq EXCEPT ![s] = 0]
  BY DEF PutOpened, closingVars
<1>4. /\ Ids' = Ids \cup {i} /\ i \notin Ids /\ Len(streamOf) \in Nat
      /\ streamOf'[i] = s /\ \A j \in Ids : streamOf'[j] = streamOf[j]
  <2>1. streamOf \in Seq(Streams) /\ Len(streamOf) \in Nat
    BY <1>1 DEF RInv, RemoteTypeOK
  <2>2. Len(streamOf') = i /\ streamOf'[i] = s /\ \A j \in 1 .. Len(streamOf) : streamOf'[j] = streamOf[j]
    BY <1>2, <1>3, <2>1
  <2> QED BY <2>1, <2>2 DEF Ids
<1>5. \A n \in DOMAIN events : events[n].id \in Ids
  BY <1>1, IdFacts DEF RInv, Told
<1>6. Unclosed(i, events) /\ \A n \in DOMAIN events : events[n].id # i
  BY <1>4, <1>5 DEF Unclosed
<1>7. Conversations'
  BY <1>1, <1>3, <1>4, <1>6, TellKeeps
<1>8. closing.id # i /\ i \notin background /\ \A t \in Streams : clients[t] # i
  <2>1. i \notin Ids \cup {NoId}
    BY <1>4 DEF NoId
  <2>2. closing.id \in Ids \cup {NoId} /\ background \subseteq Ids
    BY <1>1 DEF RInv, RemoteTypeOK, Closings
  <2>3. \A t \in Streams : clients[t] \in Ids \cup {NoId}
    BY <1>1 DEF RInv, RemoteTypeOK
  <2> QED BY <2>1, <2>2, <2>3
<1>9. ASSUME NEW t \in Streams, Registered(t)'
      PROVE  /\ streamOf'[clients'[t]] = t /\ Unclosed(clients'[t], events')
             /\ clients'[t] \notin background' /\ closing'.id # clients'[t]
  <2>1. CASE t = s
    <3>1. clients'[t] = i
      BY <1>1, <1>3, <2>1 DEF RInv, RemoteTypeOK
    <3>2. Unclosed(i, events')
      BY <1>1, <1>3, <1>6, TellFacts
    <3>3. streamOf'[clients'[t]] = t
      BY <1>4, <2>1, <3>1
    <3> QED BY <1>3, <1>8, <3>1, <3>2, <3>3
  <2>2. CASE t # s
    <3>1. clients'[t] = clients[t] /\ clients[t] \in Ids /\ Registered(t)
      BY <1>1, <1>3, <1>9, <2>2 DEF RInv, RemoteTypeOK, Registered
    <3>2. /\ streamOf[clients[t]] = t /\ Unclosed(clients[t], events)
          /\ clients[t] \notin background /\ closing.id # clients[t]
      BY <1>1, <3>1 DEF ConnectionsApart
    <3>3. Unclosed(clients[t], events')
      BY <1>1, <1>3, <3>2, TellFacts
    <3>4. streamOf'[clients[t]] = t
      BY <1>4, <3>1, <3>2
    <3>5. Unclosed(clients'[t], events')
      BY <3>1, <3>3
    <3>6. streamOf'[clients'[t]] = t
      BY <3>1, <3>4
    <3>7. clients'[t] \notin background' /\ closing'.id # clients'[t]
      BY <1>3, <3>1, <3>2
    <3> QED BY <3>5, <3>6, <3>7
  <2> QED BY <2>1, <2>2
<1>10. ASSUME NEW t \in Streams, Registered(t)', NEW n \in DOMAIN events',
              events'[n].id = clients'[t], events'[n].kind = "message"
       PROVE  events'[n].seq <= lastSeq'[t]
  <2>1. n \in DOMAIN events /\ events'[n] = events[n]
    BY <1>1, <1>3, <1>10, TellFacts
  <2>2. t # s
    <3>1. t = s => clients'[t] = i
      BY <1>1, <1>3 DEF RInv, RemoteTypeOK
    <3> QED BY <1>6, <1>10, <2>1, <3>1
  <2>3. clients'[t] = clients[t] /\ lastSeq'[t] = lastSeq[t] /\ Registered(t)
    BY <1>1, <1>3, <1>10, <2>2 DEF RInv, RemoteTypeOK, Registered
  <2> QED BY <1>1, <1>10, <2>1, <2>3 DEF ConnectionsApart
<1>11. \A j : Unclosed(j, events) => Unclosed(j, events')
  BY <1>1, <1>3, TellFacts
<1>12. ConnectionsApart'
  BY <1>1, <1>3, <1>9, <1>10, <1>11 DEF ConnectionsApart
<1> QED BY <1>1, <1>7, <1>12 DEF CInv

LEMMA PutMessageC == ASSUME CInv, PutMessage PROVE CInv'
<1> DEFINE s == Current.stream
           i == clients[s]
           q == Current.seq
<1>1. RInv /\ RInv' /\ ConnectionsApart /\ Conversations
  BY PutMessageR DEF CInv
<1>2. s \in Streams /\ q \in Nat
  BY <1>1, LogFacts, EnvelopeFacts DEF PutMessage, ReaderKnows, RInv
<1>3. Registered(s) /\ lastSeq[s] < q
  <2>1. CASE reader = "first"
    <3>1. pos \in DOMAIN log /\ WellNumbered(log) /\ Current.kind = "initialize"
      BY <1>1, <2>1, LogFacts DEF ReaderKnows, RInv
    <3>2. q > 0
      BY <3>1 DEF WellNumbered, Current
    <3> QED BY <1>1, <2>1, <3>2 DEF ReaderKnows, RInv
  <2>2. CASE reader = "forwarding"
    BY <1>1, <2>2 DEF ReaderKnows, RInv
  <2> QED BY <2>1, <2>2 DEF PutMessage
<1>4. /\ events' = Append(events, Event("message", i, q))
      /\ UNCHANGED <<closing, background, clients, streamOf>>
      /\ lastSeq' = [lastSeq EXCEPT ![s] = q]
  BY DEF PutMessage, closingVars
<1>5. /\ Unclosed(i, events) /\ lastSeq[s] \in Nat
      /\ \A n \in DOMAIN events : events[n].id = i /\ events[n].kind = "message"
            => events[n].seq \in Nat /\ events[n].seq <= lastSeq[s]
  BY <1>1, <1>2, <1>3, IdFacts DEF ConnectionsApart, RInv, RemoteTypeOK, Told
<1>6. \A n \in DOMAIN events : events[n].id = i /\ events[n].kind = "message" => events[n].seq < q
  BY <1>2, <1>3, <1>5
<1>7. Ids' = Ids
  BY <1>4 DEF Ids
<1>8. Conversations'
  BY <1>1, <1>4, <1>5, <1>6, <1>7, TellKeeps
<1>9. \A j : Unclosed(j, events) => Unclosed(j, events')
  BY <1>1, <1>4, TellFacts
<1>10. ASSUME NEW t \in Streams, Registered(t), NEW n \in DOMAIN events',
              events'[n].id = clients[t], events'[n].kind = "message"
       PROVE  events'[n].seq <= lastSeq'[t]
  <2>1. CASE t = s
    <3>1. lastSeq'[t] = q
      BY <1>1, <1>2, <1>4, <2>1 DEF RInv, RemoteTypeOK
    <3>2. (n \in DOMAIN events /\ events'[n] = events[n]) \/ events'[n].seq = q
      BY <1>1, <1>4, TellFacts
    <3> QED BY <1>2, <1>5, <1>6, <1>10, <2>1, <3>1, <3>2
  <2>2. CASE t # s
    <3>1. clients[t] # i /\ lastSeq'[t] = lastSeq[t]
      BY <1>1, <1>2, <1>4, <1>10, <2>2, OneStream DEF RInv, RemoteTypeOK
    <3>2. n \in DOMAIN events /\ events'[n] = events[n]
      BY <1>1, <1>4, <1>10, <3>1, TellFacts
    <3> QED BY <1>1, <1>10, <3>1, <3>2 DEF ConnectionsApart
  <2> QED BY <2>1, <2>2
<1>11. ConnectionsApart'
  BY <1>1, <1>4, <1>9, <1>10 DEF ConnectionsApart, Registered
<1> QED BY <1>1, <1>8, <1>11 DEF CInv

LEMMA PutClosedC == ASSUME CInv, PutClosed PROVE CInv'
<1>1. RInv /\ RInv' /\ ConnectionsApart /\ Conversations
  BY PutClosedR DEF CInv
<1>2. /\ reader = "closing" /\ events' = Append(events, Event("closed", closing.id, 0))
      /\ UNCHANGED <<lastSeq, streamOf, background>>
  BY DEF PutClosed
<1>3. closing.id # NoId /\ Unclosed(closing.id, events) /\ Ids' = Ids
  BY <1>1, <1>2 DEF RInv, ReaderKnows, ConnectionsApart, Ids
<1>4. Conversations'
  BY <1>1, <1>2, <1>3, TellKeeps
<1>5. CASE \E s \in idle : CloseClient(s, "sweep", closing.streams)
  <2>1. PICK s \in idle : CloseClient(s, "sweep", closing.streams)
    BY <1>5
  <2>2. s \in Streams /\ Registered(s)
    BY <1>1, <1>2 DEF RInv, RemoteTypeOK, ReaderKnows
  <2>3. ConnectionsApart'
    BY <1>1, <1>2, <1>3, <2>1, <2>2, CloseClientApart
  <2> QED BY <1>1, <1>4, <2>3 DEF CInv
<1>6. CASE closing' = NotClosing /\ UNCHANGED clients
  <2>1. closing'.id = NoId
    BY <1>6 DEF NotClosing
  <2>2. \A j : Unclosed(j, events) /\ j # closing.id => Unclosed(j, events')
    BY <1>1, <1>2, TellFacts
  <2>3. ASSUME NEW t \in Streams, Registered(t), NEW n \in DOMAIN events',
               events'[n].id = clients[t], events'[n].kind = "message"
        PROVE  events'[n].seq <= lastSeq[t]
    <3>1. n \in DOMAIN events /\ events'[n] = events[n]
      BY <1>1, <1>2, <2>3, TellFacts
    <3> QED BY <1>1, <2>3, <3>1 DEF ConnectionsApart
  <2>4. NoId \notin background
    BY <1>1, IdFacts DEF RInv, RemoteTypeOK
  <2>5. ConnectionsApart'
    BY <1>1, <1>2, <1>6, <2>1, <2>2, <2>3, <2>4 DEF ConnectionsApart, Registered
  <2> QED BY <1>1, <1>4, <2>5 DEF CInv
<1>7. closing.after \in {"reopen", "record", "bookkeep", "sweep"}
  BY <1>1, <1>2 DEF RInv, RemoteTypeOK, Closings, ReaderKnows
<1> QED BY <1>5, <1>6, <1>7 DEF PutClosed

LEMMA ReaderEndsC == ASSUME CInv, ReaderEnds PROVE CInv'
<1>1. RInv /\ RInv' /\ ConnectionsApart /\ Conversations
  BY ReaderEndsR DEF CInv
<1>2. UNCHANGED <<events, streamOf, lastSeq>> /\ closing' = NotClosing
  BY DEF ReaderEnds
<1>3. CASE reader = "first"
  <2> DEFINE s == Current.stream
  <2>1. s \in Streams /\ Registered(s)
    BY <1>1, <1>3, LogFacts, EnvelopeFacts DEF RInv, ReaderKnows
  <2>2. /\ clients'[s] = NoId /\ \A t \in Streams : t # s => clients'[t] = clients[t]
        /\ background' = background \cup {clients[s]}
    BY <1>1, <1>3, <2>1 DEF ReaderEnds, RInv, RemoteTypeOK
  <2>3. ASSUME NEW t \in Streams, Registered(t)'
        PROVE  /\ Registered(t) /\ clients'[t] = clients[t] /\ clients[t] # clients[s]
    BY <1>1, <2>1, <2>2, <2>3, OneStream DEF Registered
  <2>4. closing'.id = NoId
    BY <1>2 DEF NotClosing
  <2>5. \A t \in Streams : Registered(t) => clients[t] # NoId
    BY DEF Registered
  <2>6. NoId \notin background'
    BY <1>1, <2>1, <2>2, <2>5, IdFacts DEF RInv, RemoteTypeOK
  <2>7. ConnectionsApart'
    BY <1>1, <1>2, <2>1, <2>2, <2>3, <2>4, <2>5, <2>6 DEF ConnectionsApart
  <2>8. Conversations'
    BY <1>1, <1>2 DEF Conversations, Ids, Event
  <2> QED BY <1>1, <2>7, <2>8 DEF CInv
<1>4. CASE reader # "first"
  BY <1>1, <1>2, <1>4, ApartFrame DEF ReaderEnds
<1> QED BY <1>3, <1>4

LEMMA PutClosedLaterC == ASSUME CInv, NEW i \in Ids, PutClosedLater(i) PROVE CInv'
<1>1. RInv /\ RInv' /\ ConnectionsApart /\ Conversations
  BY OthersR DEF CInv
<1>2. /\ i \in background /\ background' = background \ {i} /\ Unclosed(i, events)
      /\ events' = Append(events, Event("closed", i, 0))
      /\ UNCHANGED <<lastSeq, streamOf, clients, closing>> /\ Ids' = Ids
  BY <1>1 DEF PutClosedLater, trackerVars, closingVars, ConnectionsApart, Ids
<1>3. Conversations'
  BY <1>1, <1>2, TellKeeps
<1>4. \A j : Unclosed(j, events) /\ j # i => Unclosed(j, events')
  BY <1>1, <1>2, TellFacts
<1>5. ASSUME NEW t \in Streams, Registered(t), NEW n \in DOMAIN events',
             events'[n].id = clients[t], events'[n].kind = "message"
      PROVE  events'[n].seq <= lastSeq[t]
  <2>1. n \in DOMAIN events /\ events'[n] = events[n]
    BY <1>1, <1>2, <1>5, TellFacts
  <2> QED BY <1>1, <1>5, <2>1 DEF ConnectionsApart
<1>6. ConnectionsApart'
  BY <1>1, <1>2, <1>4, <1>5 DEF ConnectionsApart, Registered
<1> QED BY <1>1, <1>3, <1>6 DEF CInv

LEMMA ConversationsInit == Init => CInv
BY ReaderInit DEF Init, CInv, ConnectionsApart, Conversations, Registered, Ids, NotClosing

LEMMA ConversationsStep == CInv /\ [Next]_vars => CInv'
<1> SUFFICES ASSUME CInv, [Next]_vars PROVE CInv'
  OBVIOUS
<1>1. RInv /\ RInv'
  BY ReaderStepR DEF CInv
<1>2. CASE ReceiveInitialize \/ ReceiveClosed
  <2>1. Current.stream \in Streams
    BY <1>1, <1>2, LogFacts, EnvelopeFacts DEF RInv, ReceiveInitialize, ReceiveClosed
  <2> QED BY <1>1, <1>2, <2>1, CloseClientC, ApartFrame DEF ReceiveInitialize, ReceiveClosed, eventVars
<1>3. CASE Bookkeep
  <2>1. got \in Streams
    BY <1>1, <1>3 DEF RInv, RemoteTypeOK, Bookkeep
  <2> QED BY <1>1, <1>3, <2>1, CloseClientC, ApartFrame DEF Bookkeep, eventVars
<1>4. CASE Sweep
  BY <1>1, <1>4, CloseClientC DEF Sweep, eventVars
<1>5. CASE UNCHANGED <<events, streamOf, clients, lastSeq, background, closing>>
  BY <1>1, <1>5, ApartFrame
<1>6. CASE \E i \in Ids : PutClosedLater(i)
  BY <1>6, PutClosedLaterC
<1>7. \/ ReceiveInitialize \/ ReceiveClosed \/ PutOpened \/ PutMessage \/ PutClosed
      \/ Bookkeep \/ Sweep \/ ReaderEnds \/ \E i \in Ids : PutClosedLater(i)
      \/ UNCHANGED <<events, streamOf, clients, lastSeq, background, closing>>
  BY DEF Next, ReaderStep, ReceiveChunk, ReceiveMessage, Reconnect, BookkeepGets, AppTakes,
     TaskEnds, AppDisconnects, trackerVars, closingVars, eventVars, vars
<1> QED BY <1>2, <1>3, <1>4, <1>5, <1>6, <1>7, PutOpenedC, PutMessageC, PutClosedC, ReaderEndsC

\* What the app server is told of each virtual connection is a conversation,
\* however often the websocket is lost and envelopes are sent again, and
\* however closes, disconnections and full queues come between.
THEOREM ConversationsHold == Spec => []Conversations
<1>1. Spec => []CInv
  BY ConversationsInit, ConversationsStep, PTL DEF Spec
<1> QED BY <1>1, PTL DEF CInv
-----------------------------------------------------------------------------
\* The reader learns from the outbound task of connection i, or has learned.
Reported(i) == streamOf[i] = got \/ \E n \in DOMAIN completed : completed[n] = streamOf[i]

ToldClosed(i) == \E n \in DOMAIN events : events[n] = Event("closed", i, 0)

\* Connection i is announced closed, or somebody still has to announce it.
Pending(i) ==
    \/ i \in background \/ closing.id = i
    \/ ToldClosed(i)
    \/ clients[streamOf[i]] = i /\ (i \in ended => Reported(i))

LEMMA ToldStays ==
  ASSUME RInv, NEW kind, NEW i, NEW q,
         UNCHANGED events \/ events' = Append(events, Event(kind, i, q))
  PROVE  /\ \A j : ToldClosed(j) => ToldClosed(j)'
         /\ (events' = Append(events, Event(kind, i, q)) /\ kind = "closed" /\ q = 0)
               => ToldClosed(i)'
<1>1. CASE UNCHANGED events
  <2>1. \A j : ToldClosed(j) => ToldClosed(j)'
    BY <1>1 DEF ToldClosed, Event
  <2>2. events' # Append(events, Event(kind, i, q))
    BY <1>1, IdFacts DEF RInv, RemoteTypeOK
  <2> QED BY <2>1, <2>2
<1>2. CASE events' = Append(events, Event(kind, i, q))
  <2>1. /\ DOMAIN events' = DOMAIN events \cup {Len(events) + 1}
        /\ \A n \in DOMAIN events : events'[n] = events[n]
        /\ events'[Len(events) + 1] = Event(kind, i, q)
    BY <1>2, TellFacts
  <2> QED BY <2>1 DEF ToldClosed, Event
<1> QED BY <1>1, <1>2

\* A step that cancels nobody and lets nobody off.
LEMMA PendingFrame ==
  ASSUME DInv, RInv',
         UNCHANGED <<drops, cancelled, ended, background, closing, events, clients, streamOf,
                     got, completed, orphans>>,
         \/ UNCHANGED <<reader, log, pos>>
         \/ reader' \in {"idle", "first", "forwarding"}
         \/ reader' = "opening" /\ ~ Registered(Current.stream)'
  PROVE  DInv'
<1>1. DisconnectIsPending'
  BY DEF DInv, DisconnectIsPending, Event
<1>2. Ids' = Ids /\ \A s \in Streams : Registered(s)' <=> Registered(s)
  BY DEF Ids, Registered
<1>3. closing'.after = "reopen" => reader' = "closing"
  BY DEF DInv, RInv, ReaderKnows, NotClosing
<1>4. reader' = "opening" \/ closing'.after = "reopen" => ~ Registered(Current.stream)'
  BY <1>3 DEF DInv, OpenStreamsKnown, Current, Registered
<1>5. OpenStreamsKnown'
  BY <1>2, <1>4 DEF DInv, OpenStreamsKnown, Registered
<1> QED BY <1>1, <1>5 DEF DInv

\* Closing a stream's connection hands it to the reader, which has announced the
\* one before.
LEMMA PendingClose ==
  ASSUME DInv, RInv', NEW s \in Streams, Registered(s), NEW streams, NEW after,
         CloseClient(s, after, streams),
         UNCHANGED <<log, pos, ended, background, streamOf, got, completed, drops, orphans>>,
         after = "reopen" => Current.stream = s, after = "bookkeep" => got = s /\ got # NoStream,
         \/ UNCHANGED events /\ closing.id = NoId
         \/ events' = Append(events, Event("closed", closing.id, 0))
  PROVE  DInv'
<1>1. /\ RInv /\ OpenStreamsKnown /\ DisconnectIsPending
      /\ Ids' = Ids /\ NoId \notin Ids /\ cancelled \subseteq Ids
      /\ \A i \in Ids : streamOf[i] \in Streams
  BY IdFacts DEF DInv, RInv, RemoteTypeOK, Ids
<1>2. /\ clients'[s] = NoId /\ \A t \in Streams : t # s => clients'[t] = clients[t]
      /\ closing'.id = clients[s] /\ closing'.after = after /\ reader' = "closing"
      /\ cancelled' = cancelled \cup {clients[s]} /\ clients[s] # NoId
  BY <1>1 DEF CloseClient, RInv, RemoteTypeOK, Registered
<1>3. ASSUME drops = 0, NEW i \in cancelled' PROVE Pending(i)'
  <2>1. CASE i = clients[s]
    BY <1>2, <2>1 DEF Pending
  <2>2. CASE i # clients[s]
    <3>1. i \in cancelled /\ i \in Ids /\ Pending(i)
      BY <1>1, <1>2, <1>3, <2>2 DEF DisconnectIsPending, Pending, ToldClosed, Reported
    <3>2. ToldClosed(i) \/ closing.id = i => ToldClosed(i)'
      <4>1. closing.id = i => events' = Append(events, Event("closed", i, 0))
        BY <1>1, <3>1
      <4> QED BY <1>1, <4>1, ToldStays
    <3>3. Reported(i)' <=> Reported(i)
      BY DEF Reported
    <3>4. clients[streamOf[i]] = i => clients'[streamOf'[i]] = i
      BY <1>1, <1>2, <2>2, <3>1
    <3> QED BY <3>1, <3>2, <3>3, <3>4 DEF Pending
  <2> QED BY <2>1, <2>2
<1>4. DisconnectIsPending'
  BY <1>3 DEF DisconnectIsPending, Pending, ToldClosed, Reported
<1>5. /\ \A t \in Streams : Registered(t)' => t # s /\ Registered(t) /\ clients'[t] = clients[t]
      /\ ~ Registered(s)'
  BY <1>2 DEF Registered
<1>6. \A i \in Ids' \ cancelled' : clients'[streamOf'[i]] = i
  <2> SUFFICES ASSUME NEW i \in Ids, i \notin cancelled, i # clients[s]
               PROVE  clients'[streamOf[i]] = i
    BY <1>1, <1>2
  <2>1. clients[streamOf[i]] = i
    BY <1>1 DEF OpenStreamsKnown
  <2> QED BY <1>1, <1>2, <2>1
<1>7. /\ closing'.after = "reopen" => ~ Registered(Current.stream)'
      /\ closing'.after = "bookkeep" => got' # NoStream /\ ~ Registered(got)'
  BY <1>2, <1>5 DEF Registered, Current
<1>8. OpenStreamsKnown'
  BY <1>1, <1>2, <1>5, <1>6, <1>7 DEF OpenStreamsKnown
<1> QED BY <1>4, <1>8 DEF DInv

LEMMA PutOpenedD == ASSUME DInv, PutOpened PROVE DInv'
<1> DEFINE s == Current.stream
           new == Len(streamOf) + 1
<1>1. /\ RInv /\ RInv' /\ OpenStreamsKnown /\ DisconnectIsPending
      /\ NoId \notin Ids /\ cancelled \subseteq Ids /\ \A i \in Ids : streamOf[i] \in Streams
      /\ ~ Registered(s)
  BY PutOpenedR, IdFacts DEF DInv, RInv, RemoteTypeOK, OpenStreamsKnown, PutOpened
<1>2. s \in Streams
  BY <1>1, LogFacts, EnvelopeFacts DEF PutOpened, ReaderKnows, RInv
<1>3. /\ events' = Append(events, Event("opened", new, 0)) /\ reader' = "first"
      /\ streamOf' = Append(streamOf, s) /\ clients' = [clients EXCEPT ![s] = new]
      /\ UNCHANGED <<closing, background, cancelled, ended, got, completed, orphans, drops>>
  BY DEF PutOpened, closingVars, wireVars, taskVars
<1>4. /\ Ids' = Ids \cup {new} /\ new \notin Ids
      /\ streamOf'[new] = s /\ \A i \in Ids : streamOf'[i] = streamOf[i]
  <2>1. streamOf \in Seq(Streams) /\ Len(streamOf) \in Nat
    BY <1>1 DEF RInv, RemoteTypeOK
  <2>2. Len(streamOf') = new /\ streamOf'[new] = s
        /\ \A i \in 1 .. Len(streamOf) : streamOf'[i] = streamOf[i]
    BY <1>2, <1>3, <2>1
  <2> QED BY <2>1, <2>2 DEF Ids
<1>5. clients'[s] = new /\ \A t \in Streams : t # s => clients'[t] = clients[t]
  <2>1. clients \in [Streams -> Ids \cup {NoId}]
    BY <1>1 DEF RInv, RemoteTypeOK
  <2> QED BY <1>2, <1>3, <2>1
<1>6. \A i \in Ids : clients[streamOf[i]] = i => streamOf[i] # s
  BY <1>1 DEF Registered
<1>7. ASSUME drops = 0, NEW i \in cancelled' PROVE Pending(i)'
  <2>1. i \in Ids /\ Pending(i)
    BY <1>1, <1>3, <1>7 DEF DisconnectIsPending, Pending, ToldClosed, Reported
  <2>2. ToldClosed(i) => ToldClosed(i)'
    BY <1>1, <1>3, ToldStays
  <2>3. Reported(i) => Reported(i)'
    BY <1>3, <1>4, <2>1 DEF Reported
  <2>4. clients[streamOf[i]] = i => clients'[streamOf'[i]] = i
    BY <1>1, <1>4, <1>5, <1>6, <2>1
  <2> QED BY <1>3, <2>1, <2>2, <2>3, <2>4 DEF Pending
<1>8. DisconnectIsPending'
  BY <1>3, <1>7 DEF DisconnectIsPending, Pending, ToldClosed, Reported
<1>9. \A t \in Streams : Registered(t)' => streamOf'[clients'[t]] = t
  <2> SUFFICES ASSUME NEW t \in Streams, Registered(t)', t # s
               PROVE  streamOf'[clients'[t]] = t
    BY <1>4, <1>5
  <2>1. clients'[t] = clients[t] /\ Registered(t) /\ clients[t] \in Ids
    BY <1>1, <1>5 DEF Registered, RInv, RemoteTypeOK
  <2> QED BY <1>1, <1>4, <2>1 DEF OpenStreamsKnown
<1>10. \A i \in Ids' \ cancelled' : clients'[streamOf'[i]] = i
  <2> SUFFICES ASSUME NEW i \in Ids, i \notin cancelled PROVE clients'[streamOf'[i]] = i
    BY <1>3, <1>4, <1>5
  <2>1. clients[streamOf[i]] = i
    BY <1>1 DEF OpenStreamsKnown
  <2> QED BY <1>1, <1>4, <1>5, <1>6, <2>1
<1>11. closing'.after = "nothing"
  BY <1>1, <1>3 DEF RInv, ReaderKnows, NotClosing, PutOpened
<1>12. OpenStreamsKnown'
  BY <1>1, <1>3, <1>9, <1>10, <1>11 DEF OpenStreamsKnown
<1> QED BY <1>1, <1>8, <1>12 DEF DInv

\* A step that only tells of something, or ends the announcement of a close.
LEMMA PendingTold ==
  ASSUME DInv, RInv', NEW kind, NEW i, NEW q, events' = Append(events, Event(kind, i, q)),
         UNCHANGED <<drops, cancelled, ended, clients, streamOf, completed, orphans, log>>,
         \A j \in background \ background' : j = i /\ kind = "closed" /\ q = 0,
         \/ closing' = closing
         \/ closing' = NotClosing /\ kind = "closed" /\ q = 0 /\ closing.id = i,
         got' = got \/ (got' = NoStream /\ ~ Registered(got)),
         got' = got \/ closing' = NotClosing,
         reader' = "opening" \/ closing'.after = "reopen"
            => pos' = pos /\ (reader = "opening" \/ closing.after = "reopen"),
         reader' = "off" => reader = "off"
  PROVE  DInv'
<1>1. /\ RInv /\ OpenStreamsKnown /\ DisconnectIsPending
      /\ Ids' = Ids /\ NoId \notin Ids /\ cancelled \subseteq Ids
      /\ \A j \in Ids : streamOf[j] \in Streams
  BY IdFacts DEF DInv, RInv, RemoteTypeOK, Ids
<1>2. ASSUME drops = 0, NEW j \in cancelled PROVE Pending(j)'
  <2>1. j \in Ids /\ Pending(j)
    BY <1>1, <1>2 DEF DisconnectIsPending, Pending, ToldClosed, Reported
  <2>2. ToldClosed(j) => ToldClosed(j)'
    BY <1>1, ToldStays
  <2>3. j \in background => Pending(j)'
    <3>1. CASE j \in background'
      BY <3>1 DEF Pending
    <3>2. CASE j \in background /\ j \notin background'
      <4>1. events' = Append(events, Event("closed", j, 0))
        BY <3>2
      <4> QED BY <1>1, <4>1, ToldStays DEF Pending
    <3> QED BY <3>1, <3>2
  <2>4. closing.id = j => Pending(j)'
    <3>1. CASE closing' = closing
      BY <3>1 DEF Pending
    <3>2. CASE closing' # closing
      <4>1. closing.id = j => events' = Append(events, Event("closed", j, 0))
        BY <3>2
      <4> QED BY <1>1, <4>1, ToldStays DEF Pending
    <3> QED BY <3>1, <3>2
  <2>5. ASSUME clients[streamOf[j]] = j, j \in ended => Reported(j)
        PROVE  Pending(j)'
    <3>1. Registered(streamOf[j])
      BY <1>1, <2>1, <2>5 DEF Registered
    <3>2. j \in ended => Reported(j)'
      BY <2>5, <3>1 DEF Reported
    <3> QED BY <2>5, <3>2 DEF Pending
  <2> QED BY <2>1, <2>2, <2>3, <2>4, <2>5 DEF Pending
<1>3. DisconnectIsPending'
  BY <1>2 DEF DisconnectIsPending, Pending, ToldClosed, Reported
<1>4. \A s : Registered(s)' <=> Registered(s)
  BY DEF Registered
<1>5. reader' = "opening" \/ closing'.after = "reopen" => ~ Registered(Current.stream)'
  BY <1>1 DEF OpenStreamsKnown, Registered, Current
<1>6. closing'.after = "bookkeep" => got' # NoStream /\ ~ Registered(got)'
  BY <1>1 DEF OpenStreamsKnown, Registered, NotClosing
<1>7. OpenStreamsKnown'
  BY <1>1, <1>4, <1>5, <1>6 DEF OpenStreamsKnown
<1> QED BY <1>3, <1>7 DEF DInv

LEMMA PutMessageD == ASSUME DInv, PutMessage PROVE DInv'
<1>1. RInv /\ RInv' /\ reader' = "idle" /\ closing = NotClosing /\ closing' = closing
  BY PutMessageR DEF DInv, PutMessage, RecordDelivery, RInv, ReaderKnows, closingVars
<1>2. /\ UNCHANGED <<drops, cancelled, ended, clients, streamOf, completed, orphans, log, got,
                     background>>
      /\ events' = Append(events, Event("message", clients[Current.stream], Current.seq))
  BY DEF PutMessage, RecordDelivery, taskVars
<1>3. closing'.after # "reopen"
  BY <1>1 DEF NotClosing
<1> QED BY <1>1, <1>2, <1>3, PendingTold

LEMMA PutClosedD == ASSUME DInv, PutClosed PROVE DInv'
<1>1. RInv /\ RInv' /\ OpenStreamsKnown
  BY PutClosedR DEF DInv
<1>2. /\ reader = "closing" /\ events' = Append(events, Event("closed", closing.id, 0))
      /\ UNCHANGED <<streamOf, ended, completed, orphans, background>>
      /\ closing.after \in {"reopen", "record", "bookkeep", "sweep"}
  BY <1>1 DEF PutClosed, RInv, ReaderKnows, RemoteTypeOK, Closings
<1>3. CASE closing.after = "reopen" \/ closing.after = "record" \/ closing.after = "bookkeep"
           \/ (closing.after = "sweep" /\ idle = {})
  <2>1. /\ UNCHANGED <<drops, log, cancelled, clients>> /\ closing' = NotClosing
        /\ (reader' = "opening" /\ closing.after = "reopen" /\ pos' = pos) \/ reader' = "idle"
        /\ got' = got \/ (got' = NoStream /\ closing.after = "bookkeep")
    BY <1>2, <1>3 DEF PutClosed, RecordDelivery, wireVars
  <2>2. closing'.after # "reopen"
    BY <2>1 DEF NotClosing
  <2>3. got' = got \/ (got' = NoStream /\ ~ Registered(got))
    BY <1>1, <2>1 DEF OpenStreamsKnown
  <2>4. reader' # "off" /\ closing.id = closing.id
    BY <2>1
  <2> QED BY <1>1, <1>2, <2>1, <2>2, <2>3, <2>4, PendingTold
<1>4. CASE closing.after = "sweep" /\ idle # {}
  <2>1. UNCHANGED <<log, pos, drops, got>>
    BY <1>4 DEF PutClosed, wireVars
  <2>2. PICK s \in idle : CloseClient(s, "sweep", closing.streams)
    BY <1>4 DEF PutClosed
  <2>3. s \in Streams /\ Registered(s)
    BY <1>1, <1>2 DEF RInv, RemoteTypeOK, ReaderKnows
  <2> QED BY <1>1, <1>2, <2>1, <2>2, <2>3, PendingClose
<1> QED BY <1>2, <1>3, <1>4

LEMMA ReaderEndsD == ASSUME DInv, ReaderEnds PROVE DInv'
<1>1. /\ RInv /\ RInv' /\ OpenStreamsKnown
      /\ Ids' = Ids /\ NoId \notin Ids /\ \A i \in Ids : streamOf[i] \in Streams
  BY ReaderEndsR, IdFacts DEF DInv, RInv, ReaderEnds, Ids
<1>2. drops' > 0 /\ reader' = "off" /\ closing' = NotClosing /\ streamOf' = streamOf
  BY <1>1 DEF ReaderEnds, RInv, RemoteTypeOK
<1>3. \/ clients' = clients /\ cancelled' = cancelled
      \/ \E s \in Streams : /\ clients' = [clients EXCEPT ![s] = NoId]
                            /\ cancelled' = cancelled \cup {clients[s]}
  <2>1. CASE reader = "first"
    <3>1. Current.stream \in Streams
      BY <1>1, <2>1, LogFacts, EnvelopeFacts DEF RInv, ReaderKnows
    <3> QED BY <2>1, <3>1 DEF ReaderEnds
  <2>2. CASE reader # "first"
    BY <2>2 DEF ReaderEnds
  <2> QED BY <2>1, <2>2
<1>4. clients \in [Streams -> Ids \cup {NoId}]
  BY <1>1 DEF RInv, RemoteTypeOK
<1>5. \A t \in Streams : Registered(t)' => Registered(t) /\ clients'[t] = clients[t]
  BY <1>3, <1>4 DEF Registered
<1>6. \A i \in Ids \ cancelled' : clients'[streamOf[i]] = i
  <2> SUFFICES ASSUME NEW i \in Ids, i \notin cancelled' PROVE clients'[streamOf[i]] = i
    OBVIOUS
  <2>1. clients[streamOf[i]] = i /\ streamOf[i] \in Streams
    BY <1>1, <1>3 DEF OpenStreamsKnown
  <2> QED BY <1>3, <1>4, <2>1
<1>7. OpenStreamsKnown'
  BY <1>1, <1>2, <1>5, <1>6 DEF OpenStreamsKnown, NotClosing
<1>8. DisconnectIsPending'
  BY <1>1, <1>2 DEF DisconnectIsPending, ReaderEnds, RInv, RemoteTypeOK
<1> QED BY <1>1, <1>7, <1>8 DEF DInv

\* A step that changes only who is told of outbound tasks, and cancels at most
\* a connection that is registered.
LEMMA PendingTasks ==
  ASSUME DInv, RInv', UNCHANGED <<drops, reader, log, pos, background, closing, events, clients, streamOf>>,
         cancelled \subseteq cancelled', drops = 0 => orphans' = 0,
         closing.after = "bookkeep" => got' = got,
         \A i \in Ids : i \in cancelled' => i \in cancelled \/ (clients[streamOf[i]] = i /\ i \notin ended'),
         \A i \in Ids : i \in ended' /\ (i \in ended => Reported(i)) /\ drops = 0 => Reported(i)'
  PROVE  DInv'
<1>1. /\ RInv /\ OpenStreamsKnown /\ DisconnectIsPending /\ Ids' = Ids /\ cancelled' \subseteq Ids
  BY DEF DInv, RInv, RemoteTypeOK, Ids
<1>2. ASSUME drops = 0, NEW i \in cancelled' PROVE Pending(i)'
  <2>1. ToldClosed(i)' <=> ToldClosed(i)
    BY DEF ToldClosed, Event
  <2>2. CASE i \in cancelled
    <3>1. Pending(i) /\ i \in Ids
      BY <1>1, <1>2, <2>2 DEF DisconnectIsPending, Pending, ToldClosed, Reported
    <3> QED BY <1>2, <2>1, <3>1 DEF Pending
  <2>3. CASE i \notin cancelled
    BY <1>1, <1>2, <2>3 DEF Pending
  <2> QED BY <2>2, <2>3
<1>3. DisconnectIsPending'
  BY <1>2 DEF DisconnectIsPending, Pending, ToldClosed, Reported
<1>4. OpenStreamsKnown'
  BY <1>1 DEF OpenStreamsKnown, Registered, Current
<1> QED BY <1>3, <1>4 DEF DInv

LEMMA BookkeepGetsD == ASSUME DInv, BookkeepGets PROVE DInv'
<1>1. RInv /\ RInv' /\ OpenStreamsKnown
  BY OthersR DEF DInv
<1>2. /\ got = NoStream /\ got' = Head(completed) /\ completed' = Tail(completed)
      /\ UNCHANGED <<drops, reader, log, pos, background, closing, events, clients, streamOf,
                     cancelled, ended, orphans>>
  BY DEF BookkeepGets, wireVars, trackerVars, closingVars, eventVars
<1>3. closing.after # "bookkeep"
  BY <1>1, <1>2 DEF OpenStreamsKnown
<1>4. ASSUME NEW i \in Ids, Reported(i) PROVE Reported(i)'
  <2>1. streamOf[i] # NoStream
    BY <1>1, IdFacts, RemoteAssumption DEF RInv
  <2>2. PICK n \in DOMAIN completed : completed[n] = streamOf[i]
    BY <1>2, <1>4, <2>1 DEF Reported
  <2>3. completed \in Seq(Streams) /\ Len(completed) \in Nat
    BY <1>1 DEF RInv, RemoteTypeOK
  <2>4. CASE n = 1
    BY <1>2, <2>2, <2>3, <2>4 DEF Reported
  <2>5. CASE n # 1
    <3>1. n - 1 \in DOMAIN completed' /\ completed'[n - 1] = completed[n]
      BY <1>2, <2>2, <2>3, <2>5
    <3> QED BY <1>2, <2>2, <3>1 DEF Reported
  <2> QED BY <2>4, <2>5
<1>5. drops = 0 => orphans' = 0
  BY <1>1, <1>2 DEF OpenStreamsKnown
<1> QED BY <1>1, <1>2, <1>3, <1>4, <1>5, PendingTasks

LEMMA TaskEndsD == ASSUME DInv, NEW i \in Ids, TaskEnds(i) PROVE DInv'
<1>1. RInv /\ RInv' /\ OpenStreamsKnown
  BY OthersR DEF DInv
<1>2. /\ UNCHANGED <<drops, reader, log, pos, background, closing, events, clients, streamOf,
                     cancelled, got>>
      /\ i \in cancelled /\ ended' = ended \cup {i}
      /\ orphans = 0 => completed' = Append(completed, streamOf[i]) /\ orphans' = orphans
  BY <1>1 DEF TaskEnds, wireVars, trackerVars, closingVars, eventVars
<1>3. drops = 0 => orphans = 0
  BY <1>1 DEF OpenStreamsKnown
<1>4. ASSUME drops = 0, NEW j \in Ids, j \in ended', j \in ended => Reported(j)
      PROVE  Reported(j)'
  <2>1. completed \in Seq(Streams) /\ Len(completed) \in Nat /\ streamOf[i] \in Streams
    <3>1. RemoteTypeOK
      BY <1>1 DEF RInv
    <3>2. completed \in Seq(Streams)
      BY <3>1 DEF RemoteTypeOK
    <3> QED BY <3>1, <3>2, IdFacts
  <2>2. /\ DOMAIN completed' = 1 .. Len(completed) + 1
        /\ \A n \in DOMAIN completed : n \in DOMAIN completed' /\ completed'[n] = completed[n]
        /\ completed'[Len(completed) + 1] = streamOf[i]
    BY <1>2, <1>3, <1>4, <2>1
  <2>3. CASE j = i
    BY <1>2, <2>1, <2>2, <2>3 DEF Reported
  <2>4. CASE j # i
    BY <1>2, <1>4, <2>2, <2>4 DEF Reported
  <2> QED BY <2>3, <2>4
<1>5. drops = 0 => orphans' = 0
  BY <1>2, <1>3
<1> QED BY <1>1, <1>2, <1>4, <1>5, PendingTasks

LEMMA AppDisconnectsD == ASSUME DInv, NEW i \in Ids, AppDisconnects(i) PROVE DInv'
<1>1. /\ RInv /\ RInv' /\ OpenStreamsKnown /\ ended \subseteq cancelled
  BY OthersR DEF DInv, RInv, RemoteTypeOK
<1>2. /\ UNCHANGED <<drops, reader, log, pos, background, closing, events, clients, streamOf,
                     ended, got, completed, orphans>>
      /\ i \notin cancelled /\ cancelled' = cancelled \cup {i}
  BY DEF AppDisconnects, wireVars, trackerVars, closingVars, eventVars
<1>3. clients[streamOf[i]] = i /\ i \notin ended /\ (drops = 0 => orphans' = 0)
  BY <1>1, <1>2 DEF OpenStreamsKnown
<1>4. \A j \in Ids : j \in ended' /\ (j \in ended => Reported(j)) => Reported(j)'
  BY <1>2 DEF Reported
<1> QED BY <1>1, <1>2, <1>3, <1>4, PendingTasks

LEMMA PutClosedLaterD == ASSUME DInv, NEW i \in Ids, PutClosedLater(i) PROVE DInv'
<1>1. RInv'
  BY OthersR DEF DInv
<1>2. /\ events' = Append(events, Event("closed", i, 0)) /\ background' = background \ {i}
      /\ UNCHANGED <<drops, cancelled, ended, clients, streamOf, completed, orphans, log,
                     closing, got, reader, pos>>
  BY DEF PutClosedLater, wireVars, trackerVars, taskVars, closingVars
<1> QED BY <1>1, <1>2, PendingTold

LEMMA BookkeepIdle == ASSUME DInv, Bookkeep, ~ Registered(got) PROVE DInv'
<1>1. RInv /\ RInv' /\ OpenStreamsKnown /\ DisconnectIsPending
  BY BookkeepR DEF DInv
<1>2. /\ UNCHANGED <<drops, reader, log, pos, background, closing, events, clients, streamOf,
                     cancelled, ended, orphans, completed>>
      /\ got' = NoStream /\ closing.after # "bookkeep"
  BY <1>1 DEF Bookkeep, wireVars, eventVars, RInv, ReaderKnows, NotClosing
<1>3. ASSUME NEW i \in Ids, clients[streamOf[i]] = i, Reported(i) PROVE Reported(i)'
  <2>1. streamOf[i] # got
    BY <1>1, <1>3, IdFacts DEF RInv, Registered
  <2> QED BY <1>2, <1>3, <2>1 DEF Reported
<1>4. Ids' = Ids /\ cancelled \subseteq Ids
  BY <1>1, <1>2 DEF Ids, RInv, RemoteTypeOK
<1>5. ASSUME drops = 0, NEW i \in cancelled PROVE Pending(i)'
  <2>1. Pending(i) /\ i \in Ids
    BY <1>1, <1>4, <1>5 DEF DisconnectIsPending, Pending, ToldClosed, Reported
  <2>2. ToldClosed(i) => ToldClosed(i)'
    BY <1>2 DEF ToldClosed, Event
  <2> QED BY <1>2, <1>3, <2>1, <2>2 DEF Pending
<1>6. DisconnectIsPending'
  BY <1>2, <1>5 DEF DisconnectIsPending, Pending, ToldClosed, Reported
<1>7. OpenStreamsKnown'
  BY <1>1, <1>2, <1>4 DEF OpenStreamsKnown, Registered, Current
<1> QED BY <1>1, <1>6, <1>7 DEF DInv

LEMMA DisconnectsInit == Init => DInv
BY ReaderInit, RemoteAssumption
   DEF Init, DInv, OpenStreamsKnown, DisconnectIsPending, Registered, Ids, NotClosing

LEMMA DisconnectsStep == DInv /\ [Next]_vars => DInv'
<1> SUFFICES ASSUME DInv, [Next]_vars PROVE DInv'
  OBVIOUS
<1>1. RInv /\ RInv'
  BY ReaderStepR DEF DInv
<1>2. CASE ReceiveInitialize \/ ReceiveClosed
  <2>1. Current.stream \in Streams /\ closing = NotClosing
    BY <1>1, <1>2, LogFacts, EnvelopeFacts
       DEF RInv, ReaderKnows, ReceiveInitialize, ReceiveClosed
  <2>2. UNCHANGED <<ended, background, events, streamOf, got, completed, drops, orphans, log>>
    BY <1>2 DEF ReceiveInitialize, ReceiveClosed, RecordDelivery, wireVars, eventVars
  <2>3. CASE Registered(Current.stream)
    <3>1. /\ \/ CloseClient(Current.stream, "reopen", {})
             \/ CloseClient(Current.stream, "record", {Current.stream})
          /\ pos' = pos
      BY <1>2, <2>3 DEF ReceiveInitialize, ReceiveClosed, wireVars
    <3>2. closing.id = NoId
      BY <2>1 DEF NotClosing
    <3> QED BY <1>1, <2>1, <2>2, <2>3, <3>1, <3>2, PendingClose
  <2>4. CASE ~ Registered(Current.stream)
    <3>1. UNCHANGED <<closing, cancelled, clients>>
      BY <1>2, <2>4 DEF ReceiveInitialize, ReceiveClosed
    <3>2. reader' = "idle" \/ (reader' = "opening" /\ ~ Registered(Current.stream)')
      BY <1>2, <2>4, <3>1 DEF ReceiveInitialize, ReceiveClosed, RecordDelivery, wireVars,
         Registered, Current
    <3> QED BY <1>1, <2>2, <3>1, <3>2, PendingFrame
  <2> QED BY <2>3, <2>4
<1>3. CASE Bookkeep
  <2>1. got \in Streams /\ closing = NotClosing /\ closing.id = NoId
    BY <1>1, <1>3 DEF RInv, RemoteTypeOK, ReaderKnows, Bookkeep, NotClosing
  <2>2. CASE Registered(got)
    BY <1>1, <1>3, <2>1, <2>2, PendingClose DEF Bookkeep, wireVars, eventVars
  <2>3. CASE ~ Registered(got)
    BY <1>1, <1>3, <2>1, <2>3, BookkeepIdle
  <2> QED BY <2>2, <2>3
<1>4. CASE Sweep
  <2>1. PICK expired \in SUBSET {s \in Streams : Registered(s)} :
          \E s \in expired : CloseClient(s, "sweep", expired)
    BY <1>4 DEF Sweep
  <2>2. PICK s \in expired : CloseClient(s, "sweep", expired)
    BY <2>1
  <2>3. closing.id = NoId
    BY <1>1, <1>4 DEF RInv, ReaderKnows, Sweep, NotClosing
  <2> QED BY <1>1, <1>4, <2>1, <2>2, <2>3, PendingClose DEF Sweep, wireVars, eventVars
<1>5. CASE ReceiveChunk \/ ReceiveMessage \/ Reconnect \/ AppTakes \/ UNCHANGED vars
  <2>1. UNCHANGED <<drops, cancelled, ended, background, closing, events, clients, streamOf,
                    got, completed, orphans>>
    BY <1>5 DEF ReceiveChunk, ReceiveMessage, Reconnect, AppTakes, RecordDelivery, wireVars,
       trackerVars, taskVars, closingVars, eventVars, vars
  <2>2. reader' \in {"idle", "first", "forwarding"} \/ UNCHANGED <<reader, log, pos>>
    BY <1>5 DEF ReceiveChunk, ReceiveMessage, Reconnect, AppTakes, RecordDelivery, wireVars, vars
  <2> QED BY <1>1, <2>1, <2>2, PendingFrame
<1> QED BY <1>2, <1>3, <1>4, <1>5, PutOpenedD, PutMessageD, PutClosedD, ReaderEndsD,
        BookkeepGetsD, TaskEndsD, AppDisconnectsD, PutClosedLaterD DEF Next, ReaderStep

\* As long as the websocket is not lost, no cancelled connection is forgotten:
\* it is announced closed, or somebody who still runs has to announce it.
THEOREM DisconnectsStayPending == Spec => []DisconnectIsPending
<1>1. Spec => []DInv
  BY DisconnectsInit, DisconnectsStep, PTL DEF Spec
<1> QED BY <1>1, PTL DEF DInv
-----------------------------------------------------------------------------
\* How the messages of a stream are numbered, at two positions of the log.
LEMMA Numbering ==
  ASSUME RemoteTypeOK, NEW p \in DOMAIN log, NEW q \in DOMAIN log, p < q,
         log[p].stream = log[q].stream, log[p].kind # "closed", log[q].kind # "closed"
  PROVE  \/ log[p].seq < log[q].seq
         \/ /\ OneMessage(log[p], log[q])
            /\ log[p].segment < log[q].segment /\ log[p].count = log[q].count
<1>1. WellNumbered(log)
  BY LogFacts
<1> QED BY <1>1 DEF WellNumbered

LEMMA PositionFacts ==
  ASSUME RemoteTypeOK, NEW p \in DOMAIN log
  PROVE  /\ p \in Nat /\ 1 <= p /\ p <= Len(log) /\ log[p] \in Envelopes
         /\ log[p].stream \in Streams /\ ClientOf[log[p].stream] \in Clients
         /\ log[p].seq \in Nat /\ log[p].segment \in Nat /\ log[p].count \in Nat
         /\ log[p].kind # "closed" => log[p].seq > 0
         /\ log[p].kind = "chunk" =>
               /\ log[p].segment < log[p].count
               /\ log[p].segment > 0 =>
                     \E q \in DOMAIN log : /\ q < p /\ OneMessage(log[p], log[q])
                                           /\ log[q].segment + 1 = log[p].segment
<1>1. /\ Len(log) \in Nat /\ DOMAIN log = 1 .. Len(log) /\ log[p] \in Envelopes /\ WellNumbered(log)
  BY LogFacts
<1>2. p \in Nat /\ 1 <= p /\ p <= Len(log)
  BY <1>1
<1>3. /\ log[p].stream \in Streams /\ ClientOf[log[p].stream] \in Clients
      /\ log[p].seq \in Nat /\ log[p].segment \in Nat /\ log[p].count \in Nat
  BY <1>1, EnvelopeFacts
<1>4. log[p].kind # "closed" => log[p].seq > 0
  BY <1>1 DEF WellNumbered
<1>5. ASSUME log[p].kind = "chunk"
      PROVE  /\ log[p].segment < log[p].count
             /\ log[p].segment > 0 =>
                   \E q \in DOMAIN log : /\ q < p /\ OneMessage(log[p], log[q])
                                         /\ log[q].segment + 1 = log[p].segment
  <2>1. /\ log[p].segment < log[p].count
        /\ log[p].segment > 0 =>
              \E q \in 1 .. p - 1 : OneMessage(log[p], log[q]) /\ log[q].segment + 1 = log[p].segment
    BY <1>1, <1>5 DEF WellNumbered
  <2>2. \A q \in 1 .. p - 1 : q \in DOMAIN log /\ q < p
    BY <1>1, <1>2
  <2> QED BY <2>1, <2>2
<1> QED BY <1>1, <1>2, <1>3, <1>4, <1>5

\* What comes in a stream after the end of a message has a higher number.
LEMMA AfterLast ==
  ASSUME RemoteTypeOK, NEW p \in DOMAIN log, NEW q \in DOMAIN log, p < q, IsLast(log[p]),
         log[p].stream = log[q].stream, log[p].kind # "closed", log[q].kind # "closed"
  PROVE  log[p].seq < log[q].seq /\ ~ OneMessage(log[p], log[q])
<1>1. /\ log[p].segment \in Nat /\ log[q].segment \in Nat /\ log[q].count \in Nat
      /\ log[p].seq \in Nat /\ log[q].seq \in Nat
      /\ log[q].kind = "chunk" => log[q].segment < log[q].count
  BY PositionFacts
<1>2. \/ log[p].seq < log[q].seq
      \/ /\ OneMessage(log[p], log[q])
         /\ log[p].segment < log[q].segment /\ log[p].count = log[q].count
  BY Numbering
<1> QED BY <1>1, <1>2 DEF OneMessage, IsLast

\* A message has one end.
LEMMA OneLast ==
  ASSUME RemoteTypeOK, NEW p \in DOMAIN log, NEW q \in DOMAIN log, IsLast(log[p]), IsLast(log[q]),
         OneMessage(log[p], log[q])
  PROVE  p = q
<1>1. p \in Nat /\ q \in Nat
  BY PositionFacts
<1>2. /\ log[p].stream = log[q].stream /\ log[p].kind # "closed" /\ log[q].kind # "closed"
      /\ OneMessage(log[q], log[p])
  BY DEF OneMessage
<1> QED BY <1>1, <1>2, AfterLast

\* The chunks of a message agree on how many they are.
LEMMA SameCount ==
  ASSUME RemoteTypeOK, NEW p \in DOMAIN log, NEW q \in DOMAIN log, OneMessage(log[p], log[q])
  PROVE  log[p].count = log[q].count
<1>1. p \in Nat /\ q \in Nat /\ log[p].seq \in Nat /\ log[q].seq \in Nat
  BY PositionFacts
<1>2. /\ log[p].stream = log[q].stream /\ log[p].kind # "closed" /\ log[q].kind # "closed"
      /\ log[p].seq = log[q].seq
  BY DEF OneMessage
<1>3. p < q \/ q < p \/ p = q
  BY <1>1
<1> QED BY <1>1, <1>2, <1>3, Numbering

\* What is settled remains so, and so does all of it behind the reader.
LEMMA SettledStays ==
  ASSUME UNCHANGED log, handled \subseteq handled', torn \subseteq torn'
  PROVE  \A p : Settled(p) => Settled(p)'
BY DEF Settled, IsLast

LEMMA BehindKept ==
  ASSUME BehindIsSettled, UNCHANGED <<log, pos, cursor>>, handled \subseteq handled', torn \subseteq torn'
  PROVE  BehindIsSettled'
BY SettledStays DEF BehindIsSettled

LEMMA BehindMoves ==
  ASSUME RInv, BehindIsSettled, UNCHANGED log, handled \subseteq handled', torn \subseteq torn',
         pos' = pos + 1, cursor' \in {cursor, pos}, IsLast(Current) => pos \in handled' \cup torn'
  PROVE  BehindIsSettled'
<1>1. \A p : Settled(p) => Settled(p)'
  BY SettledStays
<1>2. pos \in Nat /\ 1 <= pos /\ cursor \in Nat
  BY LogFacts DEF RInv
<1>3. \A p \in 1 .. pos : Settled(p)'
  <2> SUFFICES ASSUME NEW p \in 1 .. pos PROVE Settled(p)'
    OBVIOUS
  <2>1. CASE p = pos
    BY <2>1 DEF Settled, IsLast, Current
  <2>2. CASE p # pos
    <3>1. p \in 1 .. pos - 1
      BY <1>2, <2>2
    <3> QED BY <1>1, <3>1 DEF BehindIsSettled
  <2> QED BY <2>1, <2>2
<1>4. \A p \in 1 .. cursor' : Settled(p)'
  BY <1>1, <1>3 DEF BehindIsSettled
<1>5. pos' - 1 = pos
  BY <1>2
<1> QED BY <1>3, <1>4, <1>5 DEF BehindIsSettled

\* What is held before a position stays so if nothing it rests on is taken away.
LEMMA HeldKept ==
  ASSUME UNCHANGED <<log, pos, cursor>>, HeldBefore(pos), HeldBefore(cursor + 1),
         ASSUME NEW p \in DOMAIN log, NEW q \in DOMAIN log, OneMessage(log[q], log[p]),
                IsLast(log[p]), NeedsNoAssembly(p) \/ Holds(q)
         PROVE  NeedsNoAssembly(p)' \/ Holds(q)'
  PROVE  HeldBefore(pos)' /\ HeldBefore(cursor + 1)'
<1>1. \A p, q \in DOMAIN log : OneMessage(log[q], log[p]) /\ IsLast(log[p])
        /\ (NeedsNoAssembly(p) \/ Holds(q)) => NeedsNoAssembly(p)' \/ Holds(q)'
  OBVIOUS
<1>2. HeldBefore(pos)'
  BY <1>1 DEF HeldBefore, OneMessage, IsLast
<1>3. HeldBefore(cursor + 1)'
  BY <1>1 DEF HeldBefore, OneMessage, IsLast
<1> QED BY <1>2, <1>3

\* The reader and the cursor move past an envelope that ends its message, or is
\* of none.
LEMMA HeldMoves ==
  ASSUME RInv, UNCHANGED log, pos \in DOMAIN log, HeldBefore(pos), pos' = pos + 1, cursor' = pos,
         IsLast(Current),
         ASSUME NEW p \in DOMAIN log, NEW q \in DOMAIN log, OneMessage(log[q], log[p]), q < pos,
                pos < p, IsLast(log[p]), NeedsNoAssembly(p) \/ Holds(q)
         PROVE  NeedsNoAssembly(p)' \/ Holds(q)'
  PROVE  HeldBefore(pos)' /\ HeldBefore(cursor + 1)'
<1>1. ASSUME NEW p \in DOMAIN log, NEW q \in DOMAIN log, q < pos + 1, pos + 1 <= p,
             OneMessage(log[q], log[p]), IsLast(log[p])
      PROVE  NeedsNoAssembly(p)' \/ Holds(q)'
  <2>1. p \in Nat /\ q \in Nat /\ pos \in Nat
    BY PositionFacts DEF RInv
  <2>2. q # pos
    <3> SUFFICES ASSUME q = pos PROVE FALSE
      OBVIOUS
    <3>1. pos < p /\ log[p].stream = log[pos].stream /\ log[p].kind = "chunk" /\ log[pos].kind = "chunk"
      BY <1>1, <2>1 DEF OneMessage
    <3>2. ~ OneMessage(log[pos], log[p])
      BY <3>1, AfterLast DEF RInv, Current
    <3> QED BY <1>1, <3>2
  <2>3. q < pos /\ pos < p /\ pos <= p
    BY <1>1, <2>1, <2>2
  <2>4. NeedsNoAssembly(p) \/ Holds(q)
    BY <1>1, <2>3 DEF HeldBefore
  <2> QED BY <1>1, <2>3, <2>4
<1>2. \A p, q \in DOMAIN log : q < pos + 1 /\ pos + 1 <= p /\ OneMessage(log[q], log[p])
        /\ IsLast(log[p]) => NeedsNoAssembly(p)' \/ Holds(q)'
  BY <1>1
<1>3. HeldBefore(pos)'
  BY <1>2 DEF HeldBefore, OneMessage, IsLast
<1>4. HeldBefore(cursor + 1)'
  BY <1>2 DEF HeldBefore, OneMessage, IsLast
<1> QED BY <1>3, <1>4
-----------------------------------------------------------------------------
\* A chunk the reader drops was settled, or the assembly holds it.
LEMMA ChunkDropped ==
  ASSUME FInv, pos \in DOMAIN log, Current.kind = "chunk", NEW p \in DOMAIN log,
         OneMessage(Current, log[p]),
         Dropped(assembly[ClientOf[Current.stream]], completedSeq[Current.stream], Current)
  PROVE  Settled(p) \/ Holds(pos)
<1> DEFINE a == assembly[ClientOf[Current.stream]]
<1>1. /\ log[p].kind = "chunk" /\ log[p].stream = Current.stream /\ log[p].seq = Current.seq
      /\ Current = log[pos]
  BY DEF OneMessage, Current
<1>2. Current.stream \in Streams /\ ClientOf[Current.stream] \in Clients /\ Current.seq \in Nat
      /\ completedSeq[Current.stream] \in Nat
  BY PositionFacts DEF FInv, RInv, RemoteTypeOK, Current
<1>3. CASE AlreadyComplete(completedSeq[Current.stream], Current)
  <2>1. log[p].seq <= completedSeq[log[p].stream]
    BY <1>1, <1>2, <1>3 DEF AlreadyComplete
  <2> QED BY <1>1, <2>1 DEF FInv, NumbersAreSettled
<1>4. CASE ShouldIgnoreChunk(a, Current)
  <2>1. a # NoAssembly /\ a.stream = Current.stream
    BY <1>4 DEF ShouldIgnoreChunk, SameStream
  <2>2. CASE Current.seq < a.seq
    BY <1>1, <1>2, <2>1, <2>2 DEF FInv, AssembliesFit
  <2>3. CASE Current.seq = a.seq /\ Current.segment < a.next
    BY <1>1, <2>1, <2>3 DEF Holds
  <2> QED BY <1>4, <2>2, <2>3 DEF ShouldIgnoreChunk
<1> QED BY <1>3, <1>4 DEF Dropped

\* One that it does not drop and that does not fit misses what came before it
\* only if the message it is of has been torn, settled or has no connection,
\* or is torn by the message the assembly is of.
LEMMA ChunkMisfit ==
  ASSUME FInv, reader = "idle", pos \in DOMAIN log, Current.kind = "chunk",
         NEW p \in DOMAIN log, pos <= p, OneMessage(Current, log[p]), IsLast(log[p]),
         ~ Dropped(assembly[ClientOf[Current.stream]], completedSeq[Current.stream], Current),
         ~ Fits(assembly[ClientOf[Current.stream]], Current)
  PROVE  \/ Settled(p) \/ ~ Registered(log[p].stream)
         \/ p \in Displaced(assembly[ClientOf[Current.stream]], Current)
<1> DEFINE e == Current
           c == ClientOf[e.stream]
           a == assembly[c]
<1>1. /\ log[p].kind = "chunk" /\ log[p].stream = e.stream /\ log[p].seq = e.seq /\ e = log[pos]
  BY DEF OneMessage, Current
<1>2. /\ e.stream \in Streams /\ c \in Clients /\ e.seq \in Nat /\ e.segment \in Nat
      /\ a \in Assemblies /\ a.seq \in Nat /\ a.next \in Nat /\ RemoteTypeOK
      /\ AssembliesFit /\ HeldBefore(pos)
  <2>1. /\ e.stream \in Streams /\ c \in Clients /\ e.seq \in Nat /\ e.segment \in Nat
    BY PositionFacts DEF FInv, RInv, Current
  <2>2. a \in Assemblies
    BY <2>1 DEF FInv, RInv, RemoteTypeOK
  <2> QED BY <2>1, <2>2 DEF FInv, RInv, Assemblies
<1>3. SameStream(a, e) => a.seq < e.seq \/ (a.seq = e.seq /\ a.next <= e.segment)
  BY <1>2 DEF Dropped, ShouldIgnoreChunk
<1>4. a # NoAssembly /\ a.stream = e.stream /\ a.seq < e.seq
         => p \in Displaced(a, e)
  BY <1>1, <1>2 DEF Displaced
<1>5. CASE e.segment = 0
  <2>1. SameStream(a, e)
    BY <1>5 DEF Fits, Base, Started
  <2>2. a.next > 0
    BY <1>2, <2>1 DEF AssembliesFit, SameStream
  <2> QED BY <1>2, <1>3, <1>4, <1>5, <2>1, <2>2 DEF SameStream
<1>6. CASE e.segment > 0
  <2>1. PICK q \in DOMAIN log : /\ q < pos /\ OneMessage(log[pos], log[q])
                                /\ log[q].segment + 1 = log[pos].segment
    BY <1>1, <1>2, <1>6, PositionFacts
  <2>2. OneMessage(log[q], log[p])
    BY <1>1, <2>1 DEF OneMessage
  <2>3. NeedsNoAssembly(p) \/ Holds(q)
    BY <1>2, <2>1, <2>2 DEF HeldBefore
  <2>4. NeedsNoAssembly(p) => Settled(p) \/ ~ Registered(log[p].stream)
    BY DEF NeedsNoAssembly
  <2>5. ASSUME Holds(q) PROVE FALSE
    <3>1. /\ a.stream = e.stream /\ a.seq = e.seq /\ log[q].segment < a.next
          /\ log[q].segment \in Nat
      BY <1>1, <2>1, <2>5, <1>2, PositionFacts DEF Holds, OneMessage
    <3>2. a # NoAssembly
      BY <1>2, <3>1 DEF NoAssembly
    <3>3. a.next <= e.segment
      BY <1>2, <1>3, <3>1, <3>2 DEF SameStream
    <3>4. a.next = e.segment
      BY <1>1, <1>2, <2>1, <3>1, <3>3
    <3>5. e.count = a.count
      BY <1>1, <1>2, <3>1, <3>2 DEF AssembliesFit
    <3> QED BY <3>1, <3>2, <3>4, <3>5 DEF Fits, Base, SameStream
  <2> QED BY <2>3, <2>4, <2>5
<1> QED BY <1>2, <1>5, <1>6

LEMMA ReceiveChunkF == ASSUME FInv, ReceiveChunk PROVE FInv'
<1> DEFINE e == Current
           c == ClientOf[e.stream]
           a == assembly[c]
           n == completedSeq[e.stream]
<1>1. /\ RInv /\ RInv' /\ RemoteTypeOK /\ BehindIsSettled /\ NumbersAreSettled /\ AssembliesFit
      /\ HeldBefore(pos) /\ HeldBefore(cursor + 1)
  BY ReceiveChunkR DEF FInv, RInv
<1>2. /\ reader = "idle" /\ e.kind = "chunk" /\ ~ Completes(a, n, e)
      /\ assembly' = [assembly EXCEPT ![c] = Observe(a, n, e)]
      /\ torn' = IF Dropped(a, n, e) THEN torn ELSE torn \cup Displaced(a, e)
      /\ handled' = IF IsLast(e) /\ ~ Registered(e.stream) THEN handled \cup {pos} ELSE handled
      /\ pos' = pos + 1
      /\ UNCHANGED <<log, cursor, reader, completedSeq, clients, lastSeq>>
  BY DEF ReceiveChunk, trackerVars
<1>3. /\ pos \in DOMAIN log /\ e = log[pos] /\ e.stream \in Streams /\ c \in Clients
      /\ e.seq \in Nat /\ e.segment \in Nat /\ e.count \in Nat /\ e.segment < e.count
      /\ pos \in Nat /\ 1 <= pos /\ cursor \in Nat
  <2>1. pos \in DOMAIN log /\ e = log[pos]
    BY <1>1, LogFacts DEF ReceiveChunk, Current
  <2> QED BY <1>1, <1>2, <2>1, PositionFacts, LogFacts
<1>4. /\ a \in Assemblies /\ a.seq \in Nat /\ a.next \in Nat /\ a.count \in Nat
      /\ assembly'[c] = Observe(a, n, e) /\ \A d \in Clients : d # c => assembly'[d] = assembly[d]
  BY <1>1, <1>2, <1>3 DEF RemoteTypeOK, Assemblies
<1>5. /\ handled \subseteq handled' /\ torn \subseteq torn'
      /\ \A p : Settled(p) => Settled(p)'
      /\ \A s : Registered(s)' <=> Registered(s)
  BY <1>2, SettledStays DEF Registered
<1>6. \A p : NeedsNoAssembly(p) => NeedsNoAssembly(p)'
  BY <1>2, <1>5 DEF NeedsNoAssembly
<1>7. ASSUME NEW p \in DOMAIN log, pos <= p, OneMessage(e, log[p]), IsLast(log[p]),
             ~ Dropped(a, n, e), ~ Fits(a, e)
      PROVE  Settled(p)' \/ ~ Registered(log[p].stream)
  BY <1>1, <1>2, <1>3, <1>5, <1>7, ChunkMisfit DEF Settled
<1>8. OneMessage(e, e) /\ pos <= pos
  BY <1>2, <1>3 DEF OneMessage
\* The chunk itself is settled.
<1>9. IsLast(e) => pos \in handled' \cup torn'
  <2> SUFFICES ASSUME IsLast(e), Registered(e.stream) PROVE pos \in handled' \cup torn'
    BY <1>2
  <2>1. CASE Dropped(a, n, e)
    <3>1. ~ Holds(pos)
      <4> SUFFICES ASSUME Holds(pos) PROVE FALSE
        OBVIOUS
      <4>1. a.stream = e.stream /\ a.seq = e.seq /\ e.segment < a.next
        BY <1>3 DEF Holds
      <4>2. a # NoAssembly
        BY <1>3, <1>4, <4>1 DEF NoAssembly
      <4>3. a.next < a.count /\ e.count = a.count
        BY <1>1, <1>2, <1>3, <4>1, <4>2 DEF AssembliesFit
      <4> QED BY <1>2, <1>3, <1>4, <4>1, <4>3 DEF IsLast
    <3>2. Settled(pos)
      BY <1>2, <1>3, <1>8, <2>1, <3>1, ChunkDropped
    <3> QED BY <1>3, <1>5, <3>2 DEF Settled
  <2>2. CASE ~ Dropped(a, n, e)
    <3>1. ~ Fits(a, e)
      BY <1>2, <2>2 DEF Completes, IsLast
    <3>2. \A p \in DOMAIN log : pos <= p /\ OneMessage(e, log[p]) /\ IsLast(log[p])
             => p \in handled' \cup torn' \/ ~ Registered(log[p].stream)
      BY <1>2, <1>7, <2>2, <3>1 DEF Settled
    <3> QED BY <1>3, <1>8, <3>2
  <2> QED BY <2>1, <2>2
<1>10. BehindIsSettled'
  BY <1>1, <1>2, <1>3, <1>5, <1>9, BehindMoves
<1>11. NumbersAreSettled'
  BY <1>1, <1>2, <1>5 DEF NumbersAreSettled
\* The assembly the chunk leaves behind.
<1>12. ASSUME assembly'[c] # NoAssembly, assembly'[c] # a
       PROVE  /\ ~ Dropped(a, n, e) /\ Fits(a, e)
              /\ assembly'[c].stream = e.stream /\ assembly'[c].seq = e.seq
              /\ assembly'[c].count = e.count /\ assembly'[c].next = e.segment + 1
              /\ e.segment + 1 < e.count
  <2>1. /\ ~ Dropped(a, n, e) /\ Fits(a, e) /\ e.segment + 1 < e.count
        /\ assembly'[c] = [Base(a, e) EXCEPT !.next = e.segment + 1]
    BY <1>4, <1>12 DEF Observe
  <2>2. Base(a, e).stream = e.stream /\ Base(a, e).seq = e.seq /\ Base(a, e).count = e.count
    BY <2>1 DEF Fits, Base, SameStream, Started
  <2>3. Base(a, e) \in Assemblies
    BY <1>3, <1>4 DEF Base, Started, Assemblies
  <2> QED BY <2>1, <2>2, <2>3 DEF Assemblies
<1>13. AssembliesFit'
  <2> SUFFICES ASSUME NEW d \in Clients, assembly'[d] # NoAssembly
               PROVE  /\ assembly'[d].stream \in Streams /\ ClientOf[assembly'[d].stream] = d
                      /\ 0 < assembly'[d].next /\ assembly'[d].next < assembly'[d].count
                      /\ \A p \in DOMAIN log : log[p].kind = "chunk" /\ log[p].stream = assembly'[d].stream =>
                            /\ log[p].seq < assembly'[d].seq => Settled(p)'
                            /\ log[p].seq = assembly'[d].seq => log[p].count = assembly'[d].count
    BY <1>2 DEF AssembliesFit
  <2>1. CASE assembly'[d] = assembly[d]
    BY <1>1, <1>5, <2>1 DEF AssembliesFit
  <2>2. CASE assembly'[d] # assembly[d]
    <3>1. d = c
      BY <1>4, <2>2
    <3>2. /\ assembly'[d].stream = e.stream /\ assembly'[d].seq = e.seq
          /\ assembly'[d].count = e.count /\ assembly'[d].next = e.segment + 1
          /\ e.segment + 1 < e.count
      BY <1>12, <2>2, <3>1
    <3>3. ASSUME NEW p \in DOMAIN log, log[p].kind = "chunk", log[p].stream = e.stream, log[p].seq < e.seq
          PROVE  Settled(p)'
      <4>1. p \in Nat /\ 1 <= p /\ log[p].seq \in Nat
        BY <1>1, PositionFacts
      <4>2. ~ (pos < p)
        BY <1>1, <1>2, <1>3, <3>3, <4>1, Numbering DEF OneMessage
      <4>3. p # pos
        BY <1>3, <3>3, <4>1
      <4>4. p \in 1 .. pos - 1
        BY <1>3, <4>1, <4>2, <4>3
      <4> QED BY <1>1, <1>5, <4>4 DEF BehindIsSettled
    <3>4. ASSUME NEW p \in DOMAIN log, log[p].kind = "chunk", log[p].stream = e.stream, log[p].seq = e.seq
          PROVE  log[p].count = e.count
      <4>1. OneMessage(log[p], log[pos])
        BY <1>2, <1>3, <3>4 DEF OneMessage
      <4> QED BY <1>1, <1>3, <4>1, SameCount
    <3> QED BY <1>3, <3>1, <3>2, <3>3, <3>4
  <2> QED BY <2>1, <2>2
\* What was held is held still, or its message is torn.
<1>14. ASSUME NEW p \in DOMAIN log, NEW q \in DOMAIN log, OneMessage(log[q], log[p]),
              IsLast(log[p]), NeedsNoAssembly(p) \/ Holds(q)
       PROVE  NeedsNoAssembly(p)' \/ Holds(q)'
  <2> SUFFICES ASSUME Holds(q) PROVE NeedsNoAssembly(p)' \/ Holds(q)'
    BY <1>6, <1>14
  <2> DEFINE d == ClientOf[log[q].stream]
  <2>1. /\ log[p].stream = log[q].stream /\ log[p].seq = log[q].seq /\ log[p].kind = "chunk"
        /\ d \in Clients /\ log[q].segment \in Nat /\ p \in Nat /\ 1 <= p
    BY <1>1, <1>14, PositionFacts DEF OneMessage
  <2>2. CASE assembly'[d] = assembly[d]
    BY <1>2, <2>2 DEF Holds
  <2>3. CASE assembly'[d] # assembly[d]
    <3>1. d = c /\ ~ Dropped(a, n, e)
      BY <1>4, <2>1, <2>3 DEF Observe
    <3>2. a.stream = log[q].stream /\ a.seq = log[q].seq /\ log[q].segment < a.next
      BY <3>1 DEF Holds
    <3>3. a # NoAssembly
      BY <1>4, <2>1, <3>2 DEF NoAssembly
    <3>4. CASE ~ (a.stream = e.stream /\ a.seq = e.seq)
      <4>1. p \in Displaced(a, e)
        BY <1>14, <2>1, <3>2, <3>3, <3>4 DEF Displaced
      <4>2. p \in torn'
        BY <1>2, <3>1, <4>1
      <4> QED BY <4>2 DEF NeedsNoAssembly, Settled
    <3>5. CASE a.stream = e.stream /\ a.seq = e.seq
      <4>1. OneMessage(e, log[p])
        BY <1>2, <2>1, <3>2, <3>5 DEF OneMessage
      <4>2. CASE Fits(a, e)
        <5>1. e.segment + 1 < e.count
          BY <1>2, <1>3, <3>1, <4>2 DEF Completes
        <5>2. assembly'[c] = [Base(a, e) EXCEPT !.next = e.segment + 1] /\ Base(a, e) = a
          BY <1>4, <3>1, <3>3, <3>5, <4>2, <5>1 DEF Observe, Base, SameStream
        <5>3. a.next = e.segment
          BY <4>2, <5>2 DEF Fits
        <5>4. /\ assembly'[c].stream = a.stream /\ assembly'[c].seq = a.seq
              /\ assembly'[c].next = a.next + 1
          BY <1>4, <5>2, <5>3 DEF Assemblies
        <5>5. log[q].segment < assembly'[c].next
          BY <1>4, <2>1, <3>2, <5>4
        <5> QED BY <1>2, <3>1, <3>2, <5>4, <5>5 DEF Holds
      <4>3. CASE ~ Fits(a, e) /\ pos <= p
        <5>1. Settled(p)' \/ ~ Registered(log[p].stream)
          BY <1>7, <1>14, <3>1, <4>1, <4>3
        <5> QED BY <1>2, <1>5, <5>1 DEF NeedsNoAssembly
      <4>4. CASE ~ (pos <= p)
        <5>1. p \in 1 .. pos - 1
          BY <1>3, <2>1, <4>4
        <5>2. Settled(p)'
          BY <1>1, <1>5, <5>1 DEF BehindIsSettled
        <5> QED BY <5>2 DEF NeedsNoAssembly
      <4> QED BY <4>2, <4>3, <4>4
    <3> QED BY <3>4, <3>5
  <2> QED BY <2>2, <2>3
\* The chunk is held, if more of its message is to come.
<1>15. ASSUME NEW p \in DOMAIN log, NEW q \in DOMAIN log, q = pos, pos < p,
              OneMessage(e, log[p]), IsLast(log[p])
       PROVE  NeedsNoAssembly(p)' \/ Holds(q)'
  <2>1. p \in Nat /\ pos <= p /\ log[p].stream = e.stream
    BY <1>1, <1>3, <1>15, PositionFacts DEF OneMessage
  <2>2. CASE Dropped(a, n, e)
    <3>1. Settled(p) \/ Holds(q)
      BY <1>2, <1>3, <1>15, <2>2, ChunkDropped
    <3>2. assembly' = assembly
      <4>1. assembly'[c] = a
        BY <1>4, <2>2 DEF Observe
      <4> QED BY <1>1, <1>2, <1>3, <4>1 DEF RemoteTypeOK
    <3>3. Holds(q) => Holds(q)'
      BY <1>2, <3>2 DEF Holds
    <3> QED BY <1>5, <3>1, <3>3 DEF NeedsNoAssembly
  <2>3. CASE ~ Dropped(a, n, e) /\ ~ Fits(a, e)
    <3>1. Settled(p)' \/ ~ Registered(log[p].stream)
      BY <1>7, <1>15, <2>1, <2>3
    <3> QED BY <1>2, <1>5, <3>1 DEF NeedsNoAssembly
  <2>4. CASE ~ Dropped(a, n, e) /\ Fits(a, e)
    <3>1. e.segment + 1 < e.count
      BY <1>2, <1>3, <2>4 DEF Completes
    <3>2. assembly'[c] = [Base(a, e) EXCEPT !.next = e.segment + 1]
      BY <1>4, <2>4, <3>1 DEF Observe
    <3>3. Base(a, e).stream = e.stream /\ Base(a, e).seq = e.seq /\ Base(a, e) \in Assemblies
      BY <1>3, <1>4, <2>4 DEF Fits, Base, SameStream, Started, Assemblies
    <3>4. assembly'[c].stream = e.stream /\ assembly'[c].seq = e.seq /\ assembly'[c].next = e.segment + 1
      BY <3>2, <3>3 DEF Assemblies
    <3>5. e.segment < assembly'[c].next
      BY <1>3, <3>4
    <3> QED BY <1>2, <1>3, <1>15, <3>4, <3>5 DEF Holds
  <2> QED BY <2>2, <2>3, <2>4
<1>16. HeldBefore(pos)'
  <2> SUFFICES ASSUME NEW p \in DOMAIN log, NEW q \in DOMAIN log, q < pos + 1, pos + 1 <= p,
                      OneMessage(log[q], log[p]), IsLast(log[p])
               PROVE  NeedsNoAssembly(p)' \/ Holds(q)'
    BY <1>2 DEF HeldBefore, OneMessage, IsLast
  <2>1. p \in Nat /\ q \in Nat /\ pos < p /\ pos <= p
    BY <1>1, <1>3, PositionFacts
  <2>2. CASE q = pos
    BY <1>3, <1>15, <2>1, <2>2
  <2>3. CASE q # pos
    <3>1. q < pos
      BY <1>3, <2>1, <2>3
    <3>2. NeedsNoAssembly(p) \/ Holds(q)
      BY <1>1, <2>1, <3>1 DEF HeldBefore
    <3> QED BY <1>14, <3>2
  <2> QED BY <2>2, <2>3
<1>17. HeldBefore(cursor + 1)'
  <2> SUFFICES ASSUME NEW p \in DOMAIN log, NEW q \in DOMAIN log, q < cursor + 1, cursor + 1 <= p,
                      OneMessage(log[q], log[p]), IsLast(log[p])
               PROVE  NeedsNoAssembly(p)' \/ Holds(q)'
    BY <1>2 DEF HeldBefore, OneMessage, IsLast
  <2>1. NeedsNoAssembly(p) \/ Holds(q)
    BY <1>1 DEF HeldBefore
  <2> QED BY <1>14, <2>1
<1> QED BY <1>1, <1>10, <1>11, <1>13, <1>16, <1>17 DEF FInv

\* The numbers that rise when the message at pos is done with cover only what is
\* behind the reader, and the message.
LEMMA NumbersCover ==
  ASSUME RInv, BehindIsSettled, pos \in DOMAIN log, IsLast(Current), Current.kind # "closed",
         NEW p \in DOMAIN log, log[p].kind # "closed", log[p].stream = Current.stream,
         log[p].seq <= Current.seq, p # pos
  PROVE  Settled(p)
<1>1. /\ RemoteTypeOK /\ Current = log[pos] /\ p \in Nat /\ 1 <= p /\ pos \in Nat
      /\ log[p].seq \in Nat /\ Current.seq \in Nat
  BY PositionFacts DEF RInv, Current
<1>2. ~ (pos < p)
  BY <1>1, AfterLast
<1>3. p \in 1 .. pos - 1
  BY <1>1, <1>2
<1> QED BY <1>3 DEF BehindIsSettled

\* The message that is forwarded takes the assembly of its client.
LEMMA MessageTakes ==
  ASSUME RInv, reader = "idle", pos \in DOMAIN log, Current.kind \in {"message", "chunk"},
         IsLast(Current), UNCHANGED <<log, clients>>, handled \subseteq handled',
         assembly' = IF Current.kind = "chunk"
                     THEN [assembly EXCEPT ![ClientOf[Current.stream]] = NoAssembly]
                     ELSE assembly,
         torn' = IF Current.kind = "chunk"
                 THEN torn \cup Displaced(assembly[ClientOf[Current.stream]], Current)
                 ELSE torn,
         NEW p \in DOMAIN log, NEW q \in DOMAIN log, OneMessage(log[q], log[p]),
         IsLast(log[p]), NeedsNoAssembly(p) \/ Holds(q)
  PROVE  p = pos \/ NeedsNoAssembly(p)' \/ Holds(q)'
<1> DEFINE e == Current
           c == ClientOf[e.stream]
           a == assembly[c]
           d == ClientOf[log[q].stream]
<1>1. /\ log[p].stream = log[q].stream /\ log[p].seq = log[q].seq /\ log[p].kind = "chunk"
      /\ d \in Clients /\ log[q].segment \in Nat /\ RemoteTypeOK /\ e = log[pos]
  BY PositionFacts DEF OneMessage, RInv, Current
<1>2. \A s : Registered(s)' <=> Registered(s)
  BY DEF Registered
<1>3. torn \subseteq torn'
  OBVIOUS
<1>4. NeedsNoAssembly(p) => NeedsNoAssembly(p)'
  BY <1>2, <1>3, SettledStays DEF NeedsNoAssembly
<1>5. ASSUME Holds(q), p # pos PROVE NeedsNoAssembly(p)' \/ Holds(q)'
  <2>1. CASE assembly'[d] = assembly[d]
    BY <1>5, <2>1 DEF Holds
  <2>2. CASE assembly'[d] # assembly[d]
    <3>1. d = c /\ e.kind = "chunk"
      BY <1>1, <2>2 DEF RemoteTypeOK
    <3>2. a.stream = log[q].stream /\ a.seq = log[q].seq /\ log[q].segment < a.next
      BY <1>5, <3>1 DEF Holds
    <3>3. a # NoAssembly
      BY <1>1, <3>2 DEF NoAssembly
    <3>4. ~ (a.stream = e.stream /\ a.seq = e.seq)
      <4> SUFFICES ASSUME a.stream = e.stream, a.seq = e.seq PROVE FALSE
        OBVIOUS
      <4>1. OneMessage(log[pos], log[p])
        BY <1>1, <3>1, <3>2 DEF OneMessage
      <4> QED BY <1>1, <1>5, <4>1, OneLast
    <3>5. p \in Displaced(a, e)
      BY <1>1, <3>2, <3>3, <3>4 DEF Displaced
    <3>6. p \in torn'
      BY <3>1, <3>5
    <3> QED BY <3>6 DEF NeedsNoAssembly, Settled
  <2> QED BY <2>1, <2>2
<1> QED BY <1>4, <1>5

LEMMA ReceiveMessageF == ASSUME FInv, ReceiveMessage PROVE FInv'
<1> DEFINE e == Current
           c == ClientOf[e.stream]
<1>1. /\ RInv /\ RInv' /\ RemoteTypeOK /\ BehindIsSettled /\ NumbersAreSettled /\ AssembliesFit
      /\ HeldBefore(pos) /\ HeldBefore(cursor + 1)
  BY ReceiveMessageR DEF FInv, RInv
<1>2. /\ reader = "idle" /\ e.kind \in {"message", "chunk"} /\ Forwarded(e)
      /\ assembly' = IF e.kind = "chunk" THEN [assembly EXCEPT ![c] = NoAssembly] ELSE assembly
      /\ torn' = IF e.kind = "chunk" THEN torn \cup Displaced(assembly[c], e) ELSE torn
      /\ UNCHANGED <<clients, lastSeq>>
  BY DEF ReceiveMessage, trackerVars
<1>3. /\ pos \in DOMAIN log /\ e = log[pos] /\ e.stream \in Streams /\ c \in Clients
      /\ e.seq \in Nat /\ IsLast(e)
  <2>1. pos \in DOMAIN log /\ e = log[pos]
    BY <1>1, LogFacts DEF ReceiveMessage, Current
  <2>2. IsLast(e)
    BY <1>2 DEF Forwarded, Completes, IsLast
  <2> QED BY <1>1, <2>1, <2>2, PositionFacts
<1>4. log' = log /\ handled \subseteq handled' /\ torn \subseteq torn'
  BY <1>2 DEF ReceiveMessage, RecordDelivery, wireVars
<1>5. /\ \A p : Settled(p) => Settled(p)'
      /\ \A s : Registered(s)' <=> Registered(s)
  BY <1>2, <1>4, SettledStays DEF Registered
<1>6. AssembliesFit'
  <2>1. \A d \in Clients : assembly'[d] = assembly[d] \/ assembly'[d] = NoAssembly
    BY <1>1, <1>2 DEF RemoteTypeOK
  <2> SUFFICES ASSUME NEW d \in Clients, assembly'[d] # NoAssembly
               PROVE  /\ assembly'[d].stream \in Streams /\ ClientOf[assembly'[d].stream] = d
                      /\ 0 < assembly'[d].next /\ assembly'[d].next < assembly'[d].count
                      /\ \A p \in DOMAIN log : log[p].kind = "chunk" /\ log[p].stream = assembly'[d].stream =>
                            /\ log[p].seq < assembly'[d].seq => Settled(p)'
                            /\ log[p].seq = assembly'[d].seq => log[p].count = assembly'[d].count
    BY <1>4 DEF AssembliesFit
  <2> QED BY <1>1, <1>5, <2>1 DEF AssembliesFit
<1>7. ASSUME NEW p \in DOMAIN log, NEW q \in DOMAIN log, OneMessage(log[q], log[p]),
             IsLast(log[p]), NeedsNoAssembly(p) \/ Holds(q)
      PROVE  p = pos \/ NeedsNoAssembly(p)' \/ Holds(q)'
  BY <1>1, <1>2, <1>3, <1>4, <1>7, MessageTakes
<1>8. CASE Registered(e.stream) /\ ~ Duplicate(e)
  <2>1. reader' = "forwarding" /\ UNCHANGED <<log, pos, cursor, handled, completedSeq>>
    BY <1>8 DEF ReceiveMessage, wireVars
  <2>2. BehindIsSettled'
    BY <1>1, <1>4, <2>1, BehindKept
  <2>3. NumbersAreSettled'
    BY <1>1, <1>2, <1>5, <2>1 DEF NumbersAreSettled
  <2>4. ASSUME NEW p \in DOMAIN log, NEW q \in DOMAIN log, OneMessage(log[q], log[p]),
               IsLast(log[p]), NeedsNoAssembly(p) \/ Holds(q)
        PROVE  NeedsNoAssembly(p)' \/ Holds(q)'
    <3>1. p = pos => NeedsNoAssembly(p)'
      BY <2>1 DEF NeedsNoAssembly
    <3> QED BY <1>7, <2>4, <3>1
  <2>5. HeldBefore(pos)' /\ HeldBefore(cursor + 1)'
    BY <1>1, <2>1, <2>4, HeldKept
  <2> QED BY <1>1, <1>6, <2>2, <2>3, <2>5 DEF FInv
<1>9. CASE ~ (Registered(e.stream) /\ ~ Duplicate(e))
  <2>1. /\ RecordDelivery /\ RecordChunk
        /\ handled' = IF Duplicate(e) THEN handled ELSE handled \cup {pos}
        /\ pos' = pos + 1 /\ cursor' = pos
    BY <1>9 DEF ReceiveMessage, RecordDelivery
  <2>2. pos \in handled' \cup torn'
    <3>1. CASE Duplicate(e)
      <4>1. Settled(pos)
        BY <1>1, <1>2, <1>3, <3>1 DEF NumbersAreSettled, Duplicate, RemoteTypeOK
      <4> QED BY <1>3, <1>4, <4>1 DEF Settled
    <3>2. CASE ~ Duplicate(e)
      BY <2>1, <3>2
    <3> QED BY <3>1, <3>2
  <2>3. BehindIsSettled'
    BY <1>1, <1>4, <2>1, <2>2, BehindMoves
  <2>4. ASSUME NEW p \in DOMAIN log, log[p].kind = "chunk", log[p].seq <= completedSeq'[log[p].stream]
        PROVE  Settled(p)'
    <3>1. CASE log[p].seq <= completedSeq[log[p].stream]
      BY <1>1, <1>5, <2>4, <3>1 DEF NumbersAreSettled
    <3>2. CASE ~ (log[p].seq <= completedSeq[log[p].stream])
      <4>1. log[p].stream \in Streams
        BY <1>1, PositionFacts
      <4>2. log[p].stream = e.stream /\ log[p].seq <= e.seq
        BY <1>1, <1>3, <2>1, <2>4, <3>2, <4>1, RecordChunkType, PositionFacts
      <4>3. p # pos => Settled(p)
        BY <1>1, <1>2, <1>3, <2>4, <4>2, NumbersCover
      <4>4. p = pos => Settled(p)'
        BY <2>2 DEF Settled
      <4> QED BY <1>5, <4>3, <4>4
    <3> QED BY <3>1, <3>2
  <2>5. NumbersAreSettled'
    BY <1>1, <1>2, <1>4, <1>5, <2>4 DEF NumbersAreSettled
  <2>6. ASSUME NEW p \in DOMAIN log, NEW q \in DOMAIN log, OneMessage(log[q], log[p]), q < pos,
               pos < p, IsLast(log[p]), NeedsNoAssembly(p) \/ Holds(q)
        PROVE  NeedsNoAssembly(p)' \/ Holds(q)'
    <3>1. p # pos
      BY <1>1, <2>6, PositionFacts
    <3> QED BY <1>7, <2>6, <3>1
  <2>7. HeldBefore(pos)' /\ HeldBefore(cursor + 1)'
    BY <1>1, <1>3, <1>4, <2>1, <2>6, HeldMoves
  <2> QED BY <1>1, <1>6, <2>3, <2>5, <2>7 DEF FInv
<1> QED BY <1>8, <1>9

LEMMA PutMessageF == ASSUME FInv, PutMessage PROVE FInv'
<1> DEFINE e == Current
<1>1. /\ RInv /\ RInv' /\ RemoteTypeOK /\ BehindIsSettled /\ NumbersAreSettled /\ AssembliesFit
      /\ HeldBefore(pos) /\ HeldBefore(cursor + 1)
  BY PutMessageR DEF FInv, RInv
<1>2. /\ lastSeq' = [lastSeq EXCEPT ![e.stream] = e.seq]
      /\ RecordDelivery /\ RecordChunk /\ pos' = pos + 1 /\ cursor' = pos /\ reader' = "idle"
      /\ handled' = handled \cup {pos} /\ UNCHANGED <<log, torn, assembly, clients>>
  BY DEF PutMessage, RecordDelivery
<1>3. /\ pos \in DOMAIN log /\ e = log[pos] /\ e.stream \in Streams /\ e.seq \in Nat
      /\ IsLast(e) /\ e.kind # "closed" /\ pos \in Nat
  <2>1. pos \in DOMAIN log /\ e = log[pos]
    BY <1>1, LogFacts DEF PutMessage, ReaderKnows, RInv, Current
  <2>2. IsLast(e) /\ e.kind # "closed"
    BY <1>1 DEF PutMessage, ReaderKnows, RInv, IsLast
  <2> QED BY <1>1, <2>1, <2>2, PositionFacts
<1>4. /\ \A p : Settled(p) => Settled(p)'
      /\ \A s : Registered(s)' <=> Registered(s)
  BY <1>2, SettledStays DEF Registered
<1>5. BehindIsSettled'
  BY <1>1, <1>2, BehindMoves
<1>6. ASSUME NEW p \in DOMAIN log, log[p].kind # "closed", log[p].stream = e.stream, log[p].seq <= e.seq
      PROVE  Settled(p)'
  <2>1. p # pos => Settled(p)
    BY <1>1, <1>3, <1>6, NumbersCover
  <2>2. p = pos => Settled(p)'
    BY <1>2 DEF Settled
  <2> QED BY <1>4, <2>1, <2>2
<1>7. NumbersAreSettled'
  <2>1. ASSUME NEW p \in DOMAIN log, log[p].kind # "closed", Registered(log[p].stream),
               log[p].seq <= lastSeq'[log[p].stream]
        PROVE  Settled(p)'
    <3>1. CASE log[p].stream = e.stream
      BY <1>1, <1>2, <1>3, <1>6, <2>1, <3>1 DEF RemoteTypeOK
    <3>2. CASE log[p].stream # e.stream
      <4>1. log[p].stream \in Streams
        BY <1>1, PositionFacts
      <4> QED BY <1>1, <1>2, <1>4, <2>1, <3>2, <4>1 DEF NumbersAreSettled, RemoteTypeOK
    <3> QED BY <3>1, <3>2
  <2>2. ASSUME NEW p \in DOMAIN log, log[p].kind = "chunk", log[p].seq <= completedSeq'[log[p].stream]
        PROVE  Settled(p)'
    <3>1. CASE log[p].seq <= completedSeq[log[p].stream]
      BY <1>1, <1>4, <2>2, <3>1 DEF NumbersAreSettled
    <3>2. CASE ~ (log[p].seq <= completedSeq[log[p].stream])
      <4>1. log[p].stream \in Streams
        BY <1>1, PositionFacts
      <4>2. log[p].stream = e.stream /\ log[p].seq <= e.seq
        BY <1>1, <1>2, <1>3, <2>2, <3>2, <4>1, RecordChunkType, PositionFacts
      <4> QED BY <1>6, <2>2, <4>2
    <3> QED BY <3>1, <3>2
  <2> QED BY <1>2, <1>4, <2>1, <2>2 DEF NumbersAreSettled
<1>8. AssembliesFit'
  BY <1>1, <1>2, <1>4 DEF AssembliesFit
<1>9. ASSUME NEW p \in DOMAIN log, NEW q \in DOMAIN log, OneMessage(log[q], log[p]), q < pos,
             pos < p, IsLast(log[p]), NeedsNoAssembly(p) \/ Holds(q)
      PROVE  NeedsNoAssembly(p)' \/ Holds(q)'
  <2>1. Holds(q) => Holds(q)'
    BY <1>2 DEF Holds
  <2>2. p \in Nat /\ q \in Nat /\ p # pos /\ log[p].seq \in Nat /\ log[q].seq \in Nat
    BY <1>1, <1>3, <1>9, PositionFacts
  <2>3. ~ (reader = "first" /\ e.stream = log[p].stream)
    <3> SUFFICES ASSUME reader = "first", e.stream = log[p].stream PROVE FALSE
      OBVIOUS
    <3>1. /\ log[q].stream = log[pos].stream /\ log[q].seq = log[p].seq
          /\ log[q].kind # "closed" /\ log[p].kind # "closed"
      BY <1>3, <1>9 DEF OneMessage
    <3>2. log[pos].seq < log[p].seq
      BY <1>1, <1>3, <1>9, <3>1, AfterLast
    <3>3. ~ OneMessage(log[q], log[pos])
      BY <1>1, <1>3 DEF RInv, ReaderKnows, OneMessage
    <3>4. log[q].seq < log[pos].seq
      BY <1>1, <1>3, <1>9, <3>1, <3>3, Numbering
    <3> QED BY <1>3, <2>2, <3>1, <3>2, <3>4
  <2>4. NeedsNoAssembly(p) => Settled(p) \/ ~ Registered(log[p].stream)
    BY <2>2, <2>3 DEF NeedsNoAssembly
  <2>5. Settled(p)' \/ ~ Registered(log[p].stream)' => NeedsNoAssembly(p)'
    BY DEF NeedsNoAssembly
  <2>6. ~ Registered(log[p].stream) => ~ Registered(log[p].stream)'
    BY <1>2 DEF Registered
  <2> QED BY <1>4, <1>9, <2>1, <2>4, <2>5, <2>6
<1>10. HeldBefore(pos)' /\ HeldBefore(cursor + 1)'
  BY <1>1, <1>2, <1>3, <1>9, HeldMoves
<1> QED BY <1>1, <1>5, <1>7, <1>8, <1>10 DEF FInv

LEMMA PutOpenedF == ASSUME FInv, PutOpened PROVE FInv'
<1> DEFINE s == Current.stream
<1>1. /\ RInv /\ RInv' /\ RemoteTypeOK /\ BehindIsSettled /\ NumbersAreSettled /\ AssembliesFit
      /\ HeldBefore(pos) /\ HeldBefore(cursor + 1)
  BY PutOpenedR DEF FInv, RInv
<1>2. /\ clients' = [clients EXCEPT ![s] = Len(streamOf) + 1] /\ lastSeq' = [lastSeq EXCEPT ![s] = 0]
      /\ UNCHANGED <<log, pos, cursor, handled, torn, assembly, completedSeq>>
      /\ reader = "opening" /\ reader' = "first"
  BY DEF PutOpened, wireVars, fateVars, segmentVars
<1>3. \A p : Settled(p)' <=> Settled(p)
  BY <1>2 DEF Settled, IsLast
<1>4. s \in Streams
  BY <1>1, LogFacts, EnvelopeFacts DEF PutOpened, ReaderKnows, RInv
<1>5. \A t \in Streams : t # s => (Registered(t)' <=> Registered(t)) /\ lastSeq'[t] = lastSeq[t]
  BY <1>1, <1>2 DEF Registered, RemoteTypeOK
<1>6. BehindIsSettled' /\ AssembliesFit'
  BY <1>1, <1>2, <1>3 DEF BehindIsSettled, AssembliesFit
<1>7. NumbersAreSettled'
  <2> SUFFICES ASSUME NEW p \in DOMAIN log, log[p].kind # "closed", Registered(log[p].stream)',
                      log[p].seq <= lastSeq'[log[p].stream]
               PROVE  Settled(p)'
    BY <1>1, <1>2, <1>3 DEF NumbersAreSettled
  <2>1. log[p].stream \in Streams /\ log[p].seq \in Nat /\ log[p].seq > 0
    BY <1>1, PositionFacts
  <2>2. log[p].stream # s
    <3>1. lastSeq'[s] = 0
      BY <1>1, <1>2, <1>4 DEF RemoteTypeOK
    <3> QED BY <2>1, <3>1
  <2>3. Registered(log[p].stream) /\ log[p].seq <= lastSeq[log[p].stream]
    BY <1>2, <1>5, <2>1, <2>2 DEF Registered
  <2> QED BY <1>1, <1>3, <2>3 DEF NumbersAreSettled
<1>8. ASSUME NEW p \in DOMAIN log, NEW q \in DOMAIN log, NeedsNoAssembly(p) \/ Holds(q)
      PROVE  NeedsNoAssembly(p)' \/ Holds(q)'
  <2>1. log[p].stream \in Streams
    BY <1>1, PositionFacts
  <2>2. CASE log[p].stream = s
    BY <1>2, <2>2 DEF NeedsNoAssembly, Current
  <2>3. CASE log[p].stream # s
    BY <1>2, <1>3, <1>5, <1>8, <2>1, <2>3 DEF NeedsNoAssembly, Holds, Registered
  <2> QED BY <2>2, <2>3
<1>9. HeldBefore(pos)' /\ HeldBefore(cursor + 1)'
  BY <1>1, <1>2, <1>8, HeldKept
<1> QED BY <1>1, <1>6, <1>7, <1>9 DEF FInv

LEMMA ReaderEndsF == ASSUME FInv, ReaderEnds PROVE FInv'
<1>1. /\ RInv /\ RInv' /\ RemoteTypeOK /\ BehindIsSettled /\ NumbersAreSettled /\ AssembliesFit
      /\ HeldBefore(pos) /\ HeldBefore(cursor + 1)
  BY ReaderEndsR DEF FInv, RInv
<1>2. /\ UNCHANGED <<log, pos, cursor, handled, assembly, completedSeq, lastSeq>>
      /\ torn \subseteq torn' /\ reader' = "off"
  BY DEF ReaderEnds, segmentVars
<1>3. \A p : Settled(p) => Settled(p)'
  BY <1>2, SettledStays
<1>4. /\ \A t \in Streams : Registered(t)' => Registered(t)
      /\ reader = "first" => ~ Registered(Current.stream)'
  <2>1. CASE reader = "first"
    <3>1. Current.stream \in Streams
      BY <1>1, <2>1, LogFacts, EnvelopeFacts DEF ReaderKnows, RInv
    <3>2. clients' = [clients EXCEPT ![Current.stream] = NoId] /\ Current' = Current
      BY <1>2, <2>1 DEF ReaderEnds, Current
    <3>3. /\ clients'[Current.stream] = NoId
          /\ \A t \in Streams : t # Current.stream => clients'[t] = clients[t]
      BY <1>1, <3>1, <3>2 DEF RemoteTypeOK
    <3> QED BY <3>2, <3>3 DEF Registered
  <2>2. CASE reader # "first"
    BY <2>2 DEF ReaderEnds, Registered
  <2> QED BY <2>1, <2>2
<1>5. BehindIsSettled' /\ AssembliesFit'
  BY <1>1, <1>2, <1>3 DEF BehindIsSettled, AssembliesFit
<1>6. NumbersAreSettled'
  BY <1>1, <1>2, <1>3, <1>4, PositionFacts DEF NumbersAreSettled
<1>7. ASSUME NEW p \in DOMAIN log, NEW q \in DOMAIN log, OneMessage(log[q], log[p]),
             NeedsNoAssembly(p) \/ Holds(q)
      PROVE  NeedsNoAssembly(p)' \/ Holds(q)'
  <2>1. Holds(q) => Holds(q)'
    BY <1>2 DEF Holds
  <2>2. reader = "forwarding" /\ pos = p => Settled(p)'
    BY <1>2, <1>7 DEF ReaderEnds, Settled, Current, OneMessage
  <2>3. ~ Registered(log[p].stream) => ~ Registered(log[p].stream)'
    <3>1. log[p].stream \in Streams
      BY <1>1, PositionFacts
    <3> QED BY <1>2, <1>4, <3>1 DEF Registered
  <2>4. reader = "first" /\ Current.stream = log[p].stream => ~ Registered(log[p].stream)'
    BY <1>2, <1>4 DEF Registered, Current
  <2> QED BY <1>3, <1>7, <2>1, <2>2, <2>3, <2>4 DEF NeedsNoAssembly
<1>8. HeldBefore(pos)' /\ HeldBefore(cursor + 1)'
  BY <1>1, <1>2, <1>7, HeldKept
<1> QED BY <1>1, <1>5, <1>6, <1>8 DEF FInv

LEMMA ReconnectF == ASSUME FInv, Reconnect PROVE FInv'
<1>1. /\ RInv /\ RInv' /\ RemoteTypeOK /\ BehindIsSettled /\ NumbersAreSettled /\ AssembliesFit
      /\ HeldBefore(cursor + 1)
  BY OthersR DEF FInv, RInv
<1>2. /\ UNCHANGED <<log, cursor, handled, torn, assembly, completedSeq, clients, lastSeq>>
      /\ reader = "off" /\ reader' = "idle" /\ pos' \in 1 .. cursor + 1 /\ cursor \in Nat
  BY <1>1, LogFacts DEF Reconnect, fateVars, segmentVars, trackerVars
<1>3. /\ \A p : Settled(p) => Settled(p)'
      /\ \A s : Registered(s)' <=> Registered(s)
  BY <1>2, SettledStays DEF Registered
<1>4. BehindIsSettled'
  <2>1. \A n \in Nat : n <= cursor + 1 => 1 .. n - 1 \subseteq 1 .. cursor
    BY <1>2
  <2>2. pos' \in Nat /\ pos' <= cursor + 1
    BY <1>2
  <2>3. 1 .. pos' - 1 \subseteq 1 .. cursor
    BY <2>1, <2>2
  <2> QED BY <1>1, <1>2, <1>3, <2>3 DEF BehindIsSettled
<1>5. NumbersAreSettled' /\ AssembliesFit'
  BY <1>1, <1>2, <1>3 DEF NumbersAreSettled, AssembliesFit
<1>6. ASSUME NEW p \in DOMAIN log, NEW q \in DOMAIN log, NeedsNoAssembly(p) \/ Holds(q)
      PROVE  NeedsNoAssembly(p)' \/ Holds(q)'
  BY <1>2, <1>3, <1>6 DEF NeedsNoAssembly, Holds
<1>7. HeldBefore(cursor + 1)'
  BY <1>1, <1>2, <1>6 DEF HeldBefore, OneMessage, IsLast
<1>8. HeldBefore(pos)'
  <2> SUFFICES ASSUME NEW p \in DOMAIN log, NEW q \in DOMAIN log, q < pos', pos' <= p,
                      OneMessage(log[q], log[p]), IsLast(log[p])
               PROVE  NeedsNoAssembly(p)' \/ Holds(q)'
    BY <1>2 DEF HeldBefore, OneMessage, IsLast
  <2>1. p \in Nat /\ q \in Nat /\ 1 <= p /\ pos' \in Nat
    BY <1>1, <1>2, PositionFacts
  <2>2. CASE p <= cursor
    <3>1. Settled(p)
      BY <1>1, <1>2, <2>1, <2>2 DEF BehindIsSettled
    <3> QED BY <1>6, <3>1 DEF NeedsNoAssembly
  <2>3. CASE ~ (p <= cursor)
    <3>1. q < cursor + 1 /\ cursor + 1 <= p
      BY <1>2, <2>1, <2>3
    <3> QED BY <1>1, <1>6, <3>1 DEF HeldBefore
  <2> QED BY <2>2, <2>3
<1> QED BY <1>1, <1>4, <1>5, <1>7, <1>8 DEF FInv

\* Invalidating streams that have no connection takes nothing that is needed.
LEMMA InvalidateKeeps ==
  ASSUME RInv, RInv', NumbersAreSettled, AssembliesFit, UNCHANGED <<log, lastSeq>>,
         handled \subseteq handled', torn \subseteq torn', NEW streams \in SUBSET Streams,
         UNCHANGED segmentVars \/ Invalidate(streams),
         \A s \in streams : ~ Registered(s)',
         \A s \in Streams : Registered(s)' => Registered(s)
  PROVE  /\ NumbersAreSettled' /\ AssembliesFit'
         /\ \A q \in DOMAIN log : Holds(q) => Holds(q)' \/ ~ Registered(log[q].stream)'
<1>1. RemoteTypeOK /\ \A p : Settled(p) => Settled(p)'
  BY SettledStays DEF RInv
<1>2. /\ \A c \in Clients : \/ assembly'[c] = assembly[c]
                            \/ assembly'[c] = NoAssembly /\ assembly[c].stream \in streams
      /\ \A s \in Streams : completedSeq'[s] \in {0, completedSeq[s]}
  <2>1. CASE UNCHANGED segmentVars
    BY <2>1 DEF segmentVars
  <2>2. CASE Invalidate(streams)
    BY <1>1, <2>2, InvalidateType
  <2> QED BY <2>1, <2>2
<1>3. NumbersAreSettled'
  <2> SUFFICES ASSUME NEW p \in DOMAIN log, log[p].kind # "closed"
               PROVE  /\ Registered(log[p].stream)' /\ log[p].seq <= lastSeq[log[p].stream] => Settled(p)'
                      /\ log[p].kind = "chunk" /\ log[p].seq <= completedSeq'[log[p].stream] => Settled(p)'
    BY DEF NumbersAreSettled, Registered
  <2>1. log[p].stream \in Streams /\ log[p].seq \in Nat /\ log[p].seq > 0
    BY <1>1, PositionFacts
  <2>2. log[p].seq <= completedSeq'[log[p].stream] => log[p].seq <= completedSeq[log[p].stream]
    BY <1>2, <2>1
  <2> QED BY <1>1, <2>1, <2>2 DEF NumbersAreSettled
<1>4. AssembliesFit'
  <2> SUFFICES ASSUME NEW d \in Clients, assembly'[d] # NoAssembly
               PROVE  /\ assembly'[d].stream \in Streams /\ ClientOf[assembly'[d].stream] = d
                      /\ 0 < assembly'[d].next /\ assembly'[d].next < assembly'[d].count
                      /\ \A p \in DOMAIN log : log[p].kind = "chunk" /\ log[p].stream = assembly'[d].stream =>
                            /\ log[p].seq < assembly'[d].seq => Settled(p)'
                            /\ log[p].seq = assembly'[d].seq => log[p].count = assembly'[d].count
    BY DEF AssembliesFit
  <2>1. assembly'[d] = assembly[d]
    BY <1>2
  <2> QED BY <1>1, <2>1 DEF AssembliesFit
<1>5. ASSUME NEW q \in DOMAIN log, Holds(q)
      PROVE  Holds(q)' \/ ~ Registered(log[q].stream)'
  <2>1. ClientOf[log[q].stream] \in Clients
    BY <1>1, PositionFacts
  <2>2. CASE assembly'[ClientOf[log[q].stream]] = assembly[ClientOf[log[q].stream]]
    BY <1>5, <2>2 DEF Holds
  <2>3. CASE assembly[ClientOf[log[q].stream]].stream \in streams
    <3>1. log[q].stream \in streams
      BY <1>5, <2>3 DEF Holds
    <3>2. ~ Registered(log[q].stream)'
      BY <3>1 DEF Registered
    <3> QED BY <3>2
  <2> QED BY <1>2, <2>1, <2>2, <2>3
<1> QED BY <1>3, <1>4, <1>5

\* A step of the reader that receives and delivers nothing.
LEMMA NothingMoves ==
  ASSUME FInv, RInv', UNCHANGED <<log, pos, cursor, lastSeq, handled, torn>>,
         NEW streams \in SUBSET Streams, UNCHANGED segmentVars \/ Invalidate(streams),
         \A s \in streams : ~ Registered(s)',
         \A s \in Streams : Registered(s)' => Registered(s),
         reader' = reader \/ reader \notin {"forwarding", "first"}
  PROVE  FInv'
<1>1. /\ RInv /\ RemoteTypeOK /\ BehindIsSettled /\ NumbersAreSettled /\ AssembliesFit
      /\ HeldBefore(pos) /\ HeldBefore(cursor + 1)
  BY DEF FInv, RInv
<1>2. /\ NumbersAreSettled' /\ AssembliesFit'
      /\ \A q \in DOMAIN log : Holds(q) => Holds(q)' \/ ~ Registered(log[q].stream)'
  BY <1>1, InvalidateKeeps
<1>3. BehindIsSettled'
  BY <1>1, BehindKept
<1>4. ASSUME NEW p \in DOMAIN log, NEW q \in DOMAIN log, OneMessage(log[q], log[p]),
             NeedsNoAssembly(p) \/ Holds(q)
      PROVE  NeedsNoAssembly(p)' \/ Holds(q)'
  <2>1. log[p].stream \in Streams /\ log[p].stream = log[q].stream
    BY <1>1, <1>4, PositionFacts DEF OneMessage
  <2>2. Registered(log[p].stream)' => Registered(log[p].stream)
    BY <2>1 DEF Registered
  <2>3. Settled(p)' <=> Settled(p)
    BY DEF Settled, IsLast
  <2>4. ~ Registered(log[p].stream)' => NeedsNoAssembly(p)'
    BY DEF NeedsNoAssembly
  <2>5. NeedsNoAssembly(p) => NeedsNoAssembly(p)'
    BY <2>2, <2>3 DEF NeedsNoAssembly, Current
  <2>6. ~ Registered(log[q].stream)' => ~ Registered(log[p].stream)'
    BY <2>1 DEF Registered
  <2> QED BY <1>2, <1>4, <2>4, <2>5, <2>6
<1>5. HeldBefore(pos)' /\ HeldBefore(cursor + 1)'
  BY <1>1, <1>4, HeldKept
<1> QED BY <1>2, <1>3, <1>5 DEF FInv

\* The reader records that a stream was closed.
LEMMA ClosedRecorded ==
  ASSUME FInv, RInv', RecordDelivery, handled' = handled \cup {pos}, UNCHANGED <<torn, lastSeq, clients>>,
         pos <= Len(log), Current.kind = "closed", reader \notin {"forwarding", "first"},
         NEW streams \in SUBSET Streams, Invalidate(streams), \A s \in streams : ~ Registered(s)
  PROVE  FInv'
<1>1. /\ RInv /\ RemoteTypeOK /\ BehindIsSettled /\ NumbersAreSettled /\ AssembliesFit
      /\ HeldBefore(pos) /\ pos \in DOMAIN log
  BY LogFacts DEF FInv, RInv
<1>2. UNCHANGED log /\ pos' = pos + 1 /\ cursor' = pos /\ reader' = "idle"
  BY DEF RecordDelivery
<1>3. \A s : Registered(s)' <=> Registered(s)
  BY DEF Registered
<1>4. /\ NumbersAreSettled' /\ AssembliesFit'
      /\ \A q \in DOMAIN log : Holds(q) => Holds(q)' \/ ~ Registered(log[q].stream)'
  BY <1>1, <1>2, <1>3, InvalidateKeeps
<1>5. BehindIsSettled'
  BY <1>1, <1>2, BehindMoves
<1>6. ASSUME NEW p \in DOMAIN log, NEW q \in DOMAIN log, OneMessage(log[q], log[p]),
             NeedsNoAssembly(p) \/ Holds(q)
      PROVE  NeedsNoAssembly(p)' \/ Holds(q)'
  <2>1. log[p].stream = log[q].stream
    BY <1>6 DEF OneMessage
  <2>2. Settled(p) => Settled(p)'
    BY <1>2, SettledStays
  <2>3. NeedsNoAssembly(p) => NeedsNoAssembly(p)'
    BY <1>2, <2>2 DEF NeedsNoAssembly, Registered
  <2>4. ~ Registered(log[q].stream)' => NeedsNoAssembly(p)'
    BY <1>2, <2>1 DEF NeedsNoAssembly, Registered
  <2> QED BY <1>4, <1>6, <2>3, <2>4
<1>7. IsLast(Current)
  BY DEF IsLast
<1>8. HeldBefore(pos)' /\ HeldBefore(cursor + 1)'
  BY <1>1, <1>2, <1>6, <1>7, HeldMoves
<1> QED BY <1>4, <1>5, <1>8 DEF FInv

LEMMA PutClosedF == ASSUME FInv, PutClosed PROVE FInv'
<1>1. /\ RInv /\ RInv' /\ RemoteTypeOK
  BY PutClosedR DEF FInv, RInv
<1>2. /\ reader = "closing" /\ UNCHANGED <<torn, lastSeq>>
      /\ closing.after \in {"reopen", "record", "bookkeep", "sweep"}
      /\ closing.streams \in SUBSET Streams
      /\ idle # {} => closing.after = "sweep"
      /\ \A s \in idle : s \in Streams /\ Registered(s)
      /\ \A s \in closing.streams : s \in idle \/ ~ Registered(s)
      /\ closing.after = "record" => pos <= Len(log) /\ Current.kind = "closed"
  BY <1>1 DEF PutClosed, RInv, RemoteTypeOK, ReaderKnows, Closings
<1>3. CASE closing.after = "reopen"
  BY <1>1, <1>2, <1>3, NothingMoves DEF PutClosed, wireVars, Registered
<1>4. CASE closing.after = "record"
  <2>1. /\ RecordDelivery /\ Invalidate(closing.streams) /\ handled' = handled \cup {pos}
        /\ clients' = clients
    BY <1>4 DEF PutClosed
  <2>2. \A s \in closing.streams : ~ Registered(s)
    BY <1>2, <1>4
  <2> QED BY <1>1, <1>2, <1>4, <2>1, <2>2, ClosedRecorded
<1>5. CASE closing.after = "bookkeep" \/ (closing.after = "sweep" /\ idle = {})
  <2>1. /\ Invalidate(closing.streams) /\ UNCHANGED <<log, pos, cursor, handled, clients>>
    BY <1>5 DEF PutClosed, wireVars
  <2>2. \A s \in closing.streams : ~ Registered(s)'
    BY <1>2, <1>5, <2>1 DEF Registered
  <2>3. \A s \in Streams : Registered(s)' => Registered(s)
    BY <2>1 DEF Registered
  <2> QED BY <1>1, <1>2, <2>1, <2>2, <2>3, NothingMoves
<1>6. CASE closing.after = "sweep" /\ idle # {}
  <2>1. /\ UNCHANGED segmentVars /\ UNCHANGED <<log, pos, cursor, handled>>
    BY <1>6 DEF PutClosed, wireVars
  <2>2. PICK s \in idle : CloseClient(s, "sweep", closing.streams)
    BY <1>6 DEF PutClosed
  <2>3. \A t \in Streams : Registered(t)' => Registered(t)
    BY <1>1, <1>2, <2>2 DEF CloseClient, Registered, RemoteTypeOK
  <2> QED BY <1>1, <1>2, <2>1, <2>3, NothingMoves
<1> QED BY <1>2, <1>3, <1>4, <1>5, <1>6

\* Closing a stream's connection when the reader is about to receive.
LEMMA CloseClientF ==
  ASSUME FInv, RInv', reader = "idle", NEW s \in Streams, NEW streams, NEW after,
         CloseClient(s, after, streams),
         UNCHANGED <<log, pos, cursor, lastSeq, handled, torn, segmentVars>>
  PROVE  FInv'
<1>1. \A t \in Streams : Registered(t)' => Registered(t)
  BY DEF CloseClient, Registered, FInv, RInv, RemoteTypeOK
<1>2. {} \in SUBSET Streams /\ \A t \in {} : ~ Registered(t)'
  OBVIOUS
<1>3. reader \notin {"forwarding", "first"}
  OBVIOUS
<1> QED BY <1>1, <1>2, <1>3, NothingMoves

LEMMA CursorInit == Init => FInv
<1> SUFFICES ASSUME Init PROVE FInv
  OBVIOUS
<1>1. RInv /\ RemoteTypeOK
  BY ReaderInit DEF RInv
<1>2. /\ pos = 1 /\ cursor = 0 /\ \A c \in Clients : assembly[c] = NoAssembly
      /\ \A s \in Streams : completedSeq[s] = 0 /\ ~ Registered(s)
  BY DEF Init, Registered
<1>3. BehindIsSettled
  BY <1>2 DEF BehindIsSettled
<1>4. NumbersAreSettled
  <2> SUFFICES ASSUME NEW p \in DOMAIN log, log[p].kind # "closed"
               PROVE  /\ ~ Registered(log[p].stream)
                      /\ ~ (log[p].seq <= completedSeq[log[p].stream])
    BY DEF NumbersAreSettled
  <2> QED BY <1>1, <1>2, PositionFacts
<1>5. AssembliesFit
  BY <1>2 DEF AssembliesFit
<1>6. HeldBefore(1)
  BY <1>1, PositionFacts DEF HeldBefore
<1>7. HeldBefore(pos) /\ HeldBefore(cursor + 1)
  BY <1>2, <1>6
<1> QED BY <1>1, <1>3, <1>4, <1>5, <1>7 DEF FInv

LEMMA CursorStep == FInv /\ [Next]_vars => FInv'
<1> SUFFICES ASSUME FInv, [Next]_vars PROVE FInv'
  OBVIOUS
<1>1. RInv /\ RInv' /\ RemoteTypeOK
  BY ReaderStepR DEF FInv, RInv
<1>2. CASE ReceiveInitialize
  <2>1. UNCHANGED <<log, pos, cursor, lastSeq, handled, torn, segmentVars>> /\ reader = "idle"
    BY <1>2 DEF ReceiveInitialize, wireVars, fateVars
  <2>2. Current.stream \in Streams
    BY <1>1, <1>2, LogFacts, EnvelopeFacts DEF ReceiveInitialize
  <2>3. CASE Registered(Current.stream)
    BY <1>1, <1>2, <2>1, <2>2, <2>3, CloseClientF DEF ReceiveInitialize
  <2>4. CASE ~ Registered(Current.stream)
    BY <1>1, <1>2, <2>1, <2>4, NothingMoves DEF ReceiveInitialize, Registered
  <2> QED BY <2>3, <2>4
<1>3. CASE ReceiveClosed
  <2>1. /\ reader = "idle" /\ pos <= Len(log) /\ Current.kind = "closed"
        /\ UNCHANGED <<torn, lastSeq>>
    BY <1>3 DEF ReceiveClosed
  <2>2. Current.stream \in Streams
    BY <1>1, <1>3, LogFacts, EnvelopeFacts DEF ReceiveClosed
  <2>3. CASE Registered(Current.stream)
    BY <1>1, <1>3, <2>1, <2>2, <2>3, CloseClientF DEF ReceiveClosed, wireVars
  <2>4. CASE ~ Registered(Current.stream)
    BY <1>1, <1>3, <2>1, <2>2, <2>4, ClosedRecorded DEF ReceiveClosed
  <2> QED BY <2>3, <2>4
<1>4. CASE Bookkeep
  <2>1. /\ reader = "idle" /\ UNCHANGED <<log, pos, cursor, lastSeq, handled, torn>>
        /\ got \in Streams
    BY <1>1, <1>4 DEF Bookkeep, wireVars, fateVars, RemoteTypeOK
  <2>2. CASE Registered(got)
    BY <1>1, <1>4, <2>1, <2>2, CloseClientF DEF Bookkeep
  <2>3. CASE ~ Registered(got)
    <3>1. /\ Invalidate({got}) /\ UNCHANGED <<reader, clients>>
      BY <1>4, <2>3 DEF Bookkeep
    <3> QED BY <1>1, <2>1, <2>3, <3>1, NothingMoves DEF Registered
  <2> QED BY <2>2, <2>3
<1>5. CASE Sweep
  <2>1. PICK s \in Streams, expired \in SUBSET Streams : CloseClient(s, "sweep", expired)
    BY <1>5 DEF Sweep
  <2> QED BY <1>1, <1>5, <2>1, CloseClientF DEF Sweep, wireVars, fateVars
<1>6. CASE UNCHANGED <<log, pos, cursor, lastSeq, handled, torn, segmentVars, reader, clients>>
  <2>1. {} \in SUBSET Streams /\ \A s \in {} : ~ Registered(s)'
    OBVIOUS
  <2>2. \A s \in Streams : Registered(s)' => Registered(s)
    BY <1>6 DEF Registered
  <2> QED BY <1>1, <1>6, <2>1, <2>2, NothingMoves
<1>7. \/ ReceiveChunk \/ ReceiveMessage \/ ReceiveInitialize \/ ReceiveClosed
      \/ PutOpened \/ PutMessage \/ PutClosed \/ Bookkeep \/ Sweep \/ ReaderEnds \/ Reconnect
      \/ UNCHANGED <<log, pos, cursor, lastSeq, handled, torn, segmentVars, reader, clients>>
  BY DEF Next, ReaderStep, BookkeepGets, AppTakes, TaskEnds, PutClosedLater, AppDisconnects,
     wireVars, fateVars, trackerVars, vars
<1> QED BY <1>2, <1>3, <1>4, <1>5, <1>6, <1>7, ReceiveChunkF, ReceiveMessageF, PutOpenedF,
        PutMessageF, PutClosedF, ReaderEndsF, ReconnectF

\* The subscribe cursor never stands past a message that was neither delivered
\* nor without a connection, but for one whose chunks were torn apart: whatever
\* is sent again, in pieces or whole, after however many lost websockets.
THEOREM CursorIsSafe == Spec => []CursorLosesNothing
<1>1. FInv => CursorLosesNothing
  BY DEF FInv, BehindIsSettled, Settled, CursorLosesNothing
<1>2. Spec => []FInv
  BY CursorInit, CursorStep, PTL DEF Spec
<1> QED BY <1>1, <1>2, PTL
=============================================================================
