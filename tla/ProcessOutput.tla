---------------------------- MODULE ProcessOutput ----------------------------
(***************************************************************************)
(* Output of one process of the exec server: LocalRunningProcess and the   *)
(* tasks that feed it (pycodex/exec_server/local_process.py), and one      *)
(* client that reads it page by page with LocalProcess.exec_read.          *)
(*                                                                         *)
(* Two stream tasks and an exit watcher number what they record from one   *)
(* counter.  Recording and notifying never suspend, so each of their steps *)
(* is one action.  exec_read suspends only where it waits for the output   *)
(* event.  The server runs one request of a connection at a time, so there *)
(* is one reader.                                                          *)
(***************************************************************************)
EXTENDS Integers, FiniteSets, Sequences, FiniteSetsExt

CONSTANTS Streams,       \* the two output streams
          Sizes,         \* bytes a read of a stream may return
          MaxRetained,   \* MAX_RETAINED_OUTPUT_BYTES_PER_PROCESS
          PageSizes,     \* values of max_bytes clients ask for
          MaxChunks      \* bound on the number of chunks

ASSUME SizesAssumption ==
    /\ IsFiniteSet(Streams)
    /\ MaxRetained \in Nat /\ MaxChunks \in Nat
    /\ Sizes \subseteq 1 .. MaxRetained   \* streams are read 4096 bytes at a time
    /\ PageSizes \subseteq Nat

VARIABLES
    nextSeq,       \* next_seq
    output,        \* the retained chunks; the list is sorted by seq
    open,          \* streams whose task still runs; open_streams counts them
    exited,        \* exit_code is not None
    closed,        \* closed
    sent,          \* every notification in the order it was made
    read,          \* the state of exec_read: "idle", "waiting" or "woken"
    pageSize,      \* max_bytes of the read under way
    after,         \* after_seq of the client's next read
    page,          \* sequence numbers of the chunks of the latest response
    got            \* sequence numbers of the chunks of earlier responses

processVars == <<nextSeq, output, open, exited, closed, sent>>
readerVars  == <<read, pageSize, after, page, got>>
vars        == <<processVars, readerVars>>

Chunks == [seq : Nat \ {0}, size : Sizes]
Events == [kind : {"output", "exited", "closed"}, seq : Nat \ {0}]

OutputTypeOK ==
    /\ nextSeq \in Nat \ {0}
    /\ output \subseteq Chunks /\ IsFiniteSet(output)
    /\ open \subseteq Streams
    /\ exited \in BOOLEAN /\ closed \in BOOLEAN
    /\ sent \in Seq(Events)
    /\ read \in {"idle", "waiting", "woken"}
    /\ pageSize \in PageSizes
    /\ after \in Nat
    /\ page \subseteq Nat /\ got \subseteq Nat

Init ==
    /\ nextSeq = 1
    /\ output = {}
    /\ open = Streams
    /\ exited = FALSE /\ closed = FALSE
    /\ sent = <<>>
    /\ read = "idle"
    /\ pageSize \in PageSizes
    /\ after = 0
    /\ page = {} /\ got = {}
-----------------------------------------------------------------------------
Bytes(chunks) == MapThenSumSet(LAMBDA c : c.size, chunks)

\* What is left when the oldest chunks are evicted until the rest fits.
Kept(chunks) ==
    {c \in chunks : Bytes({d \in chunks : d.seq >= c.seq}) <= MaxRetained}

\* Setting the output event resumes a parked reader.
Wake == read' = IF read = "waiting" THEN "woken" ELSE read

Notification(kind, seq) == [kind |-> kind, seq |-> seq]
-----------------------------------------------------------------------------
\* Faulty variants, used only to confirm that the properties notice them, are
\* named Faulty... and precede the definition they vary.
FaultyRecordNoWake(stream, size) ==
    LET chunk == [seq |-> nextSeq, size |-> size]
    IN  /\ stream \in open
        /\ Cardinality({i \in DOMAIN sent : sent[i].kind = "output"}) < MaxChunks
        /\ nextSeq' = nextSeq + 1
        /\ output' = Kept(output \cup {chunk})
        /\ sent' = Append(sent, Notification("output", nextSeq))
        /\ UNCHANGED <<open, exited, closed, readerVars>>

\* A stream task got a chunk.  What is recorded is notified while a client is
\* attached: `sent` is what one that stays attached is sent, and a client that
\* has lost its connection sees nothing of the rest (see ProcessEvents).
RecordOutput(stream, size) ==
    LET chunk == [seq |-> nextSeq, size |-> size]
    IN  /\ stream \in open
        /\ Cardinality({i \in DOMAIN sent : sent[i].kind = "output"}) < MaxChunks
        /\ nextSeq' = nextSeq + 1
        /\ output' = Kept(output \cup {chunk})
        /\ sent' = Append(sent, Notification("output", nextSeq))
        /\ Wake
        /\ UNCHANGED <<open, exited, closed, pageSize, after, page, got>>

\* _local_process_maybe_mark_closed, with what its caller left in the
\* numbering, the notifications and the state of the process.
FaultyCloseBeforeStreams(seq, log, stillOpen, hasExited) ==
    IF ~ closed /\ hasExited
      THEN /\ closed' = TRUE
           /\ nextSeq' = seq + 1
           /\ sent' = Append(log, Notification("closed", seq))
      ELSE /\ closed' = closed
           /\ nextSeq' = seq
           /\ sent' = log

MaybeClose(seq, log, stillOpen, hasExited) ==
    IF ~ closed /\ stillOpen = {} /\ hasExited
      THEN /\ closed' = TRUE
           /\ nextSeq' = seq + 1
           /\ sent' = Append(log, Notification("closed", seq))
      ELSE /\ closed' = closed
           /\ nextSeq' = seq
           /\ sent' = log

\* A stream task ends: its stream is over, or reading it failed.
EndStream(stream) ==
    /\ stream \in open
    /\ open' = open \ {stream}
    /\ MaybeClose(nextSeq, sent, open \ {stream}, exited)
    /\ IF closed' = closed THEN UNCHANGED read ELSE Wake
    /\ UNCHANGED <<output, exited, pageSize, after, page, got>>

\* The watcher learned that the child is gone, and the process may be over.
RecordExit ==
    /\ ~ exited
    /\ exited' = TRUE
    /\ MaybeClose(nextSeq + 1, Append(sent, Notification("exited", nextSeq)), open, TRUE)
    /\ Wake
    /\ UNCHANGED <<output, open, pageSize, after, page, got>>
-----------------------------------------------------------------------------
Unread == {c \in output : c.seq > after}

\* The first unread chunk whatever its size, then as many as fit.
Page(max) ==
    {c \in Unread : \/ \A d \in Unread : c.seq <= d.seq
                    \/ Bytes({d \in Unread : d.seq <= c.seq}) <= max}

\* The response tells the client where to go on.
FaultyAnswerFromCounter(max) ==
    /\ read' = "idle"
    /\ page' = {c.seq : c \in Page(max)}
    /\ got' = got \cup page
    /\ after' = nextSeq - 1

Answer(max) ==
    /\ read' = "idle"
    /\ page' = {c.seq : c \in Page(max)}
    /\ got' = got \cup page
    /\ after' = IF page' = {} THEN nextSeq - 1 ELSE Max(page')

HasNews == Unread # {} \/ closed \/ (exited /\ after < nextSeq - 1)

\* A request arrives.  A client that does not wait gets what there is.
Read(max) ==
    /\ read = "idle"
    /\ pageSize' = max
    /\ \/ Answer(max)
       \/ ~ HasNews /\ read' = "waiting" /\ UNCHANGED <<after, page, got>>
    /\ UNCHANGED processVars

\* The loop looks again after the output event.
ReadResumes ==
    /\ read = "woken"
    /\ IF HasNews THEN Answer(pageSize)
                  ELSE read' = "waiting" /\ UNCHANGED <<after, page, got>>
    /\ UNCHANGED <<processVars, pageSize>>

\* wait_ms is over, also while the event is being set.
ReadTimesOut ==
    /\ read \in {"waiting", "woken"}
    /\ Answer(pageSize)
    /\ UNCHANGED <<processVars, pageSize>>
-----------------------------------------------------------------------------
ProcessNext ==
    \/ \E stream \in Streams : EndStream(stream) \/ \E size \in Sizes : RecordOutput(stream, size)
    \/ RecordExit

ReaderNext == (\E max \in PageSizes : Read(max)) \/ ReadResumes \/ ReadTimesOut

Next == ProcessNext \/ ReaderNext

Spec == Init /\ [][Next]_vars
-----------------------------------------------------------------------------
(***************************************************************************)
(* Properties                                                              *)
(***************************************************************************)

\* Three tasks number what they record from one counter: the n-th notification
\* carries n.  The client's reorder buffer stops for ever at a gap.
NumberedWithoutGaps ==
    /\ nextSeq = Len(sent) + 1
    /\ \A i \in DOMAIN sent : sent[i].seq = i

\* Closed is the last notification, follows the exit and the last chunk, and
\* is made as soon as the exit and both stream ends are there, in whatever
\* order they come.
ClosedIsLast ==
    /\ closed <=> (exited /\ open = {})
    /\ \A i \in DOMAIN sent : sent[i].kind = "closed" => i = Len(sent) /\ closed

\* Paging skips nothing that is still retained, whatever was recorded, exited
\* or evicted between two reads.
NothingSkipped == \A c \in output : c.seq <= after => c.seq \in got \cup page

\* A parked reader has nothing to be told: no chunk, no exit, no close.
ParkedHasNoNews == read = "waiting" => ~ HasNews

\* Chunks are read in order and never twice.
ReadOnceInOrder == \A old \in got, new \in page : old < new
=============================================================================
