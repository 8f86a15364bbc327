-------------------------- MODULE SegmentAssembly --------------------------
(***************************************************************************)
(* How the remote-control server puts segmented client messages together   *)
(* (ClientSegmentReassembler of segment.py and the check in front of it,   *)
(* WebsocketState.observe_client_message of websocket.py).                 *)
(*                                                                         *)
(* A chunk is an envelope with a stream, a sequence id, a segment and the  *)
(* number of segments.  The bytes, their sizes and their encoding are left *)
(* out, and with them the rejections of a malformed chunk; so is the       *)
(* eviction of assemblies when 128 clients have one.                       *)
(***************************************************************************)
EXTENDS Integers

NoAssembly == [stream |-> "none", seq |-> 0, count |-> 0, next |-> 0]

\* The assembly a chunk starts when its client has none on this stream.
Started(e) == [stream |-> e.stream, seq |-> e.seq, count |-> e.count, next |-> 0]

SameStream(a, e) == a # NoAssembly /\ a.stream = e.stream

\* A chunk of an older message, or one the assembly already holds.
ShouldIgnoreChunk(a, e) ==
    /\ SameStream(a, e)
    /\ \/ e.seq < a.seq
       \/ e.seq = a.seq /\ e.segment < a.next

\* A message of this stream with this or a later sequence id has been delivered.
AlreadyComplete(completedSeq, e) == completedSeq >= e.seq

Dropped(a, completedSeq, e) ==
    AlreadyComplete(completedSeq, e) \/ ShouldIgnoreChunk(a, e)

Base(a, e) == IF SameStream(a, e) THEN a ELSE Started(e)

Fits(a, e) ==
    LET b == Base(a, e) IN
    e.seq = b.seq /\ e.count = b.count /\ e.segment = b.next

\* The chunk is the last one its message needs.
Completes(a, completedSeq, e) ==
    ~ Dropped(a, completedSeq, e) /\ Fits(a, e) /\ e.segment + 1 = e.count

\* The client's assembly after the chunk: one that does not fit destroys it.
Observe(a, completedSeq, e) ==
    IF Dropped(a, completedSeq, e)
    THEN a
    ELSE IF Fits(a, e) /\ e.segment + 1 < e.count
         THEN [Base(a, e) EXCEPT !.next = e.segment + 1]
         ELSE NoAssembly
=============================================================================
