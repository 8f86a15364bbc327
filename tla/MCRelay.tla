------------------------------ MODULE MCRelay ------------------------------
(* Instance of Relay for TLC: two streams, queues of one message.           *)
EXTENDS Relay
CONSTANTS a, b
MCStreams == {a, b}
MCNotices == {1}
=============================================================================
