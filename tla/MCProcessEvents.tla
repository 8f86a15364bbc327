-------------------------- MODULE MCProcessEvents --------------------------
(* Instance of ProcessEvents for TLC: chunks of one and two bytes, two of   *)
(* which are retained, pages of one chunk or of all of them, and a log and a *)
(* live queue of two events.                                                *)
EXTENDS ProcessEvents
MCStreams   == {"stdout", "stderr"}
MCSizes     == {1, 2}
MCPageSizes == {0, 9}
=============================================================================
