--------------------------- MODULE MCClientCalls ---------------------------
(* Instance of ClientCalls for TLC: three calls and a queue of one request, *)
(* so that two of them wait for room.                                       *)
EXTENDS ClientCalls
CONSTANTS a1, a2, a3
MCCalls == {a1, a2, a3}
=============================================================================
