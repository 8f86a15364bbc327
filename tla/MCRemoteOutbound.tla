-------------------------- MODULE MCRemoteOutbound --------------------------
(* Instance of RemoteOutbound for TLC: a stream whose client goes on reading *)
(* and acknowledging, and one whose client may stop.                         *)
EXTENDS RemoteOutbound
CONSTANTS a, b
MCStreams == {a, b}
MCPatient == {a}
MCParts   == {0, 2}
=============================================================================
