------------------------ MODULE MCServerConnection ------------------------
(* Instance of ServerConnection for TLC: an outgoing queue of two messages. *)
EXTENDS ServerConnection
=============================================================================
