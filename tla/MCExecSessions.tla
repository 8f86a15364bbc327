--------------------------- MODULE MCExecSessions ---------------------------
(* Instance of ExecSessions for TLC: two sessions, three connections and    *)
(* one process id.                                                          *)
EXTENDS ExecSessions
CONSTANTS s1, s2, c1, c2, c3, p1
MCSessions    == {s1, s2}
MCConnections == {c1, c2, c3}
MCProcessIds  == {p1}
=============================================================================
