---------------------------- MODULE MCToolCalls ----------------------------
(* Instance of ToolCalls for TLC: a parallel call, an exclusive one and an  *)
(* exclusive one whose tool waits for the runtime cancellation.             *)
EXTENDS ToolCalls
CONSTANTS p, w, ws
MCCalls         == {p, w, ws}
MCParallelCalls == {p}
MCWaitingCalls  == {ws}
=============================================================================
