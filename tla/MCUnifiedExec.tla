--------------------------- MODULE MCUnifiedExec ---------------------------
(* Instance of UnifiedExec for TLC: two calls, one of them with a          *)
(* terminal and one whose process may leave a descendant behind, a table    *)
(* that is pruned when it holds two processes, and a buffer of one byte.    *)
EXTENDS UnifiedExec, TLC
CONSTANTS a, t
MCCalls == {a, t}
MCTty   == {t}
MCIds   == 1 .. 2
MCForking == {a}
MCBytes == (a :> 2) @@ (t :> 0)
=============================================================================
