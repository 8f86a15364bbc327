-------------------------- MODULE MCRequestQueues --------------------------
(* Instances of RequestQueues for TLC: two shared reads and two writers of   *)
(* one global key over two connections; and a read, two writers and a        *)
(* request about a process, whose key is another one.                        *)
EXTENDS RequestQueues
CONSTANTS s1, s2, w1, w2, e1, ca, cb, config, proc

MCRequests      == {s1, s2, w1, w2}
MCMixedRequests == {s1, w1, w2, e1}
MCConnections   == {ca, cb}
ConnOn(rs)      == [r \in rs |-> IF r \in {s1, w1} THEN ca ELSE cb]
Scope(t, v)     == [type |-> t, value |-> v]
ScopeOn(rs)     == [r \in rs |->
                      CASE r \in {s1, s2} -> Scope("GlobalSharedRead", config)
                        [] r \in {w1, w2} -> Scope("Global", config)
                        [] OTHER          -> Scope("Process", proc)]
MCConnOf       == ConnOn(MCRequests)
MCMixedConnOf  == ConnOn(MCMixedRequests)
MCScopeOf      == ScopeOn(MCRequests)
MCMixedScopeOf == ScopeOn(MCMixedRequests)
MCRaising      == {s1, w1}
MCOneRaising   == {w1}
=============================================================================
