---------------------------- MODULE SessionLease ----------------------------
(***************************************************************************)
(* What a registry of resumable sessions promises its clients: a session   *)
(* has at most one holder, passes from one holder to the next only after   *)
(* it was given back, ends only while nobody holds it, and stays ended.    *)
(***************************************************************************)
CONSTANTS Sessions, Clients, Unborn, Free, Ended

VARIABLE holder

Init == holder = [s \in Sessions |-> Unborn]

Grant(s) == /\ holder[s] \in {Unborn, Free}
            /\ \E c \in Clients : /\ \A t \in Sessions : holder[t] # c
                                  /\ holder' = [holder EXCEPT ![s] = c]

GiveBack(s) == /\ holder[s] \in Clients
               /\ holder' = [holder EXCEPT ![s] = Free]

End(s) == /\ holder[s] = Free
          /\ holder' = [holder EXCEPT ![s] = Ended]

Next == \E s \in Sessions : Grant(s) \/ GiveBack(s) \/ End(s)

Spec == Init /\ [][Next]_holder
=============================================================================
