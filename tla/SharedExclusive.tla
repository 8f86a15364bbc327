--------------------------- MODULE SharedExclusive ---------------------------
(***************************************************************************)
(* What a scheduler of shared and exclusive work promises: every item      *)
(* passes at most once from waiting to active to finished, an item may be  *)
(* given up before it becomes active, and conflicting items are never      *)
(* active together.  The tool execution gate and the request queues of the *)
(* app server are two implementations.                                     *)
(***************************************************************************)
CONSTANTS Items,        \* pieces of work
          Conflicts     \* pairs that may not be active together

VARIABLES active, finished

absVars == <<active, finished>>

Compatible(S) == \A a, b \in S : <<a, b>> \notin Conflicts

Init == active = {} /\ finished = {}

Start == \E S \in SUBSET (Items \ (active \cup finished)) :
            /\ Compatible(active \cup S)
            /\ active' = active \cup S
            /\ UNCHANGED finished

Finish == \E S \in SUBSET active :
            /\ active' = active \ S
            /\ finished' = finished \cup S

GiveUp == \E S \in SUBSET (Items \ (active \cup finished)) :
            /\ finished' = finished \cup S
            /\ UNCHANGED active

Next == Start \/ Finish \/ GiveUp

Spec == Init /\ [][Next]_absVars
=============================================================================
