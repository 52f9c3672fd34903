--------------------------- MODULE WriteOnceSlot ---------------------------
(***************************************************************************)
(* What the plugin cache promises of one reference: a slot that is filled  *)
(* while it is empty, with a whole artifact, and keeps it until a Delete   *)
(* of it is under way.  The promise is void from the moment two fills      *)
(* overlap or a Delete is disturbed.                                       *)
(***************************************************************************)
CONSTANTS Value, Empty

VARIABLES slot, clearing, void

Init == slot = Empty /\ clearing = FALSE /\ void = FALSE

Fill ==
    /\ slot = Empty
    /\ ~clearing
    /\ slot' \in Value
    /\ UNCHANGED <<clearing, void>>

\* A Delete begins, empties the slot, and ends; one that is broken off may
\* end with the slot as it was.
BeginClearing ==
    /\ clearing' = TRUE
    /\ UNCHANGED <<slot, void>>

Clear ==
    /\ clearing
    /\ slot' = Empty
    /\ UNCHANGED <<clearing, void>>

EndClearing ==
    /\ clearing' = FALSE
    /\ UNCHANGED <<slot, void>>

\* Calls get into each other's way: nothing is said of the slot any more.
Void == void'

Next == Fill \/ BeginClearing \/ Clear \/ EndClearing \/ Void

Spec == Init /\ [][Next]_<<slot, clearing, void>>
=============================================================================
