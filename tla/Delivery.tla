------------------------------ MODULE Delivery ------------------------------
(***************************************************************************)
(* What require_dep() promises the application that calls it, whatever way *)
(* it takes: a configure that succeeds hands over files of the recipe that *)
(* is checked out and of no other, all of them; one that does not succeed  *)
(* hands over nothing; and every configure comes to an end.                *)
(***************************************************************************)
CONSTANTS Recipe

VARIABLES
    wanted,     \* the recipe of the checkout
    status,     \* how far the configure is
    delivered   \* the recipes whose files the application was handed

vars == <<wanted, status, delivered>>

Init ==
    /\ wanted \in Recipe
    /\ status = "idle"
    /\ delivered = {}

Resting == status \in {"idle", "bound", "failed"}

Change ==
    /\ Resting
    /\ wanted' \in Recipe
    /\ status' = "idle"
    /\ delivered' = {}

Ask ==
    /\ Resting
    /\ status' = "working"
    /\ delivered' = {}
    /\ UNCHANGED wanted

Deliver ==
    /\ status = "working"
    /\ status' = "bound"
    /\ delivered' \in SUBSET {wanted}
    /\ UNCHANGED wanted

Refuse ==
    /\ status = "working"
    /\ status' = "failed"
    /\ UNCHANGED <<wanted, delivered>>

Abort ==
    /\ status = "working"
    /\ status' = "idle"
    /\ UNCHANGED <<wanted, delivered>>

Finish == Deliver \/ Refuse \/ Abort

Next == Change \/ Ask \/ Finish

SafeSpec == Init /\ [][Next]_vars

(* Finish is enabled exactly while a configure works, so that its fairness *)
(* is the same as this.                                                    *)
Ends == status = "working" ~> Resting

Spec == SafeSpec /\ Ends
=============================================================================
