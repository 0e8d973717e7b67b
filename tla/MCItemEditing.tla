--------------------------- MODULE MCItemEditing ---------------------------
(***************************************************************************)
(* An instance of ItemEditing for TLC: one item that is stored with one    *)
(* activity and whose product columns are all NULL, so that the first      *)
(* rename or patch is seen.                                                *)
(***************************************************************************)
EXTENDS ItemEditing, TLC

CONSTANTS i1, v1

StoredItem ==
    [live |-> TRUE,
     now  |-> [rev |-> 0, meta |-> Unset, acts |-> {[id |-> 1, val |-> v1, ord |-> 1]}],
     arch |-> {}]

OneStored == i1 :> StoredItem

Symmetry == Permutations(Clients)
=============================================================================
