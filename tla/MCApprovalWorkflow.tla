------------------------- MODULE MCApprovalWorkflow -------------------------
(***************************************************************************)
(* Instances of ApprovalWorkflow for TLC: one inventory id, whose item is  *)
(* stored or not.                                                          *)
(***************************************************************************)
EXTENDS ApprovalWorkflow, TLC

CONSTANTS i1, m1, v1

StoredItem ==
    [live |-> TRUE,
     now  |-> [rev |-> 0, meta |-> m1, acts |-> {[id |-> 1, val |-> v1, ord |-> 1]}],
     arch |-> {}]

OneStored == i1 :> StoredItem

Symmetry == Permutations(Clients)
=============================================================================
