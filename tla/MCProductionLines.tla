------------------------- MODULE MCProductionLines -------------------------
(***************************************************************************)
(* Instances of ProductionLines for TLC: two lines, and two products that  *)
(* name both of them the other way round, or one inventory id that has no  *)
(* product yet.                                                            *)
(***************************************************************************)
EXTENDS ProductionLines, TLC

CONSTANTS l1, l2, n1, p1, p2

PlainLine == [live |-> TRUE, name |-> n1, acts |-> {}]
TwoLines  == l1 :> PlainLine @@ l2 :> PlainLine
OneLine   == l1 :> PlainLine

Uses(f, b) ==
    [live |-> TRUE, code |-> [fg |-> f, bm |-> b], name |-> [fg |-> n1, bm |-> n1]]
Crossed == p1 :> Uses(l1, l2) @@ p2 :> Uses(l2, l1)
NoProduct ==
    p1 :> [live |-> FALSE, code |-> [s \in Sides |-> NoLine], name |-> [s \in Sides |-> NoName]]

Symmetry == Permutations(Clients)
=============================================================================
