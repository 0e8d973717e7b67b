--------------------------- MODULE MCUserAccounts ---------------------------
(***************************************************************************)
(* Instances of UserAccounts for TLC: one admin, whose hash was made under *)
(* old parameters, and room for registrations, of one name.                *)
(***************************************************************************)
EXTENDS UserAccounts, TLC

CONSTANTS n1, n2, p1, p2

OneAdmin ==
    [u \in Ids |-> IF u # 1 THEN NoAccount ELSE
        [name |-> n1, hash |-> [pw |-> p1, outdated |-> TRUE], role |-> "admin", active |-> TRUE]]

SecondAdmin == {[name |-> n2, pw |-> p2, role |-> "admin"]}

(* An account is taken out of use, or reinstated with a new password, or gets
   a new password together with a role that does not exist. *)
SomeChanges ==
    {[pw |-> Unset, role |-> "user",  active |-> FALSE],
     [pw |-> p2,    role |-> "admin", active |-> TRUE],
     [pw |-> p2,    role |-> BadRole, active |-> Unset]}

Symmetry == Permutations(Clients)
=============================================================================
