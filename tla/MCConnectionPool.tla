-------------------------- MODULE MCConnectionPool --------------------------
(***************************************************************************)
(* Instances of ConnectionPool for TLC.                                    *)
(***************************************************************************)
EXTENDS ConnectionPool, TLC

(* One connection for all; one for each worker; one more than that; and more
   than can ever be in use. *)
Sizes == LET n == Cardinality(Threads) IN {1, n, n + 1, 2 * n + 1}
=============================================================================
