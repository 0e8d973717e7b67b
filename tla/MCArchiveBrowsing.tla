------------------------- MODULE MCArchiveBrowsing -------------------------
(***************************************************************************)
(* An instance of ArchiveBrowsing for TLC; its constants need no           *)
(* definitions.                                                            *)
(***************************************************************************)
EXTENDS ArchiveBrowsing, TLC

Symmetry == Permutations(Editors)
=============================================================================
