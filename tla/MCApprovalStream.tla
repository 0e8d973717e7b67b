-------------------------- MODULE MCApprovalStream --------------------------
(***************************************************************************)
(* An instance of ApprovalStream for TLC; its constants need no            *)
(* definitions.                                                            *)
(***************************************************************************)
EXTENDS ApprovalStream, TLC
=============================================================================
