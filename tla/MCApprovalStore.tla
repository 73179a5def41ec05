-------------------------- MODULE MCApprovalStore --------------------------
(* ApprovalStore on a small instance: see the .cfg files for the bounds.   *)
EXTENDS ApprovalStore
=============================================================================
