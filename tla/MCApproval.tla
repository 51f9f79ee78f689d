----------------------------- MODULE MCApproval -----------------------------
(* A small instance of Approval for liveness; MCConsole has its invariants. *)
EXTENDS Approval
=============================================================================
