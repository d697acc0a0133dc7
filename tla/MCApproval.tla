----------------------------- MODULE MCApproval ------------------------------
(***************************************************************************)
(* Model-checking instances of the approval workflow.  Operators are       *)
(* interchangeable: nothing distinguishes their requests but what they ask *)
(* for, and the safety runs with several of them use the symmetry.         *)
(***************************************************************************)
EXTENDS ApprovalInvariant, TLC

AdminSymmetry == Permutations(Admins)
=============================================================================
