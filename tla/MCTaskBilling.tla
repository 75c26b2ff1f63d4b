---------------------------- MODULE MCTaskBilling ----------------------------
(***************************************************************************)
(* Small instances of TaskBilling for TLC.                                 *)
(***************************************************************************)
EXTENDS TaskBilling, TLC

Symmetry == Permutations(Pollers)
=============================================================================
