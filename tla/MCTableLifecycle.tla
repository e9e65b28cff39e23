-------------------------- MODULE MCTableLifecycle --------------------------
(***************************************************************************)
(* TableLifecycle for TLC.                                                 *)
(***************************************************************************)
EXTENDS TableLifecycle, TLC

PlayerSymmetry == Permutations(Players)

=============================================================================
