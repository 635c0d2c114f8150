-------------------------- MODULE MCLtHashMultiset --------------------------
(* LtHash with its history, with the constants of LtHashInstances. *)
EXTENDS LtHashMultiset, LtHashInstances

=============================================================================
