------------------------------ MODULE MCLtHash ------------------------------
(* LtHash with the constants of LtHashInstances. *)
EXTENDS LtHash, LtHashInstances

=============================================================================
