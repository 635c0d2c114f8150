---------------------------- MODULE MCHashBytes ----------------------------
(* HashBytes for all lengths of the short and midsize forms of XXH3. *)
EXTENDS HashBytes

MCLengths == 0 .. midsize_max

=============================================================================
