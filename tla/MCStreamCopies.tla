--------------------------- MODULE MCStreamCopies ---------------------------
(* Instances of StreamCopies: the objects are interchangeable.             *)
EXTENDS StreamCopies, TLC

Symmetry == Permutations(Streams)

=============================================================================
