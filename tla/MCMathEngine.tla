---------------------------- MODULE MCMathEngine ----------------------------
(***************************************************************************)
(* Instances of MathEngine: three words of two elements, so that a vector  *)
(* of two lanes leaves a partial one at the end, and one word over all of  *)
(* its values, where the word arithmetic is compared with that of numbers. *)
(***************************************************************************)
EXTENDS MathEngine

CONSTANT Layout   \* "padded" or "unpadded"

(* Two elements of width 3, a padding bit between them and two above them, as Bits<20>. *)
MCRadix == IF Layout = "padded" THEN <<3, 2, 3, 4>> ELSE <<3, 3, 2, 3>>

MCRadixOf == [i \in 0 .. 3 |-> MCRadix[i + 1]]

MCData == IF Layout = "padded" THEN {0, 2} ELSE 0 .. 3

MCGroup1 == {1, 3}

(* Words at the edges: zero, all ones, a carry out of each element, dirty padding. *)
EdgeWords ==
  {[i \in 0 .. 3 |-> 0],
   [i \in 0 .. 3 |-> IF i \in MCData THEN MCRadixOf[i] - 1 ELSE 0],
   [i \in 0 .. 3 |-> IF i = 0 THEN 1 ELSE 0],
   [i \in 0 .. 3 |-> IF i = 1 THEN 1 ELSE 0]}

EdgeBuffers == [0 .. 2 -> EdgeWords]

AllBuffers == [0 .. 0 -> {w \in [0 .. 3 -> 0 .. 3] : \A i \in 0 .. 3 : w[i] < MCRadixOf[i]}]

=============================================================================
