-------------------------- MODULE LtHashInstances --------------------------
(***************************************************************************)
(* Values for the constants of LtHash: one word of two or four elements,   *)
(* few enough values that sums wrap around, digests with dirty padding.    *)
(***************************************************************************)
EXTENDS Naturals, Sequences

CONSTANT Layout   \* "padded", as LtHash20, or "unpadded", as LtHash16 and LtHash32

MCRadix == CASE Layout = "padded"   -> <<3, 2, 2, 2>>
             [] Layout = "unpadded" -> <<3, 2, 2, 3>>

MCRadixOf == [i \in 0 .. 3 |-> MCRadix[i + 1]]

MCData == IF Layout = "padded" THEN {0, 2} ELSE 0 .. 3

MCGroup1 == {1, 3}

Buffer(a, b, c, d) == [w \in 0 .. 0 |-> [i \in 0 .. 3 |-> <<a, b, c, d>>[i + 1]]]

(* A digest that depends on key and object and sets padding bits. *)
MCDigest(k, o) ==
  [w \in 0 .. 0 |->
     [i \in 0 .. 3 |-> (o + 2 * i + (IF Len(k) = 0 THEN 1 ELSE 2 * k[Len(k)])) % MCRadixOf[i]]]

DefaultOnly == {Buffer(0, 0, 0, 0)}

CleanGiven == {Buffer(2, 0, 1, 0)}

(* A valid checksum, and one with a padding bit set. *)
DirtyGiven == {Buffer(2, 0, 1, 0), Buffer(1, 1, 1, 0)}

(* A key of the one legal size; the cleared key is another. *)
FixedKeys == {<<1, 2>>}

(* Keys of different lengths, for the buffer of a variable-length key. *)
LongAndShortKeys == {<<1, 1>>, <<1, 2, 1>>, <<1>>, <<1, 1, 1, 1>>}

=============================================================================
