------------------------------ MODULE LaneWord ------------------------------
(***************************************************************************)
(* The 64-bit words of an LtHash checksum and the arithmetic both math     *)
(* engines do on them.                                                     *)
(*                                                                         *)
(* A word is split at the boundaries of the engines' masks: field 0 is the *)
(* least significant group of bits, and field i holds a digit below        *)
(* Radix[i] (2^20 for an element of LtHash20, 2 or 4 for the padding bits  *)
(* after it).  A mask is a set of fields, "&" with it zeroes the other     *)
(* digits.  Machine addition and subtraction are those of the mixed-radix  *)
(* number; they are written with carry look-ahead rather than a recursion, *)
(* so that what a carry can reach is explicit and can be proved about.     *)
(*                                                                         *)
(* The element type is abstract: with a padding field after every element  *)
(* this is Bits<20>, with none it is Bits<16> or Bits<32>.                 *)
(***************************************************************************)
EXTENDS Naturals

CONSTANTS
  NumFields,    \* fields in a 64-bit word
  Radix,        \* number of values of each field
  DataFields,   \* the fields of Bits::data_mask, the others are padding
  Group1        \* the fields of mask_group_1, used when there is no padding

Fields == 0 .. NumFields - 1

(***************************************************************************)
(* No two fields of a mask are adjacent.  It holds of data_mask            *)
(* (a padding bit after every element) and of the two mask groups (every   *)
(* other element).                                                         *)
(***************************************************************************)
Separated(S) == \A i \in S : i + 1 \notin S

needs_padding == DataFields # Fields

Group2 == Fields \ Group1

ASSUME LayoutAssumption ==
  /\ NumFields \in Nat \ {0}
  /\ Radix \in [Fields -> Nat \ {0, 1}]
  /\ DataFields \subseteq Fields
  /\ Group1 \subseteq Fields
  /\ needs_padding => Separated(DataFields)
  /\ ~needs_padding => Separated(Group1) /\ Separated(Group2)

Digits == UNION {0 .. Radix[i] - 1 : i \in Fields}

Word == {w \in [Fields -> Digits] : \A i \in Fields : w[i] \in 0 .. Radix[i] - 1}

ZeroWord == [i \in Fields |-> 0]

-----------------------------------------------------------------------------
(* Machine arithmetic on a word.                                           *)

And(w, mask) == [i \in Fields |-> IF i \in mask THEN w[i] ELSE 0]

(* Bitwise or of two words of which, in every field, at most one is nonzero. *)
Or(v, w) == [i \in Fields |-> IF v[i] = 0 THEN w[i] ELSE v[i]]

(* The mask itself as a number: all ones in its fields. *)
MaskWord(mask) == [i \in Fields |-> IF i \in mask THEN Radix[i] - 1 ELSE 0]

Not(mask) == Fields \ mask

(* A carry enters field i when a lower field overflows and every field between passes it on. *)
CarryInto(a, b, i) ==
  \E j \in 0 .. i - 1 :
    /\ a[j] + b[j] >= Radix[j]
    /\ \A k \in j + 1 .. i - 1 : a[k] + b[k] >= Radix[k] - 1

(* Faulty: a sum that does not wrap around. *)
AddWordSaturated(a, b) == [i \in Fields |-> a[i] + b[i]]

AddWord(a, b) ==
  [i \in Fields |->
     (a[i] + b[i] + (IF CarryInto(a, b, i) THEN 1 ELSE 0)) % Radix[i]]

(* A borrow is taken from field i when a lower field underflows and every field between passes it on. *)
BorrowFrom(a, b, i) ==
  \E j \in 0 .. i - 1 :
    /\ a[j] < b[j]
    /\ \A k \in j + 1 .. i - 1 : a[k] <= b[k]

SubWord(a, b) ==
  [i \in Fields |->
     (a[i] + Radix[i] - b[i] - (IF BorrowFrom(a, b, i) THEN 1 ELSE 0)) % Radix[i]]

-----------------------------------------------------------------------------
(* What that arithmetic is: the one of numbers below Modulus, which is 2^64. *)

Weight[n \in 0 .. NumFields] == IF n = 0 THEN 1 ELSE Radix[n - 1] * Weight[n - 1]

Modulus == Weight[NumFields]

(* The number that the fields below the n-th make up. *)
NumberUpTo(w) ==
  LET number[n \in 0 .. NumFields] ==
        IF n = 0 THEN 0 ELSE number[n - 1] + w[n - 1] * Weight[n - 1]
  IN  number

Number(w) == NumberUpTo(w)[NumFields]

(* AddWord and SubWord are the sum and the difference of two uint64_t. *)
ModularSum(a, b) == Number(AddWord(a, b)) = (Number(a) + Number(b)) % Modulus

ModularDiff(a, b) == Number(SubWord(a, b)) = (Number(a) + Modulus - Number(b)) % Modulus

-----------------------------------------------------------------------------
(* One iteration of the loops of the math engines.                         *)

(* Faulty: the padding of the sum is not masked. *)
AddPaddedUnmasked(a, b) == AddWord(a, b)

AddPadded(a, b) == And(AddWord(a, b), DataFields)

AddUnpadded(a, b) ==
  Or(And(AddWord(And(a, Group1), And(b, Group1)), Group1),
     And(AddWord(And(a, Group2), And(b, Group2)), Group2))

(* Faulty: the padding of the complement is not masked, so a carry runs through it. *)
SubPaddedUnmasked(a, b) ==
  And(AddWord(a, SubWord(MaskWord(Not(DataFields)), b)), DataFields)

SubPadded(a, b) ==
  LET n == And(SubWord(MaskWord(Not(DataFields)), b), DataFields)
  IN  And(AddWord(a, n), DataFields)

(* Faulty: a borrow runs through the fields of the other group. *)
SubUnpaddedDirect(a, b) ==
  Or(And(SubWord(And(a, Group1), And(b, Group1)), Group1),
     And(SubWord(And(a, Group2), And(b, Group2)), Group2))

SubUnpadded(a, b) ==
  Or(And(AddWord(And(a, Group1), SubWord(MaskWord(Group2), And(b, Group1))), Group1),
     And(AddWord(And(a, Group2), SubWord(MaskWord(Group1), And(b, Group2))), Group2))

EngineAdd(a, b) == IF needs_padding THEN AddPadded(a, b) ELSE AddUnpadded(a, b)

EngineSub(a, b) == IF needs_padding THEN SubPadded(a, b) ELSE SubUnpadded(a, b)

(* What check_padding_bits tests and clear_padding_bits establishes for one word. *)
CleanWord(w) == And(w, Not(DataFields)) = ZeroWord

ClearWord(w) == IF needs_padding THEN And(w, DataFields) ELSE w

-----------------------------------------------------------------------------
(* What the engines promise: arithmetic modulo 2^element_bits on every     *)
(* element by itself.                                                      *)

LaneSum(a, b)  == [i \in Fields |-> IF i \in DataFields THEN (a[i] + b[i]) % Radix[i] ELSE 0]
LaneDiff(a, b) == [i \in Fields |-> IF i \in DataFields THEN (a[i] + Radix[i] - b[i]) % Radix[i] ELSE 0]

=============================================================================
