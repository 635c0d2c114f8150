--------------------------- MODULE LaneWordProofs ---------------------------
(***************************************************************************)
(* The word arithmetic of the math engines is element-wise modular         *)
(* arithmetic, for every number of fields and every element width.  The    *)
(* argument is that no carry and no borrow ever enters a field of a        *)
(* separated mask: the field above an element is a stop for it.            *)
(***************************************************************************)
EXTENDS LaneWord, FiniteSetTheorems, WellFoundedInduction, TLAPS

(* Reduction of a number below twice the modulus. *)
LEMMA ModOnce ==
  ASSUME NEW r \in Nat \ {0}, NEW x \in Nat, x < 2 * r
  PROVE  x % r = IF x < r THEN x ELSE x - r
  BY Z3

LEMMA ModRange ==
  ASSUME NEW r \in Nat \ {0}, NEW x \in Nat
  PROVE  x % r \in Nat /\ x % r < r
  BY Z3

(* A carry dies in the zero field above an element. *)
LEMMA NoCarry ==
  ASSUME NEW S \in SUBSET Fields, Separated(S),
         NEW a \in Word, NEW b \in Word,
         \A i \in Fields \ S : a[i] = 0 /\ b[i] = 0,
         NEW i \in S
  PROVE  ~CarryInto(a, b, i)
<1> SUFFICES ASSUME NEW j \in 0 .. i - 1,
                    a[j] + b[j] >= Radix[j],
                    \A k \in j + 1 .. i - 1 : a[k] + b[k] >= Radix[k] - 1
             PROVE  FALSE
  BY DEF CarryInto
<1>1. j \in Fields /\ i \in Nat /\ j \in Nat /\ i \in Fields
  BY LayoutAssumption DEF Fields
<1>2. Radix[j] \in Nat /\ Radix[j] > 1
  BY <1>1, LayoutAssumption
<1>3. j \in S
  BY <1>1, <1>2
<1>4. j + 1 # i
  BY <1>3 DEF Separated
<1>5. j + 1 \in j + 1 .. i - 1 /\ j + 1 \in Fields
  BY <1>1, <1>4, LayoutAssumption DEF Fields
<1>6. Radix[j + 1] \in Nat /\ Radix[j + 1] > 1
  BY <1>5, LayoutAssumption
<1>7. a[j + 1] = 0 /\ b[j + 1] = 0
  BY <1>3, <1>5 DEF Separated
<1> QED
  BY <1>5, <1>6, <1>7

LEMMA WordDigit ==
  ASSUME NEW w \in Word, NEW i \in Fields
  PROVE  w[i] \in Nat /\ w[i] < Radix[i] /\ Radix[i] \in Nat /\ Radix[i] > 1
  BY LayoutAssumption DEF Word

(* A function with a digit for every field is a word. *)
LEMMA IsWord ==
  ASSUME NEW w, w = [i \in Fields |-> w[i]],
         \A i \in Fields : w[i] \in Nat /\ w[i] < Radix[i]
  PROVE  w \in Word
<1>1. ASSUME NEW i \in Fields
      PROVE  w[i] \in 0 .. Radix[i] - 1 /\ w[i] \in Digits
  BY LayoutAssumption DEF Digits
<1> QED
  BY <1>1 DEF Word

LEMMA AndWord ==
  ASSUME NEW w \in Word, NEW S \in SUBSET Fields
  PROVE  /\ And(w, S) \in Word
         /\ \A i \in S : And(w, S)[i] = w[i]
         /\ \A i \in Fields \ S : And(w, S)[i] = 0
<1>1. /\ And(w, S) = [i \in Fields |-> And(w, S)[i]]
      /\ \A i \in Fields : And(w, S)[i] = IF i \in S THEN w[i] ELSE 0
  BY DEF And
<1>2. \A i \in Fields : And(w, S)[i] \in Nat /\ And(w, S)[i] < Radix[i]
  BY <1>1, WordDigit
<1> QED
  BY <1>1, <1>2, IsWord

LEMMA AddWordType ==
  ASSUME NEW a \in Word, NEW b \in Word
  PROVE  AddWord(a, b) \in Word
<1>1. ASSUME NEW i \in Fields
      PROVE  AddWord(a, b)[i] \in Nat /\ AddWord(a, b)[i] < Radix[i]
  <2>1. a[i] + b[i] + (IF CarryInto(a, b, i) THEN 1 ELSE 0) \in Nat
    BY WordDigit
  <2>2. Radix[i] \in Nat \ {0}
    BY LayoutAssumption
  <2>3. AddWord(a, b)[i] = (a[i] + b[i] + (IF CarryInto(a, b, i) THEN 1 ELSE 0)) % Radix[i]
    BY DEF AddWord
  <2> QED
    BY <2>1, <2>2, <2>3, ModRange
<1> QED
  BY <1>1, IsWord DEF AddWord

LEMMA SubWordType ==
  ASSUME NEW a \in Word, NEW b \in Word
  PROVE  SubWord(a, b) \in Word
<1>1. ASSUME NEW i \in Fields
      PROVE  SubWord(a, b)[i] \in Nat /\ SubWord(a, b)[i] < Radix[i]
  <2>1. a[i] + Radix[i] - b[i] - (IF BorrowFrom(a, b, i) THEN 1 ELSE 0) \in Nat
    BY WordDigit
  <2>2. Radix[i] \in Nat \ {0}
    BY LayoutAssumption
  <2>3. SubWord(a, b)[i]
          = (a[i] + Radix[i] - b[i] - (IF BorrowFrom(a, b, i) THEN 1 ELSE 0)) % Radix[i]
    BY DEF SubWord
  <2> QED
    BY <2>1, <2>2, <2>3, ModRange
<1> QED
  BY <1>1, IsWord DEF SubWord

(* Adding under a separated mask is element-wise addition. *)
LEMMA MaskedAdd ==
  ASSUME NEW S \in SUBSET Fields, Separated(S),
         NEW a \in Word, NEW b \in Word,
         \A i \in Fields \ S : a[i] = 0 /\ b[i] = 0,
         NEW i \in S
  PROVE  AddWord(a, b)[i] = (a[i] + b[i]) % Radix[i]
<1>1. ~CarryInto(a, b, i)
  BY NoCarry
<1>2. a[i] + b[i] + 0 = a[i] + b[i]
  BY WordDigit
<1> QED
  BY <1>1, <1>2 DEF AddWord

(* No borrow reaches an element when it is taken from all ones around the mask. *)
LEMMA NoBorrow ==
  ASSUME NEW S \in SUBSET Fields, Separated(S),
         NEW b \in Word,
         \A i \in Fields \ S : b[i] = 0,
         NEW i \in S
  PROVE  ~BorrowFrom(MaskWord(Not(S)), b, i)
<1> DEFINE m == MaskWord(Not(S))
<1> SUFFICES ASSUME NEW j \in 0 .. i - 1,
                    m[j] < b[j],
                    \A k \in j + 1 .. i - 1 : m[k] <= b[k]
             PROVE  FALSE
  BY DEF BorrowFrom
<1>1. j \in Fields /\ i \in Nat /\ j \in Nat /\ i \in Fields
  BY LayoutAssumption DEF Fields
<1>2. j \in S
  BY <1>1, WordDigit DEF MaskWord, Not
<1>3. j + 1 # i
  BY <1>2 DEF Separated
<1>4. j + 1 \in j + 1 .. i - 1 /\ j + 1 \in Fields
  BY <1>1, <1>3, LayoutAssumption DEF Fields
<1>5. m[j + 1] = Radix[j + 1] - 1 /\ b[j + 1] = 0
  BY <1>2, <1>4 DEF Separated, MaskWord, Not
<1>6. Radix[j + 1] \in Nat /\ Radix[j + 1] > 1
  BY <1>4, LayoutAssumption
<1> QED
  BY <1>4, <1>5, <1>6

LEMMA MaskWordType ==
  ASSUME NEW S \in SUBSET Fields
  PROVE  MaskWord(S) \in Word
<1>1. /\ MaskWord(S) = [i \in Fields |-> MaskWord(S)[i]]
      /\ \A i \in Fields : MaskWord(S)[i] \in Nat /\ MaskWord(S)[i] < Radix[i]
  BY LayoutAssumption DEF MaskWord
<1> QED
  BY <1>1, IsWord

(* The digits of ~mask - b: the complement of every element, and all ones
   around it, one less above an element from which the borrow was taken.  *)
LEMMA ComplementDigits ==
  ASSUME NEW S \in SUBSET Fields, Separated(S),
         NEW b \in Word,
         \A i \in Fields \ S : b[i] = 0
  PROVE  LET n == SubWord(MaskWord(Not(S)), b)
         IN  /\ \A i \in S : n[i] = (Radix[i] - b[i]) % Radix[i]
             /\ \A i \in Fields \ S :
                  n[i] = IF BorrowFrom(MaskWord(Not(S)), b, i)
                           THEN Radix[i] - 2 ELSE Radix[i] - 1
<1> DEFINE m == MaskWord(Not(S))
           n == SubWord(m, b)
<1>1. ASSUME NEW i \in S
      PROVE  n[i] = (Radix[i] - b[i]) % Radix[i]
  <2>1. ~BorrowFrom(m, b, i)
    BY NoBorrow
  <2>2. m[i] = 0
    BY DEF MaskWord, Not
  <2>3. 0 + Radix[i] - b[i] - 0 = Radix[i] - b[i]
    BY WordDigit
  <2> QED
    BY <2>1, <2>2, <2>3 DEF SubWord
<1>2. ASSUME NEW i \in Fields \ S
      PROVE  n[i] = IF BorrowFrom(m, b, i) THEN Radix[i] - 2 ELSE Radix[i] - 1
  <2> DEFINE c == IF BorrowFrom(m, b, i) THEN 1 ELSE 0
             d == m[i] + Radix[i] - b[i] - c
  <2>1. m[i] = Radix[i] - 1 /\ b[i] = 0
    BY DEF MaskWord, Not
  <2>2. Radix[i] \in Nat \ {0} /\ Radix[i] > 1
    BY WordDigit
  <2>3. d \in Nat /\ d < 2 * Radix[i] /\ ~(d < Radix[i])
    BY <2>1, <2>2
  <2>4. d % Radix[i] = d - Radix[i]
    BY <2>2, <2>3, ModOnce
  <2>5. n[i] = d % Radix[i]
    BY DEF SubWord
  <2>6. d - Radix[i] = IF BorrowFrom(m, b, i) THEN Radix[i] - 2 ELSE Radix[i] - 1
    BY <2>1, <2>2
  <2> QED
    BY <2>4, <2>5, <2>6
<1> QED
  BY <1>1, <1>2

(* (a + (r - b) % r) % r is a - b modulo r. *)
LEMMA ModDifference ==
  ASSUME NEW r \in Nat \ {0}, NEW x \in Nat, NEW y \in Nat, x < r, y < r,
         NEW z, z = (r - y) % r
  PROVE  (x + z) % r = (x + r - y) % r
<1>1. CASE y = 0
  <2>1. (r - y) % r = 0
    BY <1>1, ModOnce
  <2>2. x % r = x /\ (x + r) % r = x
    BY ModOnce
  <2> QED
    BY <1>1, <2>1, <2>2
<1>2. CASE y # 0
  <2> DEFINE d == r - y
  <2>1. d % r = d
    <3>1. d \in Nat /\ d < r
      BY <1>2
    <3> HIDE DEF d
    <3> QED
      BY <3>1, ModOnce
  <2>2. x + (r - y) = x + r - y
    OBVIOUS
  <2> QED
    BY <2>1, <2>2
<1> QED
  BY <1>1, <1>2

(* Subtracting under a separated mask, by adding the complement taken from
   ~mask, is element-wise subtraction: an element that lends a borrow has
   one less than all ones above it, which absorbs the carry it produces.  *)
LEMMA MaskedSub ==
  ASSUME NEW S \in SUBSET Fields, Separated(S),
         NEW a \in Word, NEW b \in Word,
         \A i \in Fields \ S : a[i] = 0 /\ b[i] = 0,
         NEW i \in S
  PROVE  AddWord(a, SubWord(MaskWord(Not(S)), b))[i] = (a[i] + Radix[i] - b[i]) % Radix[i]
<1> DEFINE m == MaskWord(Not(S))
           n == SubWord(m, b)
<1>1. /\ \A k \in S : n[k] = (Radix[k] - b[k]) % Radix[k]
      /\ \A k \in Fields \ S :
            n[k] = IF BorrowFrom(m, b, k) THEN Radix[k] - 2 ELSE Radix[k] - 1
  BY ComplementDigits
<1>2. n \in Word
  <2>1. Not(S) \in SUBSET Fields
    BY DEF Not
  <2> QED
    BY <2>1, MaskWordType, SubWordType
<1> HIDE DEF n
<1>3. ~CarryInto(a, n, i)
  <2> SUFFICES ASSUME NEW j \in 0 .. i - 1,
                      a[j] + n[j] >= Radix[j],
                      \A k \in j + 1 .. i - 1 : a[k] + n[k] >= Radix[k] - 1
               PROVE  FALSE
    BY DEF CarryInto
  <2>1. j \in Fields /\ i \in Nat /\ j \in Nat /\ i \in Fields
    BY LayoutAssumption DEF Fields
  <2>2. j \in S
    BY <1>1, <2>1, WordDigit
  <2>3. j + 1 # i
    BY <2>2 DEF Separated
  <2>4. j + 1 \in j + 1 .. i - 1 /\ j + 1 \in Fields
    BY <2>1, <2>3, LayoutAssumption DEF Fields
  <2>5. j + 1 \in Fields \ S
    BY <2>2, <2>4 DEF Separated
  <2>6. b[j] # 0
    <3> SUFFICES ASSUME b[j] = 0 PROVE FALSE
      OBVIOUS
    <3>1. n[j] = 0
      BY <1>1, <2>1, <2>2, WordDigit, ModOnce
    <3> QED
      BY <3>1, <2>1, WordDigit
  <2>7. BorrowFrom(m, b, j + 1)
    <3>1. m[j] = 0 /\ m[j] < b[j]
      BY <2>1, <2>2, <2>6, WordDigit DEF MaskWord, Not
    <3>2. j \in 0 .. (j + 1) - 1 /\ j + 1 .. (j + 1) - 1 = {}
      BY <2>1
    <3> QED
      BY <3>1, <3>2 DEF BorrowFrom
  <2>8. n[j + 1] = Radix[j + 1] - 2 /\ a[j + 1] = 0
    BY <1>1, <2>5, <2>7
  <2> QED
    BY <2>4, <2>8, WordDigit
<1>4. a[i] + n[i] + 0 = a[i] + n[i]
  BY <1>2, WordDigit
<1>5. AddWord(a, n)[i] = (a[i] + n[i]) % Radix[i]
  BY <1>3, <1>4 DEF AddWord
<1>6. (a[i] + n[i]) % Radix[i] = (a[i] + Radix[i] - b[i]) % Radix[i]
  <2>1. n[i] = (Radix[i] - b[i]) % Radix[i]
    BY <1>1
  <2>2. /\ Radix[i] \in Nat \ {0}
        /\ a[i] \in Nat /\ a[i] < Radix[i]
        /\ b[i] \in Nat /\ b[i] < Radix[i]
    BY WordDigit
  <2> QED
    BY <2>1, <2>2, ModDifference
<1> QED
  BY <1>5, <1>6 DEF n

-----------------------------------------------------------------------------
LEMMA CleanDigits ==
  ASSUME NEW w \in Word
  PROVE  CleanWord(w) <=> \A i \in Fields \ DataFields : w[i] = 0
  BY DEF CleanWord, And, Not, ZeroWord

(* Subtraction computes with the complement masked to the elements. *)
LEMMA PaddedComplement ==
  ASSUME needs_padding,
         NEW b \in Word, CleanWord(b)
  PROVE  LET n == And(SubWord(MaskWord(Not(DataFields)), b), DataFields)
         IN  /\ n \in Word
             /\ \A i \in DataFields : n[i] = (Radix[i] - b[i]) % Radix[i]
             /\ \A i \in Fields \ DataFields : n[i] = 0
<1> DEFINE d == SubWord(MaskWord(Not(DataFields)), b)
<1>1. DataFields \in SUBSET Fields /\ Separated(DataFields)
  BY LayoutAssumption
<1>2. \A i \in Fields \ DataFields : b[i] = 0
  BY CleanDigits
<1>3. \A i \in DataFields : d[i] = (Radix[i] - b[i]) % Radix[i]
  BY <1>1, <1>2, ComplementDigits
<1>4. d \in Word
  <2>1. Not(DataFields) \in SUBSET Fields
    BY DEF Not
  <2> QED
    BY <2>1, MaskWordType, SubWordType
<1> HIDE DEF d
<1> QED
  BY <1>1, <1>3, <1>4, AndWord DEF d

LEMMA AddPaddedLanes ==
  ASSUME needs_padding,
         NEW a \in Word, NEW b \in Word, CleanWord(a), CleanWord(b)
  PROVE  AddPadded(a, b) = LaneSum(a, b)
<1>1. DataFields \in SUBSET Fields /\ Separated(DataFields)
  BY LayoutAssumption
<1>2. \A i \in Fields \ DataFields : a[i] = 0 /\ b[i] = 0
  BY CleanDigits
<1>3. \A i \in DataFields : AddWord(a, b)[i] = (a[i] + b[i]) % Radix[i]
  BY <1>1, <1>2, MaskedAdd
<1> QED
  BY <1>3 DEF AddPadded, And, LaneSum

LEMMA SubPaddedLanes ==
  ASSUME needs_padding,
         NEW a \in Word, NEW b \in Word, CleanWord(a), CleanWord(b)
  PROVE  SubPadded(a, b) = LaneDiff(a, b)
<1> DEFINE n == And(SubWord(MaskWord(Not(DataFields)), b), DataFields)
<1>1. DataFields \in SUBSET Fields /\ Separated(DataFields)
  BY LayoutAssumption
<1>2. /\ n \in Word
      /\ \A i \in DataFields : n[i] = (Radix[i] - b[i]) % Radix[i]
      /\ \A i \in Fields \ DataFields : n[i] = 0
  BY PaddedComplement
<1>3. \A i \in Fields \ DataFields : a[i] = 0
  BY CleanDigits
<1> HIDE DEF n
<1>4. ASSUME NEW i \in DataFields
      PROVE  AddWord(a, n)[i] = (a[i] + Radix[i] - b[i]) % Radix[i]
  <2>1. AddWord(a, n)[i] = (a[i] + n[i]) % Radix[i]
    BY <1>1, <1>2, <1>3, MaskedAdd
  <2>2. n[i] = (Radix[i] - b[i]) % Radix[i]
    BY <1>2
  <2>3. /\ Radix[i] \in Nat \ {0}
        /\ a[i] \in Nat /\ a[i] < Radix[i]
        /\ b[i] \in Nat /\ b[i] < Radix[i]
    BY <1>1, WordDigit
  <2>4. (a[i] + n[i]) % Radix[i] = (a[i] + Radix[i] - b[i]) % Radix[i]
    BY <2>2, <2>3, ModDifference
  <2> QED
    BY <2>1, <2>4
<1>5. And(AddWord(a, n), DataFields) = LaneDiff(a, b)
  BY <1>4 DEF And, LaneDiff
<1> QED
  BY <1>5 DEF SubPadded, n

(* One group of the elements of an unpadded word, the other masked away. *)
LEMMA GroupLanes ==
  ASSUME NEW S \in SUBSET Fields, Separated(S),
         NEW a \in Word, NEW b \in Word,
         NEW i \in S
  PROVE  /\ AddWord(And(a, S), And(b, S))[i] = (a[i] + b[i]) % Radix[i]
         /\ AddWord(And(a, S), SubWord(MaskWord(Not(S)), And(b, S)))[i]
              = (a[i] + Radix[i] - b[i]) % Radix[i]
<1>1. /\ And(a, S) \in Word /\ And(b, S) \in Word
      /\ \A k \in S : And(a, S)[k] = a[k] /\ And(b, S)[k] = b[k]
      /\ \A k \in Fields \ S : And(a, S)[k] = 0 /\ And(b, S)[k] = 0
  BY AndWord
<1> DEFINE as == And(a, S)
           bs == And(b, S)
<1>2. as[i] = a[i] /\ bs[i] = b[i]
  BY <1>1
<1> HIDE DEF as, bs
<1>3. AddWord(as, bs)[i] = (as[i] + bs[i]) % Radix[i]
  BY <1>1, MaskedAdd DEF as, bs
<1>4. AddWord(as, SubWord(MaskWord(Not(S)), bs))[i] = (as[i] + Radix[i] - bs[i]) % Radix[i]
  BY <1>1, MaskedSub DEF as, bs
<1> QED
  BY <1>2, <1>3, <1>4 DEF as, bs

LEMMA UnpaddedGroups ==
  ASSUME ~needs_padding
  PROVE  /\ DataFields = Fields
         /\ Group1 \in SUBSET Fields /\ Separated(Group1)
         /\ Group2 \in SUBSET Fields /\ Separated(Group2)
         /\ Not(Group1) = Group2 /\ Not(Group2) = Group1
         /\ \A i \in Fields \ Group1 : i \in Group2
         /\ \A i \in Group1 : i \notin Group2
  BY LayoutAssumption DEF needs_padding, Group2, Not

LEMMA AddUnpaddedLanes ==
  ASSUME ~needs_padding,
         NEW a \in Word, NEW b \in Word
  PROVE  AddUnpadded(a, b) = LaneSum(a, b)
<1> DEFINE x1 == AddWord(And(a, Group1), And(b, Group1))
           x2 == AddWord(And(a, Group2), And(b, Group2))
<1>1. \A i \in Group1 : x1[i] = (a[i] + b[i]) % Radix[i]
  BY UnpaddedGroups, GroupLanes
<1>2. \A i \in Group2 : x2[i] = (a[i] + b[i]) % Radix[i]
  BY UnpaddedGroups, GroupLanes
<1> HIDE DEF x1, x2
<1>3. Or(And(x1, Group1), And(x2, Group2)) = LaneSum(a, b)
  BY <1>1, <1>2, UnpaddedGroups DEF Or, And, LaneSum
<1> QED
  BY <1>3 DEF AddUnpadded, x1, x2

LEMMA SubUnpaddedLanes ==
  ASSUME ~needs_padding,
         NEW a \in Word, NEW b \in Word
  PROVE  SubUnpadded(a, b) = LaneDiff(a, b)
<1> DEFINE x1 == AddWord(And(a, Group1), SubWord(MaskWord(Group2), And(b, Group1)))
           x2 == AddWord(And(a, Group2), SubWord(MaskWord(Group1), And(b, Group2)))
<1>1. ASSUME NEW i \in Group1 PROVE x1[i] = (a[i] + Radix[i] - b[i]) % Radix[i]
  <2>1. AddWord(And(a, Group1), SubWord(MaskWord(Not(Group1)), And(b, Group1)))[i]
          = (a[i] + Radix[i] - b[i]) % Radix[i]
    BY UnpaddedGroups, GroupLanes
  <2> QED
    BY <2>1, UnpaddedGroups
<1>2. ASSUME NEW i \in Group2 PROVE x2[i] = (a[i] + Radix[i] - b[i]) % Radix[i]
  <2>1. AddWord(And(a, Group2), SubWord(MaskWord(Not(Group2)), And(b, Group2)))[i]
          = (a[i] + Radix[i] - b[i]) % Radix[i]
    BY UnpaddedGroups, GroupLanes
  <2> QED
    BY <2>1, UnpaddedGroups
<1> HIDE DEF x1, x2
<1>3. Or(And(x1, Group1), And(x2, Group2)) = LaneDiff(a, b)
  BY <1>1, <1>2, UnpaddedGroups DEF Or, And, LaneDiff
<1> QED
  BY <1>3 DEF SubUnpadded, x1, x2

(***************************************************************************)
(* One loop iteration of MathEngine::add, on words whose padding is clean, *)
(* adds every element modulo its width and leaves the padding clean.       *)
(***************************************************************************)
THEOREM EngineAddLanes ==
  ASSUME NEW a \in Word, NEW b \in Word, CleanWord(a), CleanWord(b)
  PROVE  EngineAdd(a, b) = LaneSum(a, b)
  BY AddPaddedLanes, AddUnpaddedLanes DEF EngineAdd

(***************************************************************************)
(* One loop iteration of MathEngine::sub, on words whose padding is clean, *)
(* subtracts every element modulo its width and leaves the padding clean.  *)
(***************************************************************************)
THEOREM EngineSubLanes ==
  ASSUME NEW a \in Word, NEW b \in Word, CleanWord(a), CleanWord(b)
  PROVE  EngineSub(a, b) = LaneDiff(a, b)
  BY SubPaddedLanes, SubUnpaddedLanes DEF EngineSub

(* The element-wise results are clean words. *)
LEMMA LanesClean ==
  ASSUME NEW a \in Word, NEW b \in Word
  PROVE  /\ LaneSum(a, b) \in Word /\ CleanWord(LaneSum(a, b))
         /\ LaneDiff(a, b) \in Word /\ CleanWord(LaneDiff(a, b))
<1>1. ASSUME NEW i \in Fields
      PROVE  /\ LaneSum(a, b)[i] \in Nat /\ LaneSum(a, b)[i] < Radix[i]
             /\ LaneDiff(a, b)[i] \in Nat /\ LaneDiff(a, b)[i] < Radix[i]
  <2>1. /\ Radix[i] \in Nat \ {0} /\ 0 < Radix[i]
        /\ a[i] + b[i] \in Nat /\ a[i] + Radix[i] - b[i] \in Nat
    BY WordDigit
  <2>2. /\ (a[i] + b[i]) % Radix[i] \in Nat /\ (a[i] + b[i]) % Radix[i] < Radix[i]
    BY <2>1, ModRange
  <2>3. /\ (a[i] + Radix[i] - b[i]) % Radix[i] \in Nat
        /\ (a[i] + Radix[i] - b[i]) % Radix[i] < Radix[i]
    BY <2>1, ModRange
  <2> QED
    BY <2>1, <2>2, <2>3 DEF LaneSum, LaneDiff
<1>2. LaneSum(a, b) \in Word /\ LaneDiff(a, b) \in Word
  BY <1>1, IsWord DEF LaneSum, LaneDiff
<1>3. \A i \in Fields \ DataFields : LaneSum(a, b)[i] = 0 /\ LaneDiff(a, b)[i] = 0
  BY DEF LaneSum, LaneDiff
<1> QED
  BY <1>2, <1>3, CleanDigits

(***************************************************************************)
(* Whatever the operands' padding, what the engines write has clean        *)
(* padding: corruption by dirty padding is silent.                         *)
(***************************************************************************)
THEOREM EngineResultClean ==
  ASSUME NEW a \in Word, NEW b \in Word
  PROVE  /\ EngineAdd(a, b) \in Word /\ CleanWord(EngineAdd(a, b))
         /\ EngineSub(a, b) \in Word /\ CleanWord(EngineSub(a, b))
<1>1. CASE ~needs_padding
  <2>1. EngineAdd(a, b) = LaneSum(a, b) /\ EngineSub(a, b) = LaneDiff(a, b)
    BY <1>1, AddUnpaddedLanes, SubUnpaddedLanes DEF EngineAdd, EngineSub
  <2> QED
    BY <2>1, LanesClean
<1>2. CASE needs_padding
  <2> DEFINE d == SubWord(MaskWord(Not(DataFields)), b)
             n == And(d, DataFields)
  <2>1. DataFields \in SUBSET Fields /\ Not(DataFields) \in SUBSET Fields
    BY LayoutAssumption DEF Not
  <2>2. n \in Word
    BY <2>1, MaskWordType, SubWordType, AndWord
  <2> HIDE DEF n
  <2>3. AddWord(a, b) \in Word /\ AddWord(a, n) \in Word
    BY <2>2, AddWordType
  <2>4. /\ And(AddWord(a, b), DataFields) \in Word
        /\ And(AddWord(a, n), DataFields) \in Word
        /\ \A i \in Fields \ DataFields : /\ And(AddWord(a, b), DataFields)[i] = 0
                                         /\ And(AddWord(a, n), DataFields)[i] = 0
    BY <2>1, <2>3, AndWord
  <2>5. /\ EngineAdd(a, b) = And(AddWord(a, b), DataFields)
        /\ EngineSub(a, b) = And(AddWord(a, n), DataFields)
    BY <1>2 DEF EngineAdd, EngineSub, AddPadded, SubPadded, n
  <2> QED
    BY <2>4, <2>5, CleanDigits
<1> QED
  BY <1>1, <1>2

(* clear_padding_bits leaves a clean word. *)
LEMMA ClearWordClean ==
  ASSUME NEW w \in Word
  PROVE  ClearWord(w) \in Word /\ CleanWord(ClearWord(w))
<1>1. DataFields \in SUBSET Fields
  BY LayoutAssumption
<1>2. CASE needs_padding
  BY <1>1, <1>2, AndWord, CleanDigits DEF ClearWord
<1>3. CASE ~needs_padding
  BY <1>3, CleanDigits DEF ClearWord, needs_padding
<1> QED
  BY <1>2, <1>3

-----------------------------------------------------------------------------
(* The word model is the arithmetic of numbers modulo 2^64. *)

LEMMA SmallestNat ==
  ASSUME NEW T \in SUBSET Nat, T # {}
  PROVE  \E m \in T : \A n \in T : m <= n
<1>1. PICK N \in T : TRUE
  OBVIOUS
<1> DEFINE Below(y) == 0 .. y
           F == {Below(y) : y \in T \cap (0 .. N)}
           R == StrictSubsetOrdering(0 .. N)
<1>2. IsFiniteSet(0 .. N)
  BY FS_Interval
<1>3. F \subseteq FiniteSubsetsOf(0 .. N) /\ F # {}
  <2>1. \A y \in 0 .. N : 0 .. y \in SUBSET (0 .. N)
    OBVIOUS
  <2>2. F \subseteq SUBSET (0 .. N)
    BY <2>1
  <2>3. 0 .. N \in F
    BY <1>1
  <2> HIDE DEF F
  <2> QED
    BY <1>2, <2>2, <2>3, FS_FiniteSubsetsOfFinite
<1>4. IsWellFoundedOn(R, FiniteSubsetsOf(0 .. N))
  BY FS_StrictSubsetOrderingWellFounded
<1>5. PICK x \in F : \A y \in F : <<y, x>> \notin R
  <2> HIDE DEF F, R
  <2> QED
    BY <1>3, <1>4, WFMin
<1>6. PICK m \in T \cap (0 .. N) : x = Below(m)
  OBVIOUS
<1>7. ASSUME NEW n \in T, n < m PROVE FALSE
  <2>1. n \in 0 .. N /\ m \in Nat /\ n \in Nat
    BY <1>7
  <2>2. 0 .. n \in F
    BY <2>1
  <2>3. 0 .. n \subseteq 0 .. m /\ m \in 0 .. m /\ m \notin 0 .. n
    BY <1>7, <2>1
  <2>4. <<0 .. n, 0 .. m>> \in R
    BY <2>1, <2>3 DEF StrictSubsetOrdering
  <2> QED
    BY <1>5, <1>6, <2>2, <2>4
<1> QED
  BY <1>7

(* Induction, over a set: a set closed under successors has all of Nat. *)
LEMMA NatSetInduction ==
  ASSUME NEW S, 0 \in S, \A n \in Nat : n \in S => n + 1 \in S
  PROVE  Nat \subseteq S
<1> SUFFICES ASSUME Nat \ S # {} PROVE FALSE
  OBVIOUS
<1>1. PICK m \in Nat \ S : \A n \in Nat \ S : m <= n
  <2> DEFINE T == Nat \ S
  <2>1. T \in SUBSET Nat /\ T # {}
    OBVIOUS
  <2> HIDE DEF T
  <2>2. \E m \in T : \A n \in T : m <= n
    BY <2>1, SmallestNat
  <2> QED
    BY <2>2 DEF T
<1>2. m \in Nat \ {0} /\ m - 1 \in Nat /\ (m - 1) + 1 = m /\ ~(m <= m - 1)
  BY <1>1
<1>3. m - 1 \in S
  BY <1>1, <1>2
<1> QED
  BY <1>1, <1>2, <1>3

IsWeight(f, N) == f = [n \in 0 .. N |-> IF n = 0 THEN 1 ELSE Radix[n - 1] * f[n - 1]]

LEMMA WeightExists == \A N \in Nat : \E f : IsWeight(f, N)
<1> DEFINE G(x, n) == Radix[n - 1] * x
           P(f, N) == f = [n \in 0 .. N |-> IF n = 0 THEN 1 ELSE G(f[n - 1], n)]
           S == {N \in Nat : \E f : P(f, N)}
<1> HIDE DEF G
<1>1. 0 \in S
  <2>1. P([n \in {0} |-> 1], 0)
    OBVIOUS
  <2> HIDE DEF P
  <2> QED
    BY <2>1
<1>2. ASSUME NEW N \in Nat, N \in S PROVE N + 1 \in S
  <2>1. PICK f : P(f, N)
    BY <1>2
  <2> DEFINE g == [n \in 0 .. N + 1 |-> IF n = 0 THEN 1 ELSE G(f[n - 1], n)]
  <2>2. ASSUME NEW n \in 0 .. N PROVE g[n] = f[n]
    BY <2>1
  <2>3. P(g, N + 1)
    <3>1. ASSUME NEW n \in 0 .. N + 1, n # 0 PROVE n - 1 \in 0 .. N
      BY <3>1
    <3> HIDE DEF g
    <3>2. ASSUME NEW n \in 0 .. N + 1, n # 0 PROVE g[n - 1] = f[n - 1]
      BY <3>1, <3>2, <2>2
    <3> QED
      BY <3>2 DEF g
  <2> HIDE DEF P
  <2> QED
    BY <2>3
<1>3. Nat \subseteq S
  <2> HIDE DEF S
  <2> QED
    BY <1>1, <1>2, NatSetInduction
<1> QED
  BY <1>3 DEF G, IsWeight

LEMMA WeightEquation ==
  /\ Weight[0] = 1
  /\ \A n \in Fields : Weight[n + 1] = Radix[n] * Weight[n]
<1>0. NumFields \in Nat \ {0}
  BY LayoutAssumption
<1>1. IsWeight(Weight, NumFields)
  <2>1. \E g : IsWeight(g, NumFields)
    BY <1>0, WeightExists
  <2> QED
    BY <2>1 DEF Weight, IsWeight
<1>2. Weight[0] = 1
  BY <1>0, <1>1 DEF IsWeight
<1>3. ASSUME NEW n \in Fields PROVE Weight[n + 1] = Radix[n] * Weight[n]
  <2> DEFINE m == n + 1
  <2>1. m \in 0 .. NumFields /\ m # 0 /\ m - 1 = n
    BY <1>0 DEF Fields
  <2> HIDE DEF m
  <2>2. Weight[m] = Radix[m - 1] * Weight[m - 1]
    BY <1>1, <2>1 DEF IsWeight
  <2> QED
    BY <2>1, <2>2 DEF m
<1> QED
  BY <1>2, <1>3

IsNumber(f, w, N) == f = [n \in 0 .. N |-> IF n = 0 THEN 0 ELSE f[n - 1] + w[n - 1] * Weight[n - 1]]

LEMMA NumberExists ==
  ASSUME NEW w
  PROVE  \A N \in Nat : \E f : IsNumber(f, w, N)
<1> DEFINE G(x, n) == x + w[n - 1] * Weight[n - 1]
           P(f, N) == f = [n \in 0 .. N |-> IF n = 0 THEN 0 ELSE G(f[n - 1], n)]
           S == {N \in Nat : \E f : P(f, N)}
<1> HIDE DEF G
<1>1. 0 \in S
  <2>1. P([n \in {0} |-> 0], 0)
    OBVIOUS
  <2> HIDE DEF P
  <2> QED
    BY <2>1
<1>2. ASSUME NEW N \in Nat, N \in S PROVE N + 1 \in S
  <2>1. PICK f : P(f, N)
    BY <1>2
  <2> DEFINE g == [n \in 0 .. N + 1 |-> IF n = 0 THEN 0 ELSE G(f[n - 1], n)]
  <2>2. ASSUME NEW n \in 0 .. N PROVE g[n] = f[n]
    BY <2>1
  <2>3. P(g, N + 1)
    <3>1. ASSUME NEW n \in 0 .. N + 1, n # 0 PROVE n - 1 \in 0 .. N
      BY <3>1
    <3> HIDE DEF g
    <3>2. ASSUME NEW n \in 0 .. N + 1, n # 0 PROVE g[n - 1] = f[n - 1]
      BY <3>1, <3>2, <2>2
    <3> QED
      BY <3>2 DEF g
  <2> HIDE DEF P
  <2> QED
    BY <2>3
<1>3. Nat \subseteq S
  <2> HIDE DEF S
  <2> QED
    BY <1>1, <1>2, NatSetInduction
<1> QED
  BY <1>3 DEF G, IsNumber

LEMMA NumberEquation ==
  ASSUME NEW w
  PROVE  /\ NumberUpTo(w)[0] = 0
         /\ \A n \in Fields : NumberUpTo(w)[n + 1] = NumberUpTo(w)[n] + w[n] * Weight[n]
<1> DEFINE f == NumberUpTo(w)
<1>0. NumFields \in Nat \ {0}
  BY LayoutAssumption
<1>1. IsNumber(f, w, NumFields)
  <2>1. \E g : IsNumber(g, w, NumFields)
    BY <1>0, NumberExists
  <2> QED
    BY <2>1 DEF NumberUpTo, IsNumber
<1> HIDE DEF f
<1>2. f[0] = 0
  BY <1>0, <1>1 DEF IsNumber
<1>3. ASSUME NEW n \in Fields PROVE f[n + 1] = f[n] + w[n] * Weight[n]
  <2> DEFINE m == n + 1
  <2>1. m \in 0 .. NumFields /\ m # 0 /\ m - 1 = n
    BY <1>0 DEF Fields
  <2> HIDE DEF m
  <2>2. f[m] = f[m - 1] + w[m - 1] * Weight[m - 1]
    BY <1>1, <2>1 DEF IsNumber
  <2> QED
    BY <2>1, <2>2 DEF m
<1> QED
  BY <1>2, <1>3 DEF f

(* A digit more keeps a number below the weight of the next field. *)
LEMMA PlaceBound ==
  ASSUME NEW W \in Nat \ {0}, NEW R \in Nat \ {0}, NEW d \in 0 .. R - 1, NEW u \in 0 .. W - 1
  PROVE  u + d * W \in Nat /\ u + d * W < R * W /\ R * W \in Nat \ {0}
<1>1. d \in Nat /\ d + 1 <= R /\ d + 1 \in Nat
  OBVIOUS
<1>2. (d + 1) * W = d * W + W /\ d * W \in Nat /\ R * W \in Nat
  BY <1>1
<1>3. (d + 1) * W <= R * W
  BY <1>1
<1> QED
  BY <1>2, <1>3

LEMMA FieldsFact == NumFields \in Nat \ {0} /\ Fields \subseteq Nat /\ \A n \in Nat : n + 1 <= NumFields => n \in Fields
BY LayoutAssumption DEF Fields

LEMMA NumberBound ==
  ASSUME NEW w \in Word
  PROVE  \A n \in 0 .. NumFields :
           Weight[n] \in Nat \ {0} /\ NumberUpTo(w)[n] \in 0 .. Weight[n] - 1
<1> DEFINE f == NumberUpTo(w)
           Q(n) == Weight[n] \in Nat \ {0} /\ f[n] \in 0 .. Weight[n] - 1
           S == {n \in Nat : n <= NumFields => Q(n)}
<1>0. f[0] = 0 /\ \A n \in Fields : f[n + 1] = f[n] + w[n] * Weight[n]
  BY NumberEquation
<1> HIDE DEF f
<1>1. 0 \in S
  BY <1>0, WeightEquation
<1>2. ASSUME NEW n \in Nat, n \in S PROVE n + 1 \in S
  <2> SUFFICES ASSUME n + 1 <= NumFields PROVE Q(n + 1)
    OBVIOUS
  <2>1. n \in Fields /\ Q(n)
    BY <1>2, FieldsFact
  <2>2. Radix[n] \in Nat \ {0} /\ w[n] \in 0 .. Radix[n] - 1
    BY <2>1, WordDigit
  <2>3. /\ f[n] + w[n] * Weight[n] \in Nat /\ f[n] + w[n] * Weight[n] < Radix[n] * Weight[n]
        /\ Radix[n] * Weight[n] \in Nat \ {0}
    BY <2>1, <2>2, PlaceBound
  <2> QED
    BY <1>0, <2>1, <2>3, WeightEquation
<1>3. Nat \subseteq S
  <2> HIDE DEF S
  <2> QED
    BY <1>1, <1>2, NatSetInduction
<1> QED
  BY <1>3, FieldsFact DEF f

Carry(a, b, n) == IF CarryInto(a, b, n) THEN 1 ELSE 0

(* A carry leaves a field when what enters it and its digits overflow. *)
LEMMA CarryUp ==
  ASSUME NEW a \in Word, NEW b \in Word, NEW n \in Fields
  PROVE  CarryInto(a, b, n + 1) <=> a[n] + b[n] + Carry(a, b, n) >= Radix[n]
<1>1. /\ n \in Nat /\ Radix[n] \in Nat /\ Radix[n] > 1 /\ a[n] \in Nat /\ b[n] \in Nat
      /\ \A k \in 0 .. n : k \in Fields
  BY WordDigit, FieldsFact DEF Fields
<1>2. ASSUME NEW j \in 0 .. n, a[j] + b[j] >= Radix[j],
             \A k \in j + 1 .. n : a[k] + b[k] >= Radix[k] - 1
      PROVE  a[n] + b[n] + Carry(a, b, n) >= Radix[n]
  <2>1. CASE j = n
    BY <1>1, <1>2, <2>1 DEF Carry
  <2>2. CASE j # n
    <3>1. j \in 0 .. n - 1 /\ n \in j + 1 .. n /\ \A k \in j + 1 .. n - 1 : k \in j + 1 .. n
      BY <1>1, <2>2
    <3>2. CarryInto(a, b, n) /\ a[n] + b[n] >= Radix[n] - 1
      BY <1>2, <3>1 DEF CarryInto
    <3> QED
      BY <1>1, <3>2 DEF Carry
  <2> QED
    BY <2>1, <2>2
<1>3. CarryInto(a, b, n + 1) <=>
        \E j \in 0 .. n : /\ a[j] + b[j] >= Radix[j]
                          /\ \A k \in j + 1 .. n : a[k] + b[k] >= Radix[k] - 1
  <2> DEFINE m == n + 1
  <2>1. m - 1 = n
    BY <1>1
  <2> HIDE DEF m
  <2>2. CarryInto(a, b, m) <=>
          \E j \in 0 .. n : /\ a[j] + b[j] >= Radix[j]
                            /\ \A k \in j + 1 .. n : a[k] + b[k] >= Radix[k] - 1
    BY <2>1 DEF CarryInto
  <2> QED
    BY <2>2 DEF m
<1>4. ASSUME a[n] + b[n] + Carry(a, b, n) >= Radix[n]
      PROVE  CarryInto(a, b, n + 1)
  <2>1. CASE a[n] + b[n] >= Radix[n]
    <3>1. n \in 0 .. n /\ \A k \in n + 1 .. n : FALSE
      BY <1>1
    <3> QED
      BY <1>3, <2>1, <3>1
  <2>2. CASE ~(a[n] + b[n] >= Radix[n])
    <3>1. CarryInto(a, b, n) /\ a[n] + b[n] >= Radix[n] - 1
      BY <1>1, <1>4, <2>2 DEF Carry
    <3>2. PICK j \in 0 .. n - 1 :
            /\ a[j] + b[j] >= Radix[j]
            /\ \A k \in j + 1 .. n - 1 : a[k] + b[k] >= Radix[k] - 1
      BY <3>1 DEF CarryInto
    <3>3. j \in 0 .. n /\ \A k \in j + 1 .. n : k = n \/ k \in j + 1 .. n - 1
      BY <1>1
    <3>4. \A k \in j + 1 .. n : a[k] + b[k] >= Radix[k] - 1
      BY <3>1, <3>2, <3>3
    <3> QED
      BY <1>3, <3>2, <3>3, <3>4
  <2> QED
    BY <2>1, <2>2
<1> QED
  BY <1>2, <1>3, <1>4

LEMMA NoCarryIntoFirst ==
  ASSUME NEW a, NEW b
  PROVE  ~CarryInto(a, b, 0) /\ ~BorrowFrom(a, b, 0)
BY DEF CarryInto, BorrowFrom

LEMMA AddDigit ==
  ASSUME NEW a \in Word, NEW b \in Word, NEW n \in Fields
  PROVE  AddWord(a, b)[n] + Radix[n] * Carry(a, b, n + 1) = a[n] + b[n] + Carry(a, b, n)
<1> DEFINE x == a[n] + b[n] + Carry(a, b, n)
           r == Radix[n]
<1>1. x \in Nat /\ r \in Nat \ {0} /\ x < 2 * r
  BY WordDigit DEF Carry
<1>2. AddWord(a, b)[n] = x % r
  BY DEF AddWord, Carry
<1>3. Carry(a, b, n + 1) = IF x >= r THEN 1 ELSE 0
  BY CarryUp DEF Carry
<1> HIDE DEF x, r
<1>4. x % r = IF x < r THEN x ELSE x - r
  BY <1>1, ModOnce
<1>5. r * 1 = r /\ r * 0 = 0
  BY <1>1
<1>6. (x % r) + r * Carry(a, b, n + 1) = x
  <2>1. CASE x >= r
    BY <1>1, <1>3, <1>4, <1>5, <2>1
  <2>2. CASE ~(x >= r)
    BY <1>1, <1>3, <1>4, <1>5, <2>2
  <2> QED
    BY <2>1, <2>2
<1> QED
  BY <1>2, <1>6 DEF x, r

(* Distributing the weight of a field. *)
LEMMA Distribute ==
  ASSUME NEW W \in Nat, NEW R \in Nat, NEW x \in Nat, NEW y \in Nat, NEW c \in {0, 1}, NEW e \in {0, 1},
         NEW s \in Nat, s + R * e = x + y + c
  PROVE  s * W + e * (R * W) = x * W + y * W + c * W
<1>1. (x + y + c) * W = x * W + y * W + c * W
  OBVIOUS
<1>2. (s + R * e) * W = s * W + e * (R * W)
  <2>1. CASE e = 0
    BY <2>1
  <2>2. CASE e = 1
    BY <2>2
  <2> QED
    BY <2>1, <2>2
<1> QED
  BY <1>1, <1>2

(* What the digits below a field add up to, with the carry into it. *)
LEMMA AddUpTo ==
  ASSUME NEW a \in Word, NEW b \in Word
  PROVE  \A n \in 0 .. NumFields :
           NumberUpTo(AddWord(a, b))[n] + Carry(a, b, n) * Weight[n]
             = NumberUpTo(a)[n] + NumberUpTo(b)[n]
<1> DEFINE s == AddWord(a, b)
           f == NumberUpTo(s)
           g == NumberUpTo(a)
           h == NumberUpTo(b)
           c(n) == Carry(a, b, n)
           Q(n) == f[n] + c(n) * Weight[n] = g[n] + h[n]
           S == {n \in Nat : n <= NumFields => Q(n)}
<1>0. s \in Word
  BY AddWordType
<1>1. /\ f[0] = 0 /\ g[0] = 0 /\ h[0] = 0
      /\ \A n \in Fields : /\ f[n + 1] = f[n] + s[n] * Weight[n]
                           /\ g[n + 1] = g[n] + a[n] * Weight[n]
                           /\ h[n + 1] = h[n] + b[n] * Weight[n]
  BY NumberEquation
<1>2. \A n \in 0 .. NumFields :
        Weight[n] \in Nat \ {0} /\ f[n] \in Nat /\ g[n] \in Nat /\ h[n] \in Nat
  <2>1. \A n \in 0 .. NumFields : Weight[n] \in Nat \ {0} /\ f[n] \in 0 .. Weight[n] - 1
    BY <1>0, NumberBound
  <2>2. \A n \in 0 .. NumFields : g[n] \in 0 .. Weight[n] - 1
    BY NumberBound
  <2>3. \A n \in 0 .. NumFields : h[n] \in 0 .. Weight[n] - 1
    BY NumberBound
  <2> HIDE DEF f, g, h
  <2> QED
    BY <2>1, <2>2, <2>3
<1>3. \A n \in Nat : c(n) \in {0, 1}
  BY DEF Carry
<1>4. c(0) = 0
  BY NoCarryIntoFirst DEF Carry
<1>5. \A n \in Fields : s[n] + Radix[n] * c(n + 1) = a[n] + b[n] + c(n)
  BY AddDigit
<1> HIDE DEF s, f, g, h, c
<1>6. 0 \in S
  <2>1. c(0) * Weight[0] = 0
    BY <1>4, WeightEquation
  <2> QED
    BY <1>1, <2>1
<1>7. ASSUME NEW n \in Nat, n \in S PROVE n + 1 \in S
  <2> SUFFICES ASSUME n + 1 <= NumFields PROVE Q(n + 1)
    OBVIOUS
  <2>1. n \in Fields /\ n \in 0 .. NumFields /\ Q(n)
    BY <1>7, FieldsFact
  <2>2. /\ Radix[n] \in Nat /\ a[n] \in Nat /\ b[n] \in Nat /\ s[n] \in Nat
        /\ Weight[n] \in Nat /\ n + 1 \in Nat
    BY <1>0, <1>2, <2>1, WordDigit
  <2>3. s[n] * Weight[n] + c(n + 1) * (Radix[n] * Weight[n])
          = a[n] * Weight[n] + b[n] * Weight[n] + c(n) * Weight[n]
    <3> DEFINE W == Weight[n]
               R == Radix[n]
               x == a[n]
               y == b[n]
               t == s[n]
               i == c(n)
               o == c(n + 1)
    <3>1. /\ W \in Nat /\ R \in Nat /\ x \in Nat /\ y \in Nat /\ t \in Nat
          /\ i \in {0, 1} /\ o \in {0, 1} /\ t + R * o = x + y + i
      BY <1>3, <1>5, <2>1, <2>2
    <3> HIDE DEF W, R, x, y, t, i, o
    <3>2. t * W + o * (R * W) = x * W + y * W + i * W
      BY <3>1, Distribute
    <3> QED
      BY <3>2 DEF W, R, x, y, t, i, o
  <2>4. Weight[n + 1] = Radix[n] * Weight[n]
    BY <2>1, WeightEquation
  <2> DEFINE sW == s[n] * Weight[n]
             aW == a[n] * Weight[n]
             bW == b[n] * Weight[n]
             cW == c(n) * Weight[n]
             eW == c(n + 1) * Weight[n + 1]
  <2>5. sW \in Nat /\ aW \in Nat /\ bW \in Nat /\ cW \in Nat /\ eW \in Nat
    <3>1. c(n) \in Nat /\ c(n + 1) \in Nat /\ n + 1 \in 0 .. NumFields
      BY <1>3, <2>2
    <3>2. Weight[n + 1] \in Nat
      BY <1>2, <3>1
    <3> QED
      BY <2>2, <3>1, <3>2
  <2>6. sW + eW = aW + bW + cW
    BY <2>3, <2>4
  <2>7. f[n + 1] = f[n] + sW /\ g[n + 1] = g[n] + aW /\ h[n + 1] = h[n] + bW
    BY <1>1, <2>1
  <2>8. f[n] + cW = g[n] + h[n] /\ f[n] \in Nat /\ g[n] \in Nat /\ h[n] \in Nat
    BY <1>2, <2>1
  <2>9. f[n + 1] + eW = g[n + 1] + h[n + 1]
    <3> HIDE DEF sW, aW, bW, cW, eW
    <3> QED
      BY <2>5, <2>6, <2>7, <2>8
  <2> QED
    BY <2>9
<1>8. Nat \subseteq S
  <2> HIDE DEF S
  <2> QED
    BY <1>6, <1>7, NatSetInduction
<1> QED
  BY <1>8, FieldsFact DEF f, g, h, s, c

(* AddWord is the addition of uint64_t. *)
THEOREM AddWordIsModular ==
  ASSUME NEW a \in Word, NEW b \in Word
  PROVE  ModularSum(a, b)
<1> DEFINE s == Number(AddWord(a, b))
           x == Number(a)
           y == Number(b)
           M == Modulus
           c == Carry(a, b, NumFields)
<1>1. NumFields \in 0 .. NumFields
  BY FieldsFact
<1>2. M \in Nat \ {0} /\ s \in 0 .. M - 1 /\ x \in Nat /\ y \in Nat
  <2>1. M \in Nat \ {0} /\ s \in 0 .. M - 1
    BY <1>1, AddWordType, NumberBound DEF Number, Modulus
  <2>2. x \in 0 .. M - 1
    BY <1>1, NumberBound DEF Number, Modulus
  <2>3. y \in 0 .. M - 1
    BY <1>1, NumberBound DEF Number, Modulus
  <2> HIDE DEF s, x, y, M
  <2> QED
    BY <2>1, <2>2, <2>3
<1>3. s + c * M = x + y
  BY <1>1, AddUpTo DEF Number, Modulus
<1>4. c \in {0, 1}
  BY DEF Carry
<1> HIDE DEF s, x, y, M, c
<1>5. (x + y) % M = s
  <2>1. x + y \in Nat /\ x + y < 2 * M /\ x + y = (IF c = 1 THEN s + M ELSE s)
    BY <1>2, <1>3, <1>4
  <2> DEFINE z == x + y
  <2>2. z \in Nat /\ z < 2 * M /\ z = (IF c = 1 THEN s + M ELSE s)
    BY <2>1
  <2> HIDE DEF z
  <2>3. z % M = IF z < M THEN z ELSE z - M
    BY <1>2, <2>2, ModOnce
  <2>4. z % M = s
    BY <1>2, <2>2, <2>3
  <2> QED
    BY <2>4 DEF z
<1> QED
  BY <1>5 DEF ModularSum, s, x, y, M

-----------------------------------------------------------------------------
(* Subtraction, with borrows instead of carries. *)

Borrow(a, b, n) == IF BorrowFrom(a, b, n) THEN 1 ELSE 0

(* A field borrows when its digit is less than what is taken from it. *)
LEMMA BorrowUp ==
  ASSUME NEW a \in Word, NEW b \in Word, NEW n \in Fields
  PROVE  BorrowFrom(a, b, n + 1) <=> a[n] < b[n] + Borrow(a, b, n)
<1>1. /\ n \in Nat /\ a[n] \in Nat /\ b[n] \in Nat
      /\ \A k \in 0 .. n : k \in Fields
  BY WordDigit, FieldsFact DEF Fields
<1>2. ASSUME NEW j \in 0 .. n, a[j] < b[j], \A k \in j + 1 .. n : a[k] <= b[k]
      PROVE  a[n] < b[n] + Borrow(a, b, n)
  <2>1. CASE j = n
    BY <1>1, <1>2, <2>1 DEF Borrow
  <2>2. CASE j # n
    <3>1. j \in 0 .. n - 1 /\ n \in j + 1 .. n /\ \A k \in j + 1 .. n - 1 : k \in j + 1 .. n
      BY <1>1, <2>2
    <3>2. BorrowFrom(a, b, n) /\ a[n] <= b[n]
      BY <1>2, <3>1 DEF BorrowFrom
    <3> QED
      BY <1>1, <3>2 DEF Borrow
  <2> QED
    BY <2>1, <2>2
<1>3. BorrowFrom(a, b, n + 1) <=>
        \E j \in 0 .. n : a[j] < b[j] /\ \A k \in j + 1 .. n : a[k] <= b[k]
  <2> DEFINE m == n + 1
  <2>1. m - 1 = n
    BY <1>1
  <2> HIDE DEF m
  <2>2. BorrowFrom(a, b, m) <=>
          \E j \in 0 .. n : a[j] < b[j] /\ \A k \in j + 1 .. n : a[k] <= b[k]
    BY <2>1 DEF BorrowFrom
  <2> QED
    BY <2>2 DEF m
<1>4. ASSUME a[n] < b[n] + Borrow(a, b, n)
      PROVE  BorrowFrom(a, b, n + 1)
  <2>1. CASE a[n] < b[n]
    <3>1. n \in 0 .. n /\ \A k \in n + 1 .. n : FALSE
      BY <1>1
    <3> QED
      BY <1>3, <2>1, <3>1
  <2>2. CASE ~(a[n] < b[n])
    <3>1. BorrowFrom(a, b, n) /\ a[n] <= b[n]
      BY <1>1, <1>4, <2>2 DEF Borrow
    <3>2. PICK j \in 0 .. n - 1 : a[j] < b[j] /\ \A k \in j + 1 .. n - 1 : a[k] <= b[k]
      BY <3>1 DEF BorrowFrom
    <3>3. j \in 0 .. n /\ \A k \in j + 1 .. n : k = n \/ k \in j + 1 .. n - 1
      BY <1>1
    <3>4. \A k \in j + 1 .. n : a[k] <= b[k]
      BY <3>1, <3>2, <3>3
    <3> QED
      BY <1>3, <3>2, <3>3, <3>4
  <2> QED
    BY <2>1, <2>2
<1> QED
  BY <1>2, <1>3, <1>4

LEMMA SubDigit ==
  ASSUME NEW a \in Word, NEW b \in Word, NEW n \in Fields
  PROVE  a[n] + Radix[n] * Borrow(a, b, n + 1) = SubWord(a, b)[n] + b[n] + Borrow(a, b, n)
<1> DEFINE p == a[n]
           q == b[n]
           r == Radix[n]
           c == Borrow(a, b, n)
           e == Borrow(a, b, n + 1)
           x == p + r - q - c
<1>1. p \in Nat /\ q \in Nat /\ r \in Nat \ {0} /\ p < r /\ q < r /\ c \in {0, 1}
  BY WordDigit DEF Borrow
<1>2. SubWord(a, b)[n] = x % r
  BY DEF SubWord, Borrow
<1>3. e = IF p < q + c THEN 1 ELSE 0
  BY BorrowUp DEF Borrow
<1> HIDE DEF p, q, r, c, e
<1>4. x \in Nat /\ x < 2 * r
  BY <1>1
<1>5. x % r = IF x < r THEN x ELSE x - r
  <2> DEFINE z == x
  <2>1. z \in Nat /\ z < 2 * r
    BY <1>4
  <2> HIDE DEF z
  <2>2. z % r = IF z < r THEN z ELSE z - r
    BY <1>1, <2>1, ModOnce
  <2> QED
    BY <2>2 DEF z
<1>6. r * 1 = r /\ r * 0 = 0
  BY <1>1
<1>7. p + r * e = (x % r) + q + c
  <2>1. CASE p < q + c
    BY <1>1, <1>3, <1>5, <1>6, <2>1
  <2>2. CASE ~(p < q + c)
    BY <1>1, <1>3, <1>5, <1>6, <2>2
  <2> QED
    BY <2>1, <2>2
<1> QED
  BY <1>2, <1>7 DEF p, q, r, c, e

(* What the digits below a field differ by, with the borrow from it. *)
LEMMA SubUpTo ==
  ASSUME NEW a \in Word, NEW b \in Word
  PROVE  \A n \in 0 .. NumFields :
           NumberUpTo(SubWord(a, b))[n] + NumberUpTo(b)[n]
             = NumberUpTo(a)[n] + Borrow(a, b, n) * Weight[n]
<1> DEFINE s == SubWord(a, b)
           f == NumberUpTo(s)
           g == NumberUpTo(a)
           h == NumberUpTo(b)
           c(n) == Borrow(a, b, n)
           Q(n) == f[n] + h[n] = g[n] + c(n) * Weight[n]
           S == {n \in Nat : n <= NumFields => Q(n)}
<1>0. s \in Word
  BY SubWordType
<1>1. /\ f[0] = 0 /\ g[0] = 0 /\ h[0] = 0
      /\ \A n \in Fields : /\ f[n + 1] = f[n] + s[n] * Weight[n]
                           /\ g[n + 1] = g[n] + a[n] * Weight[n]
                           /\ h[n + 1] = h[n] + b[n] * Weight[n]
  BY NumberEquation
<1>2. \A n \in 0 .. NumFields :
        Weight[n] \in Nat \ {0} /\ f[n] \in Nat /\ g[n] \in Nat /\ h[n] \in Nat
  <2>1. \A n \in 0 .. NumFields : Weight[n] \in Nat \ {0} /\ f[n] \in 0 .. Weight[n] - 1
    BY <1>0, NumberBound
  <2>2. \A n \in 0 .. NumFields : g[n] \in 0 .. Weight[n] - 1
    BY NumberBound
  <2>3. \A n \in 0 .. NumFields : h[n] \in 0 .. Weight[n] - 1
    BY NumberBound
  <2> HIDE DEF f, g, h
  <2> QED
    BY <2>1, <2>2, <2>3
<1>3. \A n \in Nat : c(n) \in {0, 1}
  BY DEF Borrow
<1>4. c(0) = 0
  BY NoCarryIntoFirst DEF Borrow
<1>5. \A n \in Fields : a[n] + Radix[n] * c(n + 1) = s[n] + b[n] + c(n)
  BY SubDigit
<1> HIDE DEF s, f, g, h, c
<1>6. 0 \in S
  <2>1. c(0) * Weight[0] = 0
    BY <1>4, WeightEquation
  <2> QED
    BY <1>1, <2>1
<1>7. ASSUME NEW n \in Nat, n \in S PROVE n + 1 \in S
  <2> SUFFICES ASSUME n + 1 <= NumFields PROVE Q(n + 1)
    OBVIOUS
  <2>1. n \in Fields /\ n \in 0 .. NumFields /\ Q(n)
    BY <1>7, FieldsFact
  <2>2. /\ Radix[n] \in Nat /\ a[n] \in Nat /\ b[n] \in Nat /\ s[n] \in Nat
        /\ Weight[n] \in Nat /\ n + 1 \in Nat
    BY <1>0, <1>2, <2>1, WordDigit
  <2>3. a[n] * Weight[n] + c(n + 1) * (Radix[n] * Weight[n])
          = s[n] * Weight[n] + b[n] * Weight[n] + c(n) * Weight[n]
    <3> DEFINE W == Weight[n]
               R == Radix[n]
               x == s[n]
               y == b[n]
               t == a[n]
               i == c(n)
               o == c(n + 1)
    <3>1. /\ W \in Nat /\ R \in Nat /\ x \in Nat /\ y \in Nat /\ t \in Nat
          /\ i \in {0, 1} /\ o \in {0, 1} /\ t + R * o = x + y + i
      BY <1>3, <1>5, <2>1, <2>2
    <3> HIDE DEF W, R, x, y, t, i, o
    <3>2. t * W + o * (R * W) = x * W + y * W + i * W
      BY <3>1, Distribute
    <3> QED
      BY <3>2 DEF W, R, x, y, t, i, o
  <2>4. Weight[n + 1] = Radix[n] * Weight[n]
    BY <2>1, WeightEquation
  <2> DEFINE sW == s[n] * Weight[n]
             aW == a[n] * Weight[n]
             bW == b[n] * Weight[n]
             cW == c(n) * Weight[n]
             eW == c(n + 1) * Weight[n + 1]
  <2>5. sW \in Nat /\ aW \in Nat /\ bW \in Nat /\ cW \in Nat /\ eW \in Nat
    <3>1. c(n) \in Nat /\ c(n + 1) \in Nat /\ n + 1 \in 0 .. NumFields
      BY <1>3, <2>2
    <3>2. Weight[n + 1] \in Nat
      BY <1>2, <3>1
    <3> QED
      BY <2>2, <3>1, <3>2
  <2>6. aW + eW = sW + bW + cW
    BY <2>3, <2>4
  <2>7. f[n + 1] = f[n] + sW /\ g[n + 1] = g[n] + aW /\ h[n + 1] = h[n] + bW
    BY <1>1, <2>1
  <2>8. f[n] + h[n] = g[n] + cW /\ f[n] \in Nat /\ g[n] \in Nat /\ h[n] \in Nat
    BY <1>2, <2>1
  <2>9. f[n + 1] + h[n + 1] = g[n + 1] + eW
    <3> HIDE DEF sW, aW, bW, cW, eW
    <3> QED
      BY <2>5, <2>6, <2>7, <2>8
  <2> QED
    BY <2>9
<1>8. Nat \subseteq S
  <2> HIDE DEF S
  <2> QED
    BY <1>6, <1>7, NatSetInduction
<1> QED
  BY <1>8, FieldsFact DEF f, g, h, s, c

(* SubWord is the subtraction of uint64_t. *)
THEOREM SubWordIsModular ==
  ASSUME NEW a \in Word, NEW b \in Word
  PROVE  ModularDiff(a, b)
<1> DEFINE s == Number(SubWord(a, b))
           x == Number(a)
           y == Number(b)
           M == Modulus
           c == Borrow(a, b, NumFields)
<1>1. NumFields \in 0 .. NumFields
  BY FieldsFact
<1>2. M \in Nat \ {0} /\ s \in 0 .. M - 1 /\ x \in Nat /\ y \in Nat
  <2>1. M \in Nat \ {0} /\ s \in 0 .. M - 1
    BY <1>1, SubWordType, NumberBound DEF Number, Modulus
  <2>2. x \in 0 .. M - 1
    BY <1>1, NumberBound DEF Number, Modulus
  <2>3. y \in 0 .. M - 1
    BY <1>1, NumberBound DEF Number, Modulus
  <2> HIDE DEF s, x, y, M
  <2> QED
    BY <2>1, <2>2, <2>3
<1>3. s + y = x + c * M
  BY <1>1, SubUpTo DEF Number, Modulus
<1>4. c \in {0, 1}
  BY DEF Borrow
<1> HIDE DEF s, x, y, M, c
<1>5. (x + M - y) % M = s
  <2> DEFINE z == x + M - y
  <2>1. z \in Nat /\ z < 2 * M /\ z = (IF c = 1 THEN s ELSE s + M)
    <3>1. CASE c = 1
      BY <1>2, <1>3, <3>1
    <3>2. CASE c = 0
      BY <1>2, <1>3, <3>2
    <3> QED
      BY <1>4, <3>1, <3>2
  <2> HIDE DEF z
  <2>2. z % M = IF z < M THEN z ELSE z - M
    BY <1>2, <2>1, ModOnce
  <2>3. z % M = s
    BY <1>2, <2>1, <2>2
  <2> QED
    BY <2>3 DEF z
<1> QED
  BY <1>5 DEF ModularDiff, s, x, y, M

=============================================================================
