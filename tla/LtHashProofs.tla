---------------------------- MODULE LtHashProofs ----------------------------
(***************************************************************************)
(* Invariants of LtHash for any number of instances, any keys, objects,    *)
(* element widths and checksum lengths, and any digest function, and the   *)
(* proof that it implements the abstract homomorphic hash.                 *)
(***************************************************************************)
EXTENDS LtHashMultiset, LaneWordProofs, FiniteSetTheorems, WellFoundedInduction

(* A key buffer in order: a legal length, and zero bytes beyond it. *)
BufferOK(buffer) ==
  /\ buffer \in KeyBuffers
  /\ buffer.len \in KeySizes
  /\ \A i \in 1 .. MaxKey : i > buffer.len => buffer.bytes[i] = 0

(* The inductive invariant: storage that holds no instance holds a cleared
   key, and every key buffer is in order.                                 *)
IInv ==
  /\ TypeOK
  /\ \A x \in Inst : BufferOK(key_[x]) /\ (x \notin alive => key_[x] = ClearedKey)

-----------------------------------------------------------------------------
LEMMA ClearedKeyOK == BufferOK(ClearedKey)
  BY LtHashAssumption DEF BufferOK, ClearedKey, KeyBuffers, KeySizes, FixedKey

LEMMA SetUncheckedOK ==
  ASSUME NEW new \in SuppliedKeys, ValidKeySize(new)
  PROVE  BufferOK(SetUnchecked(new))
<1>1. /\ MinKey \in Nat \ {0} /\ MaxKey \in Nat /\ MinKey <= MaxKey /\ 0 \in KeyBytes
      /\ new \in Seq(KeyBytes) /\ (FixedKey => Len(new) = MaxKey)
  BY LtHashAssumption
<1>2. Len(new) \in MinKey .. MaxKey
  BY <1>1 DEF ValidKeySize
<1>3. \A i \in 1 .. MaxKey : i <= Len(new) => new[i] \in KeyBytes
  BY <1>1
<1>4. ClearedKey.bytes = [i \in 1 .. MaxKey |-> 0]
  BY DEF ClearedKey
<1>5. /\ SetUnchecked(new).len = Len(new)
      /\ SetUnchecked(new).bytes
           = [i \in 1 .. MaxKey |-> IF i <= Len(new) THEN new[i] ELSE 0]
      /\ SetUnchecked(new) = [bytes |-> SetUnchecked(new).bytes, len |-> SetUnchecked(new).len]
  BY <1>4 DEF SetUnchecked
<1>6. SetUnchecked(new).bytes \in [1 .. MaxKey -> KeyBytes]
  BY <1>1, <1>3, <1>5
<1>7. Len(new) \in KeySizes /\ Len(new) \in 0 .. MaxKey
  BY <1>1, <1>2 DEF KeySizes
<1> QED
  BY <1>1, <1>2, <1>5, <1>6, <1>7 DEF BufferOK, KeyBuffers

(* The key in use is one the digest function accepts. *)
LEMMA KeyOfOK ==
  ASSUME NEW buffer, BufferOK(buffer)
  PROVE  KeyOf(buffer) \in Keys
<1>1. /\ buffer.bytes \in [1 .. MaxKey -> KeyBytes] /\ buffer.len \in 0 .. MaxKey
      /\ buffer.len \in KeySizes /\ MaxKey \in Nat
  BY LtHashAssumption DEF BufferOK, KeyBuffers
<1>2. KeyOf(buffer) \in [1 .. buffer.len -> KeyBytes]
  BY <1>1 DEF KeyOf
<1> QED
  BY <1>1, <1>2 DEF Keys

(* Sums and differences of checksums are clean checksums. *)
LEMMA ArithmeticOK ==
  ASSUME NEW c \in Checksums, NEW d \in Checksums
  PROVE  /\ AddChecksum(c, d) \in Checksums /\ CleanChecksum(AddChecksum(c, d))
         /\ SubChecksum(c, d) \in Checksums /\ CleanChecksum(SubChecksum(c, d))
<1>1. ASSUME NEW w \in Words
      PROVE  /\ AddChecksum(c, d)[w] \in Word /\ CleanWord(AddChecksum(c, d)[w])
             /\ SubChecksum(c, d)[w] \in Word /\ CleanWord(SubChecksum(c, d)[w])
  <2>1. c[w] \in Word /\ d[w] \in Word
    BY DEF Checksums
  <2> QED
    BY <2>1, EngineResultClean DEF AddChecksum, SubChecksum
<1> QED
  BY <1>1 DEF AddChecksum, SubChecksum, Checksums, CleanChecksum

LEMMA HashObjectOK ==
  ASSUME IInv, NEW x \in Inst, NEW o \in Objects
  PROVE  hash_object(x, o) \in Checksums /\ CleanChecksum(hash_object(x, o))
<1>1. KeyOf(key_[x]) \in Keys
  BY KeyOfOK DEF IInv
<1>2. Digest(KeyOf(key_[x]), o) \in Checksums
  BY <1>1, LtHashAssumption
<1>3. ASSUME NEW w \in Words
      PROVE  hash_object(x, o)[w] \in Word /\ CleanWord(hash_object(x, o)[w])
  BY <1>2, ClearWordClean DEF Checksums, hash_object
<1> QED
  BY <1>3 DEF hash_object, Checksums, CleanChecksum

LEMMA DefaultOK == default_checksum \in Checksums /\ CleanChecksum(default_checksum)
<1>1. ZeroWord \in Word
  BY LayoutAssumption, IsWord DEF ZeroWord
<1>2. CleanWord(ZeroWord)
  BY DEF CleanWord, And, ZeroWord, Not
<1> QED
  BY <1>1, <1>2 DEF default_checksum, Checksums, CleanChecksum

-----------------------------------------------------------------------------
LEMMA IInvInit == Init => IInv
  BY ClearedKeyOK, DefaultOK DEF Init, IInv, TypeOK, BufferOK

(* A step that gives one instance a key buffer in order, and leaves dead
   storage cleared, preserves the part of the invariant about keys.       *)
LEMMA KeyStep ==
  ASSUME IInv,
         NEW x \in Inst, NEW buffer, BufferOK(buffer),
         key_' = [key_ EXCEPT ![x] = buffer],
         alive' \subseteq Inst,
         \A z \in Inst : z # x /\ z \notin alive' => z \notin alive,
         x \notin alive' => buffer = ClearedKey
  PROVE  /\ key_' \in [Inst -> KeyBuffers]
         /\ \A z \in Inst : BufferOK(key_'[z]) /\ (z \notin alive' => key_'[z] = ClearedKey)
  BY DEF IInv, TypeOK, BufferOK

(* The same for a move, which clears the key of the instance moved from. *)
LEMMA MoveStep ==
  ASSUME IInv,
         NEW x \in Inst, NEW other \in Inst, x # other, other \in alive,
         key_' = [key_ EXCEPT ![x] = key_[other], ![other] = ClearedKey],
         alive' = alive \cup {x}
  PROVE  /\ key_' \in [Inst -> KeyBuffers]
         /\ \A z \in Inst : BufferOK(key_'[z]) /\ (z \notin alive' => key_'[z] = ClearedKey)
<1>1. key_ \in [Inst -> KeyBuffers] /\ ClearedKey \in KeyBuffers
  BY ClearedKeyOK DEF IInv, TypeOK, BufferOK
<1>2. key_' \in [Inst -> KeyBuffers]
  BY <1>1
<1>3. \A z \in Inst : key_'[z] = IF z = other THEN ClearedKey
                               ELSE IF z = x THEN key_[other] ELSE key_[z]
  BY <1>1
<1> QED
  BY <1>2, <1>3, ClearedKeyOK DEF IInv

(* A step that stores a checksum in one instance keeps the buffers typed. *)
LEMMA ChecksumStep ==
  ASSUME IInv, NEW x \in Inst, NEW c \in Checksums,
         checksum_' = [checksum_ EXCEPT ![x] = c]
  PROVE  checksum_' \in [Inst -> Checksums]
  BY DEF IInv, TypeOK

LEMMA IInvStep == IInv /\ [Next]_vars => IInv'
<1> SUFFICES ASSUME IInv, [Next]_vars PROVE IInv'
  OBVIOUS
<1> USE DEF IInv, TypeOK
<1>1. ASSUME NEW x \in Inst, NEW c \in Initials, Construct(x, c) PROVE IInv'
  BY <1>1, ClearedKeyOK, KeyStep, ChecksumStep, LtHashAssumption DEF Construct
<1>2. ASSUME NEW x \in Inst, NEW other \in Inst, CopyConstruct(x, other) PROVE IInv'
  BY <1>2, KeyStep, ChecksumStep DEF CopyConstruct
<1>3. ASSUME NEW x \in Inst, NEW other \in Inst, MoveConstruct(x, other) PROVE IInv'
  <2>1. x # other /\ other \in alive /\ alive' = alive \cup {x}
    BY <1>3 DEF MoveConstruct
  <2> QED
    BY <1>3, <2>1, MoveStep, ChecksumStep DEF MoveConstruct
<1>4. ASSUME NEW x \in Inst, NEW other \in Inst, CopyAssign(x, other) PROVE IInv'
  BY <1>4, KeyStep, ChecksumStep DEF CopyAssign
<1>5. ASSUME NEW x \in Inst, NEW other \in Inst, MoveAssign(x, other) PROVE IInv'
  <2>1. x # other /\ other \in alive /\ alive' = alive \cup {x}
    BY <1>5 DEF MoveAssign
  <2> QED
    BY <1>5, <2>1, MoveStep, ChecksumStep DEF MoveAssign
<1>6. ASSUME NEW x \in Inst, Destroy(x) PROVE IInv'
  BY <1>6, ClearedKeyOK, KeyStep DEF Destroy
<1>7. ASSUME NEW x \in Inst, NEW new \in SuppliedKeys, set_key(x, new) PROVE IInv'
  <2>1. CASE ValidKeySize(new)
    BY <1>7, <2>1, SetUncheckedOK, KeyStep DEF set_key
  <2>2. CASE ~ValidKeySize(new)
    BY <1>7, <2>2 DEF set_key
  <2> QED
    BY <2>1, <2>2
<1>8. ASSUME NEW x \in Inst, clear_key(x) PROVE IInv'
  BY <1>8, ClearedKeyOK, KeyStep DEF clear_key
<1>9. ASSUME NEW x \in Inst, NEW new \in Givens, set_checksum(x, new) PROVE IInv'
  BY <1>9, ChecksumStep, LtHashAssumption DEF set_checksum
<1>10. ASSUME NEW x \in Inst, clear_checksum(x) PROVE IInv'
  BY <1>10, ChecksumStep, DefaultOK DEF clear_checksum
<1>11. ASSUME NEW x \in Inst, NEW other \in Inst, combine_add(x, other) PROVE IInv'
  <2>1. AddChecksum(checksum_[x], checksum_[other]) \in Checksums
    BY ArithmeticOK
  <2> QED
    BY <1>11, <2>1, ChecksumStep DEF combine_add
<1>12. ASSUME NEW x \in Inst, NEW other \in Inst, combine_remove(x, other) PROVE IInv'
  <2>1. SubChecksum(checksum_[x], checksum_[other]) \in Checksums
    BY ArithmeticOK
  <2> QED
    BY <1>12, <2>1, ChecksumStep DEF combine_remove
<1>13. ASSUME NEW x \in Inst, NEW o \in Objects, add(x, o) PROVE IInv'
  <2>1. AddChecksum(checksum_[x], hash_object(x, o)) \in Checksums
    BY ArithmeticOK, HashObjectOK
  <2> QED
    BY <1>13, <2>1, ChecksumStep DEF add
<1>14. ASSUME NEW x \in Inst, NEW o \in Objects, remove(x, o) PROVE IInv'
  <2>1. SubChecksum(checksum_[x], hash_object(x, o)) \in Checksums
    BY ArithmeticOK, HashObjectOK
  <2> QED
    BY <1>14, <2>1, ChecksumStep DEF remove
<1>15. ASSUME UNCHANGED vars PROVE IInv'
  BY <1>15 DEF vars
<1> QED
  BY <1>1, <1>2, <1>3, <1>4, <1>5, <1>6, <1>7, <1>8, <1>9, <1>10, <1>11, <1>12, <1>13,
     <1>14, <1>15 DEF Next

(* IInv is an invariant of every sequence of calls on LtHash instances. *)
THEOREM IInvInvariant == Spec => []IInv
  BY IInvInit, IInvStep, PTL DEF Spec

-----------------------------------------------------------------------------
(* Type correctness of LtHash: its buffers hold keys and machine words. *)
THEOREM TypeCorrect == Spec => []TypeOK
<1>1. IInv => TypeOK
  BY DEF IInv
<1> QED
  BY <1>1, IInvInvariant, PTL

(* LtHash::add and remove are rightly noexcept: for every sequence of calls
   the key they pass on is one that the digest function accepts.          *)
THEOREM NoexceptSound == Spec => []NoexceptIsSound
<1>1. IInv => NoexceptIsSound
  BY KeyOfOK DEF IInv, NoexceptIsSound
<1> QED
  BY <1>1, IInvInvariant, PTL

(* LtHash erases key material: neither storage without an instance nor the
   rest of a key buffer behind a shorter key holds a byte of a key.       *)
THEOREM KeysAreErased == Spec => []KeysErased
<1>1. ASSUME IInv PROVE KeysErased
  <2> SUFFICES ASSUME NEW x \in Inst, NEW i \in 1 .. MaxKey,
                      x \notin alive \/ i > key_[x].len
               PROVE  key_[x].bytes[i] = 0
    BY DEF KeysErased
  <2>1. CASE x \notin alive
    <3>1. key_[x] = ClearedKey
      BY <1>1, <2>1 DEF IInv
    <3>2. ClearedKey.bytes = [j \in 1 .. MaxKey |-> 0]
      BY DEF ClearedKey
    <3> QED
      BY <3>1, <3>2
  <2>2. CASE i > key_[x].len
    BY <1>1, <2>2 DEF IInv, BufferOK
  <2> QED
    BY <2>1, <2>2
<1> QED
  BY <1>1, IInvInvariant, PTL

-----------------------------------------------------------------------------
(* A step that stores a valid checksum, and brings no other instance to life. *)
LEMMA ValidStep ==
  ASSUME IInv, LiveChecksumsValid,
         NEW x \in Inst, NEW c, CleanChecksum(c),
         checksum_' = [checksum_ EXCEPT ![x] = c],
         alive' \subseteq alive \cup {x}
  PROVE  LiveChecksumsValid'
<1>1. \A z \in Inst : checksum_'[z] = IF z = x THEN c ELSE checksum_[z]
  BY DEF IInv, TypeOK
<1>2. \A z \in alive' : CleanChecksum(checksum_'[z])
  BY <1>1 DEF LiveChecksumsValid, IInv, TypeOK
<1> QED
  BY <1>2 DEF LiveChecksumsValid, CleanChecksum

LEMMA ValidUnchanged ==
  ASSUME LiveChecksumsValid, checksum_' = checksum_, alive' \subseteq alive
  PROVE  LiveChecksumsValid'
  BY DEF LiveChecksumsValid, CleanChecksum

LEMMA ValidPreserved ==
  ASSUME \A c \in Initials \cup Givens : CleanChecksum(c)
  PROVE  IInv /\ LiveChecksumsValid /\ [Next]_vars => LiveChecksumsValid'
<1> SUFFICES ASSUME IInv, LiveChecksumsValid, [Next]_vars PROVE LiveChecksumsValid'
  OBVIOUS
<1>0. /\ checksum_ \in [Inst -> Checksums]
      /\ \A z \in alive : z \in Inst /\ CleanChecksum(checksum_[z])
  BY DEF IInv, TypeOK, LiveChecksumsValid
<1>1. ASSUME NEW x \in Inst, NEW c \in Initials, Construct(x, c) PROVE LiveChecksumsValid'
  BY <1>1, ValidStep DEF Construct
<1>2. ASSUME NEW x \in Inst, NEW other \in Inst,
             \/ CopyConstruct(x, other) \/ MoveConstruct(x, other)
             \/ CopyAssign(x, other) \/ MoveAssign(x, other)
      PROVE  LiveChecksumsValid'
  <2>1. /\ other \in alive
        /\ checksum_' = [checksum_ EXCEPT ![x] = checksum_[other]]
        /\ alive' \subseteq alive \cup {x}
    BY <1>2 DEF CopyConstruct, MoveConstruct, CopyAssign, MoveAssign
  <2> QED
    BY <1>0, <2>1, ValidStep
<1>3. ASSUME NEW x \in Inst, Destroy(x) PROVE LiveChecksumsValid'
  BY <1>3, ValidUnchanged DEF Destroy
<1>4. ASSUME NEW x \in Inst, clear_key(x) \/ \E new \in SuppliedKeys : set_key(x, new)
      PROVE  LiveChecksumsValid'
  BY <1>4, ValidUnchanged DEF clear_key, set_key
<1>5. ASSUME NEW x \in Inst, NEW new \in Givens, set_checksum(x, new)
      PROVE  LiveChecksumsValid'
  BY <1>5, ValidStep DEF set_checksum
<1>6. ASSUME NEW x \in Inst, clear_checksum(x) PROVE LiveChecksumsValid'
  BY <1>6, ValidStep, DefaultOK DEF clear_checksum
<1>7. ASSUME NEW x \in Inst, NEW other \in Inst, combine_add(x, other)
      PROVE  LiveChecksumsValid'
  <2>1. CleanChecksum(AddChecksum(checksum_[x], checksum_[other]))
    BY <1>0, ArithmeticOK
  <2> QED
    BY <1>7, <2>1, ValidStep, ValidUnchanged DEF combine_add
<1>8. ASSUME NEW x \in Inst, NEW other \in Inst, combine_remove(x, other)
      PROVE  LiveChecksumsValid'
  <2>1. CleanChecksum(SubChecksum(checksum_[x], checksum_[other]))
    BY <1>0, ArithmeticOK
  <2> QED
    BY <1>8, <2>1, ValidStep, ValidUnchanged DEF combine_remove
<1>9. ASSUME NEW x \in Inst, NEW o \in Objects, add(x, o) PROVE LiveChecksumsValid'
  <2>1. CleanChecksum(AddChecksum(checksum_[x], hash_object(x, o)))
    BY <1>0, ArithmeticOK, HashObjectOK
  <2> QED
    BY <1>9, <2>1, ValidStep DEF add
<1>10. ASSUME NEW x \in Inst, NEW o \in Objects, remove(x, o) PROVE LiveChecksumsValid'
  <2>1. CleanChecksum(SubChecksum(checksum_[x], hash_object(x, o)))
    BY <1>0, ArithmeticOK, HashObjectOK
  <2> QED
    BY <1>10, <2>1, ValidStep DEF remove
<1>11. ASSUME UNCHANGED vars PROVE LiveChecksumsValid'
  BY <1>11, ValidUnchanged DEF vars
<1> QED
  BY <1>1, <1>2, <1>3, <1>4, <1>5, <1>6, <1>7, <1>8, <1>9, <1>10, <1>11 DEF Next

(* As long as callers construct from and set valid checksums only, every live
   LtHash instance has a valid checksum: no operation dirties the padding. *)
THEOREM ChecksumsStayValid ==
  ASSUME \A c \in Initials \cup Givens : CleanChecksum(c)
  PROVE  Spec => []LiveChecksumsValid
<1>1. Init => LiveChecksumsValid
  BY DEF Init, LiveChecksumsValid
<1> QED
  BY <1>1, IInvInvariant, ValidPreserved, PTL DEF Spec

-----------------------------------------------------------------------------
(***************************************************************************)
(* LtHash implements HomomorphicHash: every call on an instance, with its  *)
(* key buffer and its padded words, is one operation of the group or       *)
(* changes nothing.                                                        *)
(***************************************************************************)
LEMMA ChecksumNotInvalid ==
  ASSUME NEW c \in Checksums
  PROVE  c # InvalidSum
<1>1. 0 \in Words
  BY LtHashAssumption DEF Words
<1>2. DOMAIN c = Words /\ DOMAIN InvalidSum = {}
  BY DEF Checksums, InvalidSum
<1> QED
  BY <1>1, <1>2

LEMMA ValidSums ==
  ASSUME NEW c \in Checksums, CleanChecksum(c)
  PROVE  SumOf(c) = c /\ c \in [Words -> {w \in Word : CleanWord(w)}] /\ c # InvalidSum
  BY ChecksumNotInvalid DEF SumOf, CleanChecksum, Checksums

(* The sum of two checksums is a sum of the group, or any when one is invalid. *)
LEMMA SumsOfGroup ==
  ASSUME NEW c \in Checksums, NEW d \in Checksums
  PROVE  /\ SumOf(AddChecksum(c, d)) \in Group!Sum(SumOf(c), SumOf(d))
         /\ SumOf(SubChecksum(c, d)) \in Group!Difference(SumOf(c), SumOf(d))
<1> DEFINE p == AddChecksum(c, d)
           m == SubChecksum(c, d)
<1>1. /\ SumOf(p) = p /\ p \in [Words -> {w \in Word : CleanWord(w)}]
      /\ SumOf(m) = m /\ m \in [Words -> {w \in Word : CleanWord(w)}]
  BY ArithmeticOK, ValidSums
<1>2. CASE CleanChecksum(c) /\ CleanChecksum(d)
  <2>1. SumOf(c) = c /\ SumOf(d) = d /\ c # InvalidSum /\ d # InvalidSum
    BY <1>2, ValidSums
  <2>2. ASSUME NEW w \in Words
        PROVE  /\ EngineAdd(c[w], d[w]) = LaneSum(c[w], d[w])
               /\ EngineSub(c[w], d[w]) = LaneDiff(c[w], d[w])
    <3>1. c[w] \in Word /\ d[w] \in Word /\ CleanWord(c[w]) /\ CleanWord(d[w])
      BY <1>2 DEF Checksums, CleanChecksum
    <3> QED
      BY <3>1, EngineAddLanes, EngineSubLanes
  <2>3. p = GroupPlus(c, d) /\ m = GroupMinus(c, d)
    BY <2>2 DEF AddChecksum, SubChecksum, GroupPlus, GroupMinus
  <2> QED
    BY <1>1, <2>1, <2>3 DEF Group!Sum, Group!Difference
<1>3. CASE ~(CleanChecksum(c) /\ CleanChecksum(d))
  <2>1. SumOf(c) = InvalidSum \/ SumOf(d) = InvalidSum
    BY <1>3 DEF SumOf
  <2> QED
    BY <1>1, <2>1 DEF Group!Sum, Group!Difference
<1> QED
  BY <1>2, <1>3

(* Storing a key or a checksum in an instance maps to storing it in the abstract one. *)
LEMMA KeyMapStep ==
  ASSUME key_ \in [Inst -> KeyBuffers], NEW x \in Inst, NEW buffer,
         key_' = [key_ EXCEPT ![x] = buffer]
  PROVE  KeyMap' = [KeyMap EXCEPT ![x] = KeyOf(buffer)]
  BY DEF KeyMap, KeyOf

LEMMA SumMapStep ==
  ASSUME checksum_ \in [Inst -> Checksums], NEW x \in Inst, NEW c,
         checksum_' = [checksum_ EXCEPT ![x] = c]
  PROVE  SumMap' = [SumMap EXCEPT ![x] = SumOf(c)]
  BY DEF SumMap, SumOf, CleanChecksum

LEMMA InitRefines == Init => Group!Init
  BY DefaultOK DEF Init, Group!Init, KeyMap, SumMap, SumOf

LEMMA SetKeyRoundTrip ==
  ASSUME NEW new \in SuppliedKeys, ValidKeySize(new)
  PROVE  KeyOf(SetUnchecked(new)) = new
<1>1. new \in Seq(KeyBytes) /\ MaxKey \in Nat
  BY LtHashAssumption
<1>2. Len(new) \in Nat /\ Len(new) <= MaxKey /\ new = [i \in 1 .. Len(new) |-> new[i]]
  BY <1>1 DEF ValidKeySize
<1>3. /\ SetUnchecked(new).len = Len(new)
      /\ \A i \in 1 .. Len(new) : SetUnchecked(new).bytes[i] = new[i]
  BY <1>1, <1>2 DEF SetUnchecked
<1> QED
  BY <1>2, <1>3 DEF KeyOf

(* Instance x takes over key and checksum of another. *)
LEMMA TransferRefines ==
  ASSUME IInv, NEW x \in Inst, NEW other \in alive, x # other,
         alive' = alive \cup {x},
         \/ key_' = [key_ EXCEPT ![x] = key_[other]]
         \/ key_' = [key_ EXCEPT ![x] = key_[other], ![other] = ClearedKey],
         checksum_' = [checksum_ EXCEPT ![x] = checksum_[other]]
  PROVE  Group!Transfer(x, other)
<1>1. /\ key_ \in [Inst -> KeyBuffers] /\ checksum_ \in [Inst -> Checksums] /\ other \in Inst
      /\ KeyMap = [z \in Inst |-> KeyOf(key_[z])]
      /\ SumMap[other] = SumOf(checksum_[other])
  BY DEF IInv, TypeOK, KeyMap, SumMap
<1>2. SumMap' = [SumMap EXCEPT ![x] = SumMap[other]]
  BY <1>1, SumMapStep
<1>3. CASE key_' = [key_ EXCEPT ![x] = key_[other]]
  <2>1. KeyMap' = [KeyMap EXCEPT ![x] = KeyMap[other]]
    BY <1>1, <1>3, KeyMapStep
  <2> QED
    BY <1>2, <2>1 DEF Group!Transfer
<1>4. CASE key_' = [key_ EXCEPT ![x] = key_[other], ![other] = ClearedKey]
  <2>1. KeyMap' = [KeyMap EXCEPT ![x] = KeyMap[other], ![other] = KeyOf(ClearedKey)]
    <3>1. \A z \in Inst : key_'[z] = IF z = other THEN ClearedKey
                                   ELSE IF z = x THEN key_[other] ELSE key_[z]
      BY <1>1, <1>4
    <3>2. KeyMap' = [z \in Inst |-> KeyOf(key_'[z])]
      BY DEF KeyMap, KeyOf
    <3>3. KeyMap' = [z \in Inst |-> IF z = other THEN KeyOf(ClearedKey)
                                  ELSE IF z = x THEN KeyOf(key_[other]) ELSE KeyOf(key_[z])]
      BY <3>1, <3>2
    <3> QED
      BY <1>1, <3>3
  <2> QED
    BY <1>2, <2>1 DEF Group!Transfer
<1> QED
  BY <1>3, <1>4

LEMMA SameKeys ==
  ASSUME key_' = key_
  PROVE  KeyMap' = KeyMap
  BY DEF KeyMap, KeyOf

LEMMA SameSums ==
  ASSUME checksum_' = checksum_
  PROVE  SumMap' = SumMap
  BY DEF SumMap, SumOf, CleanChecksum

LEMMA StepRefines == IInv /\ [Next]_vars => [Group!Next]_(Group!vars)
<1> SUFFICES ASSUME IInv, [Next]_vars PROVE [Group!Next]_(Group!vars)
  OBVIOUS
<1>0. /\ key_ \in [Inst -> KeyBuffers] /\ checksum_ \in [Inst -> Checksums]
      /\ alive \subseteq Inst
      /\ \A z \in Inst : KeyMap[z] = KeyOf(key_[z]) /\ SumMap[z] = SumOf(checksum_[z])
  BY DEF IInv, TypeOK, KeyMap, SumMap
<1>1. ASSUME NEW x \in Inst, NEW c \in Initials, Construct(x, c) PROVE Group!Next
  <2>1. /\ KeyMap' = [KeyMap EXCEPT ![x] = KeyOf(ClearedKey)]
        /\ SumMap' = [SumMap EXCEPT ![x] = SumOf(c)]
    BY <1>0, <1>1, KeyMapStep, SumMapStep DEF Construct
  <2>2. Group!Construct(x)
    BY <1>1, <2>1 DEF Construct, Group!Construct
  <2> QED
    BY <2>2 DEF Group!Next
<1>2. ASSUME NEW x \in Inst, NEW other \in Inst,
             CopyConstruct(x, other) \/ MoveConstruct(x, other) \/ MoveAssign(x, other)
      PROVE  Group!Next
  <2>1. /\ other \in alive /\ x # other /\ alive' = alive \cup {x}
        /\ \/ key_' = [key_ EXCEPT ![x] = key_[other]]
           \/ key_' = [key_ EXCEPT ![x] = key_[other], ![other] = ClearedKey]
        /\ checksum_' = [checksum_ EXCEPT ![x] = checksum_[other]]
    BY <1>2 DEF CopyConstruct, MoveConstruct, MoveAssign
  <2> QED
    BY <2>1, TransferRefines DEF Group!Next
<1>3. ASSUME NEW x \in Inst, NEW other \in Inst, CopyAssign(x, other)
      PROVE  [Group!Next]_(Group!vars)
  <2>1. CASE x = other
    <3>1. key_' = key_ /\ checksum_' = checksum_ /\ alive' = alive
      BY <1>0, <1>3, <2>1 DEF CopyAssign
    <3> QED
      BY <3>1, SameKeys, SameSums DEF Group!vars
  <2>2. CASE x # other
    <3>1. /\ other \in alive /\ alive' = alive \cup {x}
          /\ key_' = [key_ EXCEPT ![x] = key_[other]]
          /\ checksum_' = [checksum_ EXCEPT ![x] = checksum_[other]]
      BY <1>3 DEF CopyAssign
    <3> QED
      BY <2>2, <3>1, TransferRefines DEF Group!Next
  <2> QED
    BY <2>1, <2>2
<1>4. ASSUME NEW x \in Inst, Destroy(x) PROVE Group!Next
  <2>1. Group!Destroy(x)
    BY <1>0, <1>4, KeyMapStep, SameSums DEF Destroy, Group!Destroy
  <2> QED
    BY <2>1 DEF Group!Next
<1>5. ASSUME NEW x \in Inst, NEW new \in SuppliedKeys, set_key(x, new)
      PROVE  [Group!Next]_(Group!vars)
  <2>1. CASE ValidKeySize(new)
    <3>1. KeyMap' = [KeyMap EXCEPT ![x] = new]
      BY <1>0, <1>5, <2>1, KeyMapStep, SetKeyRoundTrip DEF set_key
    <3>2. Group!Rekey(x)
      BY <1>5, <2>1, <3>1, SameSums DEF set_key, Group!Rekey
    <3> QED
      BY <3>2 DEF Group!Next
  <2>2. CASE ~ValidKeySize(new)
    BY <1>5, <2>2, SameKeys, SameSums DEF set_key, Group!vars
  <2> QED
    BY <2>1, <2>2
<1>6. ASSUME NEW x \in Inst, clear_key(x) PROVE Group!Next
  <2>1. Group!Rekey(x)
    BY <1>0, <1>6, KeyMapStep, SameSums DEF clear_key, Group!Rekey
  <2> QED
    BY <2>1 DEF Group!Next
<1>7. ASSUME NEW x \in Inst, NEW new \in Givens, set_checksum(x, new) PROVE Group!Next
  <2>1. checksum_' = [checksum_ EXCEPT ![x] = new] /\ key_' = key_ /\ alive' = alive /\ x \in alive
    BY <1>7 DEF set_checksum
  <2>2. SumMap' = [SumMap EXCEPT ![x] = SumOf(new)]
    BY <1>0, <2>1, SumMapStep
  <2>3. Group!Reset(x)
    BY <2>1, <2>2, SameKeys DEF Group!Reset
  <2> QED
    BY <2>3 DEF Group!Next
<1>8. ASSUME NEW x \in Inst, clear_checksum(x) PROVE Group!Next
  <2>1. SumMap' = [SumMap EXCEPT ![x] = default_checksum]
    <3>1. SumMap' = [SumMap EXCEPT ![x] = SumOf(default_checksum)]
      BY <1>0, <1>8, SumMapStep DEF clear_checksum
    <3> QED
      BY <3>1, DefaultOK, ValidSums
  <2>2. Group!Reset(x)
    BY <1>8, <2>1, SameKeys DEF clear_checksum, Group!Reset
  <2> QED
    BY <2>2 DEF Group!Next
<1>9. ASSUME NEW x \in Inst, NEW other \in Inst,
             combine_add(x, other) \/ combine_remove(x, other)
      PROVE  [Group!Next]_(Group!vars)
  <2>1. CASE ~key_equal(x, other)
    <3>1. key_' = key_ /\ checksum_' = checksum_ /\ alive' = alive
      BY <1>9, <2>1 DEF combine_add, combine_remove
    <3> QED
      BY <3>1, SameKeys, SameSums DEF Group!vars
  <2>2. CASE key_equal(x, other)
    <3> DEFINE s == AddChecksum(checksum_[x], checksum_[other])
               d == SubChecksum(checksum_[x], checksum_[other])
    <3>1. /\ x \in alive /\ other \in alive /\ alive' = alive /\ key_' = key_
          /\ \/ checksum_' = [checksum_ EXCEPT ![x] = s]
             \/ checksum_' = [checksum_ EXCEPT ![x] = d]
      BY <1>9, <2>2 DEF combine_add, combine_remove
    <3>2. /\ SumOf(s) \in Group!Sum(SumMap[x], SumMap[other])
          /\ SumOf(d) \in Group!Difference(SumMap[x], SumMap[other])
      BY <1>0, SumsOfGroup
    <3>3. KeyMap[x] = KeyMap[other]
      BY <1>0, <2>2 DEF key_equal
    <3> HIDE DEF s, d
    <3>4. \/ SumMap' = [SumMap EXCEPT ![x] = SumOf(s)]
          \/ SumMap' = [SumMap EXCEPT ![x] = SumOf(d)]
      BY <1>0, <3>1, SumMapStep
    <3>5. Group!Combine(x, other)
      BY <3>1, <3>2, <3>3, <3>4, SameKeys DEF Group!Combine
    <3> QED
      BY <3>5 DEF Group!Next
  <2> QED
    BY <2>1, <2>2
<1>10. ASSUME NEW x \in Inst, NEW o \in Objects, add(x, o) \/ remove(x, o)
       PROVE  Group!Next
  <2> DEFINE h == hash_object(x, o)
             s == AddChecksum(checksum_[x], h)
             d == SubChecksum(checksum_[x], h)
  <2>1. /\ x \in alive /\ alive' = alive /\ key_' = key_
        /\ \/ checksum_' = [checksum_ EXCEPT ![x] = s]
           \/ checksum_' = [checksum_ EXCEPT ![x] = d]
    BY <1>10 DEF add, remove
  <2>2. h \in Checksums /\ SumOf(h) = h /\ h = GroupHash(KeyMap[x], o)
    BY <1>0, HashObjectOK, ValidSums DEF hash_object, GroupHash
  <2> HIDE DEF h
  <2>3. /\ SumOf(s) \in Group!Sum(SumMap[x], GroupHash(KeyMap[x], o))
        /\ SumOf(d) \in Group!Difference(SumMap[x], GroupHash(KeyMap[x], o))
    BY <1>0, <2>2, SumsOfGroup
  <2> HIDE DEF s, d
  <2>4. \/ SumMap' = [SumMap EXCEPT ![x] = SumOf(s)]
        \/ SumMap' = [SumMap EXCEPT ![x] = SumOf(d)]
    BY <1>0, <2>1, SumMapStep
  <2>5. Group!Update(x, o)
    BY <2>1, <2>3, <2>4, SameKeys DEF Group!Update
  <2> QED
    BY <2>5 DEF Group!Next
<1>11. ASSUME UNCHANGED vars PROVE UNCHANGED Group!vars
  BY <1>11, SameKeys, SameSums DEF vars, Group!vars
<1> QED
  BY <1>1, <1>2, <1>3, <1>4, <1>5, <1>6, <1>7, <1>8, <1>9, <1>10, <1>11 DEF Next

(* LtHash implements HomomorphicHash: copies, moves, exceptions and arithmetic
   on padded machine words never do more than the abstract operation does.   *)
THEOREM LtHashIsHomomorphic == Spec => ImplementsHomomorphicHash
  BY InitRefines, StepRefines, IInvInvariant, PTL DEF Spec, Group!Spec, ImplementsHomomorphicHash

-----------------------------------------------------------------------------
(* Natural numbers and integers. *)

(* Division of an integer, with its remainder. *)
LEMMA Divided ==
  ASSUME NEW r \in Nat \ {0}, NEW a \in Int
  PROVE  \E q \in Int : a = r * q + (a % r) /\ a % r \in 0 .. r - 1
<1>1. a = r * (a \div r) + (a % r) /\ a % r \in 0 .. r - 1 /\ a \div r \in Int
  BY Z3
<1> QED
  BY <1>1

LEMMA Remainder ==
  ASSUME NEW r \in Nat \ {0}, NEW q \in Int, NEW y \in 0 .. r - 1
  PROVE  (r * q + y) % r = y
  BY Z3

LEMMA Congruent ==
  ASSUME NEW r \in Nat \ {0}, NEW k \in Int, NEW a \in Int
  PROVE  (r * k + a) % r = a % r
<1>1. PICK q \in Int : a = r * q + (a % r) /\ a % r \in 0 .. r - 1
  BY Divided
<1>2. PICK y \in 0 .. r - 1 : y = a % r
  BY <1>1
<1>3. r * k + a = r * (k + q) + y
  <2>1. r * (k + q) = r * k + r * q
    OBVIOUS
  <2>2. a = r * q + y
    BY <1>1, <1>2
  <2>3. r * k \in Int /\ r * q \in Int
    OBVIOUS
  <2> DEFINE u == r * k
             v == r * q
  <2> HIDE DEF u, v
  <2>4. u \in Int /\ v \in Int /\ r * (k + q) = u + v /\ a = v + y
    BY <2>1, <2>2, <2>3 DEF u, v
  <2>5. u + a = (u + v) + y
    BY <2>4
  <2> QED
    BY <2>4, <2>5 DEF u
<1>4. (r * (k + q) + y) % r = y
  BY Remainder
<1> QED
  BY <1>2, <1>3, <1>4

(* Sums and differences of remainders. *)
LEMMA ModSums ==
  ASSUME NEW r \in Nat \ {0}, NEW a \in Int, NEW b \in Int
  PROVE  /\ ((a % r) + (b % r)) % r = (a + b) % r
         /\ ((a % r) + r - (b % r)) % r = (a - b) % r
<1>1. PICK p \in Int : a = r * p + (a % r) /\ a % r \in 0 .. r - 1
  BY Divided
<1>2. PICK q \in Int : b = r * q + (b % r) /\ b % r \in 0 .. r - 1
  BY Divided
<1>3. PICK x \in 0 .. r - 1 : x = a % r
  BY <1>1
<1>4. PICK y \in 0 .. r - 1 : y = b % r
  BY <1>2
<1> DEFINE u == r * p
           v == r * q
<1>5. /\ u \in Int /\ v \in Int /\ a = u + x /\ b = v + y
      /\ r * (0 - p - q) = 0 - u - v /\ r * (q - p + 1) = v - u + r
  BY <1>1, <1>2, <1>3, <1>4
<1> HIDE DEF u, v
<1>6. x + y = r * (0 - p - q) + (a + b) /\ x + r - y = r * (q - p + 1) + (a - b)
  BY <1>5
<1>7. /\ (r * (0 - p - q) + (a + b)) % r = (a + b) % r
      /\ (r * (q - p + 1) + (a - b)) % r = (a - b) % r
  <2>1. 0 - p - q \in Int /\ q - p + 1 \in Int /\ a + b \in Int /\ a - b \in Int
    OBVIOUS
  <2> QED
    BY <2>1, Congruent
<1> QED
  BY <1>3, <1>4, <1>6, <1>7

(* A remainder in a sum. *)
LEMMA ModAbsorb ==
  ASSUME NEW r \in Nat \ {0}, NEW a \in Int, NEW b \in Int
  PROVE  ((a % r) + b) % r = (a + b) % r
<1>1. PICK p \in Int : a = r * p + (a % r) /\ a % r \in 0 .. r - 1
  BY Divided
<1>2. PICK x \in 0 .. r - 1 : x = a % r
  BY <1>1
<1> DEFINE u == r * p
<1>3. u \in Int /\ a = u + x /\ r * (0 - p) = 0 - u
  BY <1>1, <1>2
<1> HIDE DEF u
<1>4. x + b = r * (0 - p) + (a + b)
  BY <1>3
<1>5. (r * (0 - p) + (a + b)) % r = (a + b) % r
  <2>1. 0 - p \in Int /\ a + b \in Int
    OBVIOUS
  <2> QED
    BY <2>1, Congruent
<1> QED
  BY <1>2, <1>4, <1>5

LEMMA ModSmall ==
  ASSUME NEW r \in Nat \ {0}, NEW y \in 0 .. r - 1
  PROVE  y % r = y
  BY Z3

-----------------------------------------------------------------------------
(* Sums over finite sets: SumFunction takes the elements in an order that    *)
(* depends on the set alone.                                                 *)

Any(s) == CHOOSE x \in s : TRUE

Rest(s) == s \ {Any(s)}

IsPartial(g, f) ==
  g = [s \in SUBSET DOMAIN f |-> IF s = {} THEN 0 ELSE f[Any(s)] + g[Rest(s)]]

(* The sums over all subsets. *)
Partial(f) == CHOOSE g : IsPartial(g, f)

LEMMA SumIsPartial ==
  ASSUME NEW f
  PROVE  SumFunction(f) = Partial(f)[DOMAIN f]
  BY DEF SumFunction, SumFunctionOnSet, FoldFunctionOnSet, MapThenFoldSet, Partial, IsPartial,
         Any, Rest

LEMMA RestSmaller ==
  ASSUME NEW D, IsFiniteSet(D), NEW s \in SUBSET D, s # {}
  PROVE  /\ Any(s) \in s /\ Rest(s) \in SUBSET D /\ Any(s) \notin Rest(s)
         /\ s = Rest(s) \cup {Any(s)} /\ Rest(s) # s
         /\ Cardinality(s) \in Nat /\ Cardinality(Rest(s)) = Cardinality(s) - 1
<1>1. Any(s) \in s
  BY DEF Any
<1>2. IsFiniteSet(s)
  BY FS_Subset
<1> QED
  BY <1>1, <1>2, FS_RemoveElement, FS_CardinalityType DEF Rest

(* Partial sums exist: the function grows with the size of the subsets. *)
LEMMA PartialExists ==
  ASSUME NEW D, IsFiniteSet(D), NEW f, DOMAIN f = D
  PROVE  \E g : IsPartial(g, f)
<1> DEFINE Small(n) == {s \in SUBSET D : Cardinality(s) <= n}
           F(g, s) == IF s = {} THEN 0 ELSE f[Any(s)] + g[Rest(s)]
           P(g, n) == g = [s \in Small(n) |-> F(g, s)]
           N == {n \in Nat : \E g : P(g, n)}
<1>1. \A s \in SUBSET D : Cardinality(s) \in Nat /\ Cardinality(s) <= Cardinality(D)
                          /\ (Cardinality(s) = 0 <=> s = {})
  BY FS_Subset, FS_CardinalityType, FS_EmptySet
<1>2. 0 \in N
  <2> DEFINE g == [s \in {{}} |-> 0]
  <2>1. Small(0) = {{}}
    BY <1>1, FS_EmptySet
  <2>2. P(g, 0)
    BY <2>1
  <2> HIDE DEF P
  <2> QED
    BY <2>2
<1>3. ASSUME NEW n \in Nat, n \in N PROVE n + 1 \in N
  <2>1. PICK g : P(g, n)
    BY <1>3
  <2> DEFINE h == [s \in Small(n + 1) |-> F(g, s)]
  <2>2. Small(n) \subseteq Small(n + 1)
    BY <1>1
  <2>3. ASSUME NEW s \in Small(n) PROVE h[s] = g[s]
    <3>1. h[s] = F(g, s)
      BY <2>2
    <3>2. g[s] = F(g, s)
      <4> HIDE DEF F, Small
      <4> QED
        BY <2>1
    <3> QED
      BY <3>1, <3>2
  <2>4. ASSUME NEW s \in Small(n + 1), s # {} PROVE Rest(s) \in Small(n)
    <3>1. /\ Cardinality(Rest(s)) = Cardinality(s) - 1
          /\ Rest(s) \in SUBSET D /\ Cardinality(s) \in Nat
      BY <2>4, RestSmaller
    <3> QED
      BY <3>1
  <2>5. P(h, n + 1)
    <3>1. ASSUME NEW s \in Small(n + 1) PROVE F(g, s) = F(h, s)
      BY <2>3, <2>4
    <3> HIDE DEF F, Small
    <3> QED
      BY <3>1
  <2> HIDE DEF P, h
  <2> QED
    BY <2>5
<1>4. Cardinality(D) \in N
  <2>1. Nat \subseteq N
    <3> HIDE DEF N
    <3> QED
      BY <1>2, <1>3, NatSetInduction
  <2> QED
    BY <2>1, FS_CardinalityType
<1>5. PICK g : P(g, Cardinality(D))
  BY <1>4
<1>6. Small(Cardinality(D)) = SUBSET D
  BY <1>1
<1>7. IsPartial(g, f)
  <2>1. g = [s \in SUBSET D |-> F(g, s)]
    <3> HIDE DEF Small, F
    <3> QED
      BY <1>5, <1>6
  <2> QED
    BY <2>1 DEF IsPartial
<1> QED
  BY <1>7

LEMMA PartialEquation ==
  ASSUME NEW D, IsFiniteSet(D), NEW f, DOMAIN f = D, NEW s \in SUBSET D
  PROVE  Partial(f)[s] = IF s = {} THEN 0 ELSE f[Any(s)] + Partial(f)[Rest(s)]
<1>1. IsPartial(Partial(f), f)
  <2>1. \E g : IsPartial(g, f)
    BY PartialExists
  <2> QED
    BY <2>1 DEF Partial
<1> DEFINE p == Partial(f)
<1>2. p = [t \in SUBSET D |-> IF t = {} THEN 0 ELSE f[Any(t)] + p[Rest(t)]]
  BY <1>1 DEF IsPartial
<1> HIDE DEF p
<1>3. p[s] = IF s = {} THEN 0 ELSE f[Any(s)] + p[Rest(s)]
  BY <1>2
<1> QED
  BY <1>3 DEF p

(* Induction along the order of the sums. *)
LEMMA SubsetInduction ==
  ASSUME NEW D, IsFiniteSet(D), NEW P, {} \in P,
         \A s \in SUBSET D : s # {} /\ Rest(s) \in P => s \in P
  PROVE  D \in P
<1> DEFINE N == {n \in Nat : \A s \in SUBSET D : Cardinality(s) = n => s \in P}
<1>1. 0 \in N
  <2>1. \A s \in SUBSET D : Cardinality(s) = 0 => s = {}
    BY FS_Subset, FS_EmptySet
  <2> QED
    BY <2>1
<1>2. ASSUME NEW n \in Nat, n \in N PROVE n + 1 \in N
  <2> SUFFICES ASSUME NEW s \in SUBSET D, Cardinality(s) = n + 1 PROVE s \in P
    OBVIOUS
  <2>1. s # {}
    BY FS_EmptySet
  <2>2. Rest(s) \in SUBSET D /\ Cardinality(Rest(s)) = n
    BY <2>1, RestSmaller
  <2> QED
    BY <1>2, <2>1, <2>2
<1>3. Nat \subseteq N
  <2> HIDE DEF N
  <2> QED
    BY <1>1, <1>2, NatSetInduction
<1> QED
  BY <1>3, FS_CardinalityType

LEMMA SumType ==
  ASSUME NEW D, IsFiniteSet(D), NEW f \in [D -> Int]
  PROVE  SumFunction(f) \in Int
<1> DEFINE P == {s \in SUBSET D : Partial(f)[s] \in Int}
<1>1. {} \in P
  <2>1. Partial(f)[{}] = 0
    BY PartialEquation
  <2> QED
    BY <2>1
<1>2. ASSUME NEW s \in SUBSET D, s # {}, Rest(s) \in P PROVE s \in P
  <2>1. Any(s) \in D
    BY <1>2, RestSmaller
  <2>2. Partial(f)[s] = f[Any(s)] + Partial(f)[Rest(s)]
    BY <1>2, PartialEquation
  <2> QED
    BY <1>2, <2>1, <2>2
<1>3. D \in P
  <2> HIDE DEF P
  <2> QED
    BY <1>1, <1>2, SubsetInduction
<1> QED
  BY <1>3, SumIsPartial

LEMMA SumPlus ==
  ASSUME NEW D, IsFiniteSet(D),
         NEW f \in [D -> Int], NEW g \in [D -> Int], NEW h \in [D -> Int],
         \A d \in D : h[d] = f[d] + g[d]
  PROVE  SumFunction(h) = SumFunction(f) + SumFunction(g)
<1> DEFINE P == {s \in SUBSET D : /\ Partial(f)[s] \in Int /\ Partial(g)[s] \in Int
                                  /\ Partial(h)[s] = Partial(f)[s] + Partial(g)[s]}
<1>1. {} \in P
  <2>1. Partial(f)[{}] = 0 /\ Partial(g)[{}] = 0 /\ Partial(h)[{}] = 0
    BY PartialEquation
  <2> QED
    BY <2>1
<1>2. ASSUME NEW s \in SUBSET D, s # {}, Rest(s) \in P PROVE s \in P
  <2>1. Any(s) \in D
    BY <1>2, RestSmaller
  <2>2. /\ Partial(f)[s] = f[Any(s)] + Partial(f)[Rest(s)]
        /\ Partial(g)[s] = g[Any(s)] + Partial(g)[Rest(s)]
        /\ Partial(h)[s] = h[Any(s)] + Partial(h)[Rest(s)]
    BY <1>2, PartialEquation
  <2>3. f[Any(s)] \in Int /\ g[Any(s)] \in Int /\ h[Any(s)] = f[Any(s)] + g[Any(s)]
    BY <2>1
  <2> QED
    BY <1>2, <2>2, <2>3
<1>3. D \in P
  <2> HIDE DEF P
  <2> QED
    BY <1>1, <1>2, SubsetInduction
<1> QED
  BY <1>3, SumIsPartial

LEMMA SumMinus ==
  ASSUME NEW D, IsFiniteSet(D),
         NEW f \in [D -> Int], NEW g \in [D -> Int], NEW h \in [D -> Int],
         \A d \in D : h[d] = f[d] - g[d]
  PROVE  SumFunction(h) = SumFunction(f) - SumFunction(g)
<1>1. \A d \in D : f[d] = h[d] + g[d]
  OBVIOUS
<1>2. SumFunction(f) = SumFunction(h) + SumFunction(g)
  BY <1>1, SumPlus
<1>3. SumFunction(f) \in Int /\ SumFunction(g) \in Int /\ SumFunction(h) \in Int
  BY SumType
<1> QED
  BY <1>2, <1>3

LEMMA SumZero ==
  ASSUME NEW D, IsFiniteSet(D), NEW f \in [D -> Int], \A d \in D : f[d] = 0
  PROVE  SumFunction(f) = 0
<1>1. SumFunction(f) = SumFunction(f) + SumFunction(f)
  BY SumPlus
<1>2. SumFunction(f) \in Int
  BY SumType
<1>3. PICK x \in Int : x = SumFunction(f)
  BY <1>2
<1>4. x = x + x
  BY <1>1, <1>3
<1>5. x = 0
  BY <1>4
<1> QED
  BY <1>3, <1>5

LEMMA SumSingle ==
  ASSUME NEW D, IsFiniteSet(D), NEW e \in D, NEW f \in [D -> Int],
         \A d \in D : d # e => f[d] = 0
  PROVE  SumFunction(f) = f[e]
<1> DEFINE P == {s \in SUBSET D : Partial(f)[s] = IF e \in s THEN f[e] ELSE 0}
<1>1. {} \in P
  BY PartialEquation
<1>2. ASSUME NEW s \in SUBSET D, s # {}, Rest(s) \in P PROVE s \in P
  <2>1. Any(s) \in D /\ Any(s) \notin Rest(s) /\ s = Rest(s) \cup {Any(s)}
    BY <1>2, RestSmaller
  <2>2. Partial(f)[s] = f[Any(s)] + Partial(f)[Rest(s)]
    BY <1>2, PartialEquation
  <2>3. Partial(f)[Rest(s)] = IF e \in Rest(s) THEN f[e] ELSE 0
    BY <1>2
  <2>4. f[e] \in Int
    OBVIOUS
  <2>5. CASE Any(s) = e
    <3>1. e \in s /\ e \notin Rest(s)
      BY <2>1, <2>5
    <3> QED
      BY <2>2, <2>3, <2>4, <2>5, <3>1
  <2>6. CASE Any(s) # e
    <3>1. (e \in s <=> e \in Rest(s)) /\ f[Any(s)] = 0
      BY <2>1, <2>6
    <3> QED
      BY <2>2, <2>3, <2>4, <3>1
  <2> QED
    BY <2>5, <2>6
<1>3. D \in P
  <2> HIDE DEF P
  <2> QED
    BY <1>1, <1>2, SubsetInduction
<1> QED
  BY <1>3, SumIsPartial

-----------------------------------------------------------------------------
(***************************************************************************)
(* With its history, LtHash is a multiset hash: every checksum is the sum, *)
(* modulo the radix of each element, of the hashes of the contents.        *)
(***************************************************************************)

Element(w, i, e) == ClearWord(Digest(e[1], e[2])[w])[i]

Terms(counts, w, i) == [e \in Pairs |-> counts[e] * Element(w, i, e)]

(* A history, and a checksum that is the hash of it. *)
History(m) ==
  /\ m.base \in Checksums /\ CleanChecksum(m.base)
  /\ m.counts \in [Pairs -> Int]

Matches(c, m) ==
  /\ c \in Checksums
  /\ History(m)
  /\ m.known =>
       /\ CleanChecksum(c)
       /\ \A w \in Words, i \in DataFields : c[w][i] = Expected(m, w, i)

(* The inductive invariant of LtHash with its history. *)
HInv ==
  /\ IInv
  /\ contents = [x \in Inst |-> contents[x]]
  /\ \A x \in Inst : KeyOf(key_[x]) \in Entries
  /\ \A x \in alive : Matches(checksum_[x], contents[x])

LEMMA EntriesAreKeys == Entries \subseteq Keys
  BY SetUncheckedOK, ClearedKeyOK, KeyOfOK DEF Entries

LEMMA EntryOfSupplied ==
  ASSUME NEW k \in SuppliedKeys, ValidKeySize(k)
  PROVE  KeyOf(SetUnchecked(k)) \in Entries
  BY DEF Entries

LEMMA PairsFinite == IsFiniteSet(Pairs)
<1> DEFINE Valid == {k \in SuppliedKeys : ValidKeySize(k)}
<1>1. Entries = Valid \cup {KeyOf(ClearedKey)}
  BY SetKeyRoundTrip DEF Entries
<1>2. IsFiniteSet(Valid)
  <2>1. Valid \in SUBSET SuppliedKeys
    OBVIOUS
  <2> HIDE DEF Valid
  <2> QED
    BY <2>1, FS_Subset, HistoryAssumption
<1>3. IsFiniteSet(Entries)
  <2> HIDE DEF Valid
  <2> QED
    BY <1>1, <1>2, FS_AddElement
<1> QED
  BY <1>3, FS_Product, HistoryAssumption DEF Pairs

LEMMA DigestOfPair ==
  ASSUME NEW e \in Pairs
  PROVE  Digest(e[1], e[2]) \in Checksums
<1>1. e[1] \in Keys /\ e[2] \in Objects
  BY EntriesAreKeys DEF Pairs
<1> QED
  BY <1>1, LtHashAssumption

LEMMA ElementType ==
  ASSUME NEW e \in Pairs, NEW w \in Words, NEW i \in DataFields
  PROVE  /\ Radix[i] \in Nat \ {0} /\ i \in Fields
         /\ Element(w, i, e) \in 0 .. Radix[i] - 1
<1>1. i \in Fields
  BY LayoutAssumption
<1>2. Digest(e[1], e[2])[w] \in Word
  BY DigestOfPair DEF Checksums
<1>3. ClearWord(Digest(e[1], e[2])[w]) \in Word
  BY <1>2, ClearWordClean
<1> QED
  BY <1>1, <1>3, WordDigit DEF Element

LEMMA TermsType ==
  ASSUME NEW counts \in [Pairs -> Int], NEW w \in Words, NEW i \in DataFields
  PROVE  /\ Terms(counts, w, i) \in [Pairs -> Int]
         /\ SumFunction(Terms(counts, w, i)) \in Int
<1>1. ASSUME NEW e \in Pairs PROVE counts[e] * Element(w, i, e) \in Int
  <2>1. counts[e] \in Int /\ Element(w, i, e) \in Int
    BY ElementType
  <2> QED
    BY <2>1
<1>2. Terms(counts, w, i) \in [Pairs -> Int]
  BY <1>1 DEF Terms
<1> QED
  BY <1>2, SumType, PairsFinite

LEMMA ExpectedSum ==
  ASSUME NEW m, NEW w, NEW i
  PROVE  Expected(m, w, i) = (m.base[w][i] + SumFunction(Terms(m.counts, w, i))) % Radix[i]
  BY DEF Expected, Terms, Element

LEMMA ChecksumDigit ==
  ASSUME NEW c \in Checksums, NEW w \in Words, NEW i \in DataFields
  PROVE  /\ Radix[i] \in Nat \ {0} /\ i \in Fields
         /\ c[w] \in Word /\ c[w][i] \in 0 .. Radix[i] - 1
<1>1. i \in Fields /\ c[w] \in Word
  BY LayoutAssumption DEF Checksums
<1> QED
  BY <1>1, WordDigit

-----------------------------------------------------------------------------
LEMMA NoCountsSum ==
  ASSUME NEW w \in Words, NEW i \in DataFields
  PROVE  SumFunction(Terms(NoCounts, w, i)) = 0
<1>1. NoCounts \in [Pairs -> Int]
  BY DEF NoCounts
<1>2. ASSUME NEW e \in Pairs PROVE Terms(NoCounts, w, i)[e] = 0
  <2>1. Element(w, i, e) \in Int
    BY ElementType
  <2> QED
    BY <2>1 DEF Terms, NoCounts
<1>3. Terms(NoCounts, w, i) \in [Pairs -> Int]
  BY <1>1, TermsType
<1> QED
  BY <1>2, <1>3, SumZero, PairsFinite

LEMMA UnknownHistory == History(Unknown) /\ ~Unknown.known
  BY DefaultOK DEF Unknown, History, NoCounts

(* A checksum that nothing was added to. *)
LEMMA FreshMatches ==
  ASSUME NEW c \in Checksums
  PROVE  Matches(c, Fresh(c))
<1>1. CASE ~CleanChecksum(c)
  BY <1>1, UnknownHistory DEF Fresh, Matches
<1>2. CASE CleanChecksum(c)
  <2> DEFINE m == Fresh(c)
  <2>1. m = [base |-> c, counts |-> NoCounts, known |-> TRUE]
    BY <1>2 DEF Fresh
  <2>2. m.base = c /\ m.counts = NoCounts /\ NoCounts \in [Pairs -> Int]
    BY <2>1 DEF NoCounts
  <2> HIDE DEF m
  <2>3. ASSUME NEW w \in Words, NEW i \in DataFields PROVE c[w][i] = Expected(m, w, i)
    <3>1. Radix[i] \in Nat \ {0} /\ c[w][i] \in 0 .. Radix[i] - 1
      BY ChecksumDigit
    <3>2. Expected(m, w, i) = (c[w][i] + 0) % Radix[i]
      BY <2>2, ExpectedSum, NoCountsSum
    <3>3. c[w][i] + 0 = c[w][i]
      BY <3>1
    <3> QED
      BY <3>1, <3>2, <3>3, ModSmall
  <2>4. Matches(c, m)
    BY <1>2, <2>2, <2>3 DEF Matches, History
  <2> QED
    BY <2>4 DEF m
<1> QED
  BY <1>1, <1>2

(* The engines add and subtract elements. *)
LEMMA SumDigits ==
  ASSUME NEW c \in Checksums, NEW d \in Checksums, CleanChecksum(c), CleanChecksum(d),
         NEW w \in Words, NEW i \in DataFields
  PROVE  /\ AddChecksum(c, d)[w][i] = (c[w][i] + d[w][i]) % Radix[i]
         /\ SubChecksum(c, d)[w][i] = (c[w][i] + Radix[i] - d[w][i]) % Radix[i]
<1>1. c[w] \in Word /\ d[w] \in Word /\ CleanWord(c[w]) /\ CleanWord(d[w]) /\ i \in Fields
  BY ChecksumDigit DEF CleanChecksum
<1>2. EngineAdd(c[w], d[w]) = LaneSum(c[w], d[w]) /\ EngineSub(c[w], d[w]) = LaneDiff(c[w], d[w])
  BY <1>1, EngineAddLanes, EngineSubLanes
<1> QED
  BY <1>1, <1>2 DEF AddChecksum, SubChecksum, LaneSum, LaneDiff

(* The sums of the bases of two histories. *)
LEMMA BaseSumOK ==
  ASSUME NEW c \in Checksums, NEW d \in Checksums, CleanChecksum(c), CleanChecksum(d)
  PROVE  /\ BaseSum(c, d) \in Checksums /\ CleanChecksum(BaseSum(c, d))
         /\ BaseDiff(c, d) \in Checksums /\ CleanChecksum(BaseDiff(c, d))
<1>1. ASSUME NEW w \in Words
      PROVE  /\ EngineAdd(c[w], d[w]) = LaneSum(c[w], d[w])
             /\ EngineSub(c[w], d[w]) = LaneDiff(c[w], d[w])
  <2>1. c[w] \in Word /\ d[w] \in Word /\ CleanWord(c[w]) /\ CleanWord(d[w])
    BY DEF CleanChecksum, Checksums
  <2> QED
    BY <2>1, EngineAddLanes, EngineSubLanes
<1>2. AddChecksum(c, d) = BaseSum(c, d) /\ SubChecksum(c, d) = BaseDiff(c, d)
  BY <1>1 DEF AddChecksum, SubChecksum, BaseSum, BaseDiff
<1> QED
  BY <1>2, ArithmeticOK

LEMMA UnionMatches ==
  ASSUME NEW c, NEW m, NEW d, NEW n, Matches(c, m), Matches(d, n)
  PROVE  Matches(AddChecksum(c, d), Union(m, n))
<1>1. AddChecksum(c, d) \in Checksums /\ CleanChecksum(AddChecksum(c, d))
  BY ArithmeticOK DEF Matches
<1>2. CASE ~(m.known /\ n.known)
  BY <1>1, <1>2, UnknownHistory DEF Union, Matches
<1>3. CASE m.known /\ n.known
  <2> DEFINE u == Union(m, n)
             counts == [e \in Pairs |-> m.counts[e] + n.counts[e]]
  <2>1. u.base = BaseSum(m.base, n.base) /\ u.counts = counts
    BY <1>3 DEF Union
  <2>2. /\ m.counts \in [Pairs -> Int] /\ n.counts \in [Pairs -> Int]
        /\ m.base \in Checksums /\ n.base \in Checksums
        /\ CleanChecksum(m.base) /\ CleanChecksum(n.base)
        /\ c \in Checksums /\ d \in Checksums /\ CleanChecksum(c) /\ CleanChecksum(d)
    BY <1>3 DEF Matches, History
  <2>3. counts \in [Pairs -> Int]
    BY <2>2
  <2>4. History(u)
    BY <2>1, <2>2, <2>3, BaseSumOK DEF History
  <2>5. ASSUME NEW w \in Words, NEW i \in DataFields
        PROVE  AddChecksum(c, d)[w][i] = Expected(u, w, i)
    <3>1. PICK r \in Nat \ {0} : r = Radix[i]
      BY <2>2, ChecksumDigit
    <3>2. PICK a \in Int : a = m.base[w][i]
      BY <2>2, ChecksumDigit
    <3>3. PICK b \in Int : b = n.base[w][i]
      BY <2>2, ChecksumDigit
    <3>4. PICK s \in Int : s = SumFunction(Terms(m.counts, w, i))
      BY <2>2, TermsType
    <3>5. PICK t \in Int : t = SumFunction(Terms(n.counts, w, i))
      BY <2>2, TermsType
    <3>6. SumFunction(Terms(counts, w, i)) = s + t
      <4>1. ASSUME NEW e \in Pairs
            PROVE  Terms(counts, w, i)[e] = Terms(m.counts, w, i)[e] + Terms(n.counts, w, i)[e]
        <5>1. PICK p \in Int : p = m.counts[e]
          BY <2>2
        <5>2. PICK q \in Int : q = n.counts[e]
          BY <2>2
        <5>3. PICK h \in Int : h = Element(w, i, e)
          BY ElementType
        <5>4. (p + q) * h = p * h + q * h
          OBVIOUS
        <5> QED
          BY <5>1, <5>2, <5>3, <5>4 DEF Terms
      <4>2. /\ Terms(counts, w, i) \in [Pairs -> Int] /\ Terms(m.counts, w, i) \in [Pairs -> Int]
            /\ Terms(n.counts, w, i) \in [Pairs -> Int]
        BY <2>2, <2>3, TermsType
      <4> HIDE DEF counts
      <4> QED
        BY <3>4, <3>5, <4>1, <4>2, SumPlus, PairsFinite
    <3>7. u.base[w][i] = (a + b) % r
      <4>1. i \in Fields
        BY LayoutAssumption
      <4> QED
        BY <2>1, <3>1, <3>2, <3>3, <4>1 DEF BaseSum, LaneSum
    <3>8. Expected(u, w, i) = (((a + b) % r) + (s + t)) % r
      BY <2>1, <3>1, <3>6, <3>7, ExpectedSum
    <3>9. c[w][i] = (a + s) % r /\ d[w][i] = (b + t) % r
      BY <1>3, <3>1, <3>2, <3>3, <3>4, <3>5, ExpectedSum DEF Matches
    <3>10. AddChecksum(c, d)[w][i] = (((a + s) % r) + ((b + t) % r)) % r
      BY <2>2, <3>1, <3>9, SumDigits
    <3>11. /\ (((a + s) % r) + ((b + t) % r)) % r = ((a + s) + (b + t)) % r
           /\ (((a + b) % r) + (s + t)) % r = ((a + b) + (s + t)) % r
      <4>1. a + s \in Int /\ b + t \in Int /\ a + b \in Int /\ s + t \in Int
        OBVIOUS
      <4> QED
        BY <4>1, ModSums, ModAbsorb
    <3>12. (a + s) + (b + t) = (a + b) + (s + t)
      OBVIOUS
    <3> QED
      BY <3>8, <3>10, <3>11, <3>12
  <2> HIDE DEF u
  <2>6. Matches(AddChecksum(c, d), u)
    BY <1>1, <2>4, <2>5 DEF Matches
  <2> QED
    BY <2>6 DEF u
<1> QED
  BY <1>2, <1>3

LEMMA MinusMatches ==
  ASSUME NEW c, NEW m, NEW d, NEW n, Matches(c, m), Matches(d, n)
  PROVE  Matches(SubChecksum(c, d), Minus(m, n))
<1>1. SubChecksum(c, d) \in Checksums /\ CleanChecksum(SubChecksum(c, d))
  BY ArithmeticOK DEF Matches
<1>2. CASE ~(m.known /\ n.known)
  BY <1>1, <1>2, UnknownHistory DEF Minus, Matches
<1>3. CASE m.known /\ n.known
  <2> DEFINE u == Minus(m, n)
             counts == [e \in Pairs |-> m.counts[e] - n.counts[e]]
  <2>1. u.base = BaseDiff(m.base, n.base) /\ u.counts = counts
    BY <1>3 DEF Minus
  <2>2. /\ m.counts \in [Pairs -> Int] /\ n.counts \in [Pairs -> Int]
        /\ m.base \in Checksums /\ n.base \in Checksums
        /\ CleanChecksum(m.base) /\ CleanChecksum(n.base)
        /\ c \in Checksums /\ d \in Checksums /\ CleanChecksum(c) /\ CleanChecksum(d)
    BY <1>3 DEF Matches, History
  <2>3. counts \in [Pairs -> Int]
    BY <2>2
  <2>4. History(u)
    BY <2>1, <2>2, <2>3, BaseSumOK DEF History
  <2>5. ASSUME NEW w \in Words, NEW i \in DataFields
        PROVE  SubChecksum(c, d)[w][i] = Expected(u, w, i)
    <3>1. PICK r \in Nat \ {0} : r = Radix[i]
      BY <2>2, ChecksumDigit
    <3>2. PICK a \in Int : a = m.base[w][i]
      BY <2>2, ChecksumDigit
    <3>3. PICK b \in Int : b = n.base[w][i]
      BY <2>2, ChecksumDigit
    <3>4. PICK s \in Int : s = SumFunction(Terms(m.counts, w, i))
      BY <2>2, TermsType
    <3>5. PICK t \in Int : t = SumFunction(Terms(n.counts, w, i))
      BY <2>2, TermsType
    <3>6. SumFunction(Terms(counts, w, i)) = s - t
      <4>1. ASSUME NEW e \in Pairs
            PROVE  Terms(counts, w, i)[e] = Terms(m.counts, w, i)[e] - Terms(n.counts, w, i)[e]
        <5>1. PICK p \in Int : p = m.counts[e]
          BY <2>2
        <5>2. PICK q \in Int : q = n.counts[e]
          BY <2>2
        <5>3. PICK h \in Int : h = Element(w, i, e)
          BY ElementType
        <5>4. (p - q) * h = p * h - q * h
          OBVIOUS
        <5> QED
          BY <5>1, <5>2, <5>3, <5>4 DEF Terms
      <4>2. /\ Terms(counts, w, i) \in [Pairs -> Int] /\ Terms(m.counts, w, i) \in [Pairs -> Int]
            /\ Terms(n.counts, w, i) \in [Pairs -> Int]
        BY <2>2, <2>3, TermsType
      <4> HIDE DEF counts
      <4> QED
        BY <3>4, <3>5, <4>1, <4>2, SumMinus, PairsFinite
    <3>7. u.base[w][i] = (a + r - b) % r
      <4>1. i \in Fields
        BY LayoutAssumption
      <4> QED
        BY <2>1, <3>1, <3>2, <3>3, <4>1 DEF BaseDiff, LaneDiff
    <3>8. Expected(u, w, i) = (((a + r - b) % r) + (s - t)) % r
      BY <2>1, <3>1, <3>6, <3>7, ExpectedSum
    <3>9. c[w][i] = (a + s) % r /\ d[w][i] = (b + t) % r
      BY <1>3, <3>1, <3>2, <3>3, <3>4, <3>5, ExpectedSum DEF Matches
    <3>10. SubChecksum(c, d)[w][i] = (((a + s) % r) + r - ((b + t) % r)) % r
      BY <2>2, <3>1, <3>9, SumDigits
    <3>11. /\ (((a + s) % r) + r - ((b + t) % r)) % r = ((a + s) - (b + t)) % r
           /\ (((a + r - b) % r) + (s - t)) % r = ((a + r - b) + (s - t)) % r
      <4>1. a + s \in Int /\ b + t \in Int /\ a + r - b \in Int /\ s - t \in Int
        OBVIOUS
      <4> QED
        BY <4>1, ModSums, ModAbsorb
    <3>12. ((a + r - b) + (s - t)) % r = ((a + s) - (b + t)) % r
      <4> DEFINE v == (a + s) - (b + t)
      <4>1. v \in Int /\ (a + r - b) + (s - t) = r * 1 + v
        OBVIOUS
      <4> HIDE DEF v
      <4>2. v \in Int /\ 1 \in Int
        BY <4>1
      <4>3. (r * 1 + v) % r = v % r
        BY <4>2, Congruent, Zenon
      <4> QED
        BY <4>1, <4>3 DEF v
    <3> QED
      BY <3>8, <3>10, <3>11, <3>12
  <2> HIDE DEF u
  <2>6. Matches(SubChecksum(c, d), u)
    BY <1>1, <2>4, <2>5 DEF Matches
  <2> QED
    BY <2>6 DEF u
<1> QED
  BY <1>2, <1>3

(* The hash of one object is that of the multiset with this object alone. *)
LEMMA SingleMatches ==
  ASSUME HInv, NEW x \in Inst, NEW o \in Objects
  PROVE  Matches(hash_object(x, o), Single(x, o))
<1> DEFINE k == KeyOf(key_[x])
           m == Single(x, o)
           single == [NoCounts EXCEPT ![<<k, o>>] = 1]
<1>1. <<k, o>> \in Pairs
  BY DEF HInv, Pairs
<1>2. hash_object(x, o) \in Checksums /\ CleanChecksum(hash_object(x, o))
  BY HashObjectOK DEF HInv
<1>3. m.base = default_checksum /\ m.counts = single
  BY DefaultOK DEF Single, Fresh
<1>4. /\ single \in [Pairs -> Int] /\ single[<<k, o>>] = 1
      /\ \A e \in Pairs : e # <<k, o>> => single[e] = 0
  BY <1>1 DEF NoCounts
<1> HIDE DEF k, single, m
<1>5. ASSUME NEW w \in Words, NEW i \in DataFields
      PROVE  hash_object(x, o)[w][i] = Expected(m, w, i)
  <2>1. SumFunction(Terms(single, w, i)) = Element(w, i, <<k, o>>)
    <3>1. Terms(single, w, i) \in [Pairs -> Int]
      BY <1>4, TermsType
    <3>2. ASSUME NEW e \in Pairs
          PROVE  Terms(single, w, i)[e] = IF e = <<k, o>> THEN Element(w, i, e) ELSE 0
      <4>1. Element(w, i, e) \in Int
        BY ElementType
      <4>2. Terms(single, w, i)[e] = single[e] * Element(w, i, e)
        BY DEF Terms
      <4>3. CASE e = <<k, o>>
        BY <1>4, <4>1, <4>2, <4>3
      <4>4. CASE e # <<k, o>>
        BY <1>4, <4>1, <4>2, <4>4
      <4> QED
        BY <4>3, <4>4
    <3> QED
      BY <1>1, <3>1, <3>2, SumSingle, PairsFinite
  <2>2. default_checksum[w][i] = 0
    BY LayoutAssumption DEF default_checksum, ZeroWord
  <2>3. Expected(m, w, i) = (0 + Element(w, i, <<k, o>>)) % Radix[i]
    BY <1>3, <2>1, <2>2, ExpectedSum
  <2>4. Radix[i] \in Nat \ {0} /\ Element(w, i, <<k, o>>) \in 0 .. Radix[i] - 1
    BY <1>1, ElementType
  <2>5. 0 + Element(w, i, <<k, o>>) = Element(w, i, <<k, o>>)
    BY <2>4
  <2>6. hash_object(x, o)[w][i] = Element(w, i, <<k, o>>)
    BY DEF hash_object, Element, k
  <2> QED
    BY <2>3, <2>4, <2>5, <2>6, ModSmall
<1>6. History(m)
  BY <1>3, <1>4, DefaultOK DEF History
<1>7. Matches(hash_object(x, o), m)
  BY <1>2, <1>5, <1>6 DEF Matches
<1> QED
  BY <1>7 DEF m

-----------------------------------------------------------------------------
LEMMA HInvInit == HInit => HInv
  BY IInvInit DEF HInit, HInv, Init, Entries

(* A step that stores a checksum with its history, and brings no other
   instance to life.                                                    *)
LEMMA HistoryStep ==
  ASSUME HInv, NEW x \in Inst, NEW c, NEW m, Matches(c, m),
         checksum_' = [checksum_ EXCEPT ![x] = c], Becomes(x, m),
         alive' \subseteq alive \cup {x}
  PROVE  /\ contents' = [z \in Inst |-> contents'[z]]
         /\ \A z \in alive' : Matches(checksum_'[z], contents'[z])
<1>1. contents' = [z \in Inst |-> IF z = x THEN m ELSE contents[z]]
  BY DEF Becomes, HInv
<1>2. \A z \in Inst : checksum_'[z] = IF z = x THEN c ELSE checksum_[z]
  BY DEF HInv, IInv, TypeOK
<1>3. alive \subseteq Inst
  BY DEF HInv, IInv, TypeOK
<1> QED
  BY <1>1, <1>2, <1>3 DEF HInv

LEMMA HistoryUnchanged ==
  ASSUME HInv, checksum_' = checksum_, alive' \subseteq alive,
         contents' = contents
  PROVE  /\ contents' = [z \in Inst |-> contents'[z]]
         /\ \A z \in alive' : Matches(checksum_'[z], contents'[z])
  BY DEF HInv

(* Keys come from callers, other instances, or are cleared. *)
LEMMA EntriesStep ==
  ASSUME HInv, NEW x \in Inst, NEW buffer, KeyOf(buffer) \in Entries,
         \/ key_' = [key_ EXCEPT ![x] = buffer]
         \/ \E y \in Inst : key_' = [key_ EXCEPT ![x] = buffer, ![y] = ClearedKey]
  PROVE  \A z \in Inst : KeyOf(key_'[z]) \in Entries
<1>1. KeyOf(ClearedKey) \in Entries
  BY DEF Entries
<1>2. \A z \in Inst : key_'[z] \in {key_[z], buffer, ClearedKey}
  BY DEF HInv, IInv, TypeOK
<1> QED
  BY <1>1, <1>2 DEF HInv

(* A step of LtHash with its history is one of LtHash. *)
LEMMA HNextIsNext == HNext => Next
  BY DEF HNext, Next

LEMMA HInvStep == HInv /\ [HNext]_hvars => HInv'
<1> SUFFICES ASSUME HInv, [HNext]_hvars PROVE HInv'
  OBVIOUS
<1>0. IInv'
  BY IInvStep, HNextIsNext DEF HInv, hvars
<1> DEFINE Keyed == \A z \in Inst : KeyOf(key_'[z]) \in Entries
           Hashed == /\ contents' = [z \in Inst |-> contents'[z]]
                     /\ \A z \in alive' : Matches(checksum_'[z], contents'[z])
<1>14. /\ KeyOf(ClearedKey) \in Entries /\ alive \subseteq Inst
       /\ \A z \in alive : Matches(checksum_[z], contents[z])
       /\ \A z \in Inst : KeyOf(key_[z]) \in Entries
       /\ Matches(default_checksum, Fresh(default_checksum))
  BY FreshMatches, DefaultOK DEF HInv, IInv, TypeOK, Entries
<1>1. ASSUME NEW x \in Inst, NEW c \in Initials, Construct(x, c), Becomes(x, Fresh(c))
      PROVE  Keyed /\ Hashed
  <2>1. Matches(c, Fresh(c))
    BY FreshMatches, LtHashAssumption
  <2> QED
    BY <1>1, <1>14, <2>1, EntriesStep, HistoryStep DEF Construct
<1>2. ASSUME NEW x \in Inst, NEW other \in Inst, Becomes(x, contents[other]),
             \/ CopyConstruct(x, other) \/ MoveConstruct(x, other)
             \/ CopyAssign(x, other) \/ MoveAssign(x, other)
      PROVE  Keyed /\ Hashed
  <2>1. /\ other \in alive
        /\ \/ key_' = [key_ EXCEPT ![x] = key_[other]]
           \/ key_' = [key_ EXCEPT ![x] = key_[other], ![other] = ClearedKey]
        /\ checksum_' = [checksum_ EXCEPT ![x] = checksum_[other]]
        /\ alive' \subseteq alive \cup {x}
    BY <1>2 DEF CopyConstruct, MoveConstruct, CopyAssign, MoveAssign
  <2>2. Keyed
    BY <1>14, <2>1, EntriesStep
  <2>3. Hashed
    BY <1>2, <1>14, <2>1, HistoryStep
  <2> QED
    BY <2>2, <2>3
<1>3. ASSUME NEW x \in Inst, Destroy(x), Becomes(x, Fresh(default_checksum))
      PROVE  Keyed /\ Hashed
  <2>1. Keyed
    BY <1>3, <1>14, EntriesStep DEF Destroy
  <2>2. contents' = [z \in Inst |-> IF z = x THEN Fresh(default_checksum) ELSE contents[z]]
    BY <1>3 DEF Becomes, HInv
  <2> QED
    BY <1>3, <1>14, <2>1, <2>2 DEF Destroy
<1>4. ASSUME NEW x \in Inst, NEW new \in SuppliedKeys, set_key(x, new), UNCHANGED contents
      PROVE  Keyed /\ Hashed
  <2>1. Hashed
    BY <1>4, HistoryUnchanged DEF set_key
  <2>2. CASE ValidKeySize(new)
    BY <1>4, <2>1, <2>2, EntryOfSupplied, EntriesStep DEF set_key
  <2>3. CASE ~ValidKeySize(new)
    BY <1>4, <1>14, <2>1, <2>3 DEF set_key
  <2> QED
    BY <2>2, <2>3
<1>5. ASSUME NEW x \in Inst, clear_key(x), UNCHANGED contents
      PROVE  Keyed /\ Hashed
  BY <1>5, <1>14, EntriesStep, HistoryUnchanged DEF clear_key
<1>6. ASSUME NEW x \in Inst, NEW new \in Givens, set_checksum(x, new), Becomes(x, Fresh(new))
      PROVE  Keyed /\ Hashed
  <2>1. Matches(new, Fresh(new))
    BY FreshMatches, LtHashAssumption
  <2> QED
    BY <1>6, <1>14, <2>1, HistoryStep DEF set_checksum
<1>7. ASSUME NEW x \in Inst, clear_checksum(x), Becomes(x, Fresh(default_checksum))
      PROVE  Keyed /\ Hashed
  BY <1>7, <1>14, HistoryStep DEF clear_checksum
<1>8. ASSUME NEW x \in Inst, NEW other \in Inst, combine_add(x, other),
             Becomes(x, IF outcome' = "ok" THEN Union(contents[x], contents[other])
                                           ELSE contents[x])
      PROVE  Keyed /\ Hashed
  <2>1. Keyed
    BY <1>8, <1>14 DEF combine_add
  <2>2. x \in alive /\ other \in alive /\ alive' = alive
    BY <1>8 DEF combine_add
  <2>3. CASE key_equal(x, other)
    <3>1. /\ checksum_' = [checksum_ EXCEPT ![x] = AddChecksum(checksum_[x], checksum_[other])]
          /\ Becomes(x, Union(contents[x], contents[other]))
      BY <1>8, <2>3 DEF combine_add
    <3>2. Matches(AddChecksum(checksum_[x], checksum_[other]), Union(contents[x], contents[other]))
      BY <1>14, <2>2, UnionMatches
    <3> QED
      BY <2>1, <2>2, <3>1, <3>2, HistoryStep
  <2>4. CASE ~key_equal(x, other)
    <3>1. Becomes(x, contents[x]) /\ checksum_' = checksum_
      BY <1>8, <2>4 DEF combine_add
    <3>2. contents' = contents
      BY <3>1 DEF Becomes, HInv
    <3> QED
      BY <2>1, <2>2, <3>1, <3>2, HistoryUnchanged
  <2> QED
    BY <2>3, <2>4
<1>9. ASSUME NEW x \in Inst, NEW other \in Inst, combine_remove(x, other),
             Becomes(x, IF outcome' = "ok" THEN Minus(contents[x], contents[other])
                                           ELSE contents[x])
      PROVE  Keyed /\ Hashed
  <2>1. Keyed
    BY <1>9, <1>14 DEF combine_remove
  <2>2. x \in alive /\ other \in alive /\ alive' = alive
    BY <1>9 DEF combine_remove
  <2>3. CASE key_equal(x, other)
    <3>1. /\ checksum_' = [checksum_ EXCEPT ![x] = SubChecksum(checksum_[x], checksum_[other])]
          /\ Becomes(x, Minus(contents[x], contents[other]))
      BY <1>9, <2>3 DEF combine_remove
    <3>2. Matches(SubChecksum(checksum_[x], checksum_[other]), Minus(contents[x], contents[other]))
      BY <1>14, <2>2, MinusMatches
    <3> QED
      BY <2>1, <2>2, <3>1, <3>2, HistoryStep
  <2>4. CASE ~key_equal(x, other)
    <3>1. Becomes(x, contents[x]) /\ checksum_' = checksum_
      BY <1>9, <2>4 DEF combine_remove
    <3>2. contents' = contents
      BY <3>1 DEF Becomes, HInv
    <3> QED
      BY <2>1, <2>2, <3>1, <3>2, HistoryUnchanged
  <2> QED
    BY <2>3, <2>4
<1>10. ASSUME NEW x \in Inst, NEW o \in Objects, add(x, o),
              Becomes(x, Union(contents[x], Single(x, o)))
       PROVE  Keyed /\ Hashed
  <2>1. /\ x \in alive /\ alive' = alive /\ key_' = key_
        /\ checksum_' = [checksum_ EXCEPT ![x] = AddChecksum(checksum_[x], hash_object(x, o))]
    BY <1>10 DEF add
  <2>2. Matches(AddChecksum(checksum_[x], hash_object(x, o)), Union(contents[x], Single(x, o)))
    BY <1>14, <2>1, SingleMatches, UnionMatches
  <2> QED
    BY <1>10, <1>14, <2>1, <2>2, HistoryStep
<1>11. ASSUME NEW x \in Inst, NEW o \in Objects, remove(x, o),
              Becomes(x, Minus(contents[x], Single(x, o)))
       PROVE  Keyed /\ Hashed
  <2>1. /\ x \in alive /\ alive' = alive /\ key_' = key_
        /\ checksum_' = [checksum_ EXCEPT ![x] = SubChecksum(checksum_[x], hash_object(x, o))]
    BY <1>11 DEF remove
  <2>2. Matches(SubChecksum(checksum_[x], hash_object(x, o)), Minus(contents[x], Single(x, o)))
    BY <1>14, <2>1, SingleMatches, MinusMatches
  <2> QED
    BY <1>11, <1>14, <2>1, <2>2, HistoryStep
<1>12. ASSUME UNCHANGED hvars PROVE Keyed /\ Hashed
  <2>1. /\ alive' = alive /\ key_' = key_ /\ checksum_' = checksum_
        /\ contents' = contents
    BY <1>12 DEF hvars, vars
  <2>2. ASSUME NEW z \in Inst PROVE KeyOf(key_'[z]) \in Entries
    <3>1. KeyOf(key_[z]) \in Entries
      BY <1>14
    <3>2. key_'[z] = key_[z]
      BY <2>1
    <3> QED
      BY <3>1, <3>2
  <2>3. Hashed
    BY <2>1, HistoryUnchanged
  <2> QED
    BY <2>2, <2>3
<1>13. Keyed /\ Hashed
  <2> HIDE DEF Keyed, Hashed
  <2> QED
    BY <1>1, <1>2, <1>3, <1>4, <1>5, <1>6, <1>7, <1>8, <1>9, <1>10, <1>11, <1>12 DEF HNext
<1> QED
  BY <1>0, <1>13 DEF HInv

(* The promise of the library: whatever sequence of additions, removals,
   combinations, copies and moves led to it, a checksum is the sum of the
   hashes of the objects contained, each as often as it is contained, for any
   widths of elements, lengths of checksums, digests, keys and objects.      *)
THEOREM ChecksumsAreMultisetHashes == HSpec => []ChecksumIsMultisetHash
<1>1. HInv => ChecksumIsMultisetHash
  BY DEF HInv, Matches, ChecksumIsMultisetHash
<1> QED
  BY <1>1, HInvInit, HInvStep, PTL DEF HSpec

(* A call that throws leaves keys and valid checksums alone, whatever it was
   about to do and whatever checksums callers give.                       *)
THEOREM ThrowingLeavesNothingValid == Spec => ThrowingCallsLeaveNothingValid
<1> DEFINE Kept ==
      /\ UNCHANGED <<alive, key_>>
      /\ \A x \in Inst :
           checksum_'[x] # checksum_[x] => x \in alive /\ ~CleanChecksum(checksum_'[x])
<1>1. TypeOK /\ [Next]_vars => [outcome' = "invalid_argument" => Kept]_vars
  <2> SUFFICES ASSUME TypeOK, Next, outcome' = "invalid_argument" PROVE Kept
    BY DEF vars
  <2>1. PICK x \in Inst :
          \/ \E new \in SuppliedKeys : set_key(x, new)
          \/ \E new \in Givens : set_checksum(x, new)
          \/ \E other \in Inst : combine_add(x, other) \/ combine_remove(x, other)
    BY DEF Next, Construct, CopyConstruct, MoveConstruct, CopyAssign, MoveAssign, Destroy,
           clear_key, clear_checksum, add, remove
  <2>2. ASSUME NEW new \in Givens, set_checksum(x, new) PROVE Kept
    <3>1. /\ x \in alive /\ UNCHANGED <<alive, key_>>
          /\ checksum_' = [checksum_ EXCEPT ![x] = new] /\ ~CleanChecksum(new)
      BY <2>2 DEF set_checksum
    <3>2. checksum_'[x] = new /\ \A y \in Inst \ {x} : checksum_'[y] = checksum_[y]
      BY <3>1 DEF TypeOK
    <3> QED
      BY <3>1, <3>2
  <2> QED
    BY <2>1, <2>2 DEF set_key, combine_add, combine_remove
<1> QED
  BY <1>1, TypeCorrect, PTL DEF Spec, ThrowingCallsLeaveNothingValid

=============================================================================
