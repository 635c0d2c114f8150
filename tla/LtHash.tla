------------------------------- MODULE LtHash -------------------------------
(***************************************************************************)
(* Instances of LtHash, the homomorphic multiset hash, and every operation *)
(* that changes one: construction, copy, move, assignment, destruction,    *)
(* keys, checksums, objects and the combination of two instances.          *)
(*                                                                         *)
(* An instance is its storage: a key buffer with its length, and the words *)
(* of the checksum.  Instances with different math engines convert into    *)
(* each other by copying both, so they are not told apart.  The digest of  *)
(* an object under a key is an arbitrary function: Blake3 or Blake2Xb.     *)
(***************************************************************************)
EXTENDS LaneWord, Sequences

CONSTANTS
  Inst,           \* storage for instances
  NumWords,       \* words in a checksum
  Objects,        \* objects a caller adds and removes
  KeyBytes,       \* values of a byte of key material
  MinKey, MaxKey, \* Hash::min_key_extent, Hash::max_key_extent
  SuppliedKeys,   \* keys callers pass to set_key
  Initials,       \* checksums callers pass to the constructor
  Givens,         \* checksums callers pass to set_checksum
  Digest(_, _)    \* HashT::hash_single: key and object to a checksum buffer

Words == 0 .. NumWords - 1

Checksums == [Words -> Word]

(* detail::Key<N, N> has no length and always passes N bytes. *)
FixedKey == MinKey = MaxKey

(* The keys the digest function accepts; Blake2Xb hashes without a key when it is empty. *)
KeySizes == IF FixedKey THEN {MaxKey} ELSE {0} \cup MinKey .. MaxKey

Keys == UNION {[1 .. n -> KeyBytes] : n \in KeySizes}

ASSUME LtHashAssumption ==
  /\ NumWords \in Nat \ {0}
  /\ 0 \in KeyBytes
  /\ MinKey \in Nat \ {0} /\ MaxKey \in Nat /\ MinKey <= MaxKey
  /\ SuppliedKeys \subseteq Seq(KeyBytes)
  /\ FixedKey => \A k \in SuppliedKeys : Len(k) = MaxKey
  /\ Initials \subseteq Checksums
  /\ Givens \subseteq Checksums
  /\ \A k \in Keys, o \in Objects : Digest(k, o) \in Checksums

default_checksum == [w \in Words |-> ZeroWord]

VARIABLES
  alive,      \* the instances constructed and not destroyed
  key_,       \* key_[x]: the bytes of the key buffer and the length in use
  checksum_,  \* checksum_[x]
  outcome     \* of the last call: "ok" or the exception it threw

vars == <<alive, key_, checksum_, outcome>>

-----------------------------------------------------------------------------
(* Keys.                                                                   *)

KeyBuffers == [bytes : [1 .. MaxKey -> KeyBytes], len : 0 .. MaxKey]

ClearedKey == [bytes |-> [i \in 1 .. MaxKey |-> 0],
               len   |-> IF FixedKey THEN MaxKey ELSE 0]

(* Key::get: the part of the buffer in use. *)
KeyOf(buffer) == [i \in 1 .. buffer.len |-> buffer.bytes[i]]

(* Key::set_unchecked: clear, then copy over the start of the buffer. *)
SetUnchecked(new) ==
  [bytes |-> [i \in 1 .. MaxKey |-> IF i <= Len(new) THEN new[i] ELSE ClearedKey.bytes[i]],
   len   |-> Len(new)]

(* Faulty: a missing upper or lower bound. *)
ValidKeySizeUnbounded(new) == Len(new) >= MinKey
ValidKeySizeAnyShort(new) == Len(new) <= MaxKey

ValidKeySize(new) == Len(new) >= MinKey /\ Len(new) <= MaxKey

key_equal(x, y) == KeyOf(key_[x]) = KeyOf(key_[y])

-----------------------------------------------------------------------------
(* Checksums.                                                              *)

CleanChecksum(c) == \A w \in Words : CleanWord(c[w])

(* MathEngine::add and sub on whole buffers (module MathEngine). *)
AddChecksum(c, d) == [w \in Words |-> EngineAdd(c[w], d[w])]
SubChecksum(c, d) == [w \in Words |-> EngineSub(c[w], d[w])]

(* Faulty: the digest as it is. *)
hash_object_unmasked(x, o) == [w \in Words |-> Digest(KeyOf(key_[x]), o)[w]]

(* The hash of an object under the key of x, its padding cleared. *)
hash_object(x, o) == [w \in Words |-> ClearWord(Digest(KeyOf(key_[x]), o)[w])]

-----------------------------------------------------------------------------
Init ==
  /\ alive = {}
  /\ key_ = [x \in Inst |-> ClearedKey]
  /\ checksum_ = [x \in Inst |-> default_checksum]
  /\ outcome = "ok"

Construct(x, c) ==
  /\ x \notin alive
  /\ alive' = alive \cup {x}
  /\ key_' = [key_ EXCEPT ![x] = ClearedKey]
  /\ checksum_' = [checksum_ EXCEPT ![x] = c]
  /\ outcome' = "ok"

CopyConstruct(x, other) ==
  /\ x \notin alive /\ other \in alive
  /\ alive' = alive \cup {x}
  /\ key_' = [key_ EXCEPT ![x] = key_[other]]
  /\ checksum_' = [checksum_ EXCEPT ![x] = checksum_[other]]
  /\ outcome' = "ok"

MoveConstruct(x, other) ==
  /\ x \notin alive /\ other \in alive
  /\ alive' = alive \cup {x}
  /\ key_' = [key_ EXCEPT ![x] = key_[other], ![other] = ClearedKey]
  /\ checksum_' = [checksum_ EXCEPT ![x] = checksum_[other]]
  /\ outcome' = "ok"

(* Assignment to oneself returns at once. *)
CopyAssign(x, other) ==
  /\ x \in alive /\ other \in alive
  /\ key_' = [key_ EXCEPT ![x] = key_[other]]
  /\ checksum_' = [checksum_ EXCEPT ![x] = checksum_[other]]
  /\ outcome' = "ok"
  /\ UNCHANGED alive

(* Moving an instance into itself is excluded by an assertion. *)
MoveAssign(x, other) ==
  /\ x \in alive /\ other \in alive /\ x # other
  /\ key_' = [key_ EXCEPT ![x] = key_[other], ![other] = ClearedKey]
  /\ checksum_' = [checksum_ EXCEPT ![x] = checksum_[other]]
  /\ outcome' = "ok"
  /\ UNCHANGED alive

(* Faulty: the storage keeps the key. *)
DestroyKeepingKey(x) ==
  /\ x \in alive
  /\ alive' = alive \ {x}
  /\ outcome' = "ok"
  /\ UNCHANGED <<key_, checksum_>>

Destroy(x) ==
  /\ x \in alive
  /\ alive' = alive \ {x}
  /\ key_' = [key_ EXCEPT ![x] = ClearedKey]
  /\ outcome' = "ok"
  /\ UNCHANGED checksum_

(* Faulty: the key is copied before its length is looked at. *)
set_key_checked_late(x, new) ==
  /\ x \in alive
  /\ key_' = [key_ EXCEPT ![x] = SetUnchecked(new)]
  /\ outcome' = IF ValidKeySize(new) THEN "ok" ELSE "invalid_argument"
  /\ UNCHANGED <<alive, checksum_>>

set_key(x, new) ==
  /\ x \in alive
  /\ IF ValidKeySize(new)
       THEN key_' = [key_ EXCEPT ![x] = SetUnchecked(new)] /\ outcome' = "ok"
       ELSE outcome' = "invalid_argument" /\ UNCHANGED key_
  /\ UNCHANGED <<alive, checksum_>>

clear_key(x) ==
  /\ x \in alive
  /\ key_' = [key_ EXCEPT ![x] = ClearedKey]
  /\ outcome' = "ok"
  /\ UNCHANGED <<alive, checksum_>>

(* The checksum is copied first; its padding is looked at afterwards. *)
set_checksum(x, new) ==
  /\ x \in alive
  /\ checksum_' = [checksum_ EXCEPT ![x] = new]
  /\ outcome' = IF needs_padding /\ ~CleanChecksum(new) THEN "invalid_argument" ELSE "ok"
  /\ UNCHANGED <<alive, key_>>

clear_checksum(x) ==
  /\ x \in alive
  /\ checksum_' = [checksum_ EXCEPT ![x] = default_checksum]
  /\ outcome' = "ok"
  /\ UNCHANGED <<alive, key_>>

(* Faulty: the keys are compared after the addition. *)
combine_add_checked_late(x, other) ==
  /\ x \in alive /\ other \in alive
  /\ checksum_' = [checksum_ EXCEPT ![x] = AddChecksum(checksum_[x], checksum_[other])]
  /\ outcome' = IF key_equal(x, other) THEN "ok" ELSE "invalid_argument"
  /\ UNCHANGED <<alive, key_>>

combine_add(x, other) ==
  /\ x \in alive /\ other \in alive
  /\ IF key_equal(x, other)
       THEN /\ checksum_' = [checksum_ EXCEPT ![x] = AddChecksum(checksum_[x], checksum_[other])]
            /\ outcome' = "ok"
       ELSE outcome' = "invalid_argument" /\ UNCHANGED checksum_
  /\ UNCHANGED <<alive, key_>>

combine_remove(x, other) ==
  /\ x \in alive /\ other \in alive
  /\ IF key_equal(x, other)
       THEN /\ checksum_' = [checksum_ EXCEPT ![x] = SubChecksum(checksum_[x], checksum_[other])]
            /\ outcome' = "ok"
       ELSE outcome' = "invalid_argument" /\ UNCHANGED checksum_
  /\ UNCHANGED <<alive, key_>>

add(x, o) ==
  /\ x \in alive
  /\ checksum_' = [checksum_ EXCEPT ![x] = AddChecksum(checksum_[x], hash_object(x, o))]
  /\ outcome' = "ok"
  /\ UNCHANGED <<alive, key_>>

remove(x, o) ==
  /\ x \in alive
  /\ checksum_' = [checksum_ EXCEPT ![x] = SubChecksum(checksum_[x], hash_object(x, o))]
  /\ outcome' = "ok"
  /\ UNCHANGED <<alive, key_>>

Next ==
  \E x \in Inst :
    \/ \E c \in Initials : Construct(x, c)
    \/ \E other \in Inst : \/ CopyConstruct(x, other)
                           \/ MoveConstruct(x, other)
                           \/ CopyAssign(x, other)
                           \/ MoveAssign(x, other)
                           \/ combine_add(x, other)
                           \/ combine_remove(x, other)
    \/ Destroy(x)
    \/ \E new \in SuppliedKeys : set_key(x, new)
    \/ clear_key(x)
    \/ \E new \in Givens : set_checksum(x, new)
    \/ clear_checksum(x)
    \/ \E o \in Objects : add(x, o) \/ remove(x, o)

Spec == Init /\ [][Next]_vars

-----------------------------------------------------------------------------
(* Properties.                                                             *)

(* Type correctness: the key buffer and the checksum of every instance. *)
TypeOK ==
  /\ alive \subseteq Inst
  /\ key_ \in [Inst -> KeyBuffers]
  /\ checksum_ \in [Inst -> Checksums]
  /\ outcome \in {"ok", "invalid_argument"}

(* add and remove are noexcept although the constructor of the digest
   function throws for a key of the wrong size: whatever sequence of set_key,
   copies and moves went before, the key in use is absent or of a legal size,
   so the exception that would terminate the program is never raised.     *)
NoexceptIsSound == \A x \in Inst : KeyOf(key_[x]) \in Keys

(* Key material does not outlive its use (sodium_memzero in Key::clear): no
   byte of an earlier, longer key is left behind a shorter one in the buffer,
   and storage whose instance was destroyed holds no key byte.            *)
KeysErased ==
  \A x \in Inst : \A i \in 1 .. MaxKey :
    (x \notin alive \/ i > key_[x].len) => key_[x].bytes[i] = 0

(* A checksum of a live instance is one that the library calls valid: its
   padding bits are zero (check_padding_bits).                            *)
LiveChecksumsValid == \A x \in alive : CleanChecksum(checksum_[x])

(* After std::invalid_argument no key has changed and no checksum has become
   another valid one: set_key with a bad size, combine_add and combine_remove
   with different keys, in whatever state, do nothing, and what set_checksum
   leaves behind can still be told from a checksum by its padding.          *)
ThrowingCallsLeaveNothingValid ==
  [][outcome' = "invalid_argument" =>
       /\ UNCHANGED <<alive, key_>>
       /\ \A x \in Inst :
            checksum_'[x] # checksum_[x] => x \in alive /\ ~CleanChecksum(checksum_'[x])]_vars

-----------------------------------------------------------------------------
(* The group that LtHash implements: vectors of elements, one lane each.   *)

GroupPlus(c, d)  == [w \in Words |-> LaneSum(c[w], d[w])]
GroupMinus(c, d) == [w \in Words |-> LaneDiff(c[w], d[w])]
GroupHash(k, o)  == [w \in Words |-> ClearWord(Digest(k, o)[w])]

InvalidSum == [w \in {} |-> ZeroWord]

SumOf(c) == IF CleanChecksum(c) THEN c ELSE InvalidSum

KeyMap == [x \in Inst |-> KeyOf(key_[x])]

SumMap == [x \in Inst |-> SumOf(checksum_[x])]

Group == INSTANCE HomomorphicHash WITH
  Keys     <- Keys,
  NoKey    <- KeyOf(ClearedKey),
  Sums     <- [Words -> {w \in Word : CleanWord(w)}],
  Zero     <- default_checksum,
  Invalid  <- InvalidSum,
  Plus     <- GroupPlus,
  Minus    <- GroupMinus,
  Hash     <- GroupHash,
  Initials <- {SumOf(c) : c \in Initials},
  Givens   <- {SumOf(c) : c \in Givens},
  NewKeys  <- {k \in SuppliedKeys : ValidKeySize(k)},
  key      <- KeyMap,
  sum      <- SumMap

(* Whatever sequence of calls, exceptions included, an instance behaves as a
   key and an element of the group of vectors modulo 2^element_bits; dirty
   padding is the only thing that makes a sum wrong.                       *)
ImplementsHomomorphicHash == Group!Spec

=============================================================================
