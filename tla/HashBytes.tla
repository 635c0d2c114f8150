------------------------------ MODULE HashBytes ------------------------------
(***************************************************************************)
(* What the byte hashers behind Policy::hash_bytes read: wyhash, Martinus  *)
(* and, for inputs of midsize length or less, XXH3 with 64 and 128 bits.   *)
(* Each cuts the input into overlapping blocks by its length; the mixing   *)
(* of what was read is left out.  XXH3 reads its secret as well.           *)
(***************************************************************************)
EXTENDS Naturals

CONSTANT Lengths   \* lengths of the inputs

secret_size_min == 136
midsize_startoffset == 3
midsize_lastoffset == 17
midsize_max == 240

ASSUME LengthsAssumption == Lengths \subseteq Nat

VARIABLES
  fn,       \* the function called
  len,      \* length of the input
  p,        \* offset of the next block
  i,        \* bytes left (wyhash), blocks read (the others)
  pc,       \* "start", a loop, or "done"
  read,     \* history: offsets of the input that were read
  secret    \* history: offsets of the secret that were read

vars == <<fn, len, p, i, pc, read, secret>>

Functions == {"wyhash", "martinus", "xxh3_64", "xxh3_128"}

XXH3 == {"xxh3_64", "xxh3_128"}

(* A load of n bytes. *)
Load(from, n) == from .. from + n - 1

Init ==
  /\ fn \in Functions
  /\ len \in Lengths
  /\ fn \in XXH3 => len <= midsize_max
  /\ p = 0
  /\ i = IF fn = "wyhash" THEN len ELSE 0
  /\ pc = "start"
  /\ read = {}
  /\ secret = {}

Reads(offsets) == read' = read \cup offsets

ReadsSecret(offsets) == secret' = secret \cup offsets

-----------------------------------------------------------------------------
(* wyhash.                                                                 *)

(* _wyr3: the first, the middle and the last byte. *)
wyr3 == {0, len \div 2, len - 1}

wyhash_short ==
  /\ pc = "start" /\ fn = "wyhash" /\ len <= 16
  /\ LET half == (len \div 8) * 4
     IN  Reads(IF len >= 4 THEN Load(0, 4) \cup Load(half, 4)
                                  \cup Load(len - 4, 4) \cup Load(len - 4 - half, 4)
               ELSE IF len > 0 THEN wyr3 ELSE {})
  /\ pc' = "done"
  /\ UNCHANGED <<fn, len, p, i, secret>>

wyhash_long ==
  /\ pc = "start" /\ fn = "wyhash" /\ len > 16
  /\ pc' = IF i > 48 THEN "loop48" ELSE "loop16"
  /\ UNCHANGED <<fn, len, p, i, read, secret>>

(* A loop over blocks of n bytes goes on. *)
Again(n) == i > n

(* One round of the loop do ... while (i > 48). *)
wyhash_48 ==
  /\ pc = "loop48"
  /\ Reads(Load(p, 48))
  /\ p' = p + 48
  /\ i' = i - 48
  /\ pc' = IF i' > 48 THEN "loop48" ELSE "loop16"
  /\ UNCHANGED <<fn, len, secret>>

wyhash_16 ==
  /\ pc = "loop16" /\ Again(16)
  /\ Reads(Load(p, 16))
  /\ p' = p + 16
  /\ i' = i - 16
  /\ UNCHANGED <<fn, len, pc, secret>>

(* The last 16 bytes, some of which may have been read before. *)
wyhash_last ==
  /\ pc = "loop16" /\ ~Again(16)
  /\ Reads(Load(p + i - 16, 16))
  /\ pc' = "done"
  /\ UNCHANGED <<fn, len, p, i, secret>>

-----------------------------------------------------------------------------
(* Martinus: blocks of 8 bytes and a switch that falls through.            *)

martinus_block ==
  /\ pc = "start" /\ fn = "martinus" /\ i < len \div 8
  /\ Reads(Load(8 * i, 8))
  /\ i' = i + 1
  /\ UNCHANGED <<fn, len, p, pc, secret>>

(* The cases of the switch from len & 7 down to 1. *)
martinus_tail ==
  /\ pc = "start" /\ fn = "martinus" /\ i = len \div 8
  /\ Reads({8 * (len \div 8) + (k - 1) : k \in 1 .. len % 8})
  /\ pc' = "done"
  /\ UNCHANGED <<fn, len, p, i, secret>>

-----------------------------------------------------------------------------
(* XXH3 up to midsize_max bytes.                                           *)

(* len_0to16: the offsets of the input and of the secret by length. *)
len_0to16 ==
  /\ pc = "start" /\ fn \in XXH3 /\ len <= 16
  /\ \/ /\ len > 8
        /\ Reads(Load(0, 8) \cup Load(len - 8, 8))
        /\ ReadsSecret(IF fn = "xxh3_64" THEN Load(24, 32) ELSE Load(32, 32))
     \/ /\ len \in 4 .. 8
        /\ Reads(Load(0, 4) \cup Load(len - 4, 4))
        /\ ReadsSecret(IF fn = "xxh3_64" THEN Load(8, 16) ELSE Load(16, 16))
     \/ /\ len \in 1 .. 3
        /\ Reads({0, len \div 2, len - 1})
        /\ ReadsSecret(IF fn = "xxh3_64" THEN Load(0, 8) ELSE Load(0, 16))
     \/ /\ len = 0
        /\ Reads({})
        /\ ReadsSecret(IF fn = "xxh3_64" THEN Load(56, 16) ELSE Load(64, 32))
  /\ pc' = "done"
  /\ UNCHANGED <<fn, len, p, i>>

(* Faulty: the innermost pair is left out at the boundary. *)
PairsShort == IF len > 97 THEN 4 ELSE IF len > 64 THEN 3 ELSE IF len > 33 THEN 2 ELSE 1

(* len_17to128 reads pairs of 16 bytes from both ends towards the middle. *)
Pairs == IF len > 96 THEN 4 ELSE IF len > 64 THEN 3 ELSE IF len > 32 THEN 2 ELSE 1

len_17to128 ==
  /\ pc = "start" /\ fn \in XXH3 /\ len \in 17 .. 128
  /\ Reads(UNION {Load(16 * k, 16) \cup Load(len - 16 * (k + 1), 16) : k \in 0 .. Pairs - 1})
  /\ ReadsSecret(Load(0, 32 * Pairs))
  /\ pc' = "done"
  /\ UNCHANGED <<fn, len, p, i>>

(* Bytes mixed in a round of len_129to240: mix_16b or mix_32b. *)
Mixed == IF fn = "xxh3_64" THEN 16 ELSE 32

(* Rounds with the start of the secret. *)
FirstRounds == 128 \div Mixed

(* Faulty: the secret goes on where the first rounds left it. *)
SecretOfRoundOn == Mixed * i + midsize_startoffset

SecretOfRound ==
  IF i < FirstRounds THEN Mixed * i ELSE Mixed * (i - FirstRounds) + midsize_startoffset

len_129to240_round ==
  /\ pc = "start" /\ fn \in XXH3 /\ len \in 129 .. midsize_max /\ i < len \div Mixed
  /\ Reads(Load(p, Mixed))
  /\ ReadsSecret(Load(SecretOfRound, Mixed))
  /\ p' = p + Mixed
  /\ i' = i + 1
  /\ UNCHANGED <<fn, len, pc>>

len_129to240_last ==
  /\ pc = "start" /\ fn \in XXH3 /\ len \in 129 .. midsize_max /\ i = len \div Mixed
  /\ Reads(Load(len - Mixed, Mixed))
  /\ ReadsSecret(Load(secret_size_min - midsize_lastoffset - (Mixed - 16), Mixed))
  /\ pc' = "done"
  /\ UNCHANGED <<fn, len, p, i>>

-----------------------------------------------------------------------------
Next ==
  \/ wyhash_short \/ wyhash_long \/ wyhash_48 \/ wyhash_16 \/ wyhash_last
  \/ martinus_block \/ martinus_tail
  \/ len_0to16 \/ len_17to128 \/ len_129to240_round \/ len_129to240_last

Spec == Init /\ [][Next]_vars

-----------------------------------------------------------------------------
(* Properties.                                                             *)

(* hash_bytes reads no byte beyond the input, whatever its length, and no
   byte of a secret beyond the smallest legal one.                        *)
ReadsWithinBounds == read \subseteq 0 .. len - 1 /\ secret \subseteq 0 .. secret_size_min - 1

(* The hash depends on every byte: when hash_bytes returns, the blocks that
   its length selected have covered the input without a gap.              *)
EveryByteRead == pc = "done" => 0 .. len - 1 \subseteq read

=============================================================================
