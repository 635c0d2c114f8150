--------------------------- MODULE HashBytesProofs ---------------------------
(***************************************************************************)
(* For inputs of every length the byte hashers read all of their input and *)
(* nothing else.  The inductive invariant says how far a loop has come:    *)
(* what was read is a prefix of the input, and what is left is known.      *)
(***************************************************************************)
EXTENDS HashBytes, TLAPS

Types ==
  /\ fn \in Functions
  /\ len \in Nat /\ p \in Nat /\ i \in Nat
  /\ fn \in XXH3 => len <= midsize_max
  /\ pc \in {"start", "loop48", "loop16", "done"}

(* wyhash: i bytes are left after the p that were read. *)
WyhashLoop ==
  fn = "wyhash" =>
    /\ pc = "start" => p = 0 /\ i = len /\ read = {}
    /\ pc \in {"loop48", "loop16"} =>
         len > 16 /\ p + i = len /\ i > 0 /\ read = 0 .. p - 1
    /\ pc = "loop48" => i > 48

MartinusLoop ==
  fn = "martinus" /\ pc # "done" =>
    pc = "start" /\ i <= len \div 8 /\ read = 0 .. 8 * i - 1

Xxh3Loop ==
  fn \in XXH3 /\ pc # "done" =>
    /\ pc = "start"
    /\ i > 0 => len >= 129
    /\ i <= len \div Mixed
    /\ p = Mixed * i
    /\ read = 0 .. p - 1

Inv ==
  /\ Types
  /\ WyhashLoop /\ MartinusLoop /\ Xxh3Loop
  /\ ReadsWithinBounds
  /\ EveryByteRead

-----------------------------------------------------------------------------
LEMMA InvInit == Init => Inv
<1> SUFFICES ASSUME Init PROVE Inv
  OBVIOUS
<1> USE DEF Init
<1>1. Types
  BY LengthsAssumption DEF Types, Functions, XXH3
<1>2. (read = {} /\ secret = {} /\ 0 .. p - 1 = {} /\ 0 .. 8 * i - 1 = {}) \/ fn = "wyhash"
  BY <1>1 DEF Types
<1>3. WyhashLoop
  BY DEF WyhashLoop
<1>4. MartinusLoop
  BY <1>1 DEF MartinusLoop, Types
<1>5. Xxh3Loop
  BY <1>1 DEF Xxh3Loop, Types, Mixed, XXH3
<1>6. ReadsWithinBounds /\ EveryByteRead
  BY DEF ReadsWithinBounds, EveryByteRead
<1> QED
  BY <1>1, <1>3, <1>4, <1>5, <1>6 DEF Inv

-----------------------------------------------------------------------------
(* The forms of wyhash.                                                    *)

LEMMA StepWyhash ==
  ASSUME Inv, wyhash_short \/ wyhash_long \/ wyhash_48 \/ wyhash_16 \/ wyhash_last
  PROVE  Inv'
<1> USE DEF Inv, Types, Functions, XXH3
<1>0. fn = "wyhash"
  BY DEF wyhash_short, wyhash_long, wyhash_48, wyhash_16, wyhash_last,
         MartinusLoop, Xxh3Loop
<1>a. fn' = "wyhash" /\ len' = len /\ secret' = secret
  BY <1>0 DEF wyhash_short, wyhash_long, wyhash_48, wyhash_16, wyhash_last
<1>b. MartinusLoop' /\ Xxh3Loop'
  BY <1>a DEF MartinusLoop, Xxh3Loop
<1>1. CASE wyhash_short
  <2>1. pc' = "done" /\ p' = p /\ i' = i /\ read = {}
    BY <1>1, <1>0 DEF wyhash_short, WyhashLoop
  <2>2. read' = 0 .. len - 1
    <3>1. CASE len >= 4
      <4>1. len \div 8 \in 0 .. 2 /\ (len >= 8 => len \div 8 >= 1) /\ (len >= 16 => len \div 8 = 2)
            /\ (len < 16 => len \div 8 <= 1) /\ (len < 8 => len \div 8 = 0)
        BY <1>1 DEF wyhash_short
      <4> DEFINE half == (len \div 8) * 4
      <4>2. read' = Load(0, 4) \cup Load(half, 4) \cup Load(len - 4, 4)
                      \cup Load(len - 4 - half, 4)
        BY <1>1, <2>1, <3>1 DEF wyhash_short, Reads
      <4>3. half \in {0, 4, 8} /\ (len < 8 => half = 0) /\ (len \in 8 .. 15 => half = 4)
            /\ (len >= 16 => half = 8)
        BY <4>1
      <4> HIDE DEF half
      <4> QED
        BY <1>1, <3>1, <4>2, <4>3 DEF Load, wyhash_short
    <3>2. CASE len \in 1 .. 3
      <4>1. read' = {0, len \div 2, len - 1}
        BY <1>1, <2>1, <3>2 DEF wyhash_short, Reads, wyr3
      <4>2. CASE len = 1
        BY <4>1, <4>2
      <4>3. CASE len = 2
        BY <4>1, <4>3
      <4>4. CASE len = 3
        BY <4>1, <4>4
      <4> QED
        BY <3>2, <4>2, <4>3, <4>4
    <3>3. CASE len = 0
      BY <1>1, <2>1, <3>3 DEF wyhash_short, Reads
    <3> QED
      BY <3>1, <3>2, <3>3
  <2> QED
    BY <1>a, <1>b, <2>1, <2>2 DEF WyhashLoop, ReadsWithinBounds, EveryByteRead
<1>2. CASE wyhash_long
  BY <1>0, <1>a, <1>b, <1>2 DEF wyhash_long, WyhashLoop, ReadsWithinBounds, EveryByteRead
<1>3. CASE wyhash_48
  <2>1. read = 0 .. p - 1 /\ p + i = len /\ i > 48 /\ len > 16
    BY <1>0, <1>3 DEF wyhash_48, WyhashLoop
  <2>2. read' = 0 .. p' - 1 /\ p' = p + 48 /\ i' = i - 48
    BY <1>3, <2>1 DEF wyhash_48, Reads, Load
  <2>3. pc' \in {"loop48", "loop16"} /\ (pc' = "loop48" => i' > 48)
    BY <1>3 DEF wyhash_48
  <2>4. read' \subseteq 0 .. len - 1
    BY <2>1, <2>2
  <2> QED
    BY <1>a, <1>b, <2>1, <2>2, <2>3, <2>4 DEF WyhashLoop, ReadsWithinBounds, EveryByteRead
<1>4. CASE wyhash_16
  <2>1. read = 0 .. p - 1 /\ p + i = len /\ i > 16 /\ len > 16 /\ pc' = "loop16"
    BY <1>0, <1>4 DEF wyhash_16, WyhashLoop, Again
  <2>2. read' = 0 .. p' - 1 /\ p' = p + 16 /\ i' = i - 16
    BY <1>4, <2>1 DEF wyhash_16, Reads, Load
  <2>3. read' \subseteq 0 .. len - 1
    BY <2>1, <2>2
  <2> QED
    BY <1>a, <1>b, <2>1, <2>2, <2>3 DEF WyhashLoop, ReadsWithinBounds, EveryByteRead
<1>5. CASE wyhash_last
  <2>1. read = 0 .. p - 1 /\ p + i = len /\ i <= 16 /\ len > 16
    BY <1>0, <1>5 DEF wyhash_last, WyhashLoop, Again
  <2>2. read' = read \cup Load(p + i - 16, 16) /\ p' = p /\ i' = i /\ pc' = "done"
    BY <1>5 DEF wyhash_last, Reads
  <2>3. read' = 0 .. len - 1
    BY <2>1, <2>2 DEF Load
  <2> QED
    BY <1>a, <1>b, <2>2, <2>3 DEF WyhashLoop, ReadsWithinBounds, EveryByteRead
<1> QED
  BY <1>1, <1>2, <1>3, <1>4, <1>5

-----------------------------------------------------------------------------
(* Martinus.                                                               *)

LEMMA StepMartinus ==
  ASSUME Inv, martinus_block \/ martinus_tail
  PROVE  Inv'
<1> USE DEF Inv, Types, Functions, XXH3
<1>0. fn = "martinus" /\ i <= len \div 8 /\ read = 0 .. 8 * i - 1
  BY DEF martinus_block, martinus_tail, MartinusLoop
<1>a. fn' = fn /\ len' = len /\ p' = p /\ secret' = secret /\ i' \in Nat
  BY DEF martinus_block, martinus_tail
<1>b. WyhashLoop' /\ Xxh3Loop'
  BY <1>0, <1>a DEF WyhashLoop, Xxh3Loop
<1>c. len \div 8 \in Nat /\ len % 8 \in 0 .. 7 /\ len % 8 = len - 8 * (len \div 8)
  <2>1. len \in Nat
    OBVIOUS
  <2>2. len \div 8 \in Nat /\ len % 8 \in 0 .. 7
    BY <2>1
  <2>3. len % 8 = len - 8 * (len \div 8)
    BY <2>1
  <2> QED
    BY <2>2, <2>3
<1>1. CASE martinus_block
  <2>1. i' = i + 1 /\ pc' = "start" /\ i' <= len \div 8
    BY <1>0, <1>1, <1>c DEF martinus_block
  <2>2. read' = 0 .. 8 * i' - 1
    BY <1>0, <1>1, <2>1 DEF martinus_block, Reads, Load
  <2>3. read' \subseteq 0 .. len - 1
    BY <1>c, <2>1, <2>2
  <2> QED
    BY <1>0, <1>a, <1>b, <2>1, <2>2, <2>3
       DEF MartinusLoop, ReadsWithinBounds, EveryByteRead
<1>2. CASE martinus_tail
  <2> DEFINE full == 8 * (len \div 8)
             rest == len % 8
  <2>1. read = 0 .. full - 1 /\ read' = read \cup {full + (k - 1) : k \in 1 .. rest}
    BY <1>0, <1>2 DEF martinus_tail, Reads
  <2>2. full \in Nat /\ rest \in Nat /\ full + rest = len
    BY <1>c
  <2>3. pc' = "done" /\ i' = i
    BY <1>2 DEF martinus_tail
  <2> HIDE DEF full, rest
  <2>4. \A x \in 0 .. len - 1 : x \in 0 .. full - 1 \/ (x - full + 1 \in 1 .. rest /\ x = full + ((x - full + 1) - 1))
    BY <2>2
  <2>5. read' = 0 .. len - 1
    <3>1. read' \subseteq 0 .. len - 1
      BY <2>1, <2>2
    <3>2. 0 .. len - 1 \subseteq read'
      BY <2>1, <2>4
    <3> QED
      BY <3>1, <3>2
  <2> QED
    BY <1>0, <1>a, <1>b, <2>3, <2>5 DEF MartinusLoop, ReadsWithinBounds, EveryByteRead
<1> QED
  BY <1>1, <1>2

-----------------------------------------------------------------------------
(* XXH3.                                                                   *)

LEMMA StepXxh3 ==
  ASSUME Inv, len_0to16 \/ len_17to128 \/ len_129to240_round \/ len_129to240_last
  PROVE  Inv'
<1> USE DEF Inv, Types, Functions, XXH3, midsize_max
<1>0. /\ fn \in XXH3 /\ pc = "start" /\ len <= 240
      /\ i > 0 => len >= 129
      /\ i <= len \div Mixed /\ p = Mixed * i /\ read = 0 .. p - 1
  BY DEF len_0to16, len_17to128, len_129to240_round, len_129to240_last, Xxh3Loop
<1>a. fn' = fn /\ len' = len
  BY DEF len_0to16, len_17to128, len_129to240_round, len_129to240_last
<1>b. WyhashLoop' /\ MartinusLoop'
  BY <1>0, <1>a DEF WyhashLoop, MartinusLoop
<1>c. Mixed \in {16, 32} /\ Mixed' = Mixed
  BY <1>a DEF Mixed
<1>d. secret \subseteq 0 .. 135
  BY DEF ReadsWithinBounds, secret_size_min
<1>z. ASSUME pc' = "done", p' = p, i' = i, read' = 0 .. len - 1, secret' \subseteq 0 .. 135
      PROVE  Inv'
  BY <1>0, <1>a, <1>b, <1>z DEF Xxh3Loop, ReadsWithinBounds, EveryByteRead, secret_size_min
<1>1. CASE len_0to16
  <2>1. read = {}
    BY <1>0, <1>1, <1>c DEF len_0to16
  <2>2. secret' \subseteq 0 .. 135
    <3>1. \/ secret' = secret \cup Load(24, 32) \/ secret' = secret \cup Load(32, 32)
          \/ secret' = secret \cup Load(8, 16) \/ secret' = secret \cup Load(16, 16)
          \/ secret' = secret \cup Load(0, 8) \/ secret' = secret \cup Load(0, 16)
          \/ secret' = secret \cup Load(56, 16) \/ secret' = secret \cup Load(64, 32)
      BY <1>1 DEF len_0to16, ReadsSecret
    <3>2. /\ Load(24, 32) \subseteq 0 .. 135 /\ Load(32, 32) \subseteq 0 .. 135
          /\ Load(8, 16) \subseteq 0 .. 135 /\ Load(16, 16) \subseteq 0 .. 135
          /\ Load(0, 8) \subseteq 0 .. 135 /\ Load(0, 16) \subseteq 0 .. 135
          /\ Load(56, 16) \subseteq 0 .. 135 /\ Load(64, 32) \subseteq 0 .. 135
      BY DEF Load
    <3> QED
      BY <1>d, <3>1, <3>2, Zenon
  <2>3. len >= 0 /\ len <= 16
    BY <1>1 DEF len_0to16
  <2>4. read' = 0 .. len - 1
    <3>1. CASE len > 8
      <4>1. read' = Load(0, 8) \cup Load(len - 8, 8)
        BY <1>1, <2>1, <3>1 DEF len_0to16, Reads
      <4> QED
        BY <2>3, <3>1, <4>1 DEF Load
    <3>2. CASE len \in 4 .. 8
      <4>1. read' = Load(0, 4) \cup Load(len - 4, 4)
        BY <1>1, <2>1, <3>2 DEF len_0to16, Reads
      <4> QED
        BY <3>2, <4>1 DEF Load
    <3>3. CASE len \in 1 .. 3
      <4>1. read' = {0, len \div 2, len - 1}
        BY <1>1, <2>1, <3>3 DEF len_0to16, Reads
      <4>2. len = 1 \/ len = 2 \/ len = 3
        BY <3>3
      <4> QED
        BY <4>1, <4>2
    <3>4. CASE len = 0
      BY <1>1, <2>1, <3>4 DEF len_0to16, Reads
    <3> QED
      BY <2>3, <3>1, <3>2, <3>3, <3>4
  <2>5. pc' = "done" /\ p' = p /\ i' = i
    BY <1>1 DEF len_0to16
  <2> QED
    BY <1>z, <2>2, <2>4, <2>5
<1>2. CASE len_17to128
  <2>1. read = {}
    BY <1>0, <1>2, <1>c DEF len_17to128
  <2>2. len \in 17 .. 128 /\ Pairs \in 1 .. 4
    BY <1>2 DEF len_17to128, Pairs
  <2>3. 32 * Pairs < len + 32 /\ len <= 32 * Pairs
    BY <2>2 DEF Pairs
  <2>4. secret' \subseteq 0 .. 135
    BY <1>2, <1>d, <2>2 DEF len_17to128, ReadsSecret, Load
  <2>5. read' = UNION {Load(16 * k, 16) \cup Load(len - 16 * (k + 1), 16) : k \in 0 .. Pairs - 1}
    BY <1>2, <2>1 DEF len_17to128, Reads
  <2>6. read' \subseteq 0 .. len - 1
    <3>1. ASSUME NEW k \in 0 .. Pairs - 1
          PROVE  Load(16 * k, 16) \cup Load(len - 16 * (k + 1), 16) \subseteq 0 .. len - 1
      BY <2>2, <2>3 DEF Load
    <3> QED
      BY <2>5, <3>1
  <2>7. 0 .. len - 1 \subseteq read'
    <3> SUFFICES ASSUME NEW x \in 0 .. len - 1
                 PROVE  \E k \in 0 .. Pairs - 1 :
                          x \in Load(16 * k, 16) \cup Load(len - 16 * (k + 1), 16)
      BY <2>5
    <3>1. CASE x < 16 * Pairs
      <4> DEFINE k == x \div 16
      <4>1. k \in 0 .. Pairs - 1 /\ 16 * k <= x /\ x < 16 * k + 16
        BY <2>2, <3>1
      <4> HIDE DEF k
      <4> QED
        BY <4>1, <2>2 DEF Load
    <3>2. CASE x >= 16 * Pairs
      <4> DEFINE k == (len - 1 - x) \div 16
      <4>1. k \in 0 .. Pairs - 1 /\ len - 16 * (k + 1) <= x /\ x < len - 16 * k
        BY <2>2, <2>3, <3>2
      <4> HIDE DEF k
      <4> QED
        BY <4>1, <2>2 DEF Load
    <3> QED
      BY <3>1, <3>2, <2>2
  <2>8. pc' = "done" /\ p' = p /\ i' = i
    BY <1>2 DEF len_17to128
  <2> QED
    BY <1>z, <2>4, <2>6, <2>7, <2>8
<1>3. CASE len_129to240_round
  <2>1. len \in 129 .. 240 /\ i < len \div Mixed
    BY <1>3 DEF len_129to240_round
  <2>2. p' = p + Mixed /\ i' = i + 1 /\ pc' = "start"
    BY <1>3 DEF len_129to240_round
  <2>3. read' = 0 .. p' - 1
    BY <1>0, <1>3, <1>c, <2>2 DEF len_129to240_round, Reads, Load
  <2>4. p' = Mixed * i' /\ i' <= len \div Mixed /\ p' <= len
    BY <1>0, <1>c, <2>1, <2>2
  <2>5. secret' \subseteq 0 .. 135
    <3>1. secret' = secret \cup Load(SecretOfRound, Mixed)
      BY <1>3 DEF len_129to240_round, ReadsSecret
    <3>2. SecretOfRound \in Nat /\ SecretOfRound + Mixed <= 136
      <4>1. CASE fn = "xxh3_64"
        BY <2>1, <4>1 DEF Mixed, SecretOfRound, FirstRounds, midsize_startoffset
      <4>2. CASE fn = "xxh3_128"
        BY <2>1, <4>2 DEF Mixed, SecretOfRound, FirstRounds, midsize_startoffset
      <4> QED
        BY <1>0, <4>1, <4>2
    <3> QED
      BY <1>c, <1>d, <3>1, <3>2 DEF Load
  <2>6. read' \subseteq 0 .. len - 1
    BY <2>1, <2>2, <2>3, <2>4, <1>c
  <2> QED
    BY <1>0, <1>a, <1>b, <1>c, <2>1, <2>2, <2>3, <2>4, <2>5, <2>6
       DEF Xxh3Loop, ReadsWithinBounds, EveryByteRead, secret_size_min
<1>4. CASE len_129to240_last
  <2>1. len \in 129 .. 240 /\ i = len \div Mixed
    BY <1>4 DEF len_129to240_last
  <2>2. p <= len /\ len - p < Mixed
    BY <1>0, <1>c, <2>1
  <2>3. read' = 0 .. len - 1
    BY <1>0, <1>4, <1>c, <2>1, <2>2 DEF len_129to240_last, Reads, Load
  <2>4. secret' \subseteq 0 .. 135
    BY <1>4, <1>c, <1>d DEF len_129to240_last, ReadsSecret, Load, secret_size_min, midsize_lastoffset
  <2>5. pc' = "done" /\ p' = p /\ i' = i
    BY <1>4 DEF len_129to240_last
  <2> QED
    BY <1>z, <2>3, <2>4, <2>5
<1> QED
  BY <1>1, <1>2, <1>3, <1>4

-----------------------------------------------------------------------------
LEMMA InvStep == Inv /\ [Next]_vars => Inv'
<1> SUFFICES ASSUME Inv, [Next]_vars PROVE Inv'
  OBVIOUS
<1>1. CASE UNCHANGED vars
  BY <1>1 DEF vars, Inv, Types, WyhashLoop, MartinusLoop, Xxh3Loop, Mixed,
              ReadsWithinBounds, EveryByteRead
<1>2. CASE Next
  BY <1>2, StepWyhash, StepMartinus, StepXxh3 DEF Next
<1> QED
  BY <1>1, <1>2

(* The byte hashers stay within their input and within the smallest legal
   secret, for inputs of every length.                                     *)
THEOREM ReadsStayWithinBounds == Spec => []ReadsWithinBounds
<1>1. Inv => ReadsWithinBounds
  BY DEF Inv
<1> QED
  BY <1>1, InvInit, InvStep, PTL DEF Spec

(* A hash returned by hash_bytes was computed from every byte of its input,
   for inputs of every length.                                             *)
THEOREM AllBytesAreRead == Spec => []EveryByteRead
<1>1. Inv => EveryByteRead
  BY DEF Inv
<1> QED
  BY <1>1, InvInit, InvStep, PTL DEF Spec

=============================================================================
