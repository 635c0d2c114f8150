-------------------------- MODULE XxhStreamsProofs --------------------------
(***************************************************************************)
(* The streaming interface of XXH3 for any stripe length, number of        *)
(* stripes in the buffer, secrets, pieces, length of input and arithmetic: *)
(* what the internal buffer holds, and that digests are one-shot hashes.   *)
(* Then that of the classic xxHash, for any size of words.                 *)
(*                                                                         *)
(* The stream and the one-shot hash are both compared with one walk along  *)
(* the stripes of the input that scrambles at the end of every block.      *)
(***************************************************************************)
EXTENDS XxhStreams, FiniteSetTheorems, WellFoundedInduction, TLAPS

(* The waiting bytes are the end of the input. *)
EndBuffered ==
  \A i \in 0 .. bufferedSize - 1 : buffer[i] = (totalLen - bufferedSize) + i + 1

(* Behind them is the input before them, where the buffer was consumed. *)
PastBuffered ==
  ~direct /\ totalLen > bufferedSize =>
    \A i \in bufferedSize .. internal_buffer_size - 1 :
      buffer[i] + internal_buffer_size = (totalLen - bufferedSize) + i + 1

(* The inductive invariant of the buffer. *)
IInv ==
  /\ buffer \in [0 .. internal_buffer_size - 1 -> 0 .. totalLen]
  /\ bufferedSize \in 0 .. internal_buffer_size
  /\ totalLen \in Nat /\ bufferedSize <= totalLen
  /\ direct \in BOOLEAN
  /\ EndBuffered
  /\ PastBuffered

-----------------------------------------------------------------------------
(* The k-th stripe of the input, and the accumulator after it. *)
InputStripe(k) == [i \in 1 .. StripeLen |-> k * StripeLen + i]

Mixed(s, a, k) == accumulate_512(a, InputStripe(k), k % s)

Stepped(s, a, k) == IF (k + 1) % s = 0 THEN scramble_acc(Mixed(s, a, k)) ELSE Mixed(s, a, k)

(* The accumulators along the stripes of the input, with s stripes per block. *)
Along(s) ==
  LET at[k \in 0 .. MaxInput] == IF k = 0 THEN init_acc ELSE Stepped(s, at[k - 1], k - 1)
  IN  at

(* From an address a memory holds n stripes of the input, the k-th first. *)
Holds(memory, from, k, n) ==
  \A i \in 0 .. n * StripeLen - 1 : memory[from + i] = k * StripeLen + i + 1

(* The accumulator is c stripes along the input, and the rest is buffered. *)
At(c) ==
  /\ totalLen = c * StripeLen + bufferedSize
  /\ acc = Along(nbStripesPerBlock)[c]
  /\ nbStripesSoFar = c % nbStripesPerBlock

(* The inductive invariant of the stream. *)
SInv ==
  /\ IInv
  /\ nbStripesPerBlock \in Secrets
  /\ totalLen <= MaxInput
  /\ \E c \in Nat : At(c)
  /\ totalLen # bufferedSize => totalLen > internal_buffer_size

-----------------------------------------------------------------------------
(* Natural numbers. *)

LEMMA SmallestNat ==
  ASSUME NEW T \in SUBSET Nat, T # {}
  PROVE  \E m \in T : \A n \in T : m <= n
<1>1. PICK N \in T : TRUE
  OBVIOUS
<1> DEFINE Below(y) == 0 .. y
           F == {Below(y) : y \in T \cap (0 .. N)}
           R == StrictSubsetOrdering(0 .. N)
<1>2. IsFiniteSet(0 .. N)
  BY FS_Interval
<1>3. F \subseteq FiniteSubsetsOf(0 .. N) /\ F # {}
  <2>1. \A y \in 0 .. N : 0 .. y \in SUBSET (0 .. N)
    OBVIOUS
  <2>2. F \subseteq SUBSET (0 .. N)
    BY <2>1
  <2>3. 0 .. N \in F
    BY <1>1
  <2> HIDE DEF F
  <2> QED
    BY <1>2, <2>2, <2>3, FS_FiniteSubsetsOfFinite
<1>4. IsWellFoundedOn(R, FiniteSubsetsOf(0 .. N))
  BY FS_StrictSubsetOrderingWellFounded
<1>5. PICK x \in F : \A y \in F : <<y, x>> \notin R
  <2> HIDE DEF F, R
  <2> QED
    BY <1>3, <1>4, WFMin
<1>6. PICK m \in T \cap (0 .. N) : x = Below(m)
  OBVIOUS
<1>7. ASSUME NEW n \in T, n < m PROVE FALSE
  <2>1. n \in 0 .. N /\ m \in Nat /\ n \in Nat
    BY <1>7
  <2>2. 0 .. n \in F
    BY <2>1
  <2>3. 0 .. n \subseteq 0 .. m /\ m \in 0 .. m /\ m \notin 0 .. n
    BY <1>7, <2>1
  <2>4. <<0 .. n, 0 .. m>> \in R
    BY <2>1, <2>3 DEF StrictSubsetOrdering
  <2> QED
    BY <1>5, <1>6, <2>2, <2>4
<1> QED
  BY <1>7

(* Induction, over a set: a set closed under successors has all of Nat. *)
LEMMA NatSetInduction ==
  ASSUME NEW S, 0 \in S, \A n \in Nat : n \in S => n + 1 \in S
  PROVE  Nat \subseteq S
<1> SUFFICES ASSUME Nat \ S # {} PROVE FALSE
  OBVIOUS
<1>1. PICK m \in Nat \ S : \A n \in Nat \ S : m <= n
  <2> DEFINE T == Nat \ S
  <2>1. T \in SUBSET Nat /\ T # {}
    OBVIOUS
  <2> HIDE DEF T
  <2>2. \E m \in T : \A n \in T : m <= n
    BY <2>1, SmallestNat
  <2> QED
    BY <2>2 DEF T
<1>2. m \in Nat \ {0} /\ m - 1 \in Nat /\ (m - 1) + 1 = m /\ ~(m <= m - 1)
  BY <1>1
<1>3. m - 1 \in S
  BY <1>1, <1>2
<1> QED
  BY <1>2, <1>3

LEMMA Parts ==
  ASSUME NEW n \in Nat, NEW b \in Nat \ {0}
  PROVE  \E q \in Nat, r \in 0 .. b - 1 : n = q * b + r /\ n \div b = q /\ n % b = r
  OBVIOUS

(* Division with a known remainder. *)
LEMMA Divided ==
  ASSUME NEW b \in Nat \ {0}, NEW q \in Nat, NEW r \in 0 .. b - 1, NEW x \in Nat, x = q * b + r
  PROVE  x \div b = q /\ x % b = r
  OBVIOUS

LEMMA Dist ==
  ASSUME NEW b \in Nat, NEW m \in Nat, NEW n \in Nat
  PROVE  /\ m * b + n * b = (m + n) * b
         /\ (m + 1) * b = m * b + b
         /\ m * b \in Nat
  OBVIOUS
LEMMA Mono ==
  ASSUME NEW b \in Nat, NEW m \in Nat, NEW n \in Nat, m <= n
  PROVE  m * b <= n * b
  OBVIOUS
(* The remainder n steps on, up to the next multiple. *)
LEMMA Forward ==
  ASSUME NEW k \in Nat, NEW n \in Nat, NEW b \in Nat \ {0}, (k % b) + n <= b
  PROVE  (k + n) % b = IF (k % b) + n = b THEN 0 ELSE (k % b) + n
<1>1. PICK q \in Nat, r \in 0 .. b - 1 : k = q * b + r /\ k % b = r
  BY Parts
<1>2. q * b \in Nat /\ (q + 1) * b = q * b + b
  BY Dist
<1>3. CASE r + n < b
  <2> DEFINE x == k + n
             t == r + n
  <2>1. x \in Nat /\ x = q * b + t /\ t \in 0 .. b - 1
    BY <1>1, <1>2, <1>3
  <2> HIDE DEF x, t
  <2>2. x % b = t
    BY <2>1, Divided
  <2> QED
    BY <1>1, <1>3, <2>2 DEF x, t
<1>4. CASE r + n = b
  <2> DEFINE x == k + n
             p == q + 1
  <2>1. x \in Nat /\ p \in Nat /\ x = p * b + 0
    BY <1>1, <1>2, <1>4
  <2> HIDE DEF x, p
  <2>2. x % b = 0
    BY <2>1, Divided
  <2> QED
    BY <1>1, <1>4, <2>2 DEF x
<1> QED
  BY <1>1, <1>3, <1>4
LEMMA SizesFact ==
  /\ StripeLen \in Nat \ {0} /\ internal_buffer_size \in Nat \ {0}
  /\ StripeLen <= internal_buffer_size /\ MidsizeMax \in Nat /\ StripeLen <= MidsizeMax
<1>1. StripeLen \in Nat \ {0} /\ BufferStripes \in Nat \ {0}
  BY StreamAssumption
<1>2. internal_buffer_size \in Nat \ {0}
  BY <1>1 DEF internal_buffer_size
<1>3. MidsizeMax \in StripeLen .. internal_buffer_size
  BY StreamAssumption
<1> QED
  BY <1>1, <1>2, <1>3

-----------------------------------------------------------------------------
(* The loops: each recursive function satisfies the equation it is defined by. *)

AccLoop(a, memory, from, secret, N) ==
  LET after[n \in 0 .. N] ==
        IF n = 0 THEN a
        ELSE accumulate_512(after[n - 1], Bytes(memory, from + (n - 1) * StripeLen), secret + n - 1)
  IN  after

IsAccLoop(f, a, memory, from, secret, N) ==
  f = [n \in 0 .. N |->
         IF n = 0 THEN a
         ELSE accumulate_512(f[n - 1], Bytes(memory, from + (n - 1) * StripeLen), secret + n - 1)]

LEMMA AccLoopExists ==
  ASSUME NEW a, NEW memory, NEW from, NEW secret
  PROVE  \A N \in Nat : \E f : IsAccLoop(f, a, memory, from, secret, N)
<1> DEFINE G(x, n) == accumulate_512(x, Bytes(memory, from + (n - 1) * StripeLen), secret + n - 1)
           P(f, N) == f = [n \in 0 .. N |-> IF n = 0 THEN a ELSE G(f[n - 1], n)]
           S == {N \in Nat : \E f : P(f, N)}
<1> HIDE DEF G
<1>1. 0 \in S
  <2>1. P([n \in {0} |-> a], 0)
    OBVIOUS
  <2> HIDE DEF P
  <2> QED
    BY <2>1
<1>2. ASSUME NEW N \in Nat, N \in S PROVE N + 1 \in S
  <2>1. PICK f : P(f, N)
    BY <1>2
  <2> DEFINE g == [n \in 0 .. N + 1 |-> IF n = 0 THEN a ELSE G(f[n - 1], n)]
  <2>2. ASSUME NEW n \in 0 .. N PROVE g[n] = f[n]
    BY <2>1
  <2>3. P(g, N + 1)
    <3>1. ASSUME NEW n \in 0 .. N + 1, n # 0 PROVE n - 1 \in 0 .. N
      BY <3>1
    <3> HIDE DEF g
    <3>2. ASSUME NEW n \in 0 .. N + 1, n # 0 PROVE g[n - 1] = f[n - 1]
      BY <3>1, <3>2, <2>2
    <3> QED
      BY <3>2 DEF g
  <2> HIDE DEF P
  <2> QED
    BY <2>3
<1>3. Nat \subseteq S
  <2> HIDE DEF S
  <2> QED
    BY <1>1, <1>2, NatSetInduction
<1> QED
  BY <1>3 DEF G, IsAccLoop

LEMMA AccLoopEquation ==
  ASSUME NEW a, NEW memory, NEW from, NEW secret \in Nat, NEW N \in Nat
  PROVE  LET f == AccLoop(a, memory, from, secret, N)
         IN  /\ f[0] = a
             /\ \A n \in 0 .. N - 1 :
                  f[n + 1] = accumulate_512(f[n], Bytes(memory, from + n * StripeLen), secret + n)
             /\ accumulate(a, memory, from, secret, N) = f[N]
<1> DEFINE f == AccLoop(a, memory, from, secret, N)
<1>1. IsAccLoop(f, a, memory, from, secret, N)
  <2>1. \E g : IsAccLoop(g, a, memory, from, secret, N)
    BY AccLoopExists
  <2> QED
    BY <2>1 DEF AccLoop, IsAccLoop
<1>2. accumulate(a, memory, from, secret, N) = f[N]
  BY DEF AccLoop, accumulate
<1> HIDE DEF f
<1>3. f[0] = a
  BY <1>1 DEF IsAccLoop
<1>4. ASSUME NEW n \in 0 .. N - 1
      PROVE  f[n + 1] = accumulate_512(f[n], Bytes(memory, from + n * StripeLen), secret + n)
  <2> DEFINE m == n + 1
  <2>1. m \in 0 .. N /\ m # 0 /\ m - 1 = n /\ secret + m - 1 = secret + n
    OBVIOUS
  <2> HIDE DEF m
  <2>2. f[m] = accumulate_512(f[m - 1], Bytes(memory, from + (m - 1) * StripeLen), secret + m - 1)
    BY <1>1, <2>1 DEF IsAccLoop
  <2> QED
    BY <2>1, <2>2 DEF m
<1> QED
  BY <1>2, <1>3, <1>4 DEF f

IsAlong(f, s, N) ==
  f = [k \in 0 .. N |-> IF k = 0 THEN init_acc ELSE Stepped(s, f[k - 1], k - 1)]

LEMMA AlongExists ==
  ASSUME NEW s
  PROVE  \A N \in Nat : \E f : IsAlong(f, s, N)
<1> DEFINE G(x, n) == Stepped(s, x, n - 1)
           P(f, N) == f = [n \in 0 .. N |-> IF n = 0 THEN init_acc ELSE G(f[n - 1], n)]
           S == {N \in Nat : \E f : P(f, N)}
<1> HIDE DEF G
<1>1. 0 \in S
  <2>1. P([n \in {0} |-> init_acc], 0)
    OBVIOUS
  <2> HIDE DEF P
  <2> QED
    BY <2>1
<1>2. ASSUME NEW N \in Nat, N \in S PROVE N + 1 \in S
  <2>1. PICK f : P(f, N)
    BY <1>2
  <2> DEFINE g == [n \in 0 .. N + 1 |-> IF n = 0 THEN init_acc ELSE G(f[n - 1], n)]
  <2>2. ASSUME NEW n \in 0 .. N PROVE g[n] = f[n]
    BY <2>1
  <2>3. P(g, N + 1)
    <3>1. ASSUME NEW n \in 0 .. N + 1, n # 0 PROVE n - 1 \in 0 .. N
      BY <3>1
    <3> HIDE DEF g
    <3>2. ASSUME NEW n \in 0 .. N + 1, n # 0 PROVE g[n - 1] = f[n - 1]
      BY <3>1, <3>2, <2>2
    <3> QED
      BY <3>2 DEF g
  <2> HIDE DEF P
  <2> QED
    BY <2>3
<1>3. Nat \subseteq S
  <2> HIDE DEF S
  <2> QED
    BY <1>1, <1>2, NatSetInduction
<1> QED
  BY <1>3 DEF G, IsAlong

LEMMA AlongEquation ==
  ASSUME NEW s
  PROVE  /\ Along(s)[0] = init_acc
         /\ \A k \in 0 .. MaxInput - 1 : Along(s)[k + 1] = Stepped(s, Along(s)[k], k)
<1> DEFINE f == Along(s)
<1>0. MaxInput \in Nat
  BY StreamAssumption
<1>1. IsAlong(f, s, MaxInput)
  <2>1. \E g : IsAlong(g, s, MaxInput)
    BY <1>0, AlongExists
  <2> QED
    BY <2>1 DEF Along, IsAlong
<1> HIDE DEF f
<1>2. f[0] = init_acc
  BY <1>0, <1>1 DEF IsAlong
<1>3. ASSUME NEW k \in 0 .. MaxInput - 1
      PROVE  f[k + 1] = Stepped(s, f[k], k)
  <2> DEFINE m == k + 1
  <2>1. m \in 0 .. MaxInput /\ m # 0 /\ m - 1 = k
    BY <1>0
  <2> HIDE DEF m
  <2>2. f[m] = Stepped(s, f[m - 1], m - 1)
    BY <1>1, <2>1 DEF IsAlong
  <2> QED
    BY <2>1, <2>2 DEF m
<1> QED
  BY <1>2, <1>3 DEF f

-----------------------------------------------------------------------------
(* The bytes read for a stripe are a stripe of the input. *)
LEMMA StripeRead ==
  ASSUME NEW memory, NEW from \in Nat, NEW k \in Nat, NEW n \in Nat, Holds(memory, from, k, n),
         NEW j \in 0 .. n - 1
  PROVE  Bytes(memory, from + j * StripeLen) = InputStripe(k + j)
<1> USE SizesFact
<1>1. ASSUME NEW i \in 1 .. StripeLen
      PROVE  memory[from + j * StripeLen + i - 1] = (k + j) * StripeLen + i
  <2> DEFINE o == j * StripeLen + i - 1
  <2>1. j * StripeLen \in Nat /\ (j + 1) * StripeLen = j * StripeLen + StripeLen
        /\ k * StripeLen \in Nat /\ k * StripeLen + j * StripeLen = (k + j) * StripeLen
    BY Dist
  <2>2. (j + 1) * StripeLen <= n * StripeLen /\ n * StripeLen \in Nat
    BY Mono, Dist
  <2>3. o \in 0 .. n * StripeLen - 1
    BY <2>1, <2>2
  <2>4. memory[from + o] = k * StripeLen + o + 1
    BY <2>3 DEF Holds
  <2>5. from + o = from + j * StripeLen + i - 1
    BY <2>1
  <2> QED
    BY <2>1, <2>3, <2>4, <2>5
<1> QED
  BY <1>1 DEF Bytes, InputStripe

(* Stripes of one block: the accumulator stays on the walk, up to the scramble
   at the end of the block, which accumulate leaves to its caller.        *)
LEMMA AccumulateAlong ==
  ASSUME NEW s \in Nat \ {0}, NEW k \in Nat, NEW n \in Nat,
         (k % s) + n <= s, k + n <= MaxInput,
         NEW memory, NEW from \in Nat, Holds(memory, from, k, n)
  PROVE  LET a == accumulate(Along(s)[k], memory, from, k % s, n)
         IN  /\ (k % s) + n < s => a = Along(s)[k + n]
             /\ (k % s) + n = s /\ n > 0 => scramble_acc(a) = Along(s)[k + n]
<1>0. PICK o \in 0 .. s - 1 : o = k % s
  OBVIOUS
<1> DEFINE x == Along(s)[k]
           f == AccLoop(x, memory, from, o, n)
           S == {j \in Nat : j <= n /\ o + j < s => f[j] = Along(s)[k + j]}
<1> HIDE DEF x
<1>9. MaxInput \in Nat /\ o \in Nat /\ o + n <= s
  BY <1>0, StreamAssumption
<1>1. /\ f[0] = x
      /\ \A j \in 0 .. n - 1 :
           f[j + 1] = accumulate_512(f[j], Bytes(memory, from + j * StripeLen), o + j)
      /\ accumulate(x, memory, from, o, n) = f[n]
  BY <1>9, AccLoopEquation
<1>2. \A j \in 0 .. n - 1 : Bytes(memory, from + j * StripeLen) = InputStripe(k + j)
  BY StripeRead
<1> HIDE DEF f
<1>3. ASSUME NEW j \in 0 .. n - 1, f[j] = Along(s)[k + j]
      PROVE  /\ f[j + 1] = Mixed(s, Along(s)[k + j], k + j)
             /\ o + j < s
             /\ Along(s)[k + (j + 1)] =
                  IF o + (j + 1) = s THEN scramble_acc(f[j + 1]) ELSE f[j + 1]
  <2>1. (k + j) % s = o + j /\ o + j < s
    <3>1. o + j <= s /\ j \in Nat /\ o + j # s
      BY <1>9
    <3>2. (k + j) % s = IF o + j = s THEN 0 ELSE o + j
      BY <1>0, <3>1, Forward
    <3> QED
      BY <1>9, <3>1, <3>2
  <2>2. f[j + 1] = Mixed(s, Along(s)[k + j], k + j)
    BY <1>1, <1>2, <1>3, <2>1 DEF Mixed
  <2>3. k + j \in 0 .. MaxInput - 1 /\ k + (j + 1) = (k + j) + 1
    BY <1>9
  <2>4. Along(s)[k + (j + 1)] = Stepped(s, Along(s)[k + j], k + j)
    BY <2>3, AlongEquation
  <2>5. (k + (j + 1)) % s = IF o + (j + 1) = s THEN 0 ELSE o + (j + 1)
    <3> DEFINE m == j + 1
    <3>1. o + m <= s /\ m \in Nat
      BY <1>9
    <3> HIDE DEF m
    <3>2. (k + m) % s = IF o + m = s THEN 0 ELSE o + m
      BY <1>0, <3>1, Forward
    <3> QED
      BY <3>2 DEF m
  <2>6. o + (j + 1) # 0
    BY <1>9
  <2> QED
    BY <2>1, <2>2, <2>3, <2>4, <2>5, <2>6 DEF Stepped
<1>4. 0 \in S
  BY <1>1 DEF x
<1>5. ASSUME NEW j \in Nat, j \in S PROVE j + 1 \in S
  <2> SUFFICES ASSUME j + 1 <= n, o + (j + 1) < s PROVE f[j + 1] = Along(s)[k + (j + 1)]
    OBVIOUS
  <2>1. j \in 0 .. n - 1 /\ f[j] = Along(s)[k + j] /\ o + (j + 1) # s
    BY <1>9, <1>5
  <2> QED
    BY <1>3, <2>1
<1>6. Nat \subseteq S
  <2> HIDE DEF S
  <2> QED
    BY <1>4, <1>5, NatSetInduction
<1>7. ASSUME o + n < s PROVE f[n] = Along(s)[k + n]
  BY <1>6, <1>7
<1>8. ASSUME o + n = s, n > 0 PROVE scramble_acc(f[n]) = Along(s)[k + n]
  <2> DEFINE j == n - 1
  <2>1. j \in 0 .. n - 1 /\ j + 1 = n /\ j \in Nat /\ j <= n /\ o + j < s
    BY <1>9, <1>8
  <2> HIDE DEF j
  <2>2. f[j] = Along(s)[k + j]
    BY <1>6, <2>1
  <2>3. Along(s)[k + (j + 1)] = scramble_acc(f[j + 1])
    <3>1. o + (j + 1) = s
      BY <1>8, <2>1
    <3> QED
      BY <1>3, <2>1, <2>2, <3>1
  <2> QED
    BY <2>1, <2>3
<1> QED
  BY <1>0, <1>1, <1>7, <1>8 DEF x

(* A memory that holds stripes of the input holds the first m and the rest. *)
LEMMA HoldsParts ==
  ASSUME NEW memory, NEW from \in Nat, NEW k \in Nat, NEW n \in Nat, Holds(memory, from, k, n),
         NEW m \in 0 .. n
  PROVE  Holds(memory, from, k, m) /\ Holds(memory, from + m * StripeLen, k + m, n - m)
<1> USE SizesFact
<1>1. m * StripeLen \in Nat /\ n * StripeLen \in Nat /\ m * StripeLen <= n * StripeLen
      /\ k * StripeLen \in Nat /\ k * StripeLen + m * StripeLen = (k + m) * StripeLen
  BY Dist, Mono
<1>2. (n - m) * StripeLen = n * StripeLen - m * StripeLen
  <2>1. n - m \in Nat /\ (n - m) + m = n
    OBVIOUS
  <2> DEFINE d == n - m
  <2> HIDE DEF d
  <2>2. d * StripeLen + m * StripeLen = (d + m) * StripeLen /\ d * StripeLen \in Nat
    BY <2>1, Dist DEF d
  <2> QED
    BY <1>1, <2>1, <2>2 DEF d
<1>3. Holds(memory, from, k, m)
  BY <1>1 DEF Holds
<1>4. ASSUME NEW i \in 0 .. (n - m) * StripeLen - 1
      PROVE  memory[from + m * StripeLen + i] = (k + m) * StripeLen + i + 1
  <2> DEFINE o == m * StripeLen + i
  <2>1. o \in 0 .. n * StripeLen - 1
    BY <1>1, <1>2
  <2>2. memory[from + o] = k * StripeLen + o + 1
    BY <2>1 DEF Holds
  <2>3. from + o = from + m * StripeLen + i
    BY <1>1
  <2> QED
    BY <1>1, <2>1, <2>2, <2>3
<1> QED
  BY <1>3, <1>4 DEF Holds

(* consume_stripes walks on, at the end of a block, across it or within it. *)
LEMMA ConsumeAlong ==
  ASSUME nbStripesPerBlock \in Nat \ {0}, NEW k \in Nat, NEW n \in 0 .. nbStripesPerBlock,
         k + n <= MaxInput, NEW memory, NEW from \in Nat, Holds(memory, from, k, n)
  PROVE  consume_stripes(Along(nbStripesPerBlock)[k], k % nbStripesPerBlock, n, memory, from) =
           [acc |-> Along(nbStripesPerBlock)[k + n], soFar |-> (k + n) % nbStripesPerBlock]
<1> DEFINE s == nbStripesPerBlock
           x == Along(s)[k]
<1>1. PICK o \in 0 .. s - 1 : o = k % s
  OBVIOUS
<1>2. MaxInput \in Nat
  BY StreamAssumption
<1>3. CASE s - o <= n
  <2> DEFINE left == s - o
             y    == scramble_acc(accumulate(x, memory, from, o, left))
             more == n - left
  <2>1. left \in 0 .. n /\ left \in Nat /\ left > 0 /\ o + left = s /\ o + left <= s
        /\ k + left <= MaxInput /\ more \in Nat /\ more < s /\ more + (k + left) = k + n
        /\ k + left \in Nat /\ 0 + more <= s /\ (k + left) + more <= MaxInput
        /\ n \in Nat
    BY <1>1, <1>2, <1>3
  <2> HIDE DEF left
  <2>2. Holds(memory, from, k, left) /\ Holds(memory, from + left * StripeLen, k + left, n - left)
    BY <2>1, HoldsParts
  <2> HIDE DEF more
  <2>3. y = Along(s)[k + left]
    <3>1. o = k % s /\ o + left <= s /\ left > 0 /\ left \in Nat
      BY <1>1, <2>1
    <3> QED
      BY <2>1, <2>2, <3>1, AccumulateAlong
  <2>4. (k + left) % s = 0
    <3>1. (k + left) % s = IF o + left = s THEN 0 ELSE o + left
      BY <1>1, <2>1, Forward
    <3> QED
      BY <2>1, <3>1
  <2> DEFINE p == k + left
             behind == from + left * StripeLen
  <2>5. behind \in Nat /\ p \in Nat
    <3>1. left * StripeLen \in Nat
      BY <2>1, SizesFact, Dist
    <3> QED
      BY <2>1, <3>1
  <2> HIDE DEF p, behind, y
  <2>6. accumulate(Along(s)[p], memory, behind, 0, more) = Along(s)[p + more]
    <3>1. p % s = 0 /\ (p % s) + more <= s /\ p + more <= MaxInput /\ (p % s) + more < s
          /\ Holds(memory, behind, p, more)
      BY <2>1, <2>2, <2>4 DEF p, behind, more
    <3>2. accumulate(Along(s)[p], memory, behind, p % s, more) = Along(s)[p + more]
      BY <2>1, <2>5, <3>1, AccumulateAlong
    <3> QED
      BY <3>1, <3>2
  <2>7. (p + more) % s = more
    <3>1. p % s = 0 /\ (p % s) + more <= s /\ more # s /\ (p % s) + more = more /\ more \in Nat
      BY <2>1, <2>4 DEF p
    <3>2. (p % s) + more <= s /\ more \in Nat
      BY <3>1
    <3>3. (p + more) % s = IF (p % s) + more = s THEN 0 ELSE (p % s) + more
      BY <2>5, <3>2, Forward
    <3> QED
      BY <3>1, <3>3
  <2>8. p + more = k + n
    BY <2>1 DEF p
  <2>9. consume_stripes(x, o, n, memory, from) =
          [acc |-> accumulate(y, memory, behind, 0, more), soFar |-> more]
    BY <1>3 DEF consume_stripes, scrambling, left, y, behind, more
  <2> QED
    BY <1>1, <2>3, <2>6, <2>7, <2>8, <2>9 DEF p
<1>4. CASE ~(s - o <= n)
  <2>1. o + n < s /\ o + n <= s /\ n \in Nat /\ o + n # s
    BY <1>1, <1>4
  <2>2. (k + n) % s = o + n
    <3>1. (k + n) % s = IF o + n = s THEN 0 ELSE o + n
      BY <1>1, <2>1, Forward
    <3> QED
      BY <2>1, <3>1
  <2>3. accumulate(x, memory, from, o, n) = Along(s)[k + n]
    BY <1>1, <2>1, AccumulateAlong
  <2>4. consume_stripes(x, o, n, memory, from) =
          [acc |-> accumulate(x, memory, from, o, n), soFar |-> o + n]
    BY <1>4 DEF consume_stripes, scrambling
  <2> QED
    BY <1>1, <2>2, <2>3, <2>4
<1> QED
  BY <1>3, <1>4

-----------------------------------------------------------------------------
(* The one-shot hash. *)

Input(len) == [i \in 0 .. len - 1 |-> i + 1]

(* The accumulators after the blocks of hash_long_internal_loop. *)
BlockLoop(s, input, N) ==
  LET blocks[n \in 0 .. N] ==
        IF n = 0 THEN init_acc
        ELSE scramble_acc(accumulate(blocks[n - 1], input, (n - 1) * (StripeLen * s), 0, s))
  IN  blocks

IsBlockLoop(f, s, input, N) ==
  f = [n \in 0 .. N |->
         IF n = 0 THEN init_acc
         ELSE scramble_acc(accumulate(f[n - 1], input, (n - 1) * (StripeLen * s), 0, s))]

LEMMA BlockLoopExists ==
  ASSUME NEW s, NEW input
  PROVE  \A N \in Nat : \E f : IsBlockLoop(f, s, input, N)
<1> DEFINE G(x, n) == scramble_acc(accumulate(x, input, (n - 1) * (StripeLen * s), 0, s))
           P(f, N) == f = [n \in 0 .. N |-> IF n = 0 THEN init_acc ELSE G(f[n - 1], n)]
           S == {N \in Nat : \E f : P(f, N)}
<1> HIDE DEF G
<1>1. 0 \in S
  <2>1. P([n \in {0} |-> init_acc], 0)
    OBVIOUS
  <2> HIDE DEF P
  <2> QED
    BY <2>1
<1>2. ASSUME NEW N \in Nat, N \in S PROVE N + 1 \in S
  <2>1. PICK f : P(f, N)
    BY <1>2
  <2> DEFINE g == [n \in 0 .. N + 1 |-> IF n = 0 THEN init_acc ELSE G(f[n - 1], n)]
  <2>2. ASSUME NEW n \in 0 .. N PROVE g[n] = f[n]
    BY <2>1
  <2>3. P(g, N + 1)
    <3>1. ASSUME NEW n \in 0 .. N + 1, n # 0 PROVE n - 1 \in 0 .. N
      BY <3>1
    <3> HIDE DEF g
    <3>2. ASSUME NEW n \in 0 .. N + 1, n # 0 PROVE g[n - 1] = f[n - 1]
      BY <3>1, <3>2, <2>2
    <3> QED
      BY <3>2 DEF g
  <2> HIDE DEF P
  <2> QED
    BY <2>3
<1>3. Nat \subseteq S
  <2> HIDE DEF S
  <2> QED
    BY <1>1, <1>2, NatSetInduction
<1> QED
  BY <1>3 DEF G, IsBlockLoop

LEMMA BlockLoopEquation ==
  ASSUME NEW s, NEW input, NEW N \in Nat
  PROVE  LET f == BlockLoop(s, input, N)
         IN  /\ f[0] = init_acc
             /\ \A n \in 0 .. N - 1 :
                  f[n + 1] = scramble_acc(accumulate(f[n], input, n * (StripeLen * s), 0, s))
<1> DEFINE f == BlockLoop(s, input, N)
<1>1. IsBlockLoop(f, s, input, N)
  <2>1. \E g : IsBlockLoop(g, s, input, N)
    BY BlockLoopExists
  <2> QED
    BY <2>1 DEF BlockLoop, IsBlockLoop
<1> HIDE DEF f
<1>2. f[0] = init_acc
  BY <1>1 DEF IsBlockLoop
<1>3. ASSUME NEW n \in 0 .. N - 1
      PROVE  f[n + 1] = scramble_acc(accumulate(f[n], input, n * (StripeLen * s), 0, s))
  <2> DEFINE m == n + 1
  <2>1. m \in 0 .. N /\ m # 0 /\ m - 1 = n
    OBVIOUS
  <2> HIDE DEF m
  <2>2. f[m] = scramble_acc(accumulate(f[m - 1], input, (m - 1) * (StripeLen * s), 0, s))
    BY <1>1, <2>1 DEF IsBlockLoop
  <2> QED
    BY <2>1, <2>2 DEF m
<1> QED
  BY <1>2, <1>3 DEF f

(* The input itself holds its stripes. *)
LEMMA InputHolds ==
  ASSUME NEW len \in Nat, NEW k \in Nat, NEW n \in Nat, (k + n) * StripeLen <= len
  PROVE  Holds(Input(len), k * StripeLen, k, n)
<1>1. /\ k * StripeLen \in Nat /\ n * StripeLen \in Nat
      /\ k * StripeLen + n * StripeLen = (k + n) * StripeLen
  BY SizesFact, Dist
<1>2. ASSUME NEW i \in 0 .. n * StripeLen - 1
      PROVE  Input(len)[k * StripeLen + i] = k * StripeLen + i + 1
  <2>1. k * StripeLen + i \in 0 .. len - 1
    BY <1>1
  <2> QED
    BY <2>1 DEF Input
<1> QED
  BY <1>2 DEF Holds

(* A stripe fits into an input before the byte where it ends. *)
LEMMA StripesWithin ==
  ASSUME NEW k \in Nat, k * StripeLen <= MaxInput
  PROVE  k <= MaxInput
<1>1. StripeLen \in Nat \ {0} /\ MaxInput \in Nat
  BY SizesFact, StreamAssumption
<1>2. k <= k * StripeLen /\ k * StripeLen \in Nat
  BY <1>1
<1> QED
  BY <1>1, <1>2

(* Multiples of the block are multiples of the stripe. *)
LEMMA BlockStart ==
  ASSUME NEW n \in Nat, NEW s \in Nat
  PROVE  /\ n * s \in Nat
         /\ n * (StripeLen * s) = (n * s) * StripeLen
         /\ (n + 1) * (StripeLen * s) = (n * s + s) * StripeLen
<1>1. StripeLen \in Nat
  BY SizesFact
<1>2. n * s \in Nat /\ n * (StripeLen * s) = (n * s) * StripeLen
  BY <1>1
<1>3. (n + 1) * (StripeLen * s) = n * (StripeLen * s) + StripeLen * s
  BY <1>1
<1>4. (n * s + s) * StripeLen = (n * s) * StripeLen + s * StripeLen
  BY <1>1, <1>2
<1>5. StripeLen * s = s * StripeLen
  BY <1>1
<1> QED
  BY <1>2, <1>3, <1>4, <1>5

LEMMA MultipleOf ==
  ASSUME NEW n \in Nat, NEW s \in Nat \ {0}
  PROVE  (n * s) % s = 0
<1> DEFINE x == n * s
<1>1. x \in Nat /\ x = n * s + 0
  OBVIOUS
<1> HIDE DEF x
<1>2. x % s = 0
  BY <1>1, Divided
<1> QED
  BY <1>2 DEF x

LEMMA BlockOfStripes ==
  ASSUME NEW n \in Nat, NEW m \in Nat, NEW l \in Nat
  PROVE  n * m \in Nat /\ n * (m * l) = (n * m) * l /\ n * (m * l) \in Nat
  OBVIOUS

(* A whole block, and the scramble behind it. *)
LEMMA BlockAlong ==
  ASSUME NEW s \in Nat \ {0}, NEW k \in Nat, k % s = 0, k + s <= MaxInput,
         NEW memory, NEW from \in Nat, Holds(memory, from, k, s)
  PROVE  scramble_acc(accumulate(Along(s)[k], memory, from, 0, s)) = Along(s)[k + s]
<1> DEFINE n == s
<1>1. n \in Nat /\ (k % s) + n <= s /\ k + n <= MaxInput /\ Holds(memory, from, k, n)
      /\ (k % s) + n = s /\ n > 0
  OBVIOUS
<1> HIDE DEF n
<1>2. scramble_acc(accumulate(Along(s)[k], memory, from, k % s, n)) = Along(s)[k + n]
  BY <1>1, AccumulateAlong
<1> QED
  BY <1>2 DEF n

LEMMA BlocksAlong ==
  ASSUME NEW s \in Nat \ {0}, NEW len \in 0 .. MaxInput, NEW N \in Nat,
         N * (StripeLen * s) <= len
  PROVE  BlockLoop(s, Input(len), N)[N] = Along(s)[N * s]
<1> DEFINE f == BlockLoop(s, Input(len), N)
           b == StripeLen * s
           S == {n \in Nat : n <= N => f[n] = Along(s)[n * s]}
<1>1. /\ f[0] = init_acc
      /\ \A n \in 0 .. N - 1 :
           f[n + 1] = scramble_acc(accumulate(f[n], Input(len), n * b, 0, s))
  BY BlockLoopEquation
<1> HIDE DEF f
<1>2. StripeLen \in Nat \ {0} /\ MaxInput \in Nat /\ b \in Nat
  BY SizesFact, StreamAssumption
<1>3. 0 \in S
  <2>1. 0 * s = 0
    OBVIOUS
  <2> QED
    BY <1>1, <2>1, AlongEquation
<1>4. ASSUME NEW n \in Nat, n \in S PROVE n + 1 \in S
  <2> SUFFICES ASSUME n + 1 <= N PROVE f[n + 1] = Along(s)[(n + 1) * s]
    OBVIOUS
  <2> DEFINE k == n * s
  <2>1. n \in 0 .. N - 1 /\ f[n] = Along(s)[k]
    BY <1>4
  <2>2. k \in Nat /\ n * b = k * StripeLen /\ (n + 1) * b = (k + s) * StripeLen
    BY BlockStart
  <2>3. (n + 1) * b <= N * b
    BY <1>2, Mono
  <2>4. (k + s) * StripeLen <= len
    <3> HIDE DEF k, b
    <3>1. (k + s) * StripeLen \in Nat /\ N * b \in Nat
      BY <1>2, <2>2, Dist
    <3>2. N * b <= len
      BY DEF b
    <3> QED
      BY <2>2, <2>3, <3>1, <3>2
  <2>5. k % s = 0
    BY MultipleOf
  <2>6. (n + 1) * s = k + s
    BY Dist
  <2> HIDE DEF k, b
  <2>7. k + s <= MaxInput /\ k * StripeLen \in Nat
    <3>1. (k + s) * StripeLen \in Nat /\ k + s \in Nat /\ k * StripeLen \in Nat
      BY <1>2, <2>2, Dist
    <3>2. (k + s) * StripeLen <= MaxInput
      BY <1>2, <2>4, <3>1
    <3> QED
      BY <3>1, <3>2, StripesWithin
  <2>8. Holds(Input(len), k * StripeLen, k, s)
    BY <2>2, <2>4, InputHolds
  <2>9. scramble_acc(accumulate(Along(s)[k], Input(len), k * StripeLen, 0, s)) = Along(s)[k + s]
    BY <2>2, <2>5, <2>7, <2>8, BlockAlong
  <2> QED
    BY <1>1, <2>1, <2>2, <2>6, <2>9
<1>5. Nat \subseteq S
  <2> HIDE DEF S
  <2> QED
    BY <1>3, <1>4, NatSetInduction
<1> QED
  BY <1>5 DEF f

(* The one-shot hash walks to the last whole stripe. *)
LEMMA OneShotAlong ==
  ASSUME NEW s \in Nat \ {0}, NEW len \in 0 .. MaxInput
  PROVE  hash_long_internal_loop(s, Input(len), len) =
           IF len % StripeLen # 0
             THEN accumulate_last(Along(s)[len \div StripeLen], Bytes(Input(len), len - StripeLen))
             ELSE Along(s)[len \div StripeLen]
<1> DEFINE b    == StripeLen * s
           N    == len \div b
           f    == BlockLoop(s, Input(len), N)
           rest == (len - b * N) \div StripeLen
           full == accumulate(f[N], Input(len), N * b, 0, rest)
<1>1. hash_long_internal_loop(s, Input(len), len) =
        IF len % StripeLen # 0 THEN accumulate_last(full, Bytes(Input(len), len - StripeLen)) ELSE full
  BY DEF hash_long_internal_loop, BlockLoop
<1>2. StripeLen \in Nat \ {0} /\ MaxInput \in Nat /\ b \in Nat \ {0} /\ len \in Nat
  BY SizesFact, StreamAssumption
<1>3. PICK q \in Nat, r \in 0 .. b - 1 : len = q * b + r /\ N = q
  <2> HIDE DEF b
  <2> QED
    BY <1>2, Parts
<1> DEFINE k == q * s
<1>4. k \in Nat /\ q * b = k * StripeLen /\ b * q = q * b /\ q * b \in Nat /\ k * StripeLen \in Nat
  BY <1>2, BlockStart
<1>5. k % s = 0
  BY MultipleOf
<1> HIDE DEF k
<1>6. len - b * N = r
  <2> HIDE DEF b, N
  <2> QED
    BY <1>2, <1>3, <1>4
<1>7. PICK m \in Nat, t \in 0 .. StripeLen - 1 : r = m * StripeLen + t /\ rest = m
  <2>1. r \in Nat
    BY <1>2
  <2> HIDE DEF b, N
  <2> QED
    BY <1>2, <1>6, <2>1, Parts
<1>8. m < s
  <2>1. ASSUME s <= m PROVE FALSE
    <3>1. s * StripeLen <= m * StripeLen /\ m * StripeLen \in Nat
      BY <1>2, <2>1, Mono, Dist
    <3>2. s * StripeLen = b
      BY <1>2
    <3> HIDE DEF b
    <3> QED
      BY <1>2, <1>7, <3>1, <3>2
  <2> QED
    BY <2>1
<1>9. (k + m) * StripeLen = k * StripeLen + m * StripeLen /\ m * StripeLen \in Nat
  BY <1>2, <1>4, Dist
<1>10. len = (k + m) * StripeLen + t
  <2> HIDE DEF b, N, rest
  <2> QED
    BY <1>3, <1>4, <1>7, <1>9
<1>11. len \div StripeLen = k + m
  <2> DEFINE p == k + m
  <2>1. p \in Nat /\ len = p * StripeLen + t
    BY <1>4, <1>10
  <2> HIDE DEF p, b
  <2>2. len \div StripeLen = p
    BY <1>2, <2>1, Divided
  <2> QED
    BY <2>2 DEF p
<1>12. (k + m) * StripeLen <= len /\ (k + m) * StripeLen <= MaxInput /\ k + m \in Nat
  <2> HIDE DEF b, N, rest
  <2> QED
    BY <1>2, <1>4, <1>9, <1>10
<1>13. Holds(Input(len), k * StripeLen, k, m) /\ k + m <= MaxInput
  BY <1>2, <1>4, <1>12, InputHolds, StripesWithin
<1>14. f[N] = Along(s)[k]
  <2>1. q * b <= len
    <3> HIDE DEF b
    <3> QED
      BY <1>2, <1>3, <1>4
  <2>2. BlockLoop(s, Input(len), q)[q] = Along(s)[q * s]
    BY <2>1, BlocksAlong
  <2> QED
    BY <1>3, <2>2 DEF k
<1>15. full = Along(s)[k + m]
  <2>1. (k % s) + m <= s /\ (k % s) + m < s
    BY <1>5, <1>8
  <2>2. accumulate(Along(s)[k], Input(len), k * StripeLen, k % s, m) = Along(s)[k + m]
    BY <1>4, <1>13, <2>1, AccumulateAlong
  <2>3. N * b = k * StripeLen
    <3> HIDE DEF b, N
    <3> QED
      BY <1>3, <1>4
  <2> HIDE DEF f, N, b, rest
  <2> QED
    BY <1>5, <1>7, <1>14, <2>2, <2>3
<1> HIDE DEF full
<1> QED
  BY <1>1, <1>11, <1>15

-----------------------------------------------------------------------------
(* The buffer. *)

LEMMA EmptyIInv ==
  ASSUME buffer' = EmptyBuffer, bufferedSize' = 0, totalLen' = 0, direct' = FALSE
  PROVE  IInv'
<1>1. buffer' \in [0 .. internal_buffer_size - 1 -> 0 .. totalLen']
  BY DEF EmptyBuffer
<1>2. EndBuffered' /\ PastBuffered'
  BY DEF EndBuffered, PastBuffered
<1>3. bufferedSize' \in 0 .. internal_buffer_size /\ totalLen' \in Nat /\ bufferedSize' <= totalLen'
  BY SizesFact
<1>4. direct' \in BOOLEAN
  OBVIOUS
<1> QED
  BY <1>1, <1>2, <1>3, <1>4 DEF IInv

LEMMA InitIInv == Init => IInv
<1> SUFFICES ASSUME Init PROVE IInv
  OBVIOUS
<1>1. buffer \in [0 .. internal_buffer_size - 1 -> 0 .. totalLen]
  BY DEF Init, EmptyBuffer
<1>2. EndBuffered /\ PastBuffered
  BY DEF Init, EndBuffered, PastBuffered
<1>3. bufferedSize \in 0 .. internal_buffer_size /\ totalLen \in Nat /\ bufferedSize <= totalLen
  BY SizesFact DEF Init
<1>4. direct \in BOOLEAN
  BY DEF Init
<1> QED
  BY <1>1, <1>2, <1>3, <1>4 DEF IInv

(* A division by the size of the buffer. *)
LEMMA Quotient ==
  ASSUME NEW n \in Nat, NEW b \in Nat \ {0}
  PROVE  /\ n \div b \in Nat /\ n % b \in 0 .. b - 1 /\ n % b <= n
         /\ n \div b = 0 => n % b = n
  OBVIOUS

(* A piece that fits is put behind what waits. *)
LEMMA BufferedStep ==
  ASSUME IInv, NEW len \in Lengths, update_buffered(len), totalLen' = totalLen + len
  PROVE  IInv'
<1>1. /\ len \in Nat /\ bufferedSize \in Nat /\ totalLen \in Nat
      /\ internal_buffer_size \in Nat \ {0} /\ bufferedSize + len <= internal_buffer_size
      /\ bufferedSize' = bufferedSize + len /\ direct' = direct
  BY SizesFact, StreamAssumption DEF IInv, update_buffered
<1>2. DOMAIN buffer = 0 .. internal_buffer_size - 1
  BY DEF IInv
<1>3. ASSUME NEW i \in 0 .. internal_buffer_size - 1
      PROVE  buffer'[i] = IF bufferedSize <= i /\ i < bufferedSize + len
                            THEN (totalLen - bufferedSize) + i + 1 ELSE buffer[i]
  <2>1. CASE bufferedSize <= i /\ i < bufferedSize + len
    <3>1. i - bufferedSize \in 0 .. len - 1
      BY <1>1, <2>1
    <3>2. Piece(len)[i - bufferedSize] = totalLen + (i - bufferedSize) + 1
      BY <3>1 DEF Piece
    <3> QED
      BY <1>1, <1>2, <2>1, <3>2 DEF update_buffered
  <2> QED
    BY <1>2, <2>1 DEF update_buffered
<1>4. buffer' = [i \in 0 .. internal_buffer_size - 1 |-> buffer'[i]]
  BY <1>2 DEF update_buffered
<1>5. buffer' \in [0 .. internal_buffer_size - 1 -> 0 .. totalLen']
  <2>1. ASSUME NEW i \in 0 .. internal_buffer_size - 1
        PROVE  buffer'[i] \in 0 .. totalLen'
    <3>1. buffer[i] \in 0 .. totalLen /\ bufferedSize <= totalLen
      BY DEF IInv
    <3> QED
      BY <1>1, <1>3, <3>1
  <2> QED
    BY <1>4, <2>1
<1>6. EndBuffered'
  <2> SUFFICES ASSUME NEW i \in 0 .. bufferedSize' - 1
               PROVE  buffer'[i] = (totalLen' - bufferedSize') + i + 1
    BY DEF EndBuffered
  <2>1. i \in 0 .. internal_buffer_size - 1
    BY <1>1
  <2>2. i < bufferedSize => buffer[i] = (totalLen - bufferedSize) + i + 1
    BY <1>1 DEF IInv, EndBuffered
  <2> QED
    BY <1>1, <1>3, <2>1, <2>2
<1>7. PastBuffered'
  <2> SUFFICES ASSUME ~direct, totalLen' > bufferedSize',
                      NEW i \in bufferedSize' .. internal_buffer_size - 1
               PROVE  buffer'[i] + internal_buffer_size = (totalLen' - bufferedSize') + i + 1
    BY <1>1 DEF PastBuffered
  <2>1. buffer'[i] = buffer[i] /\ i \in bufferedSize .. internal_buffer_size - 1
    BY <1>1, <1>3
  <2> QED
    BY <1>1, <2>1 DEF IInv, PastBuffered
<1> QED
  BY <1>1, <1>5, <1>6, <1>7 DEF IInv

(* A full buffer holds the input without a gap. *)
LEMMA FilledBytes ==
  ASSUME IInv, NEW len \in Nat, bufferedSize + len > internal_buffer_size,
         NEW i \in 0 .. internal_buffer_size - 1
  PROVE  /\ Filled(len)[i] \in 0 .. totalLen + len
         /\ bufferedSize > 0 => Filled(len)[i] = (totalLen - bufferedSize) + i + 1
<1>1. /\ bufferedSize \in 0 .. internal_buffer_size /\ totalLen \in Nat
      /\ internal_buffer_size \in Nat \ {0}
      /\ buffer \in [0 .. internal_buffer_size - 1 -> 0 .. totalLen]
      /\ bufferedSize <= totalLen
  BY SizesFact DEF IInv
<1>2. Filled(len)[i] = IF bufferedSize > 0 /\ bufferedSize <= i
                         THEN Piece(len)[i - bufferedSize] ELSE buffer[i]
  BY <1>1 DEF Filled
<1>3. CASE bufferedSize > 0 /\ bufferedSize <= i
  <2>1. i - bufferedSize \in 0 .. len - 1
    BY <1>1, <1>3
  <2>2. Piece(len)[i - bufferedSize] = totalLen + (i - bufferedSize) + 1
    BY <2>1 DEF Piece
  <2> QED
    BY <1>1, <1>2, <1>3, <2>2
<1>4. CASE ~(bufferedSize > 0 /\ bufferedSize <= i)
  <2>1. Filled(len)[i] = buffer[i] /\ buffer[i] \in 0 .. totalLen
    BY <1>1, <1>2, <1>4
  <2>2. bufferedSize > 0 => buffer[i] = (totalLen - bufferedSize) + i + 1
    BY <1>1, <1>4 DEF IInv, EndBuffered
  <2> QED
    BY <1>1, <2>1, <2>2
<1> QED
  BY <1>3, <1>4

(* A piece that does not fit: unless whole buffers of it were consumed
   directly, what is kept lies over a full buffer that was consumed.       *)
LEMMA ConsumingStep ==
  ASSUME IInv, NEW len \in Lengths, update_consuming(len), totalLen' = totalLen + len
  PROVE  IInv'
<1> DEFINE b     == internal_buffer_size
           left  == len - LoadSize
           whole == left \div b
           rest  == left % b
<1>1. /\ len \in Nat /\ bufferedSize \in 0 .. b /\ totalLen \in Nat /\ b \in Nat \ {0}
      /\ bufferedSize <= totalLen
  BY SizesFact, StreamAssumption DEF IInv
<1>2. bufferedSize + len > b
  BY DEF update_consuming
<1>3. /\ left \in Nat /\ left <= len
      /\ bufferedSize > 0 => left = len - (b - bufferedSize)
      /\ bufferedSize = 0 => left = len
  BY <1>1, <1>2 DEF LoadSize
<1>4. bufferedSize' = rest /\ direct' = (whole > 0)
  BY DEF update_consuming
<1>5. buffer' = [i \in DOMAIN buffer |->
                   IF i < rest THEN Piece(len)[len - rest + i] ELSE Filled(len)[i]]
  BY DEF update_consuming
<1> HIDE DEF b, left
<1>6. /\ whole \in Nat /\ rest \in 0 .. b - 1 /\ rest <= left
      /\ whole = 0 => rest = left
  BY <1>1, <1>3, Quotient
<1> HIDE DEF whole, rest
<1>7. DOMAIN buffer = 0 .. b - 1
  BY DEF IInv, b
<1>8. ASSUME NEW i \in 0 .. b - 1, i < rest
      PROVE  buffer'[i] = (totalLen' - rest) + i + 1 /\ buffer'[i] \in 0 .. totalLen'
  <2>1. len - rest + i \in 0 .. len - 1
    BY <1>1, <1>3, <1>6, <1>8
  <2>2. Piece(len)[len - rest + i] = totalLen + (len - rest + i) + 1
    BY <2>1 DEF Piece
  <2>3. buffer'[i] = totalLen + (len - rest + i) + 1
    BY <1>5, <1>7, <1>8, <2>2
  <2> QED
    BY <1>1, <1>6, <1>8, <2>1, <2>3
<1>9. ASSUME NEW i \in 0 .. b - 1, ~(i < rest)
      PROVE  buffer'[i] = Filled(len)[i] /\ buffer'[i] \in 0 .. totalLen'
             /\ (bufferedSize > 0 => buffer'[i] = (totalLen - bufferedSize) + i + 1)
  <2>1. buffer'[i] = Filled(len)[i]
    BY <1>5, <1>7, <1>9
  <2> QED
    BY <1>1, <1>2, <2>1, FilledBytes DEF b
<1>10. buffer' \in [0 .. b - 1 -> 0 .. totalLen']
  <2>1. \A i \in 0 .. b - 1 : buffer'[i] \in 0 .. totalLen'
    BY <1>8, <1>9
  <2>2. buffer' = [i \in 0 .. b - 1 |-> buffer'[i]]
    BY <1>5, <1>7
  <2> QED
    BY <2>1, <2>2
<1>11. EndBuffered'
  <2> SUFFICES ASSUME NEW i \in 0 .. bufferedSize' - 1
               PROVE  buffer'[i] = (totalLen' - bufferedSize') + i + 1
    BY DEF EndBuffered
  <2>1. i \in 0 .. b - 1 /\ i < rest
    BY <1>1, <1>4, <1>6
  <2> QED
    BY <1>4, <1>8, <2>1
<1>12. PastBuffered'
  <2> SUFFICES ASSUME ~direct', NEW i \in bufferedSize' .. internal_buffer_size - 1
               PROVE  buffer'[i] + internal_buffer_size = (totalLen' - bufferedSize') + i + 1
    BY DEF PastBuffered
  <2>1. rest = left
    <3>1. ~(whole > 0)
      BY <1>4
    <3> QED
      BY <1>6, <3>1
  <2>2. bufferedSize > 0
    <3>1. left < b
      BY <1>1, <1>6, <2>1
    <3>2. bufferedSize = 0 => len > b /\ left = len
      BY <1>1, <1>2, <1>3
    <3> QED
      BY <1>1, <3>1, <3>2
  <2>3. i \in 0 .. b - 1 /\ ~(i < rest)
    BY <1>1, <1>4, <1>6 DEF b
  <2>4. buffer'[i] = (totalLen - bufferedSize) + i + 1
    BY <1>9, <2>2, <2>3
  <2>5. totalLen' - bufferedSize' = totalLen + (b - bufferedSize)
    BY <1>1, <1>3, <1>4, <2>1, <2>2
  <2>6. b = internal_buffer_size
    BY DEF b
  <2> QED
    BY <1>1, <2>3, <2>4, <2>5, <2>6
<1>13. /\ bufferedSize' \in 0 .. b /\ totalLen' \in Nat /\ bufferedSize' <= totalLen'
       /\ direct' \in BOOLEAN
  BY <1>1, <1>3, <1>4, <1>6
<1> QED
  BY <1>10, <1>11, <1>12, <1>13 DEF IInv, b


-----------------------------------------------------------------------------
(* The stream. *)

(* What is consumed of a full buffer, and the loop of update behind it. *)
First(len) ==
  IF bufferedSize > 0 THEN consume_stripes(acc, nbStripesSoFar, BufferStripes, Filled(len), 0)
                      ELSE [acc |-> acc, soFar |-> nbStripesSoFar]

ConsumeStep(len, x, n) ==
  consume_stripes(x.acc, x.soFar, BufferStripes, Piece(len), LoadSize + (n - 1) * internal_buffer_size)

ConsumeLoop(len, N) ==
  LET consumed[n \in 0 .. N] == IF n = 0 THEN First(len) ELSE ConsumeStep(len, consumed[n - 1], n)
  IN  consumed

IsConsumeLoop(f, len, N) ==
  f = [n \in 0 .. N |-> IF n = 0 THEN First(len) ELSE ConsumeStep(len, f[n - 1], n)]

LEMMA ConsumeLoopExists ==
  ASSUME NEW len
  PROVE  \A N \in Nat : \E f : IsConsumeLoop(f, len, N)
<1> DEFINE G(x, n) == ConsumeStep(len, x, n)
           P(f, N) == f = [n \in 0 .. N |-> IF n = 0 THEN First(len) ELSE G(f[n - 1], n)]
           S == {N \in Nat : \E f : P(f, N)}
<1> HIDE DEF G
<1>1. 0 \in S
  <2>1. P([n \in {0} |-> First(len)], 0)
    OBVIOUS
  <2> HIDE DEF P
  <2> QED
    BY <2>1
<1>2. ASSUME NEW N \in Nat, N \in S PROVE N + 1 \in S
  <2>1. PICK f : P(f, N)
    BY <1>2
  <2> DEFINE g == [n \in 0 .. N + 1 |-> IF n = 0 THEN First(len) ELSE G(f[n - 1], n)]
  <2>2. ASSUME NEW n \in 0 .. N PROVE g[n] = f[n]
    BY <2>1
  <2>3. P(g, N + 1)
    <3>1. ASSUME NEW n \in 0 .. N + 1, n # 0 PROVE n - 1 \in 0 .. N
      BY <3>1
    <3> HIDE DEF g
    <3>2. ASSUME NEW n \in 0 .. N + 1, n # 0 PROVE g[n - 1] = f[n - 1]
      BY <3>1, <3>2, <2>2
    <3> QED
      BY <3>2 DEF g
  <2> HIDE DEF P
  <2> QED
    BY <2>3
<1>3. Nat \subseteq S
  <2> HIDE DEF S
  <2> QED
    BY <1>1, <1>2, NatSetInduction
<1> QED
  BY <1>3 DEF G, IsConsumeLoop

LEMMA ConsumeLoopEquation ==
  ASSUME NEW len, NEW N \in Nat
  PROVE  LET f == ConsumeLoop(len, N)
         IN  /\ f[0] = First(len)
             /\ \A n \in 0 .. N - 1 : f[n + 1] = ConsumeStep(len, f[n], n + 1)
<1> DEFINE f == ConsumeLoop(len, N)
<1>1. IsConsumeLoop(f, len, N)
  <2>1. \E g : IsConsumeLoop(g, len, N)
    BY ConsumeLoopExists
  <2> QED
    BY <2>1 DEF ConsumeLoop, IsConsumeLoop
<1> HIDE DEF f
<1>2. f[0] = First(len)
  BY <1>1 DEF IsConsumeLoop
<1>3. ASSUME NEW n \in 0 .. N - 1
      PROVE  f[n + 1] = ConsumeStep(len, f[n], n + 1)
  <2> DEFINE m == n + 1
  <2>1. m \in 0 .. N /\ m # 0 /\ m - 1 = n
    OBVIOUS
  <2> HIDE DEF m
  <2>2. f[m] = ConsumeStep(len, f[m - 1], m)
    BY <1>1, <2>1 DEF IsConsumeLoop
  <2> QED
    BY <2>1, <2>2 DEF m
<1> QED
  BY <1>2, <1>3 DEF f

(* A place of the walk, as consume_stripes returns it. *)
Place(s, k) == [acc |-> Along(s)[k], soFar |-> k % s]

LEMMA BlockFacts ==
  ASSUME nbStripesPerBlock \in Secrets
  PROVE  /\ nbStripesPerBlock \in Nat \ {0} /\ BufferStripes \in 0 .. nbStripesPerBlock
         /\ BufferStripes \in Nat \ {0} /\ MaxInput \in Nat
         /\ internal_buffer_size = BufferStripes * StripeLen
<1>1. /\ BufferStripes \in Nat \ {0} /\ nbStripesPerBlock \in Nat
      /\ nbStripesPerBlock >= BufferStripes /\ MaxInput \in Nat
  BY StreamAssumption
<1> QED
  BY <1>1 DEF internal_buffer_size

(* The first of c stripes that a piece behind them is consumed with. *)
Base(c) == IF bufferedSize > 0 THEN c + BufferStripes ELSE c

LEMMA BasePlace ==
  ASSUME SInv, NEW c \in Nat, At(c), NEW len \in Nat,
         bufferedSize + len > internal_buffer_size
  PROVE  /\ Base(c) \in Nat /\ LoadSize \in 0 .. len /\ totalLen \in Nat
         /\ Base(c) * StripeLen = totalLen + LoadSize
<1>1. /\ StripeLen \in Nat \ {0} /\ bufferedSize \in 0 .. internal_buffer_size
      /\ totalLen \in Nat /\ internal_buffer_size \in Nat
  BY SizesFact DEF SInv, IInv
<1>2. BufferStripes \in Nat /\ internal_buffer_size = BufferStripes * StripeLen
  BY BlockFacts DEF SInv
<1>3. totalLen = c * StripeLen + bufferedSize /\ c * StripeLen \in Nat
  BY <1>1, Dist DEF At
<1>4. (c + BufferStripes) * StripeLen = c * StripeLen + internal_buffer_size
  BY <1>1, <1>2, Dist
<1>5. LoadSize \in 0 .. len
  BY <1>1 DEF LoadSize
<1>6. CASE bufferedSize > 0
  <2>1. Base(c) = c + BufferStripes /\ LoadSize = internal_buffer_size - bufferedSize
    BY <1>6 DEF Base, LoadSize
  <2> QED
    BY <1>1, <1>2, <1>3, <1>4, <1>5, <2>1
<1>7. CASE ~(bufferedSize > 0)
  <2>1. Base(c) = c /\ LoadSize = 0 /\ bufferedSize = 0
    BY <1>1, <1>7 DEF Base, LoadSize
  <2> QED
    BY <1>1, <1>3, <1>5, <2>1
<1> QED
  BY <1>6, <1>7

(* The buffer, once filled up, holds the stripes behind those consumed. *)
LEMMA FirstAlong ==
  ASSUME SInv, NEW c \in Nat, At(c), NEW len \in Nat,
         bufferedSize + len > internal_buffer_size, totalLen + len <= MaxInput
  PROVE  First(len) = Place(nbStripesPerBlock, Base(c))
<1> DEFINE s == nbStripesPerBlock
<1>1. acc = Along(s)[c] /\ nbStripesSoFar = c % s
  BY DEF At
<1>2. CASE bufferedSize > 0
  <2>1. /\ Base(c) = c + BufferStripes /\ Base(c) \in Nat /\ totalLen \in Nat
        /\ Base(c) * StripeLen = totalLen + LoadSize /\ LoadSize \in 0 .. len
    BY <1>2, BasePlace DEF Base
  <2>2. /\ s \in Nat \ {0} /\ BufferStripes \in 0 .. s /\ MaxInput \in Nat
        /\ internal_buffer_size = BufferStripes * StripeLen
    BY BlockFacts DEF SInv
  <2>3. c + BufferStripes <= MaxInput
    <3>1. Base(c) * StripeLen <= MaxInput
      BY <2>1, <2>2
    <3> QED
      BY <2>1, <3>1, StripesWithin
  <2>4. Holds(Filled(len), 0, c, BufferStripes)
    <3>1. totalLen - bufferedSize = c * StripeLen
      <4>1. c * StripeLen \in Nat /\ bufferedSize \in Nat
        BY SizesFact, Dist DEF SInv, IInv
      <4> QED
        BY <4>1 DEF At
    <3>2. ASSUME NEW i \in 0 .. BufferStripes * StripeLen - 1
          PROVE  Filled(len)[0 + i] = c * StripeLen + i + 1
      <4>1. i \in 0 .. internal_buffer_size - 1 /\ 0 + i = i
        BY <2>2
      <4>2. Filled(len)[i] = (totalLen - bufferedSize) + i + 1
        BY <1>2, <4>1, FilledBytes DEF SInv
      <4> QED
        BY <3>1, <4>1, <4>2
    <3> QED
      BY <3>2 DEF Holds
  <2>5. First(len) = [acc |-> Along(s)[c + BufferStripes], soFar |-> (c + BufferStripes) % s]
    <3>1. First(len) = consume_stripes(Along(s)[c], c % s, BufferStripes, Filled(len), 0)
      BY <1>1, <1>2 DEF First
    <3> QED
      BY <2>2, <2>3, <2>4, <3>1, ConsumeAlong
  <2> QED
    BY <2>1, <2>5 DEF Place
<1>3. CASE ~(bufferedSize > 0)
  BY <1>1, <1>3 DEF First, Base, Place
<1> QED
  BY <1>2, <1>3

(* The piece holds the stripes behind the buffer. *)
LEMMA PieceHolds ==
  ASSUME NEW len \in Nat, totalLen \in Nat, NEW from \in Nat, NEW k \in Nat, NEW n \in Nat,
         k * StripeLen = totalLen + from, from + n * StripeLen <= len
  PROVE  Holds(Piece(len), from, k, n)
<1>1. n * StripeLen \in Nat
  BY SizesFact, Dist
<1>2. ASSUME NEW i \in 0 .. n * StripeLen - 1
      PROVE  Piece(len)[from + i] = k * StripeLen + i + 1
  <2>1. from + i \in 0 .. len - 1
    BY <1>1
  <2>2. Piece(len)[from + i] = totalLen + (from + i) + 1
    BY <2>1 DEF Piece
  <2> QED
    BY <1>1, <2>2
<1> QED
  BY <1>2 DEF Holds

(* Whole buffers of the piece. *)
LEMMA LoopAlong ==
  ASSUME SInv, NEW c \in Nat, At(c), NEW len \in Nat,
         bufferedSize + len > internal_buffer_size, totalLen + len <= MaxInput,
         NEW N \in Nat, LoadSize + N * internal_buffer_size <= len
  PROVE  ConsumeLoop(len, N)[N] = Place(nbStripesPerBlock, Base(c) + N * BufferStripes)
<1> DEFINE s == nbStripesPerBlock
           b == internal_buffer_size
           f == ConsumeLoop(len, N)
           S == {n \in Nat : n <= N => f[n] = Place(s, Base(c) + n * BufferStripes)}
<1>1. f[0] = First(len) /\ \A n \in 0 .. N - 1 : f[n + 1] = ConsumeStep(len, f[n], n + 1)
  BY ConsumeLoopEquation
<1> HIDE DEF f
<1>2. /\ s \in Nat \ {0} /\ BufferStripes \in 0 .. s /\ BufferStripes \in Nat /\ MaxInput \in Nat
      /\ b = BufferStripes * StripeLen /\ b \in Nat /\ StripeLen \in Nat
  BY BlockFacts, SizesFact DEF SInv
<1>3. /\ Base(c) \in Nat /\ LoadSize \in 0 .. len /\ totalLen \in Nat
      /\ Base(c) * StripeLen = totalLen + LoadSize
  BY BasePlace
<1>4. 0 \in S
  <2>1. Base(c) + 0 * BufferStripes = Base(c)
    BY <1>2, <1>3
  <2> QED
    BY <1>1, <2>1, FirstAlong
<1>5. ASSUME NEW n \in Nat, n \in S PROVE n + 1 \in S
  <2> SUFFICES ASSUME n + 1 <= N PROVE f[n + 1] = Place(s, Base(c) + (n + 1) * BufferStripes)
    OBVIOUS
  <2> DEFINE k    == Base(c) + n * BufferStripes
             from == LoadSize + n * b
  <2>1. n \in 0 .. N - 1 /\ f[n] = Place(s, k)
    BY <1>5
  <2>2. n * BufferStripes \in Nat /\ n * b = (n * BufferStripes) * StripeLen /\ n * b \in Nat
    BY <1>2, BlockOfStripes
  <2>3. k \in Nat /\ from \in Nat
    BY <1>3, <2>2
  <2>4. k * StripeLen = totalLen + from
    <3>1. Base(c) * StripeLen + (n * BufferStripes) * StripeLen = k * StripeLen
      BY <1>2, <1>3, <2>2, Dist
    <3> QED
      BY <1>3, <2>2, <3>1
  <2>5. from + b <= len
    <3>1. (n + 1) * b = n * b + b /\ (n + 1) * b <= N * b /\ N * b \in Nat
      BY <1>2, Dist, Mono
    <3>2. LoadSize + N * b <= len
      OBVIOUS
    <3> HIDE DEF b
    <3> QED
      BY <1>2, <1>3, <2>2, <3>1, <3>2
  <2>6. Base(c) + (n + 1) * BufferStripes = k + BufferStripes
    <3>1. (n + 1) * BufferStripes = n * BufferStripes + BufferStripes
      BY <1>2, Dist
    <3> QED
      BY <1>2, <1>3, <2>2, <3>1
  <2> HIDE DEF k, from, b
  <2>7. Holds(Piece(len), from, k, BufferStripes)
    BY <1>2, <1>3, <2>3, <2>4, <2>5, PieceHolds
  <2>8. k + BufferStripes <= MaxInput
    <3>1. (k + BufferStripes) * StripeLen = k * StripeLen + b
      BY <1>2, <2>3, Dist
    <3>2. (k + BufferStripes) * StripeLen <= MaxInput /\ k + BufferStripes \in Nat
      BY <1>2, <1>3, <2>3, <2>4, <2>5, <3>1
    <3> QED
      BY <3>2, StripesWithin
  <2>9. consume_stripes(Along(s)[k], k % s, BufferStripes, Piece(len), from) =
          [acc |-> Along(s)[k + BufferStripes], soFar |-> (k + BufferStripes) % s]
    BY <1>2, <2>3, <2>7, <2>8, ConsumeAlong
  <2>10. f[n + 1] = consume_stripes(f[n].acc, f[n].soFar, BufferStripes, Piece(len), from)
    <3>1. (n + 1) - 1 = n
      OBVIOUS
    <3> QED
      BY <1>1, <2>1, <3>1 DEF ConsumeStep, from, b
  <2> QED
    BY <2>1, <2>6, <2>9, <2>10 DEF Place
<1>6. Nat \subseteq S
  <2> HIDE DEF S
  <2> QED
    BY <1>4, <1>5, NatSetInduction
<1> QED
  BY <1>6 DEF f

-----------------------------------------------------------------------------
(* Where the walk starts. *)
LEMMA StartOfWalk ==
  ASSUME NEW s \in Secrets
  PROVE  0 % s = 0 /\ 0 = 0 * StripeLen + 0 /\ Along(s)[0] = init_acc
<1>1. BufferStripes \in Nat \ {0} /\ s \in Nat /\ s >= BufferStripes /\ StripeLen \in Nat
  BY StreamAssumption
<1>2. s \in Nat \ {0}
  BY <1>1
<1> QED
  BY <1>1, <1>2, AlongEquation

LEMMA EmptySInv ==
  ASSUME acc' = init_acc, buffer' = EmptyBuffer, bufferedSize' = 0, nbStripesPerBlock' \in Secrets,
         nbStripesSoFar' = 0, totalLen' = 0, direct' = FALSE
  PROVE  SInv'
<1>1. IInv'
  BY EmptyIInv
<1>2. At(0)'
  BY StartOfWalk DEF At
<1>3. totalLen' <= MaxInput
  BY StreamAssumption
<1>4. \E c \in Nat : At(c)'
  BY <1>2
<1> QED
  BY <1>1, <1>3, <1>4 DEF SInv

LEMMA InitSInv == Init => SInv
<1> SUFFICES ASSUME Init PROVE SInv
  OBVIOUS
<1>1. IInv /\ nbStripesPerBlock \in Secrets
  BY InitIInv DEF Init
<1>2. At(0)
  BY <1>1, StartOfWalk DEF At, Init
<1>3. totalLen <= MaxInput /\ totalLen = bufferedSize
  BY StreamAssumption DEF Init
<1>4. \E c \in Nat : At(c)
  BY <1>2
<1> QED
  BY <1>1, <1>3, <1>4 DEF SInv

LEMMA BufferedSInv ==
  ASSUME SInv, NEW len \in Lengths, update(len), update_buffered(len)
  PROVE  SInv'
<1>1. /\ len \in Nat /\ bufferedSize \in Nat /\ totalLen \in Nat /\ internal_buffer_size \in Nat
      /\ bufferedSize' = bufferedSize + len /\ totalLen' = totalLen + len /\ totalLen' <= MaxInput
      /\ acc' = acc /\ nbStripesSoFar' = nbStripesSoFar /\ nbStripesPerBlock' = nbStripesPerBlock
  BY SizesFact, StreamAssumption DEF SInv, IInv, update, update_buffered
<1>2. IInv'
  BY BufferedStep DEF SInv, update
<1>3. PICK c \in Nat : At(c)
  BY DEF SInv
<1>4. At(c)'
  <2>1. c * StripeLen \in Nat
    BY SizesFact, Dist
  <2>2. totalLen' = c * StripeLen + bufferedSize'
    BY <1>1, <1>3, <2>1 DEF At
  <2> QED
    BY <1>1, <1>3, <2>2 DEF At
<1>5. totalLen' # bufferedSize' => totalLen' > internal_buffer_size
  <2>1. totalLen # bufferedSize => totalLen > internal_buffer_size
    BY DEF SInv
  <2> QED
    BY <1>1, <2>1
<1> QED
  BY <1>1, <1>2, <1>4, <1>5 DEF SInv

LEMMA ConsumingSInv ==
  ASSUME SInv, NEW len \in Lengths, update(len), update_consuming(len)
  PROVE  SInv'
<1> DEFINE b     == internal_buffer_size
           left  == len - LoadSize
           whole == left \div b
           rest  == left % b
<1>1. /\ len \in Nat /\ bufferedSize \in Nat /\ totalLen \in Nat /\ b \in Nat \ {0}
      /\ StripeLen \in Nat /\ totalLen' = totalLen + len /\ totalLen + len <= MaxInput
      /\ nbStripesPerBlock' = nbStripesPerBlock /\ bufferedSize + len > b
      /\ bufferedSize <= totalLen
  BY SizesFact, StreamAssumption DEF SInv, IInv, update, update_consuming
<1>2. IInv'
  BY ConsumingStep DEF SInv, update
<1>3. PICK c \in Nat : At(c)
  BY DEF SInv
<1>4. /\ Base(c) \in Nat /\ LoadSize \in 0 .. len
      /\ Base(c) * StripeLen = totalLen + LoadSize
  BY <1>1, <1>3, BasePlace
<1>5. PICK q \in Nat, r \in 0 .. b - 1 : left = q * b + r /\ whole = q /\ rest = r
  <2>1. left \in Nat
    BY <1>1, <1>4
  <2> HIDE DEF b, left
  <2> QED
    BY <1>1, <2>1, Parts
<1>6. /\ acc' = ConsumeLoop(len, whole)[whole].acc
      /\ nbStripesSoFar' = ConsumeLoop(len, whole)[whole].soFar
      /\ bufferedSize' = rest
  BY DEF update_consuming, ConsumeLoop, First, ConsumeStep
<1>7. /\ BufferStripes \in Nat /\ b = BufferStripes * StripeLen
  BY BlockFacts DEF SInv
<1>8. q * BufferStripes \in Nat /\ q * b = (q * BufferStripes) * StripeLen /\ q * b \in Nat
  BY <1>1, <1>7, BlockOfStripes
<1>9. LoadSize + q * b <= len
  <2> HIDE DEF b
  <2> QED
    BY <1>1, <1>4, <1>5, <1>8
<1>10. ConsumeLoop(len, q)[q] = Place(nbStripesPerBlock, Base(c) + q * BufferStripes)
  BY <1>1, <1>3, <1>9, LoopAlong
<1> DEFINE e == Base(c) + q * BufferStripes
<1>11. PICK d \in Nat : d = e
  BY <1>4, <1>8
<1>12. acc' = Along(nbStripesPerBlock)[d] /\ nbStripesSoFar' = d % nbStripesPerBlock
  <2> HIDE DEF whole, rest
  <2>1. ConsumeLoop(len, whole)[whole] = Place(nbStripesPerBlock, d)
    BY <1>5, <1>10, <1>11
  <2> QED
    BY <1>6, <2>1 DEF Place
<1>13. totalLen' = d * StripeLen + bufferedSize'
  <2>1. Base(c) * StripeLen + (q * BufferStripes) * StripeLen = d * StripeLen
    BY <1>1, <1>4, <1>8, <1>11, Dist
  <2> HIDE DEF whole, rest, b, e
  <2>2. d * StripeLen = totalLen + LoadSize + q * b
    BY <1>4, <1>8, <2>1
  <2>3. len = LoadSize + q * b + r
    BY <1>1, <1>4, <1>5, <1>8
  <2>4. bufferedSize' = r
    BY <1>5, <1>6
  <2> QED
    BY <1>1, <1>4, <1>5, <1>8, <2>2, <2>3, <2>4
<1>14. \E k \in Nat : At(k)'
  <2>1. At(d)'
    BY <1>1, <1>12, <1>13 DEF At
  <2> QED
    BY <2>1
<1>15. totalLen' > b /\ totalLen' <= MaxInput
  BY <1>1
<1>16. nbStripesPerBlock' \in Secrets
  BY <1>1 DEF SInv
<1> QED
  BY <1>2, <1>14, <1>15, <1>16 DEF SInv

LEMMA StepSInv == SInv /\ [Next]_vars => SInv'
<1> SUFFICES ASSUME SInv, [Next]_vars PROVE SInv'
  OBVIOUS
<1>1. ASSUME NEW s \in Secrets, reset(s) PROVE SInv'
  BY <1>1, EmptySInv DEF reset
<1>2. ASSUME NEW len \in Lengths, update(len) PROVE SInv'
  BY <1>2, BufferedSInv, ConsumingSInv DEF update
<1>3. ASSUME UNCHANGED vars PROVE SInv'
  BY <1>3 DEF vars, SInv, IInv, EndBuffered, PastBuffered, At
<1> QED
  BY <1>1, <1>2, <1>3 DEF Next

THEOREM SInvInvariant == Spec => []SInv
BY InitSInv, StepSInv, PTL DEF Spec

(* Less than a stripe waits: its bytes and the bytes before them. *)
LEMMA LastStripe ==
  ASSUME IInv, ~direct, NeedsCatchup
  PROVE  last_stripe = InputTail
<1>1. /\ bufferedSize \in 1 .. StripeLen - 1 /\ totalLen \in Nat /\ totalLen > StripeLen
      /\ StripeLen \in Nat \ {0} /\ internal_buffer_size \in Nat \ {0}
      /\ StripeLen <= internal_buffer_size
  BY SizesFact DEF NeedsCatchup, IInv
<1>2. ASSUME NEW i \in 1 .. StripeLen
      PROVE  last_stripe[i] = totalLen - StripeLen + i
  <2> DEFINE catchup == StripeLen - bufferedSize
  <2>1. last_stripe[i] = IF i <= catchup
                           THEN buffer[internal_buffer_size - catchup + i - 1]
                           ELSE buffer[i - catchup - 1]
    BY DEF last_stripe
  <2>2. CASE i <= catchup
    <3> DEFINE j == internal_buffer_size - catchup + i - 1
    <3>1. j \in bufferedSize .. internal_buffer_size - 1
      BY <1>1, <2>2
    <3>2. buffer[j] + internal_buffer_size = (totalLen - bufferedSize) + j + 1
      BY <1>1, <3>1 DEF IInv, PastBuffered
    <3>3. buffer[j] \in Nat
      BY <1>1, <3>1 DEF IInv
    <3> QED
      BY <1>1, <2>1, <2>2, <3>1, <3>2, <3>3
  <2>3. CASE ~(i <= catchup)
    <3> DEFINE j == i - catchup - 1
    <3>1. j \in 0 .. bufferedSize - 1
      BY <1>1, <2>3
    <3>2. buffer[j] = (totalLen - bufferedSize) + j + 1
      BY <3>1 DEF IInv, EndBuffered
    <3> QED
      BY <1>1, <2>1, <2>3, <3>2
  <2> QED
    BY <2>2, <2>3
<1> QED
  BY <1>2 DEF last_stripe, InputTail

(* The last stripe of digest_long is the end of the input, whatever the
   pieces, unless update consumed input without copying it.               *)
THEOREM LastStripeAlwaysBuffered == Spec => []LastStripeIsBuffered
<1>1. SInv => LastStripeIsBuffered
  BY LastStripe DEF SInv, LastStripeIsBuffered, LastStripeIsInputTail
<1> QED
  BY <1>1, SInvInvariant, PTL

-----------------------------------------------------------------------------
(* Digests. *)

(* A short input is still all in the buffer. *)
LEMMA ShortDigest ==
  ASSUME SInv, ~(totalLen > MidsizeMax)
  PROVE  digest = xxhash3_impl(nbStripesPerBlock, totalLen)
<1>1. totalLen = bufferedSize /\ totalLen \in Nat
  <2>1. /\ totalLen \in Nat /\ MidsizeMax \in Nat /\ internal_buffer_size \in Nat
        /\ MidsizeMax <= internal_buffer_size
    BY SizesFact, StreamAssumption DEF SInv, IInv
  <2> QED
    BY <2>1 DEF SInv
<1>2. ASSUME NEW i \in 1 .. totalLen
      PROVE  buffer[i - 1] = Input(totalLen)[i - 1]
  <2>1. i - 1 \in 0 .. bufferedSize - 1
    BY <1>1
  <2>2. buffer[i - 1] = (totalLen - bufferedSize) + (i - 1) + 1
    BY <2>1 DEF SInv, IInv, EndBuffered
  <2>3. Input(totalLen)[i - 1] = (i - 1) + 1
    BY <1>1 DEF Input
  <2> QED
    BY <1>1, <2>2, <2>3
<1>3. Short(buffer, totalLen) = Short(Input(totalLen), totalLen)
  BY <1>2 DEF Short
<1> QED
  BY <1>3 DEF digest, xxhash3_impl, Input

(* What waits behind the walk. *)
LEMMA WaitingStripes ==
  ASSUME SInv, NEW c \in Nat, At(c)
  PROVE  \E m \in Nat, t \in 0 .. StripeLen - 1 :
           /\ bufferedSize = m * StripeLen + t
           /\ bufferedSize \div StripeLen = m /\ bufferedSize % StripeLen = t
           /\ totalLen \div StripeLen = c + m /\ totalLen % StripeLen = t
           /\ c + m <= MaxInput /\ m <= BufferStripes
<1>1. /\ StripeLen \in Nat \ {0} /\ bufferedSize \in Nat /\ totalLen \in Nat /\ MaxInput \in Nat
      /\ totalLen <= MaxInput /\ bufferedSize <= internal_buffer_size
      /\ internal_buffer_size = BufferStripes * StripeLen /\ BufferStripes \in Nat
  BY SizesFact, BlockFacts DEF SInv, IInv
<1>2. PICK m \in Nat, t \in 0 .. StripeLen - 1 :
        /\ bufferedSize = m * StripeLen + t
        /\ bufferedSize \div StripeLen = m /\ bufferedSize % StripeLen = t
  BY <1>1, Parts
<1>3. /\ c * StripeLen + m * StripeLen = (c + m) * StripeLen
      /\ m * StripeLen \in Nat /\ c * StripeLen \in Nat
  BY <1>1, Dist
<1>4. totalLen = (c + m) * StripeLen + t
  <2>1. totalLen = c * StripeLen + bufferedSize
    BY DEF At
  <2> QED
    BY <1>1, <1>2, <1>3, <2>1
<1>5. totalLen \div StripeLen = c + m /\ totalLen % StripeLen = t
  <2> DEFINE p == c + m
  <2>1. p \in Nat /\ totalLen = p * StripeLen + t
    BY <1>4
  <2> HIDE DEF p
  <2>2. totalLen \div StripeLen = p /\ totalLen % StripeLen = t
    BY <1>1, <2>1, Divided
  <2> QED
    BY <2>2 DEF p
<1>6. c + m <= MaxInput
  <2>1. c + m \in Nat /\ (c + m) * StripeLen <= MaxInput
    BY <1>1, <1>3, <1>4
  <2> QED
    BY <2>1, StripesWithin
<1>7. m <= BufferStripes
  <2>1. ASSUME BufferStripes + 1 <= m PROVE FALSE
    <3>1. BufferStripes + 1 \in Nat
      BY <1>1
    <3>2. (BufferStripes + 1) * StripeLen <= m * StripeLen
      BY <1>1, <2>1, <3>1, Mono
    <3>3. (BufferStripes + 1) * StripeLen = internal_buffer_size + StripeLen
      BY <1>1
    <3>4. internal_buffer_size \in Nat
      BY SizesFact
    <3> QED
      BY <1>1, <1>2, <1>3, <3>2, <3>3, <3>4
  <2> QED
    BY <1>1, <2>1
<1> QED
  BY <1>2, <1>5, <1>6, <1>7

(* A long digest ends the walk where the one-shot hash does, and mixes the
   same last stripe.                                                       *)
LEMMA LongDigest ==
  ASSUME SInv, totalLen > MidsizeMax, direct => ~NeedsCatchup
  PROVE  digest_long = hash_long_internal_loop(nbStripesPerBlock, Input(totalLen), totalLen)
<1> DEFINE s == nbStripesPerBlock
<1>1. PICK c \in Nat : At(c)
  BY DEF SInv
<1>2. PICK m \in Nat, t \in 0 .. StripeLen - 1 :
           /\ bufferedSize = m * StripeLen + t
           /\ bufferedSize \div StripeLen = m /\ bufferedSize % StripeLen = t
           /\ totalLen \div StripeLen = c + m /\ totalLen % StripeLen = t
           /\ c + m <= MaxInput /\ m <= BufferStripes
  BY <1>1, WaitingStripes
<1>3. /\ StripeLen \in Nat \ {0} /\ totalLen \in Nat /\ totalLen > StripeLen
      /\ bufferedSize \in Nat /\ bufferedSize <= totalLen /\ internal_buffer_size \in Nat
      /\ bufferedSize <= internal_buffer_size
  BY SizesFact DEF SInv, IInv
<1>4. /\ s \in Nat \ {0} /\ BufferStripes \in 0 .. s /\ MaxInput \in Nat
      /\ totalLen \in 0 .. MaxInput
  BY <1>3, BlockFacts DEF SInv
<1>5. hash_long_internal_loop(s, Input(totalLen), totalLen) =
        IF t # 0 THEN accumulate_last(Along(s)[c + m], Bytes(Input(totalLen), totalLen - StripeLen))
                 ELSE Along(s)[c + m]
  BY <1>2, <1>4, OneShotAlong
<1>6. Bytes(Input(totalLen), totalLen - StripeLen) = InputTail
  <2>1. ASSUME NEW i \in 1 .. StripeLen
        PROVE  Input(totalLen)[totalLen - StripeLen + i - 1] = totalLen - StripeLen + i
    <3>1. totalLen - StripeLen + i - 1 \in 0 .. totalLen - 1
      BY <1>3
    <3> QED
      BY <1>3, <3>1 DEF Input
  <2> QED
    BY <2>1 DEF Bytes, InputTail
<1>7. CASE bufferedSize >= StripeLen
  <2>1. consume_stripes(acc, nbStripesSoFar, m, buffer, 0).acc = Along(s)[c + m]
    <3>1. m \in 0 .. s
      BY <1>2, <1>4
    <3>2. Holds(buffer, 0, c, m)
      <4>1. totalLen - bufferedSize = c * StripeLen /\ c * StripeLen \in Nat /\ m * StripeLen \in Nat
        <5>1. c * StripeLen \in Nat /\ m * StripeLen \in Nat
          BY <1>3, Dist
        <5> QED
          BY <1>1, <1>3, <5>1 DEF At
      <4>2. ASSUME NEW i \in 0 .. m * StripeLen - 1
            PROVE  buffer[0 + i] = c * StripeLen + i + 1
        <5>1. i \in 0 .. bufferedSize - 1 /\ 0 + i = i
          BY <1>2, <1>3, <4>1
        <5>2. buffer[i] = (totalLen - bufferedSize) + i + 1
          BY <5>1 DEF SInv, IInv, EndBuffered
        <5> QED
          BY <4>1, <5>1, <5>2
      <4> QED
        BY <4>2 DEF Holds
    <3>3. consume_stripes(Along(s)[c], c % s, m, buffer, 0) =
            [acc |-> Along(s)[c + m], soFar |-> (c + m) % s]
      BY <1>2, <1>4, <3>1, <3>2, ConsumeAlong
    <3> QED
      BY <1>1, <3>3 DEF At
  <2>2. Bytes(buffer, bufferedSize - StripeLen) = InputTail
    <3>1. ASSUME NEW i \in 1 .. StripeLen
          PROVE  buffer[bufferedSize - StripeLen + i - 1] = totalLen - StripeLen + i
      <4> DEFINE j == bufferedSize - StripeLen + i - 1
      <4>1. j \in 0 .. bufferedSize - 1
        BY <1>3, <1>7
      <4>2. buffer[j] = (totalLen - bufferedSize) + j + 1
        BY <4>1 DEF SInv, IInv, EndBuffered
      <4> QED
        BY <1>3, <4>1, <4>2
    <3> QED
      BY <3>1 DEF Bytes, InputTail
  <2> QED
    BY <1>2, <1>5, <1>6, <1>7, <2>1, <2>2 DEF digest_long
<1>8. CASE ~(bufferedSize >= StripeLen)
  <2>1. m = 0 /\ bufferedSize = t
    <3>1. ASSUME m >= 1 PROVE FALSE
      <4>1. 1 * StripeLen <= m * StripeLen /\ m * StripeLen \in Nat
        BY <1>3, <3>1, Mono, Dist
      <4> QED
        BY <1>2, <1>3, <1>8, <4>1
    <3>2. m = 0
      BY <3>1
    <3> QED
      BY <1>2, <1>3, <3>2
  <2>2. acc = Along(s)[c + m]
    BY <1>1, <2>1 DEF At
  <2>3. bufferedSize > 0 => last_stripe = InputTail
    <3> SUFFICES ASSUME bufferedSize > 0 PROVE last_stripe = InputTail
      OBVIOUS
    <3>1. NeedsCatchup
      BY <1>3, <1>8 DEF NeedsCatchup
    <3> QED
      BY <3>1, LastStripe DEF SInv
  <2> QED
    BY <1>3, <1>5, <1>6, <1>8, <2>1, <2>2, <2>3 DEF digest_long
<1> QED
  BY <1>7, <1>8

LEMMA DigestIsOneShot ==
  ASSUME SInv, ~(direct /\ NeedsCatchup)
  PROVE  digest = xxhash3_impl(nbStripesPerBlock, totalLen)
<1>1. CASE totalLen > MidsizeMax
  BY <1>1, LongDigest DEF digest, xxhash3_impl, Input
<1>2. CASE ~(totalLen > MidsizeMax)
  BY <1>2, ShortDigest
<1> QED
  BY <1>1, <1>2

(* Whatever the arithmetic, the secrets and the pieces, every digest is the
   hash in one shot, but for the stripe that is not found in the buffer.   *)
THEOREM StreamIsHashStream == Spec => ImplementsHashStream
<1> DEFINE shown == IF direct /\ NeedsCatchup THEN xxhash3_impl(nbStripesPerBlock, totalLen) ELSE digest
           right == shown = xxhash3_impl(nbStripesPerBlock, totalLen)
<1>1. SInv => right
  BY DigestIsOneShot
<1>2. Init /\ right => Stream!Init
  BY DEF Init, Stream!Init
<1>3. ASSUME [Next]_vars, right' PROVE [Stream!Next]_(Stream!vars)
  <2>1. ASSUME NEW s \in Secrets, reset(s) PROVE Stream!Reset(s)
    BY <1>3, <2>1 DEF reset, Stream!Reset
  <2>2. ASSUME NEW len \in Lengths, update(len) PROVE Stream!Update(len)
    BY <1>3, <2>2 DEF update, Stream!Update
  <2>3. CASE UNCHANGED vars
    BY <2>3 DEF vars, Stream!vars, NeedsCatchup, digest, digest_long, last_stripe, consume_stripes,
                scrambling
  <2> QED
    BY <1>3, <2>1, <2>2, <2>3 DEF Next, Stream!Next
<1> HIDE DEF right
<1>4. Spec => [](right)
  BY <1>1, SInvInvariant, PTL
<1> QED
  BY <1>2, <1>3, <1>4, PTL DEF Spec, ImplementsHashStream, Stream!Spec

-----------------------------------------------------------------------------
(* The arithmetic stays within the values of an accumulator, as long as the
   secret is read at the stripes of a block.                               *)
AccsClosed ==
  /\ \A a \in Accs : scramble_acc(a) \in Accs
  /\ \A a \in Accs, bytes \in [1 .. StripeLen -> 0 .. MaxInput],
        k \in UNION {0 .. s - 1 : s \in Secrets} : accumulate_512(a, bytes, k) \in Accs

LEMMA AlongAccs ==
  ASSUME AccsClosed, NEW s \in Secrets, NEW c \in Nat, c * StripeLen <= MaxInput
  PROVE  Along(s)[c] \in Accs
<1> DEFINE S == {k \in Nat : k <= c => Along(s)[k] \in Accs}
<1>1. s \in Nat \ {0} /\ StripeLen \in Nat \ {0} /\ MaxInput \in Nat
  <2>1. BufferStripes \in Nat \ {0} /\ s \in Nat /\ s >= BufferStripes /\ MaxInput \in Nat
    BY StreamAssumption
  <2> QED
    BY <2>1, SizesFact
<1>2. 0 \in S
  BY AlongEquation, StreamAssumption
<1>3. ASSUME NEW k \in Nat, k \in S PROVE k + 1 \in S
  <2> SUFFICES ASSUME k + 1 <= c PROVE Along(s)[k + 1] \in Accs
    OBVIOUS
  <2>1. Along(s)[k] \in Accs
    BY <1>3
  <2>2. k * StripeLen \in Nat /\ (k + 1) * StripeLen = k * StripeLen + StripeLen
        /\ (k + 1) * StripeLen <= c * StripeLen /\ c * StripeLen \in Nat
    BY <1>1, Dist, Mono
  <2>3. InputStripe(k) \in [1 .. StripeLen -> 0 .. MaxInput]
    <3>1. ASSUME NEW i \in 1 .. StripeLen PROVE k * StripeLen + i \in 0 .. MaxInput
      BY <1>1, <2>2
    <3> QED
      BY <3>1 DEF InputStripe
  <2>4. k % s \in UNION {0 .. r - 1 : r \in Secrets}
    <3>1. k % s \in 0 .. s - 1
      BY <1>1
    <3> QED
      BY <3>1
  <2>5. Mixed(s, Along(s)[k], k) \in Accs
    BY <2>1, <2>3, <2>4 DEF AccsClosed, Mixed
  <2>6. k \in 0 .. MaxInput - 1
    BY <1>1, StripesWithin
  <2> QED
    BY <2>5, <2>6, AlongEquation DEF AccsClosed, Stepped
<1>4. Nat \subseteq S
  <2> HIDE DEF S
  <2> QED
    BY <1>2, <1>3, NatSetInduction
<1> QED
  BY <1>4

(* Type correctness, whatever the pieces: no block gets overfull, so no
   stripe is mixed with a place behind the end of the secret.              *)
THEOREM TypeCorrect ==
  ASSUME AccsClosed
  PROVE  Spec => []TypeOK
<1>1. ASSUME SInv PROVE TypeOK
  <2>1. /\ StripeLen \in Nat \ {0} /\ totalLen \in Nat /\ bufferedSize \in Nat
        /\ MaxInput \in Nat /\ totalLen \in 0 .. MaxInput
    BY <1>1, SizesFact, StreamAssumption DEF SInv, IInv
  <2>2. PICK c \in Nat : At(c)
    BY <1>1 DEF SInv
  <2>3. acc \in Accs
    <3>1. c * StripeLen \in Nat /\ totalLen = c * StripeLen + bufferedSize
      BY <2>1, <2>2, Dist DEF At
    <3>2. c * StripeLen <= MaxInput
      BY <2>1, <3>1
    <3> QED
      BY <1>1, <2>2, <3>2, AlongAccs DEF At, SInv
  <2>4. nbStripesSoFar \in 0 .. nbStripesPerBlock - 1
    <3>1. nbStripesPerBlock \in Nat \ {0}
      BY <1>1, BlockFacts DEF SInv
    <3> QED
      BY <2>2, <3>1 DEF At
  <2>5. buffer \in [0 .. internal_buffer_size - 1 -> 0 .. MaxInput]
    BY <1>1, <2>1 DEF SInv, IInv
  <2> QED
    BY <1>1, <2>1, <2>3, <2>4, <2>5 DEF SInv, IInv, TypeOK
<1> QED
  BY <1>1, SInvInvariant, PTL

-----------------------------------------------------------------------------
(* The classic stream.  The stream and endian_align are both compared with *)
(* the loop over the blocks of one endless input.                          *)

ClassicNumbers == [i \in Nat |-> i + 1]

StartLanes(s) == [l \in Classic!Lanes |-> start(s, l)]

(* The lanes after k blocks of MemLen bytes of the input. *)
Walk(s, k) == Classic!consume(StartLanes(s), ClassicNumbers, 0, k)

(* From an address a memory holds n blocks of the input, the k-th first. *)
ClassicHolds(memory, from, k, n) ==
  \A i \in 0 .. n * Classic!MemLen - 1 : memory[from + i] = k * Classic!MemLen + i + 1

(* The lanes are c blocks along the input, and the rest is in mem. *)
ClassicAt(c) ==
  /\ total_len = c * Classic!MemLen + memsize
  /\ v = Walk(seed, c)

(* The inductive invariant of the classic stream. *)
KInv ==
  /\ seed \in Seeds
  /\ mem \in [0 .. Classic!MemLen - 1 -> 0 .. ClassicMaxInput]
  /\ memsize \in 0 .. Classic!MemLen - 1
  /\ total_len \in 0 .. ClassicMaxInput
  /\ \E c \in Nat : ClassicAt(c)
  /\ \A i \in 0 .. memsize - 1 : mem[i] = (total_len - memsize) + i + 1

LEMMA ClassicSizes ==
  /\ WordLen \in Nat \ {0} /\ ClassicMaxInput \in Nat /\ ClassicLengths \subseteq Nat
  /\ Classic!MemLen \in Nat \ {0} /\ Classic!MemLen = 4 * WordLen
<1>1. WordLen \in Nat \ {0} /\ ClassicMaxInput \in Nat /\ ClassicLengths \subseteq Nat
  BY ClassicAssumption DEF Classic!XxhAssumption
<1> QED
  BY <1>1 DEF Classic!MemLen

ClassicLoop(lanes, memory, from, N) ==
  LET after[k \in 0 .. N] ==
        IF k = 0 THEN lanes
        ELSE Classic!rounds(after[k - 1], memory, from + (k - 1) * Classic!MemLen)
  IN  after

IsClassicLoop(f, lanes, memory, from, N) ==
  f = [k \in 0 .. N |->
         IF k = 0 THEN lanes
         ELSE Classic!rounds(f[k - 1], memory, from + (k - 1) * Classic!MemLen)]

LEMMA ClassicLoopExists ==
  ASSUME NEW lanes, NEW memory, NEW from
  PROVE  \A N \in Nat : \E f : IsClassicLoop(f, lanes, memory, from, N)
<1> DEFINE G(x, n) == Classic!rounds(x, memory, from + (n - 1) * Classic!MemLen)
           P(f, N) == f = [n \in 0 .. N |-> IF n = 0 THEN lanes ELSE G(f[n - 1], n)]
           S == {N \in Nat : \E f : P(f, N)}
<1> HIDE DEF G
<1>1. 0 \in S
  <2>1. P([n \in {0} |-> lanes], 0)
    OBVIOUS
  <2> HIDE DEF P
  <2> QED
    BY <2>1
<1>2. ASSUME NEW N \in Nat, N \in S PROVE N + 1 \in S
  <2>1. PICK f : P(f, N)
    BY <1>2
  <2> DEFINE g == [n \in 0 .. N + 1 |-> IF n = 0 THEN lanes ELSE G(f[n - 1], n)]
  <2>2. ASSUME NEW n \in 0 .. N PROVE g[n] = f[n]
    BY <2>1
  <2>3. P(g, N + 1)
    <3>1. ASSUME NEW n \in 0 .. N + 1, n # 0 PROVE n - 1 \in 0 .. N
      BY <3>1
    <3> HIDE DEF g
    <3>2. ASSUME NEW n \in 0 .. N + 1, n # 0 PROVE g[n - 1] = f[n - 1]
      BY <3>1, <3>2, <2>2
    <3> QED
      BY <3>2 DEF g
  <2> HIDE DEF P
  <2> QED
    BY <2>3
<1>3. Nat \subseteq S
  <2> HIDE DEF S
  <2> QED
    BY <1>1, <1>2, NatSetInduction
<1> QED
  BY <1>3 DEF G, IsClassicLoop

LEMMA ClassicLoopEquation ==
  ASSUME NEW lanes, NEW memory, NEW from, NEW N \in Nat
  PROVE  LET f == ClassicLoop(lanes, memory, from, N)
         IN  /\ f[0] = lanes
             /\ \A k \in 0 .. N - 1 :
                  f[k + 1] = Classic!rounds(f[k], memory, from + k * Classic!MemLen)
             /\ Classic!consume(lanes, memory, from, N) = f[N]
<1> DEFINE f == ClassicLoop(lanes, memory, from, N)
<1>1. IsClassicLoop(f, lanes, memory, from, N)
  <2>1. \E g : IsClassicLoop(g, lanes, memory, from, N)
    BY ClassicLoopExists
  <2> QED
    BY <2>1 DEF ClassicLoop, IsClassicLoop
<1>2. Classic!consume(lanes, memory, from, N) = f[N]
  BY DEF ClassicLoop, Classic!consume
<1> HIDE DEF f
<1>3. f[0] = lanes
  BY <1>1 DEF IsClassicLoop
<1>4. ASSUME NEW k \in 0 .. N - 1
      PROVE  f[k + 1] = Classic!rounds(f[k], memory, from + k * Classic!MemLen)
  <2> DEFINE m == k + 1
  <2>1. m \in 0 .. N /\ m # 0 /\ m - 1 = k
    OBVIOUS
  <2> HIDE DEF m
  <2>2. f[m] = Classic!rounds(f[m - 1], memory, from + (m - 1) * Classic!MemLen)
    BY <1>1, <2>1 DEF IsClassicLoop
  <2> QED
    BY <2>1, <2>2 DEF m
<1> QED
  BY <1>2, <1>3, <1>4 DEF f

(* The bytes of a word lie within a block. *)
LEMMA WordPlace ==
  ASSUME NEW l \in Classic!Lanes, NEW i \in 1 .. WordLen
  PROVE  (l - 1) * WordLen \in Nat /\ (l - 1) * WordLen + i - 1 \in 0 .. Classic!MemLen - 1
<1>1. /\ l \in 1 .. 4 /\ WordLen \in Nat \ {0}
      /\ Classic!MemLen \in Nat \ {0} /\ Classic!MemLen = 4 * WordLen
  BY ClassicSizes DEF Classic!Lanes
<1>2. CASE l = 1
  BY <1>1, <1>2
<1>3. CASE l = 2
  BY <1>1, <1>3
<1>4. CASE l = 3
  BY <1>1, <1>4
<1>5. CASE l = 4
  BY <1>1, <1>5
<1> QED
  BY <1>1, <1>2, <1>3, <1>4, <1>5

(* Rounds that read a block of the input, wherever it is. *)
LEMMA BlockRead ==
  ASSUME NEW memory, NEW from \in Nat, NEW k \in Nat, NEW n \in Nat,
         ClassicHolds(memory, from, k, n), NEW j \in 0 .. n - 1, NEW lanes
  PROVE  Classic!rounds(lanes, memory, from + j * Classic!MemLen) =
           Classic!rounds(lanes, ClassicNumbers, 0 + (k + j) * Classic!MemLen)
<1> DEFINE b == Classic!MemLen
<1>1. b \in Nat \ {0}
  BY ClassicSizes
<1> HIDE DEF b
<1>2. /\ j * b \in Nat /\ k * b \in Nat /\ n * b \in Nat
      /\ (j + 1) * b = j * b + b /\ k * b + j * b = (k + j) * b
      /\ (j + 1) * b <= n * b
  BY <1>1, Dist, Mono
<1>3. ASSUME NEW l \in Classic!Lanes, NEW i \in 1 .. WordLen
      PROVE  memory[from + j * b + (l - 1) * WordLen + i - 1] =
               ClassicNumbers[0 + (k + j) * b + (l - 1) * WordLen + i - 1]
  <2>1. (l - 1) * WordLen \in Nat /\ (l - 1) * WordLen + i - 1 \in 0 .. b - 1
    BY WordPlace DEF b
  <2> DEFINE w == (l - 1) * WordLen
             o == j * b + w + i - 1
             q == 0 + (k + j) * b + w + i - 1
  <2> HIDE DEF w
  <2>2. w \in Nat /\ w + i - 1 \in 0 .. b - 1 /\ i \in Nat
    BY <2>1, ClassicSizes DEF w
  <2>3. o \in 0 .. n * b - 1 /\ q \in Nat /\ q = k * b + o
        /\ from + o = from + j * b + w + i - 1
    BY <1>1, <1>2, <2>2
  <2> HIDE DEF o, q
  <2>4. memory[from + o] = k * b + o + 1
    BY <2>3 DEF ClassicHolds, b
  <2>5. ClassicNumbers[q] = k * b + o + 1
    BY <2>3 DEF ClassicNumbers
  <2> QED
    BY <2>3, <2>4, <2>5 DEF q, w
<1> QED
  BY <1>3 DEF Classic!rounds, Classic!Word, b

(* n blocks more, read wherever they are, follow the walk. *)
LEMMA ClassicConsumeAlong ==
  ASSUME NEW lanes, NEW k \in Nat, NEW n \in Nat, NEW memory, NEW from \in Nat,
         ClassicHolds(memory, from, k, n)
  PROVE  Classic!consume(Classic!consume(lanes, ClassicNumbers, 0, k), memory, from, n) =
           Classic!consume(lanes, ClassicNumbers, 0, k + n)
<1> DEFINE b == Classic!MemLen
           N == k + n
           f == ClassicLoop(lanes, ClassicNumbers, 0, N)
           e == ClassicLoop(lanes, ClassicNumbers, 0, k)
           x == Classic!consume(lanes, ClassicNumbers, 0, k)
           g == ClassicLoop(x, memory, from, n)
           A == {j \in Nat : j <= k => e[j] = f[j]}
           B == {j \in Nat : j <= n => g[j] = f[k + j]}
<1>0. N \in Nat
  OBVIOUS
<1> HIDE DEF N
<1>1. /\ f[0] = lanes
      /\ \A j \in 0 .. N - 1 : f[j + 1] = Classic!rounds(f[j], ClassicNumbers, 0 + j * b)
      /\ Classic!consume(lanes, ClassicNumbers, 0, N) = f[N]
  BY <1>0, ClassicLoopEquation
<1>2. /\ e[0] = lanes
      /\ \A j \in 0 .. k - 1 : e[j + 1] = Classic!rounds(e[j], ClassicNumbers, 0 + j * b)
      /\ x = e[k]
  BY ClassicLoopEquation
<1> HIDE DEF x
<1>3. /\ g[0] = x
      /\ \A j \in 0 .. n - 1 : g[j + 1] = Classic!rounds(g[j], memory, from + j * b)
      /\ Classic!consume(x, memory, from, n) = g[n]
  BY ClassicLoopEquation
<1> HIDE DEF f, e, g
<1>4. Nat \subseteq A
  <2>1. 0 \in A
    BY <1>1, <1>2
  <2>2. ASSUME NEW j \in Nat, j \in A PROVE j + 1 \in A
    <3> SUFFICES ASSUME j + 1 <= k PROVE e[j + 1] = f[j + 1]
      OBVIOUS
    <3>1. j \in 0 .. k - 1 /\ j \in 0 .. N - 1 /\ e[j] = f[j]
      BY <2>2 DEF N
    <3> QED
      BY <1>1, <1>2, <3>1
  <2> HIDE DEF A
  <2> QED
    BY <2>1, <2>2, NatSetInduction
<1>5. Nat \subseteq B
  <2>1. 0 \in B
    BY <1>2, <1>3, <1>4
  <2>2. ASSUME NEW j \in Nat, j \in B PROVE j + 1 \in B
    <3> SUFFICES ASSUME j + 1 <= n PROVE g[j + 1] = f[k + (j + 1)]
      OBVIOUS
    <3>1. j \in 0 .. n - 1 /\ k + j \in 0 .. N - 1 /\ g[j] = f[k + j] /\ k + (j + 1) = (k + j) + 1
      BY <2>2 DEF N
    <3>2. Classic!rounds(g[j], memory, from + j * b) =
            Classic!rounds(g[j], ClassicNumbers, 0 + (k + j) * b)
      BY <3>1, BlockRead
    <3>3. g[j + 1] = Classic!rounds(g[j], ClassicNumbers, 0 + (k + j) * b)
      BY <1>3, <3>1, <3>2
    <3>4. f[(k + j) + 1] = Classic!rounds(f[k + j], ClassicNumbers, 0 + (k + j) * b)
      BY <1>1, <3>1
    <3> QED
      BY <3>1, <3>3, <3>4
  <2> HIDE DEF B
  <2> QED
    BY <2>1, <2>2, NatSetInduction
<1>6. g[n] = f[N]
  BY <1>5 DEF N
<1> QED
  BY <1>1, <1>3, <1>6 DEF x, N

LEMMA WalkStart ==
  ASSUME NEW s
  PROVE  Walk(s, 0) = StartLanes(s)
BY ClassicLoopEquation DEF Walk

(* The four rounds of one iteration are a loop of one. *)
LEMMA OneRound ==
  ASSUME NEW lanes, NEW memory
  PROVE  Classic!rounds(lanes, memory, 0) = Classic!consume(lanes, memory, 0, 1)
<1> DEFINE f == ClassicLoop(lanes, memory, 0, 1)
<1>1. /\ f[0] = lanes
      /\ \A k \in 0 .. 1 - 1 : f[k + 1] = Classic!rounds(f[k], memory, 0 + k * Classic!MemLen)
      /\ Classic!consume(lanes, memory, 0, 1) = f[1]
  BY ClassicLoopEquation
<1> HIDE DEF f
<1>2. f[0 + 1] = Classic!rounds(f[0], memory, 0 + 0 * Classic!MemLen)
  BY <1>1
<1>3. 0 + 0 * Classic!MemLen = 0 /\ 0 + 1 = 1
  BY ClassicSizes
<1> QED
  BY <1>1, <1>2, <1>3

-----------------------------------------------------------------------------
(* Steps of the classic stream. *)

LEMMA EmptyKInv ==
  ASSUME seed' \in Seeds, v' = [l \in Classic!Lanes |-> start(seed', l)],
         mem' = Classic!EmptyMem, memsize' = 0, total_len' = 0
  PROVE  KInv'
<1>1. v' = Walk(seed', 0)
  BY WalkStart DEF StartLanes
<1>2. ClassicAt(0)'
  BY <1>1, ClassicSizes DEF ClassicAt
<1>3. mem' \in [0 .. Classic!MemLen - 1 -> 0 .. ClassicMaxInput]
  BY ClassicSizes DEF Classic!EmptyMem
<1>4. \E c \in Nat : ClassicAt(c)'
  BY <1>2
<1>5. memsize' \in 0 .. Classic!MemLen - 1 /\ total_len' \in 0 .. ClassicMaxInput
  BY ClassicSizes
<1> QED
  BY <1>3, <1>4, <1>5 DEF KInv

LEMMA InitKInv == Classic!Init => KInv
<1> SUFFICES ASSUME Classic!Init PROVE KInv
  OBVIOUS
<1>1. v = Walk(seed, 0)
  BY WalkStart DEF StartLanes, Classic!Init
<1>2. ClassicAt(0)
  BY <1>1, ClassicSizes DEF ClassicAt, Classic!Init
<1>3. mem \in [0 .. Classic!MemLen - 1 -> 0 .. ClassicMaxInput]
  BY ClassicSizes DEF Classic!EmptyMem, Classic!Init
<1>4. \E c \in Nat : ClassicAt(c)
  BY <1>2
<1>5. memsize \in 0 .. Classic!MemLen - 1 /\ total_len \in 0 .. ClassicMaxInput
  BY ClassicSizes DEF Classic!Init
<1> QED
  BY <1>3, <1>4, <1>5 DEF KInv, Classic!Init

(* What is read from a piece is what follows the input so far. *)
LEMMA ClassicPiece ==
  ASSUME KInv, NEW len \in ClassicLengths, total_len + len <= ClassicMaxInput
  PROVE  \A i \in 0 .. len - 1 :
           /\ Classic!Piece(len)[i] = total_len + i + 1
           /\ Classic!Piece(len)[i] \in 0 .. ClassicMaxInput
<1>1. len \in Nat /\ total_len \in Nat /\ ClassicMaxInput \in Nat
  BY ClassicSizes DEF KInv
<1> QED
  BY <1>1 DEF Classic!Piece

LEMMA BufferedKInv ==
  ASSUME KInv, NEW len \in ClassicLengths, Classic!update(len), Classic!update_buffered(len)
  PROVE  KInv'
<1> DEFINE b == Classic!MemLen
<1>1. /\ b \in Nat \ {0} /\ len \in Nat /\ total_len \in Nat /\ memsize \in Nat
      /\ ClassicMaxInput \in Nat /\ memsize + len < b
      /\ total_len + len <= ClassicMaxInput /\ total_len' = total_len + len
      /\ memsize' = memsize + len /\ v' = v /\ seed' = seed /\ memsize <= total_len
      /\ mem \in [0 .. b - 1 -> 0 .. ClassicMaxInput]
  <2>1. b \in Nat \ {0} /\ ClassicMaxInput \in Nat /\ len \in Nat
    BY ClassicSizes
  <2>2. /\ total_len + len <= ClassicMaxInput /\ total_len' = total_len + len /\ seed' = seed
        /\ memsize' = memsize + len /\ v' = v /\ memsize + len < b
    BY DEF Classic!update, Classic!update_buffered, Classic!fits
  <2>3. /\ total_len \in Nat /\ memsize \in Nat
        /\ mem \in [0 .. b - 1 -> 0 .. ClassicMaxInput]
    BY <2>1 DEF KInv
  <2>4. memsize <= total_len
    <3>1. PICK c \in Nat : ClassicAt(c)
      BY DEF KInv
    <3>2. c * b \in Nat
      BY <2>1, Dist
    <3> QED
      BY <2>3, <3>1, <3>2 DEF ClassicAt
  <2> QED
    BY <2>1, <2>2, <2>3, <2>4
<1> DEFINE value(i) == IF memsize <= i /\ i < memsize + len
                         THEN Classic!Piece(len)[i - memsize] ELSE mem[i]
<1>2. mem' = [i \in 0 .. b - 1 |-> value(i)]
  <2>1. DOMAIN mem = 0 .. b - 1
    BY <1>1
  <2> HIDE DEF b
  <2> QED
    BY <2>1 DEF Classic!update_buffered
<1>3. ASSUME NEW i \in 0 .. b - 1
      PROVE  /\ value(i) \in 0 .. ClassicMaxInput
             /\ i < memsize + len => value(i) = (total_len - memsize) + i + 1
  <2> HIDE DEF b
  <2>1. CASE memsize <= i /\ i < memsize + len
    <3>1. i - memsize \in 0 .. len - 1
      BY <1>1, <2>1
    <3>2. /\ value(i) = total_len + (i - memsize) + 1
          /\ value(i) \in 0 .. ClassicMaxInput
      BY <1>1, <2>1, <3>1, ClassicPiece
    <3> HIDE DEF value
    <3> QED
      BY <1>1, <3>2
  <2>2. CASE ~(memsize <= i /\ i < memsize + len)
    <3>1. value(i) = mem[i]
      BY <2>2
    <3>2. i < memsize + len => i \in 0 .. memsize - 1
      BY <1>1, <2>2
    <3>3. i < memsize + len => mem[i] = (total_len - memsize) + i + 1
      BY <3>2 DEF KInv
    <3>4. mem[i] \in 0 .. ClassicMaxInput
      BY <1>1
    <3> HIDE DEF value
    <3> QED
      BY <3>1, <3>3, <3>4
  <2> QED
    BY <2>1, <2>2
<1> HIDE DEF b, value
<1>4. mem' \in [0 .. b - 1 -> 0 .. ClassicMaxInput]
  BY <1>2, <1>3
<1>5. ASSUME NEW i \in 0 .. memsize' - 1
      PROVE  mem'[i] = (total_len' - memsize') + i + 1
  <2>1. i \in 0 .. b - 1 /\ i < memsize + len
    BY <1>1, <1>5
  <2>2. mem'[i] = (total_len - memsize) + i + 1
    BY <1>2, <1>3, <2>1
  <2>3. total_len - memsize = total_len' - memsize'
    BY <1>1
  <2> QED
    BY <2>2, <2>3
<1>6. \E c \in Nat : ClassicAt(c)'
  <2>1. PICK c \in Nat : ClassicAt(c)
    BY DEF KInv
  <2>2. c * b \in Nat
    BY <1>1, Dist
  <2>3. total_len' = c * b + memsize'
    BY <1>1, <2>1, <2>2 DEF ClassicAt, b
  <2>4. v' = Walk(seed', c)
    BY <1>1, <2>1 DEF ClassicAt
  <2> QED
    BY <2>3, <2>4 DEF ClassicAt, b
<1>7. seed' \in Seeds /\ memsize' \in 0 .. b - 1 /\ total_len' \in 0 .. ClassicMaxInput
  <2>1. seed' \in Seeds
    BY <1>1 DEF KInv
  <2> QED
    BY <1>1, <2>1
<1> QED
  BY <1>4, <1>5, <1>6, <1>7 DEF KInv, b

(* The piece does not fit: what update takes of it to fill mem, mem filled and
   the lanes after mem was consumed.                                       *)
ClassicLoaded == IF memsize > 0 THEN Classic!MemLen - memsize ELSE 0

ClassicFilled(len) ==
  [i \in DOMAIN mem |->
     IF memsize > 0 /\ memsize <= i THEN Classic!Piece(len)[i - memsize] ELSE mem[i]]

ClassicLanes(len) == IF memsize > 0 THEN Classic!rounds(v, ClassicFilled(len), 0) ELSE v

(* Where the loop over the piece starts: the lanes are a number of blocks along
   the input, and so is the rest of the piece.                             *)
LEMMA ClassicFilledUp ==
  ASSUME KInv, NEW len \in ClassicLengths, total_len + len <= ClassicMaxInput,
         ~Classic!fits(len)
  PROVE  /\ ClassicLoaded \in 0 .. len
         /\ ClassicFilled(len) \in [0 .. Classic!MemLen - 1 -> 0 .. ClassicMaxInput]
         /\ \E base \in Nat :
              /\ total_len + ClassicLoaded = base * Classic!MemLen
              /\ ClassicLanes(len) = Walk(seed, base)
<1> DEFINE b == Classic!MemLen
           loaded == ClassicLoaded
           filled == ClassicFilled(len)
<1>1. /\ b \in Nat \ {0} /\ len \in Nat /\ total_len \in Nat /\ memsize \in 0 .. b - 1
      /\ ClassicMaxInput \in Nat /\ ~(memsize + len < b)
      /\ mem \in [0 .. b - 1 -> 0 .. ClassicMaxInput]
  <2>1. b \in Nat \ {0} /\ ClassicMaxInput \in Nat /\ len \in Nat
    BY ClassicSizes
  <2> QED
    BY <2>1 DEF KInv, Classic!fits
<1>2. PICK c \in Nat : ClassicAt(c)
  BY DEF KInv
<1>3. total_len = c * b + memsize /\ v = Walk(seed, c)
  BY <1>2 DEF ClassicAt
<1>4. c * b \in Nat /\ (c + 1) * b = c * b + b /\ 1 * b = b
  BY <1>1, Dist
<1>5. loaded = IF memsize > 0 THEN b - memsize ELSE 0
  BY DEF ClassicLoaded
<1>6. filled = [i \in 0 .. b - 1 |->
                  IF memsize > 0 /\ memsize <= i THEN Classic!Piece(len)[i - memsize] ELSE mem[i]]
  <2>1. DOMAIN mem = 0 .. b - 1
    BY <1>1
  <2> HIDE DEF b
  <2> QED
    BY <2>1 DEF ClassicFilled
<1> HIDE DEF b, loaded, filled
<1>7. loaded \in 0 .. len
  BY <1>1, <1>5
<1>8. ASSUME NEW i \in 0 .. b - 1
      PROVE  /\ filled[i] \in 0 .. ClassicMaxInput
             /\ memsize > 0 => filled[i] = c * b + i + 1
  <2>1. CASE memsize > 0 /\ memsize <= i
    <3>1. i - memsize \in 0 .. len - 1
      BY <1>1, <2>1
    <3>2. /\ filled[i] = total_len + (i - memsize) + 1
          /\ filled[i] \in 0 .. ClassicMaxInput
      BY <1>6, <2>1, <3>1, ClassicPiece
    <3> QED
      BY <1>1, <1>3, <1>4, <3>2
  <2>2. CASE ~(memsize > 0 /\ memsize <= i)
    <3>1. filled[i] = mem[i] /\ mem[i] \in 0 .. ClassicMaxInput
      BY <1>1, <1>6, <2>2
    <3>2. memsize > 0 => filled[i] = c * b + i + 1
      <4> SUFFICES ASSUME memsize > 0 PROVE filled[i] = c * b + i + 1
        OBVIOUS
      <4>1. i \in 0 .. memsize - 1
        BY <1>1, <2>2
      <4>2. mem[i] = (total_len - memsize) + i + 1
        BY <4>1 DEF KInv
      <4> QED
        BY <1>1, <1>3, <1>4, <3>1, <4>2
    <3> QED
      BY <3>1, <3>2
  <2> QED
    BY <2>1, <2>2
<1>9. filled \in [0 .. b - 1 -> 0 .. ClassicMaxInput]
  BY <1>6, <1>8
<1>10. CASE memsize > 0
  <2>1. ClassicHolds(filled, 0, c, 1)
    <3>1. ASSUME NEW i \in 0 .. 1 * b - 1 PROVE filled[0 + i] = c * b + i + 1
      <4>1. i \in 0 .. b - 1 /\ 0 + i = i
        BY <1>1, <1>4
      <4> QED
        BY <1>8, <1>10, <4>1
    <3> QED
      BY <3>1 DEF ClassicHolds, b
  <2>2. Classic!rounds(v, filled, 0) = Walk(seed, c + 1)
    BY <1>3, <2>1, OneRound, ClassicConsumeAlong DEF Walk
  <2>3. total_len + loaded = (c + 1) * b
    <3>1. loaded = b - memsize /\ memsize \in Nat /\ b \in Nat
      BY <1>1, <1>5, <1>10
    <3> DEFINE x == c * b
               y == (c + 1) * b
    <3>2. x \in Nat /\ y = x + b /\ total_len = x + memsize
      BY <1>3, <1>4
    <3> HIDE DEF x, y
    <3>3. total_len + loaded = y
      BY <3>1, <3>2
    <3> QED
      BY <3>3 DEF y
  <2>4. c + 1 \in Nat
    OBVIOUS
  <2>5. ClassicLanes(len) = Walk(seed, c + 1)
    BY <1>10, <2>2 DEF ClassicLanes, filled
  <2> QED
    BY <1>7, <1>9, <2>3, <2>4, <2>5 DEF b, loaded, filled
<1>11. CASE ~(memsize > 0)
  <2>1. total_len + loaded = c * b
    BY <1>1, <1>3, <1>4, <1>5, <1>11
  <2>2. ClassicLanes(len) = Walk(seed, c)
    BY <1>3, <1>11 DEF ClassicLanes
  <2> QED
    BY <1>7, <1>9, <2>1, <2>2 DEF b, loaded, filled
<1> QED
  BY <1>1, <1>10, <1>11

LEMMA ConsumingKInv ==
  ASSUME KInv, NEW len \in ClassicLengths, Classic!update(len), Classic!update_consuming(len)
  PROVE  KInv'
<1> DEFINE b      == Classic!MemLen
           loaded == ClassicLoaded
           filled == ClassicFilled(len)
           lanes  == ClassicLanes(len)
           whole  == (len - loaded) \div b
           rest   == (len - loaded) % b
<1>1. /\ ~Classic!fits(len)
      /\ v' = Classic!consume(lanes, Classic!Piece(len), loaded, whole)
      /\ mem' = [i \in DOMAIN mem |->
                   IF i < rest THEN Classic!Piece(len)[len - rest + i] ELSE filled[i]]
      /\ memsize' = rest
  BY DEF Classic!update_consuming, ClassicLoaded, ClassicFilled, ClassicLanes
<1>2. /\ b \in Nat \ {0} /\ len \in Nat /\ total_len \in Nat /\ ClassicMaxInput \in Nat
      /\ total_len + len <= ClassicMaxInput /\ total_len' = total_len + len
      /\ seed' = seed /\ seed \in Seeds /\ DOMAIN mem = 0 .. b - 1
  <2>1. b \in Nat \ {0} /\ ClassicMaxInput \in Nat /\ len \in Nat
    BY ClassicSizes
  <2>2. total_len + len <= ClassicMaxInput /\ total_len' = total_len + len /\ seed' = seed
    BY DEF Classic!update
  <2> QED
    BY <2>1, <2>2 DEF KInv
<1>3. /\ loaded \in 0 .. len
      /\ filled \in [0 .. b - 1 -> 0 .. ClassicMaxInput]
      /\ \E base \in Nat : total_len + loaded = base * b /\ lanes = Walk(seed, base)
  BY <1>1, <1>2, ClassicFilledUp
<1> HIDE DEF loaded, filled, lanes
<1>4. PICK base \in Nat : total_len + loaded = base * b /\ lanes = Walk(seed, base)
  BY <1>3
<1>5. /\ whole \in Nat /\ rest \in 0 .. b - 1 /\ len - loaded = whole * b + rest
  <2> DEFINE n == len - loaded
  <2>1. n \in Nat
    BY <1>2, <1>3
  <2> HIDE DEF n, b
  <2>2. \E q \in Nat, r \in 0 .. b - 1 : n = q * b + r /\ n \div b = q /\ n % b = r
    BY <1>2, <2>1, Parts
  <2> QED
    BY <2>2 DEF n
<1> HIDE DEF whole, rest, b
<1>6. whole * b \in Nat /\ base * b \in Nat /\ base * b + whole * b = (base + whole) * b
  BY <1>2, <1>4, <1>5, Dist
<1>7. ClassicHolds(Classic!Piece(len), loaded, base, whole)
  <2>1. ASSUME NEW i \in 0 .. whole * b - 1
        PROVE  Classic!Piece(len)[loaded + i] = base * b + i + 1
    <3>1. loaded + i \in 0 .. len - 1
      BY <1>2, <1>3, <1>5, <1>6
    <3>2. Classic!Piece(len)[loaded + i] = total_len + (loaded + i) + 1
      BY <1>2, <3>1, ClassicPiece
    <3> QED
      BY <1>2, <1>3, <1>4, <1>6, <3>2
  <2> QED
    BY <2>1 DEF ClassicHolds, b
<1>8. v' = Walk(seed', base + whole)
  <2>1. loaded \in Nat
    BY <1>2, <1>3
  <2> QED
    BY <1>1, <1>2, <1>4, <1>5, <1>7, <2>1, ClassicConsumeAlong DEF Walk
<1>9. total_len' = (base + whole) * b + memsize'
  BY <1>1, <1>2, <1>3, <1>4, <1>5, <1>6
<1>10. \E c \in Nat : ClassicAt(c)'
  <2>1. base + whole \in Nat
    BY <1>4, <1>5
  <2> QED
    BY <1>8, <1>9, <2>1 DEF ClassicAt, b
<1>11. ASSUME NEW i \in 0 .. b - 1
       PROVE  /\ mem'[i] \in 0 .. ClassicMaxInput
              /\ i < rest => mem'[i] = (total_len' - memsize') + i + 1
  <2>1. mem'[i] = IF i < rest THEN Classic!Piece(len)[len - rest + i] ELSE filled[i]
    BY <1>1, <1>2
  <2>2. CASE i < rest
    <3>1. len - rest + i \in 0 .. len - 1
      BY <1>2, <1>3, <1>5, <1>6, <2>2
    <3>2. /\ mem'[i] = total_len + (len - rest + i) + 1
          /\ mem'[i] \in 0 .. ClassicMaxInput
      BY <1>2, <2>1, <2>2, <3>1, ClassicPiece
    <3> QED
      BY <1>1, <1>2, <1>5, <3>2
  <2>3. CASE ~(i < rest)
    BY <1>3, <2>1, <2>3
  <2> QED
    BY <2>2, <2>3
<1>12. mem' \in [0 .. b - 1 -> 0 .. ClassicMaxInput]
  BY <1>1, <1>2, <1>11
<1>13. \A i \in 0 .. memsize' - 1 : mem'[i] = (total_len' - memsize') + i + 1
  <2>1. ASSUME NEW i \in 0 .. memsize' - 1
        PROVE  mem'[i] = (total_len' - memsize') + i + 1
    <3>1. i \in 0 .. b - 1 /\ i < rest
      BY <1>1, <1>2, <1>5
    <3> QED
      BY <1>11, <3>1
  <2> QED
    BY <2>1
<1>14. seed' \in Seeds /\ memsize' \in 0 .. b - 1 /\ total_len' \in 0 .. ClassicMaxInput
  BY <1>1, <1>2, <1>5
<1> QED
  BY <1>10, <1>12, <1>13, <1>14 DEF KInv, b

LEMMA StepKInv == KInv /\ [Classic!Next]_(Classic!vars) => KInv'
<1> SUFFICES ASSUME KInv, [Classic!Next]_(Classic!vars) PROVE KInv'
  OBVIOUS
<1>1. ASSUME NEW s \in Seeds, Classic!reset(s) PROVE KInv'
  BY <1>1, EmptyKInv DEF Classic!reset
<1>2. ASSUME NEW len \in ClassicLengths, Classic!update(len) PROVE KInv'
  BY <1>2, BufferedKInv, ConsumingKInv DEF Classic!update
<1>3. CASE UNCHANGED Classic!vars
  BY <1>3 DEF Classic!vars, KInv, ClassicAt
<1> QED
  BY <1>1, <1>2, <1>3 DEF Classic!Next

-----------------------------------------------------------------------------
(* The digest of hash_state_t is the hash in one shot. *)
LEMMA ClassicDigest ==
  ASSUME KInv
  PROVE  Classic!digest = Classic!endian_align(seed, total_len)
<1> DEFINE b     == Classic!MemLen
           input == [i \in 0 .. total_len - 1 |-> i + 1]
<1>1. /\ b \in Nat \ {0} /\ total_len \in Nat /\ memsize \in 0 .. b - 1
  <2>1. b \in Nat \ {0} /\ ClassicMaxInput \in Nat
    BY ClassicSizes
  <2> QED
    BY <2>1 DEF KInv
<1>2. PICK c \in Nat : ClassicAt(c)
  BY DEF KInv
<1>3. total_len = c * b + memsize /\ v = Walk(seed, c)
  BY <1>2 DEF ClassicAt
<1> HIDE DEF b
<1>4. c * b \in Nat /\ total_len \div b = c /\ total_len % b = memsize
  BY <1>1, <1>3, Dist, Divided
<1>5. ASSUME NEW i \in 1 .. memsize
      PROVE  mem[0 + i - 1] = input[total_len - memsize + i - 1]
  <2>1. i - 1 \in 0 .. memsize - 1 /\ 0 + i - 1 = i - 1
    BY <1>1
  <2>2. mem[i - 1] = (total_len - memsize) + (i - 1) + 1
    BY <2>1 DEF KInv
  <2>3. total_len - memsize + i - 1 \in 0 .. total_len - 1
    BY <1>1, <1>3, <1>4
  <2>4. input[total_len - memsize + i - 1] = (total_len - memsize + i - 1) + 1
    BY <2>3
  <2> QED
    BY <1>1, <2>1, <2>2, <2>4
<1>6. CASE total_len >= b
  <2>1. Classic!consume(StartLanes(seed), input, 0, c) = Walk(seed, c)
    <3>1. ClassicHolds(input, 0, 0, c)
      <4>1. ASSUME NEW i \in 0 .. c * b - 1 PROVE input[0 + i] = 0 * b + i + 1
        <5>1. i \in 0 .. total_len - 1 /\ 0 + i = i /\ 0 * b = 0 /\ i \in Nat
          BY <1>1, <1>3, <1>4
        <5> QED
          BY <5>1
      <4> HIDE DEF input
      <4> QED
        BY <4>1 DEF ClassicHolds, b
    <3> HIDE DEF input
    <3>2. Classic!consume(StartLanes(seed), ClassicNumbers, 0, 0) = StartLanes(seed)
      BY WalkStart DEF Walk
    <3>3. 0 + c = c
      OBVIOUS
    <3> QED
      BY <3>1, <3>2, <3>3, ClassicConsumeAlong DEF Walk
  <2>2. Classic!endian_align(seed, total_len) =
          Classic!Ending(Classic!consume(StartLanes(seed), input, 0, c),
                         total_len, input, total_len - memsize, memsize)
    BY <1>4, <1>6 DEF Classic!endian_align, StartLanes, b
  <2>3. Classic!digest = Classic!Ending(v, total_len, mem, 0, memsize)
    BY <1>6 DEF Classic!digest, b
  <2> HIDE DEF input
  <2>4. Classic!Ending(v, total_len, mem, 0, memsize) =
          Classic!Ending(v, total_len, input, total_len - memsize, memsize)
    BY <1>5 DEF Classic!Ending
  <2> QED
    BY <1>3, <2>1, <2>2, <2>3, <2>4
<1>7. CASE ~(total_len >= b)
  <2>1. c = 0 /\ memsize = total_len
    <3>1. ASSUME c >= 1 PROVE FALSE
      <4>1. 1 * b <= c * b /\ 1 * b = b
        BY <1>1, <3>1, Mono
      <4> QED
        BY <1>1, <1>3, <1>4, <1>7, <4>1
    <3>2. c = 0
      BY <3>1
    <3> QED
      BY <1>1, <1>3, <1>4, <3>2
  <2>2. v[3] = seed
    <3>1. v = StartLanes(seed) /\ seed \in Seeds
      BY <1>3, <2>1, WalkStart DEF KInv
    <3> QED
      BY <3>1, ClassicAssumption DEF StartLanes, Classic!Lanes, Classic!XxhAssumption
  <2>3. Classic!endian_align(seed, total_len) =
          Classic!Ending(seed, total_len, input, 0, total_len)
    BY <1>7 DEF Classic!endian_align, b
  <2>4. Classic!digest = Classic!Ending(seed, total_len, mem, 0, total_len)
    BY <1>7, <2>1, <2>2 DEF Classic!digest, b
  <2>5. ASSUME NEW i \in 1 .. total_len PROVE mem[0 + i - 1] = input[0 + i - 1]
    <3>1. total_len - memsize + i - 1 = 0 + i - 1
      BY <1>1, <2>1
    <3> HIDE DEF input
    <3> QED
      BY <1>5, <2>1, <3>1
  <2> HIDE DEF input
  <2> QED
    BY <2>3, <2>4, <2>5 DEF Classic!Ending
<1> QED
  BY <1>6, <1>7

LEMMA ClassicRefinementInit == Classic!Init => Classic!Stream!Init
<1> SUFFICES ASSUME Classic!Init PROVE Classic!Stream!Init
  OBVIOUS
<1>1. Classic!digest = Classic!endian_align(seed, total_len)
  BY InitKInv, ClassicDigest
<1> QED
  BY <1>1 DEF Classic!Init, Classic!Stream!Init

ClassicRight == Classic!digest = Classic!endian_align(seed, total_len)

LEMMA ClassicRefinementStep ==
  ClassicRight' /\ [Classic!Next]_(Classic!vars) => [Classic!Stream!Next]_(Classic!Stream!vars)
<1> SUFFICES ASSUME ClassicRight', [Classic!Next]_(Classic!vars)
             PROVE  [Classic!Stream!Next]_(Classic!Stream!vars)
  OBVIOUS
<1>1. Classic!digest' = Classic!endian_align(seed', total_len')
  BY DEF ClassicRight
<1>2. ASSUME NEW s \in Seeds, Classic!reset(s) PROVE Classic!Stream!Reset(s)
  BY <1>1, <1>2 DEF Classic!reset, Classic!Stream!Reset
<1>3. ASSUME NEW len \in ClassicLengths, Classic!update(len) PROVE Classic!Stream!Update(len)
  BY <1>1, <1>3 DEF Classic!update, Classic!Stream!Update
<1>4. CASE UNCHANGED Classic!vars
  BY <1>4 DEF Classic!vars, Classic!Stream!vars, Classic!digest
<1> QED
  BY <1>2, <1>3, <1>4 DEF Classic!Next, Classic!Stream!Next

(* A behaviour of the two streams is one of each. *)
THEOREM StreamsRun == StreamsSpec => Spec /\ Classic!Spec
<1>1. StreamsInit => Init /\ Classic!Init
  BY DEF StreamsInit
<1>2. [StreamsNext]_<<kind, vars, classicvars>> => [Next]_vars /\ [Classic!Next]_(Classic!vars)
  BY DEF StreamsNext, classicvars, Classic!vars
<1> QED
  BY <1>1, <1>2, PTL DEF StreamsSpec, Spec, Classic!Spec

(* What holds of hash3_state_t alone holds where a run uses either stream. *)
THEOREM Xxh3AmongThem == StreamsSpec => []LastStripeIsBuffered /\ ImplementsHashStream
BY StreamsRun, LastStripeAlwaysBuffered, StreamIsHashStream, PTL

(* Whatever the bit mode, the arithmetic, the seeds and the pieces, every digest
   of hash_state_t is the hash in one shot.                                *)
THEOREM ClassicIsHashStream == StreamsSpec => ClassicImplementsHashStream
<1>1. KInv => ClassicRight
  BY ClassicDigest DEF ClassicRight
<1> QED
  BY <1>1, StreamsRun, InitKInv, StepKInv, ClassicRefinementInit, ClassicRefinementStep, PTL
  DEF Classic!Spec, ClassicImplementsHashStream, Classic!ImplementsHashStream, Classic!Stream!Spec

-----------------------------------------------------------------------------
(* A round stays within the values of a lane. *)
LanesClosed ==
  \A x \in LaneValues, word \in [1 .. WordLen -> 0 .. ClassicMaxInput] : round(x, word) \in LaneValues

LEMMA WalkLanes ==
  ASSUME LanesClosed, NEW s \in Seeds, NEW c \in Nat, c * Classic!MemLen <= ClassicMaxInput
  PROVE  Walk(s, c) \in [Classic!Lanes -> LaneValues]
<1> DEFINE b == Classic!MemLen
           f == ClassicLoop(StartLanes(s), ClassicNumbers, 0, c)
           T == [Classic!Lanes -> LaneValues]
           S == {k \in Nat : k <= c => f[k] \in T}
<1>1. b \in Nat \ {0} /\ ClassicMaxInput \in Nat /\ WordLen \in Nat
  BY ClassicSizes
<1>2. /\ f[0] = StartLanes(s)
      /\ \A k \in 0 .. c - 1 : f[k + 1] = Classic!rounds(f[k], ClassicNumbers, 0 + k * b)
      /\ Walk(s, c) = f[c]
  BY ClassicLoopEquation DEF Walk
<1> HIDE DEF f
<1>3. 0 \in S
  <2>1. StartLanes(s) \in T
    BY ClassicAssumption DEF StartLanes, Classic!XxhAssumption
  <2> QED
    BY <1>2, <2>1
<1>4. ASSUME NEW k \in Nat, k \in S PROVE k + 1 \in S
  <2> SUFFICES ASSUME k + 1 <= c PROVE f[k + 1] \in T
    OBVIOUS
  <2>1. k \in 0 .. c - 1 /\ f[k] \in T
    BY <1>4
  <2>2. k * b \in Nat /\ (k + 1) * b = k * b + b /\ (k + 1) * b <= c * b /\ c * b \in Nat
    BY <1>1, Dist, Mono
  <2>3. ASSUME NEW l \in Classic!Lanes
        PROVE  round(f[k][l], Classic!Word(ClassicNumbers, 0 + k * b + (l - 1) * WordLen))
                 \in LaneValues
    <3>1. ASSUME NEW i \in 1 .. WordLen
          PROVE  ClassicNumbers[0 + k * b + (l - 1) * WordLen + i - 1] \in 0 .. ClassicMaxInput
      <4> DEFINE w == (l - 1) * WordLen
      <4>1. w \in Nat /\ w + i - 1 \in 0 .. b - 1
        BY WordPlace
      <4> HIDE DEF w, b
      <4> DEFINE q == 0 + k * b + w + i - 1
      <4>2. q \in Nat /\ q + 1 <= ClassicMaxInput /\ q + 1 \in Nat
        BY <1>1, <2>2, <4>1 DEF b
      <4> HIDE DEF q
      <4>3. ClassicNumbers[q] = q + 1
        BY <4>2 DEF ClassicNumbers
      <4>4. ClassicNumbers[q] \in 0 .. ClassicMaxInput
        BY <1>1, <4>2, <4>3
      <4> QED
        BY <4>4 DEF q, w
    <3>2. Classic!Word(ClassicNumbers, 0 + k * b + (l - 1) * WordLen)
            \in [1 .. WordLen -> 0 .. ClassicMaxInput]
      BY <3>1 DEF Classic!Word
    <3>3. f[k][l] \in LaneValues
      BY <2>1
    <3> QED
      BY <3>2, <3>3 DEF LanesClosed
  <2>4. Classic!rounds(f[k], ClassicNumbers, 0 + k * b) \in T
    BY <2>3 DEF Classic!rounds
  <2> QED
    BY <1>2, <2>1, <2>4
<1>5. Nat \subseteq S
  <2> HIDE DEF S
  <2> QED
    BY <1>3, <1>4, NatSetInduction
<1> QED
  BY <1>2, <1>5

(* Type correctness, whatever the pieces: update never leaves mem full. *)
THEOREM ClassicTypeCorrect ==
  ASSUME LanesClosed
  PROVE  StreamsSpec => []ClassicTypeOK
<1>1. ASSUME KInv PROVE ClassicTypeOK
  <2>1. PICK c \in Nat : ClassicAt(c)
    BY <1>1 DEF KInv
  <2>2. Classic!MemLen \in Nat \ {0} /\ ClassicMaxInput \in Nat
    BY ClassicSizes
  <2>3. c * Classic!MemLen \in Nat
    BY <2>2, Dist
  <2>4. c * Classic!MemLen <= ClassicMaxInput
    <3> DEFINE b == Classic!MemLen
               x == c * b
    <3>1. total_len = x + memsize
      BY <2>1 DEF ClassicAt
    <3> HIDE DEF x
    <3> QED
      BY <1>1, <2>2, <2>3, <3>1 DEF KInv, x
  <2>5. v \in [Classic!Lanes -> LaneValues]
    BY <1>1, <2>1, <2>4, WalkLanes DEF KInv, ClassicAt
  <2> QED
    BY <1>1, <2>5 DEF KInv, ClassicTypeOK, Classic!TypeOK
<1> QED
  BY <1>1, StreamsRun, InitKInv, StepKInv, PTL DEF Classic!Spec

=============================================================================
