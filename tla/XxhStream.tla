----------------------------- MODULE XxhStream -----------------------------
(***************************************************************************)
(* hash_state_t: the streaming interface of the classic xxHash in its 32   *)
(* and 64 bit mode, and the one-shot endian_align it has to agree with.    *)
(*                                                                         *)
(* As in Xxh3Stream a byte of input is its position in the stream and the  *)
(* arithmetic is left open: round mixes a word into one of four lanes.     *)
(***************************************************************************)
EXTENDS Naturals

CONSTANTS
  WordLen,      \* bytes of a word, bit_mode / 8
  Seeds,        \* seeds of the streams
  Lengths,      \* lengths of the pieces given to update
  MaxInput,     \* bound on the input a run explores
  LaneValues,   \* values of a lane
  start(_, _),  \* the initial value of a lane under a seed
  round(_, _)   \* lane and word to lane

Lanes == 1 .. 4

(* bit_mode / 2 bytes are consumed at a time and mem holds as many. *)
MemLen == 4 * WordLen

(* Assumed where the constants get their values. *)
XxhAssumption ==
  /\ WordLen \in Nat \ {0}
  /\ Lengths \subseteq Nat
  /\ MaxInput \in Nat
  /\ \A s \in Seeds : start(s, 3) = s
  /\ \A s \in Seeds, l \in Lanes : start(s, l) \in LaneValues

VARIABLES
  seed,       \* history: the seed of the last reset
  v,          \* the four lanes v1 to v4
  mem,        \* bytes not yet consumed, indexed from 0
  memsize,
  total_len

vars == <<seed, v, mem, memsize, total_len>>

-----------------------------------------------------------------------------
Word(memory, from) == [i \in 1 .. WordLen |-> memory[from + i - 1]]

(* The four rounds of one iteration. *)
rounds(lanes, memory, from) ==
  [l \in Lanes |-> round(lanes[l], Word(memory, from + (l - 1) * WordLen))]

(* The lanes after the loop over n times MemLen bytes. *)
consume(lanes, memory, from, n) ==
  LET after[k \in 0 .. n] ==
        IF k = 0 THEN lanes ELSE rounds(after[k - 1], memory, from + (k - 1) * MemLen)
  IN  after[n]

EmptyMem == [i \in 0 .. MemLen - 1 |-> 0]

Init ==
  /\ seed \in Seeds
  /\ v = [l \in Lanes |-> start(seed, l)]
  /\ mem = EmptyMem
  /\ memsize = 0
  /\ total_len = 0

reset(s) ==
  /\ seed' = s
  /\ v' = [l \in Lanes |-> start(s, l)]
  /\ mem' = EmptyMem
  /\ memsize' = 0
  /\ total_len' = 0

(* The piece given to update, as a memory. *)
Piece(len) == [i \in 0 .. len - 1 |-> total_len + i + 1]

(* Faulty: a full mem is kept for the next call. *)
fits_inclusive(len) == memsize + len <= MemLen

fits(len) == memsize + len < MemLen

(* Fill in tmp buffer. *)
update_buffered(len) ==
  /\ fits(len)
  /\ mem' = [i \in DOMAIN mem |->
               IF memsize <= i /\ i < memsize + len THEN Piece(len)[i - memsize] ELSE mem[i]]
  /\ memsize' = memsize + len
  /\ UNCHANGED v

(* Complete and consume what is left from previous updates, consume the piece
   and keep its end.                                                       *)
update_consuming(len) ==
  LET loaded == IF memsize > 0 THEN MemLen - memsize ELSE 0
      filled == [i \in DOMAIN mem |->
                   IF memsize > 0 /\ memsize <= i THEN Piece(len)[i - memsize] ELSE mem[i]]
      rest   == (len - loaded) % MemLen
  IN  /\ ~fits(len)
      /\ v' = consume(IF memsize > 0 THEN rounds(v, filled, 0) ELSE v,
                      Piece(len), loaded, (len - loaded) \div MemLen)
      /\ mem' = [i \in DOMAIN mem |->
                   IF i < rest THEN Piece(len)[len - rest + i] ELSE filled[i]]
      /\ memsize' = rest

update(len) ==
  /\ total_len + len <= MaxInput
  /\ total_len' = total_len + len
  /\ update_buffered(len) \/ update_consuming(len)
  /\ UNCHANGED seed

Next == (\E s \in Seeds : reset(s)) \/ (\E len \in Lengths : update(len))

Spec == Init /\ [][Next]_vars

-----------------------------------------------------------------------------
(* Digests.                                                                *)

(* What endian_align_sub_ending finishes: the merged lanes, or the seed, the
   length, and the bytes after the last MemLen.                            *)
Ending(lanes, len, memory, from, n) ==
  [lanes |-> lanes, len |-> len, tail |-> [i \in 1 .. n |-> memory[from + i - 1]]]

digest == Ending(IF total_len >= MemLen THEN v ELSE v[3], total_len, mem, 0, memsize)

endian_align(s, len) ==
  LET input == [i \in 0 .. len - 1 |-> i + 1]
      tail  == len % MemLen
  IN  IF len >= MemLen
        THEN Ending(consume([l \in Lanes |-> start(s, l)], input, 0, len \div MemLen),
                    len, input, len - tail, tail)
        ELSE Ending(s, len, input, 0, len)

-----------------------------------------------------------------------------
(* Properties.                                                             *)

(* Type correctness of hash_state_t: mem is never left full by update. *)
TypeOK ==
  /\ seed \in Seeds
  /\ v \in [Lanes -> LaneValues]
  /\ mem \in [0 .. MemLen - 1 -> 0 .. MaxInput]
  /\ memsize \in 0 .. MemLen - 1
  /\ total_len \in 0 .. MaxInput

(* A digest taken at any moment is the one-shot hash of everything fed since
   the last reset, however the calls of update cut it.                    *)
Stream == INSTANCE HashStream WITH
  OneShot <- endian_align,
  Secrets <- Seeds,
  secret  <- seed,
  length  <- total_len,
  digest  <- digest

ImplementsHashStream == Stream!Spec

=============================================================================
