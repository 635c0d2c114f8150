----------------------------- MODULE Xxh3Stream -----------------------------
(***************************************************************************)
(* hash3_state_t: the streaming interface of XXH3, and the one-shot long   *)
(* hash it has to agree with.                                              *)
(*                                                                         *)
(* A byte of input is its position in the stream, 0 is a byte nothing was  *)
(* written to since the last reset.  How a stripe is mixed into the        *)
(* accumulator is not modelled: the operators that do it are constants, so *)
(* what holds of them holds of the vectorised and of the scalar code.  The *)
(* runs let an accumulator be the list of what was mixed into it.          *)
(*                                                                         *)
(* A secret is known by nbStripesPerBlock, the number of stripes that can  *)
(* be mixed with it before the accumulator is scrambled.                   *)
(***************************************************************************)
EXTENDS Naturals

CONSTANTS
  StripeLen,        \* stripe_len
  BufferStripes,    \* internal_buffer_stripes
  MidsizeMax,       \* midsize_max: longer inputs use the accumulator
  Secrets,          \* stripes per block of the secrets given to reset
  Lengths,          \* lengths of the pieces given to update
  MaxInput,         \* bound on the input a run explores
  Accs,             \* values of the accumulator
  init_acc,
  accumulate_512(_, _, _),  \* accumulator, stripe and offset into the secret to accumulator
  accumulate_last(_, _),    \* the same with the end of the secret
  scramble_acc(_)

internal_buffer_size == BufferStripes * StripeLen

(* secret_size_min leaves room for more stripes than the buffer holds. *)
ASSUME StreamAssumption ==
  /\ StripeLen \in Nat \ {0}
  /\ BufferStripes \in Nat \ {0}
  /\ MidsizeMax \in StripeLen .. internal_buffer_size
  /\ Secrets \subseteq Nat /\ \A s \in Secrets : s >= BufferStripes
  /\ Secrets # {}
  /\ Lengths \subseteq Nat
  /\ MaxInput \in Nat
  /\ init_acc \in Accs

VARIABLES
  acc,                \* the accumulator
  buffer,             \* the internal buffer, indexed from 0
  bufferedSize,       \* bytes waiting in it
  nbStripesPerBlock,
  nbStripesSoFar,     \* stripes since the last scramble
  totalLen,           \* bytes fed since the last reset
  direct              \* history: what was consumed last never was in the buffer

vars == <<acc, buffer, bufferedSize, nbStripesPerBlock, nbStripesSoFar, totalLen, direct>>

-----------------------------------------------------------------------------
(* Accumulation.  A memory is a function from addresses to bytes, a secret *)
(* is read at multiples of secret_consume_rate.                            *)

Bytes(memory, from) == [i \in 1 .. StripeLen |-> memory[from + i - 1]]

accumulate(a, memory, from, secret, nbStripes) ==
  LET after[n \in 0 .. nbStripes] ==
        IF n = 0 THEN a
        ELSE accumulate_512(after[n - 1], Bytes(memory, from + (n - 1) * StripeLen), secret + n - 1)
  IN  after[nbStripes]

(* Faulty: no scramble at the exact end of a block. *)
scrambling_late(soFar, n) == nbStripesPerBlock - soFar < n

(* Need a scrambling operation. *)
scrambling(soFar, n) == nbStripesPerBlock - soFar <= n

(* The accumulator and the stripes since the last scramble after n more stripes. *)
consume_stripes(a, soFar, n, memory, from) ==
  LET left == nbStripesPerBlock - soFar
  IN  IF scrambling(soFar, n)
        THEN [acc   |-> accumulate(scramble_acc(accumulate(a, memory, from, soFar, left)),
                                   memory, from + left * StripeLen, 0, n - left),
              soFar |-> n - left]
        ELSE [acc   |-> accumulate(a, memory, from, soFar, n),
              soFar |-> soFar + n]

-----------------------------------------------------------------------------
EmptyBuffer == [i \in 0 .. internal_buffer_size - 1 |-> 0]

Init ==
  /\ acc = init_acc
  /\ buffer = EmptyBuffer
  /\ bufferedSize = 0
  /\ nbStripesPerBlock \in Secrets
  /\ nbStripesSoFar = 0
  /\ totalLen = 0
  /\ direct = FALSE

(* reset: with a seed, that is the default secret or one derived from it, or a secret. *)
reset(s) ==
  /\ acc' = init_acc
  /\ buffer' = EmptyBuffer
  /\ bufferedSize' = 0
  /\ nbStripesPerBlock' = s
  /\ nbStripesSoFar' = 0
  /\ totalLen' = 0
  /\ direct' = FALSE

(* The piece given to update, as a memory. *)
Piece(len) == [i \in 0 .. len - 1 |-> totalLen + i + 1]

(* The piece fits into the buffer. *)
update_buffered(len) ==
  /\ bufferedSize + len <= internal_buffer_size
  /\ buffer' = [i \in DOMAIN buffer |->
                  IF bufferedSize <= i /\ i < bufferedSize + len
                    THEN Piece(len)[i - bufferedSize] ELSE buffer[i]]
  /\ bufferedSize' = bufferedSize + len
  /\ UNCHANGED <<acc, nbStripesSoFar, direct>>

(* Bytes taken from the piece to fill the buffer up. *)
LoadSize == IF bufferedSize > 0 THEN internal_buffer_size - bufferedSize ELSE 0

(* The buffer after it was filled up. *)
Filled(len) ==
  [i \in DOMAIN buffer |->
     IF bufferedSize > 0 /\ bufferedSize <= i THEN Piece(len)[i - bufferedSize] ELSE buffer[i]]

(* The piece does not fit: fill and consume the buffer, consume the piece by
   whole buffers without copying them, and keep what remains.             *)
update_consuming(len) ==
  LET whole == (len - LoadSize) \div internal_buffer_size
      rest  == (len - LoadSize) % internal_buffer_size
      consumed[n \in 0 .. whole] ==
        IF n = 0
          THEN IF bufferedSize > 0
                 THEN consume_stripes(acc, nbStripesSoFar, BufferStripes, Filled(len), 0)
                 ELSE [acc |-> acc, soFar |-> nbStripesSoFar]
          ELSE consume_stripes(consumed[n - 1].acc, consumed[n - 1].soFar, BufferStripes,
                               Piece(len), LoadSize + (n - 1) * internal_buffer_size)
  IN  /\ bufferedSize + len > internal_buffer_size
      /\ acc' = consumed[whole].acc
      /\ nbStripesSoFar' = consumed[whole].soFar
      /\ buffer' = [i \in DOMAIN buffer |->
                      IF i < rest THEN Piece(len)[len - rest + i] ELSE Filled(len)[i]]
      /\ bufferedSize' = rest
      /\ direct' = (whole > 0)

update(len) ==
  /\ totalLen + len <= MaxInput
  /\ totalLen' = totalLen + len
  /\ update_buffered(len) \/ update_consuming(len)
  /\ UNCHANGED nbStripesPerBlock

Next == (\E s \in Secrets : reset(s)) \/ (\E len \in Lengths : update(len))

Spec == Init /\ [][Next]_vars

-----------------------------------------------------------------------------
(* Digests.                                                                *)

(* Faulty: the stripe starts with the buffer. *)
last_stripe_unpadded == [i \in 1 .. StripeLen |-> buffer[i - 1]]

(* Less than a stripe is buffered: the last stripe begins with bytes consumed
   before, which are looked for at the end of the buffer.                  *)
last_stripe ==
  LET catchupSize == StripeLen - bufferedSize
  IN  [i \in 1 .. StripeLen |->
         IF i <= catchupSize THEN buffer[internal_buffer_size - catchupSize + i - 1]
                             ELSE buffer[i - catchupSize - 1]]

(* The accumulator of a digest, computed on a copy. *)
digest_long ==
  IF bufferedSize >= StripeLen
    THEN LET full == consume_stripes(acc, nbStripesSoFar, bufferedSize \div StripeLen, buffer, 0).acc
         IN  IF bufferedSize % StripeLen # 0
               THEN accumulate_last(full, Bytes(buffer, bufferedSize - StripeLen))
               ELSE full
    ELSE IF bufferedSize > 0 THEN accumulate_last(acc, last_stripe) ELSE acc

(* A hash is the accumulator it is merged from, or, of an input of midsize
   length or less, all of its bytes.                                      *)
Long(a, len) == [len |-> len, acc |-> a]

Short(memory, len) == [len |-> len, bytes |-> [i \in 1 .. len |-> memory[i - 1]]]

digest == IF totalLen > MidsizeMax THEN Long(digest_long, totalLen) ELSE Short(buffer, totalLen)

hash_long_internal_loop(nb_rounds, input, len) ==
  LET block_len == StripeLen * nb_rounds
      nb_blocks == len \div block_len
      blocks[n \in 0 .. nb_blocks] ==
        IF n = 0 THEN init_acc
        ELSE scramble_acc(accumulate(blocks[n - 1], input, (n - 1) * block_len, 0, nb_rounds))
      full == accumulate(blocks[nb_blocks], input, nb_blocks * block_len, 0,
                         (len - block_len * nb_blocks) \div StripeLen)
  IN  IF len % StripeLen # 0 THEN accumulate_last(full, Bytes(input, len - StripeLen)) ELSE full

(* xxhash3_impl on the first len bytes of the input. *)
xxhash3_impl(secret, len) ==
  LET input == [i \in 0 .. len - 1 |-> i + 1]
  IN  IF len > MidsizeMax THEN Long(hash_long_internal_loop(secret, input, len), len)
                          ELSE Short(input, len)

-----------------------------------------------------------------------------
(* Properties.                                                             *)

(* Type correctness of hash3_state_t.  A block is never overfull, whatever
   number of stripes update consumed at once: with nbStripesSoFar at its
   largest, the secret is still read within its bounds.                   *)
TypeOK ==
  /\ acc \in Accs
  /\ buffer \in [0 .. internal_buffer_size - 1 -> 0 .. MaxInput]
  /\ bufferedSize \in 0 .. internal_buffer_size
  /\ nbStripesPerBlock \in Secrets
  /\ nbStripesSoFar \in 0 .. nbStripesPerBlock - 1
  /\ totalLen \in 0 .. MaxInput
  /\ direct \in BOOLEAN

(* digest_long completes what is buffered to a stripe. *)
NeedsCatchup == totalLen > MidsizeMax /\ bufferedSize \in 1 .. StripeLen - 1

InputTail == [i \in 1 .. StripeLen |-> totalLen - StripeLen + i]

(* "One last stripe" of digest_long is the end of the input: its bytes that
   are no longer buffered are still found at the end of the buffer.       *)
LastStripeIsInputTail == NeedsCatchup => last_stripe = InputTail

(* Only the input that update consumed last without copying it is missing
   there.  Filling and consuming the buffer repairs what it left behind.  *)
LastStripeIsBuffered == ~direct => LastStripeIsInputTail

(* A digest taken at any moment is the one-shot hash of everything fed since
   the last reset, however update was called, unless it needs a stripe that
   was consumed without being copied: nothing else goes wrong, neither then
   nor in the digests after the next pieces.                               *)
Stream == INSTANCE HashStream WITH
  OneShot <- xxhash3_impl,
  secret  <- nbStripesPerBlock,
  length  <- totalLen,
  digest  <- IF direct /\ NeedsCatchup THEN xxhash3_impl(nbStripesPerBlock, totalLen)
                                       ELSE digest

ImplementsHashStream == Stream!Spec

=============================================================================
