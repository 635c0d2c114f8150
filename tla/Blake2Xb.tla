------------------------------ MODULE Blake2Xb ------------------------------
(***************************************************************************)
(* The life of a Blake2Xb hasher: the parameter block that is hashed with  *)
(* the input, its rewriting when the hasher is finished, and the loop that *)
(* expands the first hash to the size of the caller's buffer, block by     *)
(* block, out of the same parameter block and the same libsodium state.    *)
(*                                                                         *)
(* A hash of libsodium is the parameter block and the input it was taken   *)
(* of; a byte of output is an index into such a hash.                      *)
(***************************************************************************)
EXTENDS Naturals, Sequences

CONSTANTS
  BYTES_MAX,        \* crypto_generichash_blake2b_BYTES_MAX
  OutputExtents,    \* template arguments, 0 stands for dynamic_output_extent
  FieldSize,        \* number of values of a uint32_t
  MinKey, MaxKey,   \* min_key_extent, max_key_extent
  OutputLens,       \* lengths callers give to a dynamic constructor
  Keys,             \* keys callers give to the constructor, with their lengths
  KeyLen(_),
  Customs,          \* pairs of a salt and a personality
  Data,             \* pieces of input
  MaxPieces,        \* bound on the pieces a run feeds
  Sizes             \* sizes of the buffers given to finish

unknown_output_extent == 0
unknown_output_extend_magic == FieldSize - 1
max_output_extent == FieldSize - 2

ASSUME Blake2XbAssumption ==
  /\ BYTES_MAX \in Nat \ {0}
  /\ FieldSize \in Nat /\ FieldSize > 2
  /\ OutputExtents \subseteq 0 .. max_output_extent
  /\ MinKey \in Nat \ {0} /\ MaxKey \in Nat
  /\ \A k \in Keys : KeyLen(k) \in Nat
  /\ OutputLens \subseteq Nat
  /\ Sizes \subseteq Nat

VARIABLES
  pc,          \* "none", "ready", "blocks" in the loop of finish, "finished" or "threw"
  args,        \* history: the template argument and those of the constructor
  pieces,      \* history: what was fed
  param_,      \* the parameter block
  state_,      \* the libsodium state: the parameters it started from and its input
  h0,          \* finish: the hash that is expanded
  pos,         \* finish: bytes written
  remaining,   \* finish: bytes to be written
  out,         \* finish: the caller's buffer, indexed from 0
  outcome      \* of the last call

vars == <<pc, args, pieces, param_, state_, h0, pos, remaining, out, outcome>>

-----------------------------------------------------------------------------
(* init_state pads a key with zeroes to a block of input and digests it: one
   padded block stands for one key, as param.key_len tells its length.      *)
KeyBlock(k) == <<"key", k>>

Initialised(param, k) ==
  [param |-> param, input |-> IF KeyLen(k) > 0 THEN <<KeyBlock(k)>> ELSE <<>>]

(* libsodium: a state is fed, and turned into a hash, which is here just what
   it is the hash of.                                                       *)

Updated(state, d) == [state EXCEPT !.input = Append(@, d)]

Byte(state, i) == [hash |-> state, index |-> i]

Unwritten == [hash |-> <<>>, index |-> 0]

-----------------------------------------------------------------------------
ZeroParam ==
  [digest_len |-> 0, key_len |-> 0, fanout |-> 0, depth |-> 0, leaf_len |-> 0,
   node_off |-> 0, xof_digest_len |-> 0, inner_len |-> 0, custom |-> <<>>]

NoState == [param |-> ZeroParam, input |-> <<>>]

Arguments ==
  [extent : {0}, output_len : OutputLens, key : Keys, custom : Customs]
    \cup UNION {[extent : {n}, output_len : {n}, key : Keys, custom : Customs] :
                   n \in OutputExtents \ {0}}

(* output_extent == dynamic_output_extent *)
Dynamic == args.extent = 0

Init ==
  /\ pc = "none"
  /\ args \in Arguments
  /\ pieces = <<>>
  /\ param_ = ZeroParam
  /\ state_ = NoState
  /\ h0 = NoState
  /\ pos = 0 /\ remaining = 0
  /\ out = <<>>
  /\ outcome = "ok"

LegalLength(n) == n <= max_output_extent

LegalKey(k) == KeyLen(k) > 0 => KeyLen(k) >= MinKey /\ KeyLen(k) <= MaxKey

(* The constructors; an output length of zero stands for an unknown one, and
   sodium_init may fail.                                                   *)
Construct(initialised) ==
  /\ pc = "none"
  /\ IF LegalLength(args.output_len) /\ LegalKey(args.key) /\ initialised
       THEN /\ pc' = "ready"
            /\ outcome' = "ok"
            /\ param_' = [param_ EXCEPT
                            !.digest_len = BYTES_MAX, !.key_len = KeyLen(args.key),
                            !.fanout = 1, !.depth = 1,
                            !.xof_digest_len = IF args.output_len = unknown_output_extent
                                                 THEN unknown_output_extend_magic
                                                 ELSE args.output_len,
                            !.custom = args.custom]
            /\ state_' = Initialised(param_', args.key)
       ELSE /\ pc' = "threw"
            /\ outcome' = "runtime_error"
            /\ UNCHANGED <<param_, state_>>
  /\ UNCHANGED <<args, pieces, h0, pos, remaining, out>>

digest(d) ==
  /\ pc = "ready"
  /\ Len(pieces) < MaxPieces
  /\ pieces' = Append(pieces, d)
  /\ state_' = Updated(state_, d)
  /\ outcome' = "ok"
  /\ UNCHANGED <<pc, args, param_, h0, pos, remaining, out>>

(* The buffers the type of out admits. *)
Buffers == IF Dynamic THEN Sizes ELSE {args.extent}

(* Faulty: the length of the buffer is not compared. *)
MatchesAny(n) == n \in Nat

(* The buffer fits: its length was unknown until now, or it is the one known. *)
Matches(n) ==
  Dynamic /\ param_.xof_digest_len # unknown_output_extend_magic => n = param_.xof_digest_len

finish_mismatch(n) ==
  /\ pc = "ready"
  /\ ~Matches(n)
  /\ outcome' = "runtime_error"
  /\ UNCHANGED <<pc, args, pieces, param_, state_, h0, pos, remaining, out>>

(* The parameters of the blocks of output. *)
Expansion(param, n) ==
  [param EXCEPT !.key_len = 0, !.fanout = 0, !.depth = 0, !.leaf_len = BYTES_MAX,
                !.xof_digest_len = n % FieldSize, !.inner_len = BYTES_MAX]

finish(n) ==
  /\ pc = "ready"
  /\ Matches(n)
  /\ pc' = "blocks"
  /\ h0' = state_
  /\ param_' = Expansion(param_, n)
  /\ pos' = 0
  /\ remaining' = n
  /\ out' = [i \in 0 .. n - 1 |-> Unwritten]
  /\ outcome' = "ok"
  /\ UNCHANGED <<args, pieces, state_>>

(* Faulty: the last block is as long as the others. *)
BlockLenFull == BYTES_MAX

BlockLen == IF remaining < BYTES_MAX THEN remaining ELSE BYTES_MAX

(* Faulty: the same node for every block. *)
NodeConstant(param) == [param EXCEPT !.digest_len = BlockLen]

(* Faulty: what remains is not cut to a block. *)
NodeUncut(param) ==
  [param EXCEPT !.node_off = (pos \div BYTES_MAX) % FieldSize,
                !.digest_len = remaining]

NodeOf(param) ==
  [param EXCEPT !.node_off = (pos \div BYTES_MAX) % FieldSize, !.digest_len = BlockLen]

finish_block ==
  /\ pc = "blocks" /\ remaining > 0
  /\ param_' = NodeOf(param_)
  /\ state_' = [param |-> param_', input |-> <<h0>>]
  /\ out' = [i \in DOMAIN out |->
               IF pos <= i /\ i < pos + BlockLen THEN Byte(state_', i - pos) ELSE out[i]]
  /\ pos' = pos + BlockLen
  /\ remaining' = remaining - BlockLen
  /\ UNCHANGED <<pc, args, pieces, h0, outcome>>

finish_return ==
  /\ pc = "blocks" /\ remaining = 0
  /\ pc' = "finished"
  /\ UNCHANGED <<args, pieces, param_, state_, h0, pos, remaining, out, outcome>>

(* Faulty: the magic value is announced as a length. *)
field_of_param == IF ~Dynamic THEN args.extent ELSE param_.xof_digest_len

(* Unknown or the length to be given to finish. *)
concrete_output_extent ==
  IF ~Dynamic THEN args.extent
  ELSE IF param_.xof_digest_len = unknown_output_extend_magic THEN unknown_output_extent
  ELSE param_.xof_digest_len

Next ==
  \/ \E initialised \in BOOLEAN : Construct(initialised)
  \/ \E d \in Data : digest(d)
  \/ \E n \in Buffers : finish_mismatch(n) \/ finish(n)
  \/ finish_block
  \/ finish_return

(* A call of finish that was begun runs to its end. *)
Fairness == WF_vars(finish_block \/ finish_return)

Spec == Init /\ [][Next]_vars /\ Fairness

-----------------------------------------------------------------------------
(* Properties.                                                             *)

(* Type correctness of the hasher and of the loop of finish. *)
TypeOK ==
  /\ pc \in {"none", "ready", "blocks", "finished", "threw"}
  /\ args \in Arguments
  /\ pieces \in Seq(Data)
  /\ param_.xof_digest_len \in 0 .. FieldSize - 1
  /\ param_.node_off \in 0 .. FieldSize - 1
  /\ param_.digest_len \in 0 .. BYTES_MAX
  /\ pos \in Nat /\ remaining \in Nat
  /\ outcome \in {"ok", "runtime_error"}

(* The root of a BLAKE2Xb tree and node j of its expansion to n bytes, whose
   offset and length are fields of 32 bits.                               *)
Root(a) ==
  [digest_len |-> BYTES_MAX, key_len |-> KeyLen(a.key), fanout |-> 1, depth |-> 1,
   leaf_len |-> 0, node_off |-> 0,
   xof_digest_len |-> IF a.output_len = 0 THEN FieldSize - 1 ELSE a.output_len,
   inner_len |-> 0, custom |-> a.custom]

Node(a, n, j) ==
  [digest_len |-> IF n < (j + 1) * BYTES_MAX THEN n - j * BYTES_MAX ELSE BYTES_MAX,
   key_len |-> 0, fanout |-> 0, depth |-> 0,
   leaf_len |-> BYTES_MAX, node_off |-> j % FieldSize, xof_digest_len |-> n % FieldSize,
   inner_len |-> BYTES_MAX, custom |-> a.custom]

RootHash(a, ps) ==
  [param |-> Root(a), input |-> (IF KeyLen(a.key) > 0 THEN <<KeyBlock(a.key)>> ELSE <<>>) \o ps]

XofByte(a, ps, n, i) ==
  Byte([param |-> Node(a, n, i \div BYTES_MAX), input |-> <<RootHash(a, ps)>>], i % BYTES_MAX)

Xof(a, ps, n) == [i \in 0 .. n - 1 |-> XofByte(a, ps, n, i)]

(* The loop of finish fills the caller's buffer from front to back, whatever
   its size: the bytes before pos are those of the BLAKE2Xb tree, with the
   node, the length of the last block and the key of the constructor all in
   their places, and the rest are not written yet.                        *)
OutputIsXofPrefix ==
  pc \in {"blocks", "finished"} =>
    /\ DOMAIN out = 0 .. pos + remaining - 1
    /\ \A i \in DOMAIN out :
         out[i] = IF i < pos THEN XofByte(args, pieces, pos + remaining, i) ELSE Unwritten

(* The length the constructor was given is the one concrete_output_extent
   announces until the hasher is finished, and afterwards it announces the
   one that was produced, unless that was too large to be a length: finish
   of a hasher with unknown length does not compare it with the largest.  *)
AnnouncedLength ==
  /\ pc = "ready" => concrete_output_extent = args.output_len
  /\ pc = "finished" /\ pos <= max_output_extent => concrete_output_extent = pos

(* finish takes buffers of any size when the length is unknown, but numbers
   the blocks in 32 bits: a byte of the output can only be there again after
   as many whole blocks as there are numbers, and then it may be.          *)
RepeatsFarApart ==
  pc \in {"blocks", "finished"} =>
    \A i, j \in 0 .. pos - 1 :
      i < j /\ out[i] = out[j] => (j - i) % (BYTES_MAX * FieldSize) = 0

(* A call of finish that accepts the buffer ends, with the buffer filled. *)
FinishEnds == pc = "blocks" ~> pc = "finished" /\ remaining = 0

LegalArguments == {a \in Arguments : LegalLength(a.output_len) /\ LegalKey(a.key)}

AcceptsSize(a, n) == a.output_len = 0 \/ n = a.output_len

(* The hasher is one that hashes under its parameters what it was fed, into a
   buffer of the declared size or, when none was declared, of any size; a
   buffer of another size is refused and the hasher can still be finished. *)
Abstract == INSTANCE Hasher WITH
  Params      <- Arguments,
  LegalParams <- LegalArguments,
  Accepts     <- AcceptsSize,
  Hash        <- Xof,
  Sizes       <- Sizes \cup OutputExtents,
  phase       <- IF pc = "blocks" THEN "ready" ELSE pc,
  params      <- args,
  pieces      <- pieces,
  output      <- IF pc = "finished" THEN out ELSE <<>>

ImplementsHasher == Abstract!Spec

=============================================================================
