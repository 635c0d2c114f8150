------------------------------ MODULE Blake2b -------------------------------
(***************************************************************************)
(* The life of a Blake2b hasher, a wrapper of libsodium: the caller may    *)
(* have a key generated, the constructor checks what libsodium would       *)
(* refuse, the hasher is fed, and finish compares the length of the buffer *)
(* with the one the libsodium state was initialised for.                   *)
(***************************************************************************)
EXTENDS Integers, Sequences

CONSTANTS
  MinOutput, MaxOutput,   \* min_output_extent, max_output_extent
  MinKey, MaxKey,         \* min_key_extent, max_key_extent
  OutputExtents,          \* template arguments, 0 stands for dynamic_output_extent
  OutputLens,             \* lengths callers give to a dynamic constructor
  Keys,                   \* contents of the caller's buffer for the key
  KeyLen(_),
  Customs,                \* pairs of a salt and a personality
  Data,                   \* pieces of input
  MaxPieces,              \* bound on the pieces a run feeds
  Sizes                   \* sizes of the buffers given to finish

(* What the library's constants and the callers' inputs satisfy. *)
Blake2bAssumption ==
  /\ MinOutput \in Nat \ {0} /\ MaxOutput \in Nat
  /\ MinKey \in Nat \ {0} /\ MaxKey \in Nat
  /\ OutputExtents \subseteq {0} \cup (MinOutput .. MaxOutput)
  /\ OutputLens \subseteq Nat /\ Sizes \subseteq Nat
  /\ \A k \in Keys : KeyLen(k) \in Nat

VARIABLES
  pc,                     \* "none", "ready", "finished" or "threw"
  args,                   \* template argument and length, salt and personality
  key,                    \* the caller's buffer for the key
  generated,              \* history: generate_key filled that buffer
  pieces,                 \* history: what was fed
  state_,                 \* inner_: the libsodium state
  specified_output_len_,  \* inner_: of a dynamic hasher
  out,                    \* the caller's buffer, indexed from 0
  res,                    \* what libsodium returned last
  outcome                 \* of the last call

vars == <<pc, args, key, generated, pieces, state_, specified_output_len_, out, res, outcome>>

-----------------------------------------------------------------------------
(* libsodium: it returns -1 for lengths it does not take, and a hash depends
   on the length it was initialised for, whatever length is asked for.      *)

init_salt_personal(output_len, key_len) ==
  IF output_len \in 1 .. MaxOutput /\ key_len <= MaxKey THEN 0 ELSE -1

Initialised(output_len, k, custom) ==
  [digest_len |-> output_len, key |-> k, custom |-> custom, input |-> <<>>]

Updated(state, d) == [state EXCEPT !.input = Append(@, d)]

final(n) == IF n \in 1 .. MaxOutput THEN 0 ELSE -1

Byte(state, i) == [hash |-> state, index |-> i]

-----------------------------------------------------------------------------
Dynamic == args.extent = 0

Arguments ==
  [extent : {0}, output_len : OutputLens, custom : Customs]
    \cup {a \in [extent : OutputExtents \ {0}, output_len : OutputExtents, custom : Customs] :
            a.output_len = a.extent}

Init ==
  /\ pc = "none"
  /\ args \in Arguments
  /\ key \in Keys
  /\ generated = FALSE
  /\ pieces = <<>>
  /\ state_ = <<>> /\ specified_output_len_ = 0
  /\ out = <<>>
  /\ res = 0
  /\ outcome = "ok"

(* Faulty: a buffer too short for a key is filled. *)
KeySizeFitsAnyShort(n) == n <= MaxKey

KeySizeFits(n) == n >= MinKey /\ n <= MaxKey

(* Blake2Xb has the same function. *)
generate_key ==
  /\ pc = "none"
  /\ IF KeySizeFits(KeyLen(key))
       THEN /\ key' \in {k \in Keys : KeyLen(k) = KeyLen(key)}
            /\ generated' = TRUE
            /\ outcome' = "ok"
       ELSE /\ outcome' = "invalid key size"
            /\ UNCHANGED <<key, generated>>
  /\ UNCHANGED <<pc, args, pieces, state_, specified_output_len_, out, res>>

LegalLength(n) == n >= MinOutput /\ n <= MaxOutput

(* Faulty: long keys are left to libsodium. *)
LegalKeyMin(n) == n > 0 => n >= MinKey

(* No key, or one of a legal length. *)
LegalKey(n) == n > 0 => n >= MinKey /\ n <= MaxKey

(* What init throws before it touches the state. *)
InitError(initialised) ==
  IF ~LegalLength(args.output_len) THEN "invalid output size"
  ELSE IF ~LegalKey(KeyLen(key)) THEN "invalid key size"
  ELSE IF ~initialised THEN "no sodium"
  ELSE "ok"

(* The constructors; sodium_init may fail. *)
Construct(initialised) ==
  /\ pc = "none"
  /\ outcome' = InitError(initialised)
  /\ IF outcome' = "ok"
       THEN /\ pc' = "ready"
            /\ specified_output_len_' = IF Dynamic THEN args.output_len ELSE 0
            /\ res' = init_salt_personal(args.output_len, KeyLen(key))
            /\ state_' = Initialised(args.output_len, key, args.custom)
       ELSE /\ pc' = "threw"
            /\ UNCHANGED <<specified_output_len_, res, state_>>
  /\ UNCHANGED <<args, key, generated, pieces, out>>

digest(d) ==
  /\ pc = "ready"
  /\ Len(pieces) < MaxPieces
  /\ pieces' = Append(pieces, d)
  /\ state_' = Updated(state_, d)
  /\ res' = 0
  /\ outcome' = "ok"
  /\ UNCHANGED <<pc, args, key, generated, specified_output_len_, out>>

(* The buffers the type of out admits. *)
Buffers == IF Dynamic THEN Sizes ELSE {args.extent}

(* Faulty: a shorter buffer is taken for a truncated hash. *)
MatchesShorter(n) == n <= specified_output_len_ \/ ~Dynamic

Matches(n) ==
  Dynamic => ~ (specified_output_len_ # 0 /\ n # specified_output_len_)

finish_mismatch(n) ==
  /\ pc = "ready"
  /\ ~Matches(n)
  /\ outcome' = "buffer length"
  /\ UNCHANGED <<pc, args, key, generated, pieces, state_, specified_output_len_, out, res>>

finish(n) ==
  /\ pc = "ready"
  /\ Matches(n)
  /\ pc' = "finished"
  /\ res' = final(n)
  /\ out' = [i \in 0 .. n - 1 |-> Byte(state_, i)]
  /\ outcome' = "ok"
  /\ UNCHANGED <<args, key, generated, pieces, state_, specified_output_len_>>

concrete_output_extent == IF Dynamic THEN specified_output_len_ ELSE args.extent

Next ==
  \/ generate_key
  \/ \E initialised \in BOOLEAN : Construct(initialised)
  \/ \E d \in Data : digest(d)
  \/ \E n \in Buffers : finish_mismatch(n) \/ finish(n)

Spec == Init /\ [][Next]_vars

-----------------------------------------------------------------------------
(* Properties.                                                             *)

(* libsodium never refuses a call: what it would refuse, the constructor and
   finish have refused before, as the comments at the assertions say, and
   the length it was initialised for is the one that is announced.        *)
LibsodiumNeverRefuses ==
  /\ res = 0
  /\ pc \in {"ready", "finished"} => concrete_output_extent = state_.digest_len

(* The constructor takes every key that generate_key returned. *)
GeneratedKeysAccepted == generated => outcome # "invalid key size"

Params == [arguments : Arguments, key : Keys]

LegalParams == {p \in Params : LegalLength(p.arguments.output_len) /\ LegalKey(KeyLen(p.key))}

Accepts(p, n) == n = p.arguments.output_len

(* BLAKE2b of the pieces with n bytes of output. *)
Blake2bHash(p, ps, n) ==
  [i \in 0 .. n - 1 |->
     Byte([digest_len |-> n, key |-> p.key, custom |-> p.arguments.custom, input |-> ps], i)]

(* Once the caller has decided on a key, the hasher is one that hashes under
   its parameters what it was fed, for a buffer of the announced length; a
   buffer of another length is refused and the hasher can still be finished. *)
Abstract == INSTANCE Hasher WITH
  Hash   <- Blake2bHash,
  Sizes  <- Sizes \cup OutputExtents,
  phase  <- pc,
  params <- [arguments |-> args, key |-> key],
  output <- out

Blake2bImplementsHasher == Abstract!Spec

=============================================================================
