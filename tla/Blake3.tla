------------------------------- MODULE Blake3 -------------------------------
(***************************************************************************)
(* The life of a Blake3 hasher, a wrapper of the BLAKE3 library: with or   *)
(* without a key of the one legal length, fed, and finished into a buffer  *)
(* of any size; nothing of it can fail.                                    *)
(***************************************************************************)
EXTENDS Naturals, Sequences

CONSTANTS
  Extents,      \* template arguments, 0 stands for dynamic_output_extent
  Keys,         \* keys of default_key_extent bytes
  NoKey,        \* the constructor without a key
  Data,         \* pieces of input
  MaxPieces,    \* bound on the pieces a run feeds
  Sizes         \* sizes of the buffers given to finish

VARIABLES
  pc,           \* "none", "ready" or "finished"
  args,         \* template argument and the caller's key
  pieces,       \* history: what was fed
  state_,       \* the state of the library
  out           \* the caller's buffer, indexed from 0

vars == <<pc, args, pieces, state_, out>>

-----------------------------------------------------------------------------
(* The BLAKE3 library: the mode of a state, its key and its input. *)

hasher_init == [mode |-> "hash", key |-> NoKey, input |-> <<>>]

hasher_init_keyed(k) == [mode |-> "keyed", key |-> k, input |-> <<>>]

hasher_update(state, d) == [state EXCEPT !.input = Append(@, d)]

(* A byte of output is the same in buffers of all sizes. *)
Byte(state, i) == [hash |-> state, index |-> i]

-----------------------------------------------------------------------------
Arguments == [extent : Extents, key : Keys \cup {NoKey}]

Init ==
  /\ pc = "none"
  /\ args \in Arguments
  /\ pieces = <<>>
  /\ state_ = <<>>
  /\ out = <<>>

(* The key is new random bytes. *)
generate_key ==
  /\ pc = "none" /\ args.key \in Keys
  /\ \E k \in Keys : args' = [args EXCEPT !.key = k]
  /\ UNCHANGED <<pc, pieces, state_, out>>

(* Faulty: the key is not passed on. *)
ConstructedUnkeyed(k) == hasher_init

Constructed(k) == IF k = NoKey THEN hasher_init ELSE hasher_init_keyed(k)

Construct ==
  /\ pc = "none"
  /\ pc' = "ready"
  /\ state_' = Constructed(args.key)
  /\ UNCHANGED <<args, pieces, out>>

digest(d) ==
  /\ pc = "ready"
  /\ Len(pieces) < MaxPieces
  /\ pieces' = Append(pieces, d)
  /\ state_' = hasher_update(state_, d)
  /\ UNCHANGED <<pc, args, out>>

Buffers == IF args.extent = 0 THEN Sizes ELSE {args.extent}

finish(n) ==
  /\ pc = "ready"
  /\ pc' = "finished"
  /\ out' = [i \in 0 .. n - 1 |-> Byte(state_, i)]
  /\ UNCHANGED <<args, pieces, state_>>

Next ==
  \/ generate_key
  \/ Construct
  \/ \E d \in Data : digest(d)
  \/ \E n \in Buffers : finish(n)

Spec == Init /\ [][Next]_vars

-----------------------------------------------------------------------------
(* Properties.                                                             *)

AcceptsSize(a, n) == a.extent \in {0, n}

(* The extensible output of BLAKE3, keyed or not. *)
Blake3Hash(a, ps, n) ==
  [i \in 0 .. n - 1 |->
     Byte([mode |-> IF a.key = NoKey THEN "hash" ELSE "keyed", key |-> a.key, input |-> ps], i)]

(* The hasher is one that hashes under its key, if it has one, what it was
   fed, in order, into a buffer of any size.                              *)
Abstract == INSTANCE Hasher WITH
  Params      <- Arguments,
  LegalParams <- Arguments,
  Accepts     <- AcceptsSize,
  Hash        <- Blake3Hash,
  Sizes       <- Sizes \cup Extents,
  phase       <- pc,
  params      <- args,
  output      <- out

Blake3ImplementsHasher == Abstract!Spec

=============================================================================
