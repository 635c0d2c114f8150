---------------------------- MODULE BlakeHashers ----------------------------
(***************************************************************************)
(* The three Blake hashers side by side.  One of them lives: `kind' is     *)
(* chosen at the start, the other two are never constructed.  Blake2Xb and *)
(* Blake2b share libsodium, its limits and the kinds of keys.              *)
(***************************************************************************)
EXTENDS Blake2Xb

CONSTANTS
  MinOutput,        \* min_output_extent of Blake2b
  OutputExtents2, OutputLens2, Sizes2,    \* those of Blake2b
  Extents3, Keys3, NoKey, Sizes3          \* those of Blake3

VARIABLES
  kind,
  pc2, args2, key2, generated2, pieces2, state2, specified2, out2, res2, outcome2,
  pc3, args3, pieces3, state3, out3

B2b == INSTANCE Blake2b WITH
  MaxOutput <- BYTES_MAX, OutputExtents <- OutputExtents2,
  OutputLens <- OutputLens2, Sizes <- Sizes2,
  pc <- pc2, args <- args2, key <- key2, generated <- generated2, pieces <- pieces2,
  state_ <- state2, specified_output_len_ <- specified2, out <- out2, res <- res2,
  outcome <- outcome2

ASSUME HashersAssumption == B2b!Blake2bAssumption

B3 == INSTANCE Blake3 WITH
  Extents <- Extents3, Keys <- Keys3, Sizes <- Sizes3,
  pc <- pc3, args <- args3, pieces <- pieces3, state_ <- state3, out <- out3

vars2 == <<pc2, args2, key2, generated2, pieces2, state2, specified2, out2, res2, outcome2>>

vars3 == <<pc3, args3, pieces3, state3, out3>>

HashersInit ==
  /\ kind \in {"blake2xb", "blake2b", "blake3"}
  /\ Init /\ B2b!Init /\ B3!Init
  /\ kind # "blake2xb" => args = CHOOSE a \in Arguments : TRUE
  /\ kind # "blake2b" => /\ args2 = CHOOSE a \in B2b!Arguments : TRUE
                         /\ key2 = CHOOSE k \in Keys : TRUE
  /\ kind # "blake3" => args3 = CHOOSE a \in B3!Arguments : TRUE

HashersNext ==
  \/ kind = "blake2xb" /\ Next /\ UNCHANGED <<kind, vars2, vars3>>
  \/ kind = "blake2b" /\ B2b!Next /\ UNCHANGED <<kind, vars, vars3>>
  \/ kind = "blake3" /\ B3!Next /\ UNCHANGED <<kind, vars, vars2>>

HashersSpec ==
  /\ HashersInit
  /\ [][HashersNext]_<<kind, vars, vars2, vars3>>
  /\ Fairness

-----------------------------------------------------------------------------
(* Properties.                                                             *)

(* Blake2b hashers implement the abstract one. *)
Blake2bImplementsHasher == B2b!Blake2bImplementsHasher

(* The assertions of Blake2b at its calls of libsodium hold. *)
LibsodiumNeverRefuses == B2b!LibsodiumNeverRefuses

(* A key of generate_key of Blake2b, and so of Blake2Xb, is legal. *)
GeneratedKeysAccepted == B2b!GeneratedKeysAccepted

(* Blake3 hashers implement the abstract one. *)
Blake3ImplementsHasher == B3!Blake3ImplementsHasher

=============================================================================
