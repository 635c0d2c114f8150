----------------------------- MODULE XxhStreams -----------------------------
(***************************************************************************)
(* The two streams of xxhash.hpp side by side: hash3_state_t, and          *)
(* hash_state_t for the classic xxHash.  One of them is used: `kind' is    *)
(* chosen at the start, the other one is never fed.                        *)
(***************************************************************************)
EXTENDS Xxh3Stream

CONSTANTS
  WordLen, Seeds, LaneValues, start(_, _), round(_, _),
  ClassicLengths, ClassicMaxInput     \* those of hash_state_t

VARIABLES kind, seed, v, mem, memsize, total_len

Classic == INSTANCE XxhStream WITH
  Lengths <- ClassicLengths, MaxInput <- ClassicMaxInput

ASSUME ClassicAssumption == Classic!XxhAssumption

classicvars == <<seed, v, mem, memsize, total_len>>

StreamsInit ==
  /\ kind \in {"hash3_state_t", "hash_state_t"}
  /\ Init /\ Classic!Init
  /\ kind = "hash_state_t" => nbStripesPerBlock = CHOOSE s \in Secrets : TRUE
  /\ kind = "hash3_state_t" => seed = CHOOSE s \in Seeds : TRUE

StreamsNext ==
  \/ kind = "hash3_state_t" /\ Next /\ UNCHANGED <<kind, classicvars>>
  \/ kind = "hash_state_t" /\ Classic!Next /\ UNCHANGED <<kind, vars>>

StreamsSpec == StreamsInit /\ [][StreamsNext]_<<kind, vars, classicvars>>

-----------------------------------------------------------------------------
(* Properties.                                                             *)

(* hash_state_t is type correct: mem is never left full by update. *)
ClassicTypeOK == Classic!TypeOK

(* A digest of hash_state_t is the one-shot hash, however the calls of update
   cut the input.                                                          *)
ClassicImplementsHashStream == Classic!ImplementsHashStream

=============================================================================
