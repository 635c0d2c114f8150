------------------------- MODULE UnorderedContainer -------------------------
(***************************************************************************)
(* dice_hash of an unordered container: a loop over its items in whatever  *)
(* order the container iterates, which is another after every insertion    *)
(* and in every copy.  Beside it, an application keeps the hash of the     *)
(* container up to date with Policy::hash_invertible_combine, one call for *)
(* every insertion and every removal, without hashing the rest again.      *)
(*                                                                         *)
(* A size_t is the set of its bits that are one.  An item is a key of a    *)
(* set or a pair of a map; its own hash is given.                          *)
(***************************************************************************)
EXTENDS Naturals, FiniteSets

CONSTANTS
  Items,       \* what a container may hold
  Bits,        \* the bits of a size_t
  HashOf(_)    \* dice_hash of an item

ASSUME HashAssumption == \A it \in Items : HashOf(it) \in SUBSET Bits

VARIABLES
  contents,    \* the items of the container
  kept,        \* the hash the application keeps up to date
  pc,          \* "idle", "loop" or "returned"
  pending,     \* items the loop has not come to
  h            \* the result of the loop so far

vars == <<contents, kept, pc, pending, h>>

-----------------------------------------------------------------------------
(* Faulty: bits that two hashes share are kept. *)
or_bits(a, b) == a \cup b

xor(a, b) == (a \ b) \cup (b \ a)

(* Of two hashes; the result starts from 0. *)
hash_invertible_combine(first, second) == xor(xor({}, first), second)

Init ==
  /\ contents = {}
  /\ kept = {}
  /\ pc = "idle"
  /\ pending = {}
  /\ h = {}

(* The application changes the container between two calls of dice_hash. *)
insert(it) ==
  /\ pc # "loop" /\ it \notin contents
  /\ contents' = contents \cup {it}
  /\ kept' = hash_invertible_combine(kept, HashOf(it))
  /\ pc' = "idle"
  /\ UNCHANGED <<pending, h>>

erase(it) ==
  /\ pc # "loop" /\ it \in contents
  /\ contents' = contents \ {it}
  /\ kept' = hash_invertible_combine(kept, HashOf(it))
  /\ pc' = "idle"
  /\ UNCHANGED <<pending, h>>

dice_hash ==
  /\ pc = "idle"
  /\ pc' = "loop"
  /\ pending' = contents
  /\ h' = {}
  /\ UNCHANGED <<contents, kept>>

dice_hash_item(it) ==
  /\ pc = "loop" /\ it \in pending
  /\ pending' = pending \ {it}
  /\ h' = hash_invertible_combine(h, HashOf(it))
  /\ UNCHANGED <<contents, kept, pc>>

dice_hash_return ==
  /\ pc = "loop" /\ pending = {}
  /\ pc' = "returned"
  /\ UNCHANGED <<contents, kept, pending, h>>

Next ==
  \/ \E it \in Items : insert(it) \/ erase(it) \/ dice_hash_item(it)
  \/ dice_hash
  \/ dice_hash_return

Spec == Init /\ [][Next]_vars

-----------------------------------------------------------------------------
(* Properties.                                                             *)

(* The hash of a container is a function of its contents alone: whatever the
   order of the iteration, the loop returns what the application kept through
   all insertions and removals, in whatever order those came.             *)
HashIsThatOfContents == pc = "returned" => h = kept

(* That function: a bit of the hash is one when it is one in the hashes of an
   odd number of items.  Items of equal hash cancel in pairs.             *)
Parity(items) == {b \in Bits : Cardinality({it \in items : b \in HashOf(it)}) % 2 = 1}

(* At every step of the loop the items already visited, and for the
   application all items ever inserted and not removed, have been taken
   exactly once.                                                           *)
HashesAreParities ==
  /\ kept = Parity(contents)
  /\ pc # "idle" => h = Parity(contents \ pending)

=============================================================================
