------------------------------ MODULE DiceHash ------------------------------
(***************************************************************************)
(* dice_hash of a structured value: the overload for the value's type      *)
(* hashes its bytes, or calls dice_hash for what the value holds and       *)
(* combines the hashes by the functions of the policy.  Calls nest as the  *)
(* value does; `stack' holds the calls that wait for the hash of an item.  *)
(*                                                                         *)
(* The arithmetic of a policy is taken to be ideal: a result is an `atom'  *)
(* that names its operation and arguments.  As hashes are also combined by *)
(* xor, a hash is a set of atoms and xor their symmetric difference; 0 is  *)
(* the empty set.  Bytes are counted in words.                             *)
(***************************************************************************)
EXTENDS Naturals, Sequences, FiniteSets, SequencesExt

CONSTANTS
  Policies,    \* of "wyhash", "xxh3" and "Martinus"
  Types,       \* each the set of the values of one C++ type that are hashed
  Depth(_)     \* how deep a value nests

VARIABLES
  policy,
  root,        \* the value that is hashed
  arg,         \* the value of a call of dice_hash that begins, if there is one
  stack,       \* the calls of containers and tuples, the innermost last
  ret          \* the hash a call has just returned, if there is one

vars == <<policy, root, arg, stack, ret>>

-----------------------------------------------------------------------------
(* Values have a kind, data and items: those of an unordered container are
   in no particular order, a variant without an item is valueless.        *)

Fundamental == {"integral", "float", "double", "pointer"}

Holder == {"variant", "smart pointer", "overload"}

Container == {"ordered", "tuple", "unordered"}

Values == UNION Types

(* Values are finite trees: what they hold are values. *)
FiniteTrees ==
  \A v \in Values :
    /\ v.kind \in Fundamental \cup Holder \cup Container \cup {"bytes", "monostate"}
    /\ v = [kind |-> v.kind, data |-> v.data, items |-> v.items]
    /\ v.items \in Seq(Values)
    /\ v.kind \notin Holder \cup Container => v.items = <<>>
    /\ v.kind \in Holder \cup Container => v.data = <<>>
    /\ Depth(v) \in Nat
    /\ \A i \in DOMAIN v.items : Depth(v.items[i]) < Depth(v)

SameType(v, w) == \E T \in Types : {v, w} \subseteq T

(* What C++ says of two values of a type: one overload hashes both, and their
   items are of one type again.  A variant holds what it likes.              *)
WellTyped ==
  \A T \in Types : \A v, w \in T :
    /\ v.kind = w.kind
    /\ v.kind \in {"ordered", "unordered"} =>
         \A i \in DOMAIN v.items, j \in DOMAIN w.items : SameType(v.items[i], w.items[j])
    /\ v.kind \in {"tuple", "smart pointer", "overload"} =>
         /\ Len(v.items) = Len(w.items)
         /\ \A i \in DOMAIN v.items : SameType(v.items[i], w.items[i])
    /\ v.kind \in {"smart pointer", "overload"} => Len(v.items) = 1

(* The items of an unordered container are a set, listed in some one order. *)
ItemsAreSets ==
  \A T \in Types : \A v, w \in T : v.kind = "unordered" =>
    /\ \A i, j \in DOMAIN v.items : v.items[i] = v.items[j] => i = j
    /\ Range(v.items) = Range(w.items) => v = w

-----------------------------------------------------------------------------
(* The policies. *)

Atom(op, data, args) == {[op |-> op, data |-> data, args |-> args]}

ErrorValue == Atom("seed", <<>>, {})

hash_bytes(data) == Atom("bytes", data, {<<>>})

(* What is not hashed as bytes: numbers, and for Martinus whatever is as
   wide as one, but not a float.                                          *)
HashedAsInteger ==
  {<<"wyhash", "integral">>} \cup {"Martinus"} \X {"integral", "double", "pointer"}

(* hash_int of Martinus adds up multiples of its argument: 0 remains 0. *)
IsHashedToZero(p, kind, x) ==
  p = "Martinus" /\ <<p, kind>> \in HashedAsInteger /\ x = <<0>>

hash_fundamental(p, kind, x) ==
  IF <<p, kind>> \notin HashedAsInteger THEN hash_bytes(x)
  ELSE IF IsHashedToZero(p, kind, x) THEN {} ELSE Atom("integer", x, {<<>>})

(* _wymix multiplies its arguments and takes the xor of both halves of the
   product and both arguments: either may be 0, and neither comes first.  *)
_wymix(a, b) ==
  IF {} \in {a, b} THEN a \cup b ELSE Atom("mix", <<>>, {<<a, b>>, <<b, a>>})

(* What Martinus computes before, for each of, and after the hashes it mixes. *)
seed_size(size) == Atom("size", <<size>>, {<<>>})
mix_in(h, k) == Atom("round", <<>>, {<<h, k>>})
final_mix(h) == Atom("final", <<>>, {<<h>>})

(* hash_combine is given all hashes: wyhash and Martinus go through them in a
   loop, xxh3 hashes the memory they are in.                               *)
combine_wyhash(hashes) == FoldLeft(_wymix, ErrorValue, hashes)

combine_xxh3(hashes) == Atom("bytes", <<>>, {hashes})

combine_Martinus(hashes) == final_mix(FoldLeft(mix_in, seed_size(Len(hashes)), hashes))

(* Faulty: sums have no order. *)
combine_unordered(p, hashes) ==
  Atom("combine", <<Len(hashes)>>, {<<{h}>> : h \in Range(hashes)})

(* Faulty: the hash of nothing is the seed. *)
combine_seeded(p, hashes) ==
  IF hashes = <<>> THEN ErrorValue ELSE Atom("combine", <<>>, {hashes})

hash_combine(p, hashes) ==
  CASE p = "wyhash"   -> combine_wyhash(hashes)
    [] p = "xxh3"     -> combine_xxh3(hashes)
    [] p = "Martinus" -> combine_Martinus(hashes)

(* A HashState is a hash that wyhash and Martinus mix into, and for xxh3 a
   stream of the hashes it was fed.  Only Martinus uses the size.          *)
HashState(p, size) ==
  CASE p = "wyhash"   -> ErrorValue
    [] p = "xxh3"     -> <<>>
    [] p = "Martinus" -> seed_size(size)

HashState_add(p, state, hash) ==
  CASE p = "wyhash"   -> _wymix(state, hash)
    [] p = "xxh3"     -> Append(state, hash)
    [] p = "Martinus" -> mix_in(state, hash)

(* Faulty: a digest of Martinus without its last step. *)
HashState_digest_unmixed(p, state) ==
  IF p = "xxh3" THEN Atom("bytes", <<>>, {state}) ELSE state

HashState_digest(p, state) ==
  CASE p = "wyhash"   -> state
    [] p = "xxh3"     -> Atom("bytes", <<>>, {state})
    [] p = "Martinus" -> final_mix(state)

xor(a, b) == (a \ b) \cup (b \ a)

(* Faulty: the hashes so far are forgotten. *)
combine_last(first, second) == second

hash_invertible_combine(first, second) == xor(xor({}, first), second)

is_faulty(h) == h = ErrorValue

-----------------------------------------------------------------------------
Init ==
  /\ policy \in Policies
  /\ root \in Values
  /\ arg = <<root>>
  /\ stack = <<>>
  /\ ret = <<>>

Begins(kinds) == arg # <<>> /\ arg[1].kind \in kinds

Returns(h) ==
  /\ arg' = <<>>
  /\ ret' = <<h>>

dice_hash_fundamental ==
  /\ Begins(Fundamental)
  /\ Returns(hash_fundamental(policy, arg[1].kind, arg[1].data))
  /\ UNCHANGED <<policy, root, stack>>

(* Strings, and arrays, vectors and spans of fundamental values. *)
dice_hash_bytes ==
  /\ Begins({"bytes"})
  /\ Returns(hash_bytes(arg[1].data))
  /\ UNCHANGED <<policy, root, stack>>

(* std::monostate, and a variant that is valueless by exception. *)
dice_hash_error ==
  /\ Begins({"monostate"}) \/ (Begins({"variant"}) /\ arg[1].items = <<>>)
  /\ Returns(ErrorValue)
  /\ UNCHANGED <<policy, root, stack>>

(* A variant is hashed as what it holds, a smart pointer as its pointer, and
   the overload for a type of the user as the member it chooses.          *)
dice_hash_held ==
  /\ Begins(Holder) /\ arg[1].items # <<>>
  /\ arg' = <<arg[1].items[1]>>
  /\ UNCHANGED <<policy, root, stack, ret>>

(* A loop over items; `at' is the item that is being hashed, `left' those
   whose hashes were not added yet, and `h' is what the hashes are added to:
   a HashState told the size, a list, or 0 to begin with.                 *)
NoItems(v) ==
  CASE v.kind = "ordered"   -> HashState(policy, Len(v.items))
    [] v.kind = "tuple"     -> <<>>
    [] v.kind = "unordered" -> {}

dice_hash_container ==
  /\ Begins(Container)
  /\ stack' = Append(stack, [value |-> arg[1], left |-> DOMAIN arg[1].items, at |-> 0,
                             h |-> NoItems(arg[1])])
  /\ arg' = <<>>
  /\ UNCHANGED <<policy, root, ret>>

Top == stack[Len(stack)]

Waits == stack # <<>> /\ arg = <<>>

(* An unordered container iterates in any order. *)
next_item(i) ==
  /\ Waits /\ ret = <<>> /\ i \in Top.left
  /\ Top.value.kind # "unordered" => \A j \in Top.left : i <= j
  /\ stack' = [stack EXCEPT ![Len(stack)].at = i]
  /\ arg' = <<Top.value.items[i]>>
  /\ UNCHANGED <<policy, root, ret>>

OneMore(kind, h, hash) ==
  CASE kind = "ordered"   -> HashState_add(policy, h, hash)
    [] kind = "tuple"     -> Append(h, hash)
    [] kind = "unordered" -> hash_invertible_combine(h, hash)

add_item ==
  /\ Waits /\ ret # <<>>
  /\ stack' = [stack EXCEPT
                 ![Len(stack)].left = @ \ {Top.at},
                 ![Len(stack)].at = 0,
                 ![Len(stack)].h = OneMore(Top.value.kind, @, ret[1])]
  /\ ret' = <<>>
  /\ UNCHANGED <<policy, root, arg>>

Digest(frame) ==
  CASE frame.value.kind = "ordered"   -> HashState_digest(policy, frame.h)
    [] frame.value.kind = "tuple"     -> hash_combine(policy, frame.h)
    [] frame.value.kind = "unordered" -> frame.h

container_return ==
  /\ Waits /\ ret = <<>> /\ Top.left = {}
  /\ Returns(Digest(Top))
  /\ stack' = Front(stack)
  /\ UNCHANGED <<policy, root>>

Next ==
  \/ dice_hash_fundamental \/ dice_hash_bytes \/ dice_hash_error
  \/ dice_hash_held
  \/ dice_hash_container
  \/ \E i \in IF Waits THEN Top.left ELSE {} : next_item(i)
  \/ add_item
  \/ container_return

Spec == Init /\ [][Next]_vars

-----------------------------------------------------------------------------
(* Properties.                                                             *)

Returned == arg = <<>> /\ stack = <<>> /\ ret # <<>>

Calls == Policies \X Values

(* The atoms that occur in an odd number of hashes. *)
Odd(hashes) ==
  {a \in UNION Range(hashes) : Cardinality({i \in DOMAIN hashes : a \in hashes[i]}) % 2 = 1}

(* The hash of a value, given those of its items: sequences of items are
   combined all at once, those of an unordered container by parity.        *)
Combined(p, v, hashes) ==
  CASE v.kind \in Fundamental -> hash_fundamental(p, v.kind, v.data)
    [] v.kind = "bytes" -> hash_bytes(v.data)
    [] v.kind \in {"ordered", "tuple"} -> hash_combine(p, hashes)
    [] v.kind = "unordered" -> Odd(hashes)
    [] OTHER -> IF v.items = <<>> THEN ErrorValue ELSE hashes[1]

(* The hash of a value as a function of the value, along its structure. *)
Denotation[c \in Calls] ==
  Combined(c[1], c[2], [i \in DOMAIN c[2].items |-> Denotation[<<c[1], c[2].items[i]>>]])

(* Every call of dice_hash returns the hash of its value, however deep the
   calls nest and in whatever order unordered containers iterate.  In
   particular a vector, set, tuple or pair of the same items has the same
   hash: a HashState that is told the size first and the hashes one at a
   time, with other calls in between, arrives where hash_combine does.     *)
HashIsDenotation == Returned => ret[1] = Denotation[<<policy, root>>]

(* The value that is hashed in the end, holders only pass its hash on. *)
Held[v \in Values] == IF v.kind \in Holder /\ v.items # <<>> THEN Held[v.items[1]] ELSE v

HeldKind(v) == Held[v].kind

ItemKinds(v) == {HeldKind(v.items[i]) : i \in DOMAIN v.items}

(* Of the numbers, pointers and doubles Martinus hashes 0, nullptr and 0.0 to 0. *)
Vanishes(p, v) == HeldKind(v) \in Fundamental /\ IsHashedToZero(p, HeldKind(v), Held[v].data)

(* Where a policy does not promise to tell values apart: alternatives of a
   variant may have the same bytes, the items of unordered containers in an
   unordered container are merged, an item of hash 0 in an unordered
   container is as good as none, and _wymix has no order, so that (a, {b})
   and (b, {a}) have the same hash, and disregards a hash of 0.            *)
MergesItems(p, v) ==
  \/ v.kind \in {"variant", "monostate"}
  \/ v.kind = "unordered" /\ "unordered" \in ItemKinds(v)
  \/ v.kind = "unordered" /\ \E i \in DOMAIN v.items : Vanishes(p, v.items[i])
  \/ p = "wyhash" /\ v.kind \in {"ordered", "tuple"} /\ ItemKinds(v) \cap Container # {}

Merged[c \in Calls] ==
  \/ MergesItems(c[1], c[2])
  \/ \E i \in DOMAIN c[2].items : Merged[<<c[1], c[2].items[i]>>]

(* Apart from those, different values of one type have different hashes:
   order, number and nesting of the items all count.                      *)
ValuesToldApart ==
  Returned /\ ~Merged[<<policy, root>>] =>
    \A v \in Values \ {root} :
      SameType(root, v) => Merged[<<policy, v>>] \/ Denotation[<<policy, v>>] # ret[1]

(* Whether the seed may be the hash of a value, given whether it may be that
   of its items: without a value, and for what takes over the hashes of its
   items unmixed.  Under wyhash a sequence of nothing, or of nothing but
   items of hash 0, is hashed to the seed too.                              *)
Valueless(p, v, items) ==
  \/ v.kind = "monostate"
  \/ v.kind \in Holder /\ v.items = <<>>
  \/ v.kind \in Holder \cup {"unordered"} /\ \E i \in DOMAIN items : items[i]
  \/ /\ p = "wyhash" /\ v.kind \in {"ordered", "tuple"}
     /\ \A i \in DOMAIN v.items : Denotation[<<p, v.items[i]>>] = {}

HoldsNoValue[c \in Calls] ==
  Valueless(c[1], c[2], [i \in DOMAIN c[2].items |-> HoldsNoValue[<<c[1], c[2].items[i]>>]])

(* A hash that is_faulty calls an error is that of a value without a value:
   neither bytes nor the hashes that a policy mixes are ever taken for one. *)
FaultyMeansNoValue ==
  Returned /\ is_faulty(ret[1]) => HoldsNoValue[<<policy, root>>]

=============================================================================
