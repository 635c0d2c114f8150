----------------------------- MODULE MCDiceHash -----------------------------
(***************************************************************************)
(* Values of many types, of up to three levels, with words 0 to 2; and     *)
(* containers of up to four items under each policy: a number, a pair, an  *)
(* item of hash 0, and an unordered container of two numbers.              *)
(***************************************************************************)
EXTENDS DiceHashContainer, SequencesExt

MCPolicies == {"wyhash", "xxh3", "Martinus"}

Value(kind, data, items) == [kind |-> kind, data |-> data, items |-> items]

Leaf(kind, data) == Value(kind, data, <<>>)
Ints == {Leaf("integral", <<n>>) : n \in 0 .. 1}
MoreInts == {Leaf("integral", <<n>>) : n \in 0 .. 2}
Floats == {Leaf("float", <<n>>) : n \in 0 .. 1}
Doubles == {Leaf("double", <<n>>) : n \in 0 .. 1}
Pointers == {Leaf("pointer", <<n>>) : n \in 0 .. 1}
Strings == {Leaf("bytes", w) : w \in SeqOf(1 .. 2, 2)}
OneString == {Leaf("bytes", <<n>>) : n \in 1 .. 2}

Held(kind, values) == {Value(kind, <<>>, <<v>>) : v \in values}
Tuples(S, T) == {Value("tuple", <<>>, <<s, t>>) : s \in S, t \in T}
Vectors(S, n) == {Value("ordered", <<>>, w) : w \in SeqOf(S, n)}
(* An unordered container of each set of items, listed in some order. *)
Unordered(S) == {Value("unordered", <<>>, SetToSeq(T)) : T \in SUBSET S}

Variants ==
  Held("variant", Ints \cup OneString \cup {Leaf("monostate", <<>>)}) \cup {Leaf("variant", <<>>)}

MCTypes == {
  Floats, Doubles, Pointers, Strings, {Leaf("monostate", <<>>)},
  Held("smart pointer", Pointers),
  Held("overload", Strings),
  {Value("tuple", <<>>, <<>>)},
  Tuples(Floats, Doubles),
  Vectors(Strings, 2),                         \* also std::set
  Tuples(OneString, Vectors(OneString, 2)),    \* a value and its neighbours
  MoreInts,
  Unordered(MoreInts),
  Unordered(Held("smart pointer", Pointers)),
  Unordered(Doubles),
  Vectors(Unordered(Ints), 2),
  Tuples(Ints, OneString),
  Unordered(Tuples(Ints, OneString)),          \* std::unordered_map
  Variants,
  Vectors(Variants, 2),
  Unordered(Unordered(Ints)),
  Unordered(Held("variant", OneString) \cup {Leaf("variant", <<>>)}),
  Held("overload", Variants),
  Unordered(Vectors(OneString, 1)),            \* of sequences of nothing
  Held("overload", Unordered(Ints)),
  Vectors(Held("overload", Unordered(Ints)), 2),
  Unordered(Held("overload", Unordered(Ints))),
  Vectors(Pointers, 1),
  Vectors(Vectors(Pointers, 1), 2) }

(* One item has the hash 0. *)
ZeroItem(p) == IF p = "Martinus" THEN Leaf("integral", <<0>>) ELSE Value("unordered", <<>>, <<>>)

MCItems ==
  UNION {[policy : {p},
          value : {ZeroItem(p),
                   Leaf("integral", <<1>>),
                   Value("tuple", <<>>, <<Leaf("integral", <<1>>), Leaf("bytes", <<2>>)>>),
                   Value("unordered", <<>>, SetToSeq(Ints))}] : p \in MCPolicies}

RECURSIVE MCDepth(_)
MCDepth(v) == IF v.items = <<>> THEN 0 ELSE 1 + Max({MCDepth(v.items[i]) : i \in DOMAIN v.items})

MCPolicyOf(it) == it.policy
MCValueOf(it) == it.value

(* D!Denotation of an item; ItemsAssumption says so. *)
RECURSIVE MCDenotation(_, _)
MCDenotation(p, v) ==
  D!Combined(p, v, [i \in DOMAIN v.items |-> MCDenotation(p, v.items[i])])

MCHashes == {<<it, MCDenotation(it.policy, it.value)>> : it \in MCItems}
MCHashOf(it) == (CHOOSE e \in MCHashes : e[1] = it)[2]
MCBits == UNION {e[2] : e \in MCHashes}

=============================================================================
