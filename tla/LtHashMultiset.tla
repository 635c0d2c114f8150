--------------------------- MODULE LtHashMultiset ---------------------------
(***************************************************************************)
(* LtHash with a history: for every instance, the checksum it started from *)
(* and how often each object was added and removed under each key since.   *)
(* A multiplicity may be negative, as in the library's own example         *)
(* LtHash({apple}) + LtHash({banana}) - LtHash({peach}).                   *)
(*                                                                         *)
(* The checksum is a function of that multiset alone, whatever order it    *)
(* was reached in, through however many copies, moves and combinations.    *)
(***************************************************************************)
EXTENDS LtHash, Integers, FiniteSets, Functions

CONSTANT MaxCount   \* bound on the multiplicities a run explores

(* A multiset has an entry for every object under every key: finitely many. *)
ASSUME HistoryAssumption ==
  MaxCount \in Nat /\ IsFiniteSet(SuppliedKeys) /\ IsFiniteSet(Objects)

VARIABLE contents

hvars == <<vars, contents>>

(* The keys an instance may have, and with the objects hashed under them. *)
Entries == {KeyOf(SetUnchecked(k)) : k \in {s \in SuppliedKeys : ValidKeySize(s)}}
             \cup {KeyOf(ClearedKey)}

Pairs == Entries \X Objects

Counts == [Pairs -> -MaxCount .. MaxCount]

NoCounts == [e \in Pairs |-> 0]

(* The history of a checksum with dirty padding is lost. *)
Unknown == [base |-> default_checksum, counts |-> NoCounts, known |-> FALSE]

Fresh(c) == IF CleanChecksum(c)
              THEN [base |-> c, counts |-> NoCounts, known |-> TRUE]
              ELSE Unknown

BaseSum(c, d)  == [w \in Words |-> LaneSum(c[w], d[w])]
BaseDiff(c, d) == [w \in Words |-> LaneDiff(c[w], d[w])]

Union(m, n) == IF m.known /\ n.known
                 THEN [base   |-> BaseSum(m.base, n.base),
                       counts |-> [e \in Pairs |-> m.counts[e] + n.counts[e]],
                       known  |-> TRUE]
                 ELSE Unknown

Minus(m, n) == IF m.known /\ n.known
                 THEN [base   |-> BaseDiff(m.base, n.base),
                       counts |-> [e \in Pairs |-> m.counts[e] - n.counts[e]],
                       known  |-> TRUE]
                 ELSE Unknown

Single(x, o) == [Fresh(default_checksum) EXCEPT !.counts[<<KeyOf(key_[x]), o>>] = 1]

Becomes(x, history) ==
  /\ history.counts \in Counts
  /\ contents' = [contents EXCEPT ![x] = history]

HInit == Init /\ contents = [x \in Inst |-> Fresh(default_checksum)]

HNext ==
  \E x \in Inst :
    \/ \E c \in Initials : Construct(x, c) /\ Becomes(x, Fresh(c))
    \/ \E other \in Inst :
         \/ (CopyConstruct(x, other) \/ MoveConstruct(x, other)) /\ Becomes(x, contents[other])
         \/ (CopyAssign(x, other) \/ MoveAssign(x, other)) /\ Becomes(x, contents[other])
         \/ combine_add(x, other)
              /\ Becomes(x, IF outcome' = "ok" THEN Union(contents[x], contents[other])
                                               ELSE contents[x])
         \/ combine_remove(x, other)
              /\ Becomes(x, IF outcome' = "ok" THEN Minus(contents[x], contents[other])
                                               ELSE contents[x])
    \/ Destroy(x) /\ Becomes(x, Fresh(default_checksum))
    \/ \E new \in SuppliedKeys : set_key(x, new) /\ UNCHANGED contents
    \/ clear_key(x) /\ UNCHANGED contents
    \/ \E new \in Givens : set_checksum(x, new) /\ Becomes(x, Fresh(new))
    \/ clear_checksum(x) /\ Becomes(x, Fresh(default_checksum))
    \/ \E o \in Objects : \/ add(x, o) /\ Becomes(x, Union(contents[x], Single(x, o)))
                          \/ remove(x, o) /\ Becomes(x, Minus(contents[x], Single(x, o)))

HSpec == HInit /\ [][HNext]_hvars

-----------------------------------------------------------------------------
(* Properties.                                                             *)

(* Element i of word w of the checksum of a multiset, as a sum of integers. *)
Expected(m, w, i) ==
  (m.base[w][i]
     + SumFunction([e \in Pairs |-> m.counts[e] * ClearWord(Digest(e[1], e[2])[w])[i]])) % Radix[i]

(* The promise of LtHash: the checksum of a live instance is the sum of the
   hashes of the objects it contains, each taken as often as it was added and
   less often as it was removed, plus what it was started from.  Instances
   with the same contents therefore have the same checksum.  Only a checksum
   installed with dirty padding, and what was combined with it, is exempt. *)
ChecksumIsMultisetHash ==
  \A x \in alive : contents[x].known =>
    /\ CleanChecksum(checksum_[x])
    /\ \A w \in Words, i \in DataFields : checksum_[x][w][i] = Expected(contents[x], w, i)

=============================================================================
