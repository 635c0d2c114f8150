--------------------------- MODULE DiceHashProofs ---------------------------
(***************************************************************************)
(* The hash of an unordered container does not depend on the order of its  *)
(* iteration nor on the order in which it was filled, for containers of    *)
(* any size: every step adds or removes one item of a finite set and flips *)
(* exactly the bits of the hash of that item.                              *)
(*                                                                         *)
(* dice_hash of values of any depth is the function of the value that      *)
(* Denotation defines along its structure: at any moment every container   *)
(* on the stack has combined the items it visited, and the call within it  *)
(* owes it the hash of the item it asked for.  That the function exists    *)
(* follows from values being finite trees.                                 *)
(*                                                                         *)
(* That hash says which value of its type was hashed, unless the policy    *)
(* merges some: what each overload combines can be told from the result.   *)
(***************************************************************************)
EXTENDS DiceHashContainer, FiniteSetTheorems, SequenceTheorems, WellFoundedInduction, TLAPS

Inv ==
  /\ contents \subseteq Items /\ IsFiniteSet(contents)
  /\ pc \in {"idle", "loop", "returned"}
  /\ pc # "idle" => pending \subseteq contents
  /\ pc = "returned" => pending = {}
  /\ HashesAreParities

(* The items whose hash has bit b. *)
WithBit(items, b) == {it \in items : b \in HashOf(it)}

(* Taking one more item flips the bits of its hash. *)
LEMMA ParityOfOneMore ==
  ASSUME NEW S \in SUBSET Items, IsFiniteSet(S), NEW e \in Items, e \notin S
  PROVE  Parity(S \cup {e}) = xor(Parity(S), HashOf(e))
<1>1. ASSUME NEW b \in Bits
      PROVE  Cardinality(WithBit(S \cup {e}, b)) % 2 = 1
               <=> (Cardinality(WithBit(S, b)) % 2 = 1 <=> b \notin HashOf(e))
  <2>1. IsFiniteSet(WithBit(S, b)) /\ e \notin WithBit(S, b)
    BY FS_Subset DEF WithBit
  <2>2. Cardinality(WithBit(S, b)) \in Nat
    BY <2>1, FS_CardinalityType
  <2>3. CASE b \in HashOf(e)
    <3>1. WithBit(S \cup {e}, b) = WithBit(S, b) \cup {e}
      BY <2>3 DEF WithBit
    <3>2. Cardinality(WithBit(S \cup {e}, b)) = Cardinality(WithBit(S, b)) + 1
      BY <2>1, <3>1, FS_AddElement
    <3> QED
      BY <2>2, <2>3, <3>2
  <2>4. CASE b \notin HashOf(e)
    <3>1. WithBit(S \cup {e}, b) = WithBit(S, b)
      BY <2>4 DEF WithBit
    <3> QED
      BY <2>4, <3>1
  <2> QED
    BY <2>3, <2>4
<1>2. \A T : Parity(T) = {b \in Bits : Cardinality(WithBit(T, b)) % 2 = 1}
  BY DEF Parity, WithBit
<1>3. HashOf(e) \subseteq Bits
  BY HashAssumption
<1>4. \A b \in Bits : b \in Parity(S \cup {e}) <=> (b \in Parity(S) <=> b \notin HashOf(e))
  BY <1>1, <1>2
<1>5. Parity(S \cup {e}) \subseteq Bits /\ Parity(S) \subseteq Bits
  BY <1>2
<1> QED
  BY <1>3, <1>4, <1>5 DEF xor

(* Taking an item away flips the same bits. *)
LEMMA ParityOfOneLess ==
  ASSUME NEW S \in SUBSET Items, IsFiniteSet(S), NEW e \in S
  PROVE  Parity(S \ {e}) = xor(Parity(S), HashOf(e))
<1>1. IsFiniteSet(S \ {e}) /\ (S \ {e}) \cup {e} = S
  BY FS_RemoveElement
<1>2. Parity(S) = xor(Parity(S \ {e}), HashOf(e))
  BY <1>1, ParityOfOneMore
<1> QED
  BY <1>2 DEF xor

LEMMA ParityOfNone == Parity({}) = {}
<1>1. \A b : {it \in {} : b \in HashOf(it)} = {}
  OBVIOUS
<1>2. Cardinality({}) = 0
  BY FS_EmptySet
<1> QED
  BY <1>1, <1>2 DEF Parity

-----------------------------------------------------------------------------
LEMMA InvInit == Init => Inv
  BY ParityOfNone, FS_EmptySet DEF Init, Inv, HashesAreParities

LEMMA InvStep == Inv /\ [Next]_vars => Inv'
<1> SUFFICES ASSUME Inv, [Next]_vars PROVE Inv'
  OBVIOUS
<1>1. ASSUME NEW it \in Items, insert(it) PROVE Inv'
  <2>1. contents' = contents \cup {it} /\ contents' \subseteq Items /\ it \notin contents
    BY <1>1 DEF insert, Inv
  <2>2. IsFiniteSet(contents')
    BY <2>1, FS_AddElement DEF Inv
  <2>3. kept' = Parity(contents')
    BY <1>1, <2>1, ParityOfOneMore
       DEF insert, Inv, HashesAreParities, hash_invertible_combine, xor
  <2> QED
    BY <1>1, <2>1, <2>2, <2>3 DEF insert, Inv, HashesAreParities
<1>2. ASSUME NEW it \in Items, erase(it) PROVE Inv'
  <2>1. contents' = contents \ {it} /\ contents' \subseteq Items /\ it \in contents
    BY <1>2 DEF erase, Inv
  <2>2. IsFiniteSet(contents')
    BY <2>1, FS_RemoveElement DEF Inv
  <2>3. kept' = Parity(contents')
    BY <1>2, <2>1, ParityOfOneLess
       DEF erase, Inv, HashesAreParities, hash_invertible_combine, xor
  <2> QED
    BY <1>2, <2>1, <2>2, <2>3 DEF erase, Inv, HashesAreParities
<1>3. CASE dice_hash
  <2>1. h' = Parity(contents' \ pending')
    BY <1>3, ParityOfNone DEF dice_hash
  <2> QED
    BY <1>3, <2>1 DEF dice_hash, Inv, HashesAreParities
<1>4. ASSUME NEW it \in Items, dice_hash_item(it) PROVE Inv'
  <2> DEFINE visited == contents \ pending
  <2>1. /\ it \in pending /\ pending \subseteq contents /\ contents \subseteq Items
        /\ pending' = pending \ {it}
        /\ UNCHANGED <<contents, kept, pc>> /\ pc = "loop"
    BY <1>4 DEF dice_hash_item, Inv
  <2>2. it \notin visited /\ contents' \ pending' = visited \cup {it}
    BY <2>1
  <2>3. IsFiniteSet(visited) /\ visited \in SUBSET Items
    BY <2>1, FS_Subset DEF Inv
  <2>4. h = Parity(visited)
    BY <2>1 DEF Inv, HashesAreParities
  <2>5. h' = xor(Parity(visited), HashOf(it))
    BY <1>4, <2>4 DEF dice_hash_item, hash_invertible_combine, xor
  <2> HIDE DEF visited
  <2>6. h' = Parity(contents' \ pending')
    BY <2>2, <2>3, <2>5, ParityOfOneMore
  <2> QED
    BY <2>1, <2>6 DEF Inv, HashesAreParities
<1>5. CASE dice_hash_return
  BY <1>5 DEF dice_hash_return, Inv, HashesAreParities
<1>6. CASE UNCHANGED vars
  BY <1>6 DEF vars, Inv, HashesAreParities
<1> QED
  BY <1>1, <1>2, <1>3, <1>4, <1>5, <1>6 DEF Next

(* dice_hash of an unordered container and the hash an application keeps with
   hash_invertible_combine take every item exactly once, at every moment.  *)
THEOREM HashesAlwaysParities == Spec => []HashesAreParities
<1>1. Inv => HashesAreParities
  BY DEF Inv
<1> QED
  BY <1>1, InvInit, InvStep, PTL DEF Spec

(* dice_hash of an unordered container returns the same for the same
   contents, in whatever order they were inserted and are visited.         *)
THEOREM HashDependsOnContents == Spec => []HashIsThatOfContents
<1>1. Inv => HashIsThatOfContents
  <2> SUFFICES ASSUME Inv, pc = "returned" PROVE h = kept
    BY DEF HashIsThatOfContents
  <2>1. contents \ pending = contents
    BY DEF Inv
  <2> QED
    BY <2>1 DEF Inv, HashesAreParities
<1> QED
  BY <1>1, InvInit, InvStep, PTL DEF Spec
(* Natural numbers. *)

LEMMA SmallestNat ==
  ASSUME NEW T \in SUBSET Nat, T # {}
  PROVE  \E m \in T : \A n \in T : m <= n
<1>1. PICK N \in T : TRUE
  OBVIOUS
<1> DEFINE Below(y) == 0 .. y
           F == {Below(y) : y \in T \cap (0 .. N)}
           R == StrictSubsetOrdering(0 .. N)
<1>2. IsFiniteSet(0 .. N)
  BY FS_Interval
<1>3. F \subseteq FiniteSubsetsOf(0 .. N) /\ F # {}
  <2>1. \A y \in 0 .. N : 0 .. y \in SUBSET (0 .. N)
    OBVIOUS
  <2>2. F \subseteq SUBSET (0 .. N)
    BY <2>1
  <2>3. 0 .. N \in F
    BY <1>1
  <2> HIDE DEF F
  <2> QED
    BY <1>2, <2>2, <2>3, FS_FiniteSubsetsOfFinite
<1>4. IsWellFoundedOn(R, FiniteSubsetsOf(0 .. N))
  BY FS_StrictSubsetOrderingWellFounded
<1>5. PICK x \in F : \A y \in F : <<y, x>> \notin R
  <2> HIDE DEF F, R
  <2> QED
    BY <1>3, <1>4, WFMin
<1>6. PICK m \in T \cap (0 .. N) : x = Below(m)
  OBVIOUS
<1>7. ASSUME NEW n \in T, n < m PROVE FALSE
  <2>1. n \in 0 .. N /\ m \in Nat /\ n \in Nat
    BY <1>7
  <2>2. 0 .. n \in F
    BY <2>1
  <2>3. 0 .. n \subseteq 0 .. m /\ m \in 0 .. m /\ m \notin 0 .. n
    BY <1>7, <2>1
  <2>4. <<0 .. n, 0 .. m>> \in R
    BY <2>1, <2>3 DEF StrictSubsetOrdering
  <2> QED
    BY <1>5, <1>6, <2>2, <2>4
<1> QED
  BY <1>7

(* Induction, over a set: a set closed under successors has all of Nat. *)
LEMMA NatSetInduction ==
  ASSUME NEW S, 0 \in S, \A n \in Nat : n \in S => n + 1 \in S
  PROVE  Nat \subseteq S
<1> SUFFICES ASSUME Nat \ S # {} PROVE FALSE
  OBVIOUS
<1>1. PICK m \in Nat \ S : \A n \in Nat \ S : m <= n
  <2> DEFINE T == Nat \ S
  <2>1. T \in SUBSET Nat /\ T # {}
    OBVIOUS
  <2> HIDE DEF T
  <2>2. \E m \in T : \A n \in T : m <= n
    BY <2>1, SmallestNat
  <2> QED
    BY <2>2 DEF T
<1>2. m \in Nat \ {0} /\ m - 1 \in Nat /\ (m - 1) + 1 = m /\ ~(m <= m - 1)
  BY <1>1
<1>3. m - 1 \in S
  BY <1>1, <1>2
<1> QED
  BY <1>2, <1>3


-----------------------------------------------------------------------------
(* Functions of values that are defined along their structure exist.        *)

ItemCall(c, i) == <<c[1], c[2].items[i]>>

(* One level of Denotation, HoldsNoValue, Held and Merged, in this order. *)
Level(c, f) ==
  <<D!Combined(c[1], c[2], [i \in DOMAIN c[2].items |-> f[ItemCall(c, i)][1]]),
    D!Valueless(c[1], c[2], [i \in DOMAIN c[2].items |-> f[ItemCall(c, i)][2]]),
    IF c[2].kind \in D!Holder /\ c[2].items # <<>> THEN f[ItemCall(c, 1)][3] ELSE c[2],
    D!MergesItems(c[1], c[2]) \/ \E i \in DOMAIN c[2].items : f[ItemCall(c, i)][4]>>

Shallow(n) == {c \in D!Calls : Depth(c[2]) < n}

Along(f, S) == f = [c \in S |-> Level(c, f)]

LEMMA ItemCallOK ==
  ASSUME NEW c \in D!Calls, NEW i \in DOMAIN c[2].items
  PROVE  /\ ItemCall(c, i) \in D!Calls
         /\ Depth(ItemCall(c, i)[2]) \in Nat /\ Depth(c[2]) \in Nat
         /\ Depth(ItemCall(c, i)[2]) < Depth(c[2])
<1>1. c[1] \in Policies /\ c[2] \in D!Values
  BY DEF D!Calls
<1>2. c[2].items \in Seq(D!Values) /\ Depth(c[2]) \in Nat
  BY <1>1, ValuesAssumption DEF D!FiniteTrees
<1>3. c[2].items[i] \in D!Values /\ Depth(c[2].items[i]) < Depth(c[2])
  BY <1>1, <1>2, ValuesAssumption DEF D!FiniteTrees
<1>4. ItemCall(c, i)[1] = c[1] /\ ItemCall(c, i)[2] = c[2].items[i]
  BY DEF ItemCall
<1>5. Depth(c[2].items[i]) \in Nat
  BY <1>3, ValuesAssumption DEF D!FiniteTrees
<1> QED
  BY <1>1, <1>2, <1>3, <1>4, <1>5 DEF D!Calls, ItemCall

(* Level looks at the items only. *)
LEMMA LevelLocal ==
  ASSUME NEW c \in D!Calls, NEW f, NEW g,
         \A i \in DOMAIN c[2].items : f[ItemCall(c, i)] = g[ItemCall(c, i)]
  PROVE  Level(c, f) = Level(c, g)
<1>1. /\ [i \in DOMAIN c[2].items |-> f[ItemCall(c, i)][1]]
           = [i \in DOMAIN c[2].items |-> g[ItemCall(c, i)][1]]
      /\ [i \in DOMAIN c[2].items |-> f[ItemCall(c, i)][2]]
           = [i \in DOMAIN c[2].items |-> g[ItemCall(c, i)][2]]
  OBVIOUS
<1>2. c[2].items # <<>> => f[ItemCall(c, 1)] = g[ItemCall(c, 1)]
  <2>1. c[2].items \in Seq(D!Values)
    BY ValuesAssumption DEF D!FiniteTrees, D!Calls
  <2>2. c[2].items # <<>> => 1 \in DOMAIN c[2].items
    BY <2>1
  <2> QED
    BY <2>2
<1>3. (\E i \in DOMAIN c[2].items : f[ItemCall(c, i)][4])
        <=> (\E i \in DOMAIN c[2].items : g[ItemCall(c, i)][4])
  OBVIOUS
<1>4. (D!MergesItems(c[1], c[2]) \/ \E i \in DOMAIN c[2].items : f[ItemCall(c, i)][4])
        = (D!MergesItems(c[1], c[2]) \/ \E i \in DOMAIN c[2].items : g[ItemCall(c, i)][4])
  BY <1>3
<1> QED
  BY <1>1, <1>2, <1>4 DEF Level

LEMMA AlongExists == \A n \in Nat : \E f : Along(f, Shallow(n))
<1> DEFINE S == {n \in Nat : \E f : Along(f, Shallow(n))}
<1>1. 0 \in S
  <2>1. Shallow(0) = {}
    <3>1. \A c \in D!Calls : Depth(c[2]) \in Nat
      BY ValuesAssumption DEF D!FiniteTrees, D!Calls
    <3> QED
      BY <3>1 DEF Shallow
  <2>2. Along([c \in {} |-> 0], {})
    BY DEF Along
  <2> QED
    BY <2>1, <2>2
<1>2. ASSUME NEW n \in Nat, n \in S PROVE n + 1 \in S
  <2>1. PICK f : Along(f, Shallow(n))
    BY <1>2
  <2> DEFINE next == [c \in Shallow(n + 1) |-> Level(c, f)]
  <2>2. \A c \in D!Calls : Depth(c[2]) \in Nat
    BY ValuesAssumption DEF D!FiniteTrees, D!Calls
  <2>3. Shallow(n) \subseteq Shallow(n + 1)
    BY <2>2 DEF Shallow
  <2>4. ASSUME NEW c \in Shallow(n) PROVE next[c] = f[c]
    BY <2>1, <2>3 DEF Along
  <2>5. ASSUME NEW c \in Shallow(n + 1) PROVE Level(c, f) = Level(c, next)
    <3>1. c \in D!Calls /\ Depth(c[2]) < n + 1
      BY DEF Shallow
    <3>2. ASSUME NEW i \in DOMAIN c[2].items PROVE ItemCall(c, i) \in Shallow(n)
      BY <3>1, ItemCallOK DEF Shallow
    <3> HIDE DEF next
    <3> QED
      BY <2>4, <3>1, <3>2, LevelLocal
  <2>6. Along(next, Shallow(n + 1))
    BY <2>5 DEF Along
  <2> QED
    BY <2>6
<1>3. Nat \subseteq S
  <2> HIDE DEF S
  <2> QED
    BY <1>1, <1>2, NatSetInduction
<1> QED
  BY <1>3

LEMMA AlongUnique ==
  ASSUME NEW m \in Nat, NEW n \in Nat, NEW f, NEW g,
         Along(f, Shallow(m)), Along(g, Shallow(n))
  PROVE  \A c \in Shallow(m) \cap Shallow(n) : f[c] = g[c]
<1> DEFINE S == {k \in Nat : \A c \in Shallow(m) \cap Shallow(n) \cap Shallow(k) : f[c] = g[c]}
<1>0. \A c \in D!Calls : Depth(c[2]) \in Nat
  BY ValuesAssumption DEF D!FiniteTrees, D!Calls
<1>1. 0 \in S
  BY <1>0 DEF Shallow
<1>2. ASSUME NEW k \in Nat, k \in S PROVE k + 1 \in S
  <2> SUFFICES ASSUME NEW c \in Shallow(m) \cap Shallow(n) \cap Shallow(k + 1)
               PROVE  f[c] = g[c]
    OBVIOUS
  <2>1. c \in D!Calls /\ Depth(c[2]) < m /\ Depth(c[2]) < n /\ Depth(c[2]) < k + 1
    BY DEF Shallow
  <2>2. ASSUME NEW i \in DOMAIN c[2].items PROVE f[ItemCall(c, i)] = g[ItemCall(c, i)]
    <3>1. ItemCall(c, i) \in Shallow(m) \cap Shallow(n) \cap Shallow(k)
      BY <2>1, ItemCallOK DEF Shallow
    <3> QED
      BY <1>2, <3>1
  <2>3. f[c] = Level(c, f) /\ g[c] = Level(c, g)
    BY DEF Along
  <2> QED
    BY <2>1, <2>2, <2>3, LevelLocal
<1>3. Nat \subseteq S
  <2> HIDE DEF S
  <2> QED
    BY <1>1, <1>2, NatSetInduction
<1>4. ASSUME NEW c \in Shallow(m) \cap Shallow(n) PROVE f[c] = g[c]
  <2>1. m \in S /\ c \in Shallow(m)
    BY <1>3
  <2> QED
    BY <2>1
<1> QED
  BY <1>4

Limit == [c \in D!Calls |-> (CHOOSE f : Along(f, Shallow(Depth(c[2]) + 1)))[c]]

LEMMA LimitAlong == \A c \in D!Calls : Limit[c] = Level(c, Limit)
<1> DEFINE At(n) == CHOOSE f : Along(f, Shallow(n))
<1>1. \A n \in Nat : Along(At(n), Shallow(n))
  BY AlongExists
<1>2. \A c \in D!Calls : Limit[c] = At(Depth(c[2]) + 1)[c]
  BY DEF Limit
<1> HIDE DEF At
<1>3. ASSUME NEW c \in D!Calls PROVE Limit[c] = Level(c, Limit)
  <2> DEFINE n == Depth(c[2]) + 1
  <2>1. n \in Nat /\ c \in Shallow(n)
    BY ValuesAssumption DEF D!FiniteTrees, Shallow, D!Calls
  <2>2. ASSUME NEW i \in DOMAIN c[2].items PROVE At(n)[ItemCall(c, i)] = Limit[ItemCall(c, i)]
    <3> DEFINE e == ItemCall(c, i)
               m == Depth(e[2]) + 1
    <3>1. e \in D!Calls /\ m \in Nat /\ e \in Shallow(m) /\ e \in Shallow(n)
      BY ItemCallOK DEF Shallow
    <3> HIDE DEF n
    <3>2. Limit[e] = At(m)[e]
      BY <1>2, <3>1
    <3> HIDE DEF e, m
    <3>3. At(m)[e] = At(n)[e]
      BY <1>1, <2>1, <3>1, AlongUnique
    <3> QED
      BY <3>2, <3>3 DEF e
  <2>3. At(n)[c] = Level(c, At(n))
    <3> HIDE DEF n
    <3> QED
      BY <1>1, <2>1 DEF Along
  <2>4. Level(c, At(n)) = Level(c, Limit)
    <3> HIDE DEF n
    <3> QED
      BY <2>2, LevelLocal
  <2> QED
    BY <1>2, <2>3, <2>4
<1> QED
  BY <1>3

ItemHashes(p, v) == [i \in DOMAIN v.items |-> D!Denotation[<<p, v.items[i]>>]]

LEMMA DenotationEquation ==
  ASSUME NEW p \in Policies, NEW v \in D!Values
  PROVE  D!Denotation[<<p, v>>] = D!Combined(p, v, ItemHashes(p, v))
<1> DEFINE F(f) == [c \in D!Calls |->
                      D!Combined(c[1], c[2],
                        [i \in DOMAIN c[2].items |-> f[<<c[1], c[2].items[i]>>]])]
           g == [c \in D!Calls |-> Limit[c][1]]
<1>1. g = F(g)
  <2>1. ASSUME NEW c \in D!Calls
        PROVE  g[c] = D!Combined(c[1], c[2],
                                 [i \in DOMAIN c[2].items |-> g[<<c[1], c[2].items[i]>>]])
    <3>1. \A i \in DOMAIN c[2].items : ItemCall(c, i) \in D!Calls
      BY ItemCallOK
    <3>2. \A i \in DOMAIN c[2].items : Limit[ItemCall(c, i)][1] = g[<<c[1], c[2].items[i]>>]
      BY <3>1 DEF ItemCall
    <3>3. [i \in DOMAIN c[2].items |-> Limit[ItemCall(c, i)][1]]
            = [i \in DOMAIN c[2].items |-> g[<<c[1], c[2].items[i]>>]]
      <4> HIDE DEF g
      <4> QED
        BY <3>2
    <3>4. g[c] = Level(c, Limit)[1]
      BY LimitAlong
    <3> QED
      BY <3>3, <3>4 DEF Level
  <2> QED
    BY <2>1
<1>2. D!Denotation = CHOOSE f : f = F(f)
  BY DEF D!Denotation
<1>3. D!Denotation = F(D!Denotation)
  <2> HIDE DEF F, g
  <2> QED
    BY <1>1, <1>2
<1>4. <<p, v>> \in D!Calls
  BY DEF D!Calls
<1> DEFINE d == D!Denotation
<1>5. d = F(d)
  BY <1>3
<1> HIDE DEF d
<1>6. d[<<p, v>>] = D!Combined(p, v, [i \in DOMAIN v.items |-> d[<<p, v.items[i]>>]])
  BY <1>4, <1>5
<1> QED
  BY <1>6 DEF d, ItemHashes

LEMMA HoldsNoValueEquation ==
  ASSUME NEW p \in Policies, NEW v \in D!Values
  PROVE  D!HoldsNoValue[<<p, v>>]
           = D!Valueless(p, v, [i \in DOMAIN v.items |-> D!HoldsNoValue[<<p, v.items[i]>>]])
<1> DEFINE F(f) == [c \in D!Calls |->
                      D!Valueless(c[1], c[2],
                        [i \in DOMAIN c[2].items |-> f[<<c[1], c[2].items[i]>>]])]
           g == [c \in D!Calls |-> Limit[c][2]]
<1>1. g = F(g)
  <2>1. ASSUME NEW c \in D!Calls
        PROVE  g[c] = D!Valueless(c[1], c[2],
                                 [i \in DOMAIN c[2].items |-> g[<<c[1], c[2].items[i]>>]])
    <3>1. \A i \in DOMAIN c[2].items : ItemCall(c, i) \in D!Calls
      BY ItemCallOK
    <3>2. \A i \in DOMAIN c[2].items : Limit[ItemCall(c, i)][2] = g[<<c[1], c[2].items[i]>>]
      BY <3>1 DEF ItemCall
    <3>3. [i \in DOMAIN c[2].items |-> Limit[ItemCall(c, i)][2]]
            = [i \in DOMAIN c[2].items |-> g[<<c[1], c[2].items[i]>>]]
      <4> HIDE DEF g
      <4> QED
        BY <3>2
    <3>4. g[c] = Level(c, Limit)[2]
      BY LimitAlong
    <3> QED
      BY <3>3, <3>4 DEF Level
  <2> QED
    BY <2>1
<1>2. D!HoldsNoValue = CHOOSE f : f = F(f)
  BY DEF D!HoldsNoValue
<1>3. D!HoldsNoValue = F(D!HoldsNoValue)
  <2> HIDE DEF F, g
  <2> QED
    BY <1>1, <1>2
<1>4. <<p, v>> \in D!Calls
  BY DEF D!Calls
<1> DEFINE d == D!HoldsNoValue
<1>5. d = F(d)
  BY <1>3
<1> HIDE DEF d
<1>6. d[<<p, v>>] = D!Valueless(p, v, [i \in DOMAIN v.items |-> d[<<p, v.items[i]>>]])
  BY <1>4, <1>5
<1> QED
  BY <1>6 DEF d


LEMMA HeldEquation ==
  ASSUME NEW p \in Policies, NEW v \in D!Values
  PROVE  D!Held[v] = IF v.kind \in D!Holder /\ v.items # <<>>
                         THEN D!Held[v.items[1]] ELSE v
<1> DEFINE F(f) == [x \in D!Values |-> IF x.kind \in D!Holder /\ x.items # <<>>
                                         THEN f[x.items[1]] ELSE x]
           g == [x \in D!Values |-> Limit[<<p, x>>][3]]
<1>1. g = F(g)
  <2>1. ASSUME NEW x \in D!Values
        PROVE  g[x] = IF x.kind \in D!Holder /\ x.items # <<>> THEN g[x.items[1]] ELSE x
    <3>1. <<p, x>> \in D!Calls /\ ItemCall(<<p, x>>, 1) = <<p, x.items[1]>>
      BY DEF D!Calls, ItemCall
    <3>2. x.items # <<>> => x.items[1] \in D!Values
      <4>1. x.items \in Seq(D!Values)
        BY ValuesAssumption DEF D!FiniteTrees
      <4> QED
        BY <4>1
    <3>3. Limit[<<p, x>>] = Level(<<p, x>>, Limit)
      BY <3>1, LimitAlong
    <3>4. Level(<<p, x>>, Limit)[3]
            = IF x.kind \in D!Holder /\ x.items # <<>> THEN Limit[<<p, x.items[1]>>][3] ELSE x
      BY <3>1 DEF Level
    <3> QED
      BY <3>2, <3>3, <3>4
  <2> QED
    BY <2>1
<1>2. D!Held = CHOOSE f : f = F(f)
  BY DEF D!Held
<1>3. D!Held = F(D!Held)
  <2> HIDE DEF F, g
  <2> QED
    BY <1>1, <1>2
<1> DEFINE d == D!Held
<1>4. d = F(d)
  BY <1>3
<1> HIDE DEF d
<1>5. d[v] = IF v.kind \in D!Holder /\ v.items # <<>> THEN d[v.items[1]] ELSE v
  BY <1>4
<1> QED
  BY <1>5 DEF d

(* A holder is hashed to 0 when what it holds is. *)
LEMMA HeldKindEquation ==
  ASSUME NEW p \in Policies, NEW v \in D!Values
  PROVE  /\ v.kind \notin D!Holder => D!HeldKind(v) = v.kind /\ D!Held[v] = v
         /\ v.kind \in D!Holder /\ v.items # <<>> =>
              /\ D!HeldKind(v) = D!HeldKind(v.items[1])
              /\ D!Vanishes(p, v) <=> D!Vanishes(p, v.items[1])
  BY HeldEquation DEF D!HeldKind, D!Vanishes

LEMMA MergedEquation ==
  ASSUME NEW p \in Policies, NEW v \in D!Values
  PROVE  D!Merged[<<p, v>>]
           = (D!MergesItems(p, v) \/ \E i \in DOMAIN v.items : D!Merged[<<p, v.items[i]>>])
<1> DEFINE F(f) == [c \in D!Calls |-> \/ D!MergesItems(c[1], c[2])
                                     \/ \E i \in DOMAIN c[2].items : f[<<c[1], c[2].items[i]>>]]
           g == [c \in D!Calls |-> Limit[c][4]]
<1>1. g = F(g)
  <2>1. ASSUME NEW c \in D!Calls
        PROVE  g[c] = (D!MergesItems(c[1], c[2])
                         \/ \E i \in DOMAIN c[2].items : g[<<c[1], c[2].items[i]>>])
    <3>1. \A i \in DOMAIN c[2].items : ItemCall(c, i) \in D!Calls
      BY ItemCallOK
    <3>2. \A i \in DOMAIN c[2].items : Limit[ItemCall(c, i)][4] = g[<<c[1], c[2].items[i]>>]
      BY <3>1 DEF ItemCall
    <3>3. g[c] = Level(c, Limit)[4]
      BY LimitAlong
    <3>4. Level(c, Limit)[4] = (D!MergesItems(c[1], c[2])
                                  \/ \E i \in DOMAIN c[2].items : Limit[ItemCall(c, i)][4])
      BY DEF Level
    <3> HIDE DEF g
    <3>5. (\E i \in DOMAIN c[2].items : Limit[ItemCall(c, i)][4])
            <=> (\E i \in DOMAIN c[2].items : g[<<c[1], c[2].items[i]>>])
      BY <3>2
    <3> QED
      BY <3>3, <3>4, <3>5
  <2> QED
    BY <2>1
<1>2. D!Merged = CHOOSE f : f = F(f)
  BY DEF D!Merged
<1>3. D!Merged = F(D!Merged)
  <2> HIDE DEF F, g
  <2> QED
    BY <1>1, <1>2
<1>4. <<p, v>> \in D!Calls
  BY DEF D!Calls
<1> DEFINE d == D!Merged
<1>5. d = F(d)
  BY <1>3
<1> HIDE DEF d
<1>6. d[<<p, v>>] = (D!MergesItems(p, v) \/ \E i \in DOMAIN v.items : d[<<p, v.items[i]>>])
  BY <1>4, <1>5
<1> QED
  BY <1>6 DEF d


(* Induction over values: a set is all of Values when it has every value all
   of whose items it has.                                                  *)
LEMMA ValueInduction ==
  ASSUME NEW S, \A v \in D!Values : (\A i \in DOMAIN v.items : v.items[i] \in S) => v \in S
  PROVE  D!Values \subseteq S
<1> DEFINE N == {n \in Nat : \A v \in D!Values : Depth(v) < n => v \in S}
<1>0. \A v \in D!Values : Depth(v) \in Nat
  BY ValuesAssumption DEF D!FiniteTrees
<1>1. 0 \in N
  BY <1>0
<1>2. ASSUME NEW n \in Nat, n \in N PROVE n + 1 \in N
  <2> SUFFICES ASSUME NEW v \in D!Values, Depth(v) < n + 1 PROVE v \in S
    OBVIOUS
  <2>1. ASSUME NEW i \in DOMAIN v.items PROVE v.items[i] \in S
    <3>1. v.items \in Seq(D!Values) /\ Depth(v.items[i]) < Depth(v)
      BY ValuesAssumption DEF D!FiniteTrees
    <3>2. v.items[i] \in D!Values
      BY <3>1
    <3>3. Depth(v.items[i]) < n
      BY <1>0, <3>1, <3>2
    <3> QED
      BY <1>2, <3>2, <3>3
  <2> QED
    BY <2>1
<1>3. Nat \subseteq N
  <2> HIDE DEF N
  <2> QED
    BY <1>1, <1>2, NatSetInduction
<1>4. ASSUME NEW v \in D!Values PROVE v \in S
  <2>1. Depth(v) + 1 \in N /\ Depth(v) < Depth(v) + 1
    BY <1>0, <1>3
  <2> QED
    BY <2>1
<1> QED
  BY <1>4

-----------------------------------------------------------------------------
(* The hashes that wyhash and Martinus mix, from the first to the last.     *)

Greatest(s) == D!Max(s)

LEMMA GreatestIn ==
  ASSUME NEW n \in Nat, NEW s \in SUBSET (1 .. n), s # {}
  PROVE  Greatest(s) \in s /\ \A y \in s : y <= Greatest(s)
<1> DEFINE T == {n - x : x \in s}
<1>0. \A x \in s : x \in Int /\ 1 <= x /\ x <= n
  OBVIOUS
<1>1. T \in SUBSET Nat /\ T # {}
  <2>1. ASSUME NEW x \in s PROVE n - x \in Nat
    BY <1>0
  <2>2. T \subseteq Nat
    BY <2>1
  <2>3. PICK x \in s : TRUE
    OBVIOUS
  <2>4. n - x \in T
    OBVIOUS
  <2> QED
    BY <2>2, <2>4
<1>2. PICK m \in T : \A t \in T : m <= t
  <2> HIDE DEF T
  <2> QED
    BY <1>1, SmallestNat
<1>3. PICK x \in s : m = n - x
  BY <1>2
<1>4. ASSUME NEW y \in s PROVE y <= x
  <2>1. n - y \in T
    OBVIOUS
  <2>2. n - x <= n - y
    BY <1>2, <1>3, <2>1
  <2> QED
    BY <1>0, <2>2
<1> QED
  BY <1>4 DEF Greatest, D!Max

(* What mixes one more hash into a state, and the state that nothing was mixed into. *)
MixInto(p, state, hash) == IF p = "wyhash" THEN D!_wymix(state, hash) ELSE D!mix_in(state, hash)

Start(p, w) == IF p = "wyhash" THEN D!ErrorValue ELSE D!seed_size(Len(w))

MixStep(p, g, w, s) ==
  IF s = {} THEN Start(p, w)
            ELSE MixInto(p, g[s \ {Greatest(s)}], w[Greatest(s)])

(* As FoldLeft does it, for each of the policies. *)
IsMixedByWyhash(g, w) ==
  g = [s \in SUBSET DOMAIN w |->
         IF s = {} THEN D!ErrorValue ELSE D!_wymix(g[s \ {Greatest(s)}], w[Greatest(s)])]

IsMixedByMartinus(g, w) ==
  g = [s \in SUBSET DOMAIN w |->
         IF s = {} THEN D!seed_size(Len(w)) ELSE D!mix_in(g[s \ {Greatest(s)}], w[Greatest(s)])]

Mixed(p, w) ==
  IF p = "wyhash" THEN CHOOSE g : IsMixedByWyhash(g, w) ELSE CHOOSE g : IsMixedByMartinus(g, w)

LEMMA CombineIsMixed ==
  ASSUME NEW w
  PROVE  /\ D!combine_wyhash(w) = Mixed("wyhash", w)[DOMAIN w]
         /\ D!combine_Martinus(w) = D!final_mix(Mixed("Martinus", w)[DOMAIN w])
<1>1. D!combine_wyhash(w) = (CHOOSE g : IsMixedByWyhash(g, w))[DOMAIN w]
  BY DEF D!combine_wyhash, D!FoldLeft, D!MapThenFoldSet, IsMixedByWyhash, Greatest
<1>2. D!combine_Martinus(w) = D!final_mix((CHOOSE g : IsMixedByMartinus(g, w))[DOMAIN w])
  BY DEF D!combine_Martinus, D!FoldLeft, D!MapThenFoldSet, IsMixedByMartinus, Greatest
<1> QED
  BY <1>1, <1>2 DEF Mixed

LEMMA MixedExists ==
  ASSUME NEW p, NEW n \in Nat, NEW w, DOMAIN w = 1 .. n
  PROVE  \E g : g = [s \in SUBSET DOMAIN w |-> MixStep(p, g, w, s)]
<1> DEFINE Small(k) == {s \in SUBSET (1 .. n) : Cardinality(s) <= k}
           P(g, k) == g = [s \in Small(k) |-> MixStep(p, g, w, s)]
           N == {k \in Nat : \E g : P(g, k)}
<1>1. \A s \in SUBSET (1 .. n) : /\ IsFiniteSet(s) /\ Cardinality(s) \in Nat
                                 /\ Cardinality(s) <= n
                                 /\ (Cardinality(s) = 0 <=> s = {})
  <2>1. IsFiniteSet(1 .. n) /\ Cardinality(1 .. n) = n
    BY FS_Interval
  <2> QED
    <3> SUFFICES ASSUME NEW s \in SUBSET (1 .. n)
                 PROVE  /\ IsFiniteSet(s) /\ Cardinality(s) \in Nat
                        /\ Cardinality(s) <= n
                        /\ (Cardinality(s) = 0 <=> s = {})
      OBVIOUS
    <3>1. IsFiniteSet(s) /\ Cardinality(s) <= n
      <4>1. IsFiniteSet(s) /\ Cardinality(s) <= Cardinality(1 .. n)
        BY <2>1, FS_Subset, Zenon
      <4> QED
        BY <2>1, <4>1
    <3>2. Cardinality(s) \in Nat
      BY <3>1, FS_CardinalityType
    <3>3. Cardinality(s) = 0 <=> s = {}
      BY <3>1, FS_EmptySet
    <3> QED
      BY <3>1, <3>2, <3>3
<1>2. 0 \in N
  <2> DEFINE g == [s \in {{}} |-> Start(p, w)]
  <2>1. Small(0) = {{}}
    BY <1>1, FS_EmptySet
  <2>2. P(g, 0)
    BY <2>1 DEF MixStep
  <2> HIDE DEF P
  <2> QED
    BY <2>2
<1>3. ASSUME NEW k \in Nat, k \in N PROVE k + 1 \in N
  <2>1. PICK g : P(g, k)
    BY <1>3
  <2> DEFINE next == [s \in Small(k + 1) |-> MixStep(p, g, w, s)]
  <2>2. Small(k) \subseteq Small(k + 1)
    BY <1>1
  <2>3. ASSUME NEW s \in Small(k) PROVE next[s] = g[s]
    <3>1. next[s] = MixStep(p, g, w, s)
      BY <2>2
    <3>2. g[s] = MixStep(p, g, w, s)
      <4> HIDE DEF Small
      <4> QED
        BY <2>1
    <3> QED
      BY <3>1, <3>2
  <2>4. ASSUME NEW s \in Small(k + 1), s # {} PROVE s \ {Greatest(s)} \in Small(k)
    <3>1. Greatest(s) \in s /\ IsFiniteSet(s) /\ s \in SUBSET (1 .. n)
      BY <1>1, <2>4, GreatestIn
    <3>2. Cardinality(s \ {Greatest(s)}) = Cardinality(s) - 1
      BY <3>1, FS_RemoveElement
    <3>3. Cardinality(s) \in Nat /\ Cardinality(s) <= k + 1
      BY <1>1
    <3>4. Cardinality(s \ {Greatest(s)}) <= k
      BY <3>2, <3>3
    <3>5. s \ {Greatest(s)} \in SUBSET (1 .. n)
      BY <3>1
    <3> QED
      BY <3>4, <3>5
  <2>5. P(next, k + 1)
    <3>1. ASSUME NEW s \in Small(k + 1) PROVE MixStep(p, g, w, s) = MixStep(p, next, w, s)
      BY <2>3, <2>4 DEF MixStep
    <3> HIDE DEF Small
    <3> QED
      BY <3>1
  <2> HIDE DEF P, next
  <2> QED
    BY <2>5
<1>4. n \in N
  <2> HIDE DEF N
  <2> QED
    BY <1>2, <1>3, NatSetInduction
<1>5. PICK g : P(g, n)
  BY <1>4
<1>6. Small(n) = SUBSET (1 .. n)
  BY <1>1
<1>7. g = [s \in SUBSET DOMAIN w |-> MixStep(p, g, w, s)]
  <2> HIDE DEF Small
  <2> QED
    BY <1>5, <1>6
<1> QED
  BY <1>7

(* The state of the hash after the first k hashes. *)
MixesAlong(p, w, n) ==
  /\ Mixed(p, w)[1 .. 0] = Start(p, w)
  /\ \A k \in 1 .. n : Mixed(p, w)[1 .. k] = MixInto(p, Mixed(p, w)[1 .. (k - 1)], w[k])

LEMMA MixedPrefix ==
  ASSUME NEW p, NEW n \in Nat, NEW w, DOMAIN w = 1 .. n
  PROVE  MixesAlong(p, w, n)
<1> DEFINE g == Mixed(p, w)
<1>1. g = [s \in SUBSET DOMAIN w |-> MixStep(p, g, w, s)]
  <2>1. PICK f : f = [s \in SUBSET DOMAIN w |-> MixStep(p, f, w, s)]
    BY MixedExists
  <2>2. CASE p = "wyhash"
    <3>1. IsMixedByWyhash(f, w)
      BY <2>1, <2>2 DEF IsMixedByWyhash, MixStep, MixInto, Start
    <3>2. IsMixedByWyhash(g, w)
      BY <2>2, <3>1 DEF Mixed
    <3> HIDE DEF g
    <3> QED
      BY <2>2, <3>2 DEF IsMixedByWyhash, MixStep, MixInto, Start
  <2>3. CASE p # "wyhash"
    <3>1. IsMixedByMartinus(f, w)
      BY <2>1, <2>3 DEF IsMixedByMartinus, MixStep, MixInto, Start
    <3>2. IsMixedByMartinus(g, w)
      BY <2>3, <3>1 DEF Mixed
    <3> HIDE DEF g
    <3> QED
      BY <2>3, <3>2 DEF IsMixedByMartinus, MixStep, MixInto, Start
  <2> QED
    BY <2>2, <2>3
<1> HIDE DEF g
<1>2. \A s \in SUBSET (1 .. n) : g[s] = MixStep(p, g, w, s)
  BY <1>1
<1>3. ASSUME NEW k \in 1 .. n
      PROVE  g[1 .. k] = MixInto(p, g[1 .. (k - 1)], w[k])
  <2>0. k \in Int /\ 1 <= k /\ k <= n
    OBVIOUS
  <2>1. 1 .. k \in SUBSET (1 .. n) /\ 1 .. k # {} /\ k \in 1 .. k
    <3>1. k \in 1 .. k
      BY <2>0
    <3>2. \A x \in 1 .. k : x \in 1 .. n
      BY <2>0
    <3> QED
      BY <3>1, <3>2
  <2>2. Greatest(1 .. k) \in 1 .. k /\ \A y \in 1 .. k : y <= Greatest(1 .. k)
    BY <2>1, GreatestIn
  <2>3. Greatest(1 .. k) = k
    BY <2>1, <2>2
  <2>4. (1 .. k) \ {k} = 1 .. (k - 1)
    OBVIOUS
  <2> QED
    BY <1>2, <2>1, <2>3, <2>4 DEF MixStep
<1>4. g[1 .. 0] = Start(p, w)
  <2>1. 1 .. 0 \in SUBSET (1 .. n) /\ 1 .. 0 = {}
    OBVIOUS
  <2> QED
    BY <1>2, <2>1 DEF MixStep
<1> QED
  BY <1>3, <1>4 DEF g, MixesAlong

Seed == [op |-> "seed", data |-> <<>>, args |-> {}]

(* Once a hash other than 0 is mixed in, the seed is gone for good. *)
LEMMA MixedLosesSeed ==
  ASSUME NEW n \in Nat, NEW w, DOMAIN w = 1 .. n, Seed \in D!combine_wyhash(w)
  PROVE  \A i \in 1 .. n : w[i] = {}
<1> DEFINE g(k) == Mixed("wyhash", w)[1 .. k]
           N == {k \in Nat : k <= n => /\ g(k) # {}
                                       /\ Seed \in g(k) => \A i \in 1 .. k : w[i] = {}}
<1>0. MixesAlong("wyhash", w, n)
  BY MixedPrefix
<1>1. 0 \in N
  <2>1. g(0) = D!ErrorValue
    BY <1>0 DEF MixesAlong, Start
  <2> QED
    <3>1. g(0) # {}
      BY <2>1 DEF D!ErrorValue, D!Atom
    <3>2. \A i \in 1 .. 0 : w[i] = {}
      OBVIOUS
    <3> HIDE DEF g
    <3> QED
      BY <3>1, <3>2
<1>2. ASSUME NEW k \in Nat, k \in N PROVE k + 1 \in N
  <2> SUFFICES ASSUME k + 1 <= n
               PROVE  g(k + 1) # {} /\ (Seed \in g(k + 1) => \A i \in 1 .. k + 1 : w[i] = {})
    OBVIOUS
  <2>1. g(k + 1) = D!_wymix(g(k), w[k + 1])
    <3>1. k + 1 \in 1 .. n /\ (k + 1) - 1 = k
      OBVIOUS
    <3> QED
      BY <1>0, <3>1 DEF MixesAlong, MixInto
  <2>2. g(k) # {} /\ (Seed \in g(k) => \A i \in 1 .. k : w[i] = {})
    BY <1>2
  <2> HIDE DEF g
  <2>3. CASE w[k + 1] = {}
    <3>1. g(k + 1) = g(k)
      BY <2>1, <2>3 DEF D!_wymix
    <3> QED
      BY <2>2, <2>3, <3>1
  <2>4. CASE w[k + 1] # {}
    <3>1. g(k + 1) = D!Atom("mix", <<>>, {<<g(k), w[k + 1]>>, <<w[k + 1], g(k)>>})
      BY <2>1, <2>2, <2>4 DEF D!_wymix
    <3> QED
      BY <3>1 DEF D!Atom, Seed
  <2> QED
    BY <2>3, <2>4
<1>3. n \in N
  <2> HIDE DEF N
  <2> QED
    BY <1>1, <1>2, NatSetInduction
<1>4. Seed \in g(n)
  BY CombineIsMixed
<1> QED
  BY <1>3, <1>4

(* Only values without a value have the seed among the atoms of their hash. *)
LEMMA SeedMeansNoValue ==
  ASSUME NEW p \in Policies, NEW v \in D!Values, Seed \in D!Denotation[<<p, v>>]
  PROVE  D!HoldsNoValue[<<p, v>>]
<1> DEFINE den(x) == D!Denotation[<<p, x>>]
           none(x) == D!HoldsNoValue[<<p, x>>]
           S == {x \in D!Values : Seed \in den(x) => none(x)}
<1>1. ASSUME NEW x \in D!Values, \A i \in DOMAIN x.items : x.items[i] \in S, Seed \in den(x)
      PROVE  none(x)
  <2> DEFINE hashes == ItemHashes(p, x)
             nones == [i \in DOMAIN x.items |-> D!HoldsNoValue[<<p, x.items[i]>>]]
  <2>1. den(x) = D!Combined(p, x, hashes) /\ none(x) = D!Valueless(p, x, nones)
    BY DenotationEquation, HoldsNoValueEquation
  <2>2. /\ DOMAIN hashes = DOMAIN x.items /\ DOMAIN nones = DOMAIN x.items
        /\ \A i \in DOMAIN x.items :
             hashes[i] = den(x.items[i]) /\ (Seed \in hashes[i] => nones[i])
    BY <1>1 DEF ItemHashes
  <2>3. /\ x.items \in Seq(D!Values)
        /\ x.kind \in D!Fundamental \cup D!Holder \cup D!Container \cup {"bytes", "monostate"}
    BY ValuesAssumption DEF D!FiniteTrees
  <2>4. Seed \in D!Combined(p, x, hashes)
    BY <1>1, <2>1
  <2> HIDE DEF hashes, nones
  <2>5. \A data, args : Seed \notin D!Atom("bytes", data, args)
                        /\ Seed \notin D!Atom("integer", data, args)
                        /\ Seed \notin D!Atom("final", data, args)
    BY DEF Seed, D!Atom
  <2>6. CASE x.kind \in D!Fundamental \cup {"bytes"}
    BY <2>4, <2>5, <2>6 DEF D!Combined, D!Fundamental, D!hash_fundamental, D!hash_bytes
  <2>7. CASE x.kind \in {"ordered", "tuple"}
    <3>1. Seed \in D!hash_combine(p, hashes)
      BY <2>4, <2>7 DEF D!Combined, D!Fundamental
    <3>2. p = "wyhash" /\ Seed \in D!combine_wyhash(hashes)
      BY <2>5, <3>1, PoliciesAssumption
         DEF D!hash_combine, D!combine_xxh3, D!combine_Martinus, D!final_mix
    <3>3. \A i \in DOMAIN x.items : hashes[i] = {}
      BY <2>2, <2>3, <3>2, MixedLosesSeed
    <3> QED
      BY <2>1, <2>2, <2>7, <3>2, <3>3 DEF D!Valueless
  <2>8. CASE x.kind = "unordered"
    <3>1. Seed \in UNION D!Range(hashes)
      BY <2>4, <2>8 DEF D!Combined, D!Fundamental, D!Odd
    <3>2. \E i \in DOMAIN nones : nones[i]
      BY <2>2, <3>1 DEF D!Range
    <3> QED
      BY <2>1, <2>8, <3>2 DEF D!Valueless
  <2>9. CASE x.kind \in D!Holder \cup {"monostate"}
    <3>1. CASE x.items = <<>> \/ x.kind = "monostate"
      BY <2>1, <2>9, <3>1 DEF D!Valueless
    <3>2. CASE x.items # <<>> /\ x.kind # "monostate"
      <4>1. D!Combined(p, x, hashes) = hashes[1]
        BY <2>9, <3>2 DEF D!Combined, D!Holder, D!Fundamental
      <4>2. 1 \in DOMAIN x.items
        BY <2>3, <3>2
      <4>3. 1 \in DOMAIN nones /\ nones[1]
        BY <2>2, <2>4, <4>1, <4>2
      <4> QED
        BY <2>1, <2>9, <3>2, <4>3 DEF D!Valueless
    <3> QED
      BY <3>1, <3>2
  <2> QED
    BY <2>3, <2>6, <2>7, <2>8, <2>9 DEF D!Container
<1>2. D!Values \subseteq S
  <2>1. \A x \in D!Values : (\A i \in DOMAIN x.items : x.items[i] \in S) => x \in S
    BY <1>1
  <2> HIDE DEF S
  <2> QED
    BY <2>1, ValueInduction
<1> QED
  BY <1>2


-----------------------------------------------------------------------------
(* The calls of dice_hash: policy p, root r, argument a, stack s, returned t. *)

Den(p, v) == D!Denotation[<<p, v>>]

(* The items in I of an unordered container, combined. *)
OddAtoms(p, v, I) ==
  {a \in UNION {Den(p, v.items[i]) : i \in I} :
     Cardinality({i \in I : a \in Den(p, v.items[i])}) % 2 = 1}

(* What a sequence or a tuple has combined after k items: a list of their
   hashes, or the state of the hash they were mixed into.                  *)
SoFar(p, v, k) ==
  IF v.kind = "tuple" \/ p = "xxh3" THEN [j \in 1 .. k |-> Den(p, v.items[j])]
                                   ELSE Mixed(p, ItemHashes(p, v))[1 .. k]

FrameOK(p, f) ==
  /\ f = [value |-> f.value, left |-> f.left, at |-> f.at, h |-> f.h]
  /\ f.value \in D!Values /\ f.value.kind \in D!Container
  /\ f.left \subseteq DOMAIN f.value.items
  /\ f.value.kind = "unordered" =>
       f.h = OddAtoms(p, f.value, DOMAIN f.value.items \ f.left)
  /\ f.value.kind # "unordered" =>
       \E k \in 0 .. Len(f.value.items) :
         /\ f.left = k + 1 .. Len(f.value.items)
         /\ f.h = SoFar(p, f.value, k)
         /\ f.at \in {0, k + 1}

(* What the call within the first k containers has to return. *)
Owed(p, r, s, k) == IF k = 0 THEN Den(p, r) ELSE Den(p, s[k].value.items[s[k].at])

(* The innermost container waits for the hash of an item it has not added. *)
Asked(s) == s # <<>> => s[Len(s)].at \in s[Len(s)].left

Good(p, r, a, s, t) ==
  /\ p \in Policies
  /\ \E F : s \in Seq(F)
  /\ \A k \in 1 .. Len(s) : FrameOK(p, s[k]) /\ Den(p, s[k].value) = Owed(p, r, s, k - 1)
  /\ \A k \in 1 .. Len(s) - 1 : s[k].at \in s[k].left
  /\ a # <<>> => /\ t = <<>> /\ Asked(s)
                 /\ \E v \in D!Values : a = <<v>> /\ Den(p, v) = Owed(p, r, s, Len(s))
  /\ t # <<>> => a = <<>> /\ Asked(s) /\ t = <<Owed(p, r, s, Len(s))>>
  /\ (a # <<>> \/ t # <<>> \/ s # <<>>) => r \in D!Values

LEMMA CallBegins ==
  ASSUME NEW p, NEW r, NEW a, NEW s, NEW t, Good(p, r, a, s, t), a # <<>>
  PROVE  /\ a[1] \in D!Values /\ a = <<a[1]>> /\ p \in Policies /\ t = <<>>
         /\ Good(p, r, <<>>, s, <<Den(p, a[1])>>)
         /\ \A w \in D!Values : Den(p, w) = Den(p, a[1]) => Good(p, r, <<w>>, s, <<>>)
  BY DEF Good

(* A loop begins with nothing, adds the hashes in their order, and ends with
   the hash of all of them: HashState agrees with hash_combine.            *)
LEMMA LoopCombines ==
  ASSUME NEW p \in Policies, NEW v \in D!Values, v.kind \in {"ordered", "tuple"}
  PROVE  /\ v.kind = "ordered" => D!HashState(p, Len(v.items)) = SoFar(p, v, 0)
         /\ v.kind = "tuple" => <<>> = SoFar(p, v, 0)
         /\ \A k \in Nat : k + 1 \in 1 .. Len(v.items) =>
              /\ v.kind = "ordered" =>
                   D!HashState_add(p, SoFar(p, v, k), Den(p, v.items[k + 1])) = SoFar(p, v, k + 1)
              /\ v.kind = "tuple" =>
                   Append(SoFar(p, v, k), Den(p, v.items[k + 1])) = SoFar(p, v, k + 1)
         /\ v.kind = "ordered" =>
              D!HashState_digest(p, SoFar(p, v, Len(v.items))) = Den(p, v)
         /\ v.kind = "tuple" => D!hash_combine(p, SoFar(p, v, Len(v.items))) = Den(p, v)
<1> DEFINE n == Len(v.items)
           w == ItemHashes(p, v)
           list(k) == [j \in 1 .. k |-> Den(p, v.items[j])]
           state(k) == Mixed(p, w)[1 .. k]
<1>1. v.items \in Seq(D!Values) /\ n \in Nat /\ DOMAIN v.items = 1 .. n
  BY ValuesAssumption DEF D!FiniteTrees
<1>2. /\ DOMAIN w = 1 .. n /\ w = list(n) /\ Len(w) = n
      /\ \A i \in 1 .. n : w[i] = Den(p, v.items[i])
  <2>1. w = list(n)
    BY <1>1 DEF ItemHashes, Den
  <2> DEFINE H == {Den(p, v.items[j]) : j \in 1 .. n}
  <2>2. list(n) \in Seq(H) /\ Len(list(n)) = n
    BY <1>1
  <2> HIDE DEF w
  <2> QED
    BY <2>1, <2>2
<1>3. ASSUME NEW k \in Nat, k + 1 \in 1 .. n
      PROVE  Append(list(k), Den(p, v.items[k + 1])) = list(k + 1)
  <2> DEFINE H == {Den(p, v.items[j]) : j \in 1 .. k}
             den == Den(p, v.items[k + 1])
             one == Append(list(k), den)
  <2>1. list(k) \in Seq(H) /\ Len(list(k)) = k /\ \A j \in 1 .. k : list(k)[j] = Den(p, v.items[j])
    OBVIOUS
  <2> HIDE DEF list, den, H
  <2> DEFINE l == list(k)
  <2>2. /\ DOMAIN one = 1 .. k + 1 /\ one[k + 1] = den
        /\ \A j \in 1 .. k : one[j] = list(k)[j]
        /\ one = [j \in 1 .. k + 1 |-> one[j]]
    <3>1. l \in Seq(H \cup {den}) /\ Len(l) = k
      BY <2>1
    <3> HIDE DEF l
    <3>2. /\ Append(l, den) \in Seq(H \cup {den}) /\ Len(Append(l, den)) = k + 1
          /\ Append(l, den)[k + 1] = den
          /\ \A j \in 1 .. k : Append(l, den)[j] = l[j]
      BY <3>1
    <3> DEFINE u == Append(l, den)
               S == H \cup {den}
    <3>3. u \in Seq(S) /\ Len(u) = k + 1
      BY <3>2
    <3> HIDE DEF u, S
    <3>4. DOMAIN u = 1 .. k + 1 /\ u = [j \in 1 .. k + 1 |-> u[j]]
      BY <3>3
    <3> QED
      BY <3>2, <3>4 DEF l, u
  <2>3. \A j \in 1 .. k + 1 : one[j] = Den(p, v.items[j])
    BY <2>1, <2>2 DEF den
  <2> HIDE DEF one
  <2> QED
    BY <2>2, <2>3 DEF one, den, list
<1>4. list(0) = <<>>
  OBVIOUS
<1>5. Den(p, v) = D!hash_combine(p, w)
  BY DenotationEquation DEF Den, D!Combined, D!Fundamental
<1> HIDE DEF n, w
<1>6. /\ state(0) = Start(p, w)
      /\ \A k \in 1 .. n : state(k) = MixInto(p, state(k - 1), w[k])
  <2>1. n \in Nat /\ DOMAIN w = 1 .. n
    BY <1>1, <1>2
  <2>2. MixesAlong(p, w, n)
    BY <2>1, MixedPrefix
  <2> QED
    BY <2>2 DEF MixesAlong
<1> HIDE DEF list, state
<1>7. ASSUME NEW k \in Nat, k + 1 \in 1 .. n
      PROVE  state(k + 1) = MixInto(p, state(k), Den(p, v.items[k + 1]))
  <2>1. (k + 1) - 1 = k
    OBVIOUS
  <2> QED
    BY <1>2, <1>6, <1>7, <2>1
<1>8. /\ \A k : SoFar(p, v, k) = IF v.kind = "tuple" \/ p = "xxh3" THEN list(k) ELSE state(k)
      /\ n = Len(v.items)
  BY DEF SoFar, list, state, w, n
<1>9. CASE v.kind = "tuple"
  BY <1>2, <1>3, <1>4, <1>5, <1>8, <1>9
<1>10. CASE v.kind = "ordered" /\ p = "xxh3"
  <2>1. D!HashState_digest(p, list(n)) = Den(p, v)
    BY <1>2, <1>5, <1>10 DEF D!HashState_digest, D!hash_combine, D!combine_xxh3
  <2> QED
    BY <1>3, <1>4, <1>8, <1>10, <2>1 DEF D!HashState, D!HashState_add
<1>11. CASE v.kind = "ordered" /\ p = "wyhash"
  <2>1. state(n) = Den(p, v)
    BY <1>2, <1>5, <1>11, CombineIsMixed DEF D!hash_combine, state
  <2> QED
    BY <1>6, <1>7, <1>8, <1>11, <2>1 DEF D!HashState, D!HashState_add, D!HashState_digest,
       Start, MixInto
<1>12. CASE v.kind = "ordered" /\ p = "Martinus"
  <2>1. D!final_mix(state(n)) = Den(p, v)
    BY <1>2, <1>5, <1>12, CombineIsMixed DEF D!hash_combine, state
  <2> QED
    BY <1>2, <1>6, <1>7, <1>8, <1>12, <2>1 DEF D!HashState, D!HashState_add, D!HashState_digest,
       Start, MixInto
<1> QED
  BY <1>9, <1>10, <1>11, <1>12, PoliciesAssumption

LEMMA ContainerBegins ==
  ASSUME NEW p, NEW r, NEW a, NEW s, NEW t, Good(p, r, a, s, t), a # <<>>,
         a[1].kind \in D!Container,
         NEW h0, a[1].kind = "unordered" => h0 = {},
                 a[1].kind # "unordered" => h0 = SoFar(p, a[1], 0),
         NEW f, f = [value |-> a[1], left |-> DOMAIN a[1].items, at |-> 0, h |-> h0]
  PROVE  Good(p, r, <<>>, Append(s, f), t)
<1> DEFINE v == a[1]
           n == Len(s)
           u == Append(s, f)
<1>1. /\ v \in D!Values /\ Den(p, v) = Owed(p, r, s, n) /\ Asked(s) /\ t = <<>> /\ r \in D!Values
      /\ p \in Policies
  BY DEF Good
<1>2. PICK F : s \in Seq(F)
  BY DEF Good
<1>3. /\ u \in Seq(F \cup {f}) /\ n \in Nat /\ Len(u) = n + 1 /\ u[n + 1] = f
      /\ \A k \in 1 .. n : u[k] = s[k]
  BY <1>2
<1>4. v.items \in Seq(D!Values)
  BY <1>1, ValuesAssumption DEF D!FiniteTrees
<1>5. FrameOK(p, f)
  <2>1. OddAtoms(p, v, {}) = {}
    BY DEF OddAtoms
  <2>2. 0 \in 0 .. Len(v.items) /\ DOMAIN v.items = 0 + 1 .. Len(v.items)
    BY <1>4
  <2>3. /\ f.value = v /\ f.left = DOMAIN v.items /\ f.at = 0 /\ f.h = h0
        /\ f = [value |-> f.value, left |-> f.left, at |-> f.at, h |-> f.h]
        /\ v.kind = "unordered" => h0 = {}
        /\ v.kind # "unordered" => h0 = SoFar(p, v, 0)
    OBVIOUS
  <2>4. DOMAIN v.items \ DOMAIN v.items = {}
    OBVIOUS
  <2> HIDE DEF v
  <2> QED
    BY <1>1, <2>1, <2>2, <2>3, <2>4 DEF FrameOK, v
<1> HIDE DEF u, n
<1>6. \A k \in 0 .. n : Owed(p, r, u, k) = Owed(p, r, s, k)
  BY <1>3 DEF Owed
<1>7. ASSUME NEW k \in 1 .. Len(u)
      PROVE  FrameOK(p, u[k]) /\ Den(p, u[k].value) = Owed(p, r, u, k - 1)
  <2>1. CASE k = n + 1
    <3>1. u[k] = f /\ k - 1 = n /\ n \in 0 .. n
      BY <1>3, <2>1
    <3>2. f.value = v
      OBVIOUS
    <3> QED
      BY <1>1, <1>5, <1>6, <3>1, <3>2
  <2>2. CASE k # n + 1
    <3>1. k \in 1 .. n /\ k - 1 \in 0 .. n
      BY <1>3, <2>2
    <3>2. FrameOK(p, s[k]) /\ Den(p, s[k].value) = Owed(p, r, s, k - 1)
      BY <3>1 DEF Good, n
    <3> QED
      BY <1>3, <1>6, <3>1, <3>2
  <2> QED
    BY <2>1, <2>2
<1>8. ASSUME NEW k \in 1 .. Len(u) - 1 PROVE u[k].at \in u[k].left
  <2>1. k \in 1 .. n
    BY <1>3
  <2>2. s[k].at \in s[k].left
    <3>1. CASE k = n
      <4>1. s # <<>>
        BY <1>2, <2>1, <3>1 DEF n
      <4> QED
        BY <1>1, <3>1, <4>1 DEF Asked, n
    <3>2. CASE k # n
      BY <1>3, <2>1, <3>2 DEF Good, n
    <3> QED
      BY <3>1, <3>2
  <2> QED
    BY <1>3, <2>1, <2>2
<1> QED
  BY <1>1, <1>3, <1>7, <1>8 DEF Good, u

(* The innermost container takes a step. *)
LEMMA TopChanges ==
  ASSUME NEW p, NEW r, NEW s, NEW t, Good(p, r, <<>>, s, t), s # <<>>,
         NEW f, FrameOK(p, f), f.value = s[Len(s)].value,
         NEW u, u = [s EXCEPT ![Len(s)] = f]
  PROVE  /\ Good(p, r, <<>>, u, <<>>) /\ Len(u) = Len(s) /\ u # <<>> /\ u[Len(u)] = f
         /\ f.at \in f.left /\ f.left \subseteq DOMAIN f.value.items =>
              Good(p, r, <<f.value.items[f.at]>>, u, <<>>)
<1>1. PICK F : s \in Seq(F)
  BY DEF Good
<1> DEFINE n == Len(s)
<1>2. /\ u \in Seq(F \cup {f}) /\ Len(u) = n /\ n \in Nat \ {0} /\ u[n] = f /\ u # <<>>
      /\ \A k \in 1 .. n - 1 : u[k] = s[k]
  BY <1>1
<1>3. p \in Policies /\ r \in D!Values
  BY DEF Good
<1> HIDE DEF n
<1>4. \A k \in 0 .. n - 1 : Owed(p, r, u, k) = Owed(p, r, s, k)
  BY <1>2 DEF Owed
<1>5. ASSUME NEW k \in 1 .. Len(u)
      PROVE  FrameOK(p, u[k]) /\ Den(p, u[k].value) = Owed(p, r, u, k - 1)
  <2>1. k \in 1 .. n /\ k - 1 \in 0 .. n - 1
    BY <1>2
  <2>2. FrameOK(p, s[k]) /\ Den(p, s[k].value) = Owed(p, r, s, k - 1)
    BY <2>1 DEF Good, n
  <2>3. CASE k = n
    BY <1>2, <1>4, <2>1, <2>2, <2>3 DEF n
  <2>4. CASE k # n
    <3>1. k \in 1 .. n - 1
      BY <1>2, <2>1, <2>4
    <3> QED
      BY <1>2, <1>4, <2>1, <2>2, <3>1
  <2> QED
    BY <2>3, <2>4
<1>6. \A k \in 1 .. Len(u) - 1 : u[k].at \in u[k].left
  BY <1>2 DEF Good, n
<1>7. Good(p, r, <<>>, u, <<>>)
  BY <1>2, <1>3, <1>5, <1>6 DEF Good
<1>8. ASSUME f.at \in f.left, f.left \subseteq DOMAIN f.value.items
      PROVE  Good(p, r, <<f.value.items[f.at]>>, u, <<>>)
  <2>1. Owed(p, r, u, Len(u)) = Den(p, f.value.items[f.at])
    BY <1>2 DEF Owed
  <2>2. f.value.items[f.at] \in D!Values
    <3>1. f.value \in D!Values
      BY DEF FrameOK
    <3>2. f.value.items \in Seq(D!Values)
      BY <3>1, ValuesAssumption DEF D!FiniteTrees
    <3> QED
      BY <1>8, <3>2
  <2>3. Asked(u)
    BY <1>2, <1>8 DEF Asked
  <2> QED
    BY <1>2, <1>3, <1>5, <1>6, <2>1, <2>2, <2>3 DEF Good
<1> QED
  BY <1>2, <1>7, <1>8 DEF n


(* The hash of one more item of an unordered container flips its atoms. *)
LEMMA OneMoreItem ==
  ASSUME NEW p, NEW v, NEW I, IsFiniteSet(I), NEW j, j \notin I
  PROVE  OddAtoms(p, v, I \cup {j})
           = D!hash_invertible_combine(OddAtoms(p, v, I), Den(p, v.items[j]))
<1> DEFINE At(K, a) == {i \in K : a \in Den(p, v.items[i])}
           K == I \cup {j}
<1>1. ASSUME NEW a
      PROVE  Cardinality(At(K, a)) % 2 = 1
               <=> (Cardinality(At(I, a)) % 2 = 1 <=> a \notin Den(p, v.items[j]))
  <2>1. IsFiniteSet(At(I, a)) /\ j \notin At(I, a)
    BY FS_Subset
  <2>2. PICK c \in Nat : c = Cardinality(At(I, a))
    BY <2>1, FS_CardinalityType
  <2>3. CASE a \in Den(p, v.items[j])
    <3>1. At(K, a) = At(I, a) \cup {j}
      BY <2>3
    <3> HIDE DEF At, K
    <3>2. Cardinality(At(K, a)) = c + 1
      BY <2>1, <2>2, <3>1, FS_AddElement
    <3>3. (c + 1) % 2 = 1 <=> c % 2 # 1
      BY <2>2
    <3> QED
      BY <2>2, <2>3, <3>2, <3>3
  <2>4. CASE a \notin Den(p, v.items[j])
    <3>1. At(K, a) = At(I, a)
      BY <2>4
    <3>2. Cardinality(At(K, a)) = Cardinality(At(I, a))
      BY <3>1
    <3> HIDE DEF At, K
    <3> QED
      BY <2>4, <3>2
  <2> QED
    BY <2>3, <2>4
<1>2. ASSUME NEW L, L \in {I, K}
      PROVE  \A a : a \in OddAtoms(p, v, L) <=> Cardinality(At(L, a)) % 2 = 1
  <2> SUFFICES ASSUME NEW a
               PROVE  a \in OddAtoms(p, v, L) <=> Cardinality(At(L, a)) % 2 = 1
    OBVIOUS
  <2>1. a \notin UNION {Den(p, v.items[i]) : i \in L} => At(L, a) = {}
    OBVIOUS
  <2>2. Cardinality({}) % 2 # 1
    BY FS_EmptySet
  <2> QED
    BY <2>1, <2>2 DEF OddAtoms
<1>3. \A a : a \in OddAtoms(p, v, K) <=> (a \in OddAtoms(p, v, I) <=> a \notin Den(p, v.items[j]))
  <2> HIDE DEF At, K
  <2> QED
    BY <1>1, <1>2
<1> QED
  BY <1>3 DEF D!hash_invertible_combine, D!xor

(* The frame of a container to which the hash of the item it asked for is added. *)
Added(f, more) == [f EXCEPT !.left = @ \ {f.at}, !.at = 0, !.h = more]

IsOneMore(p, f, hash, more) ==
  /\ f.value.kind = "unordered" => more = D!hash_invertible_combine(f.h, hash)
  /\ f.value.kind = "ordered" => more = D!HashState_add(p, f.h, hash)
  /\ f.value.kind = "tuple" => more = Append(f.h, hash)

LEMMA ItemAdded ==
  ASSUME NEW p, NEW r, NEW a, NEW s, NEW t, Good(p, r, a, s, t), s # <<>>, t # <<>>,
         NEW f, f = s[Len(s)],
         NEW more, IsOneMore(p, f, t[1], more),
         NEW g, g = Added(f, more)
  PROVE  FrameOK(p, g) /\ g.value = f.value
<1> DEFINE v == f.value
           den == Den(p, v.items[f.at])
<1>1. PICK F : s \in Seq(F)
  BY DEF Good
<1>2. Len(s) \in 1 .. Len(s) /\ Len(s) # 0
  BY <1>1
<1>3. FrameOK(p, f) /\ f.at \in f.left /\ t[1] = den
  BY <1>2 DEF Good, Asked, Owed
<1>4. v \in D!Values /\ v.items \in Seq(D!Values) /\ f.left \subseteq DOMAIN v.items
  BY <1>3, ValuesAssumption DEF FrameOK, D!FiniteTrees
<1> HIDE DEF v, den
<1>5. /\ g = [value |-> g.value, left |-> g.left, at |-> g.at, h |-> g.h]
      /\ g.value = v /\ g.left = f.left \ {f.at} /\ g.at = 0 /\ g.h = more
      /\ v.kind = "unordered" => g.h = D!hash_invertible_combine(f.h, den)
      /\ v.kind = "ordered" => g.h = D!HashState_add(p, f.h, den)
      /\ v.kind = "tuple" => g.h = Append(f.h, den)
  <2>1. f = [value |-> f.value, left |-> f.left, at |-> f.at, h |-> f.h]
    BY <1>3 DEF FrameOK
  <2>2. g = [value |-> f.value, left |-> f.left \ {f.at}, at |-> 0, h |-> more]
    BY <2>1 DEF Added
  <2> QED
    BY <1>3, <2>2 DEF IsOneMore, v
<1>6. CASE v.kind = "unordered"
  <2> DEFINE I == DOMAIN v.items \ f.left
  <2>1. IsFiniteSet(I)
    <3>1. DOMAIN v.items = 1 .. Len(v.items) /\ Len(v.items) \in Nat
      BY <1>4
    <3>2. PICK n \in Nat : DOMAIN v.items = 1 .. n
      BY <3>1
    <3>3. IsFiniteSet(1 .. n)
      BY FS_Interval
    <3> QED
      BY <3>2, <3>3, FS_Subset
  <2>2. f.at \notin I /\ DOMAIN v.items \ g.left = I \cup {f.at}
    BY <1>3, <1>4, <1>5
  <2>3. f.h = OddAtoms(p, v, I)
    BY <1>3, <1>6 DEF FrameOK, v
  <2> HIDE DEF I
  <2>4. g.h = OddAtoms(p, v, DOMAIN v.items \ g.left)
    BY <1>5, <1>6, <2>1, <2>2, <2>3, OneMoreItem DEF den
  <2> QED
    BY <1>3, <1>4, <1>5, <1>6, <2>4 DEF FrameOK, v
<1>7. CASE v.kind # "unordered"
  <2>1. PICK k \in 0 .. Len(v.items) :
          /\ f.left = k + 1 .. Len(v.items)
          /\ f.h = SoFar(p, v, k)
          /\ f.at \in {0, k + 1}
    BY <1>3, <1>7 DEF FrameOK, v
  <2>2. Len(v.items) \in Nat
    BY <1>4
  <2>3. f.at = k + 1 /\ k + 1 \in 0 .. Len(v.items)
    <3>1. f.at \in k + 1 .. Len(v.items)
      BY <1>3, <2>1
    <3> QED
      BY <2>1, <2>2, <3>1
  <2>4. g.left = (k + 1) + 1 .. Len(v.items)
    BY <1>5, <2>1, <2>2, <2>3
  <2>5. g.h = SoFar(p, v, k + 1)
    <3>1. v.kind \in {"ordered", "tuple"} /\ p \in Policies
      BY <1>3, <1>7 DEF FrameOK, D!Container, v, Good
    <3>2. k \in Nat /\ k + 1 \in 1 .. Len(v.items) /\ den = Den(p, v.items[k + 1])
      BY <2>2, <2>3 DEF den
    <3>3. /\ v.kind = "ordered" => D!HashState_add(p, SoFar(p, v, k), den) = SoFar(p, v, k + 1)
          /\ v.kind = "tuple" => Append(SoFar(p, v, k), den) = SoFar(p, v, k + 1)
      BY <1>4, <3>1, <3>2, LoopCombines
    <3> QED
      BY <1>5, <2>1, <3>1, <3>3
  <2>6. \E m \in 0 .. Len(g.value.items) :
          /\ g.left = m + 1 .. Len(g.value.items)
          /\ g.h = SoFar(p, g.value, m)
          /\ g.at \in {0, m + 1}
    <3> DEFINE m == k + 1
    <3>1. m \in 0 .. Len(g.value.items) /\ g.left = m + 1 .. Len(g.value.items)
      BY <1>5, <2>3, <2>4
    <3>2. g.h = SoFar(p, g.value, m) /\ g.at \in {0, m + 1}
      BY <1>5, <2>5
    <3> HIDE DEF m
    <3> QED
      BY <3>1, <3>2
  <2>7. g.value \in D!Values /\ g.value.kind \in D!Container /\ g.value.kind # "unordered"
    BY <1>3, <1>5, <1>7 DEF FrameOK, v
  <2>8. g.left \subseteq DOMAIN g.value.items
    BY <1>4, <1>5
  <2> QED
    <3>1. g = [value |-> g.value, left |-> g.left, at |-> g.at, h |-> g.h]
      BY <1>5
    <3>2. g.value.kind = "unordered" =>
            g.h = OddAtoms(p, g.value, DOMAIN g.value.items \ g.left)
      BY <2>7
    <3>3. g.value = f.value
      BY <1>5 DEF v
    <3> QED
      BY <2>6, <2>7, <2>8, <3>1, <3>2, <3>3 DEF FrameOK
<1> QED
  BY <1>5, <1>6, <1>7 DEF v


LEMMA SameCardinality == \A S : D!Cardinality(S) = Cardinality(S)
  BY DEF D!Cardinality, Cardinality

LEMMA OddAtom ==
  ASSUME NEW hashes, NEW b
  PROVE  b \in D!Odd(hashes) <=>
           /\ b \in UNION D!Range(hashes)
           /\ Cardinality({i \in DOMAIN hashes : b \in hashes[i]}) % 2 = 1
  BY SameCardinality DEF D!Odd

(* A container whose items were all added returns its hash. *)
LEMMA ContainerReturns ==
  ASSUME NEW p, NEW r, NEW a, NEW s, NEW t, Good(p, r, a, s, t), s # <<>>,
         NEW f, f = s[Len(s)], f.left = {}
  PROVE  /\ Good(p, r, <<>>, D!Front(s), <<Den(p, f.value)>>)
         /\ f.value.kind = "unordered" => f.h = Den(p, f.value)
         /\ f.value.kind = "ordered" => D!HashState_digest(p, f.h) = Den(p, f.value)
         /\ f.value.kind = "tuple" => D!hash_combine(p, f.h) = Den(p, f.value)
<1> DEFINE n == Len(s)
           u == D!Front(s)
           v == f.value
<1>1. PICK F : s \in Seq(F)
  BY DEF Good
<1>2. /\ u \in Seq(F) /\ Len(u) = n - 1 /\ n \in Nat \ {0}
      /\ \A k \in 1 .. n - 1 : u[k] = s[k]
  <2>1. n \in Nat \ {0}
    BY <1>1
  <2>2. u = SubSeq(s, 1, n - 1)
    BY DEF D!Front
  <2> HIDE DEF u
  <2>3. \A i \in 1 .. n - 1 : s[i] \in F
    BY <1>1
  <2> HIDE DEF n
  <2>4. 1 \in Int /\ n - 1 \in Int
    BY <2>1
  <2>5. /\ u \in Seq(F) /\ Len(u) = IF 1 <= n - 1 THEN (n - 1) - 1 + 1 ELSE 0
        /\ \A i \in 1 .. (n - 1) - 1 + 1 : u[i] = s[1 + i - 1]
    BY <2>2, <2>3, <2>4, SubSeqProperties
  <2>6. Len(u) = n - 1
    BY <2>1, <2>5
  <2>7. \A k \in 1 .. n - 1 : k \in 1 .. (n - 1) - 1 + 1 /\ 1 + k - 1 = k
    BY <2>1
  <2> QED
    BY <2>1, <2>5, <2>6, <2>7
<1>3. /\ FrameOK(p, f) /\ Den(p, v) = Owed(p, r, s, n - 1) /\ p \in Policies /\ r \in D!Values
      /\ \A k \in 1 .. n - 1 : s[k].at \in s[k].left
      /\ \A k \in 1 .. n : FrameOK(p, s[k]) /\ Den(p, s[k].value) = Owed(p, r, s, k - 1)
  BY <1>2 DEF Good
<1> HIDE DEF n, u, v
<1>4. \A k \in 0 .. n - 1 : Owed(p, r, u, k) = Owed(p, r, s, k)
  BY <1>2 DEF Owed
<1>5. ASSUME NEW k \in 1 .. Len(u)
      PROVE  FrameOK(p, u[k]) /\ Den(p, u[k].value) = Owed(p, r, u, k - 1)
  <2>1. k \in 1 .. n - 1 /\ k \in 1 .. n /\ k - 1 \in 0 .. n - 1
    BY <1>2
  <2> QED
    BY <1>2, <1>3, <1>4, <2>1
<1>6. \A k \in 1 .. Len(u) - 1 : u[k].at \in u[k].left
  BY <1>2, <1>3
<1>7. Asked(u)
  <2>1. u # <<>> => Len(u) \in 1 .. n - 1
    BY <1>2
  <2> QED
    BY <1>2, <1>3, <2>1 DEF Asked
<1>8. Owed(p, r, u, Len(u)) = Den(p, v)
  <2>1. Len(u) = n - 1 /\ n - 1 \in 0 .. n - 1
    BY <1>2
  <2> QED
    BY <1>3, <1>4, <2>1
<1>9. Good(p, r, <<>>, u, <<Den(p, v)>>)
  BY <1>2, <1>3, <1>5, <1>6, <1>7, <1>8 DEF Good
<1>10. v \in D!Values /\ v.items \in Seq(D!Values) /\ v = f.value
  BY <1>3, ValuesAssumption DEF FrameOK, D!FiniteTrees, v
<1>11. Den(p, v) = D!Combined(p, v, ItemHashes(p, v))
  BY <1>3, <1>10, DenotationEquation DEF Den
<1>12. ASSUME v.kind = "unordered" PROVE f.h = Den(p, v)
  <2>1. f.h = OddAtoms(p, v, DOMAIN v.items \ {})
    BY <1>3, <1>10, <1>12 DEF FrameOK
  <2>2. DOMAIN v.items \ {} = DOMAIN v.items
    OBVIOUS
  <2> DEFINE hashes == ItemHashes(p, v)
  <2>3. DOMAIN hashes = DOMAIN v.items /\ \A i \in DOMAIN v.items : hashes[i] = Den(p, v.items[i])
    BY DEF ItemHashes, Den
  <2> HIDE DEF hashes
  <2>4. D!Combined(p, v, hashes) = D!Odd(hashes)
    BY <1>12 DEF D!Combined, D!Fundamental
  <2>5. UNION D!Range(hashes) = UNION {Den(p, v.items[i]) : i \in DOMAIN v.items}
    BY <2>3 DEF D!Range
  <2>6. \A b : {i \in DOMAIN hashes : b \in hashes[i]}
                 = {i \in DOMAIN v.items : b \in Den(p, v.items[i])}
    BY <2>3
  <2>7. D!Combined(p, v, hashes) = OddAtoms(p, v, DOMAIN v.items)
    <3>1. \A b : b \in D!Odd(hashes) <=>
                 /\ b \in UNION D!Range(hashes)
                 /\ Cardinality({i \in DOMAIN hashes : b \in hashes[i]}) % 2 = 1
      BY OddAtom
    <3>2. \A b : b \in OddAtoms(p, v, DOMAIN v.items) <=>
                 /\ b \in UNION {Den(p, v.items[i]) : i \in DOMAIN v.items}
                 /\ Cardinality({i \in DOMAIN v.items : b \in Den(p, v.items[i])}) % 2 = 1
      BY DEF OddAtoms
    <3>3. \A b : b \in D!Odd(hashes) <=> b \in OddAtoms(p, v, DOMAIN v.items)
      BY <2>5, <2>6, <3>1, <3>2
    <3>4. D!Odd(hashes) = OddAtoms(p, v, DOMAIN v.items)
      BY <3>3
    <3> QED
      BY <2>4, <3>4
  <2> QED
    BY <1>11, <2>1, <2>2, <2>7 DEF hashes
<1>13. ASSUME v.kind \in {"ordered", "tuple"}
       PROVE  /\ v.kind = "ordered" => D!HashState_digest(p, f.h) = Den(p, v)
              /\ v.kind = "tuple" => D!hash_combine(p, f.h) = Den(p, v)
  <2>1. PICK k \in 0 .. Len(v.items) :
          k + 1 .. Len(v.items) = {} /\ f.h = SoFar(p, v, k)
    BY <1>3, <1>10, <1>13 DEF FrameOK
  <2>2. Len(v.items) \in Nat
    BY <1>10
  <2>3. k = Len(v.items)
    <3>1. k \in Nat /\ k <= Len(v.items) /\ k + 1 .. Len(v.items) = {}
      BY <2>1, <2>2
    <3>2. k < Len(v.items) => k + 1 \in k + 1 .. Len(v.items)
      BY <2>2, <3>1
    <3> QED
      BY <2>2, <3>1, <3>2
  <2> QED
    BY <1>3, <1>10, <1>13, <2>1, <2>3, LoopCombines
<1> QED
  BY <1>9, <1>10, <1>12, <1>13 DEF u

-----------------------------------------------------------------------------
CallInv == Good(policy, root, arg, stack, ret)

(* A call that returns at once has the hash of its argument. *)
LEMMA LeafReturns ==
  ASSUME CallInv, arg # <<>>, D!Returns(Den(policy, arg[1])), UNCHANGED <<policy, root, stack>>
  PROVE  CallInv'
<1>1. Good(policy, root, <<>>, stack, <<Den(policy, arg[1])>>)
  BY CallBegins DEF CallInv
<1> QED
  BY <1>1 DEF CallInv, D!Returns

LEMMA CallStep ==
  ASSUME CallInv, D!Next
  PROVE  CallInv' /\ policy' = policy /\ root' = root
<1> DEFINE v == arg[1]
           top == stack[Len(stack)]
<1>1. ASSUME arg # <<>>
      PROVE  /\ v \in D!Values /\ v.items \in Seq(D!Values) /\ policy \in Policies
             /\ v.kind = "monostate" => v.items = <<>>
             /\ Den(policy, v) = D!Combined(policy, v, ItemHashes(policy, v))
             /\ DOMAIN ItemHashes(policy, v) = DOMAIN v.items
             /\ \A i \in DOMAIN v.items : ItemHashes(policy, v)[i] = Den(policy, v.items[i])
  <2>1. v \in D!Values /\ policy \in Policies
    BY <1>1, CallBegins DEF CallInv
  <2>2. v.items \in Seq(D!Values) /\ (v.kind = "monostate" => v.items = <<>>)
    BY <2>1, ValuesAssumption DEF D!FiniteTrees, D!Holder, D!Container
  <2> QED
    BY <2>1, <2>2, DenotationEquation DEF Den, ItemHashes
<1>2. CASE D!dice_hash_fundamental
  <2>1. arg # <<>> /\ v.kind \in D!Fundamental
    BY <1>2 DEF D!dice_hash_fundamental, D!Begins
  <2>2. Den(policy, v) = D!hash_fundamental(policy, v.kind, v.data)
    BY <1>1, <2>1 DEF D!Combined, D!Fundamental
  <2> QED
    BY <1>2, <2>1, <2>2, LeafReturns DEF D!dice_hash_fundamental
<1>3. CASE D!dice_hash_bytes
  <2>1. arg # <<>> /\ v.kind = "bytes"
    BY <1>3 DEF D!dice_hash_bytes, D!Begins
  <2>2. Den(policy, v) = D!hash_bytes(v.data)
    BY <1>1, <2>1 DEF D!Combined, D!Fundamental
  <2> QED
    BY <1>3, <2>1, <2>2, LeafReturns DEF D!dice_hash_bytes
<1>4. CASE D!dice_hash_error
  <2>1. arg # <<>> /\ v.kind \in {"monostate", "variant"} /\ v.items = <<>>
    BY <1>1, <1>4 DEF D!dice_hash_error, D!Begins
  <2>2. Den(policy, v) = D!ErrorValue
    BY <1>1, <2>1 DEF D!Combined, D!Fundamental
  <2> QED
    BY <1>4, <2>1, <2>2, LeafReturns DEF D!dice_hash_error
<1>5. CASE D!dice_hash_held
  <2>1. arg # <<>> /\ v.kind \in D!Holder /\ v.items # <<>>
    BY <1>5 DEF D!dice_hash_held, D!Begins
  <2>2. Den(policy, v) = ItemHashes(policy, v)[1]
    BY <1>1, <2>1 DEF D!Combined, D!Fundamental, D!Holder
  <2>3. 1 \in DOMAIN v.items /\ v.items[1] \in D!Values
    BY <1>1, <2>1
  <2>4. Good(policy, root, <<v.items[1]>>, stack, <<>>) /\ ret = <<>>
    <3>1. Den(policy, v.items[1]) = Den(policy, v)
      BY <1>1, <2>1, <2>2, <2>3
    <3> HIDE DEF v
    <3>2. ret = <<>> /\ \A w \in D!Values : Den(policy, w) = Den(policy, v)
                         => Good(policy, root, <<w>>, stack, <<>>)
      BY <2>1, CallBegins DEF CallInv, v
    <3> QED
      BY <2>3, <3>1, <3>2
  <2> QED
    BY <1>5, <2>4 DEF D!dice_hash_held, CallInv
<1>6. CASE D!dice_hash_container
  <2>1. arg # <<>> /\ v.kind \in D!Container
    BY <1>6 DEF D!dice_hash_container, D!Begins
  <2> DEFINE f == [value |-> v, left |-> DOMAIN v.items, at |-> 0, h |-> D!NoItems(v)]
  <2>2. /\ v.kind = "unordered" => D!NoItems(v) = {}
        /\ v.kind # "unordered" => D!NoItems(v) = SoFar(policy, v, 0)
    BY <1>1, <2>1, LoopCombines DEF D!NoItems, D!Container
  <2>3. Good(policy, root, <<>>, Append(stack, f), ret)
    BY <2>1, <2>2, ContainerBegins DEF CallInv
  <2> QED
    BY <1>6, <2>3 DEF D!dice_hash_container, CallInv
<1>7. ASSUME NEW i \in IF D!Waits THEN D!Top.left ELSE {}, D!next_item(i)
      PROVE  CallInv' /\ policy' = policy /\ root' = root
  <2> DEFINE g == [top EXCEPT !.at = i]
  <2>1. /\ stack # <<>> /\ arg = <<>> /\ ret = <<>> /\ i \in top.left
        /\ top.value.kind # "unordered" => \A j \in top.left : i <= j
        /\ stack' = [stack EXCEPT ![Len(stack)] = g]
        /\ arg' = <<top.value.items[i]>> /\ UNCHANGED <<policy, root, ret>>
    BY <1>7 DEF D!next_item, D!Waits, D!Top
  <2>2. FrameOK(policy, top)
    <3>1. PICK F : stack \in Seq(F)
      BY DEF CallInv, Good
    <3>2. Len(stack) \in 1 .. Len(stack)
      BY <2>1, <3>1
    <3> QED
      BY <3>2 DEF CallInv, Good
  <2> HIDE DEF top
  <2>3. /\ g = [value |-> g.value, left |-> g.left, at |-> g.at, h |-> g.h]
        /\ g.value = top.value /\ g.left = top.left /\ g.at = i /\ g.h = top.h
    BY <2>2 DEF FrameOK
  <2>4. g.left \subseteq DOMAIN g.value.items
    BY <2>2, <2>3 DEF FrameOK
  <2> HIDE DEF g
  <2>5. FrameOK(policy, g)
    <3>1. CASE top.value.kind = "unordered"
      BY <2>2, <2>3, <3>1 DEF FrameOK
    <3>2. CASE top.value.kind # "unordered"
      <4>1. PICK k \in 0 .. Len(top.value.items) :
              /\ top.left = k + 1 .. Len(top.value.items)
              /\ top.h = SoFar(policy, top.value, k)
        BY <2>2, <3>2 DEF FrameOK
      <4>2. Len(top.value.items) \in Nat
        BY <2>2, ValuesAssumption DEF FrameOK, D!FiniteTrees
      <4>3. i = k + 1
        <5>1. i \in k + 1 .. Len(top.value.items)
          BY <2>1, <4>1
        <5>2. k \in Nat /\ i \in Nat /\ k + 1 <= i
          BY <4>2, <5>1
        <5>3. k + 1 \in top.left
          BY <4>1, <4>2, <5>1, <5>2
        <5>4. i <= k + 1
          BY <2>1, <3>2, <5>3
        <5> QED
          BY <5>2, <5>4
      <4> QED
        BY <2>2, <2>3, <3>2, <4>1, <4>3 DEF FrameOK
    <3> QED
      BY <3>1, <3>2
  <2>6. Good(policy, root, <<>>, stack, ret)
    BY <2>1 DEF CallInv
  <2>7. Good(policy, root, <<top.value.items[i]>>, stack', <<>>)
    BY <2>1, <2>3, <2>4, <2>5, <2>6, TopChanges DEF top
  <2> QED
    BY <2>1, <2>7 DEF CallInv
<1>8. CASE D!add_item
  <2> DEFINE more == D!OneMore(top.value.kind, top.h, ret[1])
             g == Added(top, more)
  <2>0. IsOneMore(policy, top, ret[1], more)
    BY DEF IsOneMore, D!OneMore
  <2>1. /\ stack # <<>> /\ arg = <<>> /\ ret # <<>> /\ ret' = <<>>
        /\ stack' = [stack EXCEPT ![Len(stack)] = g]
        /\ UNCHANGED <<policy, root, arg>>
    BY <1>8 DEF D!add_item, D!Waits, D!Top, Added
  <2>2. Good(policy, root, <<>>, stack, ret)
    BY <2>1 DEF CallInv
  <2>3. top = stack[Len(stack)] /\ g = Added(top, more)
    OBVIOUS
  <2> HIDE DEF g, top, more
  <2>4. FrameOK(policy, g) /\ g.value = top.value
    BY <2>0, <2>1, <2>2, <2>3, ItemAdded
  <2>5. Good(policy, root, <<>>, stack', <<>>)
    BY <2>1, <2>2, <2>3, <2>4, TopChanges
  <2> QED
    BY <2>1, <2>5 DEF CallInv
<1>9. CASE D!container_return
  <2>1. /\ stack # <<>> /\ arg = <<>> /\ ret = <<>> /\ top.left = {}
        /\ arg' = <<>> /\ ret' = <<D!Digest(top)>> /\ stack' = D!Front(stack)
        /\ UNCHANGED <<policy, root>>
    BY <1>9 DEF D!container_return, D!Waits, D!Top, D!Returns
  <2>2. top.value.kind \in D!Container
    <3>1. PICK F : stack \in Seq(F)
      BY DEF CallInv, Good
    <3>2. Len(stack) \in 1 .. Len(stack)
      BY <2>1, <3>1
    <3> QED
      BY <3>2 DEF CallInv, Good, FrameOK
  <2>3. /\ Good(policy, root, <<>>, D!Front(stack), <<Den(policy, top.value)>>)
        /\ top.value.kind = "unordered" => top.h = Den(policy, top.value)
        /\ top.value.kind = "ordered" => D!HashState_digest(policy, top.h) = Den(policy, top.value)
        /\ top.value.kind = "tuple" => D!hash_combine(policy, top.h) = Den(policy, top.value)
    BY <2>1, ContainerReturns DEF CallInv
  <2> HIDE DEF top
  <2>4. D!Digest(top) = Den(policy, top.value)
    BY <2>2, <2>3 DEF D!Digest, D!Container
  <2> QED
    BY <2>1, <2>3, <2>4 DEF CallInv
<1> QED
  <2>1. CASE D!dice_hash_fundamental \/ D!dice_hash_bytes \/ D!dice_hash_error
             \/ D!dice_hash_held \/ D!dice_hash_container \/ D!add_item \/ D!container_return
    <3>1. CallInv'
      BY <2>1, <1>2, <1>3, <1>4, <1>5, <1>6, <1>8, <1>9
    <3>2. policy' = policy /\ root' = root
      BY <2>1 DEF D!dice_hash_fundamental, D!dice_hash_bytes, D!dice_hash_error,
           D!dice_hash_held, D!dice_hash_container, D!add_item, D!container_return
    <3> QED
      BY <3>1, <3>2
  <2> QED
    BY <1>7, <2>1 DEF D!Next


-----------------------------------------------------------------------------
(* Values that no policy merges with others.                                 *)

Unmerged(p, v) == ~D!Merged[<<p, v>>]

(* A hash of one atom, of one that is not a state of a policy's loop, of one that is. *)
One(hash) == \E a : hash = {a}

Plain(hash) == \E a : hash = {a} /\ a.op \in {"bytes", "integer"}

Stately(hash) == \E a : hash = {a} /\ a.op \in {"seed", "mix", "size", "round"}

LEMMA AtomOp ==
  ASSUME NEW op, NEW data, NEW args
  PROVE  \E a : D!Atom(op, data, args) = {a} /\ a.op = op
<1> DEFINE a == [op |-> op, data |-> data, args |-> args]
<1>1. D!Atom(op, data, args) = {a} /\ a.op = op
  BY DEF D!Atom
<1> QED
  BY <1>1

LEMMA SameAtom ==
  ASSUME NEW op, NEW data, NEW args, NEW op2, NEW data2, NEW args2,
         D!Atom(op, data, args) = D!Atom(op2, data2, args2)
  PROVE  op = op2 /\ data = data2 /\ args = args2
<1> DEFINE a == [op |-> op, data |-> data, args |-> args]
           b == [op |-> op2, data |-> data2, args |-> args2]
<1>1. D!Atom(op, data, args) = {a} /\ D!Atom(op2, data2, args2) = {b}
  BY DEF D!Atom
<1>2. /\ a.op = op /\ a.data = data /\ a.args = args
      /\ b.op = op2 /\ b.data = data2 /\ b.args = args2
  OBVIOUS
<1> HIDE DEF a, b
<1>3. a = b
  BY <1>1
<1> QED
  BY <1>2, <1>3

LEMMA ItemFacts ==
  ASSUME NEW p \in Policies, NEW v \in D!Values, Unmerged(p, v)
  PROVE  /\ ~D!MergesItems(p, v)
         /\ v.items \in Seq(D!Values) /\ Len(v.items) \in Nat
         /\ DOMAIN v.items = 1 .. Len(v.items)
         /\ \A i \in DOMAIN v.items :
              /\ v.items[i] \in D!Values /\ Unmerged(p, v.items[i])
              /\ Depth(v.items[i]) < Depth(v)
<1>1. v.items \in Seq(D!Values) /\ \A i \in DOMAIN v.items : Depth(v.items[i]) < Depth(v)
  BY ValuesAssumption DEF D!FiniteTrees
<1>2. Len(v.items) \in Nat /\ DOMAIN v.items = 1 .. Len(v.items)
  BY <1>1
<1>3. \A i \in DOMAIN v.items : v.items[i] \in D!Values
  BY <1>1
<1>4. ~D!MergesItems(p, v) /\ \A i \in DOMAIN v.items : Unmerged(p, v.items[i])
  BY MergedEquation DEF Unmerged
<1> QED
  BY <1>1, <1>2, <1>3, <1>4

(* What a loop may be told to mix in: wyhash needs hashes that are no states. *)
Mixable(p, hash) == p = "wyhash" => Plain(hash)

(* wyhash mixes a hash other than 0 by an operation without an order. *)
LEMMA MixPlain ==
  ASSUME NEW p, p = "wyhash", NEW s, NEW hash, Stately(s), Mixable(p, hash)
  PROVE  MixInto(p, s, hash) = D!Atom("mix", <<>>, {<<s, hash>>, <<hash, s>>})
<1>1. s # {} /\ hash # {}
  BY DEF Stately, Plain, Mixable
<1> QED
  BY <1>1 DEF D!_wymix, MixInto

(* Mixing a hash into a state gives a state, and none that a loop starts from. *)
LEMMA MixStately ==
  ASSUME NEW p, NEW s, NEW hash, Stately(s), Mixable(p, hash)
  PROVE  Stately(MixInto(p, s, hash))
<1>1. CASE p = "wyhash"
  <2> DEFINE args_ == {<<s, hash>>, <<hash, s>>}
  <2>1. MixInto(p, s, hash) = D!Atom("mix", <<>>, args_)
    BY <1>1, MixPlain
  <2> HIDE DEF args_
  <2>2. \E a : D!Atom("mix", <<>>, args_) = {a} /\ a.op = "mix"
    BY AtomOp
  <2> QED
    BY <2>1, <2>2 DEF Stately
<1>2. CASE p # "wyhash"
  <2> DEFINE args_ == {<<s, hash>>}
  <2>1. MixInto(p, s, hash) = D!Atom("round", <<>>, args_)
    BY <1>2 DEF D!mix_in, MixInto
  <2> HIDE DEF args_
  <2>2. \E a : D!Atom("round", <<>>, args_) = {a} /\ a.op = "round"
    BY AtomOp
  <2> QED
    BY <2>1, <2>2 DEF Stately
<1> QED
  BY <1>1, <1>2

LEMMA MixNotStart ==
  ASSUME NEW p, NEW s, NEW hash, Stately(s), Mixable(p, hash), NEW w
  PROVE  MixInto(p, s, hash) # Start(p, w)
<1>1. CASE p = "wyhash"
  <2> DEFINE args_ == {<<s, hash>>, <<hash, s>>}
  <2>1. MixInto(p, s, hash) = D!Atom("mix", <<>>, args_)
    BY <1>1, MixPlain
  <2> HIDE DEF args_
  <2>2. D!Atom("mix", <<>>, args_) # D!Atom("seed", <<>>, {})
    BY SameAtom
  <2> QED
    BY <1>1, <2>1, <2>2 DEF Start, D!ErrorValue
<1>2. CASE p # "wyhash"
  <2> DEFINE args_ == {<<s, hash>>}
             size_ == <<Len(w)>>
             none_ == {<<>>}
  <2>1. MixInto(p, s, hash) = D!Atom("round", <<>>, args_)
    BY <1>2 DEF MixInto, D!mix_in
  <2>2. Start(p, w) = D!Atom("size", size_, none_)
    BY <1>2 DEF Start, D!seed_size
  <2> HIDE DEF args_, size_, none_
  <2>3. D!Atom("round", <<>>, args_) # D!Atom("size", size_, none_)
    BY SameAtom
  <2> QED
    BY <2>1, <2>2, <2>3
<1> QED
  BY <1>1, <1>2

(* What was mixed can be told from the result: no state of wyhash is a plain
   hash, and Martinus does not treat both alike.                            *)
LEMMA MixApart ==
  ASSUME NEW p, NEW s, NEW hash, Stately(s), Mixable(p, hash),
         NEW t, NEW other, Stately(t), Mixable(p, other),
         MixInto(p, s, hash) = MixInto(p, t, other)
  PROVE  s = t /\ hash = other
<1>1. CASE p = "wyhash"
  <2>1. D!Atom("mix", <<>>, {<<s, hash>>, <<hash, s>>})
          = D!Atom("mix", <<>>, {<<t, other>>, <<other, t>>})
    <3>1. MixInto(p, s, hash) = D!Atom("mix", <<>>, {<<s, hash>>, <<hash, s>>})
      BY <1>1, MixPlain
    <3>2. MixInto(p, t, other) = D!Atom("mix", <<>>, {<<t, other>>, <<other, t>>})
      BY <1>1, MixPlain
    <3> QED
      BY <3>1, <3>2
  <2>2. {<<s, hash>>, <<hash, s>>} = {<<t, other>>, <<other, t>>}
    BY <2>1, SameAtom
  <2>3. s # other
    BY <1>1 DEF Stately, Plain, Mixable
  <2>4. <<s, hash>> = <<t, other>> \/ <<s, hash>> = <<other, t>>
    BY <2>2
  <2> QED
    BY <2>3, <2>4
<1>2. CASE p # "wyhash"
  <2>1. D!Atom("round", <<>>, {<<s, hash>>}) = D!Atom("round", <<>>, {<<t, other>>})
    <3>1. MixInto(p, s, hash) = D!Atom("round", <<>>, {<<s, hash>>})
      BY <1>2 DEF MixInto, D!mix_in
    <3>2. MixInto(p, t, other) = D!Atom("round", <<>>, {<<t, other>>})
      BY <1>2 DEF MixInto, D!mix_in
    <3> QED
      BY <3>1, <3>2
  <2>2. {<<s, hash>>} = {<<t, other>>}
    BY <2>1, SameAtom
  <2>3. <<s, hash>> = <<t, other>>
    BY <2>2
  <2> QED
    BY <2>3
<1> QED
  BY <1>1, <1>2

LEMMA MixedStately ==
  ASSUME NEW p, NEW n \in Nat, NEW w, DOMAIN w = 1 .. n, \A i \in 1 .. n : Mixable(p, w[i])
  PROVE  \A k \in 0 .. n : Stately(Mixed(p, w)[1 .. k])
<1> DEFINE g(k) == Mixed(p, w)[1 .. k]
           N == {k \in Nat : k <= n => Stately(g(k))}
<1>0. MixesAlong(p, w, n)
  BY MixedPrefix
<1>1. 0 \in N
  <2>1. g(0) = Start(p, w)
    BY <1>0 DEF MixesAlong
  <2> HIDE DEF g
  <2>2. Start(p, w) \in {D!Atom("seed", <<>>, {}), D!Atom("size", <<Len(w)>>, {<<>>})}
    BY DEF Start, D!ErrorValue, D!seed_size
  <2> DEFINE size_ == <<Len(w)>>
             args_ == {<<>>}
  <2>3. /\ \E a : D!Atom("seed", <<>>, {}) = {a} /\ a.op = "seed"
        /\ \E a : D!Atom("size", size_, args_) = {a} /\ a.op = "size"
    <3> HIDE DEF size_, args_
    <3> QED
      BY AtomOp
  <2>4. Stately(g(0))
    BY <2>1, <2>2, <2>3 DEF Stately
  <2> QED
    BY <2>4
<1>2. ASSUME NEW k \in Nat, k \in N PROVE k + 1 \in N
  <2> SUFFICES ASSUME k + 1 <= n PROVE Stately(g(k + 1))
    OBVIOUS
  <2>1. k + 1 \in 1 .. n /\ (k + 1) - 1 = k
    OBVIOUS
  <2>2. g(k + 1) = MixInto(p, g(k), w[k + 1])
    BY <1>0, <2>1 DEF MixesAlong
  <2>3. Stately(g(k)) /\ Mixable(p, w[k + 1])
    BY <1>2, <2>1
  <2> HIDE DEF g
  <2> QED
    BY <2>2, <2>3, MixStately
<1>3. Nat \subseteq N
  <2> HIDE DEF N
  <2> QED
    BY <1>1, <1>2, NatSetInduction
<1>4. ASSUME NEW k \in 0 .. n PROVE Stately(g(k))
  <2>1. k \in N /\ k <= n
    BY <1>3
  <2> HIDE DEF g
  <2> QED
    BY <2>1
<1> QED
  BY <1>4

(* Different sequences of hashes, of one length or not, leave different states. *)
LEMMA LoopsApart ==
  ASSUME NEW p,
         NEW n \in Nat, NEW w, DOMAIN w = 1 .. n, \A i \in 1 .. n : Mixable(p, w[i]),
         NEW m \in Nat, NEW x, DOMAIN x = 1 .. m, \A i \in 1 .. m : Mixable(p, x[i]),
         Mixed(p, w)[DOMAIN w] = Mixed(p, x)[DOMAIN x]
  PROVE  n = m /\ \A i \in 1 .. n : w[i] = x[i]
<1> DEFINE g(k) == Mixed(p, w)[1 .. k]
           h_(k) == Mixed(p, x)[1 .. k]
           N == {k \in Nat : k <= n => \A j \in 0 .. m : g(k) = h_(j) =>
                               k = j /\ \A i \in 1 .. k : w[i] = x[i]}
<1>1. /\ \A k \in 0 .. n : Stately(g(k))
      /\ \A k \in 0 .. m : Stately(h_(k))
  BY MixedStately
<1>2. /\ g(0) = Start(p, w) /\ h_(0) = Start(p, x)
      /\ \A k \in 1 .. n : g(k) = MixInto(p, g(k - 1), w[k])
      /\ \A k \in 1 .. m : h_(k) = MixInto(p, h_(k - 1), x[k])
  <2>1. MixesAlong(p, w, n) /\ MixesAlong(p, x, m)
    BY MixedPrefix
  <2> QED
    BY <2>1 DEF MixesAlong
<1>3. g(n) = h_(m)
  OBVIOUS
<1> HIDE DEF g, h_
<1>4. /\ \A k \in 1 .. n : g(k) # Start(p, x)
      /\ \A k \in 1 .. m : h_(k) # Start(p, w)
  <2>1. ASSUME NEW k \in 1 .. n PROVE g(k) # Start(p, x)
    <3>1. k - 1 \in 0 .. n
      OBVIOUS
    <3> QED
      BY <1>1, <1>2, <3>1, MixNotStart
  <2>2. ASSUME NEW k \in 1 .. m PROVE h_(k) # Start(p, w)
    <3>1. k - 1 \in 0 .. m
      OBVIOUS
    <3> QED
      BY <1>1, <1>2, <3>1, MixNotStart
  <2> QED
    BY <2>1, <2>2
<1>5. 0 \in N
  <2>1. \A j \in 0 .. m : g(0) = h_(j) => j = 0
    <3>1. \A j \in 0 .. m : j # 0 => j \in 1 .. m
      OBVIOUS
    <3> QED
      BY <1>2, <1>4, <3>1
  <2> QED
    BY <2>1
<1>6. ASSUME NEW k \in Nat, k \in N PROVE k + 1 \in N
  <2> SUFFICES ASSUME k + 1 <= n, NEW j \in 0 .. m, g(k + 1) = h_(j)
               PROVE  k + 1 = j /\ \A i \in 1 .. k + 1 : w[i] = x[i]
    OBVIOUS
  <2>1. k + 1 \in 1 .. n /\ (k + 1) - 1 = k /\ k \in 0 .. n
    OBVIOUS
  <2>2. j # 0
    BY <1>2, <1>4, <2>1
  <2>3. j \in 1 .. m /\ j - 1 \in 0 .. m
    BY <2>2
  <2>4. MixInto(p, g(k), w[k + 1]) = MixInto(p, h_(j - 1), x[j])
    BY <1>2, <2>1, <2>3
  <2>5. g(k) = h_(j - 1) /\ w[k + 1] = x[j]
    BY <1>1, <2>1, <2>3, <2>4, MixApart
  <2>6. k = j - 1 /\ \A i \in 1 .. k : w[i] = x[i]
    BY <1>6, <2>3, <2>5
  <2>7. k + 1 = j /\ \A i \in 1 .. k + 1 : i \in 1 .. k \/ i = k + 1
    BY <2>6
  <2> QED
    BY <2>5, <2>6, <2>7
<1>7. n \in N
  <2> HIDE DEF N
  <2> QED
    BY <1>5, <1>6, NatSetInduction
<1>8. n <= n /\ m \in 0 .. m
  OBVIOUS
<1> QED
  BY <1>3, <1>7, <1>8

(* What an unmerged value is: its kind, and the shape of its hash by kind.   *)
LEMMA HashFacts ==
  ASSUME NEW p \in Policies, NEW v \in D!Values, Unmerged(p, v)
  PROVE  /\ v.kind \in D!Fundamental \cup {"bytes", "smart pointer", "overload"} \cup D!Container
         /\ v.kind \in D!Fundamental \cup {"bytes"} =>
              D!HeldKind(v) = v.kind /\ (D!Vanishes(p, v) \/ Plain(Den(p, v)))
         /\ v.kind \in {"smart pointer", "overload"} =>
              /\ Len(v.items) = 1 /\ 1 \in DOMAIN v.items
              /\ D!HeldKind(v) = D!HeldKind(v.items[1])
              /\ D!Vanishes(p, v) <=> D!Vanishes(p, v.items[1])
              /\ Den(p, v) = Den(p, v.items[1])
         /\ v.kind \in {"ordered", "tuple"} =>
              D!HeldKind(v) = v.kind /\ Den(p, v) = D!hash_combine(p, ItemHashes(p, v))
         /\ v.kind = "unordered" =>
              D!HeldKind(v) = v.kind /\ Den(p, v) = D!Odd(ItemHashes(p, v))
<1>1. Den(p, v) = D!Combined(p, v, ItemHashes(p, v))
  BY DenotationEquation DEF Den
<1>2. /\ v.kind \notin D!Holder => D!HeldKind(v) = v.kind /\ D!Held[v] = v
      /\ v.kind \in D!Holder /\ v.items # <<>> =>
           /\ D!HeldKind(v) = D!HeldKind(v.items[1])
           /\ D!Vanishes(p, v) <=> D!Vanishes(p, v.items[1])
  BY HeldKindEquation
<1>3. v.kind \in D!Fundamental \cup D!Holder \cup D!Container \cup {"bytes", "monostate"}
  BY ValuesAssumption DEF D!FiniteTrees
<1>4. v.kind \notin {"variant", "monostate"}
  BY ItemFacts DEF D!MergesItems
<1>5. v.kind \in D!Fundamental \cup {"bytes", "smart pointer", "overload"} \cup D!Container
  BY <1>3, <1>4 DEF D!Holder
<1>6. ASSUME v.kind \in D!Fundamental \cup {"bytes"}
      PROVE  D!HeldKind(v) = v.kind /\ (D!Vanishes(p, v) \/ Plain(Den(p, v)))
  <2>1. D!HeldKind(v) = v.kind /\ D!Held[v] = v
    BY <1>2, <1>6 DEF D!Fundamental, D!Holder
  <2>2. ASSUME ~D!Vanishes(p, v) PROVE Plain(Den(p, v))
    <3>1. v.kind \in D!Fundamental => ~D!IsHashedToZero(p, v.kind, v.data)
      BY <2>1, <2>2 DEF D!Vanishes
    <3>2. \/ \E data, args : Den(p, v) = D!Atom("bytes", data, args)
          \/ \E data, args : Den(p, v) = D!Atom("integer", data, args)
      BY <1>1, <1>6, <3>1 DEF D!Combined, D!Fundamental, D!hash_fundamental, D!hash_bytes
    <3> QED
      BY <3>2, AtomOp DEF Plain
  <2> QED
    BY <2>1, <2>2
<1>7. ASSUME v.kind \in {"smart pointer", "overload"}
      PROVE  /\ Len(v.items) = 1 /\ 1 \in DOMAIN v.items
             /\ D!HeldKind(v) = D!HeldKind(v.items[1])
             /\ D!Vanishes(p, v) <=> D!Vanishes(p, v.items[1])
             /\ Den(p, v) = Den(p, v.items[1])
  <2>1. Len(v.items) = 1
    BY <1>7, TypesAssumption DEF D!WellTyped, D!Values
  <2>2. 1 \in DOMAIN v.items /\ v.items # <<>>
    BY <2>1, ItemFacts
  <2>3. ItemHashes(p, v)[1] = Den(p, v.items[1])
    BY <2>2 DEF ItemHashes, Den
  <2>4. D!Combined(p, v, ItemHashes(p, v)) = ItemHashes(p, v)[1]
    BY <1>7, <2>2 DEF D!Combined, D!Fundamental
  <2> QED
    BY <1>1, <1>2, <1>7, <2>1, <2>2, <2>3, <2>4 DEF D!Holder
<1>8. ASSUME v.kind \in {"ordered", "tuple"}
      PROVE  /\ D!HeldKind(v) = v.kind
             /\ Den(p, v) = D!hash_combine(p, ItemHashes(p, v))
  BY <1>1, <1>2, <1>8 DEF D!Combined, D!Fundamental, D!Holder
<1>9. ASSUME v.kind = "unordered"
      PROVE  D!HeldKind(v) = v.kind /\ Den(p, v) = D!Odd(ItemHashes(p, v))
  BY <1>1, <1>2, <1>9 DEF D!Combined, D!Fundamental, D!Holder
<1> QED
  BY <1>5, <1>6, <1>7, <1>8, <1>9

LEMMA HashedItems ==
  ASSUME NEW p \in Policies, NEW v \in D!Values
  PROVE  /\ DOMAIN ItemHashes(p, v) = DOMAIN v.items
         /\ \A i \in DOMAIN v.items : ItemHashes(p, v)[i] = Den(p, v.items[i])
  BY DEF ItemHashes, Den

(* What is not a container has a plain hash, unless it is hashed to 0. *)
LEMMA PlainHash ==
  ASSUME NEW p \in Policies
  PROVE  \A v \in D!Values :
           Unmerged(p, v) /\ D!HeldKind(v) \notin D!Container /\ ~D!Vanishes(p, v) => Plain(Den(p, v))
<1> DEFINE S == {v \in D!Values :
                   Unmerged(p, v) /\ D!HeldKind(v) \notin D!Container /\ ~D!Vanishes(p, v)
                     => Plain(Den(p, v))}
<1>1. ASSUME NEW v \in D!Values, \A i \in DOMAIN v.items : v.items[i] \in S
      PROVE  v \in S
  <2> SUFFICES ASSUME Unmerged(p, v), D!HeldKind(v) \notin D!Container, ~D!Vanishes(p, v)
               PROVE  Plain(Den(p, v))
    OBVIOUS
  <2>1. CASE v.kind \in D!Fundamental \cup {"bytes"}
    BY <2>1, HashFacts
  <2>2. CASE v.kind \in {"smart pointer", "overload"}
    <3>1. /\ 1 \in DOMAIN v.items /\ D!HeldKind(v) = D!HeldKind(v.items[1])
          /\ ~D!Vanishes(p, v.items[1])
          /\ Den(p, v) = Den(p, v.items[1])
      BY <2>2, HashFacts
    <3>2. Unmerged(p, v.items[1])
      BY <3>1, ItemFacts
    <3> QED
      BY <1>1, <3>1, <3>2
  <2>3. v.kind \notin D!Container
    BY HashFacts DEF D!Container
  <2> QED
    BY <2>1, <2>2, <2>3, HashFacts
<1> HIDE DEF S
<1>2. D!Values \subseteq S
  BY <1>1, ValueInduction
<1> QED
  BY <1>2 DEF S

LEMMA PlainItems ==
  ASSUME NEW v \in D!Values, "wyhash" \in Policies, Unmerged("wyhash", v),
         v.kind \in {"ordered", "tuple"}
  PROVE  \A i \in DOMAIN v.items : Plain(Den("wyhash", v.items[i]))
<1>1. D!ItemKinds(v) \cap D!Container = {}
  BY ItemFacts DEF D!MergesItems
<1>2. \A i \in DOMAIN v.items :
        D!HeldKind(v.items[i]) \notin D!Container /\ ~D!Vanishes("wyhash", v.items[i])
  BY <1>1 DEF D!ItemKinds, D!Vanishes, D!IsHashedToZero
<1> QED
  BY <1>2, ItemFacts, PlainHash

LEMMA SameInterval ==
  ASSUME NEW n \in Nat, NEW m \in Nat, 1 .. n = 1 .. m
  PROVE  n = m
<1>1. /\ n # 0 => n \in 1 .. n
      /\ m # 0 => m \in 1 .. m
  OBVIOUS
<1>2. /\ n # 0 => n \in 1 .. m
      /\ m # 0 => m \in 1 .. n
  BY <1>1
<1>3. n <= m /\ m <= n
  BY <1>2
<1> QED
  BY <1>3

(* A sequence has the hash of its items' hashes, and of no others. *)
LEMMA SequencesApart ==
  ASSUME NEW p \in Policies,
         NEW v \in D!Values, Unmerged(p, v), v.kind \in {"ordered", "tuple"},
         NEW w \in D!Values, Unmerged(p, w), w.kind \in {"ordered", "tuple"},
         Den(p, v) = Den(p, w)
  PROVE  /\ Len(v.items) = Len(w.items)
         /\ \A i \in DOMAIN v.items : Den(p, v.items[i]) = Den(p, w.items[i])
<1> DEFINE a == ItemHashes(p, v)
           b == ItemHashes(p, w)
           n == Len(v.items)
           m == Len(w.items)
<1>1. /\ n \in Nat /\ DOMAIN v.items = 1 .. n /\ DOMAIN a = 1 .. n
      /\ \A i \in 1 .. n : a[i] = Den(p, v.items[i])
  BY ItemFacts, HashedItems
<1>2. /\ m \in Nat /\ DOMAIN w.items = 1 .. m /\ DOMAIN b = 1 .. m
      /\ \A i \in 1 .. m : b[i] = Den(p, w.items[i])
  BY ItemFacts, HashedItems
<1>3. D!hash_combine(p, a) = D!hash_combine(p, b)
  BY HashFacts
<1>4. (\A i \in 1 .. n : Mixable(p, a[i])) /\ \A i \in 1 .. m : Mixable(p, b[i])
  <2>1. p # "wyhash" => \A hash : Mixable(p, hash)
    BY DEF Mixable
  <2>2. p = "wyhash" => (\A i \in 1 .. n : Plain(a[i])) /\ \A i \in 1 .. m : Plain(b[i])
    BY <1>1, <1>2, PlainItems
  <2> HIDE DEF a, b, n, m
  <2> QED
    BY <2>1, <2>2 DEF Mixable
<1> HIDE DEF a, b
<1>5. CASE p = "xxh3"
  <2>1. D!Atom("bytes", <<>>, {a}) = D!Atom("bytes", <<>>, {b})
    BY <1>3, <1>5 DEF D!hash_combine, D!combine_xxh3
  <2>2. {a} = {b}
    BY <2>1, SameAtom
  <2>3. a = b
    BY <2>2
  <2>4. 1 .. n = 1 .. m
    BY <1>1, <1>2, <2>3
  <2>5. n = m
    BY <1>1, <1>2, <2>4, SameInterval
  <2> QED
    BY <1>1, <1>2, <2>3, <2>5
<1>6. CASE p \in {"wyhash", "Martinus"}
  <2>1. Mixed(p, a)[DOMAIN a] = Mixed(p, b)[DOMAIN b]
    <3>1. CASE p = "wyhash"
      BY <1>3, <3>1, CombineIsMixed DEF D!hash_combine
    <3>2. CASE p = "Martinus"
      <4>1. /\ D!hash_combine(p, a) = D!final_mix(Mixed(p, a)[DOMAIN a])
            /\ D!hash_combine(p, b) = D!final_mix(Mixed(p, b)[DOMAIN b])
        BY <3>2, CombineIsMixed DEF D!hash_combine
      <4> DEFINE s_ == Mixed(p, a)[DOMAIN a]
                 t_ == Mixed(p, b)[DOMAIN b]
      <4>2. D!Atom("final", <<>>, {<<s_>>}) = D!Atom("final", <<>>, {<<t_>>})
        BY <1>3, <4>1 DEF D!final_mix
      <4> HIDE DEF s_, t_
      <4>3. {<<s_>>} = {<<t_>>}
        BY <4>2, SameAtom
      <4>4. <<s_>> = <<t_>>
        BY <4>3
      <4>5. s_ = t_
        BY <4>4
      <4> QED
        BY <4>5 DEF s_, t_
    <3> QED
      BY <1>6, <3>1, <3>2
  <2> HIDE DEF n, m
  <2>2. n = m /\ \A i \in 1 .. n : a[i] = b[i]
    BY <1>1, <1>2, <1>4, <2>1, LoopsApart
  <2> QED
    BY <1>1, <1>2, <2>2 DEF n, m
<1> QED
  BY <1>5, <1>6, PoliciesAssumption

(* An unordered container mixes nothing into nothing else: its items' hashes
   are single atoms.                                                         *)
LEMMA OneAtom ==
  ASSUME NEW p \in Policies
  PROVE  \A v \in D!Values :
           Unmerged(p, v) /\ D!HeldKind(v) # "unordered" /\ ~D!Vanishes(p, v) => One(Den(p, v))
<1> DEFINE S == {v \in D!Values :
                   Unmerged(p, v) /\ D!HeldKind(v) # "unordered" /\ ~D!Vanishes(p, v)
                     => One(Den(p, v))}
<1>1. ASSUME NEW v \in D!Values, \A i \in DOMAIN v.items : v.items[i] \in S
      PROVE  v \in S
  <2> SUFFICES ASSUME Unmerged(p, v), D!HeldKind(v) # "unordered", ~D!Vanishes(p, v)
               PROVE  One(Den(p, v))
    OBVIOUS
  <2>1. CASE v.kind \in D!Fundamental \cup {"bytes"}
    BY <2>1, HashFacts DEF Plain, One
  <2>2. CASE v.kind \in {"smart pointer", "overload"}
    <3>1. /\ 1 \in DOMAIN v.items /\ D!HeldKind(v) = D!HeldKind(v.items[1])
          /\ ~D!Vanishes(p, v.items[1])
          /\ Den(p, v) = Den(p, v.items[1])
      BY <2>2, HashFacts
    <3>2. Unmerged(p, v.items[1])
      BY <3>1, ItemFacts
    <3> QED
      BY <1>1, <3>1, <3>2
  <2>3. CASE v.kind \in {"ordered", "tuple"}
    <3> DEFINE a == ItemHashes(p, v)
               n == Len(v.items)
    <3>1. Den(p, v) = D!hash_combine(p, a)
      BY <2>3, HashFacts
    <3>2. n \in Nat /\ DOMAIN a = 1 .. n /\ \A i \in 1 .. n : a[i] = Den(p, v.items[i])
      BY ItemFacts, HashedItems
    <3>3. p = "wyhash" => \A i \in 1 .. n : Plain(a[i])
      BY <2>3, <3>2, PlainItems, ItemFacts
    <3> HIDE DEF a, n
    <3>4. CASE p = "wyhash"
      <4>1. n \in 0 .. n
        BY <3>2
      <4>2. Stately(Mixed(p, a)[1 .. n])
        BY <3>2, <3>3, <3>4, <4>1, MixedStately DEF Mixable
      <4>3. Stately(D!combine_wyhash(a))
        BY <3>2, <3>4, <4>2, CombineIsMixed
      <4> QED
        BY <3>1, <3>4, <4>3 DEF D!hash_combine, Stately, One
    <3>5. CASE p = "xxh3"
      <4>1. Den(p, v) = D!Atom("bytes", <<>>, {a})
        BY <3>1, <3>5 DEF D!hash_combine, D!combine_xxh3
      <4>2. One(D!Atom("bytes", <<>>, {a}))
        BY DEF D!Atom, One
      <4> QED
        BY <4>1, <4>2
    <3>6. CASE p = "Martinus"
      <4> DEFINE s_ == Mixed(p, a)[DOMAIN a]
      <4>1. Den(p, v) = D!Atom("final", <<>>, {<<s_>>})
        BY <3>1, <3>6, CombineIsMixed DEF D!hash_combine, D!final_mix
      <4> HIDE DEF s_
      <4>2. One(D!Atom("final", <<>>, {<<s_>>}))
        BY DEF D!Atom, One
      <4> QED
        BY <4>1, <4>2
    <3> QED
      BY <3>4, <3>5, <3>6, PoliciesAssumption
  <2>4. v.kind # "unordered"
    BY HashFacts
  <2> QED
    BY <2>1, <2>2, <2>3, <2>4, HashFacts DEF D!Container
<1> HIDE DEF S
<1>2. D!Values \subseteq S
  BY <1>1, ValueInduction
<1> QED
  BY <1>2 DEF S

(* Below depth n, different values of one type have different hashes. *)
Apart(p, n) ==
  \A v, w \in D!Values :
    /\ Depth(v) < n /\ Depth(w) < n
    /\ D!SameType(v, w) /\ Unmerged(p, v) /\ Unmerged(p, w)
    /\ Den(p, v) = Den(p, w)
    => v = w

(* Two values of one type of which nothing is known but their hash. *)
Alike(p, n, v, w) ==
  /\ v \in D!Values /\ w \in D!Values
  /\ Depth(v) < n + 1 /\ Depth(w) < n + 1
  /\ D!SameType(v, w) /\ Unmerged(p, v) /\ Unmerged(p, w)
  /\ Den(p, v) = Den(p, w)

LEMMA SameTypes ==
  ASSUME NEW v, NEW w, D!SameType(v, w)
  PROVE  D!SameType(w, v) /\ D!SameType(v, v) /\ v \in D!Values /\ w \in D!Values
  BY DEF D!SameType, D!Values

LEMMA TypedItems ==
  ASSUME NEW v, NEW w, D!SameType(v, w)
  PROVE  /\ v.kind = w.kind
         /\ v.kind \in {"ordered", "unordered"} =>
              \A i \in DOMAIN v.items, j \in DOMAIN w.items : D!SameType(v.items[i], w.items[j])
         /\ v.kind \in {"tuple", "smart pointer", "overload"} =>
              \A i \in DOMAIN v.items : D!SameType(v.items[i], w.items[i])
         /\ v.kind = "unordered" =>
              /\ \A i, j \in DOMAIN v.items : v.items[i] = v.items[j] => i = j
              /\ D!Range(v.items) = D!Range(w.items) => v = w
<1>1. PICK T \in Types : v \in T /\ w \in T
  BY DEF D!SameType
<1> QED
  BY <1>1, TypesAssumption DEF D!WellTyped, D!ItemsAreSets

(* Items are less deep. *)
LEMMA ItemsAlike ==
  ASSUME NEW p \in Policies, NEW n \in Nat, Apart(p, n), NEW v, NEW w, Alike(p, n, v, w),
         NEW i \in DOMAIN v.items, NEW j \in DOMAIN w.items,
         D!SameType(v.items[i], w.items[j]), Den(p, v.items[i]) = Den(p, w.items[j])
  PROVE  v.items[i] = w.items[j]
<1>1. /\ v.items[i] \in D!Values /\ Unmerged(p, v.items[i]) /\ Depth(v.items[i]) < Depth(v)
      /\ w.items[j] \in D!Values /\ Unmerged(p, w.items[j]) /\ Depth(w.items[j]) < Depth(w)
  BY ItemFacts DEF Alike
<1>2. /\ \A x \in D!Values : Depth(x) \in Nat
      /\ Depth(v) < n + 1 /\ Depth(w) < n + 1 /\ v \in D!Values /\ w \in D!Values
  BY ValuesAssumption DEF D!FiniteTrees, Alike
<1>3. Depth(v.items[i]) < n /\ Depth(w.items[j]) < n
  BY <1>1, <1>2
<1> QED
  BY <1>1, <1>3 DEF Apart

(* The hash of an item is an atom of that of the container, which has no other. *)
LEMMA UnorderedItems ==
  ASSUME NEW p \in Policies, NEW n \in Nat, Apart(p, n), NEW v, NEW w, Alike(p, n, v, w),
         v.kind = "unordered", w.kind = "unordered"
  PROVE  D!Range(v.items) \subseteq D!Range(w.items)
<1>1. /\ v \in D!Values /\ w \in D!Values /\ Unmerged(p, v) /\ Unmerged(p, w)
      /\ Den(p, v) = Den(p, w) /\ D!SameType(v, w)
  BY DEF Alike
<1>2. Alike(p, n, v, v)
  BY SameTypes DEF Alike
<1>3. /\ \A i \in DOMAIN v.items : One(Den(p, v.items[i]))
      /\ \A i \in DOMAIN w.items : One(Den(p, w.items[i]))
  <2>1. /\ \A i \in DOMAIN v.items :
             D!HeldKind(v.items[i]) # "unordered" /\ ~D!Vanishes(p, v.items[i])
        /\ \A i \in DOMAIN w.items :
             D!HeldKind(w.items[i]) # "unordered" /\ ~D!Vanishes(p, w.items[i])
    BY <1>1, ItemFacts DEF D!MergesItems, D!ItemKinds
  <2> QED
    BY <1>1, <2>1, ItemFacts, OneAtom
<1>4. SUFFICES ASSUME NEW i \in DOMAIN v.items
               PROVE  \E j \in DOMAIN w.items : v.items[i] = w.items[j]
  BY DEF D!Range
<1>5. PICK a : Den(p, v.items[i]) = {a}
  BY <1>3 DEF One
<1> DEFINE e == ItemHashes(p, v)
           f == ItemHashes(p, w)
<1>6. /\ DOMAIN e = DOMAIN v.items /\ \A k \in DOMAIN v.items : e[k] = Den(p, v.items[k])
      /\ DOMAIN f = DOMAIN w.items /\ \A k \in DOMAIN w.items : f[k] = Den(p, w.items[k])
  BY <1>1, HashedItems
<1>7. D!Odd(e) = D!Odd(f)
  BY <1>1, HashFacts
<1> HIDE DEF e, f
<1>8. {k \in DOMAIN e : a \in e[k]} = {i}
  <2>1. ASSUME NEW k \in DOMAIN v.items, a \in e[k] PROVE k = i
    <3>1. Den(p, v.items[k]) = Den(p, v.items[i])
      BY <1>3, <1>5, <1>6, <2>1 DEF One
    <3>2. D!SameType(v.items[k], v.items[i])
      BY <1>1, SameTypes, TypedItems
    <3>3. v.items[k] = v.items[i]
      BY <1>2, <3>1, <3>2, ItemsAlike
    <3> QED
      BY <1>1, <3>3, TypedItems
  <2> QED
    BY <1>5, <1>6, <2>1
<1>9. a \in D!Odd(e)
  <2>1. a \in UNION D!Range(e)
    BY <1>5, <1>6 DEF D!Range
  <2>2. Cardinality({i}) = 1 /\ 1 % 2 = 1
    BY FS_Singleton
  <2> QED
    BY <1>8, <2>1, <2>2, OddAtom
<1>10. PICK j \in DOMAIN w.items : a \in Den(p, w.items[j])
  <2>1. a \in UNION D!Range(f)
    BY <1>7, <1>9, OddAtom
  <2> QED
    BY <1>6, <2>1 DEF D!Range
<1>11. Den(p, v.items[i]) = Den(p, w.items[j])
  BY <1>3, <1>5, <1>10 DEF One
<1>12. D!SameType(v.items[i], w.items[j])
  BY <1>1, TypedItems
<1>13. v.items[i] = w.items[j]
  BY <1>11, <1>12, ItemsAlike
<1> QED
  BY <1>13

(* One more level of depth. *)
LEMMA ApartStep ==
  ASSUME NEW p \in Policies, NEW n \in Nat, Apart(p, n)
  PROVE  Apart(p, n + 1)
<1> SUFFICES ASSUME NEW v, NEW w, Alike(p, n, v, w) PROVE v = w
  BY DEF Apart, Alike
<1>1. /\ v \in D!Values /\ w \in D!Values /\ Unmerged(p, v) /\ Unmerged(p, w)
      /\ Den(p, v) = Den(p, w) /\ D!SameType(v, w) /\ v.kind = w.kind
  BY TypedItems DEF Alike
<1>2. /\ v = [kind |-> v.kind, data |-> v.data, items |-> v.items]
      /\ w = [kind |-> w.kind, data |-> w.data, items |-> w.items]
  BY <1>1, ValuesAssumption DEF D!FiniteTrees
<1>3. /\ DOMAIN v.items = 1 .. Len(v.items) /\ DOMAIN w.items = 1 .. Len(w.items)
      /\ v.items \in Seq(D!Values) /\ w.items \in Seq(D!Values)
  BY <1>1, ItemFacts
<1>4. CASE v.kind \in D!Fundamental \cup {"bytes"}
  <2>1. v.kind \notin D!Holder \cup D!Container
    BY <1>4 DEF D!Fundamental, D!Holder, D!Container
  <2>2. v.items = <<>> /\ w.items = <<>>
    BY <1>1, <2>1, ValuesAssumption DEF D!FiniteTrees
  <2>3. v.data = w.data
    <3>1. /\ Den(p, v) = D!Combined(p, v, ItemHashes(p, v))
          /\ Den(p, w) = D!Combined(p, w, ItemHashes(p, w))
      BY <1>1, DenotationEquation DEF Den
    <3>2. CASE v.kind = "bytes"
      <4>1. D!Atom("bytes", v.data, {<<>>}) = D!Atom("bytes", w.data, {<<>>})
        BY <1>1, <3>1, <3>2 DEF D!Combined, D!Fundamental, D!hash_bytes
      <4> QED
        BY <4>1, SameAtom
    <3>3. CASE v.kind \in D!Fundamental
      <4>0. /\ Den(p, v) = D!hash_fundamental(p, v.kind, v.data)
            /\ Den(p, w) = D!hash_fundamental(p, w.kind, w.data)
        BY <1>1, <3>1, <3>3 DEF D!Combined, D!Fundamental
      <4>1. D!hash_fundamental(p, v.kind, v.data) = D!hash_fundamental(p, v.kind, w.data)
        BY <1>1, <4>0
      <4>2. \/ D!Atom("integer", v.data, {<<>>}) = D!Atom("integer", w.data, {<<>>})
            \/ D!Atom("bytes", v.data, {<<>>}) = D!Atom("bytes", w.data, {<<>>})
            \/ v.data = <<0>> /\ w.data = <<0>>
        <5>1. \A data : D!Atom("integer", data, {<<>>}) # {}
          BY DEF D!Atom
        <5>2. \A data : D!IsHashedToZero(p, v.kind, data) => data = <<0>>
          BY DEF D!IsHashedToZero
        <5> QED
          BY <4>1, <5>1, <5>2 DEF D!hash_fundamental, D!hash_bytes
      <4> QED
        BY <4>2, SameAtom
    <3> QED
      BY <1>4, <3>2, <3>3
  <2> QED
    BY <1>1, <1>2, <2>2, <2>3
<1>5. ASSUME v.kind \in D!Holder \cup D!Container, v.items = w.items PROVE v = w
  <2>1. v.data = <<>> /\ w.data = <<>>
    BY <1>1, <1>5, ValuesAssumption DEF D!FiniteTrees
  <2> QED
    BY <1>1, <1>2, <1>5, <2>1
<1>6. ASSUME Len(v.items) = Len(w.items), \A i \in DOMAIN v.items : v.items[i] = w.items[i]
      PROVE  v.items = w.items
  BY <1>3, <1>6
<1>7. CASE v.kind \in {"smart pointer", "overload"}
  <2>1. /\ Len(v.items) = 1 /\ Len(w.items) = 1 /\ 1 \in DOMAIN v.items /\ 1 \in DOMAIN w.items
        /\ Den(p, v.items[1]) = Den(p, w.items[1])
    BY <1>1, <1>7, HashFacts
  <2>2. D!SameType(v.items[1], w.items[1])
    BY <1>1, <1>7, <2>1, TypedItems
  <2>3. v.items[1] = w.items[1]
    BY <2>1, <2>2, ItemsAlike
  <2>4. \A i \in DOMAIN v.items : i = 1
    BY <1>3, <2>1
  <2> QED
    BY <1>5, <1>6, <1>7, <2>1, <2>3, <2>4 DEF D!Holder
<1>8. CASE v.kind \in {"ordered", "tuple"}
  <2>1. /\ Len(v.items) = Len(w.items)
        /\ \A i \in DOMAIN v.items : Den(p, v.items[i]) = Den(p, w.items[i])
    BY <1>1, <1>8, SequencesApart
  <2>2. ASSUME NEW i \in DOMAIN v.items PROVE v.items[i] = w.items[i]
    <3>1. i \in DOMAIN w.items
      BY <1>3, <2>1
    <3>2. D!SameType(v.items[i], w.items[i])
      BY <1>1, <1>8, <3>1, TypedItems
    <3> QED
      BY <2>1, <3>1, <3>2, ItemsAlike
  <2> QED
    BY <1>5, <1>6, <1>8, <2>1, <2>2 DEF D!Container
<1>9. CASE v.kind = "unordered"
  <2>1. Alike(p, n, w, v)
    BY SameTypes DEF Alike
  <2>2. D!Range(v.items) \subseteq D!Range(w.items) /\ D!Range(w.items) \subseteq D!Range(v.items)
    BY <1>1, <1>9, <2>1, UnorderedItems
  <2>3. D!Range(v.items) = D!Range(w.items)
    BY <2>2
  <2>4. D!Range(v.items) = D!Range(w.items) => v = w
    BY <1>1, <1>9, TypedItems
  <2> QED
    BY <2>3, <2>4
<1> QED
  BY <1>1, <1>4, <1>7, <1>8, <1>9, HashFacts DEF D!Container

LEMMA ToldApart ==
  ASSUME NEW p \in Policies, NEW v, NEW w, D!SameType(v, w), Unmerged(p, v), Unmerged(p, w),
         Den(p, v) = Den(p, w)
  PROVE  v = w
<1> DEFINE N == {n \in Nat : Apart(p, n)}
<1>0. \A x \in D!Values : Depth(x) \in Nat
  BY ValuesAssumption DEF D!FiniteTrees
<1>1. 0 \in N
  BY <1>0 DEF Apart
<1>2. \A n \in Nat : n \in N => n + 1 \in N
  BY ApartStep
<1>3. Nat \subseteq N
  <2> HIDE DEF N
  <2> QED
    BY <1>1, <1>2, NatSetInduction
<1>4. v \in D!Values /\ w \in D!Values
  BY SameTypes
<1>5. PICK n \in Nat : Depth(v) < n /\ Depth(w) < n
  <2> DEFINE n == Depth(v) + Depth(w) + 1
  <2>1. n \in Nat /\ Depth(v) < n /\ Depth(w) < n
    BY <1>0, <1>4
  <2> QED
    BY <2>1
<1> QED
  BY <1>3, <1>4, <1>5 DEF Apart

-----------------------------------------------------------------------------
(* Calls, and the container whose items they hash. *)
CInv ==
  /\ CallInv
  /\ mode = "value" => root \in D!Values
  /\ contents \subseteq {it \in Items : PolicyOf(it) = policy}
  /\ pc = "loop" => pending \subseteq contents

callvars == <<vars, mode, calls>>

LEMMA CInvInit == ContainerInit => CInv
<1> SUFFICES ASSUME ContainerInit PROVE CInv
  OBVIOUS
<1>1. /\ policy \in Policies /\ stack = <<>> /\ ret = <<>>
      /\ contents = {} /\ pc = "idle"
      /\ \/ mode = "value" /\ root \in D!Values /\ arg = <<root>>
         \/ mode = "container" /\ arg = <<>>
  BY ValuesAssumption DEF ContainerInit, Init, D!FiniteTrees
<1>2. \E F : stack \in Seq(F)
  BY <1>1
<1>3. Good(policy, root, arg, <<>>, <<>>)
  <2>1. Len(<<>>) = 0
    OBVIOUS
  <2>2. Owed(policy, root, <<>>, 0) = Den(policy, root)
    BY DEF Owed
  <2> QED
    BY <1>1, <1>2, <2>1, <2>2 DEF Good, Asked
<1> QED
  BY <1>1, <1>3 DEF CInv, CallInv

LEMMA CInvStep == CInv /\ [ContainerNext]_callvars => CInv'
<1> SUFFICES ASSUME CInv, [ContainerNext]_callvars PROVE CInv'
  OBVIOUS
<1>1. ASSUME NEW it \in Items, change(it) PROVE CInv'
  <2>1. /\ UNCHANGED <<mode, policy, root, arg, stack, ret>> /\ PolicyOf(it) = policy
        /\ contents' \subseteq contents \cup {it} /\ pc' = "idle"
    BY <1>1 DEF change, calls, insert, erase
  <2> QED
    BY <2>1 DEF CInv, CallInv
<1>2. CASE begin \/ end
  <2>1. /\ UNCHANGED <<mode, policy, root, arg, stack, ret>> /\ contents' = contents
        /\ pc' = "loop" => pending' = contents
    BY <1>2 DEF begin, end, calls, dice_hash, dice_hash_return
  <2> QED
    BY <2>1 DEF CInv, CallInv
<1>3. ASSUME NEW it \in Items, item_call(it) PROVE CInv'
  <2>1. /\ root' = ValueOf(it) /\ arg' = <<ValueOf(it)>> /\ stack' = <<>> /\ ret' = <<>>
        /\ UNCHANGED <<contents, pc, pending, mode, policy>> /\ mode = "container"
    BY <1>3 DEF item_call, Idle, vars
  <2>2. ValueOf(it) \in D!Values /\ policy \in Policies
    BY ItemsAssumption DEF CInv, CallInv, Good
  <2>3. Good(policy, ValueOf(it), <<ValueOf(it)>>, <<>>, <<>>)
    <3>1. Len(<<>>) = 0
      OBVIOUS
    <3>2. Owed(policy, ValueOf(it), <<>>, 0) = Den(policy, ValueOf(it))
      BY DEF Owed
    <3>3. \E F : <<>> \in Seq(F)
      OBVIOUS
    <3> QED
      BY <2>2, <3>1, <3>2, <3>3 DEF Good, Asked
  <2> QED
    BY <2>1, <2>3 DEF CInv, CallInv
<1>4. ASSUME NEW it \in Items, item_combine(it) PROVE CInv'
  <2>1. /\ root' = root /\ arg' = <<>> /\ stack' = <<>> /\ ret' = <<>>
        /\ UNCHANGED <<contents, pc, mode, policy>> /\ pending' \subseteq pending
    BY <1>4 DEF item_combine, Idle
  <2>2. Good(policy, root, <<>>, <<>>, <<>>)
    <3>1. Len(<<>>) = 0 /\ \E F : <<>> \in Seq(F)
      OBVIOUS
    <3> QED
      BY <3>1 DEF CInv, CallInv, Good
  <2> QED
    BY <2>1, <2>2 DEF CInv, CallInv
<1>5. CASE D!Next /\ UNCHANGED <<vars, mode>>
  <2>1. CallInv' /\ policy' = policy /\ root' = root
    BY <1>5, CallStep DEF CInv
  <2> QED
    BY <1>5, <2>1 DEF CInv, vars
<1>6. CASE UNCHANGED callvars
  BY <1>6 DEF CInv, CallInv, callvars, calls, vars
<1> QED
  BY <1>1, <1>2, <1>3, <1>4, <1>5, <1>6 DEF ContainerNext

(* The inductive invariant of nested calls: every container on the stack has
   combined the hashes of the items it has visited, and the call within it
   owes it the hash of the item that it asked for.                          *)
THEOREM CInvInvariant == ContainerSpec => []CInv
<1> QED
  BY CInvInit, CInvStep, PTL DEF ContainerSpec, callvars

(* However deep calls nest and in whatever order unordered containers
   iterate, dice_hash returns the hash of its value under every policy.      *)
THEOREM CallsReturnDenotation == ContainerSpec => []HashIsDenotation
<1>1. CInv => HashIsDenotation
  <2> SUFFICES ASSUME CInv, D!Returned PROVE ret[1] = D!Denotation[<<policy, root>>]
    BY DEF HashIsDenotation, D!HashIsDenotation
  <2>1. stack = <<>> /\ ret # <<>> /\ Len(<<>>) = 0
    BY DEF D!Returned
  <2>2. ret = <<Owed(policy, root, <<>>, 0)>>
    BY <2>1 DEF CInv, CallInv, Good
  <2> QED
    BY <2>2 DEF Owed, Den
<1> QED
  BY <1>1, CInvInvariant, PTL

(* Bytes and mixed hashes never pass for the hash of no value: a hash that
   is_faulty reports comes from a value that holds none, for all values.     *)
THEOREM FaultyHashesHaveNoValue == ContainerSpec => []FaultyMeansNoValue
<1>1. CInv => FaultyMeansNoValue
  <2> SUFFICES ASSUME CInv, D!Returned, D!is_faulty(ret[1])
               PROVE  D!HoldsNoValue[<<policy, root>>]
    BY DEF FaultyMeansNoValue, D!FaultyMeansNoValue
  <2>1. stack = <<>> /\ ret # <<>> /\ Len(<<>>) = 0
    BY DEF D!Returned
  <2>2. ret = <<Owed(policy, root, <<>>, 0)>> /\ policy \in Policies /\ root \in D!Values
    BY <2>1 DEF CInv, CallInv, Good
  <2>3. Seed \in D!Denotation[<<policy, root>>]
    BY <2>2 DEF Owed, Den, D!is_faulty, D!ErrorValue, D!Atom, Seed
  <2> QED
    BY <2>2, <2>3, SeedMeansNoValue
<1> QED
  BY <1>1, CInvInvariant, PTL

(* A hash says which value of its type was hashed, for values of any depth
   and every policy, except where the policy merges some.                     *)
THEOREM DifferentValuesDiffer == ContainerSpec => []ValuesToldApart
<1>1. CInv => ValuesToldApart
  <2> SUFFICES ASSUME CInv, D!Returned, ~D!Merged[<<policy, root>>],
                      NEW v \in D!Values, D!SameType(root, v), ~D!Merged[<<policy, v>>],
                      D!Denotation[<<policy, v>>] = ret[1]
               PROVE  v = root
    BY DEF ValuesToldApart, D!ValuesToldApart
  <2>1. stack = <<>> /\ ret # <<>> /\ Len(<<>>) = 0
    BY DEF D!Returned
  <2>2. ret = <<Owed(policy, root, <<>>, 0)>> /\ policy \in Policies
    BY <2>1 DEF CInv, CallInv, Good
  <2>3. Den(policy, root) = Den(policy, v)
    BY <2>2 DEF Owed, Den
  <2> QED
    BY <2>2, <2>3, ToldApart DEF Unmerged
<1> QED
  BY <1>1, CInvInvariant, PTL

(* A step of the loop with the calls for its items is one of the loop alone. *)
LEMMA ContainerStep == CInv /\ [ContainerNext]_callvars => [Next]_vars
<1> SUFFICES ASSUME CInv, [ContainerNext]_callvars PROVE [Next]_vars
  OBVIOUS
<1>1. ASSUME NEW it \in Items, change(it) PROVE Next
  BY <1>1 DEF change, Next
<1>2. CASE begin \/ end
  BY <1>2 DEF begin, end, Next
<1>3. ASSUME NEW it \in Items, item_call(it) PROVE UNCHANGED vars
  BY <1>3 DEF item_call
<1>4. ASSUME NEW it \in Items, item_combine(it) PROVE Next
  <2>1. /\ pc = "loop" /\ it \in pending /\ ret # <<>> /\ stack = <<>> /\ root = ValueOf(it)
        /\ h' = D!hash_invertible_combine(h, ret[1]) /\ pending' = pending \ {it}
        /\ UNCHANGED <<contents, kept, pc>>
    BY <1>4 DEF item_combine, Idle
  <2>2. ret = <<Owed(policy, root, <<>>, 0)>>
    <3>1. Len(<<>>) = 0
      OBVIOUS
    <3> QED
      BY <2>1, <3>1 DEF CInv, CallInv, Good
  <2>3. PolicyOf(it) = policy
    BY <2>1 DEF CInv
  <2>4. ret[1] = HashOf(it)
    BY <2>1, <2>2, <2>3, ItemsAssumption DEF Owed, Den
  <2>5. h' = hash_invertible_combine(h, HashOf(it))
    BY <2>1, <2>4 DEF hash_invertible_combine, xor, D!hash_invertible_combine, D!xor
  <2>6. dice_hash_item(it)
    BY <2>1, <2>5 DEF dice_hash_item
  <2> QED
    BY <2>6 DEF Next
<1>5. CASE D!Next /\ UNCHANGED <<vars, mode>>
  BY <1>5
<1>6. CASE UNCHANGED callvars
  BY <1>6 DEF callvars
<1> QED
  BY <1>1, <1>2, <1>3, <1>4, <1>5, <1>6 DEF ContainerNext

(* The loop over an unordered container that calls dice_hash for its items
   implements the loop that takes the hash of an item in one step.           *)
THEOREM NestedLoopImplementsLoop == ContainerSpec => ImplementsUnorderedContainer
<1>1. ContainerInit => Init
  BY DEF ContainerInit
<1> QED
  BY <1>1, CInvInvariant, ContainerStep, PTL
     DEF ContainerSpec, ImplementsUnorderedContainer, Spec, callvars


=============================================================================
