-------------------------- MODULE HomomorphicHash --------------------------
(***************************************************************************)
(* What LtHash promises, without words, padding or key buffers: an         *)
(* instance has a key and a sum in the group of vectors of elements, and   *)
(* every operation is one of that group.  A sum may be Invalid, which only *)
(* a caller who supplies an invalid checksum can make it; arithmetic on an *)
(* Invalid sum yields an arbitrary valid one.                              *)
(***************************************************************************)
EXTENDS Naturals

CONSTANTS
  Inst, Objects,
  Keys, NoKey,         \* keys, and what a key buffer holds when cleared
  Sums, Zero,          \* valid sums
  Invalid,             \* a sum with invalid padding
  Plus(_, _), Minus(_, _),
  Hash(_, _),          \* the sum of one object under a key
  Initials, Givens,    \* valid or invalid sums callers supply
  NewKeys              \* keys callers supply

VARIABLES alive, key, sum

vars == <<alive, key, sum>>

Init ==
  /\ alive = {}
  /\ key = [x \in Inst |-> NoKey]
  /\ sum = [x \in Inst |-> Zero]

(* The results an operation of the group may have. *)
Sum(s, t)        == IF s = Invalid \/ t = Invalid THEN Sums ELSE {Plus(s, t)}
Difference(s, t) == IF s = Invalid \/ t = Invalid THEN Sums ELSE {Minus(s, t)}

Construct(x) ==
  /\ x \notin alive
  /\ alive' = alive \cup {x}
  /\ key' = [key EXCEPT ![x] = NoKey]
  /\ \E s \in Initials : sum' = [sum EXCEPT ![x] = s]

(* x takes the key and the sum of y; if y is moved from it loses its key, not its sum. *)
Transfer(x, y) ==
  /\ y \in alive /\ x # y
  /\ alive' = alive \cup {x}
  /\ \/ key' = [key EXCEPT ![x] = key[y]]
     \/ key' = [key EXCEPT ![x] = key[y], ![y] = NoKey]
  /\ sum' = [sum EXCEPT ![x] = sum[y]]

Destroy(x) ==
  /\ x \in alive
  /\ alive' = alive \ {x}
  /\ key' = [key EXCEPT ![x] = NoKey]
  /\ sum' = sum

Rekey(x) ==
  /\ x \in alive
  /\ \E k \in NewKeys \cup {NoKey} : key' = [key EXCEPT ![x] = k]
  /\ UNCHANGED <<alive, sum>>

Reset(x) ==
  /\ x \in alive
  /\ \E s \in Givens \cup {Zero} : sum' = [sum EXCEPT ![x] = s]
  /\ UNCHANGED <<alive, key>>

(* Instances combine only under the same key. *)
Combine(x, y) ==
  /\ x \in alive /\ y \in alive /\ key[x] = key[y]
  /\ \E s \in Sum(sum[x], sum[y]) \cup Difference(sum[x], sum[y]) :
       sum' = [sum EXCEPT ![x] = s]
  /\ UNCHANGED <<alive, key>>

Update(x, o) ==
  /\ x \in alive
  /\ \E s \in Sum(sum[x], Hash(key[x], o)) \cup Difference(sum[x], Hash(key[x], o)) :
       sum' = [sum EXCEPT ![x] = s]
  /\ UNCHANGED <<alive, key>>

Next ==
  \E x \in Inst :
    \/ Construct(x)
    \/ \E y \in Inst : Transfer(x, y) \/ Combine(x, y)
    \/ Destroy(x) \/ Rekey(x) \/ Reset(x)
    \/ \E o \in Objects : Update(x, o)

Spec == Init /\ [][Next]_vars

=============================================================================
