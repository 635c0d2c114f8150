------------------------- MODULE DiceHashContainer --------------------------
(***************************************************************************)
(* UnorderedContainer with the hashes of its items computed by the calls   *)
(* of DiceHash: the loop calls dice_hash for an item, which runs to its    *)
(* end, and combines what it returned.  The application does the same for  *)
(* an item that it inserts or removes.                                     *)
(***************************************************************************)
EXTENDS UnorderedContainer, Sequences

CONSTANTS
  Policies, Types, Depth(_),
  PolicyOf(_), ValueOf(_)    \* an item is a value, and the policy it is hashed with

VARIABLES
  mode,      \* "value": some value is hashed, "container": an application keeps one
  policy, root, arg, stack, ret

D == INSTANCE DiceHash

ASSUME PoliciesAssumption == Policies \subseteq {"wyhash", "xxh3", "Martinus"}

ASSUME ValuesAssumption == D!FiniteTrees

ASSUME TypesAssumption == D!WellTyped /\ D!ItemsAreSets

ASSUME ItemsAssumption ==
  \A it \in Items :
    /\ PolicyOf(it) \in Policies /\ ValueOf(it) \in D!Values
    /\ HashOf(it) = D!Denotation[<<PolicyOf(it), ValueOf(it)>>]

calls == <<policy, root, arg, stack, ret>>

ContainerInit ==
  /\ Init
  /\ mode \in {"value", "container"}
  /\ policy \in Policies
  /\ stack = <<>> /\ ret = <<>>
  /\ mode = "value" => root \in D!Values /\ arg = <<root>>
  /\ mode = "container" => root = [kind |-> "none"] /\ arg = <<>>

Idle == mode = "container" /\ arg = <<>> /\ stack = <<>>

(* A change of the container, with the hash of the item that was computed for it. *)
change(it) ==
  /\ Idle /\ PolicyOf(it) = policy
  /\ insert(it) \/ erase(it)
  /\ UNCHANGED <<mode, calls>>

begin ==
  /\ Idle
  /\ dice_hash
  /\ UNCHANGED <<mode, calls>>

(* The body of the loop: first the call for the item, then the combination. *)
item_call(it) ==
  /\ Idle /\ pc = "loop" /\ it \in pending /\ ret = <<>>
  /\ root' = ValueOf(it)
  /\ arg' = <<ValueOf(it)>>
  /\ UNCHANGED <<vars, mode, policy, stack, ret>>

item_combine(it) ==
  /\ Idle /\ pc = "loop" /\ it \in pending /\ root = ValueOf(it) /\ ret # <<>>
  /\ h' = D!hash_invertible_combine(h, ret[1])
  /\ pending' = pending \ {it}
  /\ ret' = <<>>
  /\ UNCHANGED <<contents, kept, pc, mode, policy, root, arg, stack>>

end ==
  /\ Idle
  /\ dice_hash_return
  /\ UNCHANGED <<mode, calls>>

ContainerNext ==
  \/ \E it \in Items : change(it) \/ item_call(it) \/ item_combine(it)
  \/ begin
  \/ end
  \/ D!Next /\ UNCHANGED <<vars, mode>>

ContainerSpec == ContainerInit /\ [][ContainerNext]_<<vars, mode, calls>>

-----------------------------------------------------------------------------
(* Properties.                                                             *)

(* Every call returns the hash of its value. *)
HashIsDenotation == D!HashIsDenotation

(* Different values of one type are told apart. *)
ValuesToldApart == D!ValuesToldApart

(* A faulty hash is that of no value, or of nothing. *)
FaultyMeansNoValue == D!FaultyMeansNoValue

(* With items hashed by calls that nest and iterate themselves, the loop is
   still the one that takes the hash of an item in a single step.         *)
ImplementsUnorderedContainer == Spec

=============================================================================
