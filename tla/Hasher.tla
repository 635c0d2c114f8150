------------------------------- MODULE Hasher -------------------------------
(***************************************************************************)
(* What a Blake hasher promises over its life: constructed with legal      *)
(* lengths or not at all, fed any number of pieces, and finished once into *)
(* a buffer of the required length, which then holds the hash of all that  *)
(* was fed, in order, under the parameters of the constructor.             *)
(***************************************************************************)
EXTENDS Naturals, Sequences

CONSTANTS
  Params,           \* legal and illegal parameters of the constructor
  LegalParams,
  Data,             \* pieces of input
  MaxPieces,        \* bound on the pieces a run feeds
  Sizes,            \* sizes of the buffers given to finish
  Accepts(_, _),    \* finish takes a buffer of this size after these parameters
  Hash(_, _, _)     \* parameters, pieces and size to output

VARIABLES
  phase,            \* "none", "ready", "finished", or "threw" when there never was a hasher
  params,           \* those of the constructor
  pieces,
  output            \* <<>> until finish filled a buffer

vars == <<phase, params, pieces, output>>

Init ==
  /\ phase = "none"
  /\ params \in Params
  /\ pieces = <<>>
  /\ output = <<>>

(* The caller changes its mind, or has a key generated. *)
Choose ==
  /\ phase = "none"
  /\ params' \in Params
  /\ UNCHANGED <<phase, pieces, output>>

(* Of legal parameters too the construction may fail, for want of the library. *)
Construct ==
  /\ phase = "none"
  /\ phase' \in IF params \in LegalParams THEN {"ready", "threw"} ELSE {"threw"}
  /\ UNCHANGED <<params, pieces, output>>

Digest(d) ==
  /\ phase = "ready"
  /\ Len(pieces) < MaxPieces
  /\ pieces' = Append(pieces, d)
  /\ UNCHANGED <<phase, params, output>>

Finish(n) ==
  /\ phase = "ready"
  /\ Accepts(params, n)
  /\ phase' = "finished"
  /\ output' = Hash(params, pieces, n)
  /\ UNCHANGED <<params, pieces>>

Next == Choose \/ Construct \/ (\E d \in Data : Digest(d)) \/ (\E n \in Sizes : Finish(n))

Spec == Init /\ [][Next]_vars

=============================================================================
