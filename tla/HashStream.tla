----------------------------- MODULE HashStream -----------------------------
(***************************************************************************)
(* What a streaming hash promises: however the input is cut into pieces,   *)
(* the digest at any moment is the one-shot hash of everything fed so far. *)
(* An input is an arbitrary string of bytes, so it is its length that      *)
(* tells two inputs of one stream apart.                                   *)
(***************************************************************************)
EXTENDS Naturals

CONSTANTS
  Secrets,         \* the secrets a stream is reset with
  Lengths,         \* lengths of the pieces
  MaxInput,        \* bound on the input a run explores
  OneShot(_, _)    \* the hash of the first n bytes of the input under a secret

VARIABLES secret, length, digest

vars == <<secret, length, digest>>

Init ==
  /\ secret \in Secrets
  /\ length = 0
  /\ digest = OneShot(secret, 0)

Update(n) ==
  /\ length + n <= MaxInput
  /\ length' = length + n
  /\ digest' = OneShot(secret, length + n)
  /\ UNCHANGED secret

Reset(s) ==
  /\ secret' = s
  /\ length' = 0
  /\ digest' = OneShot(s, 0)

Next == (\E n \in Lengths : Update(n)) \/ (\E s \in Secrets : Reset(s))

Spec == Init /\ [][Next]_vars

=============================================================================
