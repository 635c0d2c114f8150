----------------------------- MODULE LaneVector -----------------------------
(***************************************************************************)
(* What a math engine promises its caller: one call does element-wise      *)
(* modular arithmetic on the whole checksum buffer, or tests or clears its *)
(* padding, as if in a single step.  Nothing is promised of the value of a *)
(* sum or a difference with dirty padding, except that its own padding is  *)
(* clean.                                                                  *)
(***************************************************************************)
EXTENDS LaneWord

CONSTANTS NumWords, Buffers

VARIABLES op, aliased, dst, src, result, finished

vars == <<op, aliased, dst, src, result, finished>>

Words == 0 .. NumWords - 1

Ops == IF needs_padding THEN {"add", "sub", "check", "clear"} ELSE {"add", "sub"}

Clean(buf) == \A w \in Words : CleanWord(buf[w])

Operand == IF aliased THEN dst ELSE src

(* The destination after an addition or a subtraction whose exact result is "exact". *)
Arithmetic(exact) ==
  IF Clean(dst) /\ Clean(Operand)
    THEN dst' = exact
    ELSE dst' \in [Words -> {w \in Word : CleanWord(w)}]

Init ==
  /\ op \in Ops
  /\ aliased \in BOOLEAN
  /\ dst \in Buffers
  /\ src \in IF aliased \/ op \in {"check", "clear"} THEN {dst} ELSE Buffers
  /\ result = TRUE
  /\ finished = FALSE

Perform ==
  /\ ~finished
  /\ finished' = TRUE
  /\ \/ op = "add" /\ Arithmetic([w \in Words |-> LaneSum(dst[w], Operand[w])]) /\ result' = result
     \/ op = "sub" /\ Arithmetic([w \in Words |-> LaneDiff(dst[w], Operand[w])]) /\ result' = result
     \/ op = "check" /\ result' = Clean(dst) /\ dst' = dst
     \/ op = "clear" /\ dst' = [w \in Words |-> ClearWord(dst[w])] /\ result' = result
  /\ UNCHANGED <<op, aliased, src>>

Next == Perform

Spec == Init /\ [][Next]_vars /\ WF_vars(Next)

=============================================================================
