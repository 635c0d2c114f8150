----------------------------- MODULE MathEngine -----------------------------
(***************************************************************************)
(* One call of a math engine of LtHash, word by word (MathEngine_Simple)   *)
(* or vector by vector (MathEngine_Hwy, through highway's Transform1,      *)
(* Foreach and Transform).  The destination is rewritten in place while    *)
(* the loop runs, and source and destination may be the same buffer: that  *)
(* is what x.combine_add(x) does.                                          *)
(***************************************************************************)
EXTENDS LaneWord

CONSTANTS
  NumWords,   \* words in a checksum
  VecLen,     \* 64-bit lanes of a highway vector
  Buffers     \* checksums a caller passes

Words == 0 .. NumWords - 1

ASSUME EngineAssumption ==
  /\ NumWords \in Nat \ {0}
  /\ VecLen \in Nat \ {0}
  /\ Buffers \subseteq [Words -> Word]

VARIABLES
  engine,     \* "Simple" or "Hwy"
  op,         \* the function called
  aliased,    \* source and destination are the same buffer
  dst, src,   \* the buffers
  ix,         \* the loop index
  result,     \* the value check_padding_bits returns
  pc,         \* "loop" or "done"
  dst0        \* history: the destination when the call began

vars == <<engine, op, aliased, dst, src, ix, result, pc, dst0>>

call == <<engine, op, aliased, src, dst0>>

Ops == IF needs_padding THEN {"add", "sub", "check", "clear"} ELSE {"add", "sub"}

Init ==
  /\ engine \in {"Simple", "Hwy"}
  /\ op \in Ops
  /\ aliased \in BOOLEAN
  /\ dst \in Buffers
  /\ src \in IF aliased \/ op \in {"check", "clear"} THEN {dst} ELSE Buffers
  /\ ix = 0
  /\ result = TRUE
  /\ pc = "loop"
  /\ dst0 = dst

Width == IF engine = "Hwy" THEN VecLen ELSE 1

(* Faulty: one word too many. *)
BlockInclusive == {w \in Words : ix <= w /\ w <= ix + Width}

(* The words one iteration loads and stores; the last vector is partial. *)
Block == {w \in Words : ix <= w /\ w < ix + Width}

Operand == IF aliased THEN dst ELSE src

Store(value(_)) == dst' = [w \in Words |-> IF w \in Block THEN value(w) ELSE dst[w]]

Advance == ix' = ix + Width

AddBlock ==
  /\ pc = "loop" /\ op = "add" /\ ix < NumWords
  /\ LET sum(w) == EngineAdd(dst[w], Operand[w]) IN Store(sum)
  /\ Advance
  /\ UNCHANGED <<call, result, pc>>

SubBlock ==
  /\ pc = "loop" /\ op = "sub" /\ ix < NumWords
  /\ LET diff(w) == EngineSub(dst[w], Operand[w]) IN Store(diff)
  /\ Advance
  /\ UNCHANGED <<call, result, pc>>

ClearBlock ==
  /\ pc = "loop" /\ op = "clear" /\ ix < NumWords
  /\ LET cleared(w) == And(dst[w], DataFields) IN Store(cleared)
  /\ Advance
  /\ UNCHANGED <<call, result, pc>>

(* MathEngine_Simple returns at the first word with a padding bit set. *)
CheckWord ==
  /\ pc = "loop" /\ op = "check" /\ engine = "Simple" /\ ix < NumWords
  /\ IF CleanWord(dst[ix])
       THEN Advance /\ UNCHANGED <<result, pc>>
       ELSE result' = FALSE /\ pc' = "done" /\ UNCHANGED ix
  /\ UNCHANGED <<call, dst>>

(* Lanes of the last vector beyond the buffer hold the mask itself. *)
Loaded == [l \in 0 .. VecLen - 1 |->
             IF ix + l < NumWords THEN dst[ix + l] ELSE MaskWord(DataFields)]

(* MathEngine_Hwy looks at every vector and remembers a failure. *)
CheckVector ==
  /\ pc = "loop" /\ op = "check" /\ engine = "Hwy" /\ ix < NumWords
  /\ result' = (result /\ \A l \in DOMAIN Loaded : CleanWord(Loaded[l]))
  /\ Advance
  /\ UNCHANGED <<call, dst, pc>>

Return ==
  /\ pc = "loop" /\ ix >= NumWords
  /\ pc' = "done"
  /\ UNCHANGED <<call, dst, ix, result>>

Next == AddBlock \/ SubBlock \/ ClearBlock \/ CheckWord \/ CheckVector \/ Return

Spec == Init /\ [][Next]_vars /\ WF_vars(Next)

-----------------------------------------------------------------------------
(* Properties.                                                             *)

(* Type correctness: every buffer of the call of add, sub, check or clear
   stays a buffer of machine words.                                       *)
TypeOK ==
  /\ engine \in {"Simple", "Hwy"}
  /\ op \in Ops
  /\ aliased \in BOOLEAN
  /\ dst \in [Words -> Word] /\ src \in [Words -> Word] /\ dst0 \in [Words -> Word]
  /\ ix \in 0 .. NumWords + VecLen
  /\ result \in BOOLEAN
  /\ pc \in {"loop", "done"}

(* The in-place loop is safe when source and destination coincide: a word
   not yet reached still holds the value it had when add, sub or clear was
   called, so no iteration reads a word an earlier one already rewrote.   *)
UnreachedWordsUntouched == \A w \in Words : w >= ix => dst[w] = dst0[w]

(* A call of either engine, aliased or not, with a last vector that is full
   or partial, ends and does what the atomic element-wise LaneVector does. *)
Abstract == INSTANCE LaneVector WITH
  dst <- IF pc = "done" THEN dst ELSE dst0,
  result <- IF pc = "done" THEN result ELSE TRUE,
  finished <- pc = "done"

ImplementsLaneVector == Abstract!Spec

=============================================================================
