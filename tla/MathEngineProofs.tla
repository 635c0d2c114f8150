-------------------------- MODULE MathEngineProofs --------------------------
(***************************************************************************)
(* A call of a math engine is the atomic operation of LaneVector, for any  *)
(* number of words, any width of a vector and any element type.            *)
(***************************************************************************)
EXTENDS MathEngine, LaneWordProofs

(* What the call leaves in a word it has passed. *)
Source == IF aliased THEN dst0 ELSE src

Result(w) ==
  CASE op = "add"   -> EngineAdd(dst0[w], Source[w])
    [] op = "sub"   -> EngineSub(dst0[w], Source[w])
    [] op = "clear" -> And(dst0[w], DataFields)
    [] op = "check" -> dst0[w]

(* The words before the index are finished, the others are as they were. *)
WordsInOrder ==
  \A w \in Words : dst[w] = IF w < ix THEN Result(w) ELSE dst0[w]

(* What check_padding_bits knows of the words before the index, or at it. *)
VerdictInOrder ==
  /\ op # "check" => result = TRUE
  /\ op = "check" /\ result => \A w \in Words : w < ix => CleanWord(dst0[w])
  /\ op = "check" /\ ~result => \E w \in Words : ~CleanWord(dst0[w])

(* The inductive invariant.  A call that is done has passed every word, or
   has returned from MathEngine_Simple::check_padding_bits with FALSE.    *)
IInv ==
  /\ TypeOK
  /\ WordsInOrder
  /\ VerdictInOrder
  /\ pc = "done" => (ix >= NumWords \/ (op = "check" /\ ~result))

-----------------------------------------------------------------------------
LEMMA WordsFact == Words \subseteq Nat /\ \A w \in Words : w < NumWords
  BY EngineAssumption DEF Words

LEMMA WidthFact == ASSUME TypeOK PROVE Width \in 1 .. VecLen
  BY EngineAssumption DEF Width, TypeOK

LEMMA InitIInv == Init => IInv
<1> SUFFICES ASSUME Init PROVE IInv
  OBVIOUS
<1>1. /\ dst \in [Words -> Word] /\ src \in [Words -> Word] /\ dst0 = dst
  BY EngineAssumption DEF Init
<1>2. TypeOK
  BY <1>1, EngineAssumption DEF Init, TypeOK
<1>3. WordsInOrder
  BY <1>1, WordsFact DEF Init, WordsInOrder
<1>4. VerdictInOrder
  BY WordsFact DEF Init, VerdictInOrder
<1> QED
  BY <1>2, <1>3, <1>4 DEF Init, IInv

(* The loops over the words: what Store leaves is in order again. *)
LEMMA StoreInOrder ==
  ASSUME IInv, NEW new,
         dst' = [w \in Words |-> IF w \in Block THEN new[w] ELSE dst[w]],
         \A w \in Block : new[w] = Result(w) /\ new[w] \in Word,
         ix < NumWords, Advance, UNCHANGED call
  PROVE  WordsInOrder' /\ dst' \in [Words -> Word] /\ ix' \in 0 .. NumWords + VecLen
<1>1. /\ Width \in 1 .. VecLen /\ ix \in Nat /\ NumWords \in Nat /\ VecLen \in Nat
  BY WidthFact, EngineAssumption DEF IInv, TypeOK
<1>2. ix' = ix + Width /\ ix' \in 0 .. NumWords + VecLen
  BY <1>1 DEF Advance
<1>3. \A w \in Words : Result(w)' = Result(w) /\ dst0[w]' = dst0[w]
  BY DEF call, Result, Source
<1>4. ASSUME NEW w \in Words
      PROVE  dst'[w] = IF w < ix' THEN Result(w) ELSE dst0[w]
  <2>1. w \in Nat
    BY WordsFact
  <2>2. w \in Block <=> ix <= w /\ w < ix'
    BY <1>2 DEF Block
  <2>3. dst[w] = IF w < ix THEN Result(w) ELSE dst0[w]
    BY DEF IInv, WordsInOrder
  <2>4. dst'[w] = IF w \in Block THEN new[w] ELSE dst[w]
    OBVIOUS
  <2> QED
    BY <1>1, <1>2, <2>1, <2>2, <2>3, <2>4
<1>5. dst' \in [Words -> Word]
  BY DEF IInv, TypeOK, Block
<1> QED
  BY <1>2, <1>3, <1>4, <1>5 DEF WordsInOrder

(* An iteration reads the original words: those of its block are not yet
   rewritten, in dst and, when it is the same buffer, in the source.       *)
LEMMA BlockReadsOriginal ==
  ASSUME IInv, NEW w \in Block
  PROVE  w \in Words /\ dst[w] = dst0[w] /\ Operand[w] = Source[w]
         /\ dst0[w] \in Word /\ Source[w] \in Word
<1>1. w \in Words /\ ix <= w /\ w \in Nat /\ ix \in Nat
  BY WordsFact DEF Block, IInv, TypeOK
<1>2. dst[w] = dst0[w]
  BY <1>1 DEF IInv, WordsInOrder
<1> QED
  BY <1>1, <1>2 DEF Operand, Source, IInv, TypeOK

LEMMA AddStep == ASSUME IInv, AddBlock PROVE IInv'
<1> DEFINE new == [w \in Block |-> EngineAdd(dst[w], Operand[w])]
<1>1. ASSUME NEW w \in Block PROVE new[w] = Result(w) /\ new[w] \in Word
  BY BlockReadsOriginal, EngineResultClean DEF AddBlock, Result
<1>2. dst' = [w \in Words |-> IF w \in Block THEN new[w] ELSE dst[w]]
  BY DEF AddBlock, Store
<1> HIDE DEF new
<1>3. WordsInOrder' /\ dst' \in [Words -> Word] /\ ix' \in 0 .. NumWords + VecLen
  BY <1>1, <1>2, StoreInOrder DEF AddBlock
<1>4. TypeOK'
  BY <1>3 DEF IInv, TypeOK, AddBlock, call
<1>5. VerdictInOrder'
  BY DEF IInv, VerdictInOrder, AddBlock, call
<1> QED
  BY <1>3, <1>4, <1>5 DEF IInv, AddBlock

LEMMA SubStep == ASSUME IInv, SubBlock PROVE IInv'
<1> DEFINE new == [w \in Block |-> EngineSub(dst[w], Operand[w])]
<1>1. ASSUME NEW w \in Block PROVE new[w] = Result(w) /\ new[w] \in Word
  BY BlockReadsOriginal, EngineResultClean DEF SubBlock, Result
<1>2. dst' = [w \in Words |-> IF w \in Block THEN new[w] ELSE dst[w]]
  BY DEF SubBlock, Store
<1> HIDE DEF new
<1>3. WordsInOrder' /\ dst' \in [Words -> Word] /\ ix' \in 0 .. NumWords + VecLen
  BY <1>1, <1>2, StoreInOrder DEF SubBlock
<1>4. TypeOK'
  BY <1>3 DEF IInv, TypeOK, SubBlock, call
<1>5. VerdictInOrder'
  BY DEF IInv, VerdictInOrder, SubBlock, call
<1> QED
  BY <1>3, <1>4, <1>5 DEF IInv, SubBlock

LEMMA ClearStep == ASSUME IInv, ClearBlock PROVE IInv'
<1> DEFINE new == [w \in Block |-> And(dst[w], DataFields)]
<1>1. ASSUME NEW w \in Block PROVE new[w] = Result(w) /\ new[w] \in Word
  BY BlockReadsOriginal, AndWord, LayoutAssumption DEF ClearBlock, Result
<1>2. dst' = [w \in Words |-> IF w \in Block THEN new[w] ELSE dst[w]]
  BY DEF ClearBlock, Store
<1> HIDE DEF new
<1>3. WordsInOrder' /\ dst' \in [Words -> Word] /\ ix' \in 0 .. NumWords + VecLen
  BY <1>1, <1>2, StoreInOrder DEF ClearBlock
<1>4. TypeOK'
  BY <1>3 DEF IInv, TypeOK, ClearBlock, call
<1>5. VerdictInOrder'
  BY DEF IInv, VerdictInOrder, ClearBlock, call
<1> QED
  BY <1>3, <1>4, <1>5 DEF IInv, ClearBlock

(* A check rewrites nothing, so every word is in order at every index. *)
LEMMA CheckLeavesWords ==
  ASSUME IInv, op = "check", UNCHANGED <<call, dst>>
  PROVE  WordsInOrder' /\ (\A w \in Words : dst[w] = dst0[w])
<1>1. \A w \in Words : Result(w) = dst0[w] /\ Result(w)' = dst0[w]
  BY DEF Result, call
<1>2. \A w \in Words : dst[w] = dst0[w]
  BY <1>1 DEF IInv, WordsInOrder
<1>3. \A w \in Words : dst'[w] = dst0'[w] /\ Result(w)' = dst0'[w]
  BY <1>1, <1>2 DEF call
<1> QED
  BY <1>2, <1>3 DEF WordsInOrder

LEMMA CheckWordStep == ASSUME IInv, CheckWord PROVE IInv'
<1>1. /\ WordsInOrder' /\ (\A w \in Words : dst[w] = dst0[w])
  BY CheckLeavesWords DEF CheckWord
<1>2. /\ ix \in Words /\ ix \in Nat /\ Width = 1 /\ NumWords \in Nat /\ VecLen \in Nat \ {0}
  BY EngineAssumption DEF CheckWord, Words, Width, IInv, TypeOK
<1>3. CASE CleanWord(dst[ix])
  <2>1. ix' = ix + 1 /\ result' = result /\ pc' = pc
    BY <1>2, <1>3 DEF CheckWord, Advance
  <2>2. TypeOK'
    BY <1>2, <2>1 DEF IInv, TypeOK, CheckWord, call
  <2>3. ASSUME result, NEW w \in Words, w < ix' PROVE CleanWord(dst0[w])
    <3>1. w = ix \/ w < ix
      BY <1>2, <2>1, <2>3, WordsFact
    <3> QED
      BY <1>1, <1>2, <1>3, <2>3, <3>1 DEF IInv, VerdictInOrder, CheckWord
  <2>4. VerdictInOrder'
    BY <2>1, <2>3 DEF IInv, VerdictInOrder, CheckWord, call
  <2> QED
    BY <1>1, <2>1, <2>2, <2>4 DEF IInv, CheckWord
<1>4. CASE ~CleanWord(dst[ix])
  <2>1. ix' = ix /\ result' = FALSE /\ pc' = "done"
    BY <1>4 DEF CheckWord
  <2>2. TypeOK'
    BY <2>1 DEF IInv, TypeOK, CheckWord, call
  <2>3. VerdictInOrder'
    BY <1>1, <1>2, <1>4, <2>1 DEF VerdictInOrder, CheckWord, call
  <2>4. op' = "check"
    BY DEF CheckWord, call
  <2> QED
    BY <1>1, <2>1, <2>2, <2>3, <2>4 DEF IInv
<1> QED
  BY <1>3, <1>4

LEMMA MaskClean == CleanWord(MaskWord(DataFields))
  BY DEF CleanWord, MaskWord, And, Not, ZeroWord

(* A vector passes when its words pass: the lanes beyond the buffer do. *)
LEMMA LoadedVerdict ==
  ASSUME IInv, engine = "Hwy", \A w \in Words : dst[w] = dst0[w]
  PROVE  (\A l \in DOMAIN Loaded : CleanWord(Loaded[l]))
           <=> (\A w \in Words : ix <= w /\ w < ix + Width => CleanWord(dst0[w]))
<1>1. /\ ix \in Nat /\ NumWords \in Nat /\ VecLen \in Nat \ {0} /\ Width = VecLen
  BY EngineAssumption DEF IInv, TypeOK, Width
<1>2. DOMAIN Loaded = 0 .. VecLen - 1
  BY DEF Loaded
<1>3. ASSUME \A l \in DOMAIN Loaded : CleanWord(Loaded[l]),
             NEW w \in Words, ix <= w, w < ix + Width
      PROVE  CleanWord(dst0[w])
  <2>1. w \in Nat /\ w < NumWords
    BY WordsFact
  <2> DEFINE l == w - ix
  <2>2. l \in 0 .. VecLen - 1 /\ ix + l = w
    BY <1>1, <1>3, <2>1
  <2>3. Loaded[l] = dst[w]
    BY <1>1, <2>1, <2>2 DEF Loaded
  <2> QED
    BY <1>2, <1>3, <2>2, <2>3
<1>4. ASSUME \A w \in Words : ix <= w /\ w < ix + Width => CleanWord(dst0[w]),
             NEW l \in DOMAIN Loaded
      PROVE  CleanWord(Loaded[l])
  <2>1. l \in 0 .. VecLen - 1
    BY <1>2
  <2>2. CASE ix + l < NumWords
    <3>1. ix + l \in Words /\ ix <= ix + l /\ ix + l < ix + Width
      BY <1>1, <2>1, <2>2 DEF Words
    <3> QED
      BY <1>4, <2>1, <2>2, <3>1 DEF Loaded
  <2>3. CASE ~(ix + l < NumWords)
    BY <2>1, <2>3, MaskClean DEF Loaded
  <2> QED
    BY <2>2, <2>3
<1> QED
  BY <1>3, <1>4

LEMMA CheckVectorStep == ASSUME IInv, CheckVector PROVE IInv'
<1>1. /\ WordsInOrder' /\ (\A w \in Words : dst[w] = dst0[w])
  BY CheckLeavesWords DEF CheckVector
<1>2. /\ Width \in 1 .. VecLen /\ ix \in Nat /\ NumWords \in Nat /\ VecLen \in Nat
      /\ ix' = ix + Width /\ ix < NumWords
  BY WidthFact, EngineAssumption DEF IInv, TypeOK, CheckVector, Advance
<1>3. result' = (result /\ \A w \in Words : ix <= w /\ w < ix + Width => CleanWord(dst0[w]))
  BY <1>1, LoadedVerdict DEF CheckVector
<1>4. result' \in BOOLEAN
  BY <1>3 DEF IInv, TypeOK
<1>5. TypeOK'
  BY <1>2, <1>4 DEF IInv, TypeOK, CheckVector, call
<1>6. ASSUME result', NEW w \in Words, w < ix' PROVE CleanWord(dst0[w])
  <2>1. w < ix \/ ix <= w
    BY <1>2, WordsFact
  <2> QED
    BY <1>2, <1>3, <1>6, <2>1 DEF IInv, VerdictInOrder, CheckVector
<1>7. ASSUME ~result' PROVE \E w \in Words : ~CleanWord(dst0[w])
  BY <1>3, <1>7 DEF IInv, VerdictInOrder, CheckVector
<1>8. VerdictInOrder'
  BY <1>6, <1>7 DEF VerdictInOrder, CheckVector, call
<1> QED
  BY <1>1, <1>5, <1>8 DEF IInv, CheckVector

LEMMA ReturnStep == ASSUME IInv, Return PROVE IInv'
<1>1. TypeOK'
  BY DEF IInv, TypeOK, Return, call
<1>2. WordsInOrder'
  BY DEF IInv, WordsInOrder, Result, Source, Return, call
<1>3. VerdictInOrder'
  BY DEF IInv, VerdictInOrder, Return, call
<1> QED
  BY <1>1, <1>2, <1>3 DEF IInv, Return, call

LEMMA StutterStep == ASSUME IInv, UNCHANGED vars PROVE IInv'
  BY DEF IInv, TypeOK, WordsInOrder, VerdictInOrder, Result, Source, vars

(* The invariant holds throughout every call. *)
THEOREM IInvInvariant == Spec => []IInv
<1>1. IInv /\ [Next]_vars => IInv'
  BY AddStep, SubStep, ClearStep, CheckWordStep, CheckVectorStep, ReturnStep, StutterStep DEF Next
<1> QED
  BY <1>1, InitIInv, PTL DEF Spec

(* MathEngine is type correct: add, sub and clear store machine words only. *)
THEOREM TypeCorrect == Spec => []TypeOK
  BY IInvInvariant, PTL DEF IInv

(* No call, aliased or not, reads a word of the destination that it rewrote. *)
THEOREM UnreachedUntouched == Spec => []UnreachedWordsUntouched
<1>1. IInv => UnreachedWordsUntouched
  <2> SUFFICES ASSUME IInv, NEW w \in Words, w >= ix PROVE dst[w] = dst0[w]
    BY DEF UnreachedWordsUntouched
  <2>1. w \in Nat /\ ix \in Nat
    BY WordsFact DEF IInv, TypeOK
  <2> QED
    BY <2>1 DEF IInv, WordsInOrder
<1> QED
  BY <1>1, IInvInvariant, PTL

-----------------------------------------------------------------------------
(* LaneVector.  Its words are those of the engine.                         *)

LEMMA SameWords ==
  /\ Abstract!Words = Words /\ Abstract!Word = Word /\ Abstract!Ops = Ops
  /\ \A v : Abstract!CleanWord(v) <=> CleanWord(v)
  /\ \A v : Abstract!ClearWord(v) = ClearWord(v)
  /\ \A v, w : Abstract!LaneSum(v, w) = LaneSum(v, w) /\ Abstract!LaneDiff(v, w) = LaneDiff(v, w)
<1>1. Abstract!Fields = Fields
  BY DEF Abstract!Fields, Fields
<1>2. Abstract!Words = Words
  BY DEF Abstract!Words, Words
<1>3. Abstract!needs_padding = needs_padding
  BY <1>1 DEF Abstract!needs_padding, needs_padding
<1>4. Abstract!Word = Word
  BY <1>1 DEF Abstract!Word, Word, Abstract!Digits, Digits
<1>5. Abstract!Ops = Ops
  BY <1>3 DEF Abstract!Ops, Ops
<1>6. \A v, m : Abstract!And(v, m) = And(v, m)
  BY <1>1 DEF Abstract!And, And
<1>7. \A v : Abstract!CleanWord(v) <=> CleanWord(v)
  BY <1>1, <1>6 DEF Abstract!CleanWord, CleanWord, Abstract!Not, Not, Abstract!ZeroWord, ZeroWord
<1>8. \A v : Abstract!ClearWord(v) = ClearWord(v)
  BY <1>3, <1>6 DEF Abstract!ClearWord, ClearWord
<1>9. \A v, w : Abstract!LaneSum(v, w) = LaneSum(v, w) /\ Abstract!LaneDiff(v, w) = LaneDiff(v, w)
  BY <1>1 DEF Abstract!LaneSum, LaneSum, Abstract!LaneDiff, LaneDiff
<1> QED
  BY <1>2, <1>4, <1>5, <1>7, <1>8, <1>9

LEMMA InitRefines == Init => Abstract!Init
  BY SameWords DEF Init, Abstract!Init

(* A call that has passed every word has done what LaneVector does at once. *)
LEMMA SumsRefine ==
  ASSUME IInv, ix >= NumWords, op = "add"
  PROVE  IF (\A w \in Words : CleanWord(dst0[w])) /\ (\A w \in Words : CleanWord(Source[w]))
           THEN dst = [w \in Words |-> LaneSum(dst0[w], Source[w])]
           ELSE dst \in [Words -> {w \in Word : CleanWord(w)}]
<1>1. \A w \in Words : w < ix
  BY WordsFact, EngineAssumption DEF IInv, TypeOK
<1>2. \A w \in Words : dst[w] = EngineAdd(dst0[w], Source[w])
  BY <1>1 DEF IInv, WordsInOrder, Result
<1>3. dst \in [Words -> Word]
  BY DEF IInv, TypeOK
<1>4. \A w \in Words : dst0[w] \in Word /\ Source[w] \in Word
  BY DEF IInv, TypeOK, Source
<1>5. CASE (\A w \in Words : CleanWord(dst0[w])) /\ (\A w \in Words : CleanWord(Source[w]))
  <2>1. \A w \in Words : dst[w] = LaneSum(dst0[w], Source[w])
    BY <1>2, <1>4, <1>5, EngineAddLanes
  <2> QED
    BY <1>3, <1>5, <2>1
<1>6. \A w \in Words : dst[w] \in {v \in Word : CleanWord(v)}
  BY <1>2, <1>4, EngineResultClean
<1> QED
  BY <1>3, <1>5, <1>6

LEMMA DifferencesRefine ==
  ASSUME IInv, ix >= NumWords, op = "sub"
  PROVE  IF (\A w \in Words : CleanWord(dst0[w])) /\ (\A w \in Words : CleanWord(Source[w]))
           THEN dst = [w \in Words |-> LaneDiff(dst0[w], Source[w])]
           ELSE dst \in [Words -> {w \in Word : CleanWord(w)}]
<1>1. \A w \in Words : w < ix
  BY WordsFact, EngineAssumption DEF IInv, TypeOK
<1>2. \A w \in Words : dst[w] = EngineSub(dst0[w], Source[w])
  BY <1>1 DEF IInv, WordsInOrder, Result
<1>3. dst \in [Words -> Word]
  BY DEF IInv, TypeOK
<1>4. \A w \in Words : dst0[w] \in Word /\ Source[w] \in Word
  BY DEF IInv, TypeOK, Source
<1>5. CASE (\A w \in Words : CleanWord(dst0[w])) /\ (\A w \in Words : CleanWord(Source[w]))
  <2>1. \A w \in Words : dst[w] = LaneDiff(dst0[w], Source[w])
    BY <1>2, <1>4, <1>5, EngineSubLanes
  <2> QED
    BY <1>3, <1>5, <2>1
<1>6. \A w \in Words : dst[w] \in {v \in Word : CleanWord(v)}
  BY <1>2, <1>4, EngineResultClean
<1> QED
  BY <1>3, <1>5, <1>6

LEMMA ClearingRefines ==
  ASSUME IInv, ix >= NumWords, op = "clear"
  PROVE  dst = [w \in Words |-> ClearWord(dst0[w])]
<1>1. \A w \in Words : w < ix
  BY WordsFact, EngineAssumption DEF IInv, TypeOK
<1>2. \A w \in Words : dst[w] = And(dst0[w], DataFields)
  BY <1>1 DEF IInv, WordsInOrder, Result
<1>3. needs_padding
  BY DEF IInv, TypeOK, Ops
<1> QED
  BY <1>2, <1>3 DEF IInv, TypeOK, ClearWord

LEMMA CheckRefines ==
  ASSUME IInv, op = "check", ix >= NumWords \/ ~result
  PROVE  /\ result = (\A w \in Words : CleanWord(dst0[w]))
         /\ dst = dst0
<1>1. \A w \in Words : dst[w] = dst0[w]
  BY DEF IInv, WordsInOrder, Result
<1>2. dst = dst0
  BY <1>1 DEF IInv, TypeOK
<1>3. CASE ~result
  BY <1>2, <1>3 DEF IInv, VerdictInOrder, TypeOK
<1>4. CASE result /\ ix >= NumWords
  <2>1. \A w \in Words : w < ix
    BY <1>4, WordsFact, EngineAssumption DEF IInv, TypeOK
  <2> QED
    BY <1>2, <1>4, <2>1 DEF IInv, VerdictInOrder, TypeOK
<1> QED
  BY <1>3, <1>4

LEMMA AbstractOperands ==
  /\ Abstract!Operand = IF aliased THEN (IF pc = "done" THEN dst ELSE dst0) ELSE src
  /\ \A b : Abstract!Clean(b) <=> \A w \in Words : CleanWord(b[w])
  BY SameWords DEF Abstract!Operand, Abstract!Clean

(* Return is the operation. *)
LEMMA ReturnPerforms == ASSUME IInv, Return PROVE Abstract!Perform
<1>1. /\ pc = "loop" /\ pc' = "done" /\ ix >= NumWords
      /\ op' = op /\ aliased' = aliased /\ src' = src /\ dst' = dst /\ result' = result
  BY DEF Return, call
<1>2. Abstract!Operand = Source
  BY <1>1, AbstractOperands DEF Source
<1>3. op # "check" => result = TRUE
  BY DEF IInv, VerdictInOrder
<1>4. op \in {"add", "sub", "check", "clear"}
  BY DEF IInv, TypeOK, Ops
<1>5. CASE op = "add"
  <2>1. [w \in Abstract!Words |-> Abstract!LaneSum(dst0[w], Source[w])]
          = [w \in Words |-> LaneSum(dst0[w], Source[w])]
    BY SameWords
  <2>2. Abstract!Arithmetic([w \in Words |-> LaneSum(dst0[w], Source[w])])
    BY <1>1, <1>2, <1>5, SumsRefine, SameWords, AbstractOperands DEF Abstract!Arithmetic
  <2> QED
    BY <1>1, <1>2, <1>3, <1>5, <2>1, <2>2 DEF Abstract!Perform
<1>6. CASE op = "sub"
  <2>1. [w \in Abstract!Words |-> Abstract!LaneDiff(dst0[w], Source[w])]
          = [w \in Words |-> LaneDiff(dst0[w], Source[w])]
    BY SameWords
  <2>2. Abstract!Arithmetic([w \in Words |-> LaneDiff(dst0[w], Source[w])])
    BY <1>1, <1>2, <1>6, DifferencesRefine, SameWords, AbstractOperands DEF Abstract!Arithmetic
  <2> QED
    BY <1>1, <1>2, <1>3, <1>6, <2>1, <2>2 DEF Abstract!Perform
<1>7. CASE op = "clear"
  <2>1. [w \in Abstract!Words |-> Abstract!ClearWord(dst0[w])] = [w \in Words |-> ClearWord(dst0[w])]
    BY SameWords
  <2> QED
    BY <1>1, <1>3, <1>7, <2>1, ClearingRefines DEF Abstract!Perform
<1>8. CASE op = "check"
  BY <1>1, <1>8, CheckRefines, AbstractOperands DEF Abstract!Perform
<1> QED
  BY <1>4, <1>5, <1>6, <1>7, <1>8

(* So is the early return of a failed check. *)
LEMMA FailedCheckPerforms ==
  ASSUME IInv, CheckWord, ~CleanWord(dst[ix])
  PROVE  Abstract!Perform
<1>1. /\ pc = "loop" /\ pc' = "done" /\ op = "check" /\ result' = FALSE
      /\ op' = op /\ aliased' = aliased /\ src' = src /\ dst' = dst
  BY DEF CheckWord, call
<1>2. dst = dst0
  <2>1. \A w \in Words : dst[w] = dst0[w]
    BY <1>1 DEF IInv, WordsInOrder, Result
  <2> QED
    BY <2>1 DEF IInv, TypeOK
<1>3. ix \in Words
  BY EngineAssumption DEF CheckWord, IInv, TypeOK, Words
<1>4. ~Abstract!Clean(dst0)
  BY <1>2, <1>3, AbstractOperands
<1>5. (IF pc' = "done" THEN result' ELSE TRUE) = Abstract!Clean(dst0)
  BY <1>1, <1>4 DEF Abstract!Clean
<1>6. /\ (IF pc = "done" THEN dst ELSE dst0) = dst0
      /\ (IF pc' = "done" THEN dst' ELSE dst0') = dst0
  BY <1>1, <1>2
<1> QED
  BY <1>1, <1>5, <1>6 DEF Abstract!Perform

(* All other iterations are invisible. *)
LEMMA IterationsHidden ==
  ASSUME pc' = pc, UNCHANGED call, pc = "loop"
  PROVE  UNCHANGED Abstract!vars
  BY DEF Abstract!vars, call

LEMMA StepRefines == IInv /\ [Next]_vars => [Abstract!Next]_(Abstract!vars)
<1> SUFFICES ASSUME IInv, [Next]_vars PROVE [Abstract!Next]_(Abstract!vars)
  OBVIOUS
<1>1. ASSUME AddBlock \/ SubBlock \/ ClearBlock \/ CheckVector PROVE UNCHANGED Abstract!vars
  BY <1>1, IterationsHidden DEF AddBlock, SubBlock, ClearBlock, CheckVector
<1>2. ASSUME CheckWord PROVE Abstract!Perform \/ UNCHANGED Abstract!vars
  <2>1. CASE CleanWord(dst[ix])
    BY <1>2, <2>1, IterationsHidden DEF CheckWord
  <2> QED
    BY <1>2, <2>1, FailedCheckPerforms
<1>3. ASSUME UNCHANGED vars PROVE UNCHANGED Abstract!vars
  BY <1>3 DEF vars, Abstract!vars
<1> QED
  BY <1>1, <1>2, <1>3, ReturnPerforms DEF Next, Abstract!Next

(* A call of add, sub, check_padding_bits or clear_padding_bits of either
   engine is safe to take for the atomic operation of LaneVector; that it
   ends is a matter of fairness.                                           *)
THEOREM EngineIsAtomic == Spec => Abstract!Init /\ [][Abstract!Next]_(Abstract!vars)
  BY InitRefines, StepRefines, IInvInvariant, PTL DEF Spec

=============================================================================
