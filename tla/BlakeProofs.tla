---------------------------- MODULE BlakeProofs -----------------------------
(***************************************************************************)
(* Blake2Xb: finish fills a buffer of any size with the bytes of the       *)
(* BLAKE2Xb tree, for blocks, keys, inputs and lengths of any size; the    *)
(* loop invariant ties the position in the buffer to the node and to the   *)
(* parameter block that the loop rewrites.                                 *)
(* Blake2b and Blake3: what Blake2b checks is enough for libsodium,        *)
(* whatever its limits; the invariants tie the state of the library to     *)
(* what the constructor was given and what was fed.                        *)
(* All three implement the abstract hasher, and so does the one that lives *)
(* in BlakeHashers.                                                        *)
(***************************************************************************)
EXTENDS BlakeHashers, SequenceTheorems, WellFoundedInduction, TLAPS

total == pos + remaining

(* The parameter block while blocks of n bytes in all are produced. *)
BlockParam(a, n, digest_len, node_off) ==
  [digest_len |-> digest_len, key_len |-> 0, fanout |-> 0, depth |-> 0,
   leaf_len |-> BYTES_MAX, node_off |-> node_off, xof_digest_len |-> n % FieldSize,
   inner_len |-> BYTES_MAX, custom |-> a.custom]

Ready ==
  /\ LegalLength(args.output_len)
  /\ param_ = Root(args)
  /\ state_ = RootHash(args, pieces)

Expanding ==
  /\ pos \in Nat /\ remaining \in Nat
  /\ ~Dynamic => total = args.extent
  /\ h0 = RootHash(args, pieces)
  /\ param_ = BlockParam(args, total, param_.digest_len, param_.node_off)
  /\ remaining > 0 => \E q \in Nat : pos = q * BYTES_MAX
  /\ total \in Sizes \cup OutputExtents /\ AcceptsSize(args, total)
  /\ out = [i \in DOMAIN out |-> out[i]]

Inv ==
  /\ pc \in {"none", "ready", "blocks", "finished", "threw"}
  /\ args \in Arguments
  /\ pieces \in Seq(Data)
  /\ pc = "none" => param_ = ZeroParam /\ pieces = <<>>
  /\ pc \notin {"blocks", "finished"} => out = <<>>
  /\ pc = "ready" => Ready
  /\ pc \in {"blocks", "finished"} => Expanding
  /\ pc = "finished" => remaining = 0
  /\ OutputIsXofPrefix

-----------------------------------------------------------------------------
(* Division of an offset into a block and an offset in the block. *)
LEMMA BlockOffset ==
  ASSUME NEW b \in Nat \ {0}, NEW q \in Nat, NEW x \in Nat, q * b <= x, x < q * b + b
  PROVE  x \div b = q /\ x % b = x - q * b
<1>1. x \div b = q
  OBVIOUS
<1> DEFINE r == x - q * b
<1>2. r \in 0 .. b - 1 /\ x = q * b + r
  OBVIOUS
<1> HIDE DEF r
<1>3. (q * b + r) % b = r
  BY <1>2
<1>4. x % b = r
  BY <1>2, <1>3
<1> QED
  BY <1>1, <1>4 DEF r

(* Every offset lies in a block: the least multiple beyond it ends the block. *)
LEMMA BlockOfOffset ==
  ASSUME NEW b \in Nat \ {0}, NEW x \in Nat
  PROVE  \E q \in Nat : q * b <= x /\ x < q * b + b
<1> DEFINE Beyond == {n \in Nat : x < n * b}
<1>1. x + 1 \in Beyond
  <2>1. PICK n \in Nat : n = x + 1
    OBVIOUS
  <2>2. PICK c \in Nat : b = c + 1
    <3>1. b - 1 \in Nat /\ b = (b - 1) + 1
      OBVIOUS
    <3> QED
      BY <3>1
  <2>3. n * b = n * c + n /\ n * c \in Nat
    BY <2>2
  <2>4. n * b \in Nat /\ x < n * b
    BY <2>1, <2>3
  <2> QED
    BY <2>1, <2>4
<1>2. PICK n \in Beyond : \A k \in Beyond : ~ (<<k, n>> \in OpToRel(<, Nat))
  <2>1. Beyond \subseteq Nat /\ Beyond # {}
    BY <1>1
  <2> HIDE DEF Beyond
  <2> QED
    BY <2>1, WFMin, NatLessThanWellFounded
<1>3. \A k \in Beyond : ~ (k < n)
  <2> SUFFICES ASSUME NEW k \in Beyond, k < n PROVE FALSE
    OBVIOUS
  <2>1. <<k, n>> \in OpToRel(<, Nat)
    BY DEF OpToRel
  <2> QED
    BY <1>2, <2>1
<1>4. n \in Nat /\ x < n * b /\ n # 0
  <2>1. n \in Nat /\ x < n * b
    BY <1>2
  <2>2. 0 * b = 0
    OBVIOUS
  <2> QED
    BY <2>1, <2>2
<1>5. PICK q \in Nat : n = q + 1
  <2>1. n - 1 \in Nat /\ n = (n - 1) + 1
    BY <1>4
  <2> QED
    BY <2>1
<1>6. ~ (x < q * b)
  BY <1>3, <1>4, <1>5
<1>7. n * b = q * b + b /\ q * b \in Nat
  BY <1>5
<1> QED
  BY <1>4, <1>6, <1>7

LEMMA NextMultiple ==
  ASSUME NEW m \in Nat, NEW n \in Nat, NEW b \in Nat, m < n
  PROVE  m * b + b <= n * b
<1>1. PICK d \in Nat : n = (m + 1) + d
  <2>1. n - (m + 1) \in Nat /\ n = (m + 1) + (n - (m + 1))
    OBVIOUS
  <2> QED
    BY <2>1
<1>2. n * b = (m * b + b) + d * b /\ d * b \in Nat /\ m * b \in Nat
  BY <1>1
<1> QED
  BY <1>2

(* Numbers that agree modulo f are some multiple of f apart. *)
LEMMA SameRemainder ==
  ASSUME NEW f \in Nat \ {0}, NEW p \in Nat, NEW q \in Nat, p <= q, p % f = q % f
  PROVE  \E d \in Nat : q = p + d * f
<1>1. PICK a \in Nat : a * f <= p /\ p < a * f + f
  BY BlockOfOffset
<1>2. PICK c \in Nat : c * f <= q /\ q < c * f + f
  BY BlockOfOffset
<1>3. p - a * f = q - c * f
  BY <1>1, <1>2, BlockOffset
<1>4. ~ (c < a)
  <2> SUFFICES ASSUME c < a PROVE FALSE
    OBVIOUS
  <2>1. c * f + f <= a * f
    BY NextMultiple
  <2>2. c * f \in Nat /\ a * f \in Nat
    OBVIOUS
  <2> QED
    BY <1>1, <1>2, <2>1, <2>2
<1>5. PICK d \in Nat : c = a + d
  <2>1. c - a \in Nat /\ c = a + (c - a)
    BY <1>4
  <2> QED
    BY <2>1
<1>6. c * f = a * f + d * f /\ a * f \in Nat /\ d * f \in Nat
  BY <1>5
<1>7. q = p + d * f
  BY <1>3, <1>6
<1> QED
  BY <1>7

LEMMA SmallModulus ==
  ASSUME NEW n \in Nat, NEW m \in Nat, n < m
  PROVE  n % m = n
  OBVIOUS

LEMMA ArgumentFields ==
  ASSUME NEW a \in Arguments
  PROVE  /\ a.extent \in {0} \cup OutputExtents
         /\ a.output_len \in OutputLens \cup OutputExtents
         /\ a.key \in Keys
         /\ a.extent # 0 => a.output_len = a.extent
         /\ a.extent \in Nat /\ a.output_len \in Nat
<1>1. CASE a \in [extent : {0}, output_len : OutputLens, key : Keys, custom : Customs]
  <2>1. a.extent = 0 /\ a.output_len \in OutputLens /\ a.key \in Keys
    BY <1>1
  <2>2. OutputLens \subseteq Nat
    BY Blake2XbAssumption
  <2>3. a.output_len \in Nat
    BY <2>1, <2>2, Zenon
  <2> QED
    BY <2>1, <2>3
<1>2. CASE a \notin [extent : {0}, output_len : OutputLens, key : Keys, custom : Customs]
  <2>1. PICK n \in OutputExtents \ {0} :
           a \in [extent : {n}, output_len : {n}, key : Keys, custom : Customs]
    BY <1>2, Zenon DEF Arguments
  <2>2. n \in Nat
    BY Blake2XbAssumption DEF max_output_extent
  <2>3. a.extent = n /\ a.output_len = n /\ a.key \in Keys
    BY <2>1
  <2> QED
    BY <2>2, <2>3
<1> QED
  BY <1>1, <1>2

(* The buffers given to finish have a length. *)
LEMMA BufferSizes ==
  ASSUME args \in Arguments, NEW n \in Buffers
  PROVE  n \in Nat
<1>1. CASE Dynamic
  BY <1>1, Blake2XbAssumption DEF Buffers
<1>2. CASE ~Dynamic
  BY <1>2, ArgumentFields DEF Buffers, Dynamic
<1> QED
  BY <1>1, <1>2

-----------------------------------------------------------------------------
LEMMA InvInit == Init => Inv
  BY DEF Init, Inv, OutputIsXofPrefix

LEMMA StepConstruct ==
  ASSUME Inv, NEW initialised \in BOOLEAN, Construct(initialised)
  PROVE  Inv'
<1>1. pc = "none" /\ param_ = ZeroParam /\ pieces = <<>> /\ args' = args /\ pieces' = pieces
      /\ out = <<>> /\ out' = out
  BY DEF Construct, Inv
<1>2. CASE ~(LegalLength(args.output_len) /\ LegalKey(args.key) /\ initialised)
  BY <1>1, <1>2 DEF Construct, Inv, OutputIsXofPrefix
<1>3. CASE LegalLength(args.output_len) /\ LegalKey(args.key) /\ initialised
  <2>1. pc' = "ready" /\ state_' = Initialised(param_', args.key)
    BY <1>3 DEF Construct
  <2>2. param_' = Root(args)
    BY <1>1, <1>3 DEF Construct, Root, ZeroParam, unknown_output_extent, unknown_output_extend_magic
  <2>3. state_' = RootHash(args, pieces)
    BY <1>1, <2>1, <2>2 DEF Initialised, RootHash
  <2> QED
    BY <1>1, <1>3, <2>1, <2>2, <2>3 DEF Inv, Ready, OutputIsXofPrefix
<1> QED
  BY <1>2, <1>3

LEMMA StepDigest ==
  ASSUME Inv, NEW d \in Data, digest(d)
  PROVE  Inv'
<1>1. pc = "ready" /\ pc' = pc /\ args' = args /\ param_' = param_ /\ pieces' = Append(pieces, d)
      /\ state_' = Updated(state_, d) /\ out' = out /\ out = <<>>
  BY DEF digest, Inv
<1>2. Ready /\ pieces \in Seq(Data)
  BY <1>1 DEF Inv
<1> DEFINE prefix == IF KeyLen(args.key) > 0 THEN <<KeyBlock(args.key)>> ELSE <<>>
<1>3. pieces' \in Seq(Data)
  BY <1>1, <1>2, AppendProperties
<1>4. Append(prefix \o pieces, d) = prefix \o Append(pieces, d)
  <2>1. PICK S : S = Data \cup {KeyBlock(args.key)}
    OBVIOUS
  <2>2. pieces \in Seq(S) /\ d \in S
    BY <1>2, <2>1, SeqMonotonic
  <2>3. KeyBlock(args.key) \in S
    BY <2>1
  <2>4. prefix \in Seq(S)
    BY <2>3
  <2> HIDE DEF prefix
  <2> QED
    BY <2>2, <2>4
<1>5. state_' = [param |-> Root(args), input |-> Append(prefix \o pieces, d)]
  BY <1>1, <1>2 DEF Ready, RootHash, Updated
<1>6. state_' = RootHash(args, pieces')
  BY <1>1, <1>4, <1>5, Zenon DEF RootHash
<1> QED
  BY <1>1, <1>2, <1>3, <1>6 DEF Inv, Ready, OutputIsXofPrefix

LEMMA StepMismatch ==
  ASSUME Inv, NEW n \in Buffers, finish_mismatch(n)
  PROVE  Inv'
  BY DEF finish_mismatch, Inv, Ready, OutputIsXofPrefix

(* A buffer that finish takes has the length given to the constructor, if
   it was given one.                                                      *)
LEMMA MatchingLength ==
  ASSUME Ready, args \in Arguments, NEW n \in Buffers, Matches(n)
  PROVE  AcceptsSize(args, n)
<1>1. max_output_extent \in Nat /\ unknown_output_extend_magic = max_output_extent + 1
  BY Blake2XbAssumption DEF max_output_extent, unknown_output_extend_magic
<1>2. args.output_len <= max_output_extent /\ args.output_len \in Nat /\ param_ = Root(args)
  BY ArgumentFields DEF Ready, LegalLength
<1>3. args.output_len # 0 => param_.xof_digest_len = args.output_len
  BY <1>2 DEF Root
<1>4. CASE Dynamic
  BY <1>1, <1>2, <1>3, <1>4 DEF Matches, AcceptsSize
<1>5. CASE ~Dynamic
  BY <1>5, ArgumentFields DEF Buffers, Dynamic, AcceptsSize
<1> QED
  BY <1>4, <1>5

(* finish turns the parameters of the root into those of the blocks. *)
LEMMA StepFinish ==
  ASSUME Inv, NEW n \in Buffers, finish(n)
  PROVE  Inv'
<1>1. /\ pc = "ready" /\ pc' = "blocks" /\ args' = args /\ pieces' = pieces
      /\ h0' = state_ /\ param_' = Expansion(param_, n)
      /\ pos' = 0 /\ remaining' = n /\ out' = [i \in 0 .. n - 1 |-> Unwritten]
  BY DEF finish
<1>2. Ready /\ args \in Arguments /\ pieces \in Seq(Data)
  BY <1>1 DEF Inv
<1>3. n \in Nat
  BY <1>2, BufferSizes
<1>5. total' = n
  BY <1>1, <1>3 DEF total
<1>6. param_' = BlockParam(args, n, param_'.digest_len, param_'.node_off)
  BY <1>1, <1>2 DEF Ready, Root, Expansion, BlockParam
<1>7. Expanding'
  <2>1. pos' = 0 * BYTES_MAX
    BY <1>1, Blake2XbAssumption
  <2>2. h0' = RootHash(args', pieces')
    BY <1>1, <1>2 DEF Ready
  <2>3. n \in Sizes \cup OutputExtents
    BY <1>2, ArgumentFields DEF Buffers, Dynamic
  <2>4. AcceptsSize(args, n)
    BY <1>1, <1>2, MatchingLength DEF finish
  <2>5. out' = [i \in DOMAIN out' |-> out'[i]]
    BY <1>1
  <2>6. ~Dynamic' => total' = args'.extent
    BY <1>1, <1>5 DEF Dynamic, Buffers
  <2> QED
    BY <1>1, <1>3, <1>5, <1>6, <2>1, <2>2, <2>3, <2>4, <2>5, <2>6 DEF Expanding
<1>8. OutputIsXofPrefix'
  BY <1>1, <1>3 DEF OutputIsXofPrefix
<1> QED
  BY <1>1, <1>2, <1>7, <1>8 DEF Inv

(* A block of output is a node of the tree. *)
LEMMA StepBlock ==
  ASSUME Inv, finish_block
  PROVE  Inv'
<1>1. /\ pc = "blocks" /\ remaining > 0 /\ pc' = pc /\ args' = args /\ pieces' = pieces /\ h0' = h0
      /\ param_' = NodeOf(param_)
      /\ state_' = [param |-> param_', input |-> <<h0>>]
      /\ out' = [i \in DOMAIN out |->
                   IF pos <= i /\ i < pos + BlockLen THEN Byte(state_', i - pos) ELSE out[i]]
      /\ pos' = pos + BlockLen
      /\ remaining' = remaining - BlockLen
  BY DEF finish_block
<1>2. Expanding /\ args \in Arguments /\ pieces \in Seq(Data) /\ OutputIsXofPrefix
  BY <1>1 DEF Inv
<1>3. pos \in Nat /\ remaining \in Nat /\ BYTES_MAX \in Nat \ {0} /\ FieldSize \in Nat
  BY <1>2, Blake2XbAssumption DEF Expanding
<1>4. BlockLen \in Nat /\ BlockLen <= remaining /\ BlockLen <= BYTES_MAX
      /\ (BlockLen # remaining => BlockLen = BYTES_MAX)
  BY <1>3 DEF BlockLen
<1>5. pos' \in Nat /\ remaining' \in Nat /\ total' = total
  BY <1>1, <1>3, <1>4 DEF total
<1>6. PICK q \in Nat : pos = q * BYTES_MAX
  BY <1>1, <1>2 DEF Expanding
<1>7. pos \div BYTES_MAX = q
  BY <1>3, <1>6, BlockOffset
<1>9. param_' = Node(args, total, q)
  <2>1. param_' = BlockParam(args, total, BlockLen, q % FieldSize)
    <3>1. PICK m, k : param_ = BlockParam(args, total, m, k)
      BY <1>2, Zenon DEF Expanding
    <3>2. param_' = [param_ EXCEPT !.node_off = q % FieldSize, !.digest_len = BlockLen]
      BY <1>1, <1>7, Zenon DEF NodeOf
    <3> QED
      BY <3>1, <3>2 DEF BlockParam
  <2>2. (q + 1) * BYTES_MAX = pos + BYTES_MAX
    BY <1>3, <1>6
  <2>3. BlockLen = IF total < (q + 1) * BYTES_MAX THEN total - q * BYTES_MAX ELSE BYTES_MAX
    BY <1>3, <1>6, <2>2 DEF BlockLen, total
  <2> QED
    BY <2>1, <2>3 DEF BlockParam, Node
<1>10. Expanding'
  <2>1. param_' = BlockParam(args', total', param_'.digest_len, param_'.node_off)
    BY <1>1, <1>5, <1>9 DEF Node, BlockParam
  <2>2. remaining' > 0 => \E r \in Nat : pos' = r * BYTES_MAX
    <3>1. SUFFICES ASSUME remaining' > 0 PROVE \E r \in Nat : pos' = r * BYTES_MAX
      OBVIOUS
    <3>2. pos' = (q + 1) * BYTES_MAX
      BY <1>1, <1>3, <1>4, <1>6, <3>1
    <3> QED
      BY <3>2
  <2>3. out' = [i \in DOMAIN out' |-> out'[i]]
    BY <1>1
  <2> QED
    BY <1>1, <1>2, <1>5, <2>1, <2>2, <2>3 DEF Expanding, Dynamic
<1>11. DOMAIN out' = DOMAIN out /\ DOMAIN out = 0 .. total - 1
  <2>1. DOMAIN out' = DOMAIN out
    BY <1>1, Zenon
  <2>2. DOMAIN out = 0 .. total - 1
    BY <1>1, <1>2, <1>3 DEF OutputIsXofPrefix, total
  <2> QED
    BY <2>1, <2>2
<1>12. ASSUME NEW i \in DOMAIN out
       PROVE  out'[i] = IF i < pos' THEN XofByte(args, pieces, total, i) ELSE Unwritten
  <2>1. i \in Nat
    BY <1>3, <1>11 DEF total
  <2>2. out[i] = IF i < pos THEN XofByte(args, pieces, total, i) ELSE Unwritten
    BY <1>1, <1>2 DEF OutputIsXofPrefix, total
  <2>3. CASE pos <= i /\ i < pos + BlockLen
    <3>1. i \div BYTES_MAX = q /\ i % BYTES_MAX = i - pos
      <4>1. q * BYTES_MAX <= i /\ i < q * BYTES_MAX + BYTES_MAX
        BY <1>3, <1>4, <1>6, <2>1, <2>3
      <4> QED
        BY <1>3, <1>6, <2>1, <4>1, BlockOffset
    <3>2. out'[i] = Byte(state_', i - pos) /\ i < pos'
      BY <1>1, <2>3
    <3>3. state_' = [param |-> Node(args, total, q), input |-> <<RootHash(args, pieces)>>]
      BY <1>1, <1>2, <1>9 DEF Expanding
    <3> QED
      BY <3>1, <3>2, <3>3 DEF XofByte
  <2>4. CASE ~(pos <= i /\ i < pos + BlockLen)
    <3>1. out'[i] = out[i]
      BY <1>1, <2>4
    <3>2. i < pos' <=> i < pos
      BY <1>1, <1>3, <1>4, <2>1, <2>4
    <3> QED
      BY <2>2, <3>1, <3>2
  <2> QED
    BY <2>3, <2>4
<1>13. OutputIsXofPrefix'
  BY <1>1, <1>5, <1>11, <1>12 DEF OutputIsXofPrefix, total
<1> QED
  BY <1>1, <1>2, <1>10, <1>13 DEF Inv

LEMMA StepReturn ==
  ASSUME Inv, finish_return
  PROVE  Inv'
  BY DEF finish_return, Inv, Expanding, Dynamic, OutputIsXofPrefix, total

LEMMA StepStutter ==
  ASSUME Inv, UNCHANGED vars
  PROVE  Inv'
  BY DEF vars, Inv, Ready, Expanding, Dynamic, OutputIsXofPrefix, total

LEMMA InvStep == Inv /\ [Next]_vars => Inv'
<1> SUFFICES ASSUME Inv, [Next]_vars PROVE Inv'
  OBVIOUS
<1>1. ASSUME NEW n \in Buffers, finish_mismatch(n) \/ finish(n) PROVE Inv'
  BY <1>1, StepMismatch, StepFinish
<1> QED
  BY <1>1, StepConstruct, StepDigest, StepBlock, StepReturn, StepStutter DEF Next

(* The invariant of the hasher, for every size of blocks, keys and inputs. *)
THEOREM InvInvariant == Spec => []Inv
  BY InvInit, InvStep, PTL DEF Spec

(* finish writes the bytes of the BLAKE2Xb tree from front to back. *)
THEOREM OutputAlwaysXof == Spec => []OutputIsXofPrefix
<1>1. Inv => OutputIsXofPrefix
  BY DEF Inv
<1> QED
  BY <1>1, InvInvariant, PTL

(* The invariant holds the length in the parameter block to the arguments. *)
LEMMA InvAnnounced == Inv => AnnouncedLength
<1> SUFFICES ASSUME Inv PROVE AnnouncedLength
  OBVIOUS
<1>1. max_output_extent \in Nat /\ unknown_output_extend_magic = max_output_extent + 1
  BY Blake2XbAssumption DEF max_output_extent, unknown_output_extend_magic
<1>2. args \in Arguments
  BY DEF Inv
<1>3. args.output_len \in Nat /\ (args.extent # 0 => args.output_len = args.extent)
  BY <1>2, ArgumentFields
<1>4. ASSUME pc = "ready" PROVE concrete_output_extent = args.output_len
  <2>1. args.output_len <= max_output_extent /\ param_ = Root(args)
    BY <1>4 DEF Inv, Ready, LegalLength
  <2>2. param_.xof_digest_len = IF args.output_len = 0 THEN unknown_output_extend_magic
                                ELSE args.output_len
    BY <2>1 DEF Root, unknown_output_extend_magic
  <2> QED
    BY <1>1, <1>3, <2>1, <2>2 DEF concrete_output_extent, Dynamic, unknown_output_extent
<1>5. ASSUME pc = "finished", pos <= max_output_extent PROVE concrete_output_extent = pos
  <2>1. Expanding /\ remaining = 0
    BY <1>5 DEF Inv
  <2>2. total = pos /\ pos \in Nat /\ pos <= max_output_extent
    BY <1>5, <2>1 DEF Expanding, total
  <2>3. param_.xof_digest_len = pos
    <3>1. PICK m, k : param_ = BlockParam(args, total, m, k)
      BY <2>1, Zenon DEF Expanding
    <3> QED
      BY <1>1, <2>2, <3>1, SmallModulus, Blake2XbAssumption DEF BlockParam, max_output_extent
  <2>4. ~Dynamic => pos = args.extent
    BY <2>1, <2>2 DEF Expanding
  <2> QED
    BY <1>1, <2>2, <2>3, <2>4 DEF concrete_output_extent
<1> QED
  BY <1>4, <1>5 DEF AnnouncedLength

(* Before finish, concrete_output_extent is the length given to the
   constructor, and after it the length that was produced.          *)
THEOREM LengthAlwaysAnnounced == Spec => []AnnouncedLength
  BY InvAnnounced, InvInvariant, PTL

LEMMA SamePlace ==
  ASSUME NEW m, NEW n, NEW root, NEW k, NEW l,
         Byte([param |-> m, input |-> root], k) = Byte([param |-> n, input |-> root], l)
  PROVE  m = n /\ k = l
  BY DEF Byte

(* The same byte lies at the same place of nodes with the same number, and
   these are a multiple of all numbers apart.                              *)
LEMMA InvFarApart == Inv => RepeatsFarApart
<1> SUFFICES ASSUME Inv, pc \in {"blocks", "finished"},
                    NEW i \in 0 .. pos - 1, NEW j \in 0 .. pos - 1, i < j, out[i] = out[j]
             PROVE  (j - i) % (BYTES_MAX * FieldSize) = 0
  BY DEF RepeatsFarApart
<1>1. pos \in Nat /\ remaining \in Nat /\ BYTES_MAX \in Nat \ {0} /\ FieldSize \in Nat
  BY Blake2XbAssumption DEF Inv, Expanding
<1>2. i \in Nat /\ j \in Nat /\ i < pos /\ j < pos
  BY <1>1
<1>3. out[i] = XofByte(args, pieces, total, i) /\ out[j] = XofByte(args, pieces, total, j)
  <2>1. i \in DOMAIN out /\ j \in DOMAIN out
    BY <1>1, <1>2 DEF Inv, OutputIsXofPrefix
  <2> QED
    BY <1>2, <2>1 DEF Inv, OutputIsXofPrefix, total
<1>4. PICK p \in Nat : p * BYTES_MAX <= i /\ i < p * BYTES_MAX + BYTES_MAX
  BY <1>1, <1>2, BlockOfOffset
<1>5. PICK q \in Nat : q * BYTES_MAX <= j /\ j < q * BYTES_MAX + BYTES_MAX
  BY <1>1, <1>2, BlockOfOffset
<1>6. i \div BYTES_MAX = p /\ i % BYTES_MAX = i - p * BYTES_MAX
  BY <1>1, <1>2, <1>4, BlockOffset
<1>7. j \div BYTES_MAX = q /\ j % BYTES_MAX = j - q * BYTES_MAX
  BY <1>1, <1>2, <1>5, BlockOffset
<1>8. p % FieldSize = q % FieldSize /\ i % BYTES_MAX = j % BYTES_MAX
  <2> DEFINE node(k) == Node(args, total, k \div BYTES_MAX)
             root == RootHash(args, pieces)
  <2>1. out[i] = Byte([param |-> node(i), input |-> <<root>>], i % BYTES_MAX)
        /\ out[j] = Byte([param |-> node(j), input |-> <<root>>], j % BYTES_MAX)
    BY <1>3 DEF XofByte
  <2>2. node(i).node_off = p % FieldSize /\ node(j).node_off = q % FieldSize
    BY <1>6, <1>7 DEF Node
  <2> HIDE DEF node, root
  <2>3. Byte([param |-> node(i), input |-> <<root>>], i % BYTES_MAX)
          = Byte([param |-> node(j), input |-> <<root>>], j % BYTES_MAX)
    BY <2>1, Zenon
  <2>4. node(i) = node(j) /\ i % BYTES_MAX = j % BYTES_MAX
    <3>1. PICK m, n, r, k, l : m = node(i) /\ n = node(j) /\ r = <<root>>
                               /\ k = i % BYTES_MAX /\ l = j % BYTES_MAX
      OBVIOUS
    <3>2. Byte([param |-> m, input |-> r], k) = Byte([param |-> n, input |-> r], l)
      BY <2>3, <3>1, Zenon
    <3>3. m = n /\ k = l
      BY <3>2, SamePlace
    <3> QED
      BY <3>1, <3>3, Zenon
  <2> QED
    BY <2>2, <2>4
<1>9. p <= q
  <2> SUFFICES ASSUME q < p PROVE FALSE
    BY <1>4, <1>5
  <2>1. q * BYTES_MAX + BYTES_MAX <= p * BYTES_MAX
    BY <1>1, NextMultiple
  <2>2. q * BYTES_MAX \in Nat /\ p * BYTES_MAX \in Nat
    BY <1>1
  <2> QED
    BY <1>1, <1>2, <1>4, <1>5, <2>1, <2>2
<1>10. PICK d \in Nat : q = p + d * FieldSize
  <2>1. FieldSize \in Nat \ {0}
    BY Blake2XbAssumption
  <2> QED
    BY <1>8, <1>9, <2>1, SameRemainder
<1> DEFINE all == BYTES_MAX * FieldSize
<1>11. all \in Nat \ {0} /\ j - i = d * all
  <2>1. i - p * BYTES_MAX = j - q * BYTES_MAX
    BY <1>6, <1>7, <1>8
  <2>2. q * BYTES_MAX = p * BYTES_MAX + d * all /\ d * all \in Nat
    BY <1>1, <1>10
  <2>3. p * BYTES_MAX \in Nat /\ all # 0 /\ all \in Nat
    BY <1>1, Blake2XbAssumption
  <2> HIDE DEF all
  <2> QED
    BY <1>2, <2>1, <2>2, <2>3
<1> HIDE DEF all
<1>12. (j - i) % all = (j - i) - d * all
  <2>1. j - i \in Nat /\ d * all <= j - i /\ j - i < d * all + all
    BY <1>2, <1>11
  <2> QED
    BY <1>11, <2>1, BlockOffset
<1>13. (j - i) % all = 0
  BY <1>2, <1>11, <1>12
<1> QED
  BY <1>13 DEF all

(* In a buffer of any size, a byte of the output is there again only after as
   many blocks as the field of their numbers has values.                   *)
THEOREM OutputRepeatsFarApart == Spec => []RepeatsFarApart
  BY InvFarApart, InvInvariant, PTL

-----------------------------------------------------------------------------
LEMMA InField ==
  ASSUME NEW n \in Nat
  PROVE  n % FieldSize \in 0 .. FieldSize - 1
<1>1. FieldSize \in Nat \ {0}
  BY Blake2XbAssumption
<1> QED
  BY <1>1

LEMMA TypeStep ==
  ASSUME TypeOK, Inv, Inv', [Next]_vars
  PROVE  TypeOK'
<1> DEFINE FieldsOK(p) == /\ p.xof_digest_len \in 0 .. FieldSize - 1
                          /\ p.node_off \in 0 .. FieldSize - 1
                          /\ p.digest_len \in 0 .. BYTES_MAX
<1>1. BYTES_MAX \in Nat \ {0} /\ FieldSize \in Nat /\ FieldSize > 2
  BY Blake2XbAssumption
<1>2. pc' \in {"none", "ready", "blocks", "finished", "threw"} /\ args' \in Arguments
      /\ pieces' \in Seq(Data)
  BY DEF Inv
<1>3. SUFFICES FieldsOK(param_') /\ pos' \in Nat /\ remaining' \in Nat
               /\ outcome' \in {"ok", "runtime_error"}
  BY <1>2 DEF TypeOK
<1>4. FieldsOK(param_) /\ pos \in Nat /\ remaining \in Nat /\ outcome \in {"ok", "runtime_error"}
  BY DEF TypeOK
<1>5. ASSUME NEW initialised \in BOOLEAN, Construct(initialised)
      PROVE  FieldsOK(param_') /\ UNCHANGED <<pos, remaining>> /\ outcome' \in {"ok", "runtime_error"}
  <2>1. CASE pc' = "ready"
    <3>1. Ready'
      BY <2>1 DEF Inv
    <3>2. args'.output_len \in Nat
      BY <1>2, ArgumentFields
    <3>3. param_' = Root(args') /\ args'.output_len <= FieldSize - 2
      BY <3>1 DEF Ready, LegalLength, max_output_extent
    <3> QED
      BY <1>1, <1>5, <3>2, <3>3 DEF Root, Construct
  <2>2. CASE pc' # "ready"
    BY <1>4, <1>5, <2>2 DEF Construct
  <2> QED
    BY <2>1, <2>2
<1>6. ASSUME NEW n \in Buffers, finish(n)
      PROVE  FieldsOK(param_') /\ pos' \in Nat /\ remaining' \in Nat /\ outcome' = "ok"
  <2>1. n \in Nat
    BY BufferSizes DEF Inv
  <2>2. n % FieldSize \in 0 .. FieldSize - 1
    BY <2>1, InField
  <2>3. param_ = Root(args) /\ param_' = Expansion(param_, n)
    BY <1>6 DEF finish, Inv, Ready
  <2>4. /\ param_'.xof_digest_len = n % FieldSize /\ param_'.node_off = 0
        /\ param_'.digest_len = BYTES_MAX
    BY <2>3 DEF Root, Expansion
  <2> QED
    BY <1>1, <1>6, <2>1, <2>2, <2>4 DEF finish
<1>7. ASSUME finish_block
      PROVE  FieldsOK(param_') /\ pos' \in Nat /\ remaining' \in Nat /\ outcome' = outcome
  <2>1. BlockLen \in 0 .. BYTES_MAX /\ BlockLen <= remaining
    BY <1>1, <1>4 DEF BlockLen
  <2>2. pos \div BYTES_MAX \in Nat
    BY <1>1, <1>4
  <2>3. (pos \div BYTES_MAX) % FieldSize \in 0 .. FieldSize - 1
    BY <2>2, InField
  <2>4. PICK a, n, m, k : param_ = BlockParam(a, n, m, k)
    BY <1>7 DEF finish_block, Inv, Expanding
  <2>5. /\ param_'.xof_digest_len = param_.xof_digest_len
        /\ param_'.node_off = (pos \div BYTES_MAX) % FieldSize
        /\ param_'.digest_len = BlockLen
    BY <1>7, <2>4 DEF finish_block, NodeOf, BlockParam
  <2> QED
    BY <1>1, <1>4, <1>7, <2>1, <2>3, <2>5 DEF finish_block
<1>8. ASSUME \/ \E d \in Data : digest(d)
             \/ \E n \in Buffers : finish_mismatch(n)
             \/ finish_return
             \/ UNCHANGED vars
      PROVE  UNCHANGED <<param_, pos, remaining>> /\ outcome' \in {"ok", "runtime_error"}
  BY <1>4, <1>8 DEF digest, finish_mismatch, finish_return, vars
<1> HIDE DEF FieldsOK
<1>9. CASE UNCHANGED vars
  BY <1>4, <1>8, <1>9
<1>10. CASE Next
  BY <1>4, <1>5, <1>6, <1>7, <1>8, <1>10 DEF Next
<1> QED
  BY <1>9, <1>10

(* The fields of the parameter block never exceed their width. *)
THEOREM TypeCorrect == Spec => []TypeOK
<1>1. Init => TypeOK
  BY Blake2XbAssumption DEF Init, TypeOK, ZeroParam
<1>2. TypeOK /\ Inv /\ Inv' /\ [Next]_vars => TypeOK'
  BY TypeStep
<1> QED
  BY <1>1, <1>2, InvInvariant, PTL DEF Spec

-----------------------------------------------------------------------------
(* Of a hasher whose call of finish is running the abstract one is still
   ready; it is finished when the call returns.                          *)
LEMMA RefinementStep ==
  ASSUME Inv, Inv', [Next]_vars
  PROVE  [Abstract!Next]_(Abstract!vars)
<1>1. CASE UNCHANGED vars
  BY <1>1 DEF vars, Abstract!vars
<1>2. ASSUME NEW initialised \in BOOLEAN, Construct(initialised)
      PROVE  Abstract!Construct
  <2>1. args \in Arguments /\ pc = "none" /\ pc' \in {"ready", "threw"}
    BY <1>2 DEF Inv, Construct
  <2>2. pc' = "ready" => args \in LegalArguments
    BY <1>2, <2>1 DEF Construct, LegalArguments
  <2> QED
    BY <1>2, <2>1, <2>2 DEF Construct, Abstract!Construct
<1>3. ASSUME NEW d \in Data, digest(d)
      PROVE  Abstract!Digest(d)
  BY <1>3 DEF digest, Abstract!Digest
<1>4. ASSUME NEW n \in Buffers, finish_mismatch(n) \/ finish(n)
      PROVE  UNCHANGED Abstract!vars
  BY <1>4 DEF finish_mismatch, finish, Abstract!vars
<1>5. ASSUME finish_block
      PROVE  UNCHANGED Abstract!vars
  BY <1>5 DEF finish_block, Abstract!vars
<1>6. ASSUME finish_return
      PROVE  \E n \in Sizes \cup OutputExtents : Abstract!Finish(n)
  <2>1. Expanding /\ remaining = 0 /\ pc = "blocks" /\ OutputIsXofPrefix
    BY <1>6 DEF finish_return, Inv
  <2>2. total = pos /\ pos \in Sizes \cup OutputExtents /\ AcceptsSize(args, pos) /\ pos \in Nat
    BY <2>1 DEF Expanding, total
  <2>3. out = Xof(args, pieces, pos)
    <3>1. DOMAIN out = 0 .. pos - 1
      BY <2>1, <2>2 DEF OutputIsXofPrefix
    <3>2. \A i \in 0 .. pos - 1 : out[i] = XofByte(args, pieces, pos, i)
      BY <2>1, <2>2, <3>1 DEF OutputIsXofPrefix
    <3>3. out = [i \in 0 .. pos - 1 |-> out[i]]
      BY <2>1, <3>1, Zenon DEF Expanding
    <3> QED
      BY <3>2, <3>3 DEF Xof
  <2>4. Abstract!Finish(pos)
    BY <1>6, <2>1, <2>2, <2>3 DEF finish_return, Abstract!Finish
  <2> QED
    BY <2>2, <2>4
<1> QED
  BY <1>1, <1>2, <1>3, <1>4, <1>5, <1>6 DEF Next, Abstract!Next

LEMMA RefinementInit == Init => Abstract!Init
  BY DEF Init, Abstract!Init

(* A Blake2Xb hasher is an abstract hasher of the BLAKE2Xb tree, for keys,
   inputs, blocks and buffers of any size.                                *)
THEOREM Blake2XbIsHasher == Spec => ImplementsHasher
<1>1. Inv /\ Inv' /\ [Next]_vars => [Abstract!Next]_(Abstract!vars)
  BY RefinementStep
<1> QED
  BY <1>1, InvInvariant, RefinementInit, PTL DEF Spec, ImplementsHasher, Abstract!Spec


-----------------------------------------------------------------------------
(* Blake2b. *)

InUse2 ==
  /\ B2b!LegalLength(args2.output_len) /\ B2b!LegalKey(KeyLen(key2))
  /\ B2b!concrete_output_extent = args2.output_len
  /\ state2 = [digest_len |-> args2.output_len, key |-> key2, custom |-> args2.custom,
               input |-> pieces2]

Inv2 ==
  /\ pc2 \in {"none", "ready", "finished", "threw"}
  /\ args2 \in B2b!Arguments /\ key2 \in Keys
  /\ pieces2 \in Seq(Data)
  /\ res2 = 0
  /\ pc2 = "none" => pieces2 = <<>>
  /\ pc2 # "finished" => out2 = <<>>
  /\ generated2 => B2b!KeySizeFits(KeyLen(key2)) /\ outcome2 # "invalid key size"
  /\ pc2 \in {"ready", "finished"} => InUse2

-----------------------------------------------------------------------------
LEMMA ArgumentFields2 ==
  ASSUME NEW a \in B2b!Arguments
  PROVE  /\ a.extent \in Nat /\ a.output_len \in Nat
         /\ a.extent # 0 => a.output_len = a.extent /\ a.extent \in OutputExtents2
<1>1. CASE a \in [extent : {0}, output_len : OutputLens2, custom : Customs]
  <2>1. a.extent = 0 /\ a.output_len \in OutputLens2
    BY <1>1
  <2>2. \A n \in OutputLens2 : n \in Nat
    BY HashersAssumption DEF B2b!Blake2bAssumption
  <2> QED
    BY <2>1, <2>2
<1>2. CASE a \notin [extent : {0}, output_len : OutputLens2, custom : Customs]
  <2>1. a \in [extent : OutputExtents2 \ {0}, output_len : OutputExtents2, custom : Customs]
        /\ a.output_len = a.extent
    BY <1>2, Zenon DEF B2b!Arguments
  <2>2. \A n \in OutputExtents2 : n \in Nat
    BY HashersAssumption DEF B2b!Blake2bAssumption
  <2> QED
    BY <2>1, <2>2
<1> QED
  BY <1>1, <1>2

(* libsodium takes what the constructor takes. *)
LEMMA LegalIsTaken2 ==
  ASSUME NEW n \in Nat, NEW k \in Nat, B2b!LegalLength(n), B2b!LegalKey(k)
  PROVE  B2b!init_salt_personal(n, k) = 0 /\ B2b!final(n) = 0
  BY HashersAssumption
  DEF B2b!Blake2bAssumption, B2b!LegalLength, B2b!LegalKey, B2b!init_salt_personal, B2b!final

LEMMA InvInit2 == B2b!Init => Inv2
  BY DEF B2b!Init, Inv2

LEMMA StepGenerate2 ==
  ASSUME Inv2, B2b!generate_key
  PROVE  Inv2'
  BY DEF B2b!generate_key, Inv2

LEMMA StepConstruct2 ==
  ASSUME Inv2, NEW initialised \in BOOLEAN, B2b!Construct(initialised)
  PROVE  Inv2'
<1>1. /\ pc2 = "none" /\ args2' = args2 /\ key2' = key2 /\ pieces2' = pieces2 /\ out2' = out2
      /\ generated2' = generated2 /\ pieces2 = <<>> /\ out2 = <<>>
      /\ outcome2' = B2b!InitError(initialised)
  BY DEF B2b!Construct, Inv2
<1>2. generated2' => outcome2' # "invalid key size"
  <2>1. B2b!KeySizeFits(KeyLen(key2)) => B2b!LegalKey(KeyLen(key2))
    BY DEF B2b!KeySizeFits, B2b!LegalKey
  <2> QED
    BY <1>1, <2>1 DEF B2b!InitError, Inv2
<1>3. CASE outcome2' # "ok"
  <2>1. pc2' = "threw" /\ res2' = res2
    BY <1>3, Zenon DEF B2b!Construct
  <2>2. res2 = 0 /\ args2 \in B2b!Arguments /\ key2 \in Keys /\ pieces2 \in Seq(Data)
        /\ (generated2 => B2b!KeySizeFits(KeyLen(key2)))
    BY Zenon DEF Inv2
  <2> QED
    BY <1>1, <1>2, <2>1, <2>2 DEF Inv2
<1>4. CASE outcome2' = "ok"
  <2>1. B2b!LegalLength(args2.output_len) /\ B2b!LegalKey(KeyLen(key2))
    BY <1>1, <1>4 DEF B2b!InitError
  <2>2. args2.output_len \in Nat /\ KeyLen(key2) \in Nat
        /\ (~B2b!Dynamic => args2.output_len = args2.extent)
    BY HashersAssumption, ArgumentFields2 DEF Inv2, B2b!Blake2bAssumption, B2b!Dynamic
  <2>3. pc2' = "ready" /\ res2' = 0
    BY <1>4, <2>1, <2>2, LegalIsTaken2 DEF B2b!Construct
  <2>4. B2b!concrete_output_extent' = args2.output_len
    BY <1>1, <1>4, <2>2 DEF B2b!Construct, B2b!concrete_output_extent, B2b!Dynamic
  <2>5. state2' = [digest_len |-> args2.output_len, key |-> key2, custom |-> args2.custom,
                   input |-> <<>>]
    BY <1>4 DEF B2b!Construct, B2b!Initialised
  <2> QED
    BY <1>1, <1>2, <2>1, <2>3, <2>4, <2>5 DEF Inv2, InUse2
<1> QED
  BY <1>3, <1>4

LEMMA StepDigest2 ==
  ASSUME Inv2, NEW d \in Data, B2b!digest(d)
  PROVE  Inv2'
<1>1. /\ pc2 = "ready" /\ pc2' = pc2 /\ args2' = args2 /\ key2' = key2 /\ generated2' = generated2
      /\ specified2' = specified2 /\ out2' = out2 /\ res2' = 0
      /\ outcome2' = "ok" /\ state2' = B2b!Updated(state2, d) /\ pieces2' = Append(pieces2, d)
  BY DEF B2b!digest
<1>2. pieces2' \in Seq(Data)
  BY <1>1, AppendProperties DEF Inv2
<1>3. InUse2'
  <2>1. InUse2
    BY <1>1 DEF Inv2
  <2>2. state2' = [digest_len |-> args2.output_len, key |-> key2, custom |-> args2.custom,
                   input |-> pieces2']
    <3>1. state2 = [digest_len |-> args2.output_len, key |-> key2, custom |-> args2.custom,
                    input |-> pieces2]
      BY <2>1 DEF InUse2
    <3>2. PICK s : s = [digest_len |-> args2.output_len, key |-> key2, custom |-> args2.custom,
                        input |-> pieces2]
      OBVIOUS
    <3>3. [s EXCEPT !.input = Append(@, d)]
            = [digest_len |-> args2.output_len, key |-> key2, custom |-> args2.custom,
               input |-> Append(pieces2, d)]
      BY <3>2
    <3> QED
      BY <1>1, <3>1, <3>2, <3>3 DEF B2b!Updated
  <2> QED
    BY <1>1, <2>1, <2>2 DEF InUse2, B2b!concrete_output_extent, B2b!Dynamic
<1> QED
  BY <1>1, <1>2, <1>3 DEF Inv2

LEMMA StepMismatch2 ==
  ASSUME Inv2, NEW n \in B2b!Buffers, B2b!finish_mismatch(n)
  PROVE  Inv2'
  BY DEF B2b!finish_mismatch, Inv2, InUse2, B2b!concrete_output_extent, B2b!Dynamic

(* A buffer that finish takes has the length given to the constructor. *)
LEMMA MatchingLength2 ==
  ASSUME Inv2, pc2 = "ready", NEW n \in B2b!Buffers, B2b!Matches(n)
  PROVE  n = args2.output_len
<1>1. B2b!LegalLength(args2.output_len) /\ B2b!concrete_output_extent = args2.output_len
  BY DEF Inv2, InUse2
<1>2. CASE B2b!Dynamic
  BY HashersAssumption, <1>1, <1>2
  DEF B2b!Matches, B2b!concrete_output_extent, B2b!LegalLength, B2b!Blake2bAssumption
<1>3. CASE ~B2b!Dynamic
  BY <1>1, <1>3 DEF B2b!Buffers, B2b!concrete_output_extent
<1> QED
  BY <1>2, <1>3

LEMMA StepFinish2 ==
  ASSUME Inv2, NEW n \in B2b!Buffers, B2b!finish(n)
  PROVE  Inv2'
<1>1. pc2 = "ready" /\ B2b!Matches(n) /\ InUse2
  BY DEF B2b!finish, Inv2
<1>2. n = args2.output_len
  BY <1>1, MatchingLength2
<1>3. B2b!final(n) = 0
  <2>1. n \in Nat /\ KeyLen(key2) \in Nat
    BY HashersAssumption, <1>2, ArgumentFields2 DEF Inv2, B2b!Blake2bAssumption
  <2> QED
    BY <1>1, <1>2, <2>1, LegalIsTaken2 DEF InUse2
<1> QED
  BY <1>1, <1>3 DEF B2b!finish, Inv2, InUse2, B2b!concrete_output_extent, B2b!Dynamic

LEMMA InvStep2 == Inv2 /\ [B2b!Next]_(B2b!vars) => Inv2'
<1> SUFFICES ASSUME Inv2, [B2b!Next]_(B2b!vars) PROVE Inv2'
  OBVIOUS
<1>1. CASE UNCHANGED B2b!vars
  BY <1>1 DEF B2b!vars, Inv2, InUse2, B2b!concrete_output_extent, B2b!Dynamic
<1>2. CASE B2b!Next
  BY <1>2, StepGenerate2, StepConstruct2, StepDigest2, StepMismatch2, StepFinish2 DEF B2b!Next
<1> QED
  BY <1>1, <1>2

LEMMA InvImplies2 == Inv2 => B2b!LibsodiumNeverRefuses /\ B2b!GeneratedKeysAccepted
<1>1. Inv2 => B2b!LibsodiumNeverRefuses
  <2>1. InUse2 => B2b!concrete_output_extent = state2.digest_len
    BY DEF InUse2
  <2> QED
    BY <2>1 DEF Inv2, B2b!LibsodiumNeverRefuses
<1>2. Inv2 => B2b!GeneratedKeysAccepted
  BY Zenon DEF Inv2, B2b!GeneratedKeysAccepted
<1> QED
  BY <1>1, <1>2

-----------------------------------------------------------------------------
(* Every step is one of the abstract hasher, or none that it shows. *)
LEMMA RefinementStep2 ==
  ASSUME Inv2, [B2b!Next]_(B2b!vars)
  PROVE  [B2b!Abstract!Next]_(B2b!Abstract!vars)
<1>1. CASE UNCHANGED B2b!vars
  BY <1>1 DEF B2b!vars, B2b!Abstract!vars
<1>2. CASE B2b!generate_key
  BY <1>2 DEF B2b!generate_key, Inv2, B2b!Abstract!Next, B2b!Abstract!Choose, B2b!Params
<1>3. ASSUME NEW initialised \in BOOLEAN, B2b!Construct(initialised)
      PROVE  B2b!Abstract!Construct
  <2>1. [arguments |-> args2, key |-> key2] \in B2b!Params
    BY DEF Inv2, B2b!Params
  <2>2. pc2' = "ready" => [arguments |-> args2, key |-> key2] \in B2b!LegalParams
    BY <1>3, <2>1 DEF B2b!Construct, B2b!InitError, B2b!LegalParams
  <2> QED
    BY <1>3, <2>2 DEF B2b!Construct, B2b!Abstract!Construct
<1>4. ASSUME NEW d \in Data, B2b!digest(d)
      PROVE  B2b!Abstract!Digest(d)
  BY <1>4 DEF B2b!digest, Inv2, B2b!Abstract!Digest
<1>5. ASSUME NEW n \in B2b!Buffers, B2b!finish(n)
      PROVE  \E m \in Sizes2 \cup OutputExtents2 : B2b!Abstract!Finish(m)
  <2>1. pc2 = "ready" /\ B2b!Matches(n) /\ InUse2
    BY <1>5 DEF B2b!finish, Inv2
  <2>2. n = args2.output_len
    BY <2>1, MatchingLength2
  <2>3. n \in Sizes2 \cup OutputExtents2
    BY ArgumentFields2 DEF Inv2, B2b!Buffers, B2b!Dynamic
  <2>4. out2' = B2b!Blake2bHash([arguments |-> args2, key |-> key2], pieces2, n)
    BY <1>5, <2>1, <2>2 DEF B2b!finish, InUse2, B2b!Blake2bHash
  <2>5. B2b!Abstract!Finish(n)
    BY <1>5, <2>1, <2>2, <2>4 DEF B2b!finish, B2b!Abstract!Finish, B2b!Accepts
  <2> QED
    BY <2>3, <2>5
<1>6. ASSUME NEW n \in B2b!Buffers, B2b!finish_mismatch(n)
      PROVE  UNCHANGED B2b!Abstract!vars
  BY <1>6 DEF B2b!finish_mismatch, B2b!Abstract!vars
<1> QED
  BY <1>1, <1>2, <1>3, <1>4, <1>5, <1>6 DEF B2b!Next, B2b!Abstract!Next

LEMMA RefinementInit2 == B2b!Init => B2b!Abstract!Init
  BY DEF B2b!Init, B2b!Abstract!Init, B2b!Params


-----------------------------------------------------------------------------
(* Blake3: the state of the library is that of a new hasher with the key of
   the constructor, if there was one, fed the pieces.                      *)

InUse3 ==
  state3 = [mode |-> IF args3.key = NoKey THEN "hash" ELSE "keyed", key |-> args3.key,
            input |-> pieces3]

Inv3 ==
  /\ pc3 \in {"none", "ready", "finished"}
  /\ args3 \in B3!Arguments
  /\ pieces3 \in Seq(Data)
  /\ pc3 = "none" => pieces3 = <<>>
  /\ pc3 # "finished" => out3 = <<>>
  /\ pc3 = "ready" => InUse3

LEMMA InvInit3 == B3!Init => Inv3
  BY DEF B3!Init, Inv3

LEMMA StepDigest3 ==
  ASSUME Inv3, NEW d \in Data, B3!digest(d)
  PROVE  Inv3'
<1>1. /\ pc3 = "ready" /\ pc3' = pc3 /\ args3' = args3 /\ out3' = out3
      /\ state3' = B3!hasher_update(state3, d) /\ pieces3' = Append(pieces3, d)
  BY DEF B3!digest
<1>2. pieces3' \in Seq(Data)
  BY <1>1, AppendProperties DEF Inv3
<1> DEFINE mode == IF args3.key = NoKey THEN "hash" ELSE "keyed"
<1>3. state3 = [mode |-> mode, key |-> args3.key, input |-> pieces3]
  BY <1>1 DEF Inv3, InUse3
<1>4. mode' = mode
  BY <1>1
<1> HIDE DEF mode
<1>5. state3' = [mode |-> mode, key |-> args3.key, input |-> Append(pieces3, d)]
  BY <1>1, <1>3 DEF B3!hasher_update
<1>6. InUse3'
  BY <1>1, <1>4, <1>5 DEF InUse3, mode
<1> QED
  BY <1>1, <1>2, <1>6 DEF Inv3

LEMMA InvStep3 == Inv3 /\ [B3!Next]_(B3!vars) => Inv3'
<1> SUFFICES ASSUME Inv3, [B3!Next]_(B3!vars) PROVE Inv3'
  OBVIOUS
<1>1. CASE UNCHANGED B3!vars
  BY <1>1 DEF B3!vars, Inv3, InUse3
<1>2. CASE B3!generate_key
  BY <1>2 DEF B3!generate_key, B3!Arguments, Inv3
<1>3. CASE B3!Construct
  <2>1. InUse3'
    BY <1>3 DEF B3!Construct, B3!Constructed, B3!hasher_init, B3!hasher_init_keyed, Inv3, InUse3
  <2> QED
    BY <1>3, <2>1 DEF B3!Construct, Inv3
<1>4. ASSUME NEW n \in B3!Buffers, B3!finish(n) PROVE Inv3'
  BY <1>4 DEF B3!finish, Inv3
<1> QED
  BY <1>1, <1>2, <1>3, <1>4, StepDigest3 DEF B3!Next

(* Every step of a Blake3 hasher is one of the abstract hasher. *)
LEMMA RefinementStep3 ==
  ASSUME Inv3, [B3!Next]_(B3!vars)
  PROVE  [B3!Abstract!Next]_(B3!Abstract!vars)
<1>1. CASE UNCHANGED B3!vars
  BY <1>1 DEF B3!vars, B3!Abstract!vars
<1>2. CASE B3!generate_key
  BY <1>2 DEF B3!generate_key, B3!Arguments, Inv3, B3!Abstract!Next, B3!Abstract!Choose
<1>3. CASE B3!Construct
  BY <1>3 DEF B3!Construct, Inv3, B3!Abstract!Next, B3!Abstract!Construct
<1>4. ASSUME NEW d \in Data, B3!digest(d) PROVE B3!Abstract!Digest(d)
  BY <1>4 DEF B3!digest, B3!Abstract!Digest
<1>5. ASSUME NEW n \in B3!Buffers, B3!finish(n)
      PROVE  \E m \in Sizes3 \cup Extents3 : B3!Abstract!Finish(m)
  <2>1. n \in Sizes3 \cup Extents3 /\ B3!AcceptsSize(args3, n)
    BY DEF Inv3, B3!Buffers, B3!Arguments, B3!AcceptsSize
  <2>2. out3' = B3!Blake3Hash(args3, pieces3, n)
    BY <1>5 DEF B3!finish, Inv3, InUse3, B3!Blake3Hash
  <2>3. B3!Abstract!Finish(n)
    BY <1>5, <2>1, <2>2 DEF B3!finish, B3!Abstract!Finish
  <2> QED
    BY <2>1, <2>3
<1> QED
  BY <1>1, <1>2, <1>3, <1>4, <1>5 DEF B3!Next, B3!Abstract!Next

LEMMA RefinementInit3 == B3!Init => B3!Abstract!Init
  BY DEF B3!Init, B3!Abstract!Init

-----------------------------------------------------------------------------
(* A behaviour of the three is one of each. *)
THEOREM Runs == HashersSpec => Spec /\ B2b!Spec /\ B3!Spec
<1>1. HashersInit => Init /\ B2b!Init /\ B3!Init
  BY DEF HashersInit
<1>2. [HashersNext]_<<kind, vars, vars2, vars3>>
        => [Next]_vars /\ [B2b!Next]_(B2b!vars) /\ [B3!Next]_(B3!vars)
  BY DEF HashersNext, vars2, vars3, B2b!vars, B3!vars
<1> QED
  BY <1>1, <1>2, PTL DEF HashersSpec, Spec, B2b!Spec, B3!Spec

(* No call of libsodium fails, and the length it was initialised for is the
   announced one, for all limits and lengths of keys and outputs.          *)
THEOREM NeverRefused == HashersSpec => []LibsodiumNeverRefuses
<1>1. Inv2 => LibsodiumNeverRefuses
  BY InvImplies2 DEF LibsodiumNeverRefuses
<1> QED
  BY <1>1, Runs, InvInit2, InvStep2, PTL DEF B2b!Spec

(* A generated key is never refused. *)
THEOREM GeneratedAlwaysAccepted == HashersSpec => []GeneratedKeysAccepted
<1>1. Inv2 => GeneratedKeysAccepted
  BY InvImplies2 DEF GeneratedKeysAccepted
<1> QED
  BY <1>1, Runs, InvInit2, InvStep2, PTL DEF B2b!Spec

(* A Blake2b hasher is an abstract hasher of BLAKE2b. *)
THEOREM Blake2bIsHasher == HashersSpec => Blake2bImplementsHasher
<1>1. Inv2 /\ [B2b!Next]_(B2b!vars) => [B2b!Abstract!Next]_(B2b!Abstract!vars)
  BY RefinementStep2
<1> QED
  BY <1>1, Runs, InvInit2, InvStep2, RefinementInit2, PTL
  DEF B2b!Spec, Blake2bImplementsHasher, B2b!Blake2bImplementsHasher, B2b!Abstract!Spec

(* A Blake3 hasher, keyed or not, is an abstract hasher of BLAKE3. *)
THEOREM Blake3IsHasher == HashersSpec => Blake3ImplementsHasher
<1>1. Inv3 /\ [B3!Next]_(B3!vars) => [B3!Abstract!Next]_(B3!Abstract!vars)
  BY RefinementStep3
<1> QED
  BY <1>1, Runs, InvInit3, InvStep3, RefinementInit3, PTL
  DEF B3!Spec, Blake3ImplementsHasher, B3!Blake3ImplementsHasher, B3!Abstract!Spec

(* The properties of Blake2Xb hold where the other two may live instead. *)
THEOREM Blake2XbAmongThem ==
  HashersSpec => []TypeOK /\ []OutputIsXofPrefix /\ []AnnouncedLength /\ []RepeatsFarApart
                 /\ ImplementsHasher
  BY Runs, TypeCorrect, OutputAlwaysXof, LengthAlwaysAnnounced, OutputRepeatsFarApart,
     Blake2XbIsHasher, PTL

=============================================================================
