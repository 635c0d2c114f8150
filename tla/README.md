# dice-hash in TLA+

A verification development kept beside the C++ library dice-hash: models of its
stateful parts and of the loops that are hard to get right, TLC runs over small
instances, and theorems checked by TLAPS for every value of the constants.
Paths below are relative to `src/include/dice/hash/`.

## 1. The system

dice-hash is a header library (plus `lthash/MathEngine_Hwy.cpp`) without threads
of its own and without I/O. Its difficulty lies in arithmetic packed into machine
words, in buffers that are cut by lengths, in objects that are moved, copied and
reset, and in calls that throw in the middle.

| Component | State | Operations | Modelled in |
|---|---|---|---|
| LtHash, the homomorphic multiset hash (`lthash/LtHash.hpp`) | a key buffer, a checksum buffer | construct, copy, move, assign, destroy, `set_key`, `clear_key`, `set_checksum`, `clear_checksum`, `add`, `remove`, `combine_add`, `combine_remove` | `LtHash`, `LtHashMultiset`, `HomomorphicHash` |
| Math engines (`lthash/MathEngine*.hpp`, `MathEngine_Hwy.cpp`) | none; they rewrite a buffer in place | `add`, `sub`, `check_padding_bits`, `clear_padding_bits` | `LaneWord`, `MathEngine`, `LaneVector` |
| XXH3 stream (`internal/xxhash.hpp`, `hash3_state_t`) | accumulator, 256-byte buffer, stripes since the last scramble, secret or a pointer to one | `reset`, `update`, `digest`, copy, assign, destroy | `Xxh3Stream`, `HashStream`; several streams and their secrets: `StreamCopies` |
| Classic xxHash stream (`internal/xxhash.hpp`, `hash_state_t`) | four lanes, a memory of 16 or 32 bytes | `reset`, `update`, `digest` | `XxhStream`, `HashStream`; beside the XXH3 stream: `XxhStreams` |
| Blake2Xb (`blake/Blake2Xb.hpp`) | parameter block, libsodium state | construct, `digest`, `finish`, `concrete_output_extent` | `Blake2Xb`, `Hasher` |
| Byte hashers (`internal/wyhash.h`, `internal/martinus_robinhood_hash.hpp`, short and midsize XXH3) | none; offsets of a loop | `hash_bytes` | `HashBytes` |
| Unordered containers (`DiceHash.hpp`) | none; the value of a loop | `dice_hash_unordered_container`, `hash_invertible_combine` | `UnorderedContainer` |
| Other values (`DiceHash.hpp`, `internal/DiceHashPolicies.hpp`) | none, or a `HashState` | `dice_hash` of fundamental values, strings, arrays, tuples, ordered containers, variants, smart pointers, types with an overload; `hash_fundamental`, `hash_combine`, `HashState`, `is_faulty` | `DiceHash`, `DiceHashContainer` |
| Blake2b (`blake/Blake2b.hpp`) | libsodium state, output length | `generate_key`, construct, `digest`, `finish`, `concrete_output_extent` | `Blake2b`, `Hasher` |
| Blake3 (`blake/Blake3.hpp`) | the state of the BLAKE3 library | `generate_key`, construct, `digest`, `finish` | `Blake3`, `Hasher` |

**How they interact.** `LtHash::add(x)` computes the digest of `x` under the
instance's key with a Blake hasher (`HashT::hash_single`: construct, `digest`,
`finish` on one buffer), clears the padding bits of the result and lets a math
engine add it to the checksum. `combine_add` and `combine_remove` compare the
keys of two instances and let the engine add or subtract one checksum to or
from the other; `x.combine_add(x)` hands the engine one buffer twice.
`DiceHash` recurses over a C++ value and calls a policy: `hash_bytes` for
strings, `hash_invertible_combine` for unordered containers, `HashState` for
ordered ones; the xxh3 policy keeps its `HashState` in an XXH3 stream.

**What is hard.**
- Carries and borrows between elements packed into one word, and padding bits
  between them, dirty or clean.
- In-place loops over aliased buffers, partial last vectors.
- A call that throws after it has changed something; keys erased on every path.
- Buffers whose rest is stale: which of the old bytes may a digest still read?
- A seeded stream points to a secret stored within an object: its copies depend on
  the life of another object.
- Values that differ in structure alone must differ in their hash, through three
  policies with different ways to combine.
- Boundaries: a buffer exactly full, a scramble exactly at the end of a piece, a
  last block shorter than the others, lengths 0 and "unknown", lengths at which
  overlapping blocks meet.

## 2. Modules and how they correspond to the code

**`LaneWord`** is a 64-bit word of a checksum as a mixed-radix number: one digit
per field that a mask of the engines can select. With padding fields it is
`Bits<20>`, without it is `Bits<16>` or `Bits<32>`. `AddWord` and `SubWord` are
addition and subtraction of `uint64_t`, with the carry into a field written as a
quantifier over the fields below (`CarryInto`, `BorrowFrom`); `EngineAdd` and
`EngineSub` are the bodies of the engines' loops: mask the sum, or split the word
in two mask groups. `LaneSum` and `LaneDiff` are what they should be: arithmetic
modulo the radix in every element. `Number` is what a word stands for; `ModularSum` and
`ModularDiff` say that the carries are those of `uint64_t`, for any two words, which
is a matter of the word model alone and proved of it (section 4). The only thing assumed of masks is that no
two fields of one are adjacent.

**`MathEngine`** is one call of an engine, an iteration an action. `engine` tells
`MathEngine_Simple` (a word at a time, and an early return of
`check_padding_bits`) from `MathEngine_Hwy` (a vector of `VecLen` words, the last
one partial and filled up with the mask, no early return). `aliased` makes source
and destination one buffer. **`LaneVector`** is the same call as one atomic step.

**`LtHash`** has one action per member function that changes an instance. An
instance is a key buffer with its length (`detail::Key`), and the words of the
checksum; storage that holds no instance stays visible, so that what a destructor
leaves behind is part of the state. Keys of fixed length (Blake3) are the case
`MinKey = MaxKey`, keys of variable length (Blake2b, Blake2Xb) the other. Engines
act here as whole buffers (`AddChecksum`), which the refinement of `LaneVector`
justifies. The digest of an object under a key is any function at all; it may set
padding bits. **`HomomorphicHash`** is the abstract specification: a key and an
element of a group, with no words, padding or key buffers. A sum a caller
made invalid is `Invalid`, and arithmetic on it gives an arbitrary valid one:
nothing is promised of it except that it does not dirty anything.
**`LtHashMultiset`** adds a history of what every instance contains, with
multiplicities that may be negative, as in the library's own example.

**`Xxh3Stream`** and **`XxhStream`** let a byte of input be its position, so that a
wrong, missing or repeated byte is visible, and let the arithmetic be constant
operators (`accumulate_512`, `scramble_acc`, `round`): what holds, holds of the
scalar and of the vector code. A secret is known by the number of stripes it
serves before a scramble. `digest` is an expression of the state, since it works on
copies, and is compared with the one-shot algorithm of the same header
(`hash_long_internal_loop`, `endian_align`), translated in the same module.
**`HashStream`** says: a digest at any moment is the one-shot hash of everything
since the last reset. `Xxh3Stream` implements it except at the moments of finding 2,
which its history `direct` marks: input was last consumed directly from the argument.
`XxhStream` implements it always. **`XxhStreams`** has both streams, one of which is
used; the properties of the classic one have `Classic` in their names.

**`StreamCopies`** is about several `hash3_state_t`, created, reset with a seed or with
a secret, fed, copied, assigned and destroyed in any order. A pointer is the object
it leads into, and the contents found there are those at the time of use, of a
destroyed object too. An accumulator is the set of the secrets it was mixed with.
`operator=` has no return statement (`internal/xxhash.hpp:1841`), which is
undefined behaviour: a build may return, or run on (`running`).

**`Blake2Xb`** is one hasher from its constructor, in which `sodium_init` may fail, to
the end of `finish`, whose loop over blocks of output is one action per block. A
libsodium state is the parameter block it started from and the list of what it was
fed; a byte of output is an index into such a state, so that a parameter left over
from the root or a wrong node is visible in the output. A hasher of unknown length
takes any buffer: the length it writes into its parameters, and the number of a
node, are truncated to their fields of `FieldSize` values.
**`Blake2b`** adds the caller's buffer for a key and `generate_key`, which Blake2Xb
takes over; libsodium is what it refuses and what its hash depends on.
**`Blake3`** is the wrapper that cannot fail. **`Hasher`** is the life they share:
constructed or refused, fed, finished once. **`BlakeHashers`** puts the three side by
side; one of them lives, the other two are never constructed.

**`HashBytes`** follows the offsets that `wyhash`, Martinus and XXH3 up to 240
bytes read, of the input and of the secret, an iteration of a loop an action.

**`UnorderedContainer`** is the loop of `dice_hash_unordered_container` over the
items in any order, and beside it an application that keeps the hash of the
container up to date with `hash_invertible_combine`, as the library's README
suggests. A `size_t` is a set of bits.

**`DiceHash`** is one call of `dice_hash`: an overload is an action, the calls that
wait for the hash of an item are frames on `stack`, as calls nest the way values
do. A value is a finite tree, which `Depth` says; what its hash should be is
`Denotation`, a recursive function along the value, and `HoldsNoValue` likewise says
where the seed may be its hash. `Types` holds every type, those of items too.
`hash_combine`, which is given all hashes, and `HashState`, which is told their number
first and the hashes one by one, are separate code in every policy and separate
operators here: that they agree is a result. Ideal arithmetic is assumed of the policies: a result names its operation and
arguments (an *atom*), and as hashes are also combined by xor, a hash is a set of
atoms, and 0 the empty one. `hash_int` of Martinus is a sum of multiples of its argument:
the integer 0, `nullptr` and `0.0` have the hash 0 (`IsHashedToZero`). Of `_wymix` two facts are kept: it is symmetric in its arguments, and with 0
it returns the other argument unchanged (`internal/wyhash.h:94`). **`DiceHashContainer`**
composes it with `UnorderedContainer`: the loop and the application call `dice_hash`
for their items, in as many steps as that takes.

Names beginning with MC hold instances; `LtHashInstances` holds the values
shared by two of them. Definitions commented *Faulty* are variants of the
definition after them with a plausible bug; no specification uses them, they
document what each property would catch.

## 3. Runs

| Run | Question | Bounds, and why they are enough |
|---|---|---|
| `MathEngine_padded` | Does a call of either engine do what an atomic element-wise operation does, aliased or not, with clean or dirty padding? | 3 words and vectors of 2: one full and one partial vector. Words at the edges: zero, all ones, a carry out of the elements, a padding bit. |
| `MathEngine_unpadded` | The same without padding: do two groups of masks keep the carries of neighbours apart? | All pairs of words of 4 elements of 2 or 3 values. Carries span any number of elements. |
| `LtHash_instances` | Is an instance a key and a group element whatever is called; are keys legal and erased; what does a call that throws leave behind? | 2 instances, keys of legal and illegal lengths, checksums clean and dirty; one word of two elements with padding. No operation involves three instances. |
| `LtHash_multiset` | Is the checksum a function of the multiset? | Multiplicities -1 to 1 of one object under two keys; sums wrap around, as the elements have 2 or 3 values. Fixed key length. |
| `LtHash_setchecksum` | Does `set_checksum` keep what it refuses? (violated, see 6) | As `LtHash_instances`. |
| `XxhStreams_pieces` | Is a digest of either stream the one-shot hash, and where is the last stripe of XXH3? | XXH3: stripe of 3, buffer of 3 stripes, secrets of 3 and 5 stripes: a buffer is exactly a block of the one and straddles a scramble of the other. 60 bytes are several blocks. Piece lengths from 0 to several buffers. Classic: words of 2 bytes, up to 70 bytes; pieces shorter than, equal to and longer than the memory. |
| `XxhStreams_long` | Is the last stripe the end of the input, for any piece? (violated, see 6) | As `XxhStreams_pieces`. |
| `Stream_copies` | Which streams hash under what they were reset with? | Three streams: a copy of a copy and a bystander. Two seeds besides 0, which are needed to tell a secret that changed; one caller's secret. A buffer of 2, pieces of 1 and 3, at most 3 bytes: short and long hashes, buffered and consumed. Streams are symmetric, no property tells them apart. |
| `Blake_hashers` | Do the hashers refuse wrong keys and buffers, end, and fill the right buffer with the hash of what was fed? | Blake2Xb: blocks of 3 bytes, length fields up to 15, buffers up to 51 bytes: no block, partial and full last blocks, the largest legal length, an unknown length with buffers beyond either field, the largest of which repeats its first block. Blake2b: all lengths from 0 to one too large. Keys of all kinds of lengths, and `generate_key` called repeatedly. Up to two pieces. Dynamic and static extents. |
| `HashBytes_lengths` | Are all bytes of the input read, and nothing else? | None: all lengths 0 to 240 with the constants of the code. wyhash and Martinus have no longer cases; XXH3 beyond is the stream's one-shot form. |
| `DiceHash_values` | Is the hash a function of the value, does it tell values apart, and does that of a container depend on its contents alone? | Types of up to three levels, their items' types included, over words 0 to 2 with up to three items per level, all three policies: of every overload, among them unordered containers of variants and of empty sequences, and overloads that hold a variant or an unordered container; containers of up to four items, one of them of hash 0 (the integer 0 under Martinus, an empty container otherwise) and one a container of its own, in all orders of insertion, removal and iteration. A second level of the same kind of container is in one of the types; deeper levels repeat the same overloads. |

`CHECK_DEADLOCK FALSE` is given where a behaviour is one call or one life and ends
(`MathEngine_*`, `Blake_hashers`, `HashBytes_lengths`, `DiceHash_values`), and in
`Stream_copies`, which may run off the end of `operator=`. Other bounds: `MaxInput`
(bytes fed before a reset), `MaxPieces`, `MaxCount`.

**Fairness.** Two specifications have it, both of a loop that a single thread runs
to its end once the call was made: `WF_vars(Next)` in `MathEngine`, where a
behaviour is one call, and weak fairness of the steps of `finish` in `Blake2Xb`,
where nothing obliges a caller to feed or to finish. The other specifications are
safety only: nothing in those parts has to happen.

## 4. What is proved

All proofs hold for arbitrary constants that satisfy the named assumptions of the
modules, which TLC evaluates in the runs.

- **`LaneWordProofs`**: on clean words the engines' arithmetic is element-wise
  modular arithmetic (`EngineAddLanes`, `EngineSubLanes`), and whatever the padding
  of the operands, the result is clean (`EngineResultClean`). The argument: a carry
  into field *i* needs an overflow below and fields of all ones between; the field
  just below an element of a separated mask is zero in both operands and stops it.
  `AddWordIsModular` and `SubWordIsModular`: the carries and borrows of the model are those
  of machine words, so that what is proved of it is proved of `uint64_t`. By induction from the lowest field up: the digits below a field,
  and its weight if a carry enters it, make up the sum of the operands' digits.
- **`MathEngineProofs`**: for buffers and vectors of any size, `TypeCorrect`,
  `UnreachedUntouched` and `EngineIsAtomic`, the step-by-step refinement of `LaneVector`
  without its liveness. The invariant: words before the index hold the result, words
  from it on their original contents, and the verdict of a check is that of the words
  before the index. It makes an aliased call the same as any other: an iteration
  reads, before it stores, words no earlier one has stored to.
- **`LtHashProofs`**: `TypeCorrect`, `NoexceptSound`, `KeysAreErased`. None of the
  three is inductive: `NoexceptIsSound` needs that a length is legal in every buffer
  a move may copy, `KeysErased` that dead storage holds exactly a cleared key. The
  invariant `IInv` says both. `ChecksumsStayValid` needs, in addition, that callers
  supply valid checksums; this is the hypothesis that `set_checksum` does not
  enforce (section 6). `LtHashIsHomomorphic`: `LtHash` implements
  `HomomorphicHash`, step by step, with the arithmetic of `LaneWordProofs` for the
  combining operations.
  `ThrowingLeavesNothingValid` needs no such hypothesis: a call that throws changes no
  key, and a checksum only into an invalid one.
  `ChecksumsAreMultisetHashes`: the checksum is the sum over the multiset, for finitely
  many objects and keys (`HistoryAssumption`). The invariant `HInv` says it element by
  element of every instance alive, a combination adds two such sums, and a sum over a
  finite set is `SumFunction`, a function whose equation is proved by induction on
  the set's size.
- **`XxhStreamsProofs`**, for any stripe, buffer, secrets and pieces. `StreamIsHashStream`:
  the digest is the one-shot hash, except at the moments marked `direct`. Both are
  compared with one walk along the stripes of the input, `Along`, which scrambles at
  every end of a block: the one-shot loop by blocks arrives where the walk does, and
  the invariant `SInv` says that the stream has gone as far as it has consumed. Of the
  buffer it says, in two halves, that the waiting bytes are the end of the input
  (`EndBuffered`), and that the bytes behind them, left from the round before, are the
  input before it (`PastBuffered`), which is the half that a direct consumption breaks
  and that `LastStripeAlwaysBuffered` needs. `TypeCorrect` follows from `SInv`, if mixing a
  stripe at an offset within a block gives an accumulator again (`AccsClosed`). The
  loops are recursive functions over an interval; that such a function exists is
  proved first, by induction over a set of naturals with no operator parameter.
  Of the classic stream, for words of any size: `ClassicIsHashStream`, without exception,
  and `ClassicTypeCorrect` (with `LanesClosed`). The invariant `KInv` says that the lanes are
  those after a number of blocks of one endless input (`Walk`), and that `mem` begins with
  what follows them, less than a block; `ClassicConsumeAlong` says that a loop over blocks
  goes on with the walk wherever it reads them, `mem`, the piece or the input in one.
- **`StreamCopiesProofs`**, for any number of streams: `HashUnderKey`, `ShortHashUnderKey`,
  `TypeCorrect`. The invariant `KeyInv` binds an object's seed, pointer and key together
  in every state, also after the object pointed at has changed, and says that an
  undisturbed stream finds its key at the end of the pointer and has mixed in
  nothing else. `disturbed` marks the streams whose secret changed under them.
- **`BlakeProofs`**, for blocks, keys, buffers and lengths of any size. Of Blake2Xb:
  `OutputAlwaysXof`, `LengthAlwaysAnnounced`, `OutputRepeatsFarApart`, `TypeCorrect`, truncated
  lengths included. The invariant ties the position in the buffer to the node: while
  bytes remain it is a multiple of the block size, and the parameter block is that of
  the blocks, of the whole length, and nothing of the root. Bytes of the
  output repeat a multiple of `FieldSize` blocks apart, if at all: equal bytes lie at the
  same place of nodes of the same number, and the numbers are taken modulo `FieldSize`. Of Blake2b: `NeverRefused` (libsodium never returns an
  error the code only asserts against) and `GeneratedAlwaysAccepted`. And all three are
  the abstract hasher: `Blake2XbIsHasher`, where the blocks of `finish` are stutters
  until the last, `Blake2bIsHasher`, `Blake3IsHasher`.
- **`HashBytesProofs`**: `ReadsStayWithinBounds`, `AllBytesAreRead` for inputs of every
  length. The invariant: what a loop has read is a prefix of the input, and the
  offset and the bytes left add up to the length.
- **`DiceHashProofs`**, for finite values of any depth and containers of any size.
  `HashesAlwaysParities`, `HashDependsOnContents`: every step of the loop or of the
  application flips the bits of one item. `CallsReturnDenotation`: every call returns the
  hash of its value. `Denotation` exists because depth decreases towards the items; the
  invariant `CInv` says of every frame that it has combined the items it is done with,
  and of the call in progress that it owes the hash of the item its caller waits for.
  What a `HashState` holds after *k* hashes is what the loop of `hash_combine` holds then
  (`Mixed`, `LoopCombines`); for xxh3 it is the list of them.
  `FaultyHashesHaveNoValue`: by induction along the value, the seed is the hash of what
  `HoldsNoValue` describes only; for wyhash this needs that a fold of `_wymix` loses the
  seed with the first hash that is not 0 (`MixedLosesSeed`). `DifferentValuesDiffer`: by
  induction over the depth of two values of one type, what an overload combines can
  be told from the result. An unmerged item of an unordered container is hashed to a
  single atom (`OneAtom`), which no other item can cancel, and not to 0; two loops that
  mix other hashes, or another number of them, arrive at other states (`LoopsApart`),
  Martinus because it starts from the number of hashes; `_wymix` has no order, but a
  state and an item's hash are never taken for each other (`MixApart`). It assumes what
  C++ says of two values of a type, `WellTyped`, and that unordered containers are sets
  (`ItemsAreSets`). `NestedLoopImplementsLoop`:
  with items hashed by nested calls, the loop is still that of `UnorderedContainer`.

**Only model-checked:** the termination properties, as liveness is beyond the prover.

## 5. Assumptions and what is not modelled

- The hash of libsodium and of BLAKE3 is a function of parameters and input, and no
  two of them differ by accident; so is a result of a policy, in `DiceHash`.
- Assertions hold: a move of an instance into itself is excluded by one
  (`lthash/LtHash.hpp:205`) and is not an action.
- `generate_key` draws from `std::random_device`: any key of the length, in one step.
- The secret a caller gives to an XXH3 stream outlives the stream and does not change.
- The arithmetic of XXH3, wyhash and Martinus: its quality is a matter of statistics,
  its vector forms are constant operators here. `canonical_t` is left out, it only
  reverses bytes.
- What one digest function promises to another: the Blake2Xb that LtHash uses is an
  arbitrary function of key and object there.
- Big-endian machines, on which the node offset of Blake2Xb is stored truncated
  (`blake/Blake2Xb.hpp:186`).
- Compile-time questions: which overload a type selects (`internal/Container_trait.hpp`),
  the library's README mentioning `std::optional`, for which there is no overload; the
  constant-time comparison of checksums (`lthash/LtHash.hpp:283`), which would not
  compile if instantiated.
- Representation of values: a fundamental value is its bytes in `DiceHash`, so that
  `0.0` and `-0.0`, or the padding of `long double` (`DiceHash.hpp:138`), are different
  values there.

**What the policies do not tell apart.** `ValuesToldApart` and `FaultyMeansNoValue` name
the exceptions they have (`Merged`, `HoldsNoValue`), which follow from the code and are no bugs by
its documentation: alternatives of a variant with the same bytes; unordered
containers in an unordered container, whose items are merged by xor; items of
hash 0 in an unordered container, which the xor drops: under Martinus, the default
policy, these are the integer 0, `nullptr` and `0.0`, so that
`std::unordered_set<int>{}` and `{0}` have the same hash
(`internal/martinus_robinhood_hash.hpp:161`); and under
wyhash a pair `(a, {b})` and `(b, {a})`, since `_wymix` is symmetric, a hash of 0 in a
sequence, and an empty sequence, whose hash is the seed and so `is_faulty`. An
overload, a variant and an unordered container of one item take over a faulty hash.
An overload passes its item's hash on, so what is said of an item's kind or of its being 0
is said of the value that is hashed in the end (`Held`): the proof of `DifferentValuesDiffer` does not
go through without it.

## 6. Findings

1. **`set_checksum` is not atomic** (`lthash/LtHash.hpp:300`, run
   `LtHash_setchecksum`). It copies the new checksum, then checks its padding and
   throws. After the exception the instance holds the refused checksum, which the
   tests call invalid; after every other call that throws the instance is as it
   was (`ThrowingCallsLeaveNothingValid`, run `LtHash_instances`).
2. **The last stripe of a long update** (`internal/xxhash.hpp:1833`, run
   `XxhStreams_long`). `update_impl` consumes whole buffers directly from the
   argument and does not keep their last bytes; `digest_long` looks for them at the
   end of the internal buffer. A stream fed with one piece longer than the buffer
   whose rest is shorter than a stripe has another digest than the one-shot hash.
   With pieces shorter than the buffer, which is how the policies use the stream
   (eight bytes at a time), the two agree (`XxhStreams_pieces`).

## 7. Plan

In order of importance; all of it is done.

1. `LaneWord`, `MathEngine`, `LaneVector` with `LaneWordProofs`.
2. `LtHash` with `LtHashProofs`, `HomomorphicHash`, `LtHashMultiset`.
3. `Xxh3Stream`, `HashStream`, `XxhStream`, `XxhStreams`.
4. `Blake2Xb`, `Hasher`.
5. `HashBytes`, `HashBytesProofs`.
6. `UnorderedContainer`.
7. `Blake2b`, `Blake3` against `Hasher`; `BlakeHashers`, `BlakeProofs`.
8. `StreamCopies`: copies of `hash3_state_t` and the secrets they point to,
   `StreamCopiesProofs`.
9. `DiceHash`, `DiceHashContainer`: structured values and the policies,
   `DiceHashProofs`.
10. `MathEngineProofs`, `XxhStreamsProofs`.
