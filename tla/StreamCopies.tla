---------------------------- MODULE StreamCopies ----------------------------
(***************************************************************************)
(* Several objects of hash3_state_t and the secrets they hash with.  A     *)
(* stream reset with a seed stores the secret derived from it within       *)
(* itself and keeps a pointer to it.  Copying a stream copies the secret   *)
(* and the pointer, so the copy hashes with the secret of the original.    *)
(*                                                                         *)
(* The contents of a secret are the seed it is derived from, where 0 gives *)
(* default_secret, or the secret of a caller itself.  An accumulator is    *)
(* the set of the secrets it was mixed with; what is mixed, and in which   *)
(* order, is the matter of Xxh3Stream.                                     *)
(***************************************************************************)
EXTENDS Naturals

CONSTANTS
  Streams,         \* objects of hash3_state_t, and pointers to their customSecret
  Seeds,           \* seeds given to reset
  CallerSecrets,   \* secrets given to reset, and pointers to them
  default_secret,  \* a pointer
  Zeroed, Freed,   \* contents of a customSecret nothing was derived for, of a destroyed object
  BufferSize,      \* internal_buffer_size
  MidsizeMax,      \* midsize_max: longer inputs use the accumulator
  Lengths,         \* lengths of the pieces given to update
  MaxInput         \* bound on the input a run explores

(* What a pointer can show, and what a stream can be reset with. *)
Contents == Seeds \cup CallerSecrets \cup {Zeroed, Freed}

Keys == Seeds \cup CallerSecrets

ASSUME CopiesAssumption ==
  /\ 0 \in Seeds /\ Seeds \subseteq Nat
  /\ Seeds \cap CallerSecrets = {}
  /\ {Zeroed, Freed} \cap Keys = {}
  /\ Streams \cap (CallerSecrets \cup {default_secret}) = {}
  /\ default_secret \notin CallerSecrets
  /\ BufferSize \in Nat \ {0} /\ MidsizeMax \in 0 .. BufferSize
  /\ Lengths \subseteq Nat /\ MaxInput \in Nat

VARIABLES
  alive,         \* the objects that exist
  acc,
  customSecret,
  bufferedSize,
  totalLen,
  seed,
  secret,        \* the pointer
  key,           \* history: what a stream, or what it was copied from, was reset with
  disturbed,     \* history: the secret pointed at was changed in another object
  running        \* the program has not run off the end of operator=

vars == <<alive, acc, customSecret, bufferedSize, totalLen, seed, secret, key, disturbed, running>>

-----------------------------------------------------------------------------
(* What is found where the secret of a stream points to. *)
Secret(o) ==
  IF secret[o] \in Streams THEN customSecret[secret[o]]
  ELSE IF secret[o] = default_secret THEN 0 ELSE secret[o]

(* The object o is rewritten, and what customSecret holds with it. *)
Rewrite(o, contents) ==
  /\ customSecret' = [customSecret EXCEPT ![o] = contents]
  /\ disturbed' =
       [p \in Streams |->
          \/ p # o /\ disturbed[p]
          \/ p # o /\ secret[p] = o /\ contents # customSecret[o]]

Init ==
  /\ alive = {}
  /\ acc = [o \in Streams |-> {}]
  /\ customSecret = [o \in Streams |-> Freed]
  /\ bufferedSize = [o \in Streams |-> 0]
  /\ totalLen = [o \in Streams |-> 0]
  /\ seed = [o \in Streams |-> 0]
  /\ secret = [o \in Streams |-> default_secret]
  /\ key = [o \in Streams |-> 0]
  /\ disturbed = [o \in Streams |-> FALSE]
  /\ running = TRUE

(* The constructors call reset. *)
Emptied(o, s, pointer, k) ==
  /\ alive' = alive \cup {o}
  /\ acc' = [acc EXCEPT ![o] = {}]
  /\ bufferedSize' = [bufferedSize EXCEPT ![o] = 0]
  /\ totalLen' = [totalLen EXCEPT ![o] = 0]
  /\ seed' = [seed EXCEPT ![o] = s]
  /\ secret' = [secret EXCEPT ![o] = pointer]
  /\ key' = [key EXCEPT ![o] = k]
  /\ UNCHANGED running

(* Faulty: a stream that has a secret to read keeps the pointer to it. *)
own_secret_once(o, s) ==
  IF s = 0 THEN default_secret ELSE IF secret[o] \in Streams THEN secret[o] ELSE o

own_secret(o, s) == IF s = 0 THEN default_secret ELSE o

reset_seed(o, s) ==
  /\ Emptied(o, s, own_secret(o, s), s)
  /\ Rewrite(o, IF s = 0 THEN Zeroed ELSE s)

(* Faulty: the seed of an earlier reset stays. *)
reset_secret_keeping_seed(o, c) ==
  /\ Emptied(o, seed[o], c, c)
  /\ Rewrite(o, Zeroed)

reset_secret(o, c) ==
  /\ Emptied(o, 0, c, c)
  /\ Rewrite(o, Zeroed)

(* Filling the buffer reads no secret, consuming it does. *)
update(o, len) ==
  /\ o \in alive
  /\ totalLen[o] + len <= MaxInput
  /\ totalLen' = [totalLen EXCEPT ![o] = @ + len]
  /\ IF bufferedSize[o] + len <= BufferSize
       THEN /\ bufferedSize' = [bufferedSize EXCEPT ![o] = @ + len]
            /\ UNCHANGED acc
       ELSE LET loaded == IF bufferedSize[o] > 0 THEN BufferSize - bufferedSize[o] ELSE 0
            IN  /\ bufferedSize' = [bufferedSize EXCEPT ![o] = (len - loaded) % BufferSize]
                /\ acc' = [acc EXCEPT ![o] = @ \cup {Secret(o)}]
  /\ UNCHANGED <<alive, customSecret, seed, secret, key, disturbed, running>>

(* All members of p, the pointer included. *)
Copied(o, p) ==
  /\ acc' = [acc EXCEPT ![o] = acc[p]]
  /\ bufferedSize' = [bufferedSize EXCEPT ![o] = bufferedSize[p]]
  /\ totalLen' = [totalLen EXCEPT ![o] = totalLen[p]]
  /\ seed' = [seed EXCEPT ![o] = seed[p]]
  /\ secret' = [secret EXCEPT ![o] = secret[p]]
  /\ key' = [key EXCEPT ![o] = key[p]]
  /\ customSecret' = [customSecret EXCEPT ![o] = customSecret[p]]
  /\ disturbed' =
       [r \in Streams |->
          \/ disturbed[IF r = o THEN p ELSE r]
          \/ /\ secret[IF r = o THEN p ELSE r] = o
             /\ customSecret[p] # customSecret[o]]

(* The implicit copy constructor. *)
copy_construct(o, p) ==
  /\ o \notin alive /\ p \in alive
  /\ alive' = alive \cup {o}
  /\ Copied(o, p)
  /\ UNCHANGED running

(* operator= has no return statement: a build may let the call return, with a
   result nobody can use, or run on into whatever follows.                 *)
assign(o, p) ==
  /\ {o, p} \subseteq alive
  /\ Copied(o, p)
  /\ running' \in BOOLEAN
  /\ UNCHANGED alive

(* The members of a destroyed object are out of reach, but not its secret. *)
destroy(o) ==
  /\ o \in alive
  /\ alive' = alive \ {o}
  /\ acc' = [acc EXCEPT ![o] = {}]
  /\ bufferedSize' = [bufferedSize EXCEPT ![o] = 0]
  /\ totalLen' = [totalLen EXCEPT ![o] = 0]
  /\ seed' = [seed EXCEPT ![o] = 0]
  /\ secret' = [secret EXCEPT ![o] = default_secret]
  /\ key' = [key EXCEPT ![o] = 0]
  /\ Rewrite(o, Freed)
  /\ UNCHANGED running

Next ==
  /\ running
  /\ \E o \in Streams :
       \/ \E s \in Seeds : reset_seed(o, s)
       \/ \E c \in CallerSecrets : reset_secret(o, c)
       \/ \E len \in Lengths : update(o, len)
       \/ \E p \in Streams : copy_construct(o, p) \/ assign(o, p)
       \/ destroy(o)

Spec == Init /\ [][Next]_vars

-----------------------------------------------------------------------------
(* Digests.  A short hash is made of a secret and the seed that are given,
   a long one of all the secrets read on the way.                          *)

(* Faulty: the secret is looked at whatever the seed. *)
short_secret_given(s, contents) == contents

(* A seed is used with default_secret. *)
short_secret(s, contents) == IF s # 0 THEN 0 ELSE contents

xxhash3_impl(s, contents, len) ==
  IF len <= MidsizeMax
    THEN [len |-> len, seed |-> s, secret |-> short_secret(s, contents)]
    ELSE [len |-> len, secrets |-> {IF s # 0 THEN s ELSE contents}]

digest(o) ==
  IF totalLen[o] > MidsizeMax
    THEN [len |-> totalLen[o], secrets |-> acc[o] \cup {Secret(o)}]
    ELSE xxhash3_impl(seed[o], Secret(o), totalLen[o])

(* The hash of the same input under what the stream was reset with. *)
OneShot(k, len) == IF k \in Seeds THEN xxhash3_impl(k, 0, len) ELSE xxhash3_impl(0, k, len)

-----------------------------------------------------------------------------
(* Properties.                                                             *)

(* The members of every object, and where its secret can point to: only a
   stream with a seed points into an object.                               *)
TypeOK ==
  /\ alive \in SUBSET Streams
  /\ acc \in [Streams -> SUBSET Contents]
  /\ customSecret \in [Streams -> Contents]
  /\ bufferedSize \in [Streams -> 0 .. BufferSize]
  /\ totalLen \in [Streams -> 0 .. MaxInput]
  /\ seed \in [Streams -> Seeds]
  /\ secret \in [Streams -> Streams \cup CallerSecrets \cup {default_secret}]
  /\ key \in [Streams -> Keys]
  /\ disturbed \in [Streams -> BOOLEAN]
  /\ running \in BOOLEAN
  /\ \A o \in Streams : secret[o] \in Streams <=> seed[o] # 0

(* Copies, copies of copies and their originals are fed, reset and destroyed
   in any order: a stream hashes under what it was reset with, unless the
   object its secret lies in was reset, overwritten or destroyed since.    *)
UndisturbedHashUnderTheirKey ==
  \A o \in alive : ~disturbed[o] => digest(o) = OneShot(key[o], totalLen[o])

(* Even then, up to midsize_max bytes, digest does not need the secret of a
   seed: it is enough that the seed was copied.                            *)
ShortInputsNeedNoSecret ==
  \A o \in alive : totalLen[o] <= MidsizeMax => digest(o) = OneShot(key[o], totalLen[o])

=============================================================================
