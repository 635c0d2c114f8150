------------------------- MODULE StreamCopiesProofs -------------------------
(***************************************************************************)
(* Any number of streams, created, fed, copied, assigned and destroyed in  *)
(* any order: an undisturbed one hashes under what it was reset with.      *)
(***************************************************************************)
EXTENDS StreamCopies, TLAPS

(* What the seed, the pointer and the reset a stream goes back to have to do
   with each other, whatever happened to the object pointed at.             *)
Bound(o) ==
  IF seed[o] # 0 THEN key[o] = seed[o]
  ELSE key[o] = IF secret[o] = default_secret THEN 0 ELSE secret[o]

(* The secret is still that of the reset, and no other was mixed in. *)
Faithful(o) == Secret(o) = key[o] /\ acc[o] \subseteq {key[o]}

KeyInv ==
  /\ TypeOK
  /\ \A o \in Streams : Bound(o)
  /\ \A o \in Streams : ~disturbed[o] => Faithful(o)

-----------------------------------------------------------------------------
(* Type correctness. *)

LEMMA TypeInit == Init => TypeOK
  BY CopiesAssumption DEF Init, TypeOK, Contents, Keys

LEMMA SecretType ==
  ASSUME TypeOK, NEW o \in Streams
  PROVE  Secret(o) \in Contents
  BY CopiesAssumption DEF TypeOK, Secret, Contents

(* An object is reset or destroyed. *)
LEMMA TypeRewritten ==
  ASSUME TypeOK, NEW o \in Streams, NEW a \in SUBSET Streams,
         NEW s \in Seeds, NEW pointer \in Streams \cup CallerSecrets \cup {default_secret},
         pointer \in Streams <=> s # 0, NEW k \in Keys, NEW contents \in Contents,
         alive' = a,
         acc' = [acc EXCEPT ![o] = {}],
         bufferedSize' = [bufferedSize EXCEPT ![o] = 0],
         totalLen' = [totalLen EXCEPT ![o] = 0],
         seed' = [seed EXCEPT ![o] = s],
         secret' = [secret EXCEPT ![o] = pointer],
         key' = [key EXCEPT ![o] = k],
         running' = running,
         Rewrite(o, contents)
  PROVE  TypeOK'
  BY CopiesAssumption DEF TypeOK, Rewrite

LEMMA TypeUpdate ==
  ASSUME TypeOK, NEW o \in Streams, NEW len \in Lengths, update(o, len)
  PROVE  TypeOK'
<1>1. /\ len \in Nat /\ BufferSize \in Nat \ {0} /\ MaxInput \in Nat
      /\ bufferedSize[o] \in 0 .. BufferSize /\ totalLen[o] \in 0 .. MaxInput
  BY CopiesAssumption DEF TypeOK
<1>2. totalLen' \in [Streams -> 0 .. MaxInput]
  BY <1>1 DEF update, TypeOK
<1>3. CASE bufferedSize[o] + len <= BufferSize
  BY <1>1, <1>2, <1>3 DEF update, TypeOK
<1>4. CASE ~(bufferedSize[o] + len <= BufferSize)
  <2> DEFINE loaded == IF bufferedSize[o] > 0 THEN BufferSize - bufferedSize[o] ELSE 0
             rest == len - loaded
  <2>1. rest \in Nat
    BY <1>1, <1>4
  <2>2. /\ bufferedSize' = [bufferedSize EXCEPT ![o] = rest % BufferSize]
        /\ acc' = [acc EXCEPT ![o] = @ \cup {Secret(o)}]
    BY <1>4 DEF update
  <2> HIDE DEF rest
  <2>3. rest % BufferSize \in 0 .. BufferSize
    BY <1>1, <2>1
  <2>4. bufferedSize' \in [Streams -> 0 .. BufferSize] /\ acc' \in [Streams -> SUBSET Contents]
    BY <2>2, <2>3, SecretType DEF TypeOK
  <2> QED
    BY <1>2, <2>4 DEF update, TypeOK
<1> QED
  BY <1>3, <1>4

LEMMA TypeCopied ==
  ASSUME TypeOK, NEW o \in Streams, NEW p \in Streams, Copied(o, p),
         alive' \in SUBSET Streams, running' \in BOOLEAN
  PROVE  TypeOK'
<1>1. /\ acc' \in [Streams -> SUBSET Contents]
      /\ customSecret' \in [Streams -> Contents]
      /\ bufferedSize' \in [Streams -> 0 .. BufferSize]
      /\ totalLen' \in [Streams -> 0 .. MaxInput]
  BY DEF Copied, TypeOK
<1>2. /\ seed' \in [Streams -> Seeds]
      /\ secret' \in [Streams -> Streams \cup CallerSecrets \cup {default_secret}]
      /\ key' \in [Streams -> Keys]
      /\ \A r \in Streams : secret'[r] \in Streams <=> seed'[r] # 0
  BY DEF Copied, TypeOK
<1>3. disturbed' \in [Streams -> BOOLEAN]
  BY DEF Copied, TypeOK
<1> QED
  BY <1>1, <1>2, <1>3 DEF TypeOK

-----------------------------------------------------------------------------
(* The invariant. *)

LEMMA KeyInit == Init => KeyInv
<1> SUFFICES ASSUME Init PROVE KeyInv
  OBVIOUS
<1>1. \A o \in Streams : secret[o] = default_secret /\ seed[o] = 0 /\ key[o] = 0 /\ acc[o] = {}
  BY DEF Init
<1>2. default_secret \notin Streams
  BY CopiesAssumption
<1> QED
  BY <1>1, <1>2, TypeInit DEF KeyInv, Bound, Faithful, Secret

(* A stream is left alone while another object is rewritten: it is disturbed
   if its secret is no longer what it was.                                  *)
LEMMA OthersFaithful ==
  ASSUME KeyInv, NEW o \in Streams, NEW contents, Rewrite(o, contents),
         NEW r \in Streams, r # o, ~disturbed'[r],
         secret'[r] = secret[r], key'[r] = key[r], acc'[r] = acc[r]
  PROVE  Faithful(r)'
<1>1. ~disturbed[r] /\ (secret[r] = o => contents = customSecret[o])
  BY DEF Rewrite, KeyInv, TypeOK
<1>2. Faithful(r)
  BY <1>1 DEF KeyInv
<1>3. secret[r] \in Streams => customSecret'[secret[r]] = customSecret[secret[r]]
  BY <1>1 DEF Rewrite, KeyInv, TypeOK
<1>4. Secret(r)' = Secret(r)
  BY <1>3 DEF Secret
<1> QED
  BY <1>2, <1>4 DEF Faithful

(* An object is reset or destroyed. *)
LEMMA KeyRewritten ==
  ASSUME KeyInv, NEW o \in Streams, NEW a \in SUBSET Streams,
         NEW s \in Seeds, NEW pointer \in Streams \cup CallerSecrets \cup {default_secret},
         NEW k \in Keys, NEW contents \in Contents,
         IF s # 0 THEN pointer = o /\ k = s /\ contents = s
                  ELSE pointer \notin Streams
                       /\ k = (IF pointer = default_secret THEN 0 ELSE pointer),
         alive' = a,
         acc' = [acc EXCEPT ![o] = {}],
         bufferedSize' = [bufferedSize EXCEPT ![o] = 0],
         totalLen' = [totalLen EXCEPT ![o] = 0],
         seed' = [seed EXCEPT ![o] = s],
         secret' = [secret EXCEPT ![o] = pointer],
         key' = [key EXCEPT ![o] = k],
         running' = running,
         Rewrite(o, contents)
  PROVE  KeyInv'
<1>1. TypeOK'
  <2>1. pointer \in Streams <=> s # 0
    OBVIOUS
  <2> QED
    BY <2>1, TypeRewritten DEF KeyInv
<1>2. /\ acc'[o] = {} /\ seed'[o] = s /\ secret'[o] = pointer /\ key'[o] = k
      /\ customSecret'[o] = contents
  BY DEF KeyInv, TypeOK, Rewrite
<1>3. \A r \in Streams \ {o} :
        seed'[r] = seed[r] /\ secret'[r] = secret[r] /\ key'[r] = key[r] /\ acc'[r] = acc[r]
  BY DEF KeyInv, TypeOK
<1>4. ASSUME NEW r \in Streams PROVE Bound(r)'
  <2>1. CASE r = o
    BY <1>2, <2>1 DEF Bound
  <2>2. CASE r # o
    BY <1>3, <2>2 DEF Bound, KeyInv
  <2> QED
    BY <2>1, <2>2
<1>5. ASSUME NEW r \in Streams, ~disturbed'[r] PROVE Faithful(r)'
  <2>1. CASE r = o
    <3>1. Secret(o)' = k
      BY <1>2 DEF Secret
    <3> QED
      BY <1>2, <2>1, <3>1 DEF Faithful
  <2>2. CASE r # o
    BY <1>3, <1>5, <2>2, OthersFaithful
  <2> QED
    BY <2>1, <2>2
<1> QED
  BY <1>1, <1>4, <1>5 DEF KeyInv

LEMMA KeyResetSeed ==
  ASSUME KeyInv, NEW o \in Streams, NEW s \in Seeds, reset_seed(o, s)
  PROVE  KeyInv'
<1> DEFINE pointer == own_secret(o, s)
           contents == IF s = 0 THEN Zeroed ELSE s
<1>1. /\ Emptied(o, s, pointer, s) /\ Rewrite(o, contents)
      /\ pointer \in Streams \cup CallerSecrets \cup {default_secret}
      /\ s \in Keys /\ contents \in Contents /\ alive \cup {o} \in SUBSET Streams
  BY DEF reset_seed, own_secret, Contents, Keys, KeyInv, TypeOK
<1>2. IF s # 0 THEN pointer = o /\ s = s /\ contents = s
               ELSE pointer \notin Streams /\ s = (IF pointer = default_secret THEN 0 ELSE pointer)
  BY CopiesAssumption DEF own_secret
<1> HIDE DEF pointer, contents
<1> QED
  BY <1>1, <1>2, KeyRewritten DEF Emptied

LEMMA KeyResetSecret ==
  ASSUME KeyInv, NEW o \in Streams, NEW c \in CallerSecrets, reset_secret(o, c)
  PROVE  KeyInv'
<1>1. /\ Emptied(o, 0, c, c) /\ Rewrite(o, Zeroed) /\ 0 \in Seeds
      /\ c \in Keys /\ Zeroed \in Contents /\ alive \cup {o} \in SUBSET Streams
  BY CopiesAssumption DEF reset_secret, Contents, Keys, KeyInv, TypeOK
<1>2. c \notin Streams /\ c # default_secret
  BY CopiesAssumption
<1> QED
  BY <1>1, <1>2, KeyRewritten DEF Emptied

LEMMA KeyDestroy ==
  ASSUME KeyInv, NEW o \in Streams, destroy(o)
  PROVE  KeyInv'
<1>1. 0 \in Seeds /\ 0 \in Keys /\ Freed \in Contents /\ default_secret \notin Streams
      /\ alive \ {o} \in SUBSET Streams
  BY CopiesAssumption DEF Contents, Keys, KeyInv, TypeOK
<1> QED
  BY <1>1, KeyRewritten DEF destroy

LEMMA KeyUpdate ==
  ASSUME KeyInv, NEW o \in Streams, NEW len \in Lengths, update(o, len)
  PROVE  KeyInv'
<1>1. TypeOK'
  BY TypeUpdate DEF KeyInv
<1>2. /\ customSecret' = customSecret /\ seed' = seed /\ secret' = secret /\ key' = key
      /\ disturbed' = disturbed
  BY DEF update
<1>3. \A r \in Streams : acc'[r] \subseteq acc[r] \cup {Secret(r)}
  BY DEF update, KeyInv, TypeOK
<1>4. \A r \in Streams : Bound(r)'
  BY <1>2 DEF KeyInv, Bound
<1>5. ASSUME NEW r \in Streams, ~disturbed'[r] PROVE Faithful(r)'
  <2>1. Faithful(r)
    BY <1>2, <1>5 DEF KeyInv
  <2>2. Secret(r)' = Secret(r)
    BY <1>2 DEF Secret
  <2> QED
    BY <1>2, <1>3, <2>1, <2>2 DEF Faithful
<1> QED
  BY <1>1, <1>4, <1>5 DEF KeyInv

LEMMA KeyCopied ==
  ASSUME KeyInv, NEW o \in Streams, NEW p \in Streams, Copied(o, p),
         alive' \in SUBSET Streams, running' \in BOOLEAN
  PROVE  KeyInv'
<1>1. TypeOK'
  BY TypeCopied DEF KeyInv
<1>2. ASSUME NEW r \in Streams
      PROVE  \E q \in Streams :
               /\ acc'[r] = acc[q] /\ seed'[r] = seed[q] /\ secret'[r] = secret[q]
               /\ key'[r] = key[q]
               /\ ~disturbed'[r] =>
                    ~disturbed[q] /\ (secret[q] = o => customSecret[p] = customSecret[o])
  <2> DEFINE q == IF r = o THEN p ELSE r
  <2>1. acc'[r] = acc[q] /\ seed'[r] = seed[q] /\ secret'[r] = secret[q] /\ key'[r] = key[q]
    BY DEF Copied, KeyInv, TypeOK
  <2>2. disturbed'[r] = (disturbed[q] \/ (secret[q] = o /\ customSecret[p] # customSecret[o]))
    BY DEF Copied
  <2> QED
    BY <2>1, <2>2
<1>3. customSecret' = [customSecret EXCEPT ![o] = customSecret[p]]
  BY DEF Copied
<1>4. \A r \in Streams : Bound(r)'
  BY <1>2 DEF KeyInv, Bound
<1>5. ASSUME NEW r \in Streams, ~disturbed'[r] PROVE Faithful(r)'
  <2>1. PICK q \in Streams :
          /\ acc'[r] = acc[q] /\ secret'[r] = secret[q] /\ key'[r] = key[q]
          /\ ~disturbed[q] /\ (secret[q] = o => customSecret[p] = customSecret[o])
    BY <1>2, <1>5
  <2>2. Faithful(q)
    BY <2>1 DEF KeyInv
  <2>3. secret[q] \in Streams => customSecret'[secret[q]] = customSecret[secret[q]]
    BY <1>3, <2>1 DEF KeyInv, TypeOK
  <2>4. Secret(r)' = Secret(q)
    BY <2>1, <2>3 DEF Secret
  <2> QED
    BY <2>1, <2>2, <2>4 DEF Faithful
<1> QED
  BY <1>1, <1>4, <1>5 DEF KeyInv

LEMMA KeyStep == KeyInv /\ [Next]_vars => KeyInv'
<1> SUFFICES ASSUME KeyInv, [Next]_vars PROVE KeyInv'
  OBVIOUS
<1>1. CASE UNCHANGED vars
  BY <1>1 DEF vars, KeyInv, TypeOK, Bound, Faithful, Secret
<1>2. ASSUME NEW o \in Streams, NEW p \in Streams, copy_construct(o, p) \/ assign(o, p)
      PROVE  KeyInv'
  <2>1. Copied(o, p) /\ alive' \in SUBSET Streams /\ running' \in BOOLEAN
    BY <1>2 DEF copy_construct, assign, KeyInv, TypeOK
  <2> QED
    BY <2>1, KeyCopied
<1> QED
  BY <1>1, <1>2, KeyResetSeed, KeyResetSecret, KeyUpdate, KeyDestroy DEF Next

(* KeyInv is an invariant, for any number of streams, seeds and secrets. *)
THEOREM KeyInvInvariant == Spec => []KeyInv
  BY KeyInit, KeyStep, PTL DEF Spec

(* Only streams with a seed ever point into an object. *)
THEOREM TypeCorrect == Spec => []TypeOK
<1>1. KeyInv => TypeOK
  BY DEF KeyInv
<1> QED
  BY <1>1, KeyInvInvariant, PTL

-----------------------------------------------------------------------------
(* Digests. *)

(* Of a stream that is bound to its key a short hash needs the seed alone. *)
LEMMA ShortDigest ==
  ASSUME KeyInv, NEW o \in Streams, totalLen[o] <= MidsizeMax
  PROVE  digest(o) = OneShot(key[o], totalLen[o])
<1>1. Bound(o) /\ totalLen[o] \in Nat /\ MidsizeMax \in Nat /\ (secret[o] \in Streams <=> seed[o] # 0)
  BY CopiesAssumption DEF KeyInv, TypeOK
<1>2. digest(o) = xxhash3_impl(seed[o], Secret(o), totalLen[o])
  BY <1>1 DEF digest
<1>3. CASE seed[o] # 0
  <2>1. key[o] = seed[o] /\ key[o] \in Seeds
    BY <1>1, <1>3 DEF Bound, KeyInv, TypeOK
  <2> QED
    BY <1>2, <1>3, <2>1 DEF OneShot, xxhash3_impl, short_secret
<1>4. CASE seed[o] = 0
  <2>1. key[o] = Secret(o)
    BY <1>1, <1>4 DEF Bound, Secret
  <2>2. CASE secret[o] = default_secret
    <3>1. key[o] = 0 /\ 0 \in Seeds
      BY <1>1, <1>4, <2>2, CopiesAssumption DEF Bound
    <3> QED
      BY <1>2, <1>4, <2>1, <3>1 DEF OneShot
  <2>3. CASE secret[o] # default_secret
    <3>1. key[o] = secret[o] /\ secret[o] \in CallerSecrets
      BY <1>1, <1>4, <2>3 DEF Bound, KeyInv, TypeOK
    <3>2. key[o] \notin Seeds
      BY <3>1, CopiesAssumption
    <3> QED
      BY <1>2, <1>4, <2>1, <3>2 DEF OneShot
  <2> QED
    BY <2>2, <2>3
<1> QED
  BY <1>3, <1>4

(* A long hash needs the secret too. *)
LEMMA LongDigest ==
  ASSUME KeyInv, NEW o \in Streams, ~disturbed[o], ~(totalLen[o] <= MidsizeMax)
  PROVE  digest(o) = OneShot(key[o], totalLen[o])
<1>1. Faithful(o) /\ totalLen[o] \in Nat /\ MidsizeMax \in Nat
  BY CopiesAssumption DEF KeyInv, TypeOK
<1>2. digest(o) = [len |-> totalLen[o], secrets |-> acc[o] \cup {Secret(o)}]
  BY <1>1 DEF digest
<1>3. acc[o] \cup {Secret(o)} = {key[o]}
  BY <1>1 DEF Faithful
<1>4. OneShot(key[o], totalLen[o]) = [len |-> totalLen[o], secrets |-> {key[o]}]
  <2>1. CASE key[o] \in Seeds
    <3>1. (IF key[o] # 0 THEN key[o] ELSE 0) = key[o]
      OBVIOUS
    <3> QED
      BY <2>1, <3>1 DEF OneShot, xxhash3_impl
  <2>2. CASE key[o] \notin Seeds
    BY <2>2 DEF OneShot, xxhash3_impl
  <2> QED
    BY <2>1, <2>2
<1> QED
  BY <1>2, <1>3, <1>4

(* However streams are copied, fed, reset and destroyed, one whose secret was
   not changed in another object hashes under what it was reset with.        *)
THEOREM HashUnderKey == Spec => []UndisturbedHashUnderTheirKey
<1>1. KeyInv => UndisturbedHashUnderTheirKey
  BY ShortDigest, LongDigest DEF KeyInv, TypeOK, UndisturbedHashUnderTheirKey
<1> QED
  BY <1>1, KeyInvInvariant, PTL

(* Up to midsize_max bytes every stream does. *)
THEOREM ShortHashUnderKey == Spec => []ShortInputsNeedNoSecret
<1>1. KeyInv => ShortInputsNeedNoSecret
  BY ShortDigest DEF KeyInv, TypeOK, ShortInputsNeedNoSecret
<1> QED
  BY <1>1, KeyInvInvariant, PTL

=============================================================================
