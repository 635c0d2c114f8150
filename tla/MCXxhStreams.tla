---------------------------- MODULE MCXxhStreams ----------------------------
(***************************************************************************)
(* Instances of XxhStreams: pieces of input, and accumulators and lanes    *)
(* that are lists of what was mixed into them, so that two are equal only  *)
(* when they were reached by the same steps.                               *)
(***************************************************************************)
EXTENDS XxhStreams, Sequences

(* Shorter than the buffer, the empty piece included, as long as the buffer,
   and several times as long with and without a rest.                      *)
Pieces ==
  (0 .. internal_buffer_size)
    \cup {2 * internal_buffer_size + r : r \in {0, 1, StripeLen, StripeLen + 1}}

(* As long as the buffer, and several times as long. *)
Longer == {1, internal_buffer_size, 2 * internal_buffer_size + 1}

Entries ==
  {<<"scramble">>}
    \cup {"last"} \X [1 .. StripeLen -> 0 .. MaxInput]
    \cup {"stripe"} \X [1 .. StripeLen -> 0 .. MaxInput] \X UNION {0 .. s - 1 : s \in Secrets}

MCAccs == Seq(Entries)

NothingMixed == <<>>

MixStripe(a, bytes, secret) == Append(a, <<"stripe", bytes, secret>>)

MixLast(a, bytes) == Append(a, <<"last", bytes>>)

MixScramble(a) == Append(a, <<"scramble">>)

-----------------------------------------------------------------------------
(* Empty, shorter than mem, as long as mem, and several times as long. *)
ClassicPieces == {0, 1, 3, 4 * WordLen - 1, 4 * WordLen, 8 * WordLen + 1}

MCLaneValues == Seq(Seq(Nat))

(* Lane 3 starts from the seed, the others from seed and constants. *)
MCSeeds == {<< <<1>> >>, << <<2>> >>}

MCStart(s, l) == IF l = 3 THEN s ELSE Append(s, <<l>>)

MCRound(lane, word) == Append(lane, word)

=============================================================================
