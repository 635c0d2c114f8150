------------------------------ MODULE MCBlake ------------------------------
(***************************************************************************)
(* Instances of BlakeHashers: hashes of libsodium's Blake2b have at most   *)
(* three bytes, keys two or three, and the lengths of Blake2Xb are below   *)
(* 16, so that the largest length, partial last blocks and all kinds of    *)
(* keys occur.                                                             *)
(***************************************************************************)
EXTENDS BlakeHashers

(* A key is its length and a name: none, too short, the extremes, too long. *)
MCKeys == {<<0, "none">>, <<1, "short">>, <<2, "k">>, <<3, "k">>, <<3, "l">>, <<4, "long">>}

MCKeyLen(k) == k[1]

(* Unknown, the extremes, and too large for the field. *)
MCOutputLens == {0, 1, 3, 7, max_output_extent, FieldSize}

(* All lengths, and buffers beyond the largest: up to the last block whose
   number fits its field, and one more.                                    *)
MCSizes == (0 .. FieldSize) \cup {2 * FieldSize, BYTES_MAX * FieldSize, BYTES_MAX * (FieldSize + 1)}

(* Dynamic, and a template argument with a partial last block. *)
MCOutputExtents == {0, 7}

(* Too short, all that libsodium takes, and too long. *)
MCLengths2 == 0 .. BYTES_MAX + 1

=============================================================================
