------------------------------ MODULE Blake2b ------------------------------
(***************************************************************************)
(* src/hash.rs: BLAKE2b-256 of any input, a block of 128 bytes at a time,  *)
(* and what every kernel of this program has in common with it: the        *)
(* mixing function g, the eight places a round mixes, and the rows of      *)
(* message words.  The rows SIGMA are the same table in hash.rs,           *)
(* blake2b_tuned.cl, blake2b.metal and cuda_runtime.cu; the rows Scalar of *)
(* the unrolled kernels, where a word an 80-byte block does not have is z, *)
(* are the same in the last three and in hash.rs's neon.                   *)
(***************************************************************************)
EXTENDS Rotations

IV == <<W(\h6a09, \he667, \hf3bc, \hc908), W(\hbb67, \hae85, \h84ca, \ha73b),
        W(\h3c6e, \hf372, \hfe94, \hf82b), W(\ha54f, \hf53a, \h5f1d, \h36f1),
        W(\h510e, \h527f, \hade6, \h82d1), W(\h9b05, \h688c, \h2b3e, \h6c1f),
        W(\h1f83, \hd9ab, \hfb41, \hbd6b), W(\h5be0, \hcd19, \h137e, \h2179)>>

SIGMA == <<
  <<0, 1, 2, 3, 4, 5, 6, 7, 8, 9, 10, 11, 12, 13, 14, 15>>,
  <<14, 10, 4, 8, 9, 15, 13, 6, 1, 12, 0, 2, 11, 7, 5, 3>>,
  <<11, 8, 12, 0, 5, 2, 15, 13, 10, 14, 3, 6, 7, 1, 9, 4>>,
  <<7, 9, 3, 1, 13, 12, 11, 14, 2, 6, 5, 10, 4, 0, 15, 8>>,
  <<9, 0, 5, 7, 2, 4, 10, 15, 14, 1, 11, 12, 6, 8, 3, 13>>,
  <<2, 12, 6, 10, 0, 11, 8, 3, 4, 13, 7, 5, 15, 14, 1, 9>>,
  <<12, 5, 1, 15, 14, 13, 4, 10, 0, 7, 6, 3, 9, 2, 8, 11>>,
  <<13, 11, 7, 14, 12, 1, 3, 9, 5, 0, 15, 4, 8, 6, 2, 10>>,
  <<6, 15, 14, 9, 11, 3, 0, 8, 12, 2, 13, 7, 1, 4, 10, 5>>,
  <<10, 2, 8, 4, 7, 6, 1, 5, 15, 11, 9, 14, 3, 12, 13, 0>>,
  <<0, 1, 2, 3, 4, 5, 6, 7, 8, 9, 10, 11, 12, 13, 14, 15>>,
  <<14, 10, 4, 8, 9, 15, 13, 6, 1, 12, 0, 2, 11, 7, 5, 3>> >>

z == 16  \* the place of a constant 0 behind the words 0 to 15
Scalar == <<
  <<0, 1, 2, 3, 4, 5, 6, 7, 8, 9, z, z, z, z, z, z>>,
  <<z, z, 4, 8, 9, z, z, 6, 1, z, 0, 2, z, 7, 5, 3>>,
  <<z, 8, z, 0, 5, 2, z, z, z, z, 3, 6, 7, 1, 9, 4>>,
  <<7, 9, 3, 1, z, z, z, z, 2, 6, 5, z, 4, 0, z, 8>>,
  <<9, 0, 5, 7, 2, 4, z, z, z, 1, z, z, 6, 8, 3, z>>,
  <<2, z, 6, z, 0, z, 8, 3, 4, z, 7, 5, z, z, 1, 9>>,
  <<z, 5, 1, z, z, z, 4, z, 0, 7, 6, 3, 9, 2, 8, z>>,
  <<z, z, 7, z, z, 1, 3, 9, 5, 0, z, 4, 8, 6, 2, z>>,
  <<6, z, z, 9, z, 3, 0, 8, z, 2, z, 7, 1, 4, z, 5>>,
  <<z, 2, 8, 4, 7, 6, 1, 5, z, z, 9, z, 3, z, z, 0>>,
  <<0, 1, 2, 3, 4, 5, 6, 7, 8, 9, z, z, z, z, z, z>>,
  <<z, z, 4, 8, 9, z, z, 6, 1, z, 0, 2, z, 7, 5, 3>> >>

Columns == <<<<0, 4, 8, 12>>, <<1, 5, 9, 13>>, <<2, 6, 10, 14>>,
             <<3, 7, 11, 15>>, <<0, 5, 10, 15>>, <<1, 6, 11, 12>>,
             <<2, 7, 8, 13>>, <<3, 4, 9, 14>>>>

(* Working vectors are functions on 0..15, message words on 0..15 or, with *)
(* the constant 0, on 0..z.  way is how a kernel rotates.                  *)
G(way, v, column, x, y) ==
  LET a == column[1]  b == column[2]  c == column[3]  d == column[4]
      a1 == Add(Add(v[a], v[b]), x)
      d1 == Rotr(way, BitXor(v[d], a1), 32)
      c1 == Add(v[c], d1)
      b1 == Rotr(way, BitXor(v[b], c1), 24)
      a2 == Add(Add(a1, b1), y)
      d2 == Rotr(way, BitXor(d1, a2), 16)
      c2 == Add(c1, d2)
      b2 == Rotr(way, BitXor(b1, c2), 63)
  IN  [v EXCEPT ![a] = a2, ![b] = b2, ![c] = c2, ![d] = d2]

(* A column mixed with the words of a row that are its own; several, one   *)
(* after the other; and all eight.                                         *)
Mix(way, v, m, row, i) ==
  G(way, v, Columns[i], m[row[2 * i - 1]], m[row[2 * i]])
MixAll(way, v, m, row, columns) ==
  LET u[i \in 0 .. Len(columns)] ==
        IF i = 0 THEN v ELSE Mix(way, u[i - 1], m, row, columns[i])
  IN  u[Len(columns)]
Round(way, v, m, row) == MixAll(way, v, m, row, <<1, 2, 3, 4, 5, 6, 7, 8>>)
----------------------------------------------------------------------------
(* blake2b256 and compress: chaining values and digests are sequences.     *)
BlockSize == 128

(* IV with h[0] ^= 0x0101_0020                                             *)
Chain0 == [IV EXCEPT ![1] = BitXor(IV[1], W(0, 0, \h0101, \h0020))]

Padded(input, offset) ==
  [i \in 1 .. BlockSize |->
     IF offset + i <= Len(input) THEN input[offset + i] ELSE 0]
MessageWords(block) ==
  [k \in 0 .. 15 |-> FromBytes([i \in 1 .. 8 |-> block[8 * k + i]])]

(* Counts stay below 2^16 here: the higher words of the count are 0.       *)
Start(h, count, last) ==
  LET v == [k \in 0 .. 15 |-> IF k < 8 THEN h[k + 1] ELSE IV[k - 7]]
  IN  [v EXCEPT ![12] = BitXor(@, W(0, 0, 0, count)),
                ![14] = IF last THEN BitXor(@, Ones) ELSE @]

Finish(h, v) == [k \in 1 .. 8 |-> BitXor(BitXor(h[k], v[k - 1]), v[k + 7])]
Digest(h) ==
  [i \in 1 .. 32 |-> Byte(h[(i - 1) \div 8 + 1], (i - 1) % 8)]
=============================================================================
