------------------------------ MODULE Kernels ------------------------------
(***************************************************************************)
(* The hand-written variants of the hash of an 80-byte header with a nonce:*)
(* hash.rs's lanes and NEON code, and the OpenCL, Metal and CUDA kernels.  *)
(* A variant has its rows of message words, its way to rotate and to swap  *)
(* bytes, and its first working vector.                                    *)
(***************************************************************************)
EXTENDS Blake2b

Variant(rows, rotr, swap, start) ==
  [rows |-> rows, rotr |-> rotr, swap |-> swap, start |-> start]

Hash4 == Variant(SIGMA, "rotate", "reverse", "derived")
NeonHash4 == Variant(SIGMA, "neon", "reverse", "derived")
NeonMask == Variant(Scalar, "neon", "reverse", "derived")

OpenCl == [baseline |-> Variant(SIGMA, "split", "reverse", "literal"),
           scalar_split |-> Variant(Scalar, "split", "reverse", "literal"),
           scalar_native |-> Variant(Scalar, "rotate", "reverse", "literal")]

Metal == [baseline |-> Variant(SIGMA, "split", "masked", "literal"),
          scalar_split |-> Variant(Scalar, "split", "masked", "literal"),
          scalar_native |-> Variant(Scalar, "shift", "masked", "literal")]

Cuda == [reference |-> Variant(SIGMA, "shift", "masked", "derived"),
         scalar |-> Variant(Scalar, "shift", "masked", "literal"),
         scalar_permute |-> Variant(Scalar, "permute", "masked", "literal"),
         scalar_permute_precompute |->
           Variant(Scalar, "permute", "masked", "precomputed")]

Fields(f) == {f[x] : x \in DOMAIN f}
Cpu == {Hash4, NeonHash4, NeonMask}
Gpu == Fields(OpenCl) \cup Fields(Metal) \cup Fields(Cuda)
----------------------------------------------------------------------------
(* byte_swap, blake2b_bswap                                                *)
SwapMasked(w) ==
  LET by8 == W(\h00ff, \h00ff, \h00ff, \h00ff)
      by16 == W(0, \hffff, 0, \hffff)
      v == BitOr(ShiftLeft(BitAnd(w, by8), 8), BitAnd(ShiftRight(w, 8), by8))
      u == BitOr(ShiftLeft(BitAnd(v, by16), 16), BitAnd(ShiftRight(v, 16), by16))
  IN  BitOr(ShiftLeft(u, 32), ShiftRight(u, 32))

Swap(kernel, w) == IF kernel.swap = "masked" THEN SwapMasked(w) ELSE SwapBytes(w)
----------------------------------------------------------------------------
(* The message of a header, whose word 4 the nonce replaces                *)
NonceWord == 4
Message(words, nonce) ==
  [k \in 0 .. z |-> CASE k = NonceWord -> nonce
                      [] k = z -> Zero
                      [] OTHER -> words[k]]

Literals ==
  <<W(\h6a09, \he667, \hf2bd, \hc928), W(\hbb67, \hae85, \h84ca, \ha73b),
    W(\h3c6e, \hf372, \hfe94, \hf82b), W(\ha54f, \hf53a, \h5f1d, \h36f1),
    W(\h510e, \h527f, \hade6, \h82d1), W(\h9b05, \h688c, \h2b3e, \h6c1f),
    W(\h1f83, \hd9ab, \hfb41, \hbd6b), W(\h5be0, \hcd19, \h137e, \h2179),
    W(\h6a09, \he667, \hf3bc, \hc908), W(\hbb67, \hae85, \h84ca, \ha73b),
    W(\h3c6e, \hf372, \hfe94, \hf82b), W(\ha54f, \hf53a, \h5f1d, \h36f1),
    BitXor(W(\h510e, \h527f, \hade6, \h82d1), W(0, 0, 0, 80)),
    W(\h9b05, \h688c, \h2b3e, \h6c1f), W(\he07c, \h2654, \h04be, \h4294),
    W(\h5be0, \hcd19, \h137e, \h2179)>>
Literal == [k \in 0 .. 15 |-> Literals[k + 1]]

(* precompute_round_zero mixes the columns of the first round that hold    *)
(* neither the nonce nor a result of one that does; the kernel mixes the   *)
(* others.                                                                 *)
PrecomputeRoundZero(words) ==
  MixAll("rotate", Literal, words, Scalar[1], <<1, 2, 4>>)
FinishRoundZero(way, v, m, row) == MixAll(way, v, m, row, <<3, 5, 6, 7, 8>>)

KernelStart(kernel, words) ==
  CASE kernel.start = "derived" -> Start(Chain0, 80, TRUE)
    [] kernel.start = "literal" -> Literal
    [] kernel.start = "precomputed" -> PrecomputeRoundZero(words)

KernelRound(kernel, v, m, r) ==
  IF r = 1 /\ kernel.start = "precomputed"
  THEN FinishRoundZero(kernel.rotr, v, m, kernel.rows[1])
  ELSE Round(kernel.rotr, v, m, kernel.rows[r])
----------------------------------------------------------------------------
(* What is done with the last working vector: a GPU compares the digest's  *)
(* first word with the target's, NEON all four, each lane with its masks,  *)
(* and hash4_one_block all four as arrays.  Targets are sequences of four  *)
(* words, as words_be returns them.                                        *)
Prefix(kernel, v) == Swap(kernel, BitXor(BitXor(Literal[0], v[0]), v[8]))

WordsBE(kernel, v) ==
  [k \in 1 .. 4 |-> Swap(kernel, BitXor(BitXor(Chain0[k], v[k - 1]), v[k + 7]))]

(* less.or(equal): equal is the mask of the words before k, less of all.   *)
MaskedLeq(digest, target) ==
  LET equal(k) == \A j \in 1 .. k - 1 : digest[j] = target[j]
      less == \E k \in 1 .. 4 : equal(k) /\ Less(digest[k], target[k])
  IN  less \/ equal(5)

(* Mutant of Takes: a GPU asks for less than the target's first word.      *)
TakesLess(kernel, v, target) ==
  IF kernel \in Gpu THEN Less(Prefix(kernel, v), target[1])
                    ELSE MaskedLeq(WordsBE(kernel, v), target)

Takes(kernel, v, target) ==
  IF kernel \in Gpu THEN ~Less(target[1], Prefix(kernel, v))
                    ELSE MaskedLeq(WordsBE(kernel, v), target)

(* Target::accepts, on bytes                                               *)
TargetBytes(target) ==
  [i \in 1 .. 32 |-> Byte(target[(i - 1) \div 8 + 1], 7 - ((i - 1) % 8))]
Accepts(target, digest) == ~LexLess(TargetBytes(target), digest)
=============================================================================
