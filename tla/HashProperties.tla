--------------------------- MODULE HashProperties ---------------------------
(***************************************************************************)
(* What the hash, its kernels and the targets must get right.              *)
(***************************************************************************)
EXTENDS Hashing, Target, FiniteSets

CONSTANTS
  Known,        \* BLAKE2b-256 digests of inputs: a set of <<input, digest>>
  HexTexts,     \* sequences of hexadecimal digits
  MaxExponent,  \* bound: exponents of compact targets
  Difficulties  \* decimal difficulties

(* BLAKE2b as RFC 7693 has it, in one go: an input is cut into blocks, an  *)
(* empty one too; the last of them, and no other, is final, and the count  *)
(* of a block is where it ends.                                            *)
Blocks(in) == IF in = <<>> THEN 1 ELSE (Len(in) + BlockSize - 1) \div BlockSize

Compressed(chain, block, count, final) ==
  LET words == MessageWords(block)
      u[r \in 0 .. Rounds] ==
        IF r = 0 THEN Start(chain, count, final)
        ELSE Round("rotate", u[r - 1], words, SIGMA[r])
  IN  Finish(chain, u[Rounds])

Blake2b256(in) ==
  LET all == Blocks(in)
      chain[b \in 0 .. all] ==
        IF b = 0 THEN Chain0
        ELSE Compressed(chain[b - 1], Padded(in, BlockSize * (b - 1)),
                        IF b = all THEN Len(in) ELSE BlockSize * b, b = all)
  IN  Digest(chain[all])

(* The digests of others are those of this definition: its tables and      *)
(* constants are the standard's.                                           *)
ASSUME KnownAssumption ==
  \A known \in Known : known[2] = Blake2b256(known[1])

Text(base) == Seq((0 .. base - 1) \union {NoDigit})

DecimalText == Seq((0 .. 9) \union {NoDigit, PlusSign, Underscore})

ASSUME TextAssumption ==
  /\ HexTexts \subseteq Text(HexBase)
  /\ MaxExponent \in Nat
  /\ \A d \in Difficulties :
       /\ d.whole \in DecimalText /\ d.fraction \in DecimalText
       /\ d.exponent \in Int \union {NoDigit}

(* blake2b256 is BLAKE2b-256: empty inputs, inputs that fill their last    *)
(* block and inputs of several blocks have the digests of the standard.    *)
DigestsKnown ==
  Hashed => \A known \in Known : known[1] = input => known[2] = Digest(h)

(* Every variant of every kernel, with its own rotations, rows, nonce word *)
(* and precomputed round, works on the same vector as blake2b256 does for  *)
(* the header with the nonce in bytes 32 to 39.                            *)
RoundsAgree ==
  kernel # None /\ offset = BlockSize =>
    w = v \/ (kernel.start = "precomputed" /\ round = 0)

(* Targets at a digest: it itself, and those that differ from it first in  *)
(* one word, by one, with more or less behind.                             *)
Plus(word, d) ==
  IF word[1] + d \in 0 .. Base - 1 THEN {[word EXCEPT ![1] = @ + d]} ELSE {}
Targets(words) ==
  {words} \cup
  UNION {{[k \in 1 .. 4 |-> CASE k < i -> words[k] [] k = i -> word
                              [] k > i -> rest] :
            word \in Plus(words[i], -1) \cup Plus(words[i], 1)} :
           i \in 1 .. 4, rest \in {Zero, Ones}}

DigestWords == [k \in 1 .. 4 |-> SwapBytes(h[k])]
GpuTarget(target) == [target EXCEPT ![2] = Ones, ![3] = Ones, ![4] = Ones]

(* Whatever the target, a CPU kernel takes exactly the nonces Target::     *)
(* accepts takes, and a GPU those it takes for the target's first word:    *)
(* none it would accept is missed, and the CPU's second look at what a GPU *)
(* found decides only the rest of the digest.                              *)
TakesSolutions ==
  kernel # None /\ Hashed =>
    \A target \in Targets(DigestWords) :
      Takes(kernel, w, target)
        = Accepts(IF kernel \in Gpu THEN GpuTarget(target) ELSE target,
                  Digest(h))
----------------------------------------------------------------------------
(* Targets are exact.  A hexadecimal text that is not refused has digits   *)
(* only, at least one and no more than fit; they mean what their places    *)
(* say, and as_hex writes what from_hex reads.                             *)
HexExact ==
  \A digits \in HexTexts : FromHex(digits) # NoTarget =>
    LET written == AsHex(FromHex(digits))
        shift == 2 * Width - Len(digits)
    IN /\ shift \in 0 .. 2 * Width - 1
       /\ FromHex(written) = FromHex(digits)
       /\ \A i \in 1 .. 2 * Width :
            written[i] = IF i > shift THEN digits[i - shift] ELSE 0

(* A compact target is mantissa * 256^(exponent - 3), rounded down; it is  *)
(* refused only if that is 0, too large for 256 bits, or negative.         *)
CompactExact ==
  \A exponent \in 0 .. MaxExponent, low \in 0 .. Power(ByteBase, 3) - 1 :
    LET target == FromCompact(exponent, low)
        up == Power(ByteBase, exponent)  down == Power(ByteBase, 3)
    IN IF target = NoTarget
         THEN low >= SignBit \/ low * up < down
                \/ low * up >= down * (LargestTarget + 1)
         ELSE target * down <= low * up /\ low * up < (target + 1) * down

(* A difficulty d in plain digits gives the largest target t with t * d at *)
(* most that of difficulty 1, or the largest target there is; written with *)
(* a point or an exponent, in as many digits as one likes.  Left out are   *)
(* exponents whose scale wraps in 32 bits.                                 *)
Plain(d) ==
  /\ ~d.negative /\ d.exponent # NoDigit
  /\ IsNumber(d.whole \o d.fraction, 10)

PlainExact ==
  \A d \in Difficulties :
    Plain(d) /\ Scale(d) = Len(d.fraction) - d.exponent =>
      LET point == Power(10, Len(d.fraction))
          digits == ValueOf(d.whole, 10) * point + ValueOf(d.fraction, 10)
          p == IF d.exponent < 0 THEN digits ELSE digits * Power(10, d.exponent)
          q == IF d.exponent < 0 THEN point * Power(10, - d.exponent) ELSE point
          target == FromDifficulty(d)
      IN IF p = 0 THEN target = NoTarget
         ELSE IF target = LargestTarget THEN target * p <= DifficultyOne * q
         ELSE /\ target * p <= DifficultyOne * q
              /\ DifficultyOne * q < (target + 1) * p

(* A difficulty is refused unless it says something: it is not negative, a *)
(* number stands behind its e, it has a digit, and no character but those  *)
(* of numbers.                                                             *)
SaysSomething(d) ==
  LET characters == ToSet(d.whole \o d.fraction)
  IN /\ ~d.negative /\ d.exponent # NoDigit
     /\ NoDigit \notin characters /\ characters \cap 0 .. 9 # {}

JunkRefused ==
  \A d \in Difficulties : FromDifficulty(d) # NoTarget => SaysSomething(d)

DifficultyExact == PlainExact /\ JunkRefused

(* All three, at target.rs:12 to target.rs:142: a target that is off by    *)
(* one place mines shares the pool rejects or misses those it takes.  They *)
(* speak of no variable; one state of the run suffices.                    *)
TargetsExact ==
  input = <<>> /\ offset = 0 => HexExact /\ CompactExact /\ DifficultyExact
=============================================================================
