------------------------------- MODULE Words -------------------------------
(***************************************************************************)
(* The integers of hash.rs and the kernels, as sequences of limbs of 16    *)
(* bits, the least significant first: four make a word (u64, ulong), two   *)
(* the half of a word (uint).                                              *)
(***************************************************************************)
EXTENDS Integers, Sequences

Base == 65536
Word == [1 .. 4 -> 0 .. Base - 1]
Bytes == 0 .. 255

(* A word from its limbs, in the order of a hexadecimal constant.          *)
W(d, c, b, a) == <<a, b, c, d>>
Zero == W(0, 0, 0, 0)
Ones == W(Base - 1, Base - 1, Base - 1, Base - 1)

(* As many limbs as v has, limb k of them Limb(k).                         *)
Limbs(v, Limb(_)) == IF Len(v) = 2 THEN <<Limb(1), Limb(2)>>
                     ELSE <<Limb(1), Limb(2), Limb(3), Limb(4)>>

And(a, b) ==
  LET Both(p) == IF (a \div p) % 2 = 1 /\ (b \div p) % 2 = 1 THEN p ELSE 0
  IN  Both(1) + Both(2) + Both(4) + Both(8)
        + Both(16) + Both(32) + Both(64) + Both(128)
AndTable == [a \in Bytes |-> [b \in Bytes |-> And(a, b)]]
AndLimb(a, b) == 256 * AndTable[a \div 256][b \div 256]
                   + AndTable[a % 256][b % 256]
BitAnd(v, w) == Limbs(v, LAMBDA k : AndLimb(v[k], w[k]))
BitOr(v, w) == Limbs(v, LAMBDA k : v[k] + w[k] - AndLimb(v[k], w[k]))
BitXor(v, w) == Limbs(v, LAMBDA k : v[k] + w[k] - 2 * AndLimb(v[k], w[k]))

(* wrapping_add.  A limb overflows, and those between pass it on.          *)
Carry(v, w, k) ==
  IF \E j \in 1 .. k - 1 :
       /\ v[j] + w[j] >= Base
       /\ \A i \in j + 1 .. k - 1 : v[i] + w[i] >= Base - 1
  THEN 1 ELSE 0
Add(v, w) == Limbs(v, LAMBDA k : (v[k] + w[k] + Carry(v, w, k)) % Base)

LimbAt(v, k) == IF k \in DOMAIN v THEN v[k] ELSE 0
ShiftRight(v, n) ==
  LET q == n \div 16  r == n % 16
  IN  Limbs(v, LAMBDA k : LimbAt(v, k + q) \div 2 ^ r
                 + (LimbAt(v, k + q + 1) % 2 ^ r) * 2 ^ (16 - r))
ShiftLeft(v, n) ==
  LET q == n \div 16  r == n % 16
  IN  Limbs(v, LAMBDA k : (LimbAt(v, k - q) % 2 ^ (16 - r)) * 2 ^ r
                 + LimbAt(v, k - q - 1) \div 2 ^ (16 - r))

(* rotate_right, OpenCL's rotate                                           *)
RotateRight(w, n) ==
  LET q == n \div 16  r == n % 16
      At(k) == w[((k - 1) % 4) + 1]
  IN  Limbs(w, LAMBDA k : At(k + q) \div 2 ^ r
                 + (At(k + q + 1) % 2 ^ r) * 2 ^ (16 - r))

Low(w) == <<w[1], w[2]>>
High(w) == <<w[3], w[4]>>
Join(low, high) == <<low[1], low[2], high[1], high[2]>>

(* from_le_bytes, to_le_bytes, to_be_bytes and swap_bytes                  *)
Byte(w, i) == IF i % 2 = 0 THEN w[i \div 2 + 1] % 256
                           ELSE w[i \div 2 + 1] \div 256
FromBytes(b) ==
  Limbs(Zero, LAMBDA k : b[2 * k - 1] + 256 * b[2 * k])
ToBytes(w) == [i \in 1 .. 8 |-> Byte(w, i - 1)]
ToBytesBE(w) == [i \in 1 .. 8 |-> Byte(w, 8 - i)]
SwapBytes(w) == FromBytes(ToBytesBE(w))

(* The order of slices, and that of words                                  *)
LexLess(s, t) ==
  \E i \in DOMAIN s : s[i] < t[i] /\ \A j \in 1 .. i - 1 : s[j] = t[j]
Less(v, w) == LexLess(ToBytesBE(v), ToBytesBE(w))
=============================================================================
