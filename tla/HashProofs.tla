----------------------------- MODULE HashProofs -----------------------------
(***************************************************************************)
(* Proofs about the kernels, for every header and nonce.  Each of them     *)
(* works on the vector of blake2b256: their ways to rotate are rotations,  *)
(* so they mix alike; their rows name the same words, as the words 10 to   *)
(* 15 of a header are 0; and their first vectors are Start's.  And each    *)
(* takes what Target::accepts takes: swapping bytes is what it says, and   *)
(* words and bytes are ordered alike.  blake2b256 hashes any input as the  *)
(* standard has it, and a pool's target is the number it means.            *)
(***************************************************************************)
EXTENDS HashProperties, SequenceTheorems, WellFoundedInduction, TLAPS

Limb == 0 .. Base - 1

(* A byte is the sum of its bits.                                          *)
LEMMA BitsOfByte ==
  ASSUME NEW a \in Bytes
  PROVE  LET Bit(p) == (a \div p) % 2
         IN  /\ \A p \in {1, 2, 4, 8, 16, 32, 64, 128} : Bit(p) \in {0, 1}
             /\ a = Bit(1) + 2 * Bit(2) + 4 * Bit(4) + 8 * Bit(8)
                      + 16 * Bit(16) + 32 * Bit(32) + 64 * Bit(64)
                      + 128 * Bit(128)
BY DEF Bytes

(* AND keeps bits of both: none of what is not there, all of what is.      *)
LEMMA AndOfBytes ==
  ASSUME NEW a \in Bytes, NEW b \in Bytes
  PROVE  /\ AndTable[a][b] = And(a, b)
         /\ And(a, b) \in 0 .. a /\ And(a, b) \in 0 .. b
         /\ a + b - 2 * And(a, b) \in Bytes
<1> DEFINE x(p) == (a \div p) % 2
           y(p) == (b \div p) % 2
           both(p) == IF x(p) = 1 /\ y(p) = 1 THEN p ELSE 0
           one(p) == p * x(p) + p * y(p) - 2 * both(p)
<1>1. /\ a = x(1) + 2 * x(2) + 4 * x(4) + 8 * x(8)
               + 16 * x(16) + 32 * x(32) + 64 * x(64) + 128 * x(128)
      /\ b = y(1) + 2 * y(2) + 4 * y(4) + 8 * y(8)
               + 16 * y(16) + 32 * y(32) + 64 * y(64) + 128 * y(128)
  BY BitsOfByte
<1>2. And(a, b) = both(1) + both(2) + both(4) + both(8)
                    + both(16) + both(32) + both(64) + both(128)
  BY DEF And
<1>3. ASSUME NEW p \in {1, 2, 4, 8, 16, 32, 64, 128}
      PROVE  /\ both(p) \in Nat /\ x(p) \in Nat /\ y(p) \in Nat
             /\ both(p) <= p * x(p) /\ both(p) <= p * y(p)
             /\ one(p) \in 0 .. p
  <2>1. x(p) \in {0, 1} /\ y(p) \in {0, 1}
    BY BitsOfByte
  <2> HIDE DEF x, y
  <2> QED BY <2>1
<1> HIDE DEF x, y, both
<1>4. And(a, b) \in 0 .. a /\ And(a, b) \in 0 .. b
  BY <1>1, <1>2, <1>3
<1>5. a + b - 2 * And(a, b) \in Bytes
  <2>1. /\ x(1) \in Nat /\ y(1) \in Nat /\ both(1) \in Nat
        /\ x(2) \in Nat /\ y(2) \in Nat /\ both(2) \in Nat
        /\ x(4) \in Nat /\ y(4) \in Nat /\ both(4) \in Nat
        /\ x(8) \in Nat /\ y(8) \in Nat /\ both(8) \in Nat
        /\ x(16) \in Nat /\ y(16) \in Nat /\ both(16) \in Nat
        /\ x(32) \in Nat /\ y(32) \in Nat /\ both(32) \in Nat
        /\ x(64) \in Nat /\ y(64) \in Nat /\ both(64) \in Nat
        /\ x(128) \in Nat /\ y(128) \in Nat /\ both(128) \in Nat
    BY <1>3
  <2> DEFINE o1 == one(1)  o2 == one(2)  o4 == one(4)  o8 == one(8)
             p1 == one(16)  p2 == one(32)  p4 == one(64)  p8 == one(128)
  <2>2. a + b - 2 * And(a, b) = o1 + o2 + o4 + o8 + p1 + p2 + p4 + p8
    BY ONLY <1>1, <1>2, <2>1
  <2>3. /\ o1 \in 0 .. 1 /\ o2 \in 0 .. 2 /\ o4 \in 0 .. 4 /\ o8 \in 0 .. 8
        /\ p1 \in 0 .. 16 /\ p2 \in 0 .. 32 /\ p4 \in 0 .. 64
        /\ p8 \in 0 .. 128
    BY <1>3
  <2> HIDE DEF o1, o2, o4, o8, p1, p2, p4, p8
  <2> QED BY ONLY <2>2, <2>3 DEF Bytes
<1>6. AndTable[a][b] = And(a, b)
  BY DEF AndTable
<1> QED BY <1>4, <1>5, <1>6

LEMMA AndOfSome ==
  /\ 0 \in Bytes /\ 255 \in Bytes
  /\ \A a \in Bytes : And(a, 0) = 0 /\ And(0, a) = 0 /\ And(a, 255) = a
  /\ \A a \in {0, 1}, b \in Bytes : b % 2 = 0 => And(a, b) = 0
<1>1. 0 \in Bytes /\ 255 \in Bytes
  BY DEF Bytes
<1>2. ASSUME NEW a \in Bytes
      PROVE  And(a, 0) = 0 /\ And(0, a) = 0 
  BY DEF And, Bytes
<1>3. ASSUME NEW a \in Bytes
      PROVE  And(a, 255) = a
  BY BitsOfByte DEF And, Bytes
<1>4. ASSUME NEW a \in {0, 1}, NEW b \in Bytes, b % 2 = 0
      PROVE  And(a, b) = 0
  BY <1>4 DEF And, Bytes
<1> QED BY <1>1, <1>2, <1>3, <1>4

(* The same of limbs.                                                      *)
LEMMA RangeOfLimb ==
  /\ \A a \in Limb : a \in Int /\ 0 <= a /\ a < 65536
  /\ \A a \in Int : 0 <= a /\ a < 65536 => a \in Limb
<1>1. ASSUME NEW a \in Limb PROVE a \in Int /\ 0 <= a /\ a < 65536
  <2>1. Base = 65536
    BY DEF Base
  <2>2. a \in 0 .. Base - 1
    BY DEF Limb
  <2>3. ASSUME NEW n \in Int, NEW i \in 0 .. n - 1
        PROVE  i \in Int /\ 0 <= i /\ i <= n - 1
    OBVIOUS
  <2>4. a \in Int /\ 0 <= a /\ a <= Base - 1
    <3>1. Base \in Int
      BY ONLY <2>1, SMT
    <3> QED BY ONLY <2>2, <2>3, <3>1, Zenon
  <2> QED BY ONLY <2>1, <2>4, SMT
<1>2. ASSUME NEW a \in Int, 0 <= a, a < 65536 PROVE a \in Limb
  <2>1. Base - 1 = 65535
    BY DEF Base
  <2>2. a <= 65535
    BY <1>2, SMT
  <2> QED BY <1>2, <2>1, <2>2, SMT DEF Limb
<1> QED BY <1>1, <1>2

LEMMA HalvesOfLimb ==
  ASSUME NEW a \in Limb
  PROVE  /\ a \div 256 \in Bytes /\ a % 256 \in Bytes
         /\ a = 256 * (a \div 256) + (a % 256)
<1>1. a \in Int /\ 0 <= a /\ a < 65536
  BY RangeOfLimb
<1>2. a \div 256 \in 0 .. 255
  BY ONLY <1>1, SMT
<1>3. a % 256 \in 0 .. 255
  BY ONLY <1>1, SMT
<1>4. a = 256 * (a \div 256) + (a % 256)
  BY ONLY <1>1, SMT
<1> QED BY <1>2, <1>3, <1>4 DEF Bytes

LEMMA AndByHalves ==
  ASSUME NEW a \in Limb, NEW b \in Limb
  PROVE  AndLimb(a, b) = 256 * And(a \div 256, b \div 256)
                           + And(a % 256, b % 256)
BY HalvesOfLimb, AndOfBytes DEF AndLimb

LEMMA AndOfLimbs ==
  ASSUME NEW a \in Limb, NEW b \in Limb
  PROVE  /\ AndLimb(a, b) \in 0 .. a /\ AndLimb(a, b) \in 0 .. b
         /\ a + b - 2 * AndLimb(a, b) \in Limb
<1> DEFINE c == a \div 256  d == a % 256  e == b \div 256  f == b % 256
           high == And(c, e)  low == And(d, f)
           x == c + e - 2 * high  y == d + f - 2 * low
<1>1. /\ c \in Bytes /\ d \in Bytes /\ a = 256 * c + d
      /\ e \in Bytes /\ f \in Bytes /\ b = 256 * e + f
  BY HalvesOfLimb
<1>2. AndLimb(a, b) = 256 * high + low
  BY AndByHalves
<1> HIDE DEF c, d, e, f
<1>3. /\ high \in 0 .. c /\ high \in 0 .. e /\ x \in Bytes
      /\ low \in 0 .. d /\ low \in 0 .. f /\ y \in Bytes
  BY <1>1, AndOfBytes
<1> HIDE DEF high, low
<1>4. AndLimb(a, b) \in 0 .. a /\ AndLimb(a, b) \in 0 .. b
  BY ONLY <1>1, <1>2, <1>3, SMT DEF Bytes
<1>5. a + b - 2 * AndLimb(a, b) = 256 * x + y
  BY ONLY <1>1, <1>2, <1>3, SMT DEF Bytes
<1> HIDE DEF x, y
<1>6. 256 * x + y \in Int /\ 0 <= 256 * x + y /\ 256 * x + y < 65536
  BY ONLY <1>3, SMT DEF Bytes
<1> QED BY <1>4, <1>5, <1>6, RangeOfLimb

LEMMA AndOfSomeLimbs ==
  /\ 0 \in Limb /\ 65535 \in Limb /\ 255 \in Limb
  /\ \A a \in Limb : /\ AndLimb(a, 0) = 0 /\ AndLimb(0, a) = 0
                     /\ AndLimb(a, 65535) = a /\ AndLimb(a, 255) = a % 256
  /\ \A a \in Bytes, c \in Bytes :
       AndLimb(a, c * 256) = 0 /\ AndLimb(c * 256, a) = 0
  /\ \A a \in {0, 1}, b \in Limb : b % 2 = 0 => AndLimb(a, b) = 0
<1>1. 0 \in Limb /\ 65535 \in Limb /\ 255 \in Limb
  BY SMT DEF Limb, Base
<1>2. ASSUME NEW a \in Limb
      PROVE  /\ AndLimb(a, 0) = 0 /\ AndLimb(0, a) = 0
             /\ AndLimb(a, 65535) = a /\ AndLimb(a, 255) = a % 256
  <2> DEFINE c == a \div 256  d == a % 256
  <2>1. c \in Bytes /\ d \in Bytes /\ a = 256 * c + d
    BY HalvesOfLimb
  <2>2. /\ 0 \div 256 = 0 /\ 0 % 256 = 0 /\ 65535 \div 256 = 255
        /\ 65535 % 256 = 255 /\ 255 \div 256 = 0 /\ 255 % 256 = 255
    BY SMT
  <2>3. /\ AndLimb(a, 0) = 256 * And(c, 0) + And(d, 0)
        /\ AndLimb(0, a) = 256 * And(0, c) + And(0, d)
        /\ AndLimb(a, 65535) = 256 * And(c, 255) + And(d, 255)
        /\ AndLimb(a, 255) = 256 * And(c, 0) + And(d, 255)
    BY <1>1, <2>2, AndByHalves
  <2>4. /\ And(c, 0) = 0 /\ And(d, 0) = 0 /\ And(0, c) = 0 /\ And(0, d) = 0
        /\ And(c, 255) = c /\ And(d, 255) = d
    BY <2>1, AndOfSome
  <2>5. AndLimb(a, 255) = d
    BY ONLY <2>1, <2>3, <2>4, SMT DEF Bytes
  <2> HIDE DEF c, d
  <2>6. AndLimb(a, 0) = 0 /\ AndLimb(0, a) = 0 /\ AndLimb(a, 65535) = a
    BY ONLY <2>1, <2>3, <2>4, SMT DEF Bytes
  <2> QED BY <2>5, <2>6 DEF d
<1>3. ASSUME NEW a \in Bytes, NEW c \in Bytes
      PROVE  AndLimb(a, c * 256) = 0 /\ AndLimb(c * 256, a) = 0
  <2>1. /\ a \div 256 = 0 /\ a % 256 = a
        /\ (c * 256) \div 256 = c /\ (c * 256) % 256 = 0
    BY SMT DEF Bytes
  <2>2. a \in Limb /\ c * 256 \in Limb
    BY RangeOfLimb, SMT DEF Bytes
  <2>3. /\ AndLimb(a, c * 256) = 256 * And(0, c) + And(a, 0)
        /\ AndLimb(c * 256, a) = 256 * And(c, 0) + And(0, a)
    BY <2>1, <2>2, AndByHalves
  <2> QED BY <2>3, AndOfSome
<1>4. ASSUME NEW a \in {0, 1}, NEW b \in Limb, b % 2 = 0
      PROVE  AndLimb(a, b) = 0
  <2> DEFINE c == b \div 256  d == b % 256
  <2>1. a \in Bytes /\ a \in Limb /\ a \div 256 = 0 /\ a % 256 = a
    BY <1>1, RangeOfLimb, SMT DEF Bytes
  <2>2. c \in Bytes /\ d \in Bytes /\ b = 256 * c + d
    BY HalvesOfLimb
  <2>3. AndLimb(a, b) = 256 * And(0, c) + And(a, d)
    BY <2>1, AndByHalves
  <2> HIDE DEF c, d
  <2>4. d % 2 = 0
    BY ONLY <1>4, <2>2, SMT DEF Bytes
  <2> QED BY <2>2, <2>3, <2>4, AndOfSome
<1> QED BY <1>1, <1>2, <1>3, <1>4

(* A word is its four limbs.                                               *)
LEMMA FourLimbs ==
  ASSUME NEW S, NEW x \in [1 .. 4 -> S]
  PROVE  /\ x = <<x[1], x[2], x[3], x[4]>> /\ Len(x) = 4
         /\ x[1] \in S /\ x[2] \in S /\ x[3] \in S /\ x[4] \in S
<1> DEFINE t == <<x[1], x[2], x[3], x[4]>>
<1>1. x \in Seq(S)
  BY SeqDef
<1>2. Len(x) \in Nat /\ x \in [1 .. Len(x) -> S]
  BY <1>1, LenProperties
<1>3. 1 .. Len(x) = 1 .. 4
  BY <1>2, Zenon
<1>4. Len(x) = 4
  BY <1>2, <1>3
<1>5. t \in Seq(S) /\ Len(t) = 4 /\ \A i \in 1 .. 4 : x[i] = t[i]
  OBVIOUS
<1> HIDE DEF t
<1>6. x = t
  BY <1>1, <1>4, <1>5, SeqEqual
<1> QED BY <1>4, <1>6 DEF t

LEMMA LimbsOfWord ==
  ASSUME NEW x \in Word
  PROVE  /\ x = <<x[1], x[2], x[3], x[4]>> /\ Len(x) = 4
         /\ x[1] \in Limb /\ x[2] \in Limb /\ x[3] \in Limb /\ x[4] \in Limb
BY FourLimbs DEF Word, Limb

LEMMA WordOfLimbs ==
  ASSUME NEW a \in Limb, NEW b \in Limb, NEW c \in Limb, NEW d \in Limb
  PROVE  <<a, b, c, d>> \in Word
BY DEF Word, Limb

(* What the operations on words return.                                    *)
LEMMA XorOfWords ==
  ASSUME NEW x \in Word, NEW y \in Word
  PROVE  /\ BitXor(x, y) \in Word
         /\ BitXor(x, y) = <<x[1] + y[1] - 2 * AndLimb(x[1], y[1]),
                             x[2] + y[2] - 2 * AndLimb(x[2], y[2]),
                             x[3] + y[3] - 2 * AndLimb(x[3], y[3]),
                             x[4] + y[4] - 2 * AndLimb(x[4], y[4])>>
<1>1. BitXor(x, y) =
        Limbs(x, LAMBDA k : x[k] + y[k] - 2 * AndLimb(x[k], y[k]))
  BY DEF BitXor
<1>2. @ = <<x[1] + y[1] - 2 * AndLimb(x[1], y[1]),
            x[2] + y[2] - 2 * AndLimb(x[2], y[2]),
            x[3] + y[3] - 2 * AndLimb(x[3], y[3]),
            x[4] + y[4] - 2 * AndLimb(x[4], y[4])>>
  BY LimbsOfWord DEF Limbs
<1>3. @ \in Word
  BY LimbsOfWord, WordOfLimbs, AndOfLimbs
<1> QED BY <1>1, <1>2, <1>3

LEMMA SumOfWords ==
  ASSUME NEW x \in Word, NEW y \in Word
  PROVE  Add(x, y) \in Word
<1>1. ASSUME NEW a \in Int PROVE a % Base \in Limb
  <2>1. Base = 65536
    BY DEF Base
  <2>2. a % 65536 \in Int /\ 0 <= a % 65536 /\ a % 65536 < 65536
    BY ONLY SMT
  <2> QED BY <2>1, <2>2, RangeOfLimb
<1>2. \A k \in 1 .. 4 : Carry(x, y, k) \in Int
  BY DEF Carry
<1>3. ASSUME NEW k \in 1 .. 4
      PROVE  (x[k] + y[k] + Carry(x, y, k)) % Base \in Limb
  BY <1>1, <1>2, RangeOfLimb DEF Word, Limb
<1>4. Add(x, y) = Limbs(x, LAMBDA k : (x[k] + y[k] + Carry(x, y, k)) % Base)
  BY DEF Add
<1>5. @ = <<(x[1] + y[1] + Carry(x, y, 1)) % Base,
            (x[2] + y[2] + Carry(x, y, 2)) % Base,
            (x[3] + y[3] + Carry(x, y, 3)) % Base,
            (x[4] + y[4] + Carry(x, y, 4)) % Base>>
  BY LimbsOfWord DEF Limbs
<1>6. @ \in Word
  BY <1>3, WordOfLimbs
<1> QED BY <1>4, <1>5, <1>6

(* The rotations, for the distances of g: every limb is made of two.       *)
Joined(a, b, p) == a \div p + (b % p) * (65536 \div p)

LEMMA Powers ==
  /\ 2 ^ 0 = 1 /\ 2 ^ 1 = 2 /\ 2 ^ 8 = 256 /\ 2 ^ 15 = 32768 /\ 2 ^ 16 = 65536
  /\ 24 \div 16 = 1 /\ 24 % 16 = 8 /\ 63 \div 16 = 3 /\ 63 % 16 = 15
  /\ 32 \div 16 = 2 /\ 32 % 16 = 0 /\ 16 \div 16 = 1 /\ 16 % 16 = 0
BY SMT

LEMMA RotateIs ==
  ASSUME NEW x \in Word
  PROVE  /\ RotateRight(x, 32) = <<x[3], x[4], x[1], x[2]>>
         /\ RotateRight(x, 16) = <<x[2], x[3], x[4], x[1]>>
         /\ RotateRight(x, 24) =
              <<Joined(x[2], x[3], 256), Joined(x[3], x[4], 256),
                Joined(x[4], x[1], 256), Joined(x[1], x[2], 256)>>
         /\ RotateRight(x, 63) =
              <<Joined(x[4], x[1], 32768), Joined(x[1], x[2], 32768),
                Joined(x[2], x[3], 32768), Joined(x[3], x[4], 32768)>>
<1>0. \A k \in 1 .. 4 : x[k] \in Int
  BY RangeOfLimb DEF Word, Limb
<1>1. RotateRight(x, 32) = <<x[3], x[4], x[1], x[2]>>
  BY LimbsOfWord, Powers, <1>0, SMT DEF RotateRight, Limbs
<1>2. RotateRight(x, 16) = <<x[2], x[3], x[4], x[1]>>
  BY LimbsOfWord, Powers, <1>0, SMT DEF RotateRight, Limbs
<1>3. RotateRight(x, 24) =
              <<Joined(x[2], x[3], 256), Joined(x[3], x[4], 256),
                Joined(x[4], x[1], 256), Joined(x[1], x[2], 256)>>
  BY LimbsOfWord, Powers, <1>0, SMT DEF RotateRight, Limbs, Joined
<1>4. RotateRight(x, 63) =
              <<Joined(x[4], x[1], 32768), Joined(x[1], x[2], 32768),
                Joined(x[2], x[3], 32768), Joined(x[3], x[4], 32768)>>
  BY LimbsOfWord, Powers, <1>0, SMT DEF RotateRight, Limbs, Joined
<1> QED BY <1>1, <1>2, <1>3, <1>4

LEMMA JoinedIsLimb ==
  ASSUME NEW a \in Limb, NEW b \in Limb
  PROVE  Joined(a, b, 256) \in Limb /\ Joined(a, b, 32768) \in Limb
<1>1. /\ a \in Int /\ 0 <= a /\ a < 65536
      /\ b \in Int /\ 0 <= b /\ b < 65536
  BY RangeOfLimb
<1>2. 65536 \div 256 = 256 /\ 65536 \div 32768 = 2
  BY SMT
<1>3. /\ Joined(a, b, 256) \in Int /\ 0 <= Joined(a, b, 256)
      /\ Joined(a, b, 256) < 65536
  BY ONLY <1>1, <1>2, SMT DEF Joined
<1>4. /\ Joined(a, b, 32768) \in Int /\ 0 <= Joined(a, b, 32768)
      /\ Joined(a, b, 32768) < 65536
  BY ONLY <1>1, <1>2, SMT DEF Joined
<1> QED BY <1>3, <1>4, RangeOfLimb

Distances == {32, 24, 16, 63}

LEMMA RotateIsWord ==
  ASSUME NEW x \in Word, NEW n \in Distances
  PROVE  RotateRight(x, n) \in Word
<1>1. /\ x[1] \in Limb /\ x[2] \in Limb /\ x[3] \in Limb /\ x[4] \in Limb
  BY LimbsOfWord
<1>2. /\ <<x[3], x[4], x[1], x[2]>> \in Word
      /\ <<x[2], x[3], x[4], x[1]>> \in Word
  BY <1>1, WordOfLimbs
<1>3. /\ <<Joined(x[2], x[3], 256), Joined(x[3], x[4], 256),
           Joined(x[4], x[1], 256), Joined(x[1], x[2], 256)>> \in Word
      /\ <<Joined(x[4], x[1], 32768), Joined(x[1], x[2], 32768),
           Joined(x[2], x[3], 32768), Joined(x[3], x[4], 32768)>> \in Word
  <2>1. /\ Joined(x[2], x[3], 256) \in Limb /\ Joined(x[3], x[4], 256) \in Limb
        /\ Joined(x[4], x[1], 256) \in Limb /\ Joined(x[1], x[2], 256) \in Limb
        /\ Joined(x[4], x[1], 32768) \in Limb
        /\ Joined(x[1], x[2], 32768) \in Limb
        /\ Joined(x[2], x[3], 32768) \in Limb
        /\ Joined(x[3], x[4], 32768) \in Limb
    BY <1>1, JoinedIsLimb
  <2> QED BY ONLY <2>1, WordOfLimbs
<1>4. /\ RotateRight(x, 32) \in Word /\ RotateRight(x, 24) \in Word
      /\ RotateRight(x, 16) \in Word /\ RotateRight(x, 63) \in Word
  BY <1>2, <1>3, RotateIs
<1> QED BY <1>4 DEF Distances

(* a | b on limbs: what is 0 in one of them is as it is in the other.      *)
LEMMA OrOfLimbs ==
  ASSUME NEW a \in Limb, NEW b \in Limb
  PROVE  /\ a + 0 - AndLimb(a, 0) = a
         /\ 0 + a - AndLimb(0, a) = a
         /\ a \div 256 + (b % 256) * 256 
              - AndLimb(a \div 256, (b % 256) * 256) = Joined(a, b, 256)
         /\ a \div 32768 + (b % 32768) * 2
              - AndLimb(a \div 32768, (b % 32768) * 2) = Joined(a, b, 32768)
<1>1. a \in Int /\ AndLimb(a, 0) = 0 /\ AndLimb(0, a) = 0
  BY RangeOfLimb, AndOfSomeLimbs
<1>2. AndLimb(a \div 256, (b % 256) * 256) = 0
  BY HalvesOfLimb, AndOfSomeLimbs
<1>3. AndLimb(a \div 32768, (b % 32768) * 2) = 0
  <2>1. /\ a \in Int /\ 0 <= a /\ a < 65536
        /\ b \in Int /\ 0 <= b /\ b < 65536
    BY RangeOfLimb
  <2>2. a \div 32768 \in {0, 1}
    BY ONLY <2>1, SMT
  <2> DEFINE c == (b % 32768) * 2
  <2>3. c \in Int /\ 0 <= c /\ c < 65536 /\ c % 2 = 0
    BY ONLY <2>1, SMT
  <2> HIDE DEF c
  <2>4. c \in Limb
    BY <2>3, RangeOfLimb
  <2>5. AndLimb(a \div 32768, c) = 0
    BY <2>2, <2>3, <2>4, AndOfSomeLimbs
  <2> QED BY <2>5 DEF c
<1>4. 65536 \div 256 = 256 /\ 65536 \div 32768 = 2
  BY SMT
<1>5. b \in Int
  BY RangeOfLimb
<1> QED BY ONLY <1>1, <1>2, <1>3, <1>4, <1>5, SMT DEF Joined

(* Shifts of a word, and of a half.                                        *)
LEMMA MorePowers ==
  /\ 40 \div 16 = 2 /\ 40 % 16 = 8 /\ 48 \div 16 = 3 /\ 48 % 16 = 0
  /\ 1 \div 16 = 0 /\ 1 % 16 = 1 /\ 8 \div 16 = 0 /\ 8 % 16 = 8
  /\ 31 \div 16 = 1 /\ 31 % 16 = 15
BY SMT

LEMMA LimbAsIs ==
  ASSUME NEW a \in Limb
  PROVE  /\ a \in Int /\ a % 65536 = a /\ a \div 65536 = 0
         /\ a \div 1 = a /\ a % 1 = 0
<1>1. a \in Int /\ 0 <= a /\ a < 65536
  BY RangeOfLimb
<1> QED BY ONLY <1>1, SMT

LEMMA ShiftsOfWord ==
  ASSUME NEW x \in Word
  PROVE  /\ ShiftRight(x, 32) = <<x[3], x[4], 0, 0>>
         /\ ShiftLeft(x, 32) = <<0, 0, x[1], x[2]>>
         /\ ShiftRight(x, 16) = <<x[2], x[3], x[4], 0>>
         /\ ShiftLeft(x, 48) = <<0, 0, 0, x[1]>>
         /\ ShiftRight(x, 24) = <<Joined(x[2], x[3], 256),
              Joined(x[3], x[4], 256), x[4] \div 256, 0>>
         /\ ShiftLeft(x, 40) = <<0, 0, (x[1] % 256) * 256,
              Joined(x[1], x[2], 256)>>
         /\ ShiftRight(x, 63) = <<x[4] \div 32768, 0, 0, 0>>
         /\ ShiftLeft(x, 1) = <<(x[1] % 32768) * 2,
              Joined(x[1], x[2], 32768), Joined(x[2], x[3], 32768),
              Joined(x[3], x[4], 32768)>>
<1>1. DOMAIN x = 1 .. 4 /\ Len(x) = 4
  BY LimbsOfWord DEF Word
<1>2. /\ x[1] \in Int /\ x[2] \in Int /\ x[3] \in Int /\ x[4] \in Int
      /\ x[1] \div 1 = x[1] /\ x[2] \div 1 = x[2]
      /\ x[3] \div 1 = x[3] /\ x[4] \div 1 = x[4]
      /\ x[2] % 1 = 0 /\ x[3] % 1 = 0 /\ x[4] % 1 = 0
  BY LimbsOfWord, LimbAsIs
<1>3. /\ x[1] % 65536 = x[1] /\ x[2] % 65536 = x[2]
      /\ x[3] % 65536 = x[3] /\ x[4] % 65536 = x[4]
      /\ x[1] \div 65536 = 0 /\ x[2] \div 65536 = 0
      /\ x[3] \div 65536 = 0 /\ x[4] \div 65536 = 0
  BY LimbsOfWord, LimbAsIs
<1>4. ShiftRight(x, 32) = <<x[3], x[4], 0, 0>>
  BY <1>1, <1>2, <1>3, Powers, SMT DEF ShiftRight, Limbs, LimbAt
<1>5. ShiftLeft(x, 32) = <<0, 0, x[1], x[2]>>
  BY <1>1, <1>2, <1>3, Powers, SMT
     DEF ShiftLeft, Limbs, LimbAt
<1>6. ShiftRight(x, 16) = <<x[2], x[3], x[4], 0>>
  <2>1. /\ LimbAt(x, 2) = x[2] /\ LimbAt(x, 3) = x[3]
        /\ LimbAt(x, 4) = x[4] /\ LimbAt(x, 5) = 0 /\ LimbAt(x, 6) = 0
    BY <1>1 DEF LimbAt
  <2>2. ShiftRight(x, 16) =
          <<LimbAt(x, 2) \div 1 + (LimbAt(x, 3) % 1) * 65536,
            LimbAt(x, 3) \div 1 + (LimbAt(x, 4) % 1) * 65536,
            LimbAt(x, 4) \div 1 + (LimbAt(x, 5) % 1) * 65536,
            LimbAt(x, 5) \div 1 + (LimbAt(x, 6) % 1) * 65536>>
    BY <1>1, Powers, SMT DEF ShiftRight, Limbs
  <2>3. 0 \div 1 = 0 /\ 0 % 1 = 0
    BY SMT
  <2> QED BY <1>2, <2>1, <2>2, <2>3
<1>7. ShiftLeft(x, 48) = <<0, 0, 0, x[1]>>
  <2>1. /\ LimbAt(x, 1) = x[1] /\ LimbAt(x, 0) = 0 /\ LimbAt(x, -1) = 0
        /\ LimbAt(x, -2) = 0 /\ LimbAt(x, -3) = 0
    BY <1>1 DEF LimbAt
  <2>2. ShiftLeft(x, 48) =
          <<(LimbAt(x, -2) % 65536) * 1 + LimbAt(x, -3) \div 65536,
            (LimbAt(x, -1) % 65536) * 1 + LimbAt(x, -2) \div 65536,
            (LimbAt(x, 0) % 65536) * 1 + LimbAt(x, -1) \div 65536,
            (LimbAt(x, 1) % 65536) * 1 + LimbAt(x, 0) \div 65536>>
    BY <1>1, Powers, MorePowers, SMT DEF ShiftLeft, Limbs
  <2>3. (0 % 65536) * 1 + 0 \div 65536 = 0 /\ 0 \div 65536 = 0
    BY SMT
  <2>4. (x[1] % 65536) * 1 + 0 = x[1]
    BY ONLY <1>2, <1>3
  <2> QED BY ONLY <2>1, <2>2, <2>3, <2>4
<1>8. ShiftRight(x, 24) = <<Joined(x[2], x[3], 256),
        Joined(x[3], x[4], 256), x[4] \div 256, 0>>
  BY <1>1, <1>2, <1>3, Powers, SMT DEF ShiftRight, Limbs, LimbAt, Joined
<1>9. ShiftLeft(x, 40) = <<0, 0, (x[1] % 256) * 256, Joined(x[1], x[2], 256)>>
  BY <1>1, <1>2, <1>3, Powers, MorePowers, SMT
     DEF ShiftLeft, Limbs, LimbAt, Joined
<1>10. ShiftRight(x, 63) = <<x[4] \div 32768, 0, 0, 0>>
  BY <1>1, <1>2, <1>3, Powers, SMT DEF ShiftRight, Limbs, LimbAt
<1>11. ShiftLeft(x, 1) = <<(x[1] % 32768) * 2,
         Joined(x[1], x[2], 32768), Joined(x[2], x[3], 32768),
         Joined(x[3], x[4], 32768)>>
  <2>1. /\ LimbAt(x, 1) = x[1] /\ LimbAt(x, 2) = x[2] /\ LimbAt(x, 3) = x[3]
        /\ LimbAt(x, 4) = x[4] /\ LimbAt(x, 0) = 0
    BY <1>1 DEF LimbAt
  <2>2. ShiftLeft(x, 1) =
          <<(LimbAt(x, 1) % 32768) * 2 + LimbAt(x, 0) \div 32768,
            (LimbAt(x, 2) % 32768) * 2 + LimbAt(x, 1) \div 32768,
            (LimbAt(x, 3) % 32768) * 2 + LimbAt(x, 2) \div 32768,
            (LimbAt(x, 4) % 32768) * 2 + LimbAt(x, 3) \div 32768>>
    BY <1>1, Powers, MorePowers, SMT DEF ShiftLeft, Limbs
  <2>3. 65536 \div 32768 = 2
    BY SMT
  <2>4. (x[1] % 32768) * 2 + 0 \div 32768 = (x[1] % 32768) * 2
    BY ONLY <1>2, SMT
  <2>5. (x[2] % 32768) * 2 + x[1] \div 32768 = Joined(x[1], x[2], 32768)
    BY ONLY <1>2, <2>3, SMT DEF Joined
  <2>6. (x[3] % 32768) * 2 + x[2] \div 32768 = Joined(x[2], x[3], 32768)
    BY ONLY <1>2, <2>3, SMT DEF Joined
  <2>7. (x[4] % 32768) * 2 + x[3] \div 32768 = Joined(x[3], x[4], 32768)
    BY ONLY <1>2, <2>3, SMT DEF Joined
  <2> QED BY ONLY <2>1, <2>2, <2>4, <2>5, <2>6, <2>7
<1> QED BY <1>4, <1>5, <1>6, <1>7, <1>8, <1>9, <1>10, <1>11

LEMMA ShiftRotates ==
  ASSUME NEW x \in Word, NEW n \in Distances
  PROVE  RotrShift(x, n) = RotateRight(x, n)
<1>1. /\ x[1] \in Limb /\ x[2] \in Limb /\ x[3] \in Limb /\ x[4] \in Limb
      /\ Joined(x[1], x[2], 256) \in Limb /\ Joined(x[2], x[3], 256) \in Limb
      /\ Joined(x[3], x[4], 256) \in Limb
      /\ Joined(x[1], x[2], 32768) \in Limb
      /\ Joined(x[2], x[3], 32768) \in Limb
      /\ Joined(x[3], x[4], 32768) \in Limb
  BY LimbsOfWord, JoinedIsLimb
<1>2. /\ 64 - 32 = 32 /\ 64 - 24 = 40 /\ 64 - 16 = 48 /\ 64 - 63 = 1
  OBVIOUS
<1>3. RotrShift(x, 32) = RotateRight(x, 32)
  <2>1. RotrShift(x, 32) = BitOr(<<x[3], x[4], 0, 0>>, <<0, 0, x[1], x[2]>>)
    BY <1>2, ShiftsOfWord DEF RotrShift
  <2>2. @ = <<x[3] + 0 - AndLimb(x[3], 0),
              x[4] + 0 - AndLimb(x[4], 0),
              0 + x[1] - AndLimb(0, x[1]),
              0 + x[2] - AndLimb(0, x[2])>>
    BY DEF BitOr, Limbs
  <2>3. @ = RotateRight(x, 32)
    BY <1>1, OrOfLimbs, RotateIs
  <2> QED BY <2>1, <2>2, <2>3
<1>4. RotrShift(x, 16) = RotateRight(x, 16)
  <2>1. RotrShift(x, 16) = BitOr(<<x[2], x[3], x[4], 0>>, <<0, 0, 0, x[1]>>)
    BY <1>2, ShiftsOfWord DEF RotrShift
  <2>2. @ = <<x[2] + 0 - AndLimb(x[2], 0),
              x[3] + 0 - AndLimb(x[3], 0),
              x[4] + 0 - AndLimb(x[4], 0),
              0 + x[1] - AndLimb(0, x[1])>>
    BY DEF BitOr, Limbs
  <2>3. @ = RotateRight(x, 16)
    BY <1>1, OrOfLimbs, RotateIs
  <2> QED BY <2>1, <2>2, <2>3
<1>5. RotrShift(x, 24) = RotateRight(x, 24)
  <2>1. RotrShift(x, 24) =
          BitOr(<<Joined(x[2], x[3], 256), Joined(x[3], x[4], 256),
                  x[4] \div 256, 0>>,
                <<0, 0, (x[1] % 256) * 256, Joined(x[1], x[2], 256)>>)
    BY <1>2, ShiftsOfWord DEF RotrShift
  <2>2. @ = <<Joined(x[2], x[3], 256) + 0
                - AndLimb(Joined(x[2], x[3], 256), 0),
              Joined(x[3], x[4], 256) + 0
                - AndLimb(Joined(x[3], x[4], 256), 0),
              x[4] \div 256 + (x[1] % 256) * 256
                - AndLimb(x[4] \div 256, (x[1] % 256) * 256),
              0 + Joined(x[1], x[2], 256)
                - AndLimb(0, Joined(x[1], x[2], 256))>>
    BY DEF BitOr, Limbs
  <2>3. @ = RotateRight(x, 24)
    BY <1>1, OrOfLimbs, RotateIs
  <2> QED BY <2>1, <2>2, <2>3
<1>6. RotrShift(x, 63) = RotateRight(x, 63)
  <2>1. RotrShift(x, 63) =
          BitOr(<<x[4] \div 32768, 0, 0, 0>>,
                <<(x[1] % 32768) * 2, Joined(x[1], x[2], 32768),
                  Joined(x[2], x[3], 32768), Joined(x[3], x[4], 32768)>>)
    BY <1>2, ShiftsOfWord DEF RotrShift
  <2>2. @ = <<x[4] \div 32768 + (x[1] % 32768) * 2
                - AndLimb(x[4] \div 32768, (x[1] % 32768) * 2),
              0 + Joined(x[1], x[2], 32768)
                - AndLimb(0, Joined(x[1], x[2], 32768)),
              0 + Joined(x[2], x[3], 32768)
                - AndLimb(0, Joined(x[2], x[3], 32768)),
              0 + Joined(x[3], x[4], 32768)
                - AndLimb(0, Joined(x[3], x[4], 32768))>>
    BY DEF BitOr, Limbs
  <2>3. @ = RotateRight(x, 63)
    BY <1>1, OrOfLimbs, RotateIs
  <2> QED BY <2>1, <2>2, <2>3
<1> QED BY <1>3, <1>4, <1>5, <1>6 DEF Distances

LEMMA JoinIs ==
  ASSUME NEW a, NEW b, NEW c, NEW d
  PROVE  Join(<<a, b>>, <<c, d>>) = <<a, b, c, d>>
BY DEF Join

LEMMA ShiftsOfHalf ==
  ASSUME NEW a \in Limb, NEW b \in Limb
  PROVE  /\ ShiftRight(<<a, b>>, 16) = <<b, 0>>
         /\ ShiftLeft(<<a, b>>, 16) = <<0, a>>
         /\ ShiftRight(<<a, b>>, 24) = <<b \div 256, 0>>
         /\ ShiftLeft(<<a, b>>, 8) = <<(a % 256) * 256, Joined(a, b, 256)>>
         /\ ShiftRight(<<a, b>>, 31) = <<b \div 32768, 0>>
         /\ ShiftLeft(<<a, b>>, 1) = <<(a % 32768) * 2, Joined(a, b, 32768)>>
<1> DEFINE x == <<a, b>>
<1>1. /\ LimbAt(x, 1) = a /\ LimbAt(x, 2) = b /\ LimbAt(x, 3) = 0
      /\ LimbAt(x, 4) = 0 /\ LimbAt(x, 0) = 0 /\ LimbAt(x, -1) = 0
      /\ Len(x) = 2
  BY DEF LimbAt
<1>2. /\ a \in Int /\ a % 65536 = a /\ a \div 65536 = 0 /\ b \div 1 = b
      /\ b \in Int /\ b % 1 = 0 /\ 0 \div 1 = 0 /\ 0 % 1 = 0
      /\ a \div 1 = a /\ b \div 65536 = 0 /\ b % 65536 = b
  BY LimbAsIs, SMT
<1> HIDE DEF x
<1>3. ShiftRight(x, 16) = <<b, 0>>
  <2>1. ShiftRight(x, 16) =
          <<LimbAt(x, 2) \div 1 + (LimbAt(x, 3) % 1) * 65536,
            LimbAt(x, 3) \div 1 + (LimbAt(x, 4) % 1) * 65536>>
    BY <1>1, Powers, SMT DEF ShiftRight, Limbs
  <2> QED BY <1>1, <1>2, <2>1
<1>4. ShiftLeft(x, 16) = <<0, a>>
  <2>1. ShiftLeft(x, 16) =
          <<(LimbAt(x, 0) % 65536) * 1 + LimbAt(x, -1) \div 65536,
            (LimbAt(x, 1) % 65536) * 1 + LimbAt(x, 0) \div 65536>>
    BY <1>1, Powers, SMT DEF ShiftLeft, Limbs
  <2> QED BY <1>1, <1>2, <2>1
<1>5. ShiftRight(x, 24) = <<b \div 256, 0>>
  <2>1. ShiftRight(x, 24) =
          <<LimbAt(x, 2) \div 256 + (LimbAt(x, 3) % 256) * 256,
            LimbAt(x, 3) \div 256 + (LimbAt(x, 4) % 256) * 256>>
    BY <1>1, Powers, SMT DEF ShiftRight, Limbs
  <2>2. b \div 256 \in Int /\ 0 \div 256 = 0 /\ 0 % 256 = 0
    BY <1>2, SMT
  <2>3. ShiftRight(x, 24) = <<b \div 256 + 0 * 256, 0 + 0 * 256>>
    BY <1>1, <2>1, <2>2
  <2> QED BY <2>2, <2>3
<1>6. ShiftLeft(x, 8) = <<(a % 256) * 256, Joined(a, b, 256)>>
  <2>1. ShiftLeft(x, 8) =
          <<(LimbAt(x, 1) % 256) * 256 + LimbAt(x, 0) \div 256,
            (LimbAt(x, 2) % 256) * 256 + LimbAt(x, 1) \div 256>>
    BY <1>1, Powers, MorePowers, SMT DEF ShiftLeft, Limbs
  <2>2. /\ a \div 256 \in Int /\ b % 256 \in Int /\ a % 256 \in Int
        /\ 0 \div 256 = 0 /\ 65536 \div 256 = 256
    BY <1>2, SMT
  <2> QED BY <1>1, <2>1, <2>2 DEF Joined
<1>7. ShiftRight(x, 31) = <<b \div 32768, 0>>
  BY <1>1, <1>2, Powers, MorePowers, SMT DEF ShiftRight, Limbs
<1>8. ShiftLeft(x, 1) = <<(a % 32768) * 2, Joined(a, b, 32768)>>
  BY <1>1, <1>2, Powers, MorePowers, SMT DEF ShiftLeft, Limbs, Joined
<1> QED BY <1>3, <1>4, <1>5, <1>6, <1>7, <1>8 DEF x

LEMMA OrOfHalves ==
  ASSUME NEW a \in Limb, NEW b \in Limb, NEW c \in Limb, NEW d \in Limb
  PROVE  /\ BitOr(ShiftRight(<<a, b>>, 16), ShiftLeft(<<c, d>>, 16))
              = <<b, c>>
         /\ BitOr(ShiftRight(<<a, b>>, 24), ShiftLeft(<<c, d>>, 8))
              = <<Joined(b, c, 256), Joined(c, d, 256)>>
         /\ BitOr(ShiftRight(<<a, b>>, 31), ShiftLeft(<<c, d>>, 1))
              = <<Joined(b, c, 32768), Joined(c, d, 32768)>>
<1>1. Joined(c, d, 256) \in Limb /\ Joined(c, d, 32768) \in Limb
  BY JoinedIsLimb
<1>2. BitOr(ShiftRight(<<a, b>>, 16), ShiftLeft(<<c, d>>, 16)) = <<b, c>>
  <2>1. BitOr(<<b, 0>>, <<0, c>>) =
          <<b + 0 - AndLimb(b, 0), 0 + c - AndLimb(0, c)>>
    BY DEF BitOr, Limbs
  <2>2. @ = <<b, c>>
    BY OrOfLimbs
  <2>3. /\ ShiftRight(<<a, b>>, 16) = <<b, 0>>
        /\ ShiftLeft(<<c, d>>, 16) = <<0, c>>
    BY ShiftsOfHalf
  <2> QED BY <2>1, <2>2, <2>3
<1>3. BitOr(ShiftRight(<<a, b>>, 24), ShiftLeft(<<c, d>>, 8))
        = <<Joined(b, c, 256), Joined(c, d, 256)>>
  <2>1. BitOr(<<b \div 256, 0>>, <<(c % 256) * 256, Joined(c, d, 256)>>) =
          <<b \div 256 + (c % 256) * 256
              - AndLimb(b \div 256, (c % 256) * 256),
            0 + Joined(c, d, 256) - AndLimb(0, Joined(c, d, 256))>>
    BY DEF BitOr, Limbs
  <2>2. @ = <<Joined(b, c, 256), Joined(c, d, 256)>>
    BY <1>1, OrOfLimbs
  <2>3. /\ ShiftRight(<<a, b>>, 24) = <<b \div 256, 0>>
        /\ ShiftLeft(<<c, d>>, 8) = <<(c % 256) * 256, Joined(c, d, 256)>>
    BY ShiftsOfHalf
  <2> QED BY <2>1, <2>2, <2>3
<1>4. BitOr(ShiftRight(<<a, b>>, 31), ShiftLeft(<<c, d>>, 1))
        = <<Joined(b, c, 32768), Joined(c, d, 32768)>>
  <2>1. BitOr(<<b \div 32768, 0>>, <<(c % 32768) * 2, Joined(c, d, 32768)>>) =
          <<b \div 32768 + (c % 32768) * 2
              - AndLimb(b \div 32768, (c % 32768) * 2),
            0 + Joined(c, d, 32768) - AndLimb(0, Joined(c, d, 32768))>>
    BY DEF BitOr, Limbs
  <2>2. @ = <<Joined(b, c, 32768), Joined(c, d, 32768)>>
    BY <1>1, OrOfLimbs
  <2>3. /\ ShiftRight(<<a, b>>, 31) = <<b \div 32768, 0>>
        /\ ShiftLeft(<<c, d>>, 1) = <<(c % 32768) * 2, Joined(c, d, 32768)>>
    BY ShiftsOfHalf
  <2> QED BY <2>1, <2>2, <2>3
<1> QED BY <1>2, <1>3, <1>4

LEMMA SplitRotates ==
  ASSUME NEW x \in Word, NEW n \in Distances
  PROVE  RotrSplit(x, n) = RotateRight(x, n)
<1> SUFFICES ASSUME NEW a \in Limb, NEW b \in Limb, NEW c \in Limb,
                    NEW d \in Limb,
                    a = x[1], b = x[2], c = x[3], d = x[4]
             PROVE  RotrSplit(x, n) = RotateRight(x, n)
  BY LimbsOfWord
<1>1. Low(x) = <<a, b>> /\ High(x) = <<c, d>>
  BY DEF Low, High
<1>2. RotrSplit(x, 32) = RotateRight(x, 32)
  BY <1>1, JoinIs, RotateIs DEF RotrSplit
<1>3. RotrSplit(x, 16) = RotateRight(x, 16)
  <2>1. RotrSplit(x, 16) =
          Join(BitOr(ShiftRight(<<a, b>>, 16), ShiftLeft(<<c, d>>, 16)),
               BitOr(ShiftRight(<<c, d>>, 16), ShiftLeft(<<a, b>>, 16)))
    BY <1>1 DEF RotrSplit
  <2>2. /\ BitOr(ShiftRight(<<a, b>>, 16), ShiftLeft(<<c, d>>, 16)) = <<b, c>>
        /\ BitOr(ShiftRight(<<c, d>>, 16), ShiftLeft(<<a, b>>, 16)) = <<d, a>>
    BY ONLY OrOfHalves
  <2> QED BY <2>1, <2>2, JoinIs, RotateIs
<1>4. RotrSplit(x, 24) = RotateRight(x, 24)
  <2>1. RotrSplit(x, 24) =
          Join(BitOr(ShiftRight(<<a, b>>, 24), ShiftLeft(<<c, d>>, 8)),
               BitOr(ShiftRight(<<c, d>>, 24), ShiftLeft(<<a, b>>, 8)))
    BY <1>1 DEF RotrSplit
  <2>2. /\ BitOr(ShiftRight(<<a, b>>, 24), ShiftLeft(<<c, d>>, 8))
              = <<Joined(b, c, 256), Joined(c, d, 256)>>
        /\ BitOr(ShiftRight(<<c, d>>, 24), ShiftLeft(<<a, b>>, 8))
              = <<Joined(d, a, 256), Joined(a, b, 256)>>
    BY ONLY OrOfHalves
  <2> QED BY <2>1, <2>2, JoinIs, RotateIs
<1>5. RotrSplit(x, 63) = RotateRight(x, 63)
  <2>1. RotrSplit(x, 63) =
          Join(BitOr(ShiftRight(<<c, d>>, 31), ShiftLeft(<<a, b>>, 1)),
               BitOr(ShiftRight(<<a, b>>, 31), ShiftLeft(<<c, d>>, 1)))
    BY <1>1 DEF RotrSplit
  <2>2. /\ BitOr(ShiftRight(<<c, d>>, 31), ShiftLeft(<<a, b>>, 1))
              = <<Joined(d, a, 32768), Joined(a, b, 32768)>>
        /\ BitOr(ShiftRight(<<a, b>>, 31), ShiftLeft(<<c, d>>, 1))
              = <<Joined(b, c, 32768), Joined(c, d, 32768)>>
    BY ONLY OrOfHalves
  <2> QED BY <2>1, <2>2, JoinIs, RotateIs
<1> QED BY <1>2, <1>3, <1>4, <1>5 DEF Distances

(* The bytes of a word, from the least significant.                        *)
LEMMA BytesOfWord ==
  ASSUME NEW x \in Word
  PROVE  /\ Byte(x, 0) = x[1] % 256 /\ Byte(x, 1) = x[1] \div 256
         /\ Byte(x, 2) = x[2] % 256 /\ Byte(x, 3) = x[2] \div 256
         /\ Byte(x, 4) = x[3] % 256 /\ Byte(x, 5) = x[3] \div 256
         /\ Byte(x, 6) = x[4] % 256 /\ Byte(x, 7) = x[4] \div 256
BY SMT DEF Byte

LEMMA PermuteRotates ==
  ASSUME NEW x \in Word, NEW n \in Distances
  PROVE  RotrPermute(x, n) = RotateRight(x, n)
<1> DEFINE a == x[1]  b == x[2]  c == x[3]  d == x[4]  y == <<c, d, a, b>>
<1>1. /\ Low(x) = <<a, b>> /\ High(x) = <<c, d>>
      /\ a \in Limb /\ b \in Limb /\ c \in Limb /\ d \in Limb
      /\ Join(High(x), Low(x)) = y /\ y \in Word
      /\ y[1] = c /\ y[2] = d /\ y[3] = a /\ y[4] = b
  BY LimbsOfWord, JoinIs, WordOfLimbs DEF Low, High
<1>2. RotrPermute(x, 63) = RotateRight(x, 63)
  BY ShiftRotates DEF RotrPermute, Distances
<1>3. RotrPermute(x, 32) = RotateRight(x, 32)
  BY <1>1, JoinIs, RotateIs DEF RotrPermute
<1> HIDE DEF a, b, c, d, y
<1>4. ASSUME NEW e \in {a, b, c, d}
      PROVE  /\ e = (e % 256) + 256 * (e \div 256)
             /\ e % 256 \in Int /\ e \div 256 \in Int
  <2>1. e \in Limb
    BY <1>1
  <2>2. e \in Int /\ 0 <= e /\ e < 65536
    BY <2>1, RangeOfLimb
  <2> QED BY ONLY <2>2, SMT
<1>5. RotrPermute(x, 16) = RotateRight(x, 16)
  <2>1. RotrPermute(x, 16) =
          Join(BytePermute(High(x), Low(x), 1, 0, 7, 6),
               BytePermute(High(x), Low(x), 5, 4, 3, 2))
    BY DEF RotrPermute
  <2>2. @ = Join(<<Byte(y, 6) + 256 * Byte(y, 7),
                   Byte(y, 0) + 256 * Byte(y, 1)>>,
                 <<Byte(y, 2) + 256 * Byte(y, 3),
                   Byte(y, 4) + 256 * Byte(y, 5)>>)
    BY <1>1 DEF BytePermute
  <2>3. @ = Join(<<b, c>>, <<d, a>>)
    BY <1>1, <1>4, BytesOfWord
  <2> QED BY <2>1, <2>2, <2>3, JoinIs, RotateIs DEF a, b, c, d
<1>6. RotrPermute(x, 24) = RotateRight(x, 24)
  <2>1. RotrPermute(x, 24) =
          Join(BytePermute(High(x), Low(x), 2, 1, 0, 7),
               BytePermute(High(x), Low(x), 6, 5, 4, 3))
    BY DEF RotrPermute
  <2>2. @ = Join(<<Byte(y, 7) + 256 * Byte(y, 0),
                   Byte(y, 1) + 256 * Byte(y, 2)>>,
                 <<Byte(y, 3) + 256 * Byte(y, 4),
                   Byte(y, 5) + 256 * Byte(y, 6)>>)
    BY <1>1 DEF BytePermute
  <2>3. @ = Join(<<Joined(b, c, 256), Joined(c, d, 256)>>,
                 <<Joined(d, a, 256), Joined(a, b, 256)>>)
    <3>1. /\ Byte(y, 0) = c % 256 /\ Byte(y, 1) = c \div 256
          /\ Byte(y, 2) = d % 256 /\ Byte(y, 3) = d \div 256
          /\ Byte(y, 4) = a % 256 /\ Byte(y, 5) = a \div 256
          /\ Byte(y, 6) = b % 256 /\ Byte(y, 7) = b \div 256
      BY <1>1, BytesOfWord
    <3>2. ASSUME NEW e \in {a, b, c, d}, NEW f \in {a, b, c, d}
          PROVE  (e \div 256) + 256 * (f % 256) = Joined(e, f, 256)
      <4>1. 65536 \div 256 = 256
        BY SMT
      <4>2. (e \div 256) + 256 * (f % 256) = e \div 256 + (f % 256) * 256
        BY <1>4
      <4> QED BY <4>1, <4>2 DEF Joined
    <3>3. /\ Byte(y, 7) + 256 * Byte(y, 0) = Joined(b, c, 256)
          /\ Byte(y, 1) + 256 * Byte(y, 2) = Joined(c, d, 256)
          /\ Byte(y, 3) + 256 * Byte(y, 4) = Joined(d, a, 256)
          /\ Byte(y, 5) + 256 * Byte(y, 6) = Joined(a, b, 256)
      BY ONLY <3>1, <3>2
    <3> QED BY <3>3
  <2> QED BY <2>1, <2>2, <2>3, JoinIs, RotateIs DEF a, b, c, d
<1> QED BY <1>2, <1>3, <1>5, <1>6 DEF Distances

(* Whatever way a kernel rotates, it is a rotation.                        *)
Ways == {"rotate", "shift", "split", "permute", "neon"}

LEMMA EveryWayRotates ==
  ASSUME NEW way \in Ways, NEW x \in Word, NEW n \in Distances
  PROVE  /\ Rotr(way, x, n) = RotateRight(x, n)
         /\ Rotr(way, x, n) \in Word
<1>1. RotrNeon(x, n) = RotateRight(x, n)
  <2>1. CASE n = 32
    BY <2>1, JoinIs, RotateIs DEF RotrNeon, Low, High
  <2>2. CASE n # 32
    BY <2>2, ShiftRotates DEF RotrNeon
  <2> QED BY <2>1, <2>2
<1>2. Rotr(way, x, n) = RotateRight(x, n)
  BY <1>1, ShiftRotates, SplitRotates, PermuteRotates DEF Rotr, Ways
<1> QED BY <1>2, RotateIsWord
(* The mixing function, on the four words of its column: whatever the way  *)
(* to rotate, the same four words replace them.                            *)
Vector == [0 .. 15 -> Word]
TableRows == 1 .. 12
TableColumns == 1 .. 8
RowPlaces == 1 .. 16

Mixed(u, column, x, y) ==
  LET a == column[1]  b == column[2]  c == column[3]  d == column[4]
      a1 == Add(Add(u[a], u[b]), x)
      d1 == RotateRight(BitXor(u[d], a1), 32)
      c1 == Add(u[c], d1)
      b1 == RotateRight(BitXor(u[b], c1), 24)
      a2 == Add(Add(a1, b1), y)
      d2 == RotateRight(BitXor(d1, a2), 16)
      c2 == Add(c1, d2)
      b2 == RotateRight(BitXor(b1, c2), 63)
  IN  <<a2, b2, c2, d2>>

Replaced(u, column, t) ==
  [u EXCEPT ![column[1]] = t[1], ![column[2]] = t[2],
            ![column[3]] = t[3], ![column[4]] = t[4]]

LEMMA MixedOneWay ==
  ASSUME NEW way \in Ways, NEW u \in Vector, NEW x \in Word, NEW y \in Word,
         NEW column, \A j \in 1 .. 4 : column[j] \in 0 .. 15
  PROVE  /\ G(way, u, column, x, y)
              = Replaced(u, column, Mixed(u, column, x, y))
         /\ \A j \in 1 .. 4 : Mixed(u, column, x, y)[j] \in Word
<1> DEFINE a == column[1]  b == column[2]  c == column[3]  d == column[4]
           a1 == Add(Add(u[a], u[b]), x)
           d1 == RotateRight(BitXor(u[d], a1), 32)
           c1 == Add(u[c], d1)
           b1 == RotateRight(BitXor(u[b], c1), 24)
           a2 == Add(Add(a1, b1), y)
           d2 == RotateRight(BitXor(d1, a2), 16)
           c2 == Add(c1, d2)
           b2 == RotateRight(BitXor(b1, c2), 63)
<1>1. Mixed(u, column, x, y) = <<a2, b2, c2, d2>>
  BY DEF Mixed
<1>2. u[a] \in Word /\ u[b] \in Word /\ u[c] \in Word /\ u[d] \in Word
  BY DEF Vector
<1>3. a1 \in Word /\ BitXor(u[d], a1) \in Word
  BY <1>2, SumOfWords, XorOfWords
<1>4. d1 \in Word /\ Rotr(way, BitXor(u[d], a1), 32) = d1
  BY <1>3, EveryWayRotates DEF Distances, Ways
<1> HIDE DEF a1
<1>5. c1 \in Word /\ BitXor(u[b], c1) \in Word
  BY <1>2, <1>4, SumOfWords, XorOfWords
<1> HIDE DEF d1
<1>6. b1 \in Word /\ Rotr(way, BitXor(u[b], c1), 24) = b1
  BY <1>5, EveryWayRotates, RotateIsWord DEF Distances
<1> HIDE DEF c1
<1>7. a2 \in Word /\ BitXor(d1, a2) \in Word
  BY <1>3, <1>4, <1>6, SumOfWords, XorOfWords
<1> HIDE DEF b1
<1>8. d2 \in Word /\ Rotr(way, BitXor(d1, a2), 16) = d2
  BY <1>7, EveryWayRotates, RotateIsWord DEF Distances
<1> HIDE DEF a2
<1>9. c2 \in Word /\ BitXor(b1, c2) \in Word
  BY <1>5, <1>6, <1>8, SumOfWords, XorOfWords
<1> HIDE DEF d2
<1>10. b2 \in Word /\ Rotr(way, BitXor(b1, c2), 63) = b2
  BY <1>9, EveryWayRotates, RotateIsWord DEF Distances
<1> HIDE DEF c2, b2
<1>11. G(way, u, column, x, y) =
         [u EXCEPT ![a] = a2, ![b] = b2, ![c] = c2, ![d] = d2]
  BY <1>4, <1>6, <1>8, <1>10 DEF G, a1, c1, a2, c2
<1>12. @ = Replaced(u, column, <<a2, b2, c2, d2>>)
  BY DEF Replaced
<1> QED BY <1>1, <1>7, <1>8, <1>9, <1>10, <1>11, <1>12

(* A column is mixed the same whatever the way, and the result is again    *)
(* sixteen words.                                                          *)
LEMMA ColumnsOfVector ==
  \A i \in TableColumns, j \in 1 .. 4 : Columns[i][j] \in 0 .. 15
BY DEF Columns, TableColumns

LEMMA ColumnNumbers ==
  \A i \in 1 .. 8 : i \in TableColumns
BY DEF TableColumns

LEMMA ReplacedIsVector ==
  ASSUME NEW u \in Vector, NEW t, \A j \in 1 .. 4 : t[j] \in Word,
         NEW column, \A j \in 1 .. 4 : column[j] \in 0 .. 15
  PROVE  Replaced(u, column, t) \in Vector
BY DEF Replaced, Vector

LEMMA GOneWay ==
  ASSUME NEW way \in Ways, NEW u \in Vector, NEW i \in TableColumns,
         NEW x \in Word, NEW y \in Word
  PROVE  /\ G(way, u, Columns[i], x, y) = G("rotate", u, Columns[i], x, y)
         /\ G(way, u, Columns[i], x, y) \in Vector
<1>1. \A j \in 1 .. 4 : Columns[i][j] \in 0 .. 15
  BY ColumnsOfVector
<1>2. "rotate" \in Ways
  BY DEF Ways
<1> QED BY ONLY <1>1, <1>2, MixedOneWay, ReplacedIsVector

(* The third column and the fourth share no word: their order is free.     *)
LEMMA ColumnsCommute ==
  ASSUME NEW way \in Ways, NEW u \in Vector, NEW x \in Word, NEW y \in Word,
         NEW e \in Word, NEW f \in Word
  PROVE  G(way, G(way, u, Columns[4], e, f), Columns[3], x, y)
           = G(way, G(way, u, Columns[3], x, y), Columns[4], e, f)
<1> DEFINE third == Columns[3]  fourth == Columns[4]
           s == Mixed(u, third, x, y)  us == Replaced(u, third, s)
           t == Mixed(u, fourth, e, f)  ut == Replaced(u, fourth, t)
<1>1. third = <<2, 6, 10, 14>> /\ fourth = <<3, 7, 11, 15>>
  BY DEF Columns
<1>2. \A j \in 1 .. 4 : third[j] \in 0 .. 15 /\ fourth[j] \in 0 .. 15
  BY <1>1
<1> HIDE DEF third, fourth
<1>3. /\ G(way, u, third, x, y) = us /\ G(way, u, fourth, e, f) = ut
      /\ \A j \in 1 .. 4 : s[j] \in Word /\ t[j] \in Word
  BY <1>2, MixedOneWay
<1>4. us \in Vector /\ ut \in Vector
  BY <1>2, <1>3, ReplacedIsVector
<1>5. /\ Mixed(us, fourth, e, f) = t
      /\ Mixed(ut, third, x, y) = s
  <2> HIDE DEF s, t
  <2>1. /\ us[3] = u[3] /\ us[7] = u[7] /\ us[11] = u[11] /\ us[15] = u[15]
        /\ ut[2] = u[2] /\ ut[6] = u[6] /\ ut[10] = u[10] /\ ut[14] = u[14]
    BY <1>1 DEF Replaced, Vector
  <2> HIDE DEF us, ut
  <2> QED BY <1>1, <2>1 DEF Mixed, s, t
<1>6. /\ G(way, us, fourth, e, f) = Replaced(us, fourth, t)
      /\ G(way, ut, third, x, y) = Replaced(ut, third, s)
  BY <1>2, <1>4, <1>5, MixedOneWay
<1> HIDE DEF s, t
<1>7. Replaced(us, fourth, t) = Replaced(ut, third, s)
  <2> DEFINE P == Replaced(us, fourth, t)  Q == Replaced(ut, third, s)
  <2>1. P \in Vector /\ Q \in Vector
    BY <1>2, <1>3, <1>4, ReplacedIsVector
  <2>2. ASSUME NEW k \in 0 .. 15, NEW r \in Vector
        PROVE  /\ Replaced(r, third, s)[k] =
                    IF k = 2 THEN s[1] ELSE IF k = 6 THEN s[2]
                    ELSE IF k = 10 THEN s[3] ELSE IF k = 14 THEN s[4] ELSE r[k]
               /\ Replaced(r, fourth, t)[k] =
                    IF k = 3 THEN t[1] ELSE IF k = 7 THEN t[2]
                    ELSE IF k = 11 THEN t[3] ELSE IF k = 15 THEN t[4] ELSE r[k]
    BY <1>1 DEF Replaced, Vector
  <2> HIDE DEF P, Q
  <2>3. ASSUME NEW k \in 0 .. 15
        PROVE  P[k] = Q[k]
    BY <1>4, <2>2 DEF P, Q, us, ut
  <2>4. P = Q
    BY <2>1, <2>3 DEF Vector
  <2> QED BY <2>4 DEF P, Q
<1> HIDE DEF us, ut
<1> QED BY <1>3, <1>6, <1>7 DEF third, fourth

(* The rows: Scalar has the constant 0 where SIGMA has a word that a       *)
(* header of 80 bytes does not fill.                                       *)
IsRow(row, scalar) ==
  \A j \in RowPlaces :
    /\ row[j] \in 0 .. 15
    /\ scalar[j] = IF row[j] >= 10 THEN z ELSE row[j]

LEMMA RowsOfWords ==
  \A r \in TableRows : IsRow(SIGMA[r], Scalar[r])
<1>1. IsRow(SIGMA[1], Scalar[1])
  BY DEF SIGMA, Scalar, IsRow, z, RowPlaces
<1>2. IsRow(SIGMA[2], Scalar[2])
  BY DEF SIGMA, Scalar, IsRow, z, RowPlaces
<1>3. IsRow(SIGMA[3], Scalar[3])
  BY DEF SIGMA, Scalar, IsRow, z, RowPlaces
<1>4. IsRow(SIGMA[4], Scalar[4])
  BY DEF SIGMA, Scalar, IsRow, z, RowPlaces
<1>5. IsRow(SIGMA[5], Scalar[5])
  BY DEF SIGMA, Scalar, IsRow, z, RowPlaces
<1>6. IsRow(SIGMA[6], Scalar[6])
  BY DEF SIGMA, Scalar, IsRow, z, RowPlaces
<1>7. IsRow(SIGMA[7], Scalar[7])
  BY DEF SIGMA, Scalar, IsRow, z, RowPlaces
<1>8. IsRow(SIGMA[8], Scalar[8])
  BY DEF SIGMA, Scalar, IsRow, z, RowPlaces
<1>9. IsRow(SIGMA[9], Scalar[9])
  BY DEF SIGMA, Scalar, IsRow, z, RowPlaces
<1>10. IsRow(SIGMA[10], Scalar[10])
  BY DEF SIGMA, Scalar, IsRow, z, RowPlaces
<1>11. IsRow(SIGMA[11], Scalar[11])
  BY DEF SIGMA, Scalar, IsRow, z, RowPlaces
<1>12. IsRow(SIGMA[12], Scalar[12])
  BY DEF SIGMA, Scalar, IsRow, z, RowPlaces
<1> QED BY <1>1, <1>2, <1>3, <1>4, <1>5, <1>6, <1>7, <1>8, <1>9, <1>10, <1>11, <1>12
     DEF TableRows

(* A kernel's message agrees with the words of blake2b256: those from the  *)
(* tenth on are 0.                                                         *)
Agrees(s, t) ==
  /\ s[z] = Zero
  /\ \A k \in 0 .. 15 : /\ t[k] \in Word /\ s[k] = t[k]
                        /\ k >= 10 => t[k] = Zero

Tables == {SIGMA, Scalar}

LEMMA WordsOfRow ==
  ASSUME NEW s, NEW t, Agrees(s, t), NEW rows \in Tables,
         NEW r \in TableRows, NEW j \in RowPlaces
  PROVE  s[rows[r][j]] = t[SIGMA[r][j]] /\ t[SIGMA[r][j]] \in Word
<1>1. /\ SIGMA[r][j] \in 0 .. 15
      /\ Scalar[r][j] = IF SIGMA[r][j] >= 10 THEN z ELSE SIGMA[r][j]
  BY RowsOfWords DEF IsRow
<1>2. CASE rows = SIGMA
  BY <1>1, <1>2 DEF Agrees
<1>3. CASE rows = Scalar
  BY <1>1, <1>3 DEF Agrees
<1> QED BY <1>2, <1>3 DEF Tables

LEMMA MixOneWay ==
  ASSUME NEW s, NEW t, Agrees(s, t), NEW rows \in Tables, NEW way \in Ways,
         NEW u \in Vector, NEW r \in TableRows, NEW i \in TableColumns
  PROVE  /\ Mix(way, u, s, rows[r], i) = Mix("rotate", u, t, SIGMA[r], i)
         /\ Mix(way, u, s, rows[r], i) \in Vector
<1> DEFINE x == t[SIGMA[r][2 * i - 1]]  y == t[SIGMA[r][2 * i]]
<1>1. 2 * i - 1 \in RowPlaces /\ 2 * i \in RowPlaces
  BY DEF TableColumns, RowPlaces
<1>2. /\ x \in Word /\ s[rows[r][2 * i - 1]] = x
      /\ y \in Word /\ s[rows[r][2 * i]] = y
  BY <1>1, WordsOfRow
<1>3. /\ Mix(way, u, s, rows[r], i) = G(way, u, Columns[i], x, y)
      /\ Mix("rotate", u, t, SIGMA[r], i) = G("rotate", u, Columns[i], x, y)
  BY <1>2 DEF Mix
<1> HIDE DEF x, y
<1> QED BY <1>2, <1>3, GOneWay

(* The vectors of MixAll, a column mixed after the other.                  *)
InTurn(way, x, s, row, columns) ==
  LET u[i \in 0 .. Len(columns)] ==
        IF i = 0 THEN x ELSE Mix(way, u[i - 1], s, row, columns[i])
  IN  u

LEMMA MixedInTurn ==
  ASSUME NEW way, NEW u, NEW s, NEW row, NEW columns, Len(columns) \in 0 .. 8
  PROVE  LET a == InTurn(way, u, s, row, columns)
         IN  /\ a[0] = u
             /\ \A i \in 1 .. Len(columns) :
                  a[i] = Mix(way, a[i - 1], s, row, columns[i])
             /\ MixAll(way, u, s, row, columns) = a[Len(columns)]
<1> DEFINE n == Len(columns)
           Turn(f, i) == IF i = 0 THEN u
                         ELSE Mix(way, f[i - 1], s, row, columns[i])
           Turns(f, k) == f = [i \in 0 .. k |-> Turn(f, i)]
           a == InTurn(way, u, s, row, columns)
<1>1. \E f : Turns(f, 0)
  <2> DEFINE f == [i \in 0 .. 0 |-> u]
  <2>1. \A i \in 0 .. 0 : i = 0
    OBVIOUS
  <2>2. f = [i \in 0 .. 0 |-> Turn(f, i)]
    BY <2>1
  <2> QED BY <2>2
<1>2. ASSUME NEW k \in 0 .. 7, \E f : Turns(f, k)
      PROVE  \E f : Turns(f, k + 1)
  <2>1. PICK f : Turns(f, k)
    BY <1>2
  <2> DEFINE g == [i \in 0 .. k + 1 |-> IF i <= k THEN f[i]
                     ELSE Mix(way, f[k], s, row, columns[k + 1])]
  <2>2. ASSUME NEW i \in 0 .. k + 1 PROVE g[i] = Turn(g, i)
    <3>1. CASE i = 0
      BY <2>1, <3>1
    <3>2. CASE i \in 1 .. k
      <4>1. g[i] = f[i] /\ g[i - 1] = f[i - 1] /\ i # 0 /\ i \in 0 .. k
        BY <3>2
      <4>2. f[i] = Turn(f, i)
        BY <2>1, <4>1
      <4> QED BY ONLY <4>1, <4>2
    <3>3. CASE i = k + 1
      <4>1. /\ g[i] = Mix(way, f[k], s, row, columns[k + 1])
            /\ g[i - 1] = f[k] /\ i # 0
        BY <3>3
      <4> QED BY ONLY <3>3, <4>1
    <3> QED BY <3>1, <3>2, <3>3
  <2> HIDE DEF Turn
  <2>3. g = [i \in 0 .. k + 1 |-> Turn(g, i)]
    BY ONLY <2>2
  <2> QED BY <2>3
<1> HIDE DEF Turns
<1>3. \E f : Turns(f, n)
  <2>1. \E f : Turns(f, 1)
    BY <1>1, <1>2
  <2>2. \E f : Turns(f, 2)
    BY <2>1, <1>2
  <2>3. \E f : Turns(f, 3)
    BY <2>2, <1>2
  <2>4. \E f : Turns(f, 4)
    BY <2>3, <1>2
  <2>5. \E f : Turns(f, 5)
    BY <2>4, <1>2
  <2>6. \E f : Turns(f, 6)
    BY <2>5, <1>2
  <2>7. \E f : Turns(f, 7)
    BY <2>6, <1>2
  <2>8. \E f : Turns(f, 8)
    BY <2>7, <1>2
  <2>9. n \in {0, 1, 2, 3, 4, 5, 6, 7, 8}
    OBVIOUS
  <2> HIDE DEF n
  <2> QED BY ONLY <1>1, <2>1, <2>2, <2>3, <2>4, <2>5, <2>6, <2>7, <2>8, <2>9
<1>4. Turns(a, n)
  <2>1. a = CHOOSE f : Turns(f, n)
    BY DEF InTurn, Turns
  <2> HIDE DEF a
  <2> QED BY <1>3, <2>1
<1>5. MixAll(way, u, s, row, columns) = a[n]
  BY DEF MixAll, InTurn
<1> HIDE DEF a
<1>6. /\ a[0] = u
      /\ \A i \in 1 .. n : a[i] = Mix(way, a[i - 1], s, row, columns[i])
  BY <1>4 DEF Turns
<1> QED BY <1>5, <1>6 DEF a

(* In particular all eight, the last four of which are the diagonals, and  *)
(* the three and five that precompute_round_zero makes of them.            *)
Diagonals(way, u, s, row) ==
  LET u5 == Mix(way, u, s, row, 5)
      u6 == Mix(way, u5, s, row, 6)
      u7 == Mix(way, u6, s, row, 7)
  IN  Mix(way, u7, s, row, 8)

LEMMA RoundIs ==
  ASSUME NEW way, NEW u, NEW s, NEW row
  PROVE  LET u1 == Mix(way, u, s, row, 1)
             u2 == Mix(way, u1, s, row, 2)
             u3 == Mix(way, u2, s, row, 3)
         IN  Round(way, u, s, row)
               = Diagonals(way, Mix(way, u3, s, row, 4), s, row)
<1> DEFINE all == <<1, 2, 3, 4, 5, 6, 7, 8>>
           a == InTurn(way, u, s, row, all)
<1>1. Len(all) \in 0 .. 8
  OBVIOUS
<1>2. /\ Len(all) = 8
      /\ all[1] = 1 /\ all[2] = 2 /\ all[3] = 3 /\ all[4] = 4
      /\ all[5] = 5 /\ all[6] = 6 /\ all[7] = 7 /\ all[8] = 8
  OBVIOUS
<1>3. Round(way, u, s, row) = MixAll(way, u, s, row, all)
  BY DEF Round
<1> HIDE DEF all
<1>4. /\ a[0] = u
      /\ \A i \in 1 .. Len(all) :
           a[i] = Mix(way, a[i - 1], s, row, all[i])
      /\ MixAll(way, u, s, row, all) = a[Len(all)]
  BY <1>1, MixedInTurn
<1> HIDE DEF a
<1>5. /\ a[1] = Mix(way, u, s, row, 1) /\ a[2] = Mix(way, a[1], s, row, 2)
      /\ a[3] = Mix(way, a[2], s, row, 3) /\ a[4] = Mix(way, a[3], s, row, 4)
      /\ a[5] = Mix(way, a[4], s, row, 5) /\ a[6] = Mix(way, a[5], s, row, 6)
      /\ a[7] = Mix(way, a[6], s, row, 7) /\ a[8] = Mix(way, a[7], s, row, 8)
  BY ONLY <1>2, <1>4
<1> QED BY ONLY <1>2, <1>3, <1>4, <1>5 DEF Diagonals

LEMMA PrecomputedIs ==
  ASSUME NEW words
  PROVE  LET u1 == Mix("rotate", Literal, words, Scalar[1], 1)
             u2 == Mix("rotate", u1, words, Scalar[1], 2)
         IN  PrecomputeRoundZero(words)
               = Mix("rotate", u2, words, Scalar[1], 4)
<1> DEFINE early == <<1, 2, 4>>  row == Scalar[1]  u == Literal
           a == InTurn("rotate", u, words, row, early)
<1>1. Len(early) \in 0 .. 8
  OBVIOUS
<1>2. /\ Len(early) = 3
      /\ early[1] = 1 /\ early[2] = 2 /\ early[3] = 4
  OBVIOUS
<1>3. PrecomputeRoundZero(words) = MixAll("rotate", u, words, row, early)
  BY DEF PrecomputeRoundZero
<1> HIDE DEF early, row, u
<1>4. /\ a[0] = u
      /\ \A i \in 1 .. Len(early) :
           a[i] = Mix("rotate", a[i - 1], words, row, early[i])
      /\ MixAll("rotate", u, words, row, early) = a[Len(early)]
  BY <1>1, MixedInTurn
<1> HIDE DEF a
<1>5. /\ a[1] = Mix("rotate", u, words, row, 1)
      /\ a[2] = Mix("rotate", a[1], words, row, 2)
      /\ a[3] = Mix("rotate", a[2], words, row, 4)
  BY ONLY <1>2, <1>4
<1> QED BY <1>2, <1>3, <1>4, <1>5 DEF row, u

LEMMA FinishedIs ==
  ASSUME NEW way, NEW u, NEW s, NEW row
  PROVE  FinishRoundZero(way, u, s, row)
           = Diagonals(way, Mix(way, u, s, row, 3), s, row)
<1> DEFINE late == <<3, 5, 6, 7, 8>>
           a == InTurn(way, u, s, row, late)
<1>1. Len(late) \in 0 .. 8
  OBVIOUS
<1>2. /\ Len(late) = 5
      /\ late[1] = 3 /\ late[2] = 5 /\ late[3] = 6 /\ late[4] = 7
      /\ late[5] = 8
  OBVIOUS
<1>3. FinishRoundZero(way, u, s, row) = MixAll(way, u, s, row, late)
  BY DEF FinishRoundZero
<1> HIDE DEF late
<1>4. /\ a[0] = u
      /\ \A i \in 1 .. Len(late) :
           a[i] = Mix(way, a[i - 1], s, row, late[i])
      /\ MixAll(way, u, s, row, late) = a[Len(late)]
  BY <1>1, MixedInTurn
<1> HIDE DEF a
<1>5. /\ a[1] = Mix(way, u, s, row, 3) /\ a[2] = Mix(way, a[1], s, row, 5)
      /\ a[3] = Mix(way, a[2], s, row, 6) /\ a[4] = Mix(way, a[3], s, row, 7)
      /\ a[5] = Mix(way, a[4], s, row, 8)
  BY ONLY <1>2, <1>4
<1> QED BY ONLY <1>2, <1>3, <1>4, <1>5 DEF Diagonals

LEMMA DiagonalsOneWay ==
  ASSUME NEW s, NEW t, Agrees(s, t), NEW rows \in Tables, NEW way \in Ways,
         NEW u \in Vector, NEW r \in TableRows
  PROVE  /\ Diagonals(way, u, s, rows[r])
              = Diagonals("rotate", u, t, SIGMA[r])
         /\ Diagonals(way, u, s, rows[r]) \in Vector
<1> DEFINE u5 == Mix("rotate", u, t, SIGMA[r], 5)
           u6 == Mix("rotate", u5, t, SIGMA[r], 6)
           u7 == Mix("rotate", u6, t, SIGMA[r], 7)
           u8 == Mix("rotate", u7, t, SIGMA[r], 8)
<1>1. u5 \in Vector /\ Mix(way, u, s, rows[r], 5) = u5
  BY ColumnNumbers, MixOneWay
<1>2. u6 \in Vector /\ Mix(way, u5, s, rows[r], 6) = u6
  BY <1>1, ColumnNumbers, MixOneWay
<1>3. u7 \in Vector /\ Mix(way, u6, s, rows[r], 7) = u7
  BY <1>2, ColumnNumbers, MixOneWay
<1>4. u8 \in Vector /\ Mix(way, u7, s, rows[r], 8) = u8
  BY <1>3, ColumnNumbers, MixOneWay
<1> QED BY <1>1, <1>2, <1>3, <1>4 DEF Diagonals

(* So is a round, in rows of either table.                                 *)
LEMMA RoundOneWay ==
  ASSUME NEW s, NEW t, Agrees(s, t), NEW rows \in Tables, NEW way \in Ways,
         NEW u \in Vector, NEW r \in TableRows
  PROVE  /\ Round(way, u, s, rows[r]) = Round("rotate", u, t, SIGMA[r])
         /\ Round(way, u, s, rows[r]) \in Vector
<1> DEFINE u1 == Mix("rotate", u, t, SIGMA[r], 1)
           u2 == Mix("rotate", u1, t, SIGMA[r], 2)
           u3 == Mix("rotate", u2, t, SIGMA[r], 3)
           u4 == Mix("rotate", u3, t, SIGMA[r], 4)
<1>1. u1 \in Vector /\ Mix(way, u, s, rows[r], 1) = u1
  BY ColumnNumbers, MixOneWay
<1>2. u2 \in Vector /\ Mix(way, u1, s, rows[r], 2) = u2
  BY <1>1, ColumnNumbers, MixOneWay
<1>3. u3 \in Vector /\ Mix(way, u2, s, rows[r], 3) = u3
  BY <1>2, ColumnNumbers, MixOneWay
<1>4. u4 \in Vector /\ Mix(way, u3, s, rows[r], 4) = u4
  BY <1>3, ColumnNumbers, MixOneWay
<1>5. /\ Diagonals(way, u4, s, rows[r]) = Diagonals("rotate", u4, t, SIGMA[r])
      /\ Diagonals(way, u4, s, rows[r]) \in Vector
  BY <1>4, DiagonalsOneWay
<1>6. /\ Round(way, u, s, rows[r]) = Diagonals(way, u4, s, rows[r])
      /\ Round("rotate", u, t, SIGMA[r]) = Diagonals("rotate", u4, t, SIGMA[r])
  BY <1>1, <1>2, <1>3, <1>4, RoundIs
<1> QED BY <1>5, <1>6

(* The round of precompute_round_zero and its kernel is the first round:   *)
(* the columns mixed early need neither the nonce nor each other's words.  *)
LEMMA RoundInTwo ==
  ASSUME NEW s, NEW t, Agrees(s, t), NEW words,
         \A k \in {0, 1, 2, 3, 6, 7} : words[k] = t[k],
         NEW way \in Ways, Literal \in Vector
  PROVE  /\ PrecomputeRoundZero(words) \in Vector
         /\ FinishRoundZero(way, PrecomputeRoundZero(words), s, Scalar[1])
              = Round("rotate", Literal, t, SIGMA[1])
<1> DEFINE u1 == Mix("rotate", Literal, t, SIGMA[1], 1)
           u2 == Mix("rotate", u1, t, SIGMA[1], 2)
           u3 == Mix("rotate", u2, t, SIGMA[1], 3)
           u4 == Mix("rotate", u2, t, SIGMA[1], 4)
           u34 == Mix("rotate", u3, t, SIGMA[1], 4)
           u43 == Mix("rotate", u4, t, SIGMA[1], 3)
<1>1. /\ "rotate" \in Ways /\ SIGMA \in Tables /\ Scalar \in Tables
      /\ Agrees(s, t) /\ 1 \in TableRows
  BY DEF Ways, Tables, TableRows
<1>2. \A i \in {1, 2, 4} :
        \A u : Mix("rotate", u, words, Scalar[1], i)
                 = Mix("rotate", u, t, SIGMA[1], i)
  BY DEF Mix, Scalar, SIGMA
<1>3. u1 \in Vector
  BY <1>1, ColumnNumbers, MixOneWay
<1>4. u2 \in Vector
  BY <1>1, <1>3, ColumnNumbers, MixOneWay
<1>5. u3 \in Vector /\ u4 \in Vector
  BY <1>1, <1>4, ColumnNumbers, MixOneWay
<1>6. u34 \in Vector
  BY <1>1, <1>5, ColumnNumbers, MixOneWay
<1>7. u34 = u43
  <2> DEFINE x == t[SIGMA[1][5]]  y == t[SIGMA[1][6]]
             e == t[SIGMA[1][7]]  f == t[SIGMA[1][8]]
  <2>1. 5 \in RowPlaces /\ 6 \in RowPlaces /\ 7 \in RowPlaces /\ 8 \in RowPlaces
    BY DEF RowPlaces
  <2>2. x \in Word /\ y \in Word /\ e \in Word /\ f \in Word
    BY <1>1, <2>1, WordsOfRow
  <2>3. \A u : /\ Mix("rotate", u, t, SIGMA[1], 3) = G("rotate", u, Columns[3], x, y)
               /\ Mix("rotate", u, t, SIGMA[1], 4) = G("rotate", u, Columns[4], e, f)
    BY DEF Mix
  <2> HIDE DEF x, y, e, f, u2
  <2> QED BY ONLY <1>1, <1>4, <2>2, <2>3, ColumnsCommute
<1>8. PrecomputeRoundZero(words) = u4
  BY <1>2, PrecomputedIs
<1>9. Mix(way, u4, s, Scalar[1], 3) = u43
  BY <1>1, <1>5, ColumnNumbers, MixOneWay
<1>10. FinishRoundZero(way, u4, s, Scalar[1])
         = Diagonals(way, u34, s, Scalar[1])
  BY <1>7, <1>9, FinishedIs
<1>11. @ = Diagonals("rotate", u34, t, SIGMA[1])
  BY <1>1, <1>6, DiagonalsOneWay
<1>12. @ = Round("rotate", Literal, t, SIGMA[1])
  BY RoundIs
<1> QED BY <1>5, <1>8, <1>10, <1>11, <1>12

(* The first working vector: the literals of the kernels are the values    *)
(* blake2b256 computes for 80 bytes in one block.                          *)
LEMMA WIsWord ==
  ASSUME NEW a \in Limb, NEW b \in Limb, NEW c \in Limb, NEW d \in Limb
  PROVE  W(d, c, b, a) \in Word /\ W(d, c, b, a) = <<a, b, c, d>>
BY WordOfLimbs DEF W

LEMMA SomeWords ==
  /\ Zero \in Word /\ Ones \in Word /\ W(0, 0, 0, 80) \in Word
<1>1. 80 \in Limb /\ Base - 1 = 65535
  BY SMT DEF Limb, Base
<1> QED BY <1>1, AndOfSomeLimbs, WIsWord DEF Zero, Ones

LEMMA ZeroAndOnes ==
  Zero = <<0, 0, 0, 0>> /\ Ones = <<65535, 65535, 65535, 65535>>
BY SMT DEF Zero, Ones, W, Base

LEMMA XorIsWord ==
  \A x \in Word, y \in Word : BitXor(x, y) \in Word
BY XorOfWords

LEMMA IVIsWords ==
  \A k \in 1 .. 8 : IV[k] \in Word
<1>1. IV[1] \in Word
  <2>1. /\ \h6a09 \in Limb /\ \he667 \in Limb
        /\ \hf3bc \in Limb /\ \hc908 \in Limb
    BY SMT DEF Limb, Base
  <2> QED BY <2>1, WIsWord DEF IV
<1>2. IV[2] \in Word
  <2>1. /\ \hbb67 \in Limb /\ \hae85 \in Limb
        /\ \h84ca \in Limb /\ \ha73b \in Limb
    BY SMT DEF Limb, Base
  <2> QED BY <2>1, WIsWord DEF IV
<1>3. IV[3] \in Word
  <2>1. /\ \h3c6e \in Limb /\ \hf372 \in Limb
        /\ \hfe94 \in Limb /\ \hf82b \in Limb
    BY SMT DEF Limb, Base
  <2> QED BY <2>1, WIsWord DEF IV
<1>4. IV[4] \in Word
  <2>1. /\ \ha54f \in Limb /\ \hf53a \in Limb
        /\ \h5f1d \in Limb /\ \h36f1 \in Limb
    BY SMT DEF Limb, Base
  <2> QED BY <2>1, WIsWord DEF IV
<1>5. IV[5] \in Word
  <2>1. /\ \h510e \in Limb /\ \h527f \in Limb
        /\ \hade6 \in Limb /\ \h82d1 \in Limb
    BY SMT DEF Limb, Base
  <2> QED BY <2>1, WIsWord DEF IV
<1>6. IV[6] \in Word
  <2>1. /\ \h9b05 \in Limb /\ \h688c \in Limb
        /\ \h2b3e \in Limb /\ \h6c1f \in Limb
    BY SMT DEF Limb, Base
  <2> QED BY <2>1, WIsWord DEF IV
<1>7. IV[7] \in Word
  <2>1. /\ \h1f83 \in Limb /\ \hd9ab \in Limb
        /\ \hfb41 \in Limb /\ \hbd6b \in Limb
    BY SMT DEF Limb, Base
  <2> QED BY <2>1, WIsWord DEF IV
<1>8. IV[8] \in Word
  <2>1. /\ \h5be0 \in Limb /\ \hcd19 \in Limb
        /\ \h137e \in Limb /\ \h2179 \in Limb
    BY SMT DEF Limb, Base
  <2> QED BY <2>1, WIsWord DEF IV
<1> QED BY <1>1, <1>2, <1>3, <1>4, <1>5, <1>6, <1>7, <1>8

LEMMA ChainIs ==
  /\ Chain0[1] = W(\h6a09, \he667, \hf2bd, \hc928)
  /\ Chain0[1] \in Word
  /\ \A k \in 2 .. 8 : Chain0[k] = IV[k]
<1>1. \A k \in 1 .. 8 : k \in DOMAIN IV
  BY DEF IV
<1>2. /\ Chain0[1] = BitXor(IV[1], W(0, 0, \h0101, \h0020))
      /\ \A k \in 2 .. 8 : Chain0[k] = IV[k]
  BY <1>1 DEF Chain0
<1>3. /\ \h0020 \in Limb /\ \h0101 \in Limb /\ \hc908 \in Limb
      /\ \hf3bc \in Limb
  BY SMT DEF Limb, Base
<1>4. /\ W(0, 0, \h0101, \h0020) \in Word
      /\ W(0, 0, \h0101, \h0020) = <<\h0020, \h0101, 0, 0>>
  BY <1>3, AndOfSomeLimbs, WIsWord
<1>5. IV[1] = <<\hc908, \hf3bc, \he667, \h6a09>> /\ IV[1] \in Word
  BY IVIsWords DEF IV, W
<1>6. /\ BitXor(IV[1], W(0, 0, \h0101, \h0020)) \in Word
      /\ BitXor(IV[1], W(0, 0, \h0101, \h0020)) =
           <<\hc908 + \h0020 - 2 * AndLimb(\hc908, \h0020),
             \hf3bc + \h0101 - 2 * AndLimb(\hf3bc, \h0101),
             \he667 + 0 - 2 * AndLimb(\he667, 0),
             \h6a09 + 0 - 2 * AndLimb(\h6a09, 0)>>
  BY <1>4, <1>5, XorOfWords
<1>7. AndLimb(\hc908, \h0020) = 0
  <2>1. /\ \hc908 \div 256 = 201 /\ \hc908 % 256 = 8
        /\ \h0020 \div 256 = 0 /\ \h0020 % 256 = 32
    BY SMT
  <2>2. AndLimb(\hc908, \h0020) = 256 * And(201, 0) + And(8, 32)
    BY <1>3, <2>1, AndByHalves
  <2>3. And(8, 32) = 0 /\ And(201, 0) = 0
    BY DEF And
  <2> QED BY <2>2, <2>3
<1>8. AndLimb(\hf3bc, \h0101) = 256
  <2>1. /\ \hf3bc \div 256 = 243 /\ \hf3bc % 256 = 188
        /\ \h0101 \div 256 = 1 /\ \h0101 % 256 = 1
    BY SMT
  <2>2. AndLimb(\hf3bc, \h0101) = 256 * And(243, 1) + And(188, 1)
    BY <1>3, <2>1, AndByHalves
  <2>3. And(243, 1) = 1 /\ And(188, 1) = 0
    BY DEF And
  <2> QED BY <2>2, <2>3
<1>9. AndLimb(\he667, 0) = 0 /\ AndLimb(\h6a09, 0) = 0
  BY <1>5, LimbsOfWord, AndOfSomeLimbs
<1>10. Chain0[1] = <<\hc928, \hf2bd, \he667, \h6a09>>
  <2>1. /\ \hc908 + \h0020 - 2 * 0 = \hc928 /\ \hf3bc + \h0101 - 2 * 256 = \hf2bd
        /\ \he667 + 0 - 2 * 0 = \he667 /\ \h6a09 + 0 - 2 * 0 = \h6a09
    BY SMT
  <2> QED BY <1>2, <1>6, <1>7, <1>8, <1>9, <2>1
<1> QED BY <1>2, <1>6, <1>10 DEF W

LEMMA NotOfIV ==
  BitXor(IV[7], Ones) = W(\he07c, \h2654, \h04be, \h4294)
<1>1. /\ IV[7] = <<\hbd6b, \hfb41, \hd9ab, \h1f83>> /\ IV[7] \in Word
  BY IVIsWords DEF IV, W
<1>2. /\ AndLimb(\hbd6b, 65535) = \hbd6b /\ AndLimb(\hfb41, 65535) = \hfb41
      /\ AndLimb(\hd9ab, 65535) = \hd9ab /\ AndLimb(\h1f83, 65535) = \h1f83
  BY <1>1, LimbsOfWord, AndOfSomeLimbs
<1>3. BitXor(IV[7], Ones) =
        <<\hbd6b + 65535 - 2 * \hbd6b, \hfb41 + 65535 - 2 * \hfb41,
          \hd9ab + 65535 - 2 * \hd9ab, \h1f83 + 65535 - 2 * \h1f83>>
  <2>1. BitXor(IV[7], Ones) =
             <<IV[7][1] + Ones[1] - 2 * AndLimb(IV[7][1], Ones[1]),
               IV[7][2] + Ones[2] - 2 * AndLimb(IV[7][2], Ones[2]),
               IV[7][3] + Ones[3] - 2 * AndLimb(IV[7][3], Ones[3]),
               IV[7][4] + Ones[4] - 2 * AndLimb(IV[7][4], Ones[4])>>
    <3>1. IV[7] \in Word
      BY <1>1
    <3> QED BY <3>1, SomeWords, XorOfWords, Zenon
  <2> QED BY ONLY <1>1, <1>2, <2>1, ZeroAndOnes
<1> QED BY <1>3, SMT DEF W

LEMMA StartIs ==
  /\ Start(Chain0, 80, TRUE) \in Vector
  /\ \A k \in 0 .. 15 :
       Start(Chain0, 80, TRUE)[k] =
         IF k = 12 THEN BitXor(IV[5], W(0, 0, 0, 80))
         ELSE IF k = 14 THEN BitXor(IV[7], Ones)
         ELSE IF k < 8 THEN Chain0[k + 1] ELSE IV[k - 7]
<1> DEFINE u == [k \in 0 .. 15 |-> IF k < 8 THEN Chain0[k + 1] ELSE IV[k - 7]]
           x == BitXor(IV[5], W(0, 0, 0, 80))
           y == BitXor(IV[7], Ones)
<1>1. Start(Chain0, 80, TRUE) =
        [u EXCEPT ![12] = BitXor(u[12], W(0, 0, 0, 80)),
                  ![14] = BitXor(u[14], Ones)]
  BY DEF Start
<1>2. u[12] = IV[5] /\ u[14] = IV[7]
  OBVIOUS
<1>3. u \in Vector
  BY ChainIs, IVIsWords DEF Vector
<1>4. x \in Word /\ y \in Word
  <2>1. IV[5] \in Word /\ IV[7] \in Word
    BY IVIsWords
  <2> QED BY <2>1, SomeWords, XorIsWord, Zenon
<1>5. \A k \in 0 .. 15 : u[k] = IF k < 8 THEN Chain0[k + 1] ELSE IV[k - 7]
  OBVIOUS
<1> HIDE DEF u
<1>6. Start(Chain0, 80, TRUE) = [u EXCEPT ![12] = x, ![14] = y]
  BY <1>1, <1>2
<1> HIDE DEF x, y
<1>7. /\ [u EXCEPT ![12] = x, ![14] = y] \in Vector
      /\ \A k \in 0 .. 15 : [u EXCEPT ![12] = x, ![14] = y][k] =
           IF k = 12 THEN x ELSE IF k = 14 THEN y ELSE u[k]
  BY <1>3, <1>4 DEF Vector
<1> DEFINE e == [u EXCEPT ![12] = x, ![14] = y]  start == Start(Chain0, 80, TRUE)
<1> HIDE DEF e, start
<1>8. start = e
  BY <1>6 DEF e, start
<1>9. ASSUME NEW k \in 0 .. 15
      PROVE  start[k] = IF k = 12 THEN x ELSE IF k = 14 THEN y
                        ELSE IF k < 8 THEN Chain0[k + 1] ELSE IV[k - 7]
  <2>1. e[k] = IF k = 12 THEN x ELSE IF k = 14 THEN y ELSE u[k]
    BY <1>7 DEF e
  <2>2. u[k] = IF k < 8 THEN Chain0[k + 1] ELSE IV[k - 7]
    BY <1>5
  <2> QED BY ONLY <1>8, <2>1, <2>2
<1> QED BY <1>6, <1>7, <1>9 DEF x, y, start

LEMMA StartIsLiteral ==
  /\ Start(Chain0, 80, TRUE) = Literal
  /\ Literal \in Vector
<1> DEFINE start == Start(Chain0, 80, TRUE)
<1>1. \A k \in 0 .. 15 : Literal[k] = Literals[k + 1]
  BY DEF Literal
<1>2. /\ Literals[1] = Chain0[1] /\ Literals[2] = IV[2] /\ Literals[3] = IV[3]
      /\ Literals[4] = IV[4] /\ Literals[5] = IV[5] /\ Literals[6] = IV[6]
      /\ Literals[7] = IV[7] /\ Literals[8] = IV[8] /\ Literals[9] = IV[1]
      /\ Literals[10] = IV[2] /\ Literals[11] = IV[3] /\ Literals[12] = IV[4]
      /\ Literals[13] = BitXor(IV[5], W(0, 0, 0, 80))
      /\ Literals[14] = IV[6] /\ Literals[15] = BitXor(IV[7], Ones)
      /\ Literals[16] = IV[8]
  <2>1. Literals[1] = Chain0[1]
    BY ChainIs DEF Literals
  <2>2. /\ Literals[2] = IV[2] /\ Literals[3] = IV[3] /\ Literals[4] = IV[4]
        /\ Literals[5] = IV[5] /\ Literals[6] = IV[6] /\ Literals[7] = IV[7]
        /\ Literals[8] = IV[8]
    BY DEF Literals, IV
  <2>3. /\ Literals[9] = IV[1] /\ Literals[10] = IV[2] /\ Literals[11] = IV[3]
        /\ Literals[12] = IV[4] /\ Literals[14] = IV[6] /\ Literals[16] = IV[8]
        /\ Literals[13] = BitXor(IV[5], W(0, 0, 0, 80))
    BY DEF Literals, IV
  <2>4. Literals[15] = BitXor(IV[7], Ones)
    BY NotOfIV DEF Literals
  <2> QED BY <2>1, <2>2, <2>3, <2>4
<1>3. Literal \in Vector
  <2>1. /\ BitXor(IV[5], W(0, 0, 0, 80)) \in Word
        /\ BitXor(IV[7], Ones) \in Word
    <3>1. IV[5] \in Word /\ IV[7] \in Word
      BY IVIsWords
    <3> QED BY <3>1, SomeWords, XorIsWord, Zenon
  <2>2. \A k \in 0 .. 15 : Literals[k + 1] \in Word
    BY <1>2, <2>1, ChainIs, IVIsWords
  <2> QED BY <2>2 DEF Literal, Vector
<1>4. ASSUME NEW k \in 0 .. 15
      PROVE  start[k] = Literals[k + 1]
  <2>1. start[k] =
          IF k = 12 THEN BitXor(IV[5], W(0, 0, 0, 80))
          ELSE IF k = 14 THEN BitXor(IV[7], Ones)
          ELSE IF k < 8 THEN Chain0[k + 1] ELSE IV[k - 7]
    BY StartIs
  <2> HIDE DEF start
  <2>2. CASE k < 8
    <3>1. \A j \in 1 .. 8 : Literals[j] = Chain0[j]
      BY ONLY <1>2, ChainIs
    <3> QED BY <2>1, <2>2, <3>1
  <2>3. CASE k >= 8 /\ k # 12 /\ k # 14
    <3>1. \A j \in {1, 2, 3, 4, 6, 8} : Literals[j + 8] = IV[j]
      BY ONLY <1>2
    <3>2. k - 7 \in {1, 2, 3, 4, 6, 8} /\ (k - 7) + 8 = k + 1
      BY <2>3
    <3> QED BY ONLY <2>1, <2>3, <3>1, <3>2
  <2>4. CASE k = 12 \/ k = 14
    BY ONLY <1>2, <2>1, <2>4
  <2> QED BY <2>2, <2>3, <2>4
<1>5. start \in Vector
  BY StartIs
<1> HIDE DEF start
<1>6. \A k \in 0 .. 15 : start[k] = Literal[k]
  BY <1>1, <1>4
<1>7. start = Literal
  BY ONLY <1>3, <1>5, <1>6 DEF Vector
<1> QED BY <1>3, <1>7 DEF start

(* Bytes and words.                                                        *)
LEMMA FromBytesIs ==
  ASSUME NEW b, \A i \in 1 .. 8 : b[i] \in Bytes
  PROVE  /\ FromBytes(b) \in Word
         /\ FromBytes(b) = <<b[1] + 256 * b[2], b[3] + 256 * b[4],
                             b[5] + 256 * b[6], b[7] + 256 * b[8]>>
<1>1. Len(Zero) = 4
  BY ZeroAndOnes
<1>2. FromBytes(b) =
        <<b[2 * 1 - 1] + 256 * b[2 * 1], b[2 * 2 - 1] + 256 * b[2 * 2],
          b[2 * 3 - 1] + 256 * b[2 * 3], b[2 * 4 - 1] + 256 * b[2 * 4]>>
  BY <1>1 DEF FromBytes, Limbs
<1>3. /\ b[2 * 1 - 1] + 256 * b[2 * 1] = b[1] + 256 * b[2]
      /\ b[2 * 2 - 1] + 256 * b[2 * 2] = b[3] + 256 * b[4]
      /\ b[2 * 3 - 1] + 256 * b[2 * 3] = b[5] + 256 * b[6]
      /\ b[2 * 4 - 1] + 256 * b[2 * 4] = b[7] + 256 * b[8]
  OBVIOUS
<1>4. FromBytes(b) = <<b[1] + 256 * b[2], b[3] + 256 * b[4],
                       b[5] + 256 * b[6], b[7] + 256 * b[8]>>
  BY ONLY <1>2, <1>3, SMT
<1>5. ASSUME NEW c \in Bytes, NEW d \in Bytes
      PROVE  c + 256 * d \in Limb
  <2>1. c + 256 * d \in Int /\ 0 <= c + 256 * d /\ c + 256 * d < 65536
    BY SMT DEF Bytes
  <2> QED BY <2>1, RangeOfLimb
<1>6. <<b[1] + 256 * b[2], b[3] + 256 * b[4],
        b[5] + 256 * b[6], b[7] + 256 * b[8]>> \in Word
  <2>1. /\ b[1] \in Bytes /\ b[2] \in Bytes /\ b[3] \in Bytes
        /\ b[4] \in Bytes /\ b[5] \in Bytes /\ b[6] \in Bytes
        /\ b[7] \in Bytes /\ b[8] \in Bytes
    OBVIOUS
  <2>2. /\ b[1] + 256 * b[2] \in Limb /\ b[3] + 256 * b[4] \in Limb
        /\ b[5] + 256 * b[6] \in Limb /\ b[7] + 256 * b[8] \in Limb
    BY ONLY <1>5, <2>1
  <2> QED BY ONLY <2>2, WordOfLimbs
<1> QED BY ONLY <1>4, <1>6

LEMMA ToBytesIs ==
  ASSUME NEW x \in Word
  PROVE  /\ \A i \in 1 .. 8 : ToBytes(x)[i] \in Bytes
         /\ FromBytes(ToBytes(x)) = x
<1>1. /\ x = <<x[1], x[2], x[3], x[4]>>
      /\ x[1] \in Limb /\ x[2] \in Limb /\ x[3] \in Limb /\ x[4] \in Limb
  BY LimbsOfWord
<1>2. /\ ToBytes(x)[1] = x[1] % 256 /\ ToBytes(x)[2] = x[1] \div 256
      /\ ToBytes(x)[3] = x[2] % 256 /\ ToBytes(x)[4] = x[2] \div 256
      /\ ToBytes(x)[5] = x[3] % 256 /\ ToBytes(x)[6] = x[3] \div 256
      /\ ToBytes(x)[7] = x[4] % 256 /\ ToBytes(x)[8] = x[4] \div 256
  BY BytesOfWord DEF ToBytes
<1>3. \A a \in Limb : /\ a % 256 \in Bytes /\ a \div 256 \in Bytes
                      /\ (a % 256) + 256 * (a \div 256) = a
  <2> TAKE a \in Limb
  <2>1. a % 256 \in Bytes /\ a \div 256 \in Bytes
    BY HalvesOfLimb
  <2>2. a \in Int
    BY RangeOfLimb
  <2>3. (a % 256) + 256 * (a \div 256) = a
    BY ONLY <2>2, SMT
  <2> QED BY <2>1, <2>3
<1>4. \A i \in 1 .. 8 : ToBytes(x)[i] \in Bytes
  BY ONLY <1>1, <1>2, <1>3
<1>5. FromBytes(ToBytes(x)) =
        <<(x[1] % 256) + 256 * (x[1] \div 256),
          (x[2] % 256) + 256 * (x[2] \div 256),
          (x[3] % 256) + 256 * (x[3] \div 256),
          (x[4] % 256) + 256 * (x[4] \div 256)>>
  BY <1>2, <1>4, FromBytesIs
<1>6. @ = <<x[1], x[2], x[3], x[4]>>
  BY <1>1, <1>3
<1> QED BY <1>1, <1>4, <1>5, <1>6

(* The block of a header with its nonce: bytes 32 to 39 (from 0) are the   *)
(* nonce's, those behind the header 0.                                     *)
Header == [1 .. HeaderSize -> Bytes]

LEMMA LenOfHeader ==
  ASSUME NEW b \in Header
  PROVE  Len(b) = 80
<1>1. b \in Seq(Bytes)
  BY SeqDef DEF Header, HeaderSize
<1>2. Len(b) \in Nat /\ b \in [1 .. Len(b) -> Bytes]
  BY <1>1, LenProperties
<1>3. b \in [1 .. 80 -> Bytes]
  BY DEF Header, HeaderSize
<1>4. 1 .. Len(b) = 1 .. 80
  BY ONLY <1>2, <1>3
<1> QED BY ONLY <1>2, <1>4

LEMMA StampedIsHeader ==
  ASSUME NEW header \in Header, NEW nonce \in Word
  PROVE  /\ Stamped(header, nonce) \in Header
         /\ \A i \in 1 .. 80 :
              Stamped(header, nonce)[i] =
                IF i \in 33 .. 40 THEN ToBytes(nonce)[i - 32] ELSE header[i]
<1>1. ASSUME NEW i \in 1 .. 80
      PROVE  (IF i \in 33 .. 40 THEN ToBytes(nonce)[i - 32] ELSE header[i])
               \in Bytes
  <2>1. CASE i \in 33 .. 40
    <3>1. i - 32 \in 1 .. 8
      BY <2>1
    <3> QED BY <2>1, <3>1, ToBytesIs
  <2>2. CASE i \notin 33 .. 40
    BY <2>2 DEF Header, HeaderSize
  <2> QED BY <2>1, <2>2
<1> QED BY <1>1 DEF Stamped, Header, HeaderSize

LEMMA PaddedHeader ==
  ASSUME NEW b \in Header, NEW j \in 1 .. 128
  PROVE  /\ Padded(b, 0)[j] = IF j <= 80 THEN b[j] ELSE 0
         /\ Padded(b, 0)[j] \in Bytes
<1>1. Padded(b, 0)[j] = IF j <= 80 THEN b[j] ELSE 0
  <2>1. Padded(b, 0)[j] = IF 0 + j <= Len(b) THEN b[0 + j] ELSE 0
    BY Zenon DEF Padded, BlockSize
  <2>2. Len(b) = 80 /\ 0 + j = j
    BY LenOfHeader
  <2> QED BY <2>1, <2>2
<1>2. j <= 80 => b[j] \in Bytes
  BY DEF Header, HeaderSize
<1> QED BY <1>1, <1>2, AndOfSome

LEMMA MessageWordIs ==
  ASSUME NEW b \in Header, NEW k \in 0 .. 15
  PROVE  LET bytes == [i \in 1 .. 8 |-> Padded(b, 0)[8 * k + i]]
         IN  /\ MessageWords(Padded(b, 0))[k] = FromBytes(bytes)
             /\ MessageWords(Padded(b, 0))[k] \in Word
<1> DEFINE bytes == [i \in 1 .. 8 |-> Padded(b, 0)[8 * k + i]]
<1>1. MessageWords(Padded(b, 0))[k] = FromBytes(bytes)
  BY DEF MessageWords
<1>2. ASSUME NEW i \in 1 .. 8
      PROVE  bytes[i] \in Bytes
  <2>1. 8 * k + i \in 1 .. 128
    OBVIOUS
  <2> QED BY <2>1, PaddedHeader
<1> HIDE DEF bytes
<1>3. FromBytes(bytes) \in Word
  BY <1>2, FromBytesIs
<1> QED BY <1>1, <1>3 DEF bytes

(* The message of the kernels agrees with the words of the stamped header. *)
LEMMA MessageAgrees ==
  ASSUME NEW header \in Header, NEW nonce \in Word
  PROVE  LET words == MessageWords(Padded(header, 0))
             t == MessageWords(Padded(Stamped(header, nonce), 0))
         IN  /\ Agrees(Message(words, nonce), t)
             /\ \A k \in {0, 1, 2, 3, 6, 7} : words[k] = t[k]
<1> DEFINE stamped == Stamped(header, nonce)
           words == MessageWords(Padded(header, 0))
           t == MessageWords(Padded(stamped, 0))
           bytes(k) == [i \in 1 .. 8 |-> Padded(stamped, 0)[8 * k + i]]
           plain(k) == [i \in 1 .. 8 |-> Padded(header, 0)[8 * k + i]]
<1>1. /\ stamped \in Header
      /\ \A i \in 1 .. 80 : stamped[i] =
           IF i \in 33 .. 40 THEN ToBytes(nonce)[i - 32] ELSE header[i]
  BY StampedIsHeader
<1> HIDE DEF stamped
<1>2. ASSUME NEW k \in 0 .. 15
      PROVE  /\ t[k] = FromBytes(bytes(k)) /\ t[k] \in Word
             /\ words[k] = FromBytes(plain(k)) /\ words[k] \in Word
  BY <1>1, MessageWordIs
<1>3. ASSUME NEW k \in 0 .. 15, k # 4
      PROVE  t[k] = words[k]
  <2>1. ASSUME NEW i \in 1 .. 8
        PROVE  Padded(stamped, 0)[8 * k + i] = Padded(header, 0)[8 * k + i]
    <3> DEFINE j == 8 * k + i
    <3>1. j \in 1 .. 128 /\ j \notin 33 .. 40
      BY <1>3
    <3> HIDE DEF j
    <3>2. /\ Padded(stamped, 0)[j] = IF j <= 80 THEN stamped[j] ELSE 0
          /\ Padded(header, 0)[j] = IF j <= 80 THEN header[j] ELSE 0
      BY ONLY <1>1, <3>1, PaddedHeader
    <3>3. j <= 80 => stamped[j] = header[j]
      <4>1. j <= 80 => j \in 1 .. 80
        BY <3>1
      <4> QED BY <1>1, <3>1, <4>1, Zenon
    <3>4. Padded(stamped, 0)[j] = Padded(header, 0)[j]
      BY <3>2, <3>3
    <3> QED BY <3>4 DEF j
  <2>2. bytes(k) = plain(k)
    BY <2>1, Zenon
  <2> QED BY <1>2, <2>2, Zenon
<1>4. t[4] = nonce
  <2>1. ASSUME NEW i \in 1 .. 8
        PROVE  Padded(stamped, 0)[8 * 4 + i] = ToBytes(nonce)[i]
    <3>1. 8 * 4 + i \in 1 .. 128 /\ 8 * 4 + i \in 33 .. 40 /\ 8 * 4 + i \in 1 .. 80
          /\ (8 * 4 + i) - 32 = i /\ 8 * 4 + i <= 80
      OBVIOUS
    <3> DEFINE j == 8 * 4 + i
    <3> HIDE DEF j
    <3>2. stamped[j] = ToBytes(nonce)[i]
      BY <1>1, <3>1, Zenon DEF j
    <3>3. Padded(stamped, 0)[j] = stamped[j]
      BY <1>1, <3>1, PaddedHeader DEF j
    <3> QED BY <3>2, <3>3 DEF j
  <2>2. bytes(4) = [i \in 1 .. 8 |-> ToBytes(nonce)[i]]
    BY <2>1, Zenon
  <2>3. [i \in 1 .. 8 |-> ToBytes(nonce)[i]] = ToBytes(nonce)
    BY DEF ToBytes
  <2>4. t[4] = FromBytes(bytes(4))
    BY <1>2
  <2> QED BY <2>2, <2>3, <2>4, ToBytesIs, Zenon
<1>5. ASSUME NEW k \in 0 .. 15, k >= 10
      PROVE  t[k] = Zero
  <2>1. ASSUME NEW i \in 1 .. 8
        PROVE  Padded(stamped, 0)[8 * k + i] = 0
    <3>1. 8 * k + i \in 1 .. 128 /\ ~ (8 * k + i <= 80)
      BY <1>5
    <3> QED BY <1>1, <3>1, PaddedHeader
  <2>2. \A i \in 1 .. 8 : bytes(k)[i] = 0
    BY <2>1
  <2>3. t[k] = FromBytes(bytes(k))
    BY <1>2
  <2> DEFINE b == bytes(k)
  <2> HIDE DEF bytes, b
  <2>4. FromBytes(b) = <<0, 0, 0, 0>>
    <3>1. \A i \in 1 .. 8 : b[i] \in Bytes /\ b[i] = 0
      BY <2>2, AndOfSome DEF b
    <3>2. FromBytes(b) = <<0 + 256 * 0, 0 + 256 * 0, 0 + 256 * 0, 0 + 256 * 0>>
      BY <3>1, FromBytesIs
    <3> QED BY <3>2
  <2> QED BY <2>3, <2>4, ZeroAndOnes DEF b
<1> HIDE DEF t, words
<1>6. Agrees(Message(words, nonce), t)
  <2>1. Message(words, nonce)[z] = Zero
    BY DEF Message, z, NonceWord
  <2>2. ASSUME NEW k \in 0 .. 15
        PROVE  Message(words, nonce)[k] = t[k]
    <3>1. Message(words, nonce)[k] = IF k = 4 THEN nonce ELSE words[k]
      BY DEF Message, z, NonceWord
    <3> QED BY <1>3, <1>4, <3>1
  <2> QED BY <1>2, <1>5, <2>1, <2>2 DEF Agrees
<1>7. \A k \in {0, 1, 2, 3, 6, 7} : words[k] = t[k]
  BY <1>3
<1> QED BY <1>6, <1>7 DEF t, words, stamped

(* Every kernel rotates in one of the ways and reads one of the tables;    *)
(* one that precomputes reads Scalar.                                      *)
LEMMA KernelsAre ==
  ASSUME NEW k \in Cpu \cup Gpu
  PROVE  /\ k.rotr \in Ways /\ k.rows \in Tables
         /\ k.start \in {"derived", "literal", "precomputed"}
         /\ k.start = "precomputed" => k.rows = Scalar
<1>1. CASE k \in Cpu
  BY <1>1 DEF Cpu, Hash4, NeonHash4, NeonMask, Variant, Ways, Tables
<1>2. CASE k \in Fields(OpenCl)
  BY <1>2 DEF Fields, OpenCl, Variant, Ways, Tables
<1>3. CASE k \in Fields(Metal)
  BY <1>3 DEF Fields, Metal, Variant, Ways, Tables
<1>4. CASE k \in Fields(Cuda)
  BY <1>4 DEF Fields, Cuda, Variant, Ways, Tables
<1> QED BY <1>1, <1>2, <1>3, <1>4 DEF Gpu

LEMMA NonceIsWord ==
  ASSUME NEW first \in Word, NEW lane \in Lanes
  PROVE  NonceOf(first, lane) \in Word
<1>1. lane \in Limb
  BY HashingAssumption DEF Limb
<1>2. W(0, 0, 0, lane) \in Word
  BY <1>1, AndOfSomeLimbs, WIsWord
<1> QED BY <1>2, SumOfWords DEF NonceOf
----------------------------------------------------------------------------
(* The invariant: at a header with its nonce, a kernel's message is that   *)
(* of the header, its vector blake2b256's after the same rounds, and the   *)
(* chaining value that of one block's compression.                         *)
Words(header) == MessageWords(Padded(header, 0))

Loaded(words) ==
  /\ offset = 0 /\ round = Rounds /\ last = FALSE /\ h = Chain0
  /\ w = KernelStart(kernel, words)

Compressing(words) ==
  /\ offset = 128 /\ last = TRUE /\ round \in 0 .. Rounds
  /\ m = MessageWords(Padded(input, 0))
  /\ v \in Vector
  /\ round = 0 => v = Literal
  /\ w = IF round = 0 THEN KernelStart(kernel, words) ELSE v
  /\ h = IF round = Rounds THEN Finish(Chain0, v) ELSE Chain0

InStep ==
  kernel # None =>
    \E header \in Headers, first \in FirstNonces, lane \in Lanes :
      /\ kernel \in Cpu \cup Gpu
      /\ input = Stamped(header, NonceOf(first, lane))
      /\ message = Message(Words(header), NonceOf(first, lane))
      /\ Loaded(Words(header)) \/ Compressing(Words(header))

LEMMA InitInStep == Init => InStep
<1> SUFFICES ASSUME Init, kernel # None
             PROVE  InStep
  BY DEF InStep
<1>1. PICK header \in Headers, first \in FirstNonces, lane \in Lanes :
        /\ input = Stamped(header, NonceOf(first, lane))
        /\ kernel \in Cpu \cup Gpu
        /\ message = Message(Words(header), NonceOf(first, lane))
        /\ w = KernelStart(kernel, Words(header))
  BY DEF Init, Words
<1>2. offset = 0 /\ round = Rounds /\ last = FALSE /\ h = Chain0
  BY DEF Init
<1> QED BY <1>1, <1>2 DEF InStep, Loaded

(* The first round of every kernel, and each of the others.                *)
LEMMA KernelStartIs ==
  ASSUME NEW k \in Cpu \cup Gpu, NEW words, k.start # "precomputed"
  PROVE  KernelStart(k, words) = Literal
BY KernelsAre, StartIsLiteral DEF KernelStart

LEMMA FirstRound ==
  ASSUME NEW k \in Cpu \cup Gpu, NEW header \in Header, NEW nonce \in Word
  PROVE  KernelRound(k, KernelStart(k, Words(header)),
                     Message(Words(header), nonce), 1)
           = Round("rotate", Literal, Words(Stamped(header, nonce)), SIGMA[1])
<1> DEFINE s == Message(Words(header), nonce)
           t == Words(Stamped(header, nonce))
           words == Words(header)
<1>1. Agrees(s, t) /\ \A i \in {0, 1, 2, 3, 6, 7} : words[i] = t[i]
  BY MessageAgrees DEF Words
<1>2. k.rotr \in Ways /\ k.rows \in Tables /\ Literal \in Vector
  BY KernelsAre, StartIsLiteral
<1> HIDE DEF s, t, words
<1>3. CASE k.start = "precomputed"
  <2>1. KernelStart(k, words) = PrecomputeRoundZero(words)
    BY <1>3 DEF KernelStart
  <2>2. KernelRound(k, PrecomputeRoundZero(words), s, 1)
          = FinishRoundZero(k.rotr, PrecomputeRoundZero(words), s, Scalar[1])
    BY <1>3, KernelsAre DEF KernelRound
  <2>3. @ = Round("rotate", Literal, t, SIGMA[1])
    BY <1>1, <1>2, RoundInTwo
  <2> QED BY <2>1, <2>2, <2>3 DEF s, t, words
<1>4. CASE k.start # "precomputed"
  <2>1. KernelStart(k, words) = Literal
    BY <1>4, KernelStartIs
  <2>2. KernelRound(k, Literal, s, 1) = Round(k.rotr, Literal, s, k.rows[1])
    BY <1>4 DEF KernelRound
  <2>3. 1 \in TableRows
    BY DEF TableRows
  <2>4. Round(k.rotr, Literal, s, k.rows[1]) = Round("rotate", Literal, t, SIGMA[1])
    BY <1>1, <1>2, <2>3, RoundOneWay
  <2> QED BY <2>1, <2>2, <2>4 DEF s, t, words
<1> QED BY <1>3, <1>4

LEMMA LaterRound ==
  ASSUME NEW k \in Cpu \cup Gpu, NEW header \in Header, NEW nonce \in Word,
         NEW u \in Vector, NEW r \in TableRows, r # 1
  PROVE  KernelRound(k, u, Message(Words(header), nonce), r)
           = Round("rotate", u, Words(Stamped(header, nonce)), SIGMA[r])
<1>1. Agrees(Message(Words(header), nonce), Words(Stamped(header, nonce)))
  BY MessageAgrees DEF Words
<1>2. k.rotr \in Ways /\ k.rows \in Tables
  BY KernelsAre
<1> QED BY <1>1, <1>2, RoundOneWay DEF KernelRound

LEMMA HashRound ==
  ASSUME NEW header \in Header, NEW nonce \in Word, NEW u \in Vector,
         NEW r \in TableRows
  PROVE  Round("rotate", u, Words(Stamped(header, nonce)), SIGMA[r]) \in Vector
<1>1. Agrees(Message(Words(header), nonce), Words(Stamped(header, nonce)))
  BY MessageAgrees DEF Words
<1>2. SIGMA \in Tables /\ "rotate" \in Ways
  BY DEF Tables, Ways
<1> DEFINE s == Message(Words(header), nonce)
           t == Words(Stamped(header, nonce))
<1> HIDE DEF s, t
<1>3. Agrees(s, t)
  BY <1>1 DEF s, t
<1>4. /\ Round("rotate", u, s, SIGMA[r]) \in Vector
      /\ Round("rotate", u, s, SIGMA[r]) = Round("rotate", u, t, SIGMA[r])
  BY <1>2, <1>3, RoundOneWay
<1> QED BY <1>4 DEF t

LEMMA StartInStep ==
  ASSUME InStep, NextBlock
  PROVE  InStep'
<1> SUFFICES ASSUME kernel # None
             PROVE  InStep'
  BY DEF InStep, NextBlock
<1>1. PICK header \in Headers, first \in FirstNonces, lane \in Lanes :
        /\ kernel \in Cpu \cup Gpu
        /\ input = Stamped(header, NonceOf(first, lane))
        /\ message = Message(Words(header), NonceOf(first, lane))
        /\ Loaded(Words(header)) \/ Compressing(Words(header))
  BY DEF InStep
<1>2. header \in Header /\ NonceOf(first, lane) \in Word
  BY HashingAssumption, NonceIsWord DEF Header
<1>3. Len(input) = 80
  BY <1>1, <1>2, StampedIsHeader, LenOfHeader
<1>4. Loaded(Words(header))
  BY <1>1 DEF NextBlock, Compressing
<1>5. IsLast
  BY <1>3, <1>4 DEF IsLast, Loaded, BlockSize
<1>6. /\ last' = TRUE /\ offset' = 128 /\ round' = 0
      /\ m' = MessageWords(Padded(input, 0))
      /\ UNCHANGED <<input, h, kernel, message, w>>
  BY <1>4, <1>5 DEF NextBlock, Loaded, BlockSize
<1>7. v' = Literal
  <2>1. h = Chain0
    BY <1>4 DEF Loaded
  <2>2. v' = Start(h, IF IsLast THEN Len(input) ELSE offset + BlockSize, IsLast)
    BY DEF NextBlock
  <2>3. @ = Start(Chain0, 80, TRUE)
    BY <1>3, <1>5, <2>1 DEF Start
  <2> QED BY <2>2, <2>3, StartIsLiteral
<1>8. Compressing(Words(header))'
  BY <1>4, <1>6, <1>7, StartIsLiteral DEF Compressing, Loaded, Rounds, Words
<1> QED BY <1>1, <1>6, <1>8 DEF InStep

LEMMA RoundInStep ==
  ASSUME InStep, NextRound
  PROVE  InStep'
<1> SUFFICES ASSUME kernel # None
             PROVE  InStep'
  BY DEF InStep, NextRound
<1>1. PICK header \in Headers, first \in FirstNonces, lane \in Lanes :
        /\ kernel \in Cpu \cup Gpu
        /\ input = Stamped(header, NonceOf(first, lane))
        /\ message = Message(Words(header), NonceOf(first, lane))
        /\ Loaded(Words(header)) \/ Compressing(Words(header))
  BY DEF InStep
<1> DEFINE words == Words(header)
           nonce == NonceOf(first, lane)
<1>2. header \in Header /\ nonce \in Word
  BY HashingAssumption, NonceIsWord DEF Header
<1>3. Compressing(words)
  BY <1>1 DEF NextRound, Loaded, Rounds
<1>4. /\ round' = round + 1 /\ round' \in TableRows
      /\ m = Words(Stamped(header, nonce)) /\ h = Chain0
      /\ v' = Round("rotate", v, m, SIGMA[round'])
      /\ h' = IF round' = Rounds THEN Finish(h, v') ELSE h
      /\ w' = KernelRound(kernel, w, message, round')
      /\ UNCHANGED <<input, offset, m, last, kernel, message>>
  BY <1>1, <1>3 DEF NextRound, Compressing, TableRows, Rounds, Words
<1>5. v \in Vector /\ v' \in Vector
  BY <1>2, <1>3, <1>4, HashRound DEF Compressing
<1>6. w' = v'
  <2>1. CASE round = 0
    <3>1. v = Literal /\ w = KernelStart(kernel, words) /\ round' = 1
      BY <1>3, <1>4, <2>1 DEF Compressing
    <3> QED BY <1>1, <1>2, <1>4, <3>1, FirstRound
  <2>2. CASE round # 0
    <3>1. w = v /\ round' # 1
      BY <1>3, <1>4, <2>2 DEF Compressing
    <3> QED BY <1>1, <1>2, <1>4, <1>5, <3>1, LaterRound
  <2> QED BY <2>1, <2>2
<1>7. Compressing(words)'
  BY <1>3, <1>4, <1>5, <1>6 DEF Compressing, TableRows, Rounds
<1> QED BY <1>1, <1>4, <1>7 DEF InStep

(* InStep is inductive: blake2b256 and a kernel, at each of compress's     *)
(* rounds and between them, hold the same words and vectors.               *)
THEOREM KernelsInStep == Spec => []InStep
<1>1. Init => InStep
  BY InitInStep
<1>2. InStep /\ [Next]_vars => InStep'
  <2> SUFFICES ASSUME InStep, [Next]_vars
               PROVE  InStep'
    OBVIOUS
  <2>1. CASE NextBlock
    BY <2>1, StartInStep
  <2>2. CASE NextRound
    BY <2>2, RoundInStep
  <2>3. CASE Terminated \/ UNCHANGED vars
    BY <2>3 DEF InStep, Loaded, Compressing, Terminated, vars
  <2> QED BY <2>1, <2>2, <2>3 DEF Next
<1> QED BY <1>1, <1>2, PTL DEF Spec

(* RoundsAgree, at Hashing's rounds: for every header and nonce, every     *)
(* kernel of hash.rs, OpenCL, Metal and CUDA works on blake2b256's vector. *)
THEOREM RoundsAlwaysAgree == Spec => []RoundsAgree
<1>1. InStep => RoundsAgree
  BY KernelStartIs DEF InStep, RoundsAgree, Loaded, Compressing, BlockSize
<1> QED BY <1>1, KernelsInStep, PTL
----------------------------------------------------------------------------
(* Reversing the bytes of a word, by masks and shifts or one by one.       *)
Turned(a) == (a % 256) * 256 + (a \div 256)

LEMMA TurnedIsLimb ==
  ASSUME NEW a \in Limb
  PROVE  /\ Turned(a) \in Limb /\ (a % 256) * 256 \in Limb
         /\ a \div 256 \in Limb
         /\ (a % 256) * 256 + (a \div 256)
              - AndLimb((a % 256) * 256, a \div 256) = Turned(a)
<1>1. a \in Int /\ 0 <= a /\ a < 65536
  BY RangeOfLimb
<1>2. /\ Turned(a) \in Int /\ 0 <= Turned(a) /\ Turned(a) < 65536
      /\ (a % 256) * 256 \in Int /\ 0 <= (a % 256) * 256
      /\ (a % 256) * 256 < 65536
      /\ a \div 256 \in Int /\ 0 <= a \div 256 /\ a \div 256 < 65536
  BY ONLY <1>1, SMT DEF Turned
<1>3. AndLimb((a % 256) * 256, a \div 256) = 0
  BY HalvesOfLimb, AndOfSomeLimbs
<1>4. (a % 256) * 256 + (a \div 256) - 0 = Turned(a)
  BY <1>2 DEF Turned
<1> QED BY <1>2, <1>3, <1>4, RangeOfLimb

LEMMA AndOfWords ==
  ASSUME NEW a, NEW b, NEW c, NEW d, NEW e, NEW f, NEW g, NEW i
  PROVE  BitAnd(<<a, b, c, d>>, <<e, f, g, i>>) =
           <<AndLimb(a, e), AndLimb(b, f), AndLimb(c, g), AndLimb(d, i)>>
BY DEF BitAnd, Limbs

LEMMA OrOfWords ==
  ASSUME NEW a, NEW b, NEW c, NEW d, NEW e, NEW f, NEW g, NEW i
  PROVE  BitOr(<<a, b, c, d>>, <<e, f, g, i>>) =
           <<a + e - AndLimb(a, e), b + f - AndLimb(b, f),
             c + g - AndLimb(c, g), d + i - AndLimb(d, i)>>
BY DEF BitOr, Limbs

LEMMA ShiftsBy8 ==
  ASSUME NEW a \in Limb, NEW b \in Limb, NEW c \in Limb, NEW d \in Limb
  PROVE  /\ ShiftLeft(<<a % 256, b % 256, c % 256, d % 256>>, 8) =
              <<(a % 256) * 256, (b % 256) * 256,
                (c % 256) * 256, (d % 256) * 256>>
         /\ BitAnd(ShiftRight(<<a, b, c, d>>, 8), <<255, 255, 255, 255>>) =
              <<a \div 256, b \div 256, c \div 256, d \div 256>>
<1>1. ShiftLeft(<<a % 256, b % 256, c % 256, d % 256>>, 8) =
        <<(a % 256) * 256, (b % 256) * 256, (c % 256) * 256, (d % 256) * 256>>
  <2> DEFINE x == <<a % 256, b % 256, c % 256, d % 256>>
  <2>1. /\ LimbAt(x, 1) = a % 256 /\ LimbAt(x, 2) = b % 256
        /\ LimbAt(x, 3) = c % 256 /\ LimbAt(x, 4) = d % 256
        /\ LimbAt(x, 0) = 0 /\ Len(x) = 4
    BY DEF LimbAt
  <2> HIDE DEF x
  <2>2. ShiftLeft(x, 8) =
          <<(LimbAt(x, 1) % 256) * 256 + LimbAt(x, 0) \div 256,
            (LimbAt(x, 2) % 256) * 256 + LimbAt(x, 1) \div 256,
            (LimbAt(x, 3) % 256) * 256 + LimbAt(x, 2) \div 256,
            (LimbAt(x, 4) % 256) * 256 + LimbAt(x, 3) \div 256>>
    BY <2>1, Powers, MorePowers, SMT DEF ShiftLeft, Limbs
  <2>3. \A e \in Limb : /\ (e % 256) % 256 = e % 256 /\ (e % 256) \div 256 = 0
                        /\ (e % 256) * 256 \in Int
    <3> TAKE e \in Limb
    <3>1. e \in Int
      BY RangeOfLimb
    <3> QED BY ONLY <3>1, SMT
  <2>4. 0 \div 256 = 0
    BY SMT
  <2>5. \A e \in Int : e + 0 = e
    OBVIOUS
  <2>6. ShiftLeft(x, 8) =
          <<(a % 256) * 256 + 0, (b % 256) * 256 + 0,
            (c % 256) * 256 + 0, (d % 256) * 256 + 0>>
    BY ONLY <2>1, <2>2, <2>3, <2>4
  <2> QED BY <2>3, <2>5, <2>6 DEF x
<1>2. BitAnd(ShiftRight(<<a, b, c, d>>, 8), <<255, 255, 255, 255>>) =
        <<a \div 256, b \div 256, c \div 256, d \div 256>>
  <2> DEFINE x == <<a, b, c, d>>
             p(e, f) == e \div 256 + (f % 256) * 256
  <2>1. /\ LimbAt(x, 1) = a /\ LimbAt(x, 2) = b
        /\ LimbAt(x, 3) = c /\ LimbAt(x, 4) = d
        /\ LimbAt(x, 5) = 0 /\ Len(x) = 4
    BY DEF LimbAt
  <2> HIDE DEF x
  <2>2. ShiftRight(x, 8) =
          <<LimbAt(x, 1) \div 256 + (LimbAt(x, 2) % 256) * 256,
            LimbAt(x, 2) \div 256 + (LimbAt(x, 3) % 256) * 256,
            LimbAt(x, 3) \div 256 + (LimbAt(x, 4) % 256) * 256,
            LimbAt(x, 4) \div 256 + (LimbAt(x, 5) % 256) * 256>>
    BY <2>1, Powers, MorePowers, SMT DEF ShiftRight, Limbs
  <2>3. ASSUME NEW e \in Limb, NEW f \in Limb
        PROVE  AndLimb(e \div 256 + (f % 256) * 256, 255) = e \div 256
    <3> DEFINE g == e \div 256 + (f % 256) * 256
    <3>1. /\ e \in Int /\ 0 <= e /\ e < 65536
          /\ f \in Int /\ 0 <= f /\ f < 65536
      BY RangeOfLimb
    <3>2. g \in Int /\ 0 <= g /\ g < 65536 /\ g % 256 = e \div 256
      BY ONLY <3>1, SMT
    <3> HIDE DEF g
    <3>3. AndLimb(g, 255) = g % 256
      BY <3>2, RangeOfLimb, AndOfSomeLimbs
    <3> QED BY <3>2, <3>3 DEF g
  <2>4. BitAnd(ShiftRight(x, 8), <<255, 255, 255, 255>>) =
          <<AndLimb(a \div 256 + (b % 256) * 256, 255),
            AndLimb(b \div 256 + (c % 256) * 256, 255),
            AndLimb(c \div 256 + (d % 256) * 256, 255),
            AndLimb(d \div 256 + (0 % 256) * 256, 255)>>
    BY ONLY <2>1, <2>2, AndOfWords
  <2> QED BY <2>3, <2>4, AndOfSomeLimbs DEF x
<1> QED BY <1>1, <1>2

LEMMA MaskedSwap ==
  ASSUME NEW x \in Word
  PROVE  SwapMasked(x) = <<Turned(x[4]), Turned(x[3]),
                           Turned(x[2]), Turned(x[1])>>
<1> SUFFICES ASSUME NEW a \in Limb, NEW b \in Limb, NEW c \in Limb,
                    NEW d \in Limb, x = <<a, b, c, d>>
             PROVE  SwapMasked(x) = <<Turned(d), Turned(c),
                                      Turned(b), Turned(a)>>
  BY LimbsOfWord
<1> DEFINE by8 == W(\h00ff, \h00ff, \h00ff, \h00ff)
           by16 == W(0, \hffff, 0, \hffff)
           y == BitOr(ShiftLeft(BitAnd(x, by8), 8), BitAnd(ShiftRight(x, 8), by8))
           u == BitOr(ShiftLeft(BitAnd(y, by16), 16),
                      BitAnd(ShiftRight(y, 16), by16))
           e == Turned(a)  f == Turned(b)  g == Turned(c)  i == Turned(d)
<1>1. /\ e \in Limb /\ f \in Limb /\ g \in Limb /\ i \in Limb
  BY TurnedIsLimb
<1>2. by8 = <<255, 255, 255, 255>> /\ by16 = <<65535, 0, 65535, 0>>
  BY SMT DEF W
<1> HIDE DEF by8, by16
<1>3. SwapMasked(x) = BitOr(ShiftLeft(u, 32), ShiftRight(u, 32))
  BY DEF SwapMasked, by8, by16
<1>4. y = <<e, f, g, i>>
  <2>1. BitAnd(x, by8) = <<a % 256, b % 256, c % 256, d % 256>>
    BY <1>2, AndOfWords, AndOfSomeLimbs
  <2>2. y = BitOr(<<(a % 256) * 256, (b % 256) * 256,
                    (c % 256) * 256, (d % 256) * 256>>,
                  <<a \div 256, b \div 256, c \div 256, d \div 256>>)
    BY <1>2, <2>1, ShiftsBy8
  <2> HIDE DEF y
  <2>3. y = <<(a % 256) * 256 + (a \div 256)
                - AndLimb((a % 256) * 256, a \div 256),
              (b % 256) * 256 + (b \div 256)
                - AndLimb((b % 256) * 256, b \div 256),
              (c % 256) * 256 + (c \div 256)
                - AndLimb((c % 256) * 256, c \div 256),
              (d % 256) * 256 + (d \div 256)
                - AndLimb((d % 256) * 256, d \div 256)>>
    BY ONLY <2>2, OrOfWords
  <2> QED BY <2>3, TurnedIsLimb
<1> HIDE DEF y, e, f, g, i
<1>5. u = <<f, e, i, g>>
  <2>1. 0 \in Limb
    BY AndOfSomeLimbs
  <2>2. BitAnd(y, by16) = <<e, 0, g, 0>>
    BY <1>1, <1>2, <1>4, AndOfWords, AndOfSomeLimbs
  <2>3. BitAnd(ShiftRight(y, 16), by16) = <<f, 0, i, 0>>
    <3>1. ShiftRight(y, 16) = <<f, g, i, 0>>
      BY <1>1, <1>4, WordOfLimbs, ShiftsOfWord
    <3> QED BY <1>1, <1>2, <2>1, <3>1, AndOfWords, AndOfSomeLimbs
  <2>4. ShiftLeft(<<e, 0, g, 0>>, 16) = <<0, e, 0, g>>
    <3> DEFINE r == <<e, 0, g, 0>>
    <3>1. /\ LimbAt(r, 1) = e /\ LimbAt(r, 2) = 0 /\ LimbAt(r, 3) = g
          /\ LimbAt(r, 0) = 0 /\ LimbAt(r, -1) = 0 /\ Len(r) = 4
      BY DEF LimbAt
    <3> HIDE DEF r
    <3>2. ShiftLeft(r, 16) =
            <<(LimbAt(r, 0) % 65536) * 1 + LimbAt(r, -1) \div 65536,
              (LimbAt(r, 1) % 65536) * 1 + LimbAt(r, 0) \div 65536,
              (LimbAt(r, 2) % 65536) * 1 + LimbAt(r, 1) \div 65536,
              (LimbAt(r, 3) % 65536) * 1 + LimbAt(r, 2) \div 65536>>
      BY <3>1, Powers, SMT DEF ShiftLeft, Limbs
    <3>3. /\ e \in Int /\ e % 65536 = e /\ e \div 65536 = 0
          /\ g \in Int /\ g % 65536 = g
          /\ 0 % 65536 = 0 /\ 0 \div 65536 = 0
      BY ONLY <1>1, <2>1, LimbAsIs
    <3>4. /\ (LimbAt(r, 0) % 65536) * 1 + LimbAt(r, -1) \div 65536 = 0
          /\ (LimbAt(r, 1) % 65536) * 1 + LimbAt(r, 0) \div 65536 = e
          /\ (LimbAt(r, 2) % 65536) * 1 + LimbAt(r, 1) \div 65536 = 0
          /\ (LimbAt(r, 3) % 65536) * 1 + LimbAt(r, 2) \div 65536 = g
      BY ONLY <3>1, <3>3
    <3> QED BY ONLY <3>2, <3>4 DEF r
  <2>5. u = BitOr(<<0, e, 0, g>>, <<f, 0, i, 0>>)
    BY <2>2, <2>3, <2>4
  <2> HIDE DEF u
  <2>6. u = <<0 + f - AndLimb(0, f), e + 0 - AndLimb(e, 0),
              0 + i - AndLimb(0, i), g + 0 - AndLimb(g, 0)>>
    BY ONLY <2>5, OrOfWords
  <2> QED BY <1>1, <2>6, OrOfLimbs
<1> HIDE DEF u
<1>6. SwapMasked(x) = BitOr(<<0, 0, f, e>>, <<i, g, 0, 0>>)
  <2>1. u \in Word /\ u[1] = f /\ u[2] = e /\ u[3] = i /\ u[4] = g
    BY <1>1, <1>5, WordOfLimbs
  <2>2. ShiftLeft(u, 32) = <<0, 0, f, e>> /\ ShiftRight(u, 32) = <<i, g, 0, 0>>
    BY ONLY <2>1, ShiftsOfWord
  <2> QED BY <1>3, <2>2
<1>7. @ = <<0 + i - AndLimb(0, i), 0 + g - AndLimb(0, g),
            f + 0 - AndLimb(f, 0), e + 0 - AndLimb(e, 0)>>
  BY ONLY OrOfWords
<1>8. @ = <<i, g, f, e>>
  BY <1>1, OrOfLimbs
<1> QED BY <1>6, <1>7, <1>8 DEF e, f, g, i

LEMMA BytesBE ==
  ASSUME NEW x \in Word
  PROVE  /\ \A i \in 1 .. 8 : ToBytesBE(x)[i] \in Bytes
         /\ DOMAIN ToBytesBE(x) = 1 .. 8
         /\ \A i \in 1 .. 8 : ToBytesBE(x)[i] = Byte(x, 8 - i)
         /\ ToBytesBE(x)[1] = x[4] \div 256 /\ ToBytesBE(x)[2] = x[4] % 256
         /\ ToBytesBE(x)[3] = x[3] \div 256 /\ ToBytesBE(x)[4] = x[3] % 256
         /\ ToBytesBE(x)[5] = x[2] \div 256 /\ ToBytesBE(x)[6] = x[2] % 256
         /\ ToBytesBE(x)[7] = x[1] \div 256 /\ ToBytesBE(x)[8] = x[1] % 256
<1>1. /\ DOMAIN ToBytesBE(x) = 1 .. 8
      /\ \A i \in 1 .. 8 : ToBytesBE(x)[i] = Byte(x, 8 - i)
  BY DEF ToBytesBE
<1>2. /\ ToBytesBE(x)[1] = Byte(x, 7) /\ ToBytesBE(x)[2] = Byte(x, 6)
      /\ ToBytesBE(x)[3] = Byte(x, 5) /\ ToBytesBE(x)[4] = Byte(x, 4)
      /\ ToBytesBE(x)[5] = Byte(x, 3) /\ ToBytesBE(x)[6] = Byte(x, 2)
      /\ ToBytesBE(x)[7] = Byte(x, 1) /\ ToBytesBE(x)[8] = Byte(x, 0)
  BY DEF ToBytesBE
<1>3. /\ x[1] \in Limb /\ x[2] \in Limb /\ x[3] \in Limb /\ x[4] \in Limb
  BY LimbsOfWord
<1>4. \A i \in 1 .. 8 : ToBytesBE(x)[i] \in Bytes
  BY <1>2, <1>3, BytesOfWord, HalvesOfLimb
<1> QED BY <1>1, <1>2, <1>4, BytesOfWord

LEMMA SwapIs ==
  ASSUME NEW x \in Word
  PROVE  /\ SwapBytes(x) \in Word
         /\ SwapMasked(x) = SwapBytes(x)
         /\ \A i \in 1 .. 8 : ToBytesBE(SwapBytes(x))[i] = Byte(x, i - 1)
<1> SUFFICES ASSUME NEW a \in Limb, NEW b \in Limb, NEW c \in Limb,
                    NEW d \in Limb,
                    a = x[1], b = x[2], c = x[3], d = x[4]
             PROVE  /\ SwapBytes(x) \in Word
                    /\ SwapMasked(x) = SwapBytes(x)
                    /\ \A i \in 1 .. 8 :
                         ToBytesBE(SwapBytes(x))[i] = Byte(x, i - 1)
  BY LimbsOfWord
<1>1. SwapBytes(x) = <<d \div 256 + 256 * (d % 256), c \div 256 + 256 * (c % 256),
                       b \div 256 + 256 * (b % 256), a \div 256 + 256 * (a % 256)>>
  BY BytesBE, FromBytesIs DEF SwapBytes
<1>2. ASSUME NEW e \in Limb
      PROVE  /\ e \div 256 + 256 * (e % 256) = Turned(e)
             /\ Turned(e) \in Limb
             /\ Turned(e) \div 256 = e % 256 /\ Turned(e) % 256 = e \div 256
  <2>1. e \in Int /\ 0 <= e /\ e < 65536
    BY RangeOfLimb
  <2>2. /\ e \div 256 + 256 * (e % 256) = Turned(e)
        /\ Turned(e) \div 256 = e % 256 /\ Turned(e) % 256 = e \div 256
    BY ONLY <2>1, SMT DEF Turned
  <2> QED BY <2>2, TurnedIsLimb
<1> DEFINE s == <<Turned(d), Turned(c), Turned(b), Turned(a)>>
<1>3. SwapBytes(x) = s /\ SwapMasked(x) = s
  BY <1>1, <1>2, MaskedSwap
<1>4. s \in Word /\ s[1] = Turned(d) /\ s[2] = Turned(c) /\ s[3] = Turned(b) /\ s[4] = Turned(a)
  BY <1>2, WordOfLimbs
<1> HIDE DEF s
<1>5. /\ ToBytesBE(s)[1] = Turned(a) \div 256 /\ ToBytesBE(s)[2] = Turned(a) % 256
      /\ ToBytesBE(s)[3] = Turned(b) \div 256 /\ ToBytesBE(s)[4] = Turned(b) % 256
      /\ ToBytesBE(s)[5] = Turned(c) \div 256 /\ ToBytesBE(s)[6] = Turned(c) % 256
      /\ ToBytesBE(s)[7] = Turned(d) \div 256 /\ ToBytesBE(s)[8] = Turned(d) % 256
  BY <1>4, BytesBE
<1>6. /\ ToBytesBE(s)[1] = Byte(x, 0) /\ ToBytesBE(s)[2] = Byte(x, 1)
      /\ ToBytesBE(s)[3] = Byte(x, 2) /\ ToBytesBE(s)[4] = Byte(x, 3)
      /\ ToBytesBE(s)[5] = Byte(x, 4) /\ ToBytesBE(s)[6] = Byte(x, 5)
      /\ ToBytesBE(s)[7] = Byte(x, 6) /\ ToBytesBE(s)[8] = Byte(x, 7)
  BY <1>2, <1>5, BytesOfWord
<1>7. \A i \in 1 .. 8 : ToBytesBE(s)[i] = Byte(x, i - 1)
  BY ONLY <1>6
<1> QED BY <1>3, <1>4, <1>7

(* Words are as their bytes are.                                           *)
LEMMA SameBytes ==
  ASSUME NEW x \in Word, NEW y \in Word,
         \A i \in 1 .. 8 : ToBytesBE(x)[i] = ToBytesBE(y)[i]
  PROVE  x = y
<1>1. ASSUME NEW a \in Limb, NEW b \in Limb,
             a \div 256 = b \div 256, a % 256 = b % 256
      PROVE  a = b
  <2>1. /\ a = 256 * (a \div 256) + (a % 256)
        /\ b = 256 * (b \div 256) + (b % 256)
    BY HalvesOfLimb
  <2> QED BY <1>1, <2>1
<1>2. /\ x[4] \div 256 = y[4] \div 256 /\ x[4] % 256 = y[4] % 256
      /\ x[3] \div 256 = y[3] \div 256 /\ x[3] % 256 = y[3] % 256
      /\ x[2] \div 256 = y[2] \div 256 /\ x[2] % 256 = y[2] % 256
      /\ x[1] \div 256 = y[1] \div 256 /\ x[1] % 256 = y[1] % 256
  BY BytesBE
<1>3. x[1] = y[1] /\ x[2] = y[2] /\ x[3] = y[3] /\ x[4] = y[4]
  BY <1>1, <1>2, LimbsOfWord
<1> QED BY <1>3, LimbsOfWord

(* Naturals have a least one: induction, as far as it can be used here.    *)
LEMMA LeastOf ==
  ASSUME NEW T, T \subseteq Nat, T # {}
  PROVE  \E i \in T : \A j \in T : i <= j
<1>1. PICK i \in T : \A j \in T : ~ (<<j, i>> \in OpToRel(<, Nat))
  BY NatLessThanWellFounded, WFMin
<1>2. \A j \in T : ~ (j < i)
  BY <1>1 DEF OpToRel
<1> QED BY <1>2

(* The order of sequences of numbers is that of their first difference.    *)
LEMMA FirstDifference ==
  ASSUME NEW n \in Nat, NEW s, NEW t, NEW k \in 1 .. n, s[k] # t[k]
  PROVE  \E i \in 1 .. n : s[i] # t[i] /\ \A j \in 1 .. i - 1 : s[j] = t[j]
<1> DEFINE T == {i \in 1 .. n : s[i] # t[i]}
<1>1. T \subseteq Nat /\ T # {}
  OBVIOUS
<1>2. PICK i \in T : \A j \in T : i <= j
  <2> HIDE DEF T
  <2> QED BY <1>1, LeastOf
<1>3. \A j \in T : ~ (j < i)
  BY <1>1, <1>2
<1>4. ASSUME NEW j \in 1 .. i - 1
      PROVE  s[j] = t[j]
  BY <1>3
<1> QED BY <1>4

LEMMA LexFirst ==
  ASSUME NEW n \in Nat, NEW s, NEW t, NEW i \in 1 .. n,
         DOMAIN s = 1 .. n, \A k \in 1 .. n : s[k] \in Int /\ t[k] \in Int,
         s[i] # t[i], \A j \in 1 .. i - 1 : s[j] = t[j]
  PROVE  LexLess(s, t) <=> s[i] < t[i]
<1>1. ASSUME s[i] < t[i]
      PROVE  LexLess(s, t)
  BY <1>1 DEF LexLess
<1>2. ASSUME LexLess(s, t)
      PROVE  s[i] < t[i]
  <2>1. PICK k \in 1 .. n : s[k] < t[k] /\ \A j \in 1 .. k - 1 : s[j] = t[j]
    BY <1>2 DEF LexLess
  <2>2. ~ (k < i)
    <3>1. k < i => k \in 1 .. i - 1
      OBVIOUS
    <3> QED BY <2>1, <3>1
  <2>3. ~ (i < k)
    <3>1. i < k => i \in 1 .. k - 1
      OBVIOUS
    <3> QED BY <2>1, <3>1
  <2>4. i = k
    BY <2>2, <2>3
  <2> QED BY <2>1, <2>4
<1> QED BY <1>1, <1>2

LEMMA LexSame ==
  ASSUME NEW n \in Nat, NEW s, NEW t,
         DOMAIN s = 1 .. n, \A k \in 1 .. n : s[k] \in Int /\ t[k] = s[k]
  PROVE  ~ LexLess(s, t)
BY DEF LexLess

LEMMA BytesAreNumbers ==
  ASSUME NEW x \in Word
  PROVE  /\ DOMAIN ToBytesBE(x) = 1 .. 8
         /\ \A k \in 1 .. 8 : ToBytesBE(x)[k] \in Int
<1>1. \A e \in Bytes : e \in Int
  BY DEF Bytes
<1> QED BY <1>1, BytesBE

LEMMA LessFirst ==
  ASSUME NEW x \in Word, NEW y \in Word, NEW i \in 1 .. 8,
         ToBytesBE(x)[i] # ToBytesBE(y)[i],
         \A j \in 1 .. i - 1 : ToBytesBE(x)[j] = ToBytesBE(y)[j]
  PROVE  Less(x, y) <=> ToBytesBE(x)[i] < ToBytesBE(y)[i]
<1> DEFINE s == ToBytesBE(x)  t == ToBytesBE(y)
<1>1. /\ DOMAIN s = 1 .. 8
      /\ \A k \in 1 .. 8 : s[k] \in Int /\ t[k] \in Int
  BY BytesAreNumbers
<1>2. Less(x, y) <=> LexLess(s, t)
  BY DEF Less
<1> HIDE DEF s, t
<1>3. 8 \in Nat
  OBVIOUS
<1>4. /\ s[i] # t[i]
      /\ \A j \in 1 .. i - 1 : s[j] = t[j]
  BY DEF s, t
<1>5. LexLess(s, t) <=> s[i] < t[i]
  BY ONLY <1>1, <1>3, <1>4, LexFirst
<1> QED BY <1>2, <1>5 DEF s, t

LEMMA LessSame ==
  ASSUME NEW x \in Word
  PROVE  ~ Less(x, x)
<1>1. /\ DOMAIN ToBytesBE(x) = 1 .. 8
      /\ \A k \in 1 .. 8 : ToBytesBE(x)[k] \in Int
  BY BytesAreNumbers
<1> QED BY <1>1, LexSame DEF Less

(* Two words are the same, or the first byte they differ in orders them.   *)
LEMMA WordsDiffer ==
  ASSUME NEW x \in Word, NEW y \in Word, x # y
  PROVE  \E i \in 1 .. 8 :
           /\ ToBytesBE(x)[i] # ToBytesBE(y)[i]
           /\ \A j \in 1 .. i - 1 : ToBytesBE(x)[j] = ToBytesBE(y)[j]
<1>1. PICK k \in 1 .. 8 : ToBytesBE(x)[k] # ToBytesBE(y)[k]
  BY SameBytes
<1>2. 8 \in Nat
  OBVIOUS
<1> QED BY ONLY <1>1, <1>2, FirstDifference

(* What the kernels compare, and what Target::accepts compares.            *)
Quads == [1 .. 4 -> Word]

LEMMA MaskedFirst ==
  ASSUME NEW s \in Quads, NEW t \in Quads, NEW k \in 1 .. 4,
         s[k] # t[k], \A j \in 1 .. k - 1 : s[j] = t[j]
  PROVE  MaskedLeq(s, t) <=> Less(s[k], t[k])
<1>1. ASSUME Less(s[k], t[k])
      PROVE  MaskedLeq(s, t)
  BY <1>1 DEF MaskedLeq
<1>2. ASSUME MaskedLeq(s, t)
      PROVE  Less(s[k], t[k])
  <2>1. ~ \A j \in 1 .. 5 - 1 : s[j] = t[j]
    OBVIOUS
  <2>2. PICK i \in 1 .. 4 : Less(s[i], t[i]) /\ \A j \in 1 .. i - 1 : s[j] = t[j]
    BY <1>2, <2>1 DEF MaskedLeq
  <2>3. ~ (k < i)
    <3>1. k < i => k \in 1 .. i - 1
      OBVIOUS
    <3> QED BY <2>2, <3>1
  <2>4. ~ (i < k)
    <3>1. i < k => i \in 1 .. k - 1
      OBVIOUS
    <3>2. s[i] = t[i] => ~ Less(s[i], t[i])
      BY LessSame DEF Quads
    <3> QED BY <2>2, <3>1, <3>2
  <2>5. i = k
    BY <2>3, <2>4
  <2> QED BY <2>2, <2>5
<1> QED BY <1>1, <1>2

LEMMA MaskedSame ==
  ASSUME NEW s, NEW t, \A j \in 1 .. 4 : s[j] = t[j]
  PROVE  MaskedLeq(s, t)
BY DEF MaskedLeq

(* Byte p of a target and of a digest, in the words they are made of; c    *)
(* are a digest's words as the kernels have them.                          *)
Place(k, i) == 8 * (k - 1) + i

LEMMA TargetByte ==
  ASSUME NEW t \in Quads, NEW k \in 1 .. 4, NEW i \in 1 .. 8
  PROVE  /\ TargetBytes(t)[Place(k, i)] = ToBytesBE(t[k])[i]
         /\ DOMAIN TargetBytes(t) = 1 .. 32
         /\ Place(k, i) \in 1 .. 32
<1>1. /\ Place(k, i) \in 1 .. 32
      /\ (Place(k, i) - 1) \div 8 + 1 = k /\ (Place(k, i) - 1) % 8 = i - 1
      /\ 7 - (i - 1) = 8 - i
  BY SMT DEF Place
<1> DEFINE p == Place(k, i)
<1> HIDE DEF p
<1>2. TargetBytes(t)[p] = Byte(t[(p - 1) \div 8 + 1], 7 - ((p - 1) % 8))
  BY <1>1 DEF TargetBytes, p
<1>3. @ = Byte(t[k], 8 - i)
  BY <1>1 DEF p
<1>4. @ = ToBytesBE(t[k])[i]
  BY BytesBE DEF Quads
<1>5. DOMAIN TargetBytes(t) = 1 .. 32
  BY DEF TargetBytes
<1> QED BY <1>1, <1>2, <1>3, <1>4, <1>5 DEF p

LEMMA DigestByte ==
  ASSUME NEW c, NEW k \in 1 .. 4, NEW i \in 1 .. 8, c[k] \in Word
  PROVE  Digest(c)[Place(k, i)] = ToBytesBE(SwapBytes(c[k]))[i]
<1>1. /\ Place(k, i) \in 1 .. 32
      /\ (Place(k, i) - 1) \div 8 + 1 = k /\ (Place(k, i) - 1) % 8 = i - 1
  BY SMT DEF Place
<1> DEFINE p == Place(k, i)
<1> HIDE DEF p
<1>2. Digest(c)[p] = Byte(c[(p - 1) \div 8 + 1], (p - 1) % 8)
  BY <1>1 DEF Digest, p
<1>3. @ = Byte(c[k], i - 1)
  BY <1>1 DEF p
<1>4. @ = ToBytesBE(SwapBytes(c[k]))[i]
  BY SwapIs
<1> QED BY <1>2, <1>3, <1>4 DEF p

LEMMA PlaceOf ==
  ASSUME NEW p \in 1 .. 32
  PROVE  \E k \in 1 .. 4, i \in 1 .. 8 : p = Place(k, i)
<1> DEFINE k == (p - 1) \div 8 + 1  i == ((p - 1) % 8) + 1
<1>1. k \in 1 .. 4 /\ i \in 1 .. 8 /\ p = Place(k, i)
  BY SMT DEF Place
<1> QED BY ONLY <1>1, Zenon

LEMMA BytesOfBoth ==
  ASSUME NEW t \in Quads, NEW c, \A k \in 1 .. 4 : c[k] \in Word,
         NEW p \in 1 .. 32
  PROVE  TargetBytes(t)[p] \in Int /\ Digest(c)[p] \in Int
<1>1. PICK k \in 1 .. 4, i \in 1 .. 8 : p = Place(k, i)
  BY PlaceOf
<1>2. c[k] \in Word /\ t[k] \in Word /\ SwapBytes(c[k]) \in Word
  BY SwapIs DEF Quads
<1> QED BY <1>1, <1>2, TargetByte, DigestByte, BytesAreNumbers

LEMMA AcceptsFirst ==
  ASSUME NEW t \in Quads, NEW c, \A k \in 1 .. 4 : c[k] \in Word,
         NEW k \in 1 .. 4, NEW i \in 1 .. 8,
         \A j \in 1 .. k - 1 : t[j] = SwapBytes(c[j]),
         ToBytesBE(t[k])[i] # ToBytesBE(SwapBytes(c[k]))[i],
         \A j \in 1 .. i - 1 :
           ToBytesBE(t[k])[j] = ToBytesBE(SwapBytes(c[k]))[j]
  PROVE  Accepts(t, Digest(c)) <=> Less(SwapBytes(c[k]), t[k])
<1> DEFINE s == TargetBytes(t)  d == Digest(c)  p == Place(k, i)
           x == SwapBytes(c[k])  y == t[k]
<1>1. p \in 1 .. 32 /\ DOMAIN s = 1 .. 32
  BY TargetByte
<1>2. x \in Word /\ y \in Word
  BY SwapIs DEF Quads
<1>3. s[p] = ToBytesBE(y)[i] /\ d[p] = ToBytesBE(x)[i]
  BY TargetByte, DigestByte
<1>4. ASSUME NEW q \in 1 .. p - 1
      PROVE  s[q] = d[q]
  <2>1. PICK l \in 1 .. 4, j \in 1 .. 8 : q = Place(l, j)
    <3>1. q \in 1 .. 32
      BY <1>1
    <3> QED BY <3>1, PlaceOf
  <2>2. s[q] = ToBytesBE(t[l])[j] /\ d[q] = ToBytesBE(SwapBytes(c[l]))[j]
    BY <2>1, TargetByte, DigestByte
  <2>3. l < k \/ (l = k /\ j < i)
    BY <2>1, SMT DEF Place
  <2>4. CASE l < k
    <3>1. l \in 1 .. k - 1
      BY <2>4
    <3> QED BY <2>2, <3>1
  <2>5. CASE l = k /\ j < i
    <3>1. j \in 1 .. i - 1
      BY <2>5
    <3> QED BY <2>2, <2>5, <3>1
  <2> QED BY <2>3, <2>4, <2>5
<1>5. \A q \in 1 .. 32 : s[q] \in Int /\ d[q] \in Int
  BY BytesOfBoth
<1>6. Accepts(t, d) <=> ~ LexLess(s, d)
  BY DEF Accepts
<1>7. Less(x, y) <=> ToBytesBE(x)[i] < ToBytesBE(y)[i]
  BY <1>2, LessFirst
<1>8. ToBytesBE(x)[i] \in Int /\ ToBytesBE(y)[i] \in Int
  BY <1>2, BytesAreNumbers
<1>9. s[p] # d[p] /\ 32 \in Nat
  BY <1>3
<1> HIDE DEF s, d, p, x, y
<1>10. LexLess(s, d) <=> s[p] < d[p]
  BY ONLY <1>1, <1>4, <1>5, <1>9, LexFirst
<1> QED BY <1>3, <1>6, <1>7, <1>8, <1>9, <1>10 DEF s, d, p, x, y

LEMMA AcceptsSame ==
  ASSUME NEW t \in Quads, NEW c, \A k \in 1 .. 4 : c[k] \in Word,
         \A j \in 1 .. 4 : t[j] = SwapBytes(c[j])
  PROVE  Accepts(t, Digest(c))
<1> DEFINE s == TargetBytes(t)  d == Digest(c)
<1>1. DOMAIN s = 1 .. 32
  BY DEF TargetBytes
<1>2. ASSUME NEW p \in 1 .. 32
      PROVE  s[p] \in Int /\ d[p] = s[p]
  <2>1. PICK k \in 1 .. 4, i \in 1 .. 8 : p = Place(k, i)
    BY PlaceOf
  <2>2. s[p] = ToBytesBE(t[k])[i] /\ d[p] = ToBytesBE(SwapBytes(c[k]))[i]
    BY <2>1, TargetByte, DigestByte
  <2>3. s[p] \in Int
    BY BytesOfBoth
  <2> QED BY <2>2, <2>3
<1>3. 32 \in Nat
  OBVIOUS
<1> HIDE DEF s, d
<1>4. ~ LexLess(s, d)
  BY ONLY <1>1, <1>2, <1>3, LexSame
<1> QED BY <1>4 DEF Accepts, s, d

LEMMA CpuTakes ==
  ASSUME NEW t \in Quads, NEW s \in Quads,
         NEW c, \A k \in 1 .. 4 : c[k] \in Word /\ s[k] = SwapBytes(c[k])
  PROVE  MaskedLeq(s, t) <=> Accepts(t, Digest(c))
<1>1. CASE \A j \in 1 .. 4 : s[j] = t[j]
  BY <1>1, MaskedSame, AcceptsSame
<1>2. CASE \E j \in 1 .. 4 : s[j] # t[j]
  <2>1. PICK k \in 1 .. 4 : s[k] # t[k] /\ \A j \in 1 .. k - 1 : s[j] = t[j]
    <3>1. 4 \in Nat
      OBVIOUS
    <3> QED BY ONLY <1>2, <3>1, FirstDifference
  <2>2. MaskedLeq(s, t) <=> Less(s[k], t[k])
    BY <2>1, MaskedFirst
  <2>3. s[k] \in Word /\ t[k] \in Word /\ t[k] # s[k]
    BY <2>1 DEF Quads
  <2>4. PICK i \in 1 .. 8 :
          /\ ToBytesBE(t[k])[i] # ToBytesBE(s[k])[i]
          /\ \A j \in 1 .. i - 1 : ToBytesBE(t[k])[j] = ToBytesBE(s[k])[j]
    BY ONLY <2>3, WordsDiffer
  <2>5. \A j \in 1 .. k - 1 : t[j] = SwapBytes(c[j])
    BY <2>1
  <2>6. s[k] = SwapBytes(c[k]) /\ \A j \in 1 .. 4 : c[j] \in Word
    OBVIOUS
  <2>7. Accepts(t, Digest(c)) <=> Less(SwapBytes(c[k]), t[k])
    BY <2>4, <2>5, <2>6, AcceptsFirst
  <2> QED BY <2>2, <2>6, <2>7
<1> QED BY <1>1, <1>2

LEMMA LessOneWay ==
  ASSUME NEW x \in Word, NEW y \in Word, x # y
  PROVE  Less(x, y) <=> ~ Less(y, x)
<1>1. PICK i \in 1 .. 8 :
        /\ ToBytesBE(x)[i] # ToBytesBE(y)[i]
        /\ \A j \in 1 .. i - 1 : ToBytesBE(x)[j] = ToBytesBE(y)[j]
  BY WordsDiffer
<1>2. /\ Less(x, y) <=> ToBytesBE(x)[i] < ToBytesBE(y)[i]
      /\ Less(y, x) <=> ToBytesBE(y)[i] < ToBytesBE(x)[i]
  BY <1>1, LessFirst
<1>3. ToBytesBE(x)[i] \in Int /\ ToBytesBE(y)[i] \in Int
  BY BytesAreNumbers
<1> QED BY <1>1, <1>2, <1>3

LEMMA GpuTakes ==
  ASSUME NEW t \in Quads, NEW c, \A k \in 1 .. 4 : c[k] \in Word
  PROVE  ~ Less(t[1], SwapBytes(c[1])) <=> Accepts(GpuTarget(t), Digest(c))
<1> DEFINE g == GpuTarget(t)  x == SwapBytes(c[1])
<1>1. /\ g \in Quads /\ g[1] = t[1]
      /\ \A k \in 2 .. 4 : g[k] = Ones
  BY SomeWords DEF GpuTarget, Quads
<1>2. x \in Word /\ t[1] \in Word
  BY SwapIs DEF Quads
<1>3. CASE t[1] # x
  <2>1. PICK i \in 1 .. 8 :
          /\ ToBytesBE(t[1])[i] # ToBytesBE(x)[i]
          /\ \A j \in 1 .. i - 1 : ToBytesBE(t[1])[j] = ToBytesBE(x)[j]
    <3> HIDE DEF x
    <3> QED BY ONLY <1>2, <1>3, WordsDiffer
  <2> HIDE DEF g
  <2>2. /\ 1 \in 1 .. 4 /\ \A j \in 1 .. 1 - 1 : g[j] = SwapBytes(c[j])
        /\ ToBytesBE(g[1])[i] # ToBytesBE(x)[i]
        /\ \A j \in 1 .. i - 1 : ToBytesBE(g[1])[j] = ToBytesBE(x)[j]
    BY <1>1, <2>1
  <2>3. Accepts(g, Digest(c)) <=> Less(x, g[1])
    BY <1>1, <2>2, AcceptsFirst
  <2>4. Less(x, t[1]) <=> ~ Less(t[1], x)
    <3> HIDE DEF x
    <3> QED BY ONLY <1>2, <1>3, LessOneWay
  <2> QED BY <1>1, <2>3, <2>4 DEF g
<1>4. CASE t[1] = x
  <2>1. ~ Less(t[1], x)
    BY <1>2, <1>4, LessSame
  <2>2. ASSUME NEW p \in 1 .. 32
        PROVE  ~ (TargetBytes(g)[p] < Digest(c)[p])
    <3>1. PICK k \in 1 .. 4, i \in 1 .. 8 : p = Place(k, i)
      BY PlaceOf
    <3>2. /\ TargetBytes(g)[p] = ToBytesBE(g[k])[i]
          /\ Digest(c)[p] = ToBytesBE(SwapBytes(c[k]))[i]
      BY <1>1, <3>1, TargetByte, DigestByte
    <3>3. TargetBytes(g)[p] \in Int /\ Digest(c)[p] \in Int
      BY <1>1, BytesOfBoth
    <3>4. CASE k = 1
      BY <1>1, <1>4, <3>2, <3>3, <3>4
    <3>5. CASE k # 1
      <4>1. g[k] = Ones
        BY <1>1, <3>5
      <4>2. ToBytesBE(Ones)[i] = 255
        <5>1. 65535 \div 256 = 255 /\ 65535 % 256 = 255
          BY SMT
        <5>2. Ones \in Word /\ Ones = <<65535, 65535, 65535, 65535>>
          BY SomeWords, ZeroAndOnes
        <5>3. /\ Ones[1] = 65535 /\ Ones[2] = 65535
              /\ Ones[3] = 65535 /\ Ones[4] = 65535
          BY <5>2
        <5> QED BY ONLY <5>1, <5>2, <5>3, BytesBE
      <4>3. Digest(c)[p] \in Bytes
        <5>1. SwapBytes(c[k]) \in Word
          BY SwapIs
        <5> QED BY <3>2, <5>1, BytesBE
      <4> QED BY <3>2, <4>1, <4>2, <4>3 DEF Bytes
    <3> QED BY <3>4, <3>5
  <2>3. DOMAIN TargetBytes(g) = 1 .. 32
    BY DEF TargetBytes
  <2>4. Accepts(g, Digest(c))
    <3> HIDE DEF g
    <3> QED BY <2>2, <2>3 DEF Accepts, LexLess
  <2> QED BY <2>1, <2>4
<1> QED BY <1>3, <1>4

(* What a kernel looks at is the digest's words, the other way round.      *)
LEMMA WordsOfKernel ==
  ASSUME NEW k \in Cpu \cup Gpu, NEW u \in Vector,
         NEW c, c = Finish(Chain0, u)
  PROVE  /\ \A j \in 1 .. 4 : /\ c[j] \in Word
                              /\ WordsBE(k, u)[j] = SwapBytes(c[j])
         /\ WordsBE(k, u) \in Quads
         /\ Prefix(k, u) = SwapBytes(c[1])
<1>1. ASSUME NEW j \in 1 .. 4
      PROVE  /\ c[j] = BitXor(BitXor(Chain0[j], u[j - 1]), u[j + 7])
             /\ c[j] \in Word
  <2>1. c[j] = BitXor(BitXor(Chain0[j], u[j - 1]), u[j + 7])
    BY DEF Finish
  <2>2. Chain0[j] \in Word
    BY ChainIs, IVIsWords
  <2>3. j - 1 \in 0 .. 15 /\ j + 7 \in 0 .. 15
    OBVIOUS
  <2>4. u[j - 1] \in Word /\ u[j + 7] \in Word
    BY <2>3 DEF Vector
  <2> HIDE DEF Chain0
  <2> QED BY <2>1, <2>2, <2>4, XorIsWord
<1>2. \A x \in Word : Swap(k, x) = SwapBytes(x)
  BY SwapIs DEF Swap
<1>3. ASSUME NEW j \in 1 .. 4
      PROVE  WordsBE(k, u)[j] = SwapBytes(c[j])
  <2>1. WordsBE(k, u)[j] = Swap(k, BitXor(BitXor(Chain0[j], u[j - 1]), u[j + 7]))
    BY DEF WordsBE
  <2> QED BY <1>1, <1>2, <2>1
<1>4. WordsBE(k, u) \in Quads
  <2>1. \A j \in 1 .. 4 : SwapBytes(c[j]) \in Word
    BY <1>1, SwapIs
  <2>2. WordsBE(k, u) = [j \in 1 .. 4 |-> WordsBE(k, u)[j]]
    BY DEF WordsBE
  <2> QED BY <1>3, <2>1, <2>2 DEF Quads
<1>5. Prefix(k, u) = SwapBytes(c[1])
  <2>1. Literal[0] = Chain0[1]
    BY ChainIs DEF Literal, Literals
  <2>2. Prefix(k, u) = Swap(k, BitXor(BitXor(Chain0[1], u[0]), u[8]))
    BY <2>1 DEF Prefix
  <2>3. /\ c[1] = BitXor(BitXor(Chain0[1], u[1 - 1]), u[1 + 7])
        /\ c[1] \in Word
    BY <1>1
  <2>4. 1 - 1 = 0 /\ 1 + 7 = 8
    OBVIOUS
  <2> QED BY <1>2, <2>2, <2>3, <2>4
<1> QED BY <1>1, <1>3, <1>4, <1>5

LEMMA TargetsAreQuads ==
  ASSUME NEW words \in Quads
  PROVE  Targets(words) \subseteq Quads
<1>1. ASSUME NEW x \in Word, NEW d \in Int, NEW y \in Plus(x, d)
      PROVE  y \in Word
  BY <1>1 DEF Plus, Word
<1>2. Zero \in Word /\ Ones \in Word
  BY SomeWords
<1>3. ASSUME NEW i \in 1 .. 4, NEW rest \in {Zero, Ones},
             NEW word \in Plus(words[i], -1) \cup Plus(words[i], 1)
      PROVE  [k \in 1 .. 4 |-> CASE k < i -> words[k] [] k = i -> word
                                 [] k > i -> rest] \in Quads
  <2>1. words[i] \in Word /\ rest \in Word
    BY <1>2 DEF Quads
  <2>2. word \in Word
    BY <1>1, <2>1
  <2> QED BY <2>1, <2>2 DEF Quads
<1> QED BY <1>3 DEF Targets

(* At the end of a kernel, whatever the target: a CPU kernel takes a nonce *)
(* if and only if Target::accepts takes it, a GPU if and only if accepts   *)
(* takes it for the first word of the target.                              *)
TakenRight ==
  kernel # None /\ Hashed =>
    \A target \in Quads :
      Takes(kernel, w, target)
        <=> Accepts(IF kernel \in Gpu THEN GpuTarget(target) ELSE target,
                    Digest(h))

LEMMA StepTakesRight == InStep => TakenRight
<1> SUFFICES ASSUME InStep, kernel # None, Hashed, NEW target \in Quads
             PROVE  Takes(kernel, w, target)
                      <=> Accepts(IF kernel \in Gpu THEN GpuTarget(target)
                                  ELSE target, Digest(h))
  BY DEF TakenRight
<1>1. /\ kernel \in Cpu \cup Gpu /\ w = v /\ v \in Vector
      /\ h = Finish(Chain0, v)
  BY DEF InStep, Loaded, Compressing, Hashed, Rounds
<1>2. /\ \A j \in 1 .. 4 : h[j] \in Word /\ WordsBE(kernel, v)[j] = SwapBytes(h[j])
      /\ WordsBE(kernel, v) \in Quads
      /\ Prefix(kernel, v) = SwapBytes(h[1])
  BY <1>1, WordsOfKernel
<1>3. CASE kernel \in Gpu
  <2>1. Takes(kernel, w, target) <=> ~ Less(target[1], SwapBytes(h[1]))
    BY <1>1, <1>2, <1>3 DEF Takes
  <2>2. @ <=> Accepts(GpuTarget(target), Digest(h))
    BY <1>2, GpuTakes
  <2> QED BY <1>3, <2>1, <2>2
<1>4. CASE kernel \notin Gpu
  <2>1. Takes(kernel, w, target) <=> MaskedLeq(WordsBE(kernel, v), target)
    BY <1>1, <1>4 DEF Takes
  <2>2. MaskedLeq(WordsBE(kernel, v), target) <=> Accepts(target, Digest(h))
    BY <1>2, CpuTakes
  <2> QED BY <1>4, <2>1, <2>2
<1> QED BY <1>3, <1>4

(* What every kernel takes is what Target::accepts takes, for the target's *)
(* first word on a GPU, whatever the target.                               *)
THEOREM EveryTargetTaken == Spec => []TakenRight
BY KernelsInStep, StepTakesRight, PTL

(* TakesSolutions: at the targets about the digest in particular.          *)
THEOREM SolutionsTaken == Spec => []TakesSolutions
<1>1. InStep => TakesSolutions
  <2> SUFFICES ASSUME InStep, kernel # None, Hashed,
                      NEW target \in Targets(DigestWords)
               PROVE  Takes(kernel, w, target)
                        = Accepts(IF kernel \in Gpu THEN GpuTarget(target)
                                  ELSE target, Digest(h))
    BY DEF TakesSolutions
  <2>1. kernel \in Cpu \cup Gpu /\ v \in Vector /\ h = Finish(Chain0, v)
    BY DEF InStep, Loaded, Compressing, Hashed, Rounds
  <2>2. \A j \in 1 .. 4 : SwapBytes(h[j]) \in Word
    BY <2>1, WordsOfKernel, SwapIs
  <2>3. DigestWords \in Quads
    BY <2>2 DEF DigestWords, Quads
  <2>4. target \in Quads
    BY <2>3, TargetsAreQuads
  <2>5. Takes(kernel, w, target)
          <=> Accepts(IF kernel \in Gpu THEN GpuTarget(target) ELSE target,
                      Digest(h))
    BY <2>4, StepTakesRight DEF TakenRight
  <2> QED BY <2>5 DEF Takes, Accepts, MaskedLeq
<1> QED BY <1>1, KernelsInStep, PTL
----------------------------------------------------------------------------
(* Targets.  Powers and the value of digits are recursive functions: one   *)
(* exists and there is only one, by induction, so that each step of theirs *)
(* is known.                                                               *)

(* What holds of 0, and of n + 1 if of n, holds up to any limit.           *)
LEMMA UpTo ==
  ASSUME NEW n \in Nat, NEW S, 0 \in S,
         \A k \in 0 .. n - 1 : k \in S => k + 1 \in S
  PROVE  \A k \in 0 .. n : k \in S
<1> DEFINE T == {k \in 0 .. n : k \notin S}
<1> SUFFICES ASSUME T # {} PROVE FALSE
  OBVIOUS
<1>1. PICK k \in T : \A j \in T : k <= j
  <2>1. T \subseteq Nat
    OBVIOUS
  <2> HIDE DEF T
  <2> QED BY <2>1, LeastOf
<1>2. k # 0 /\ k - 1 \in 0 .. n - 1 /\ k - 1 \notin T
  BY <1>1
<1> QED BY <1>1, <1>2

(* A recursion that multiplies and adds has one solution.                  *)
Horner(f, n, first, base, add) ==
  f = [k \in 0 .. n |-> IF k = 0 THEN first ELSE base * f[k - 1] + add[k]]

LEMMA HornerExists ==
  ASSUME NEW n \in Nat, NEW first, NEW base, NEW add
  PROVE  \E f : Horner(f, n, first, base, add)
<1> DEFINE S == {k \in Nat : \E f : Horner(f, k, first, base, add)}
<1>1. 0 \in S
  <2> DEFINE f == [k \in 0 .. 0 |-> first]
  <2>1. Horner(f, 0, first, base, add)
    BY DEF Horner
  <2> QED BY <2>1
<1>2. ASSUME NEW k \in 0 .. n - 1, k \in S
      PROVE  k + 1 \in S
  <2>1. PICK f : Horner(f, k, first, base, add)
    BY <1>2
  <2> DEFINE g == [j \in 0 .. k + 1 |->
                     IF j = k + 1 THEN base * f[k] + add[k + 1] ELSE f[j]]
  <2>2. ASSUME NEW j \in 0 .. k + 1
        PROVE  g[j] = IF j = 0 THEN first ELSE base * g[j - 1] + add[j]
    <3>1. CASE j = k + 1
      BY <3>1
    <3>2. CASE j = 0
      BY <2>1, <3>2 DEF Horner
    <3>3. CASE j \in 1 .. k
      <4>1. g[j] = f[j] /\ g[j - 1] = f[j - 1]
        BY <3>3
      <4>2. f[j] = base * f[j - 1] + add[j]
        BY <2>1, <3>3 DEF Horner
      <4> QED BY <3>3, <4>1, <4>2
    <3> QED BY <3>1, <3>2, <3>3
  <2>3. Horner(g, k + 1, first, base, add)
    BY <2>2 DEF Horner
  <2> QED BY <2>3
<1>3. n \in 0 .. n /\ \A k \in 0 .. n : k \in S
  <2> HIDE DEF S
  <2> QED BY <1>1, <1>2, UpTo
<1> QED BY <1>3

LEMMA HornerAgrees ==
  ASSUME NEW n \in Nat, NEW l \in n .. n + 1, NEW first, NEW base,
         NEW add, NEW more, \A k \in 1 .. n : add[k] = more[k],
         NEW f, Horner(f, n, first, base, add),
         NEW g, Horner(g, l, first, base, more)
  PROVE  \A k \in 0 .. n : f[k] = g[k]
<1> DEFINE S == {k \in Nat : f[k] = g[k]}
<1>1. 0 \in S
  BY DEF Horner
<1>2. ASSUME NEW k \in 0 .. n - 1, k \in S
      PROVE  k + 1 \in S
  <2>1. /\ f[k + 1] = base * f[k] + add[k + 1]
        /\ g[k + 1] = base * g[k] + more[k + 1]
    BY DEF Horner
  <2> QED BY <1>2, <2>1
<1>3. \A k \in 0 .. n : k \in S
  <2> HIDE DEF S
  <2> QED BY <1>1, <1>2, UpTo
<1> QED BY <1>3

LEMMA PowerIs ==
  ASSUME NEW b \in Nat, NEW n \in Nat
  PROVE  /\ Power(b, 0) = 1
         /\ Power(b, n + 1) = b * Power(b, n)
         /\ Power(b, n) \in Nat
(* The solution is in numbers, so that adding 0 changes nothing.           *)
<1> DEFINE none == [k \in Nat |-> 0]
           Is(f, l) == f = [k \in 0 .. l |->
                              IF k = 0 THEN 1 ELSE b * f[k - 1]]
<1>1. ASSUME NEW l \in Nat, NEW f
      PROVE  /\ Horner(f, l, 1, b, none) <=> Is(f, l)
             /\ Is(f, l) => \A k \in 0 .. l : f[k] \in Nat
  <2>1. ASSUME Horner(f, l, 1, b, none) \/ Is(f, l)
        PROVE  \A k \in 0 .. l : f[k] \in Nat
    <3> DEFINE S == {k \in Nat : f[k] \in Nat}
    <3>1. 0 \in S
      BY <2>1 DEF Horner
    <3>2. ASSUME NEW k \in 0 .. l - 1, k \in S
          PROVE  k + 1 \in S
      <4>1. f[k + 1] = b * f[k] + 0 \/ f[k + 1] = b * f[k]
        BY <2>1 DEF Horner
      <4> QED BY <3>2, <4>1
    <3>3. \A k \in 0 .. l : k \in S
      <4> HIDE DEF S
      <4> QED BY <3>1, <3>2, UpTo
    <3> QED BY <3>3
  <2>2. ASSUME \A k \in 0 .. l : f[k] \in Nat
        PROVE  \A k \in 0 .. l : k # 0 =>
                 b * f[k - 1] + none[k] = b * f[k - 1]
    BY <2>2
  <2>3. Horner(f, l, 1, b, none) => Is(f, l)
    BY <2>1, <2>2 DEF Horner
  <2>4. Is(f, l) => Horner(f, l, 1, b, none)
    BY <2>1, <2>2 DEF Horner
  <2> QED BY <2>1, <2>3, <2>4
<1>2. ASSUME NEW l \in Nat
      PROVE  \E f : Is(f, l) /\ Power(b, l) = f[l]
  <2>1. \E f : Is(f, l)
    BY <1>1, HornerExists
  <2> DEFINE power == CHOOSE f : Is(f, l)
  <2>2. Is(power, l)
    BY <2>1
  <2>3. Power(b, l) = power[l]
    BY DEF Power
  <2> QED BY <2>2, <2>3
<1>3. PICK f : Is(f, n) /\ Power(b, n) = f[n]
  BY <1>2
<1>4. PICK g : Is(g, n + 1) /\ Power(b, n + 1) = g[n + 1]
  <2>1. n + 1 \in Nat
    OBVIOUS
  <2> HIDE DEF Is
  <2> QED BY <1>2, <2>1
<1>5. f[n] = g[n] /\ f[n] \in Nat
  <2>1. \A k \in 0 .. n : f[k] = g[k]
    <3>1. /\ Horner(f, n, 1, b, none) /\ Horner(g, n + 1, 1, b, none)
          /\ n + 1 \in n .. n + 1
      <4> HIDE DEF Is, none
      <4> QED BY <1>1, <1>3, <1>4
    <3> HIDE DEF Is, none
    <3> QED BY <3>1, HornerAgrees
  <2> QED BY <1>1, <1>3, <2>1
<1>6. g[n + 1] = b * g[n]
  BY <1>4
<1>7. Power(b, 0) = 1
  BY <1>2
<1> QED BY <1>3, <1>4, <1>5, <1>6, <1>7

LEMMA PowerOfZero ==
  ASSUME NEW b \in Nat
  PROVE  Power(b, 0) = 1
BY PowerIs

LEMMA PowerIsPositive ==
  ASSUME NEW b \in Nat \ {0}, NEW n \in Nat
  PROVE  Power(b, n) \in Nat \ {0}
<1> DEFINE S == {k \in Nat : Power(b, k) \in Nat \ {0}}
<1>1. 0 \in S
  BY PowerIs
<1>2. ASSUME NEW k \in 0 .. n - 1, k \in S
      PROVE  k + 1 \in S
  <2>1. Power(b, k + 1) = b * Power(b, k)
    BY PowerIs
  <2> QED BY <1>2, <2>1
<1>3. n \in 0 .. n /\ \A k \in 0 .. n : k \in S
  <2> HIDE DEF S
  <2> QED BY <1>1, <1>2, UpTo
<1> QED BY <1>3

LEMMA Swapped ==
  ASSUME NEW a \in Int, NEW b \in Int, NEW c \in Int
  PROVE  a * (b * c) = b * (a * c)
OBVIOUS

LEMMA Distributed ==
  ASSUME NEW a \in Int, NEW b \in Int, NEW c \in Int
  PROVE  a * (b + c) = a * b + a * c
OBVIOUS

LEMMA ProductGrows ==
  ASSUME NEW a \in Nat, NEW b \in Int, NEW c \in Int, b <= c
  PROVE  a * b <= a * c
OBVIOUS

LEMMA PowerOfSum ==
  ASSUME NEW b \in Nat \ {0}, NEW n \in Nat, NEW l \in Nat
  PROVE  Power(b, l + n) = Power(b, l) * Power(b, n)
<1> DEFINE S == {k \in Nat : Power(b, l + k) = Power(b, l) * Power(b, k)}
<1>1. 0 \in S
  BY PowerIs
<1>2. ASSUME NEW k \in 0 .. n - 1, k \in S
      PROVE  k + 1 \in S
  <2>1. /\ Power(b, k + 1) = b * Power(b, k)
        /\ Power(b, (l + k) + 1) = b * Power(b, l + k)
        /\ Power(b, l) \in Nat /\ Power(b, k) \in Nat
    <3>1. k \in Nat /\ l + k \in Nat
      OBVIOUS
    <3> QED BY <3>1, PowerIs
  <2>2. (l + k) + 1 = l + (k + 1)
    OBVIOUS
  <2>3. Power(b, l + k) = Power(b, l) * Power(b, k)
    BY <1>2
  <2>4. b * (Power(b, l) * Power(b, k)) = Power(b, l) * (b * Power(b, k))
    BY <2>1, Swapped
  <2> QED BY <2>1, <2>2, <2>3, <2>4
<1>3. n \in 0 .. n /\ \A k \in 0 .. n : k \in S
  <2> HIDE DEF S
  <2> QED BY <1>1, <1>2, UpTo
<1> QED BY <1>3

LEMMA PowerGrows ==
  ASSUME NEW b \in Nat \ {0}, NEW n \in Nat, NEW l \in 0 .. n
  PROVE  Power(b, l) <= Power(b, n)
<1>1. Power(b, l + (n - l)) = Power(b, l) * Power(b, n - l)
  BY PowerOfSum
<1>2. Power(b, l) \in Nat \ {0} /\ Power(b, n - l) \in Nat \ {0}
  BY PowerIsPositive
<1>3. ASSUME NEW p \in Nat \ {0}, NEW q \in Nat \ {0}
      PROVE  p <= p * q
  OBVIOUS
<1>4. l + (n - l) = n
  OBVIOUS
<1> QED BY <1>1, <1>2, <1>3, <1>4

LEMMA Division ==
  ASSUME NEW a \in Nat, NEW d \in Nat \ {0}
  PROVE  /\ a \div d \in Nat /\ a % d \in 0 .. d - 1
         /\ a = d * (a \div d) + (a % d)
         /\ d * (a \div d) <= a /\ a < d * (a \div d + 1)
OBVIOUS

LEMMA OneMoreDigit ==
  ASSUME NEW b \in Nat, NEW x \in Nat, NEW y \in Nat, x < y,
         NEW r \in 0 .. b - 1
  PROVE  b * x + r < b * y
<1>1. b * (x + 1) <= b * y
  BY ProductGrows
<1> QED BY <1>1

LEMMA Quotient ==
  ASSUME NEW d \in Nat \ {0}, NEW q \in Nat, NEW r \in 0 .. d - 1
  PROVE  (d * q + r) \div d = q /\ (d * q + r) % d = r
OBVIOUS

LEMMA DivInTwo ==
  ASSUME NEW a \in Nat, NEW b \in Nat \ {0}, NEW d \in Nat \ {0}
  PROVE  a \div (b * d) = (a \div d) \div b
<1> DEFINE q == a \div d
           r == a % d
           p == q \div b
           t == q % b
<1>1. /\ q \in Nat /\ r \in 0 .. d - 1 /\ a = d * q + r
      /\ p \in Nat /\ t \in 0 .. b - 1 /\ q = b * p + t
  BY Division
<1> HIDE DEF q, r, p, t
<1>2. b * d \in Nat \ {0} /\ d * t + r \in 0 .. b * d - 1
  <2>1. d * t <= d * (b - 1) /\ d * (b - 1) = b * d - d
    BY <1>1
  <2> QED BY <1>1, <2>1
<1>3. a = (b * d) * p + (d * t + r)
  <2>1. d * (b * p + t) = (b * d) * p + d * t
    BY <1>1
  <2> QED BY <1>1, <2>1
<1>4. a \div (b * d) = p
  BY <1>1, <1>2, <1>3, Quotient
<1> QED BY <1>4 DEF p, q

LEMMA HornerIsNumber ==
  ASSUME NEW b \in Nat, NEW s, NEW n \in Nat, \A k \in 1 .. n : s[k] \in Nat,
         NEW f, Horner(f, n, 0, b, s)
  PROVE  /\ f[0] = 0 /\ \A k \in 0 .. n : f[k] \in Nat
         /\ \A k \in 1 .. n : f[k] = b * f[k - 1] + s[k]
<1> DEFINE S == {k \in Nat : f[k] \in Nat}
<1>1. \A k \in 1 .. n : f[k] = b * f[k - 1] + s[k]
  BY DEF Horner
<1>2. f[0] = 0 /\ 0 \in S
  BY DEF Horner
<1>3. ASSUME NEW k \in 0 .. n - 1, k \in S
      PROVE  k + 1 \in S
  <2>1. f[k + 1] = b * f[k] + s[k + 1]
    BY <1>1
  <2> QED BY <1>3, <2>1
<1>4. \A k \in 0 .. n : k \in S
  <2> HIDE DEF S
  <2> QED BY <1>2, <1>3, UpTo
<1> QED BY <1>1, <1>2, <1>4

LEMMA ValueIs ==
  ASSUME NEW b \in Nat, NEW s \in Seq(Nat)
  PROVE  \E f : /\ ValueOf(s, b) = f[Len(s)]
                /\ f[0] = 0 /\ \A k \in 0 .. Len(s) : f[k] \in Nat
                /\ \A k \in 1 .. Len(s) : f[k] = b * f[k - 1] + s[k]
<1> DEFINE n == Len(s)
           Is(f) == f = [k \in 0 .. n |->
                          IF k = 0 THEN 0 ELSE b * f[k - 1] + s[k]]
           value == CHOOSE f : Is(f)
<1>1. n \in Nat /\ \A k \in 1 .. n : s[k] \in Nat
  OBVIOUS
<1>2. ASSUME NEW f
      PROVE  Horner(f, n, 0, b, s) <=> Is(f)
  BY DEF Horner
<1>3. \E f : Is(f)
  <2> HIDE DEF n, Is
  <2> QED BY <1>1, <1>2, HornerExists
<1>4. Is(value)
  BY <1>3
<1>5. ValueOf(s, b) = value[n]
  BY DEF ValueOf
<1>6. Horner(value, n, 0, b, s)
  BY <1>2, <1>4
<1> HIDE DEF n, value
<1>7. /\ value[0] = 0 /\ \A k \in 0 .. n : value[k] \in Nat
      /\ \A k \in 1 .. n : value[k] = b * value[k - 1] + s[k]
  BY <1>1, <1>6, HornerIsNumber
<1> QED BY <1>5, <1>7 DEF n

(* Whatever multiplies and adds the digits in turn is their value.         *)
LEMMA ValueBy ==
  ASSUME NEW b \in Nat, NEW s \in Seq(Nat), NEW f, f[0] = 0,
         \A k \in 1 .. Len(s) : f[k] = b * f[k - 1] + s[k]
  PROVE  ValueOf(s, b) = f[Len(s)]
<1> DEFINE n == Len(s)
<1>0. n \in Nat /\ \A k \in 1 .. n : s[k] \in Nat
  OBVIOUS
<1>1. PICK g : /\ ValueOf(s, b) = g[n] /\ g[0] = 0
               /\ \A k \in 1 .. n : g[k] = b * g[k - 1] + s[k]
  BY ValueIs
<1> DEFINE T == {k \in Nat : f[k] = g[k]}
<1>3. 0 \in T
  BY <1>1
<1>4. ASSUME NEW k \in 0 .. n - 1, k \in T
      PROVE  k + 1 \in T
  <2>1. /\ f[k + 1] = b * f[k] + s[k + 1]
        /\ g[k + 1] = b * g[k] + s[k + 1]
    BY <1>1
  <2> QED BY <1>4, <2>1
<1>5. n \in 0 .. n /\ \A k \in 0 .. n : k \in T
  <2>1. \A k \in 0 .. n : k \in T
    <3> HIDE DEF T, n
    <3> QED BY <1>0, <1>3, <1>4, UpTo
  <2> HIDE DEF T
  <2> QED BY <1>0, <2>1
<1> QED BY <1>1, <1>5

(* The first k digits are the value without the others.                    *)
LEMMA ValueOfFirst ==
  ASSUME NEW b \in Nat \ {0}, NEW s \in Seq(0 .. b - 1), NEW f,
         f[0] = 0, \A k \in 0 .. Len(s) : f[k] \in Nat,
         \A k \in 1 .. Len(s) : f[k] = b * f[k - 1] + s[k]
  PROVE  /\ f[Len(s)] < Power(b, Len(s))
         /\ \A k \in 0 .. Len(s) :
              f[Len(s) - k] = f[Len(s)] \div Power(b, k)
<1> DEFINE n == Len(s)
           S == {k \in Nat : f[k] < Power(b, k)}
           T == {k \in Nat : f[n - k] = f[n] \div Power(b, k)}
<1>1. n \in Nat /\ \A k \in 1 .. n : s[k] \in 0 .. b - 1
  OBVIOUS
<1> HIDE DEF n
<1>2. 0 \in S
  BY PowerOfZero
<1>3. ASSUME NEW k \in 0 .. n - 1, k \in S
      PROVE  k + 1 \in S
  <2>1. f[k + 1] = b * f[k] + s[k + 1] /\ f[k] \in Nat
        /\ s[k + 1] \in 0 .. b - 1
    BY <1>1 DEF n
  <2>2. Power(b, k + 1) = b * Power(b, k) /\ Power(b, k) \in Nat
    BY PowerIs
  <2>3. f[k] < Power(b, k)
    BY <1>3
  <2>4. b * f[k] + s[k + 1] < b * Power(b, k)
    BY <2>1, <2>2, <2>3, OneMoreDigit
  <2>5. f[k + 1] < Power(b, k + 1)
    BY <2>1, <2>2, <2>4
  <2> QED BY <2>5
<1>4. n \in 0 .. n /\ \A k \in 0 .. n : k \in S
  <2>1. \A k \in 0 .. n : k \in S
    <3> HIDE DEF S
    <3> QED BY <1>1, <1>2, <1>3, UpTo
  <2> QED BY <1>1, <2>1
<1>5. 0 \in T
  <2>1. Power(b, 0) = 1 /\ f[n] \in Nat
    BY <1>1, PowerOfZero DEF n
  <2> QED BY <1>1, <2>1
<1>6. ASSUME NEW k \in 0 .. n - 1, k \in T
      PROVE  k + 1 \in T
  <2>1. /\ f[n - k] = b * f[n - (k + 1)] + s[n - k]
        /\ f[n - (k + 1)] \in Nat /\ f[n] \in Nat
        /\ s[n - k] \in 0 .. b - 1
    BY <1>1 DEF n
  <2>2. Power(b, k + 1) = b * Power(b, k) /\ Power(b, k) \in Nat \ {0}
    BY PowerIs, PowerIsPositive
  <2>3. f[n - k] \div b = f[n - (k + 1)]
    <3>1. (b * f[n - (k + 1)] + s[n - k]) \div b = f[n - (k + 1)]
      BY <2>1, Quotient
    <3> QED BY ONLY <2>1, <3>1
  <2>4. f[n] \div (b * Power(b, k)) = (f[n] \div Power(b, k)) \div b
    BY <2>1, <2>2, DivInTwo
  <2>5. f[n - (k + 1)] = f[n] \div Power(b, k + 1)
    BY <1>6, <2>2, <2>3, <2>4
  <2> QED BY <2>5
<1>7. \A k \in 0 .. n : k \in T
  <2> HIDE DEF T
  <2> QED BY <1>1, <1>5, <1>6, UpTo
<1> QED BY <1>4, <1>7 DEF n

LEMMA DigitsOfValue ==
  ASSUME NEW b \in Nat \ {0}, NEW s \in Seq(0 .. b - 1)
  PROVE  /\ ValueOf(s, b) \in 0 .. Power(b, Len(s)) - 1
         /\ \A i \in 1 .. Len(s) :
              (ValueOf(s, b) \div Power(b, Len(s) - i)) % b = s[i]
<1>1. s \in Seq(Nat) /\ Len(s) \in Nat
      /\ \A k \in 1 .. Len(s) : s[k] \in 0 .. b - 1
  OBVIOUS
<1>2. PICK f : /\ ValueOf(s, b) = f[Len(s)]
               /\ f[0] = 0 /\ \A k \in 0 .. Len(s) : f[k] \in Nat
               /\ \A k \in 1 .. Len(s) : f[k] = b * f[k - 1] + s[k]
  BY <1>1, ValueIs
<1>3. /\ f[0] = 0 /\ \A k \in 0 .. Len(s) : f[k] \in Nat
      /\ \A k \in 1 .. Len(s) : f[k] = b * f[k - 1] + s[k]
  BY <1>2
<1>4. /\ f[Len(s)] < Power(b, Len(s))
      /\ \A k \in 0 .. Len(s) : f[Len(s) - k] = f[Len(s)] \div Power(b, k)
  BY <1>3, ValueOfFirst
<1>5. ASSUME NEW i \in 1 .. Len(s)
      PROVE  (ValueOf(s, b) \div Power(b, Len(s) - i)) % b = s[i]
  <2>1. f[i] = b * f[i - 1] + s[i] /\ f[i - 1] \in Nat /\ s[i] \in 0 .. b - 1
    BY <1>1, <1>3
  <2>2. f[i] % b = s[i]
    <3>1. (b * f[i - 1] + s[i]) % b = s[i]
      BY <2>1, Quotient
    <3> QED BY ONLY <2>1, <3>1
  <2>3. f[i] = f[Len(s)] \div Power(b, Len(s) - i)
    <3>1. Len(s) - i \in 0 .. Len(s) /\ Len(s) - (Len(s) - i) = i
      BY <1>1
    <3> QED BY <1>4, <3>1
  <2> QED BY <1>2, <2>2, <2>3
<1>6. f[Len(s)] \in Nat /\ Power(b, Len(s)) \in Nat
  <2>1. Len(s) \in 0 .. Len(s)
    BY <1>1
  <2> QED BY <1>1, <1>3, <2>1, PowerIs
<1> QED BY <1>2, <1>4, <1>5, <1>6

(* Writing a number in n digits and reading it loses nothing.              *)
LEMMA ValueOfWritten ==
  ASSUME NEW b \in Nat \ {0}, NEW n \in Nat, NEW x \in 0 .. Power(b, n) - 1
  PROVE  LET s == [i \in 1 .. n |-> (x \div Power(b, n - i)) % b]
         IN  s \in Seq(0 .. b - 1) /\ Len(s) = n /\ ValueOf(s, b) = x
<1> DEFINE s == [i \in 1 .. n |-> (x \div Power(b, n - i)) % b]
           f == [k \in 0 .. n |-> x \div Power(b, n - k)]
<1>1. \A k \in 0 .. n : Power(b, n - k) \in Nat \ {0}
  <2>1. \A k \in 0 .. n : n - k \in Nat
    OBVIOUS
  <2> QED BY <2>1, PowerIsPositive
<1>2. x \in Nat /\ \A k \in 0 .. n : x \div Power(b, n - k) \in Nat
  <2>1. x \in Nat
    BY PowerIsPositive
  <2> QED BY <1>1, <2>1, Division
<1>3. ASSUME NEW i \in 1 .. n
      PROVE  (x \div Power(b, n - i)) % b \in 0 .. b - 1
  <2>1. x \div Power(b, n - i) \in Nat
    BY <1>2
  <2> QED BY <2>1, Division
<1>4. s \in Seq(0 .. b - 1) /\ Len(s) = n
  BY <1>3
<1>5. f[0] = 0
  <2>1. x < Power(b, n - 0) /\ Power(b, n - 0) \in Nat \ {0} /\ x \in Nat
    BY <1>1, <1>2
  <2>2. x \div Power(b, n - 0) = 0
    BY <2>1
  <2> QED BY <2>2
<1>6. ASSUME NEW k \in 1 .. n
      PROVE  f[k] = b * f[k - 1] + s[k]
  <2> DEFINE d == Power(b, n - k)
             q == x \div d
  <2>1. d \in Nat \ {0} /\ q \in Nat
    BY <1>1, <1>2
  <2>2. Power(b, n - (k - 1)) = b * d
    <3>1. n - k \in Nat /\ n - (k - 1) = (n - k) + 1
      OBVIOUS
    <3> QED BY <3>1, PowerIs
  <2>3. f[k] = q /\ s[k] = q % b /\ f[k - 1] = x \div (b * d)
    BY <2>2
  <2> HIDE DEF d
  <2>4. x \div (b * d) = q \div b
    BY <1>2, <2>1, DivInTwo
  <2> HIDE DEF q
  <2>5. q = b * (q \div b) + (q % b)
    BY <2>1, Division
  <2> HIDE DEF f, s
  <2> QED BY <2>3, <2>4, <2>5
<1>7. ValueOf(s, b) = f[Len(s)]
  <2> HIDE DEF f, s
  <2>1. s \in Seq(Nat)
    BY <1>4
  <2> QED BY <1>4, <1>5, <1>6, <2>1, ValueBy
<1>8. f[n] = x
  <2>1. Power(b, n - n) = 1
    BY PowerIs
  <2> QED BY <1>2, <2>1
<1> HIDE DEF s
<1>9. ValueOf(s, b) = x
  BY <1>4, <1>7, <1>8
<1> QED BY <1>4, <1>9 DEF s

LEMMA ValueOfJoined ==
  ASSUME NEW b \in Nat \ {0}, NEW s \in Seq(Nat), NEW t \in Seq(Nat)
  PROVE  /\ ValueOf(s \o t, b)
              = ValueOf(s, b) * Power(b, Len(t)) + ValueOf(t, b)
         /\ ValueOf(s, b) \in Nat /\ ValueOf(t, b) \in Nat
<1>2. PICK f : /\ ValueOf(s, b) = f[Len(s)]
               /\ f[0] = 0 /\ \A k \in 0 .. Len(s) : f[k] \in Nat
               /\ \A k \in 1 .. Len(s) : f[k] = b * f[k - 1] + s[k]
  BY ValueIs
<1>3. PICK g : /\ ValueOf(t, b) = g[Len(t)]
               /\ g[0] = 0 /\ \A k \in 0 .. Len(t) : g[k] \in Nat
               /\ \A k \in 1 .. Len(t) : g[k] = b * g[k - 1] + t[k]
  BY ValueIs
<1> DEFINE n == Len(s)
           l == Len(t)
<1>1. /\ n \in Nat /\ l \in Nat /\ s \o t \in Seq(Nat) /\ Len(s \o t) = n + l
      /\ \A k \in 1 .. n : (s \o t)[k] = s[k] /\ s[k] \in Nat
      /\ \A k \in 1 .. l : (s \o t)[n + k] = t[k] /\ t[k] \in Nat
  OBVIOUS
<1>4. /\ ValueOf(s, b) = f[n]
      /\ f[0] = 0 /\ \A k \in 0 .. n : f[k] \in Nat
      /\ \A k \in 1 .. n : f[k] = b * f[k - 1] + s[k]
  BY <1>2
<1>5. /\ ValueOf(t, b) = g[l]
      /\ g[0] = 0 /\ \A k \in 0 .. l : g[k] \in Nat
      /\ \A k \in 1 .. l : g[k] = b * g[k - 1] + t[k]
  BY <1>3
<1> HIDE DEF n, l
<1> DEFINE both == [k \in 0 .. n + l |->
                      IF k <= n THEN f[k]
                      ELSE f[n] * Power(b, k - n) + g[k - n]]
<1>6. both[0] = 0
  BY <1>1, <1>4
<1>7. ASSUME NEW k \in 1 .. n + l
      PROVE  both[k] = b * both[k - 1] + (s \o t)[k]
  <2>1. CASE k <= n
    BY <1>1, <1>4, <2>1
  <2>2. CASE k > n
    <3> DEFINE j == k - n
               p == Power(b, j - 1)
    <3>1. j \in 1 .. l /\ j - 1 \in Nat /\ k = n + j
      BY <1>1, <2>2
    <3>2. Power(b, j) = b * p /\ p \in Nat
      <4>1. (j - 1) + 1 = j
        BY <3>1
      <4> HIDE DEF j
      <4> QED BY <3>1, <4>1, PowerIs
    <3>3. (s \o t)[k] = t[j] /\ t[j] \in Nat /\ g[j] = b * g[j - 1] + t[j]
          /\ g[j - 1] \in Nat /\ f[n] \in Nat
      <4>1. f[n] \in Nat /\ j - 1 \in 0 .. l
        BY <1>1, <1>4, <3>1
      <4> HIDE DEF j
      <4>2. (s \o t)[k] = t[j] /\ t[j] \in Nat
        BY <1>1, <3>1
      <4> QED BY <1>5, <3>1, <4>1, <4>2
    <3>4. both[k] = f[n] * Power(b, j) + g[j]
      BY <1>1, <2>2
    <3>5. both[k - 1] = f[n] * p + g[j - 1]
      <4>1. CASE j = 1
        <5>1. p = 1 /\ g[j - 1] = 0 /\ both[k - 1] = f[n]
          BY <1>1, <1>5, <4>1, PowerOfZero
        <5> QED BY <3>3, <5>1
      <4>2. CASE j > 1
        BY <1>1, <4>2
      <4> QED BY <3>1, <4>1, <4>2
    <3> DEFINE x == f[n]
               y == g[j - 1]
               c == t[j]
    <3>6. /\ x \in Nat /\ y \in Nat /\ c \in Nat
          /\ both[k] = x * (b * p) + (b * y + c)
          /\ both[k - 1] = x * p + y /\ (s \o t)[k] = c
      BY <3>2, <3>3, <3>4, <3>5
    <3> HIDE DEF both, x, y, c, j, p
    <3>7. x * (b * p) = b * (x * p)
      BY <3>2, <3>6, Swapped
    <3>8. x * p \in Nat
      BY <3>2, <3>6
    <3>9. b * (x * p + y) = b * (x * p) + b * y
      BY <3>6, <3>8, Distributed
    <3> QED BY <3>6, <3>7, <3>8, <3>9
  <2> QED BY <1>1, <2>1, <2>2
<1>8. ValueOf(s \o t, b) = both[n + l]
  <2> DEFINE x == s \o t
  <2>1. x \in Seq(Nat) /\ Len(x) = n + l /\ b \in Nat
    BY <1>1
  <2>2. \A k \in 1 .. Len(x) : both[k] = b * both[k - 1] + x[k]
    BY <1>1, <1>7
  <2> HIDE DEF both, x
  <2>3. ValueOf(x, b) = both[Len(x)]
    BY ONLY <1>6, <2>1, <2>2, ValueBy
  <2> QED BY <2>1, <2>3 DEF x
<1>9. both[n + l] = f[n] * Power(b, l) + g[l]
  <2>1. CASE l = 0
    <3>1. both[n + l] = f[n] /\ Power(b, l) = 1 /\ g[l] = 0 /\ f[n] \in Nat
      BY <1>1, <1>4, <1>5, <2>1, PowerOfZero
    <3> HIDE DEF both
    <3> QED BY <3>1
  <2>2. CASE l > 0
    BY <1>1, <2>2
  <2> QED BY <1>1, <2>1, <2>2
<1>10. f[n] \in Nat /\ g[l] \in Nat
  BY <1>1, <1>4, <1>5
<1> QED BY <1>4, <1>5, <1>8, <1>9, <1>10 DEF l

(* Digits that are numbers, as a text of digits and junk.                  *)
LEMMA NumberIsDigits ==
  ASSUME NEW b \in Nat \ {0}, NEW s \in Text(b), IsNumber(s, b)
  PROVE  s \in Seq(0 .. b - 1) /\ s \in Seq(Nat) /\ Len(s) \in Nat
<1>1. Len(s) \in Nat /\ DOMAIN s = 1 .. Len(s)
      /\ s = [i \in 1 .. Len(s) |-> s[i]]
  BY DEF Text
<1>2. \A i \in 1 .. Len(s) : s[i] \in 0 .. b - 1
  BY <1>1 DEF IsNumber, ToSet
<1>3. s \in Seq(0 .. b - 1)
  <2>1. s \in [1 .. Len(s) -> 0 .. b - 1]
    BY <1>1, <1>2
  <2> QED BY <1>1, <2>1
<1>4. s \in Seq(Nat)
  BY <1>3
<1> QED BY <1>1, <1>3, <1>4

LEMMA QuotientOfLess ==
  ASSUME NEW a \in Nat, NEW d \in Nat, a < d
  PROVE  a \div d = 0
OBVIOUS

LEMMA HexIsExact == HexExact
<1> SUFFICES ASSUME NEW s \in HexTexts, FromHex(s) # NoTarget
             PROVE  LET written == AsHex(FromHex(s))
                        shift == 2 * Width - Len(s)
                    IN  /\ shift \in 0 .. 2 * Width - 1
                        /\ FromHex(written) = FromHex(s)
                        /\ \A i \in 1 .. 2 * Width :
                             written[i] = IF i > shift THEN s[i - shift]
                                          ELSE 0
  BY DEF HexExact
<1> DEFINE n == Len(s)
           l == 2 * Width
           x == ValueOf(s, HexBase)
           t == AsHex(x)
<1>1. HexBase \in Nat \ {0} /\ l \in Nat \ {0} /\ s \in Text(HexBase)
  BY TargetAssumption, TextAssumption
<1>2. FromHex(s) = x /\ IsNumber(s, HexBase) /\ n <= l
  BY DEF FromHex
<1>3. s \in Seq(0 .. HexBase - 1) /\ n \in Nat
  BY <1>1, <1>2, NumberIsDigits
<1>4. /\ x \in 0 .. Power(HexBase, n) - 1
      /\ \A i \in 1 .. n : (x \div Power(HexBase, n - i)) % HexBase = s[i]
  BY <1>1, <1>3, DigitsOfValue
<1>5. \A k \in n .. l : /\ Power(HexBase, n) <= Power(HexBase, k)
                        /\ Power(HexBase, n) \in Nat
                        /\ Power(HexBase, k) \in Nat
  <2>1. \A k \in n .. l : k \in Nat /\ n \in 0 .. k
    BY <1>3
  <2> HIDE DEF n
  <2> QED BY <1>1, <1>3, <2>1, PowerGrows, PowerIsPositive
<1>6. x \in 0 .. Power(HexBase, l) - 1
  <2>1. l \in n .. l
    BY <1>1, <1>2, <1>3
  <2> QED BY <1>4, <1>5, <2>1
<1>7. /\ t \in Seq(0 .. HexBase - 1) /\ Len(t) = l
      /\ ValueOf(t, HexBase) = x
  <2>1. l \in Nat /\ t = [i \in 1 .. l |-> (x \div Power(HexBase, l - i)) % HexBase]
    BY <1>1 DEF AsHex
  <2> HIDE DEF x, l, t
  <2> QED BY <1>1, <1>6, <2>1, ValueOfWritten
<1>8. FromHex(t) = x
  <2>1. t # <<>> /\ ToSet(t) \subseteq 0 .. HexBase - 1
    BY <1>1, <1>7 DEF ToSet
  <2> QED BY <1>1, <1>7, <2>1 DEF FromHex, IsNumber
<1>9. ASSUME NEW i \in 1 .. l
      PROVE  t[i] = IF i > l - n THEN s[i - (l - n)] ELSE 0
  <2>1. t[i] = (x \div Power(HexBase, l - i)) % HexBase
    BY DEF AsHex
  <2>2. CASE i > l - n
    <3> DEFINE j == i - (l - n)
    <3>1. j \in 1 .. n /\ n - j = l - i
      BY <1>1, <1>2, <1>3, <2>2
    <3> HIDE DEF j, n, l, x
    <3> QED BY <1>4, <2>1, <2>2, <3>1 DEF j
  <2>3. CASE ~ (i > l - n)
    <3>1. l - i \in n .. l
      BY <1>1, <1>2, <1>3, <2>3
    <3>2. x \in Nat /\ Power(HexBase, l - i) \in Nat
          /\ x < Power(HexBase, l - i)
      BY <1>4, <1>5, <3>1
    <3>3. x \div Power(HexBase, l - i) = 0
      BY <3>2, QuotientOfLess
    <3> QED BY <1>1, <2>1, <2>3, <3>3
  <2> QED BY <2>2, <2>3
<1>10. l - n \in 0 .. l - 1
  <2>1. n # 0
    BY <1>2, <1>3 DEF IsNumber
  <2> HIDE DEF n, l
  <2> QED BY <1>1, <1>2, <1>3, <2>1
<1> QED BY <1>2, <1>8, <1>9, <1>10

(* Shifting rounds down what the compact form says.                        *)
LEMMA ShiftedIs ==
  ASSUME NEW e \in Nat, NEW low \in Nat
  PROVE  LET up == Power(ByteBase, e)
             down == Power(ByteBase, 3)
             t == Shifted(low, e)
         IN  /\ t \in Nat /\ t * down <= low * up
             /\ low * up < (t + 1) * down
<1> DEFINE up == Power(ByteBase, e)
           down == Power(ByteBase, 3)
           t == Shifted(low, e)
<1>1. ByteBase \in Nat \ {0}
  BY TargetAssumption DEF ByteBase
<1>2. up \in Nat \ {0} /\ down \in Nat \ {0}
  BY <1>1, PowerIsPositive
<1>3. CASE e <= 3
  <2> DEFINE p == Power(ByteBase, 3 - e)
  <2>1. p \in Nat \ {0} /\ down = up * p
    <3>1. 3 - e \in Nat /\ e + (3 - e) = 3
      BY <1>3
    <3> QED BY <1>1, <3>1, PowerIsPositive, PowerOfSum
  <2>2. t = low \div p
    BY <1>3 DEF Shifted
  <2> HIDE DEF p, t, up, down
  <2>3. t \in Nat /\ p * t <= low /\ low < p * (t + 1)
    BY <2>1, <2>2, Division
  <2>4. up * (p * t) <= up * low /\ up * low < up * (p * (t + 1))
    BY <1>2, <2>1, <2>3
  <2>5. up * (p * t) = t * down /\ up * (p * (t + 1)) = (t + 1) * down
    BY <1>2, <2>1, <2>3
  <2> QED BY <1>2, <2>3, <2>4, <2>5 DEF t, up, down
<1>4. CASE e > 3
  <2> DEFINE p == Power(ByteBase, e - 3)
  <2>1. p \in Nat \ {0} /\ up = down * p
    <3>1. e - 3 \in Nat /\ 3 + (e - 3) = e
      BY <1>4
    <3> QED BY <1>1, <3>1, PowerIsPositive, PowerOfSum
  <2>2. t = low * p
    BY <1>4 DEF Shifted
  <2> HIDE DEF p, t, up, down
  <2>3. t \in Nat /\ t * down = low * up
    BY <1>2, <2>1, <2>2
  <2>4. (t + 1) * down = t * down + down
    BY <1>2, <2>3
  <2> QED BY <1>2, <2>3, <2>4 DEF t, up, down
<1> QED BY <1>3, <1>4

LEMMA LargestIs == LargestTarget \in Nat
<1>1. Power(ByteBase, Width) \in Nat \ {0}
  <2>1. ByteBase \in Nat \ {0} /\ Width \in Nat
    BY TargetAssumption DEF ByteBase
  <2> QED BY <2>1, PowerIsPositive
<1> QED BY <1>1 DEF LargestTarget

LEMMA CompactIsExact == CompactExact
<1> SUFFICES ASSUME NEW e \in 0 .. MaxExponent,
                    NEW low \in 0 .. Power(ByteBase, 3) - 1
             PROVE  LET target == FromCompact(e, low)
                        up == Power(ByteBase, e)
                        down == Power(ByteBase, 3)
                    IN  IF target = NoTarget
                          THEN \/ low >= SignBit \/ low * up < down
                               \/ low * up >= down * (LargestTarget + 1)
                          ELSE /\ target * down <= low * up
                               /\ low * up < (target + 1) * down
  BY DEF CompactExact
<1> DEFINE target == FromCompact(e, low)
           up == Power(ByteBase, e)
           down == Power(ByteBase, 3)
           t == Shifted(low, e)
<1>1. ByteBase \in Nat \ {0} /\ ByteBase >= 2 /\ e \in Nat /\ low \in Nat
  BY TargetAssumption, TextAssumption DEF ByteBase
<1>2. up \in Nat \ {0} /\ down \in Nat \ {0} /\ SignBit \in Nat
  BY <1>1, PowerIsPositive DEF SignBit
<1>3. t \in Nat /\ t * down <= low * up /\ low * up < (t + 1) * down
  BY <1>1, ShiftedIs
<1>4. CASE low >= SignBit
  <2>1. target = NoTarget
    BY <1>4 DEF FromCompact
  <2> QED BY <1>4, <2>1
<1>5. CASE low < SignBit
  <2>1. low % SignBit = low
    BY <1>1, <1>2, <1>5
  <2>2. target = IF low = 0 \/ t = 0 \/ t > LargestTarget THEN NoTarget ELSE t
    BY <1>2, <1>1, <1>5, <2>1 DEF FromCompact
  <2>3. NoTarget # t
    BY <1>3 DEF NoTarget
  <2> HIDE DEF t, up, down, target
  <2>4. low = 0 \/ t = 0 => low * up < down
    BY <1>1, <1>2, <1>3
  <2>5. t > LargestTarget => low * up >= down * (LargestTarget + 1)
    <3> SUFFICES ASSUME t > LargestTarget
                 PROVE  low * up >= down * (LargestTarget + 1)
      OBVIOUS
    <3>1. down * (LargestTarget + 1) <= down * t
      BY <1>2, <1>3, LargestIs, ProductGrows
    <3>2. down * t = t * down
      BY <1>2, <1>3
    <3> QED BY <1>1, <1>2, <1>3, <3>1, <3>2, LargestIs
  <2>6. target = t => target # NoTarget
    BY <2>3
  <2>7. CASE low = 0 \/ t = 0 \/ t > LargestTarget
    BY <2>2, <2>4, <2>5, <2>7 DEF target, up, down
  <2>8. CASE ~ (low = 0 \/ t = 0 \/ t > LargestTarget)
    BY <1>3, <2>2, <2>3, <2>8 DEF target, up, down
  <2> QED BY <2>7, <2>8
<1> QED BY <1>1, <1>2, <1>4, <1>5

LEMMA SeqOfNumbers ==
  ASSUME NEW S, NEW a \in Seq(S), \A i \in 1 .. Len(a) : a[i] \in Nat
  PROVE  a \in Seq(Nat)
<1>1. Len(a) \in Nat /\ a \in [1 .. Len(a) -> S]
  OBVIOUS
<1>2. a \in [1 .. Len(a) -> Nat]
  BY <1>1
<1> QED BY ONLY <1>1, <1>2

LEMMA PartsJoined ==
  ASSUME NEW S, NEW a \in Seq(S), NEW c \in Seq(S),
         \A i \in 1 .. Len(a) + Len(c) : (a \o c)[i] \in Nat
  PROVE  a \in Seq(Nat) /\ c \in Seq(Nat)
<1>0. \A i \in 1 .. Len(a) + Len(c) : (a \o c)[i] \in Nat
  OBVIOUS
<1>1. ASSUME NEW i \in 1 .. Len(a)
      PROVE  a[i] \in Nat
  <2>1. i \in 1 .. Len(a) + Len(c) /\ (a \o c)[i] = a[i]
    OBVIOUS
  <2> QED BY ONLY <1>0, <2>1
<1>2. ASSUME NEW i \in 1 .. Len(c)
      PROVE  c[i] \in Nat
  <2>1. Len(a) + i \in 1 .. Len(a) + Len(c) /\ (a \o c)[Len(a) + i] = c[i]
    OBVIOUS
  <2> QED BY ONLY <1>0, <2>1
<1>3. a \in Seq(Nat)
  BY <1>1, SeqOfNumbers
<1>4. c \in Seq(Nat)
  BY <1>2, SeqOfNumbers
<1> QED BY <1>3, <1>4

LEMMA NumbersJoined ==
  ASSUME NEW a \in DecimalText, NEW c \in DecimalText, IsNumber(a \o c, 10)
  PROVE  a \in Seq(Nat) /\ c \in Seq(Nat)
<1> DEFINE S == (0 .. 9) \union {NoDigit, PlusSign, Underscore}
<1>1. a \in Seq(S) /\ c \in Seq(S)
  BY DEF DecimalText
<1> HIDE DEF S
<1>2. DOMAIN (a \o c) = 1 .. Len(a) + Len(c)
  BY <1>1
<1>3. ASSUME NEW i \in 1 .. Len(a) + Len(c)
      PROVE  (a \o c)[i] \in Nat
  <2> DEFINE x == a \o c
  <2>1. ToSet(x) \subseteq 0 .. 10 - 1
    BY DEF IsNumber
  <2>2. i \in DOMAIN x
    BY <1>2
  <2> HIDE DEF x
  <2>3. x[i] \in 0 .. 10 - 1
    BY <2>1, <2>2 DEF ToSet
  <2>4. x[i] \in Nat
    BY <2>3
  <2> QED BY <2>4 DEF x
<1> QED BY ONLY <1>1, <1>3, PartsJoined

(* parse_bytes reads plain digits as their value.                          *)
LEMMA ParsedIs ==
  ASSUME NEW s \in Seq(Nat), IsNumber(s, 10)
  PROVE  Parses(s) /\ Parsed(s) = ValueOf(s, 10)
<1> DEFINE n == Len(s)
           Is(f) == f = [k \in 0 .. n |->
                          IF k = 0 THEN 0
                          ELSE IF s[k] = Underscore THEN f[k - 1]
                          ELSE 10 * f[k - 1] + s[k]]
           value == CHOOSE f : Is(f)
<1>1. n \in Nat /\ \A k \in 1 .. n : s[k] \in Nat /\ s[k] # Underscore
  BY TargetAssumption
<1>2. Unsigned(s) = s
  <2>1. CASE s = <<>>
    BY <2>1 DEF Unsigned
  <2>2. CASE s # <<>>
    <3>1. s[1] \in Nat
      BY <2>2
    <3>2. s[1] # PlusSign
      BY <3>1, TargetAssumption
    <3> QED BY <3>2 DEF Unsigned
  <2> QED BY <2>1, <2>2
<1>3. Parses(s)
  <2>1. s # <<>> /\ ToSet(s) \subseteq 0 .. 10 - 1
    BY DEF IsNumber
  <2>2. s[1] # Underscore
    BY <1>1, <2>1
  <2> QED BY <1>2, <2>1, <2>2 DEF Parses
<1>4. ASSUME NEW f
      PROVE  Horner(f, n, 0, 10, s) <=> Is(f)
  BY <1>1 DEF Horner
<1>5. \E f : Is(f)
  <2> HIDE DEF n, Is
  <2> QED BY <1>1, <1>4, HornerExists
<1>6. Is(value)
  BY <1>5
<1>7. Parsed(s) = value[n]
  BY <1>2 DEF Parsed
<1>8. Horner(value, n, 0, 10, s)
  BY <1>4, <1>6
<1> HIDE DEF n, value
<1>9. value[0] = 0 /\ \A k \in 1 .. n : value[k] = 10 * value[k - 1] + s[k]
  BY <1>1, <1>8, HornerIsNumber
<1>10. ValueOf(s, 10) = value[n]
  BY <1>9, ValueBy DEF n
<1> QED BY <1>3, <1>7, <1>10

LEMMA Beyond ==
  ASSUME NEW n \in Nat, NEW e \in Int, e > n
  PROVE  /\ e - n \in Nat /\ n + (e - n) = e /\ - (n - e) = e - n
         /\ ~ (n - e >= 0) /\ ~ (e < 0)
OBVIOUS

(* What Ratio gives is what d says, but for a factor of both.              *)
LEMMA RatioIs ==
  ASSUME NEW d \in Difficulties, Plain(d),
         Scale(d) = Len(d.fraction) - d.exponent
  PROVE  LET point == Power(10, Len(d.fraction))
             digits == ValueOf(d.whole, 10) * point + ValueOf(d.fraction, 10)
             p == IF d.exponent < 0 THEN digits
                  ELSE digits * Power(10, d.exponent)
             q == IF d.exponent < 0 THEN point * Power(10, - d.exponent)
                  ELSE point
         IN  /\ IsDecimal(d) /\ Ratio(d)[1] \in Nat /\ Ratio(d)[2] \in Nat
             /\ \E k \in Nat \ {0} : p = k * Ratio(d)[1] /\ q = k * Ratio(d)[2]
<1> DEFINE n == Len(d.fraction)
           e == d.exponent
           s == d.whole \o d.fraction
           digits == ValueOf(s, 10)
           point == Power(10, n)
           r == Ratio(d)
           ten == 10
           sum == ValueOf(d.whole, 10) * point + ValueOf(d.fraction, 10)
           p == IF e < 0 THEN sum ELSE sum * Power(10, e)
           q == IF e < 0 THEN point * Power(10, - e) ELSE point
<1> SUFFICES /\ IsDecimal(d) /\ r[1] \in Nat /\ r[2] \in Nat
             /\ \E k \in Nat \ {0} : p = k * r[1] /\ q = k * r[2]
  OBVIOUS
<1>1. /\ d.whole \in Seq(Nat) /\ d.fraction \in Seq(Nat) /\ n \in Nat
      /\ e \in Int /\ Scale(d) = n - e
  <2>1. d.whole \in DecimalText /\ d.fraction \in DecimalText
        /\ e \in Int \union {NoDigit}
    BY TextAssumption
  <2>2. e \in Int
    BY <2>1 DEF Plain
  <2>3. d.whole \in Seq(Nat) /\ d.fraction \in Seq(Nat)
    BY <2>1, NumbersJoined DEF Plain
  <2> QED BY <2>2, <2>3
<1>7. IsDecimal(d) /\ Parsed(s) = digits
  <2>1. s \in Seq(Nat) /\ IsNumber(s, 10)
    BY <1>1 DEF Plain
  <2> HIDE DEF s
  <2>2. Parses(s) /\ Parsed(s) = ValueOf(s, 10)
    BY <2>1, ParsedIs
  <2> QED BY <2>2 DEF IsDecimal, Plain, s
<1>2. /\ digits = sum
      /\ digits \in Nat /\ point \in Nat \ {0}
  <2>1. s \in Seq(Nat) /\ 10 \in Nat \ {0} /\ 10 \in Nat
    BY <1>1
  <2>2. point \in Nat \ {0}
    BY <1>1, <2>1, PowerIsPositive
  <2>3. /\ digits = ValueOf(d.whole, 10) * point + ValueOf(d.fraction, 10)
        /\ ValueOf(d.whole, 10) \in Nat /\ ValueOf(d.fraction, 10) \in Nat
    BY <1>1, <2>1, ValueOfJoined
  <2> HIDE DEF digits, point
  <2> QED BY <2>2, <2>3
<1>3. ten \in Nat \ {0} /\ ten \in Nat
  OBVIOUS
<1> HIDE DEF ten, sum
<1>4. CASE e < 0
  <2>1. n - e \in Nat /\ - e \in Nat /\ n + (- e) = n - e
    BY <1>1, <1>4
  <2>2. r = <<digits, Power(ten, n - e)>>
    BY <1>1, <1>4, <1>7 DEF Ratio, ten
  <2>3. Power(ten, n - e) = Power(ten, n) * Power(ten, - e)
        /\ Power(ten, n - e) \in Nat
    BY <1>1, <1>3, <2>1, PowerOfSum, PowerIsPositive
  <2> HIDE DEF digits, r
  <2>4. /\ digits = 1 * r[1] /\ Power(ten, n - e) = 1 * r[2]
        /\ r[1] \in Nat /\ r[2] \in Nat
    BY <1>2, <2>2, <2>3
  <2>5. point * Power(10, - e) = 1 * r[2]
    BY <2>3, <2>4 DEF ten
  <2>6. p = 1 * r[1] /\ q = 1 * r[2]
    BY <1>2, <1>4, <2>4, <2>5
  <2> HIDE DEF p, q
  <2> QED BY <1>7, <2>4, <2>6
<1>5. CASE e \in 0 .. n
  <2> DEFINE a == Power(ten, e)
             c == Power(ten, n - e)
  <2>1. n - e \in Nat /\ e \in Nat /\ e + (n - e) = n
    BY <1>1, <1>5
  <2>2. r = <<digits, c>>
    BY <1>1, <1>5, <1>7 DEF Ratio, ten
  <2>3. point = a * c /\ a \in Nat \ {0} /\ c \in Nat
    <3>1. Power(ten, e + (n - e)) = a * c /\ a \in Nat \ {0} /\ c \in Nat
      BY <1>3, <2>1, PowerOfSum, PowerIsPositive
    <3> QED BY <2>1, <3>1 DEF ten
  <2>4. a = Power(10, d.exponent)
    BY DEF ten
  <2> HIDE DEF digits, r, a, c, point
  <2>5. /\ digits * a = a * r[1] /\ point = a * r[2]
        /\ r[1] \in Nat /\ r[2] \in Nat
    BY <1>2, <2>2, <2>3
  <2>6. ~ (e < 0)
    BY <1>1, <1>5
  <2>7. p = a * r[1] /\ q = a * r[2]
    BY <1>2, <2>4, <2>5, <2>6
  <2> HIDE DEF p, q
  <2> QED BY <1>7, <2>3, <2>5, <2>7
<1>6. CASE e > n
  <2> DEFINE a == Power(ten, e - n)
  <2>1. e - n \in Nat /\ n + (e - n) = e /\ - (n - e) = e - n
        /\ ~ (n - e >= 0) /\ ~ (e < 0)
    <3> HIDE DEF n, e
    <3> QED BY <1>1, <1>6, Beyond
  <2>2. r = <<digits * a, 1>>
    BY <1>1, <2>1, <1>7 DEF Ratio, ten
  <2>3. Power(10, d.exponent) = point * a /\ a \in Nat
    <3>1. Power(ten, n + (e - n)) = Power(ten, n) * a /\ a \in Nat
      <4> HIDE DEF n, e
      <4> QED BY <1>1, <1>3, <2>1, PowerOfSum, PowerIsPositive
    <3> QED BY <2>1, <3>1 DEF ten
  <2> HIDE DEF digits, r, a, point
  <2>4. digits * (point * a) = point * (digits * a)
    BY <1>2, <2>3, Swapped
  <2>5. /\ digits * Power(10, d.exponent) = point * r[1]
        /\ point = point * r[2] /\ r[1] \in Nat /\ r[2] \in Nat
    BY <1>2, <2>2, <2>3, <2>4
  <2>6. p = point * r[1] /\ q = point * r[2]
    BY <1>2, <2>1, <2>5
  <2> HIDE DEF p, q
  <2> QED BY <1>7, <1>2, <2>5, <2>6
<1> QED BY <1>1, <1>4, <1>5, <1>6, <1>7

(* Rounding down is what it is if both sides have a factor.                *)
LEMMA RoundedDown ==
  ASSUME NEW c \in Nat, NEW r \in Nat \ {0}, NEW k \in Nat \ {0}
  PROVE  LET t == c \div r
         IN  /\ t \in Nat /\ t * (k * r) <= k * c /\ k * c < (t + 1) * (k * r)
<1> DEFINE t == c \div r
<1>1. t \in Nat /\ r * t <= c /\ c < r * (t + 1)
  BY Division
<1> HIDE DEF t
<1>2. k * (r * t) <= k * c /\ k * c < k * (r * (t + 1))
  BY <1>1
<1>3. k * (r * t) = t * (k * r) /\ k * (r * (t + 1)) = (t + 1) * (k * r)
  BY <1>1
<1> QED BY <1>1, <1>2, <1>3 DEF t

LEMMA PlainIsExact == PlainExact
<1> SUFFICES ASSUME NEW d \in Difficulties, Plain(d),
                    Scale(d) = Len(d.fraction) - d.exponent
             PROVE  LET point == Power(10, Len(d.fraction))
                        digits == ValueOf(d.whole, 10) * point
                                    + ValueOf(d.fraction, 10)
                        p == IF d.exponent < 0 THEN digits
                             ELSE digits * Power(10, d.exponent)
                        q == IF d.exponent < 0
                               THEN point * Power(10, - d.exponent)
                             ELSE point
                        target == FromDifficulty(d)
                    IN  IF p = 0 THEN target = NoTarget
                        ELSE IF target = LargestTarget
                          THEN target * p <= DifficultyOne * q
                        ELSE /\ target * p <= DifficultyOne * q
                             /\ DifficultyOne * q < (target + 1) * p
  BY DEF PlainExact
<1> DEFINE point == Power(10, Len(d.fraction))
           digits == ValueOf(d.whole, 10) * point + ValueOf(d.fraction, 10)
           p == IF d.exponent < 0 THEN digits
                ELSE digits * Power(10, d.exponent)
           q == IF d.exponent < 0 THEN point * Power(10, - d.exponent)
                ELSE point
           target == FromDifficulty(d)
           r == Ratio(d)[1]
           s == Ratio(d)[2]
           t == (DifficultyOne * s) \div r
<1>1. /\ IsDecimal(d) /\ r \in Nat /\ s \in Nat
      /\ \E k \in Nat \ {0} : p = k * r /\ q = k * s
  BY RatioIs
<1> HIDE DEF p, q, r, s, point, digits
<1>2. PICK k \in Nat \ {0} : p = k * r /\ q = k * s
  BY <1>1
<1>3. DifficultyOne \in Nat /\ DifficultyOne * s \in Nat
  BY <1>1, TargetAssumption
<1>4. CASE r = 0
  <2>1. p = 0
    BY <1>2, <1>4
  <2>2. target = NoTarget
    BY <1>4 DEF FromDifficulty, r
  <2> QED BY <2>1, <2>2 DEF p, digits, point
<1>5. CASE r # 0
  <2>1. p # 0 /\ p \in Nat /\ q \in Nat
    BY <1>1, <1>2, <1>5
  <2>2. target = IF t > LargestTarget THEN LargestTarget ELSE t
    BY <1>1, <1>5 DEF FromDifficulty, Saturated, r, s
  <2>3. t \in Nat /\ t * p <= DifficultyOne * q
        /\ DifficultyOne * q < (t + 1) * p
    <3>1. k * (DifficultyOne * s) = DifficultyOne * q
      BY <1>1, <1>2, <1>3, Swapped
    <3> QED BY <1>1, <1>2, <1>3, <1>5, <3>1, RoundedDown
  <2> HIDE DEF t, target
  <2>4. CASE t > LargestTarget
    <3>1. LargestTarget * p <= t * p
      BY <2>1, <2>3, <2>4, LargestIs
    <3>2. target = LargestTarget /\ target * p <= DifficultyOne * q
      <4>1. LargestTarget * p \in Nat /\ t * p \in Nat
            /\ DifficultyOne * q \in Nat
        BY <1>3, <2>1, <2>3, LargestIs
      <4> QED BY <2>2, <2>3, <2>4, <3>1, <4>1
    <3> QED BY <2>1, <3>2 DEF p, q, digits, point, target
  <2>5. CASE ~ (t > LargestTarget)
    BY <2>1, <2>2, <2>3, <2>5 DEF p, q, digits, point, target
  <2> QED BY <2>4, <2>5
<1> QED BY <1>1, <1>4, <1>5

(* What parse_bytes takes begins with a digit and has no other characters. *)
LEMMA JunkIsRefused == JunkRefused
<1> SUFFICES ASSUME NEW d \in Difficulties, IsDecimal(d)
             PROVE  SaysSomething(d)
  BY DEF JunkRefused, FromDifficulty
<1> DEFINE S == (0 .. 9) \union {NoDigit, PlusSign, Underscore}
           s == d.whole \o d.fraction
           u == Unsigned(s)
<1>1. s \in Seq(S)
  <2>1. d.whole \in Seq(S) /\ d.fraction \in Seq(S)
    BY TextAssumption DEF DecimalText
  <2> HIDE DEF S
  <2> QED BY <2>1
<1>2. /\ u # <<>> /\ u[1] # Underscore
      /\ ToSet(u) \subseteq (0 .. 9) \union {Underscore}
  BY DEF IsDecimal, Parses
<1>3. u = s \/ (s # <<>> /\ s[1] = PlusSign /\ u = Tail(s))
  BY DEF Unsigned
<1> HIDE DEF u, S, s
<1>4. /\ u \in Seq(S) /\ ToSet(u) \subseteq ToSet(s)
      /\ ToSet(s) \subseteq ToSet(u) \union {PlusSign}
  <2>1. CASE u = s
    BY <1>1, <2>1 DEF ToSet
  <2>2. CASE s # <<>> /\ s[1] = PlusSign /\ u = Tail(s)
    <3>1. /\ u \in Seq(S) /\ Len(u) = Len(s) - 1 /\ Len(s) \in Nat \ {0}
          /\ \A i \in 1 .. Len(u) : u[i] = s[i + 1]
      BY <1>1, <2>2
    <3>2. DOMAIN u = 1 .. Len(u) /\ DOMAIN s = 1 .. Len(s)
      BY <1>1, <3>1
    <3>3. ASSUME NEW i \in DOMAIN u
          PROVE  u[i] \in ToSet(s)
      BY <3>1, <3>2 DEF ToSet
    <3>4. ASSUME NEW i \in DOMAIN s
          PROVE  s[i] \in ToSet(u) \union {PlusSign}
      <4>1. CASE i = 1
        BY <2>2, <4>1
      <4>2. CASE i # 1
        <5>1. i - 1 \in DOMAIN u /\ u[i - 1] = s[i]
          BY <3>1, <3>2, <4>2
        <5> QED BY <5>1 DEF ToSet
      <4> QED BY <4>1, <4>2
    <3> QED BY <3>1, <3>3, <3>4 DEF ToSet
  <2> QED BY <1>3, <2>1, <2>2
<1>5. u[1] \in ToSet(u)
  BY <1>2, <1>4 DEF ToSet
<1>6. u[1] \in 0 .. 9 /\ u[1] \in ToSet(s)
  BY <1>2, <1>4, <1>5
<1>7. NoDigit \notin ToSet(s)
  BY <1>2, <1>4, TargetAssumption
<1>8. ~d.negative /\ d.exponent # NoDigit
  BY DEF IsDecimal
<1> QED BY <1>6, <1>7, <1>8 DEF SaysSomething, s

LEMMA DifficultyIsExact == DifficultyExact
BY PlainIsExact, JunkIsRefused DEF DifficultyExact

(* Whatever width targets have and whatever a pool writes, from_hex,       *)
(* from_compact_hex and from_stratum_difficulty give exactly the number it *)
(* means, rounded down, and as_hex writes it back.                         *)
THEOREM TargetsAlwaysExact == Spec => []TargetsExact
<1>1. TargetsExact
  BY HexIsExact, CompactIsExact, DifficultyIsExact DEF TargetsExact
<1> QED BY <1>1, PTL
----------------------------------------------------------------------------
(* blake2b256 over an input of any length: u are the vectors of a block,   *)
(* c the chaining values of all.                                           *)
IsRounds(u, chain, block, count, final) ==
  /\ u[0] = Start(chain, count, final)
  /\ \A r \in 1 .. Rounds :
       u[r] = Round("rotate", u[r - 1], MessageWords(block), SIGMA[r])

LEMMA CompressedIs ==
  ASSUME NEW chain, NEW block, NEW count, NEW final
  PROVE  \E u : /\ IsRounds(u, chain, block, count, final)
                /\ Compressed(chain, block, count, final)
                     = Finish(chain, u[Rounds])
<1> DEFINE words == MessageWords(block)
           start == Start(chain, count, final)
           Is(u, k) == u = [r \in 0 .. k |->
                              IF r = 0 THEN start
                              ELSE Round("rotate", u[r - 1], words, SIGMA[r])]
           u == CHOOSE u : Is(u, Rounds)
           S == {k \in Nat : \E f : Is(f, k)}
<1>1. 0 \in S
  <2> DEFINE f == [r \in 0 .. 0 |-> start]
  <2> HIDE DEF start, words
  <2>1. Is(f, 0)
    OBVIOUS
  <2> QED BY <2>1
<1>2. ASSUME NEW k \in 0 .. Rounds - 1, k \in S
      PROVE  k + 1 \in S
  <2> HIDE DEF start, words
  <2>0. k \in Nat
    BY DEF Rounds
  <2>1. PICK f : Is(f, k)
    BY <1>2
  <2> DEFINE mixed == Round("rotate", f[k], words, SIGMA[k + 1])
             g == [r \in 0 .. k + 1 |-> IF r = k + 1 THEN mixed ELSE f[r]]
  <2>2. ASSUME NEW r \in 0 .. k + 1
        PROVE  g[r] = IF r = 0 THEN start
                      ELSE Round("rotate", g[r - 1], words, SIGMA[r])
    <3>1. CASE r = k + 1
      <4>1. g[r - 1] = f[k]
        BY <2>0, <3>1
      <4>2. g[r] = mixed
        BY <3>1
      <4> HIDE DEF g
      <4> QED BY <2>0, <3>1, <4>1, <4>2
    <3>2. CASE r # k + 1
      <4>1. r \in 0 .. k /\ g[r] = f[r] /\ (r # 0 => g[r - 1] = f[r - 1])
        BY <2>0, <3>2
      <4> HIDE DEF g
      <4> QED BY <2>1, <4>1
    <3> QED BY <3>1, <3>2
  <2>3. Is(g, k + 1)
    <3> HIDE DEF mixed
    <3> QED BY <2>2
  <2> HIDE DEF g, Is
  <2>4. k + 1 \in Nat
    BY <2>0
  <2> QED BY <2>3, <2>4
<1>3. Rounds \in Nat /\ \A k \in 0 .. Rounds : k \in S
  <2>1. Rounds \in Nat
    BY DEF Rounds
  <2> HIDE DEF S
  <2> QED BY <1>1, <1>2, <2>1, UpTo
<1>4. \E f : Is(f, Rounds)
  <2> HIDE DEF Is
  <2> QED BY <1>3
<1>5. Is(u, Rounds)
  <2> HIDE DEF Is
  <2> QED BY <1>4
<1>6. Compressed(chain, block, count, final) = Finish(chain, u[Rounds])
  BY DEF Compressed
<1> HIDE DEF u
<1>7. u[0] = start /\ \A r \in 1 .. Rounds :
        u[r] = Round("rotate", u[r - 1], words, SIGMA[r])
  <2> HIDE DEF start, words
  <2> QED BY <1>3, <1>5
<1> QED BY <1>6, <1>7 DEF IsRounds

CountOf(in, b) == IF b = Blocks(in) THEN Len(in) ELSE BlockSize * b

IsChain(c, in) ==
  /\ c[0] = Chain0
  /\ \A b \in 1 .. Blocks(in) :
       c[b] = Compressed(c[b - 1], Padded(in, BlockSize * (b - 1)),
                         CountOf(in, b), b = Blocks(in))

IsCut(in) ==
  /\ Blocks(in) \in Nat \ {0}
  /\ \A b \in 0 .. Blocks(in) - 1 :
       Len(in) - BlockSize * b <= BlockSize <=> b + 1 = Blocks(in)

LEMMA BlocksAre ==
  ASSUME NEW in, NEW n \in Nat, Len(in) = n, in = <<>> <=> n = 0
  PROVE  IsCut(in)
BY DEF IsCut, Blocks, BlockSize

LEMMA Blake2b256Is ==
  ASSUME NEW in, Blocks(in) \in Nat
  PROVE  \E c : IsChain(c, in) /\ Blake2b256(in) = Digest(c[Blocks(in)])
<1> DEFINE all == Blocks(in)
           Extended(x, b) ==
             Compressed(x, Padded(in, BlockSize * (b - 1)),
                        IF b = all THEN Len(in) ELSE BlockSize * b, b = all)
           Is(c, k) == c = [b \in 0 .. k |->
                              IF b = 0 THEN Chain0 ELSE Extended(c[b - 1], b)]
           c == CHOOSE c : Is(c, all)
           S == {k \in Nat : \E f : Is(f, k)}
<1>1. 0 \in S
  <2> DEFINE f == [b \in 0 .. 0 |-> Chain0]
  <2> HIDE DEF Extended
  <2>1. Is(f, 0)
    OBVIOUS
  <2> QED BY <2>1
<1>2. ASSUME NEW k \in 0 .. all - 1, k \in S
      PROVE  k + 1 \in S
  <2> HIDE DEF Extended, all
  <2>0. k \in Nat
    BY DEF all
  <2>1. PICK f : Is(f, k)
    BY <1>2
  <2> DEFINE g == [b \in 0 .. k + 1 |->
                     IF b = k + 1 THEN Extended(f[k], k + 1) ELSE f[b]]
  <2>2. ASSUME NEW b \in 0 .. k + 1
        PROVE  g[b] = IF b = 0 THEN Chain0 ELSE Extended(g[b - 1], b)
    <3>1. CASE b = k + 1
      <4>1. g[b - 1] = f[k]
        BY <2>0, <3>1
      <4>2. g[b] = Extended(f[k], k + 1)
        BY <3>1
      <4> HIDE DEF g
      <4> QED BY <2>0, <3>1, <4>1, <4>2
    <3>2. CASE b # k + 1
      <4>1. b \in 0 .. k /\ g[b] = f[b] /\ (b # 0 => g[b - 1] = f[b - 1])
        BY <2>0, <3>2
      <4> HIDE DEF g
      <4> QED BY <2>1, <4>1
    <3> QED BY <3>1, <3>2
  <2>3. Is(g, k + 1)
    BY <2>2
  <2> HIDE DEF g, Is
  <2>4. k + 1 \in Nat
    BY <2>0
  <2> QED BY <2>3, <2>4
<1>3. all \in Nat /\ \A k \in 0 .. all : k \in S
  <2>1. all \in Nat
    OBVIOUS
  <2> HIDE DEF S, all
  <2> QED BY <1>1, <1>2, <2>1, UpTo
<1>4. \E f : Is(f, all)
  <2> HIDE DEF Is, all
  <2> QED BY <1>3
<1>5. Is(c, all)
  <2> HIDE DEF Is
  <2> QED BY <1>4
<1>6. Blake2b256(in) = Digest(c[all])
  BY DEF Blake2b256
<1> HIDE DEF c
<1>7. c[0] = Chain0 /\ \A b \in 1 .. all : c[b] = Extended(c[b - 1], b)
  <2> HIDE DEF Extended, all
  <2> QED BY <1>3, <1>5
<1> QED BY <1>6, <1>7 DEF IsChain, CountOf

(* The invariant of the loop: b blocks were begun, what was chained and    *)
(* what a round works on are those of the standard.                        *)
AtBlock(b) ==
  /\ offset = BlockSize * b
  /\ last <=> b = Blocks(input)
  /\ round = Rounds => \A c : IsChain(c, input) => h = c[b]
  /\ round < Rounds =>
       /\ b # 0
       /\ m = MessageWords(Padded(input, BlockSize * (b - 1)))
       /\ \A c : IsChain(c, input) =>
            /\ h = c[b - 1]
            /\ \A u : IsRounds(u, h, Padded(input, BlockSize * (b - 1)),
                               CountOf(input, b), last)
                        => v = u[round]

InBlocks ==
  /\ round \in 0 .. Rounds /\ last \in BOOLEAN
  /\ IsCut(input)
  /\ \E b \in 0 .. Blocks(input) : AtBlock(b)

LEMMA InitInBlocks == Init => InBlocks
<1> SUFFICES ASSUME Init
             PROVE  InBlocks
  OBVIOUS
<1>1. \E n \in Nat : Len(input) = n /\ (input = <<>> <=> n = 0)
  <2>1. CASE input \in Inputs
    <3>1. input \in Seq(Bytes)
      BY <2>1, HashingAssumption
    <3> QED BY <3>1
  <2>2. CASE \E header \in Headers, first \in FirstNonces, lane \in Lanes :
               input = Stamped(header, NonceOf(first, lane))
    <3>1. PICK header \in Headers, first \in FirstNonces, lane \in Lanes :
            input = Stamped(header, NonceOf(first, lane))
      BY <2>2
    <3>2. header \in Header /\ first \in Word
      BY HashingAssumption DEF Header
    <3>3. NonceOf(first, lane) \in Word
      BY <3>2, NonceIsWord
    <3>4. input \in Header
      BY <3>1, <3>2, <3>3, StampedIsHeader
    <3>5. Len(input) = 80 /\ 80 \in Nat /\ 80 # 0
      BY <3>4, LenOfHeader
    <3>6. input # <<>>
      BY <3>5
    <3> QED BY <3>5, <3>6
  <2> QED BY <2>1, <2>2 DEF Init
<1>2. IsCut(input) /\ Blocks(input) \in Nat \ {0}
  BY <1>1, BlocksAre DEF IsCut
<1>3. /\ offset = 0 /\ h = Chain0 /\ last = FALSE /\ round = Rounds
  BY DEF Init
<1>4. offset = BlockSize * 0 /\ 0 \in 0 .. Blocks(input) /\ 0 # Blocks(input)
      /\ round \in 0 .. Rounds /\ ~ (round < Rounds)
  BY <1>2, <1>3 DEF BlockSize, Rounds
<1>5. \A c : IsChain(c, input) => h = c[0]
  BY <1>3 DEF IsChain
<1>6. AtBlock(0)
  BY <1>2, <1>3, <1>4, <1>5 DEF AtBlock
<1> QED BY <1>2, <1>3, <1>4, <1>6 DEF InBlocks

LEMMA StepInBlocks == InBlocks /\ [Next]_vars => InBlocks'
<1> SUFFICES ASSUME InBlocks, [Next]_vars
             PROVE  InBlocks'
  OBVIOUS
<1> DEFINE all == Blocks(input)
<1>1. /\ round \in 0 .. Rounds /\ last \in BOOLEAN /\ all \in Nat \ {0}
      /\ Rounds \in Nat \ {0} /\ BlockSize \in Nat
      /\ \A b \in 0 .. all - 1 :
           Len(input) - BlockSize * b <= BlockSize <=> b + 1 = all
  BY DEF InBlocks, IsCut, Rounds, BlockSize
<1>0. PICK b \in 0 .. all : AtBlock(b)
  BY DEF InBlocks
<1>2. /\ offset = BlockSize * b
      /\ last <=> b = all
      /\ round = Rounds => \A c : IsChain(c, input) => h = c[b]
      /\ round < Rounds =>
           /\ b # 0
           /\ m = MessageWords(Padded(input, BlockSize * (b - 1)))
           /\ \A c : IsChain(c, input) =>
                /\ h = c[b - 1]
                /\ \A u : IsRounds(u, h, Padded(input, BlockSize * (b - 1)),
                                   CountOf(input, b), last)
                            => v = u[round]
  BY <1>0 DEF AtBlock
<1>3. CASE NextBlock
  <2>1. /\ round = Rounds /\ ~last /\ input' = input /\ h' = h
        /\ last' = IsLast /\ round' = 0
        /\ v' = Start(h, IF IsLast THEN Len(input) ELSE offset + BlockSize,
                      IsLast)
        /\ m' = MessageWords(Padded(input, offset))
        /\ offset' = offset + BlockSize
    BY <1>3 DEF NextBlock
  <2>2. b \in 0 .. all - 1 /\ b + 1 \in 0 .. all /\ (b + 1) - 1 = b
        /\ b + 1 # 0 /\ round' < Rounds /\ round' \in 0 .. Rounds
        /\ round' # Rounds
    BY <1>1, <1>2, <2>1
  <2>3. offset' = BlockSize * (b + 1)
    BY <1>1, <1>2, <2>1, <2>2, Distributed
  <2>4. IsLast <=> b + 1 = all
    BY <1>1, <1>2, <2>2 DEF IsLast
  <2>5. IsLast \in BOOLEAN
    BY DEF IsLast
  <2>6. v' = Start(h, CountOf(input, b + 1), last')
    BY <2>1, <2>3, <2>4 DEF CountOf
  <2>7. m' = MessageWords(Padded(input, BlockSize * ((b + 1) - 1)))
    BY <1>2, <2>1, <2>2
  <2>8. ASSUME NEW c, IsChain(c, input)
        PROVE  h' = c[(b + 1) - 1]
    BY <1>2, <2>1, <2>2, <2>8
  <2>9. ASSUME NEW u, IsRounds(u, h', Padded(input, BlockSize * ((b + 1) - 1)),
                               CountOf(input, b + 1), last')
        PROVE  v' = u[round']
    BY <2>1, <2>6, <2>9 DEF IsRounds
  <2>10. AtBlock(b + 1)'
    BY <1>1, <2>1, <2>2, <2>3, <2>4, <2>7, <2>8, <2>9 DEF AtBlock
  <2>11. IsCut(input)'
    BY <2>1 DEF InBlocks
  <2> QED BY <2>1, <2>2, <2>5, <2>10, <2>11 DEF InBlocks
<1>4. CASE NextRound
  <2> DEFINE block == Padded(input, BlockSize * (b - 1))
             count == CountOf(input, b)
  <2>1. /\ round < Rounds /\ round' = round + 1
        /\ v' = Round("rotate", v, m, SIGMA[round'])
        /\ h' = IF round' = Rounds THEN Finish(h, v') ELSE h
        /\ input' = input /\ offset' = offset /\ m' = m /\ last' = last
    BY <1>4 DEF NextRound
  <2>2. /\ b # 0 /\ m = MessageWords(block) /\ last = (b = all)
        /\ round' \in 1 .. Rounds /\ round' - 1 = round
    BY <1>1, <1>2, <2>1
  <2>3. ASSUME NEW c, IsChain(c, input), NEW u,
               IsRounds(u, h, block, count, last)
        PROVE  v' = u[round']
    <3>1. v = u[round]
      BY <1>2, <2>1, <2>3
    <3>2. u[round'] = Round("rotate", u[round' - 1], MessageWords(block),
                            SIGMA[round'])
      BY <2>2, <2>3 DEF IsRounds
    <3> QED BY <2>1, <2>2, <3>1, <3>2
  <2>4. ASSUME NEW c, IsChain(c, input)
        PROVE  h = c[b - 1]
    BY <1>2, <2>1, <2>4
  <2>5. ASSUME round' = Rounds, NEW c, IsChain(c, input)
        PROVE  h' = c[b]
    <3>1. PICK u : /\ IsRounds(u, h, block, count, last)
                   /\ Compressed(h, block, count, last) = Finish(h, u[Rounds])
      BY CompressedIs
    <3>2. v' = u[Rounds]
      BY <2>3, <2>5, <3>1
    <3>3. c[b] = Compressed(c[b - 1], block, count, b = all)
      BY <1>1, <2>2, <2>5 DEF IsChain
    <3>4. c[b] = Compressed(h, block, count, last)
      BY <2>2, <2>4, <2>5, <3>3
    <3> QED BY <2>1, <2>5, <3>1, <3>2, <3>4
  <2>6. round' < Rounds => h' = h
    BY <2>1
  <2>7. /\ round' = Rounds => \A c : IsChain(c, input') => h' = c[b]
        /\ round' < Rounds =>
             /\ b # 0
             /\ m' = MessageWords(Padded(input', BlockSize * (b - 1)))
             /\ \A c : IsChain(c, input') =>
                  /\ h' = c[b - 1]
                  /\ \A u : IsRounds(u, h', Padded(input', BlockSize * (b - 1)),
                                     CountOf(input', b), last')
                              => v' = u[round']
    <3> HIDE DEF all
    <3> QED BY <2>1, <2>2, <2>3, <2>4, <2>5, <2>6
  <2>8. offset' = BlockSize * b /\ (last' <=> b = Blocks(input'))
        /\ round' \in 0 .. Rounds
    BY <1>1, <1>2, <2>1, <2>2
  <2>9. AtBlock(b)'
    BY <2>1, <2>7, <2>8 DEF AtBlock
  <2>10. IsCut(input)' /\ last' \in BOOLEAN /\ b \in 0 .. Blocks(input')
    BY <1>1, <2>1 DEF InBlocks
  <2> QED BY <2>8, <2>9, <2>10 DEF InBlocks
<1>5. CASE Terminated \/ UNCHANGED vars
  BY <1>5 DEF Terminated, vars, InBlocks, AtBlock
<1> QED BY <1>3, <1>4, <1>5 DEF Next

(* For every input blake2b256 computes the digest of the standard, be its  *)
(* last block full, its only one empty, or any other.                      *)
THEOREM HashIsBlake2b ==
  Spec => [](Hashed => Digest(h) = Blake2b256(input))
<1>1. InBlocks => (Hashed => Digest(h) = Blake2b256(input))
  <2> SUFFICES ASSUME InBlocks, last, round = Rounds
               PROVE  Digest(h) = Blake2b256(input)
    BY DEF Hashed
  <2>1. \A c : IsChain(c, input) => h = c[Blocks(input)]
    BY DEF InBlocks, AtBlock
  <2>2. PICK c : IsChain(c, input)
                  /\ Blake2b256(input) = Digest(c[Blocks(input)])
    BY Blake2b256Is DEF InBlocks, IsCut
  <2> QED BY <2>1, <2>2
<1> QED BY <1>1, InitInBlocks, StepInBlocks, PTL DEF Spec

(* In particular those of Known.                                           *)
THEOREM DigestsAlwaysKnown == Spec => []DigestsKnown
<1>1. (Hashed => Digest(h) = Blake2b256(input)) => DigestsKnown
  BY KnownAssumption DEF DigestsKnown
<1> QED BY <1>1, HashIsBlake2b, PTL
----------------------------------------------------------------------------
(* Targets are numbers, and so are digests: accepts compares the two.      *)
LEMMA DigitsOfPlaces ==
  ASSUME NEW S, NEW n \in Nat, NEW a \in [1 .. n -> S]
  PROVE  a \in Seq(S) /\ Len(a) = n
<1>1. a \in Seq(S)
  BY SeqDef
<1>2. Len(a) \in Nat /\ a \in [1 .. Len(a) -> S]
  BY <1>1, LenProperties
<1>3. 1 .. Len(a) = 1 .. n
  BY ONLY <1>2
<1> QED BY ONLY <1>1, <1>2, <1>3

LEMMA DigitsAreNumbers ==
  ASSUME NEW b \in Nat \ {0}, NEW s \in Seq(0 .. b - 1)
  PROVE  /\ s \in Seq(Nat) /\ Len(s) \in Nat /\ DOMAIN s = 1 .. Len(s)
         /\ \A k \in 1 .. Len(s) : s[k] \in 0 .. b - 1 /\ s[k] \in Int
<1>1. /\ Len(s) \in Nat /\ DOMAIN s = 1 .. Len(s)
      /\ \A k \in 1 .. Len(s) : s[k] \in 0 .. b - 1
  OBVIOUS
<1>2. \A k \in 1 .. Len(s) : s[k] \in Nat /\ s[k] \in Int
  BY <1>1
<1>3. s \in Seq(Nat)
  BY <1>2, SeqOfNumbers
<1> QED BY <1>1, <1>2, <1>3

LEMMA ProductIsInt ==
  ASSUME NEW x \in Int, NEW y \in Int
  PROVE  x * y \in Int
OBVIOUS

LEMMA BecomesSmaller ==
  ASSUME NEW x \in Int, NEW d \in Int, NEW e \in Int, d < e
  PROVE  x + d < x + e
OBVIOUS

LEMMA StaysSmaller ==
  ASSUME NEW b \in Nat, NEW x \in Nat, NEW y \in Nat, x < y,
         NEW d \in 0 .. b - 1, NEW e \in Nat
  PROVE  b * x + d < b * y + e
<1> DEFINE p == b * x  q == b * y
<1>1. p + d < q
  BY OneMoreDigit
<1>2. p \in Int /\ q \in Int
  BY ProductIsInt
<1> HIDE DEF p, q
<1>3. p + d < q + e
  BY <1>1, <1>2
<1> QED BY <1>3 DEF p, q

(* Digits of the same length are ordered as their values: from the first   *)
(* that differs on, the smaller value stays the smaller one.               *)
LEMMA SmallerFirst ==
  ASSUME NEW b \in Nat, NEW s \in Seq(Nat), NEW t \in Seq(Nat),
         Len(s) = Len(t), NEW i \in 1 .. Len(s), s[i] < t[i],
         \A k \in 1 .. Len(s) : s[k] \in 0 .. b - 1 /\ t[k] \in 0 .. b - 1,
         \A j \in 1 .. i - 1 : s[j] = t[j]
  PROVE  ValueOf(s, b) < ValueOf(t, b)
<1> DEFINE n == Len(s)
<1>1. /\ n \in Nat /\ i \in 1 .. n /\ b \in Nat /\ Len(t) = n
      /\ \A k \in 1 .. n : s[k] \in 0 .. b - 1 /\ t[k] \in Nat
  <2>1. n \in Nat /\ Len(t) = n
    OBVIOUS
  <2> HIDE DEF n
  <2>2. \A k \in 1 .. n : s[k] \in 0 .. b - 1 /\ t[k] \in Nat
    BY DEF n
  <2>3. i \in 1 .. n /\ b \in Nat
    BY DEF n
  <2> QED BY ONLY <2>1, <2>2, <2>3
<1>2. PICK f : /\ ValueOf(s, b) = f[Len(s)]
               /\ f[0] = 0 /\ \A k \in 0 .. Len(s) : f[k] \in Nat
               /\ \A k \in 1 .. Len(s) : f[k] = b * f[k - 1] + s[k]
  BY ValueIs
<1>3. PICK g : /\ ValueOf(t, b) = g[Len(t)]
               /\ g[0] = 0 /\ \A k \in 0 .. Len(t) : g[k] \in Nat
               /\ \A k \in 1 .. Len(t) : g[k] = b * g[k - 1] + t[k]
  BY ValueIs
<1> DEFINE T == {k \in Nat : IF k < i THEN f[k] = g[k] ELSE f[k] < g[k]}
<1>4. 0 \in T
  <2>1. f[0] = g[0] /\ 0 < i
    BY <1>2, <1>3
  <2> QED BY <2>1
<1> HIDE DEF n
<1>5. ASSUME NEW k \in 0 .. n - 1, k \in T
      PROVE  k + 1 \in T
  <2> DEFINE x == f[k]  y == g[k]  d == s[k + 1]  e == t[k + 1]
  <2>1. /\ f[k + 1] = b * x + d /\ g[k + 1] = b * y + e
        /\ x \in Nat /\ y \in Nat /\ d \in 0 .. b - 1 /\ d \in Nat /\ e \in Nat
    <3>1. k \in 0 .. n /\ k + 1 \in 1 .. n /\ (k + 1) - 1 = k
      BY <1>1
    <3>2. f[k + 1] = b * f[(k + 1) - 1] + s[k + 1] /\ f[k] \in Nat
      BY <1>2, <3>1 DEF n
    <3>3. g[k + 1] = b * g[(k + 1) - 1] + t[k + 1] /\ g[k] \in Nat
      BY <1>1, <1>3, <3>1
    <3>4. /\ s[k + 1] \in 0 .. b - 1 /\ s[k + 1] \in Nat /\ t[k + 1] \in Nat
      BY <1>1, <3>1
    <3> QED BY ONLY <3>1, <3>2, <3>3, <3>4
  <2>2. CASE k + 1 < i
    <3>1. k + 1 \in 1 .. i - 1 /\ k < i
      BY <2>2
    <3>2. x = y /\ d = e
      BY <1>5, <3>1
    <3> QED BY <2>1, <2>2, <3>2
  <2>3. CASE k + 1 = i
    <3>1. x = y /\ d < e
      BY <1>5, <2>3
    <3>2. b * x + d < b * x + e
      <4> HIDE DEF x, d, e
      <4>1. b \in Int /\ x \in Int /\ d \in Int /\ e \in Int
        BY <2>1
      <4>2. b * x \in Int
        BY ONLY <4>1, ProductIsInt
      <4> QED BY ONLY <3>1, <4>1, <4>2, BecomesSmaller
    <3>3. f[k + 1] < g[k + 1]
      BY ONLY <2>1, <3>1, <3>2
    <3> QED BY <2>3, <3>3
  <2>4. CASE i < k + 1
    <3>1. x < y
      BY <1>5, <2>4
    <3>2. b * x + d < b * y + e
      <4> HIDE DEF x, y, d, e
      <4> QED BY <2>1, <3>1, StaysSmaller
    <3>3. f[k + 1] < g[k + 1]
      BY ONLY <2>1, <3>2
    <3> QED BY <2>4, <3>3
  <2> QED BY <2>2, <2>3, <2>4
<1>6. n \in 0 .. n /\ ~ (n < i) /\ \A k \in 0 .. n : k \in T
  <2>1. \A k \in 0 .. n : k \in T
    <3> HIDE DEF T
    <3> QED BY <1>1, <1>4, <1>5, UpTo
  <2> HIDE DEF T
  <2> QED BY <1>1, <2>1
<1> QED BY <1>1, <1>2, <1>3, <1>6

LEMMA ValueIsNumber ==
  ASSUME NEW b \in Nat, NEW s \in Seq(Nat)
  PROVE  ValueOf(s, b) \in Int
<1>1. PICK f : ValueOf(s, b) = f[Len(s)] /\ \A k \in 0 .. Len(s) : f[k] \in Nat
  BY ValueIs
<1>2. Len(s) \in 0 .. Len(s)
  OBVIOUS
<1> QED BY <1>1, <1>2

LEMMA OrderedByValue ==
  ASSUME NEW b \in Nat \ {0}, NEW n \in Nat, NEW s, NEW t,
         s \in Seq(0 .. b - 1), t \in Seq(0 .. b - 1), Len(s) = n, Len(t) = n
  PROVE  LexLess(s, t) <=> ValueOf(s, b) < ValueOf(t, b)
<1>1. /\ n \in Nat /\ DOMAIN s = 1 .. n /\ DOMAIN t = 1 .. n /\ Len(t) = n
      /\ \A k \in 1 .. n : /\ s[k] \in Int /\ s[k] \in 0 .. b - 1
                          /\ t[k] \in Int /\ t[k] \in 0 .. b - 1
      /\ s \in Seq(Nat) /\ t \in Seq(Nat) /\ b \in Nat
  BY DigitsAreNumbers
<1>2. ValueOf(s, b) \in Int /\ ValueOf(t, b) \in Int
  BY <1>1, ValueIsNumber
<1>3. CASE \A k \in 1 .. n : s[k] = t[k]
  <2>1. s = t
    BY <1>1, <1>3
  <2>2. ~ LexLess(s, t)
    BY <1>1, <1>3, LexSame
  <2> QED BY <1>2, <2>1, <2>2
<1>4. CASE \E k \in 1 .. n : s[k] # t[k]
  <2>1. PICK i \in 1 .. n : s[i] # t[i] /\ \A j \in 1 .. i - 1 : s[j] = t[j]
    BY ONLY <1>4, FirstDifference
  <2>2. LexLess(s, t) <=> s[i] < t[i]
    BY ONLY <1>1, <2>1, LexFirst
  <2>3. /\ Len(s) = n /\ Len(t) = n
        /\ \A j \in 1 .. i - 1 : s[j] = t[j] /\ t[j] = s[j]
    BY <1>1, <2>1
  <2>4. CASE s[i] < t[i]
    <3>1. i \in 1 .. Len(s) /\ Len(s) = Len(t)
          /\ \A k \in 1 .. Len(s) : s[k] \in 0 .. b - 1 /\ t[k] \in 0 .. b - 1
      BY ONLY <1>1, <2>1, <2>3
    <3>2. ValueOf(s, b) < ValueOf(t, b)
      BY ONLY <1>1, <2>3, <2>4, <3>1, SmallerFirst
    <3> QED BY <2>2, <2>4, <3>2
  <2>5. CASE t[i] < s[i]
    <3>1. i \in 1 .. Len(t) /\ Len(t) = Len(s)
          /\ \A k \in 1 .. Len(t) : t[k] \in 0 .. b - 1 /\ s[k] \in 0 .. b - 1
      BY ONLY <1>1, <2>1, <2>3
    <3>2. ValueOf(t, b) < ValueOf(s, b)
      BY ONLY <1>1, <2>3, <2>5, <3>1, SmallerFirst
    <3>3. ~ (s[i] < t[i])
      BY <1>1, <2>5
    <3> QED BY <1>2, <2>2, <3>2, <3>3
  <2> QED BY <1>1, <2>1, <2>4, <2>5
<1> QED BY <1>3, <1>4

(* A digest is accepted if and only if it is at most the target, both read *)
(* as numbers.                                                             *)
LEMMA AcceptsNumbers ==
  ASSUME NEW t \in Quads, NEW c, \A k \in 1 .. 4 : c[k] \in Word
  PROVE  Accepts(t, Digest(c))
           <=> ValueOf(Digest(c), 256) <= ValueOf(TargetBytes(t), 256)
<1> DEFINE s == TargetBytes(t)  d == Digest(c)
<1>1. ASSUME NEW p \in 1 .. 32
      PROVE  s[p] \in 0 .. 256 - 1 /\ d[p] \in 0 .. 256 - 1
  <2>1. PICK k \in 1 .. 4, i \in 1 .. 8 : p = Place(k, i)
    BY PlaceOf
  <2>2. c[k] \in Word /\ t[k] \in Word /\ SwapBytes(c[k]) \in Word
    BY SwapIs DEF Quads
  <2>3. /\ ToBytesBE(t[k])[i] \in Bytes
        /\ ToBytesBE(SwapBytes(c[k]))[i] \in Bytes
    BY <2>2, BytesBE
  <2>4. s[p] \in Bytes /\ d[p] \in Bytes
    BY <2>1, <2>2, <2>3, TargetByte, DigestByte
  <2> QED BY <2>4 DEF Bytes
<1>2. s = [p \in 1 .. 32 |-> s[p]] /\ d = [p \in 1 .. 32 |-> d[p]]
  BY DEF TargetBytes, Digest
<1>3. s \in [1 .. 32 -> 0 .. 256 - 1] /\ d \in [1 .. 32 -> 0 .. 256 - 1]
  <2> HIDE DEF s, d
  <2> QED BY <1>1, <1>2
<1> HIDE DEF s, d
<1> DEFINE b == 256
<1>4. b \in Nat \ {0} /\ s \in Seq(0 .. b - 1) /\ d \in Seq(0 .. b - 1)
      /\ Len(s) = 32 /\ Len(d) = 32 /\ 32 \in Nat
  <2> DEFINE D == 0 .. b - 1
  <2>1. s \in [1 .. 32 -> D] /\ d \in [1 .. 32 -> D] /\ 32 \in Nat
    BY <1>3
  <2>2. b \in Nat \ {0}
    OBVIOUS
  <2> HIDE DEF D
  <2>3. s \in Seq(D) /\ Len(s) = 32 /\ d \in Seq(D) /\ Len(d) = 32
    BY ONLY <2>1, DigitsOfPlaces
  <2> QED BY ONLY <2>1, <2>2, <2>3 DEF D
<1> HIDE DEF b
<1>5. LexLess(s, d) <=> ValueOf(s, b) < ValueOf(d, b)
  BY <1>4, OrderedByValue
<1>6. ValueOf(s, b) \in Int /\ ValueOf(d, b) \in Int
  <2>1. s \in Seq(Nat) /\ d \in Seq(Nat) /\ b \in Nat
    BY <1>4, DigitsAreNumbers
  <2> QED BY <2>1, ValueIsNumber
<1> QED BY <1>5, <1>6 DEF Accepts, s, d, b

(* From header to solution: at the end of a kernel's hash it takes the     *)
(* nonce if and only if the BLAKE2b-256 of the header with that nonce, as  *)
(* a number, is at most the target; of the target a GPU reads only the     *)
(* first word, and takes the rest to be all ones.                          *)
NumbersTaken ==
  kernel # None /\ Hashed =>
    /\ \E header \in Headers, first \in FirstNonces, lane \in Lanes :
         input = Stamped(header, NonceOf(first, lane))
    /\ \A target \in Quads :
         Takes(kernel, w, target)
           <=> ValueOf(Blake2b256(input), 256)
                 <= ValueOf(TargetBytes(IF kernel \in Gpu THEN GpuTarget(target)
                                        ELSE target), 256)

(* NumbersTaken in every state: what a kernel takes is a share of its      *)
(* header, and no nonce with a small enough hash is passed over.           *)
THEOREM TakenAreSolutions == Spec => []NumbersTaken
<1>1. InStep /\ TakenRight /\ (Hashed => Digest(h) = Blake2b256(input))
        => NumbersTaken
  <2> SUFFICES ASSUME InStep, TakenRight, Digest(h) = Blake2b256(input),
                      kernel # None, Hashed
               PROVE  NumbersTaken
    BY DEF NumbersTaken
  <2> DEFINE read(target) ==
               IF kernel \in Gpu THEN GpuTarget(target) ELSE target
  <2>1. /\ kernel \in Cpu \cup Gpu /\ v \in Vector /\ h = Finish(Chain0, v)
        /\ \E header \in Headers, first \in FirstNonces, lane \in Lanes :
             input = Stamped(header, NonceOf(first, lane))
    BY DEF InStep, Loaded, Compressing, Hashed, Rounds
  <2>2. \A k \in 1 .. 4 : h[k] \in Word
    BY <2>1, WordsOfKernel
  <2>3. ASSUME NEW target \in Quads
        PROVE  Takes(kernel, w, target)
                 <=> ValueOf(Blake2b256(input), 256)
                       <= ValueOf(TargetBytes(read(target)), 256)
    <3>1. read(target) \in Quads
      BY SomeWords DEF GpuTarget, Quads
    <3>2. Takes(kernel, w, target) <=> Accepts(read(target), Digest(h))
      BY DEF TakenRight
    <3>3. Accepts(read(target), Digest(h))
            <=> ValueOf(Digest(h), 256)
                  <= ValueOf(TargetBytes(read(target)), 256)
      <4> HIDE DEF read
      <4> QED BY <2>2, <3>1, AcceptsNumbers
    <3>4. Digest(h) = Blake2b256(input)
      OBVIOUS
    <3> HIDE DEF read
    <3> QED BY <3>2, <3>3, <3>4
  <2> QED BY <2>1, <2>3 DEF NumbersTaken
<1> QED BY <1>1, KernelsInStep, EveryTargetTaken, HashIsBlake2b, PTL
=============================================================================
