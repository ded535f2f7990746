------------------------------- MODULE Target -------------------------------
(***************************************************************************)
(* The ways a pool writes a target (src/target.rs): hexadecimal digits,    *)
(* the compact form of nBits, and a decimal difficulty.  A target, an      *)
(* array of Width bytes, is the number it is read as, which is how digests *)
(* are compared with it.  Width, the bytes and the integers of exponents   *)
(* have their sizes as parameters; an error is NoTarget.                   *)
(*                                                                         *)
(* Text is taken apart: digits are numbers, and what else a character may  *)
(* be is NoDigit, but for the two that parse_bytes takes in a decimal.     *)
(***************************************************************************)
EXTENDS Integers, Sequences, SequencesExt

CONSTANTS
  NoDigit, PlusSign, Underscore,
  HexBase,        \* values of a hexadecimal digit: 16 in the code
  Width,          \* bytes of a target: 32
  DifficultyOne,  \* the target of difficulty 1
  IntSpace        \* values of an i32: 2^32

ASSUME TargetAssumption ==
  /\ HexBase \in Nat /\ HexBase > 1 /\ HexBase % 2 = 0
  /\ Width \in Nat \ {0} /\ DifficultyOne \in Nat \ {0}
  /\ IntSpace \in Nat \ {0} /\ IntSpace % 2 = 0
  /\ \A c \in {NoDigit, PlusSign, Underscore} : c \notin Int
  /\ NoDigit # PlusSign /\ NoDigit # Underscore /\ PlusSign # Underscore

(* Powers shift by whole bytes or digits, or scale.                        *)
Power(base, exponent) ==
  LET power[n \in 0 .. exponent] ==
        IF n = 0 THEN 1 ELSE base * power[n - 1]
  IN power[exponent]

ByteBase == HexBase * HexBase
LargestTarget == Power(ByteBase, Width) - 1
NoTarget == -1

(* The value of digits, the first of them weighing most.                   *)
ValueOf(digits, base) ==
  LET value[n \in 0 .. Len(digits)] ==
        IF n = 0 THEN 0 ELSE base * value[n - 1] + digits[n]
  IN value[Len(digits)]

IsNumber(digits, base) == digits # <<>> /\ ToSet(digits) \subseteq 0 .. base - 1
----------------------------------------------------------------------------
(* from_hex pads the digits on the left to whole bytes, and the bytes to   *)
(* a target: neither changes the value.                                    *)
FromHex(digits) ==
  IF IsNumber(digits, HexBase) /\ Len(digits) <= 2 * Width
    THEN ValueOf(digits, HexBase) ELSE NoTarget

(* as_hex: all digits, leading zeros too.                                  *)
AsHex(target) ==
  [i \in 1 .. 2 * Width |-> (target \div Power(HexBase, 2 * Width - i)) % HexBase]
----------------------------------------------------------------------------
(* from_compact_hex: a byte of exponent and three of mantissa, the highest *)
(* bit of which is a sign.                                                 *)
SignBit == Power(ByteBase, 3) \div 2

(* Mutant of Shifted: a short mantissa is moved by one byte too few.       *)
ShiftedShort(mantissa, exponent) ==
  IF exponent < 3 THEN mantissa \div Power(ByteBase, 2 - exponent)
  ELSE mantissa * Power(ByteBase, exponent - 3)

Shifted(mantissa, exponent) ==
  IF exponent <= 3 THEN mantissa \div Power(ByteBase, 3 - exponent)
  ELSE mantissa * Power(ByteBase, exponent - 3)

FromCompact(exponent, low) ==
  LET mantissa == low % SignBit
      target == Shifted(mantissa, exponent)
  IN IF mantissa = 0 \/ low >= SignBit \/ target = 0 \/ target > LargestTarget
       THEN NoTarget ELSE target
----------------------------------------------------------------------------
(* from_stratum_difficulty of whole.fraction times ten to the exponent.    *)

(* BigUint::parse_bytes takes one plus off, wants a digit, and passes over *)
(* the underscores behind it.                                              *)
Unsigned(text) ==
  IF text # <<>> /\ text[1] = PlusSign THEN Tail(text) ELSE text

Parses(text) ==
  LET digits == Unsigned(text)
  IN /\ digits # <<>> /\ digits[1] # Underscore
     /\ ToSet(digits) \subseteq (0 .. 9) \union {Underscore}

Parsed(text) ==
  LET digits == Unsigned(text)
      value[n \in 0 .. Len(digits)] ==
        IF n = 0 THEN 0
        ELSE IF digits[n] = Underscore THEN value[n - 1]
        ELSE 10 * value[n - 1] + digits[n]
  IN value[Len(digits)]

(* decimal_ratio: scale is an i32 and wraps; it counts what parse_bytes    *)
(* takes off or passes over in the fraction as well.                       *)
Wrapped(n) == ((n + IntSpace \div 2) % IntSpace) - IntSpace \div 2

Scale(d) == Wrapped(Len(d.fraction) - d.exponent)

Ratio(d) ==
  LET digits == Parsed(d.whole \o d.fraction)
  IN IF Scale(d) >= 0 THEN <<digits, Power(10, Scale(d))>>
     ELSE <<digits * Power(10, - Scale(d)), 1>>

IsDecimal(d) ==
  /\ ~d.negative /\ d.exponent # NoDigit
  /\ Parses(d.whole \o d.fraction)

Saturated(n) == IF n > LargestTarget THEN LargestTarget ELSE n

FromDifficulty(d) ==
  IF ~IsDecimal(d) \/ Ratio(d)[1] = 0 THEN NoTarget
  ELSE Saturated((DifficultyOne * Ratio(d)[2]) \div Ratio(d)[1])
=============================================================================
