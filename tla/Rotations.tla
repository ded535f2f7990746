----------------------------- MODULE Rotations -----------------------------
(***************************************************************************)
(* The ways hash.rs and the kernels rotate a word.                         *)
(***************************************************************************)
EXTENDS Words

RotrShift(w, n) == BitOr(ShiftRight(w, n), ShiftLeft(w, 64 - n))

(* rotr64_split: on the halves of a word                                   *)
RotrSplit(w, n) ==
  LET x == Low(w)  y == High(w)  s == n - 32
  IN  CASE n = 32 -> Join(y, x)
        [] n < 32 -> Join(BitOr(ShiftRight(x, n), ShiftLeft(y, 32 - n)),
                          BitOr(ShiftRight(y, n), ShiftLeft(x, 32 - n)))
        [] n > 32 -> Join(BitOr(ShiftRight(y, s), ShiftLeft(x, 32 - s)),
                          BitOr(ShiftRight(x, s), ShiftLeft(y, 32 - s)))

(* __byte_perm(x, y, selector): the bytes of x are 0 to 3, those of y 4 to *)
(* 7; the least significant digit of the selector picks the first byte.    *)
BytePermute(x, y, d3, d2, d1, d0) ==
  LET Pick(i) == Byte(Join(x, y), i)
  IN  <<Pick(d0) + 256 * Pick(d1), Pick(d2) + 256 * Pick(d3)>>

(* Mutant of RotrPermute: the selectors of its halves are swapped.         *)
RotrPermuteSwapped(w, n) ==
  LET low == Low(w)  high == High(w)
  IN  CASE n = 63 -> RotrShift(w, n)
        [] n = 32 -> Join(high, low)
        [] n = 24 -> Join(BytePermute(high, low, 6, 5, 4, 3),
                          BytePermute(high, low, 2, 1, 0, 7))
        [] n = 16 -> Join(BytePermute(high, low, 1, 0, 7, 6),
                          BytePermute(high, low, 5, 4, 3, 2))

RotrPermute(w, n) ==
  LET low == Low(w)  high == High(w)
  IN  CASE n = 63 -> RotrShift(w, n)
        [] n = 32 -> Join(high, low)
        [] n = 24 -> Join(BytePermute(high, low, 2, 1, 0, 7),
                          BytePermute(high, low, 6, 5, 4, 3))
        [] n = 16 -> Join(BytePermute(high, low, 1, 0, 7, 6),
                          BytePermute(high, low, 5, 4, 3, 2))

RotrNeon(w, n) == IF n = 32 THEN Join(High(w), Low(w)) ELSE RotrShift(w, n)

(* The rotation of a word to the right, in one of these ways               *)
Rotr(way, w, n) ==
  CASE way = "rotate" -> RotateRight(w, n)
    [] way = "shift" -> RotrShift(w, n)
    [] way = "split" -> RotrSplit(w, n)
    [] way = "permute" -> RotrPermute(w, n)
    [] way = "neon" -> RotrNeon(w, n)
=============================================================================
