------------------------------- MODULE MCHash -------------------------------
(***************************************************************************)
(* Instances of Hashing for TLC: the headers and nonces of hash.rs's tests,*)
(* and inputs from none to two full blocks.  The digests are those of      *)
(* RFC 7693's BLAKE2b with 32 bytes: "" and "abc" as hash.rs's test has    *)
(* them, the others as Python's hashlib calculates them.                   *)
(***************************************************************************)
EXTENDS HashProperties

Sevens(n) == [i \in 1 .. n |-> 7]
ABC == <<97, 98, 99>>
Fives == [i \in 1 .. HeaderSize |-> \h5a]
Steps == [i \in 1 .. HeaderSize |-> (255 + 17 * (i - 1)) % 256]

MCInputs == {<<>>, ABC, Sevens(128), Sevens(129), Sevens(256)}
MCHeaders == {Fives, Steps}
MCFirstNonces == {W(0, 0, 0, 42), W(\hffff, \hffff, \hffff, \hfffd)}
MCLanes == {0, 3}

(* Targets of three bytes of 16 values: all digits up to one too many, with *)
(* junk; difficulties whose target is 0, in between, and saturated, with   *)
(* a sign and a separator where they are taken and where they are not.     *)
MCHexTexts == UNION {[1 .. n -> {0, 1, 3}] : n \in 0 .. 7} \union {<<1, NoDigit>>}
MCDifficulties ==
  [negative : BOOLEAN,
   whole : {<<>>, <<0>>, <<1>>, <<2, 5>>, <<NoDigit>>, <<PlusSign>>,
            <<PlusSign, 1>>, <<Underscore>>, <<1, Underscore>>},
   fraction : {<<>>, <<5>>, <<0, 1>>, <<2, 5>>, <<5, Underscore, 0>>,
               <<PlusSign, 5>>},
   exponent : (-2 .. 2) \union {NoDigit}]

MCKnown == {
  <<<<>>,
    <<14, 87, 81, 192, 38, 229, 67, 178, 232, 171, 46, 176, 96, 153, 218,
      161, 209, 229, 223, 71, 119, 143, 119, 135, 250, 171, 69, 205, 241, 47,
      227, 168>> >>,
  <<ABC,
    <<189, 221, 129, 60, 99, 66, 57, 114, 49, 113, 239, 63, 238, 152, 87,
      155, 148, 150, 78, 59, 177, 203, 62, 66, 114, 98, 200, 192, 104, 213,
      35, 25>> >>,
  <<Sevens(128),
    <<51, 47, 31, 113, 43, 3, 166, 166, 246, 194, 141, 183, 217, 108, 98,
      241, 112, 116, 65, 25, 171, 15, 131, 27, 158, 13, 128, 248, 0, 227, 170,
      215>> >>,
  <<Sevens(129),
    <<160, 77, 231, 36, 115, 9, 150, 107, 43, 42, 252, 54, 120, 56, 7, 30,
      165, 35, 248, 151, 230, 164, 5, 40, 111, 43, 86, 39, 3, 42, 141, 234>> >>,
  <<Sevens(256),
    <<180, 159, 33, 209, 122, 207, 5, 179, 34, 235, 188, 41, 131, 253, 252,
      195, 254, 31, 119, 216, 12, 18, 45, 202, 3, 128, 106, 129, 99, 240, 65,
      106>> >>,
  <<Stamped(Fives, W(0, 0, 0, 42)),
    <<251, 3, 39, 206, 185, 48, 181, 57, 37, 244, 223, 179, 27, 52, 216, 5,
      18, 215, 179, 139, 90, 249, 86, 100, 221, 37, 71, 7, 160, 42, 56,
      33>> >> }
=============================================================================
