\* Twelve kernels on two headers and four nonces, and five other inputs;
\* targets of three bytes.
SPECIFICATION Spec
CONSTANTS
  None = None
  Inputs <- MCInputs
  Headers <- MCHeaders
  FirstNonces <- MCFirstNonces
  Lanes <- MCLanes
  Known <- MCKnown
  NoDigit = NoDigit
  PlusSign = PlusSign
  Underscore = Underscore
  HexBase = 4
  Width = 3
  DifficultyOne = 240
  IntSpace = 16
  HexTexts <- MCHexTexts
  MaxExponent = 4
  Difficulties <- MCDifficulties
INVARIANTS
  DigestsKnown
  RoundsAgree
  TakesSolutions
  TargetsExact
