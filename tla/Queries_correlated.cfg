SPECIFICATION Spec
CONSTANTS
  WordMax = 63
  MaxSmallScale = 1
  MinSigDigits = 2
  DecDigits = 1
  MaxScale = 3
  FloatBits = 4
  GuardBits = 7
  FloatPlaces = 4
  Schema <- Tables
  Scenarios <- Lost
  Sample = {}
INVARIANTS Answers
CHECK_DEADLOCK FALSE
