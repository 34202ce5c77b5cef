SPECIFICATION Spec
CONSTANTS
  Lexicon <- MCCarryOut
  Intended <- MCICarryThemOut
INVARIANT LostClassifierIsFound
CHECK_DEADLOCK FALSE
