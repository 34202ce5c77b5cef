SPECIFICATION Spec
CONSTANTS
  Lexicon <- MCLexicon
  Intended <- MCIntended
INVARIANT TypeOK
INVARIANT TheWayBackIsKept
INVARIANT EveryVerbIsFound
INVARIANT NoMeaningIsLost
CHECK_DEADLOCK FALSE
