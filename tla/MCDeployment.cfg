SPECIFICATION Spec
CONSTANTS
  OBJ <- MCOBJ
  Handwritten <- MCHandwritten
  Requests <- MCRequests
  MaxTime = 1
  MaxCommands = 3
  MaxKills = 1
INVARIANTS TypeOK MakeOverlooksOnlyOverlaps FinishedRunPairs CleanMakeRepairs UpdatedSiteAnswersAsOne
