SPECIFICATION Spec
CONSTANTS
  MaxSibling = 2
  InitSize = 4
  HashKey <- MCHashKey
  Leaves <- MCLeaves
  Programs <- MCPrograms
  Queries <- MCQueries
INVARIANT TypeOK
INVARIANT ChoicesMatchPlaces
INVARIANT NothingLeaksOrDangles
INVARIANT RemovedLeavesAreReclaimable
INVARIANT SuspendedWalkCanResume
PROPERTY KeepsTheTerms
CHECK_DEADLOCK FALSE
