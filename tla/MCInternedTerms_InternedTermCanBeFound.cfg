SPECIFICATION Spec
CONSTANTS
  MaxSibling = 2
  InitSize = 4
  HashKey <- MCHashKey
  Leaves <- MCLeaves
  Programs <- MCPrograms
  Queries <- MCQueries
INVARIANT InternedTermCanBeFound
CHECK_DEADLOCK FALSE
