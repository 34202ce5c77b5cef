SPECIFICATION SpecInMemory
CONSTANTS
  Subgoal <- Table
  Ground <- MCGround
  Answer <- MCAnswer
  Goal <- MCGoal
  Program <- MCProgram
  Clauses <- MCClauses
  Calls <- MCCalls
  After <- MCAfter
  Gives <- MCGives
  Done = "done"
  Query <- MCQuery
  MaxCalls = 2
  EmptyAnswer = "yes"
INVARIANT MemoryInv
INVARIANT MemoryHoldsGoal
INVARIANT ChoicePointsKeepGoals
INVARIANT FrozenIsSuspended
CHECK_DEADLOCK FALSE
