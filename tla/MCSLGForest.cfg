SPECIFICATION ForestSpec
CONSTANTS
  Subgoal <- Table
  Ground <- MCGround
  Answer <- MCAnswer
  Goal <- MCGoal
  Program <- MCFewPrograms
  Clauses <- MCClauses
  Calls <- MCCalls
  After <- MCAfter
  Gives <- MCGives
  Done = "done"
  Query <- MCQuery

INVARIANTS ForestTypeOK CompletedExact
PROPERTY CompletedIsFinal
CHECK_DEADLOCK FALSE
