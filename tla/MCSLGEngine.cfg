SPECIFICATION Spec
CONSTANTS
  Subgoal <- Table
  Ground <- MCGround
  Answer <- MCAnswer
  Goal <- MCGoal
  Program <- MCProgram
  Clauses <- MCClauses
  Calls <- MCCalls
  After <- MCAfter
  Gives <- MCGives
  Done = "done"
  Query <- MCQuery
INVARIANTS TypeOK OpenTablesKeepTheirStack NoLeaderAmidDependency CallsGetEveryAnswerOnce EngineInv
PROPERTIES Terminates ForestSpec
CHECK_DEADLOCK FALSE
