SPECIFICATION Spec
CONSTANTS
  a = a
  b = b
  c = c
  d = d
  ee = ee
  Form <- MCForm
  NRules = 4
  Rewrites <- MCRewrites
  Surface = a
INVARIANTS TypeOK RulesInOrderOnce TagsExplainForm AnswerIsAllDerivations
PROPERTIES ClosureSpec Terminates
CHECK_DEADLOCK FALSE
