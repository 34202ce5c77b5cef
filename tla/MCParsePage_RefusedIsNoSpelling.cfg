SPECIFICATION Spec
CONSTANTS
  Keys <- MCFewKeys
  MaxText = 3
INVARIANT RefusedIsNoSpelling
