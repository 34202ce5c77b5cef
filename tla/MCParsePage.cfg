SPECIFICATION Spec
CONSTANTS
  Keys <- MCKeys
  MaxText = 4
INVARIANTS TypeOK ListedIsEntered PlainTextIsListed
PROPERTIES MarksStayInOrder LoopShortensText
