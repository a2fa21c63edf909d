SPECIFICATION ServerSpec
CONSTANTS
  c1 = c1
  c2 = c2
  id1 = id1
  id2 = id2
  Undefined = Undefined
  Null = Null
  BlankId = BlankId
  Ids = {id1, id2}
  Calls = {c1, c2}
  Words <- MCWords
  Incoming <- MCIncoming
  Commands <- MCCommands
  MaxClock = 1
INVARIANTS ValidationErrorsListed
CHECK_DEADLOCK FALSE
