SPECIFICATION HistorySpec
CONSTANTS
  c1 = c1
  c2 = c2
  c3 = c3
  c4 = c4
  id1 = id1
  id2 = id2
  Undefined = Undefined
  Null = Null
  BlankId = BlankId
  Ids = {id1, id2}
  Calls = {c1, c2, c3, c4}
  Words <- MCWords
  Commands <- RaceCommands
  MaxClock = 1
INVARIANTS BirthFixed OnlyDeleteRemoves
PROPERTIES ServiceKept GoneStaysGone UpdatedAtMovesForward OnlyPatchedFieldsChange
SYMMETRY CallSymmetry
CHECK_DEADLOCK FALSE
