SPECIFICATION Spec
CONSTANTS
  e1 = e1
  e2 = e2
  junk = junk
  part1 = part1
  part2 = part2
  Publications = {e1, e2}
  Garbage = {junk}
  Partitions = {part1, part2}
  MaxCopies = 2
INVARIANTS FlagFollowsClients
PROPERTIES PublishedMeansSent StartupFinishes EventsHandled
CHECK_DEADLOCK FALSE
