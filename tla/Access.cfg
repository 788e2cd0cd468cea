SPECIFICATION Spec
CONSTANTS
  Handlers = {h1, h2}
  MaxEdits = 2
  Repeated <- MCRepeated
  Bodies <- MCBodies
  Ranks <- MCRanks
  EditRanks <- MCEditRanks
INVARIANTS
  AnsweredAsMeant
  RefusalsDocumented
  TiesPass
PROPERTIES
  RankKept
SYMMETRY Symmetry
CHECK_DEADLOCK FALSE
