SPECIFICATION Spec
CONSTANTS
  Paths <- MCPaths
  Ids = {1, 6, 7}
  Half = 4
  Absent = Absent
  NotANumber = NotANumber
  Sections <- MCSections
CHECK_DEADLOCK FALSE
INVARIANTS
  EveryPairTranslates
