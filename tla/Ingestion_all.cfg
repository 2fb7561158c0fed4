SPECIFICATION Spec
CONSTANTS
  Jobs = {1, 2}
  Txids = {a, b}
  Variants = {x, y}
  MaxRows = 3
  Sources <- AllSources
  BatchSizes = {1, 2}
  MaxStops = 2
CHECK_DEADLOCK FALSE
INVARIANTS
  ReceiptsAreBacked
PROPERTIES
  IntakeKept
