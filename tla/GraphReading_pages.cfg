SPECIFICATION CaseSpec
CONSTANTS
  Null = Null
  PhaseSpan = 100
  Ledgers <- MCLedgers
  Depth = 2
  PageSizes = {3, 40}
  EdgeCap = 7
  LoadedNodes = 9
  LoadedEdges = 10
  MaxMounts = 2
  MaxLoads = 4
  Findings <- MCFindings
  Family <- MCFamily
  Score <- MCScore
  Dispositions = {"escalated", "dismissed"}
  LegacyRows = 1
  FileRows <- MCFileRows
  ExportPage = 2
  MaxDecisions = 2
INVARIANTS
  CaseIsReadWhole
  FlowIsMutual
CHECK_DEADLOCK FALSE
