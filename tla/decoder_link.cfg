SPECIFICATION Spec
CONSTANTS
  json = json
  raw = raw
  Order <- MCOrder
  Json <- MCJson
  WireMax = 1
INVARIANTS ClosedMeansGone StatusExplained
PROPERTIES CloseReturns StreamComesBack
CHECK_DEADLOCK FALSE
