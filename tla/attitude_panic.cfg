SPECIFICATION HubSpec
CONSTANTS
  h1 = h1
  h2 = h2
  Handlers <- MCHandlers
  Buffer = 2
  MaxAttitudes = 4
INVARIANT NoPanic
CHECK_DEADLOCK FALSE
