SPECIFICATION Spec
CONSTANTS
  h1 = h1
  h2 = h2
  d1 = d1
  d2 = d2
  d3 = d3
  i1 = i1
  i2 = i2
  n1 = n1
  n2 = n2
  f1 = f1
  b1 = b1
  b2 = b2
  NoProfile = NoProfile
  NoFlag = NoFlag
  Resolved = Resolved
  Handlers <- MCHandlers
  Dests <- MCDests
  BadDests <- MCBadDests
  Idents <- MCIdents
  Names <- MCNames
  DefaultName = n1
  Flags <- MCFlags
  Boots <- MCBoots
  Overrides <- MCOverrides
  ProfileLists <- MCProfileLists
  Files <- MCFiles
  MaxRequests = 3
  MaxStarts = 1
CHECK_DEADLOCK FALSE
PROPERTY NoFalseRestart
