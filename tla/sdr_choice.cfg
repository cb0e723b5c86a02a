SPECIFICATION AssignSpec
CONSTANTS
  plain = plain
  s1090 = s1090
  s978 = s978
  both = both
  Serials <- MCSerials
  Says1090 <- MCSays1090
  Says978 <- MCSays978
  Manual <- MCManual
  MaxDongles = 3
INVARIANT SelectionKept
CHECK_DEADLOCK FALSE
