SPECIFICATION MCSpec
CONSTANTS
  a1 = a1
  a2 = a2
  adsb1090 = adsb1090
  uat978 = uat978
  zero = zero
  value = value
  field = field
  Aircraft <- MCAircraft
  Feeds <- MCFeeds
  MetaFeeds <- MCMetaFeeds
  Tick = Tick
  Fields <- MCFields
  Values <- MCValues
  Guess <- MCGuess
  Zero = zero
  NoTarget = NoTarget
  NoStamp = NoStamp
  Unsaid = Unsaid
  MaxTargets = 1
  TTL = 1
  Lag = 1
  t1 = t1
  t2 = t2
  t3 = t3
  metar = metar
  none = none
  Towers <- MCTowers
  Products <- MCProducts
  Kinds <- MCKinds
  NoLine = none
  Window = 2
  MaxTowers = 2
  MaxText = 3
  Cap = 3
  Drain = 2
  Backward = TRUE
  MaxClock = 4
  MaxFrames = 5
  plain = plain
  s1090 = s1090
  s978 = s978
  both = both
  Serials <- MCSerials
  Says1090 <- MCSays1090
  Says978 <- MCSays978
  Manual <- MCManual
  MaxDongles = 3
INVARIANTS
  DistinctDongles
  SerialsRespected
  LastKnownKept
  AgeBounded
  PositionedBounded
  TallyOfMinute
  TextNewestFirst
  RelayInTime
PROPERTIES
  ImplementsPicture
SYMMETRY MCSymmetry
CHECK_DEADLOCK FALSE
