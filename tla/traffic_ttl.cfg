SPECIFICATION StoreSpec
CONSTANTS
  a1 = a1
  a2 = a2
  adsb1090 = adsb1090
  uat978 = uat978
  zero = zero
  value = value
  field = field
  Aircraft <- MCAircraft
  Feeds <- MCFeeds
  MetaFeeds <- MCMetaFeeds
  Tick = Tick
  Fields <- MCFields
  Values <- MCValues
  Guess <- MCGuess
  Zero = zero
  NoTarget = NoTarget
  NoStamp = NoStamp
  Unsaid = Unsaid
  MaxTargets = 1
  TTL = 1
  Lag = 1
PROPERTY TTLFromPosition
