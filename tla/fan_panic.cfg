SPECIFICATION FanSpec
INVARIANT FanNeverCrashes
CHECK_DEADLOCK FALSE
