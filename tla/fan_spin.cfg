SPECIFICATION FanSpec
PROPERTY KeptSpinning
CHECK_DEADLOCK FALSE
