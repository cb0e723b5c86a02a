SPECIFICATION Spec
CONSTANTS
  tick = tick
  streamer = streamer
  none = none
  Producers <- MCProducers
  Tick = tick
  NoTime = none
  Batch <- MCBatch
  BufSize = 3
  MaxLines = 3
  MaxTime = 2
INVARIANTS SentIsInLog LogIsPrefix ReplayIsFaithful
PROPERTY ReplayEnds
CHECK_DEADLOCK FALSE
