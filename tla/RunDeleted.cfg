SPECIFICATION Spec
CONSTANTS
  c1 = c1
  c2 = c2
  Streams <- MCStreams
  MaxEvents = 4
PROPERTY DeletedForGood
CHECK_DEADLOCK FALSE
