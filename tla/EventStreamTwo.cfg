CONSTANTS
  engine = engine
  canceller = canceller
  w1 = w1
  w2 = w2
  Writers <- TwoWriters
  Watchers <- OneWatcher
  MaxEvents = 4
SPECIFICATION Spec
INVARIANTS
  NoRepetition
  StreamIsWhole
PROPERTIES
  WatchersComplete
CHECK_DEADLOCK FALSE
