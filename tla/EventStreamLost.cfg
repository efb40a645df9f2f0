CONSTANTS
  engine = engine
  canceller = canceller
  w1 = w1
  w2 = w2
  Writers <- TwoWriters
  Watchers <- OneWatcher
  MaxEvents = 3
SPECIFICATION Spec
INVARIANTS
  NothingLost
CHECK_DEADLOCK FALSE
