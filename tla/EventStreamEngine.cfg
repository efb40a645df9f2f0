CONSTANTS
  engine = engine
  canceller = canceller
  w1 = w1
  w2 = w2
  Writers <- OneWriter
  Watchers <- TwoWatchers
  MaxEvents = 3
SPECIFICATION Spec
PROPERTIES
  FeedSpec
CHECK_DEADLOCK FALSE
