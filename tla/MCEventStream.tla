--------------------------- MODULE MCEventStream ---------------------------
EXTENDS EventStream

CONSTANTS engine, canceller, w1, w2

OneWriter   == {engine}
TwoWriters  == {engine, canceller}
OneWatcher  == {w1}
TwoWatchers == {w1, w2}
=============================================================================
