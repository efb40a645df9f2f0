CONSTANTS
  a = a
  b = b
  c = c
  c1 = c1
  c2 = c2
  eng = eng
  Tasks <- MCTasks
  Deps <- MCDeps
  Engine = eng
  Callers <- OneCaller
SPECIFICATION Spec
PROPERTIES
  CancelReachesTerminal
