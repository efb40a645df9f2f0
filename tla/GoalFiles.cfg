SPECIFICATION Spec
CONSTANTS
  g1 = g1
  g2 = g2
  t1 = t1
  Goals = {g1, g2}
  Gates = {"tests", "review"}
  Required <- RequiredModel
  Commands = {"tests"}
  Running = {g1}
  Depends <- DependsModel
  Readers = {t1}
  MaxWrites = 2
  MaxRecords = 2
INVARIANTS
  CacheFresh
  EvidenceDecides
CHECK_DEADLOCK FALSE
