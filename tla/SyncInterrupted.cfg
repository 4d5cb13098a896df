SPECIFICATION Spec
\* The bounds end: no step is left when they are spent.
CHECK_DEADLOCK FALSE
CONSTANTS
  None = None
  Blank = blank
  c1 = c1
  c2 = c2
  t1 = t1
  Contacts = {c1, c2}
  Texts = {t1, t2}
  LocalIds = {1, 2, 3}
  WavelogIds = {1, 2, 3}
  BatchSize = 2
  Overlap = TRUE
  Starts <- InterruptedStarts
  Bounds <- InterruptedBounds
INVARIANTS
  NoDuplicateOnWavelog
PROPERTIES
  RemoteDeletionsAreExplicit
  ReconcileKeepsRows
  RecordedEditsSurvive
