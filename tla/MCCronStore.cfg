CONSTANTS
  Jobs = {j1, j2, j3}
  Threads = {p, q}
  MaxTotal = 1
  NoFile = NoFile
  Empty = Empty
  Torn = Torn
  NoJob = NoJob
  Idle = Idle
SPECIFICATION Spec
INVARIANTS TypeOK WholeUnlessOverlap SavedSurvives
PROPERTY InsertBounded
SYMMETRY Symmetry
