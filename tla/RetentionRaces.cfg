\* Requests race with one sweep or operator archive at a time; anything may fail
\* and reads may lag.
CONSTANTS
  MatchIds = {m1}
  Workers = {w1, w2}
  MaxStored = 1
  MaxHot = 1
  MaxArchive = 2
  MaxTurns = 2
  LaggingReads = TRUE
  MayCrash = TRUE
  SweepsOverlap = FALSE
  None = None
SPECIFICATION Spec
SYMMETRY Symmetry
INVARIANT RetainedUntilAged
