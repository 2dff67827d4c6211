SPECIFICATION Spec
CONSTANTS
  p1 = p1
  p2 = p2
  ann = ann
  bot = bot
  Identities = {ann, bot}
  Callers = {p1, p2}
  IdentityOf <- MCIdentityOf
  ComputeDeltas <- MCComputeDeltas
  InitialRating <- MCInitialRating
  Outcomes <- MCOutcomes
  None = None
  MatchIds = {m1}
  Writers = {w1, w2}
  Points = {1}
  Target = 2
  MaxTurns = 3
  MaxEntries = 2
  LaggingReads = FALSE
  MayCrash = FALSE
  MaxConcurrent = 1
  MaxStored = 1
CHECK_DEADLOCK FALSE
PROPERTY KeepsLifecycle
