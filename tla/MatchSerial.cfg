\* One request at a time, which may die; duels between two players.
SPECIFICATION WatchedSpec
CONSTANTS
  p1 = p1
  p2 = p2
  ann <- SerialHuman
  bot <- SerialAgent
  Identities <- SerialIdentities
  Callers = {p1, p2}
  IdentityOf <- MCIdentityOf
  ComputeDeltas <- MCComputeDeltas
  InitialRating <- MCInitialRating
  Outcomes <- MCOutcomes
  None = None
  MatchIds = {m1, m2, m3}
  Writers = {w1}
  Points = {1, 2}
  Target = 2
  MaxTurns = 2
  MaxEntries = 2
  LaggingReads = FALSE
  MayCrash = TRUE
  MaxConcurrent = 1
  MaxStored = 2
CHECK_DEADLOCK FALSE
INVARIANT CountsUntilDeath
INVARIANT ListedUntilDeath
INVARIANT LeaderboardFollowsDataset
INVARIANT CapsHold
PROPERTY KeepsLifecycle
