\* One job at a time, none of which fails; reads are up to date; and the schedule
\* of the daily sweep is fair.
CONSTANTS
  MatchIds = {m1, m2, m3}
  Workers = {w1}
  MaxStored = 1
  MaxHot = 2
  MaxArchive = 1
  MaxTurns = 1
  LaggingReads = FALSE
  MayCrash = FALSE
  SweepsOverlap = FALSE
  None = None
SPECIFICATION FairSpec
INVARIANT RealRunMatchesPreview
INVARIANT SweepMeetsCap
PROPERTY OnlyOperatorDropsLive
PROPERTY CompletedLeavesHot
PROPERTY ArchiveExpires
