\* One reader beside requests and sweeps that write as they like; reads may lag.
CONSTANTS
  MatchIds = {m1, m2}
  RecentLimit = 2
  MaxHistory = 3
  MaxMoved = 1
SPECIFICATION PublicSpec
SYMMETRY IdSymmetry
INVARIANT ReportsCountOnce
INVARIANT ProfileShowsRecent
