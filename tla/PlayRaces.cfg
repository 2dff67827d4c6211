\* Browser and API clients of one match side by side, in every launch mode.
SPECIFICATION Spec
CONSTANTS
  Players = {p1, p2}
  advance = advance
  Orders = {hold, advance}
  Hold = hold
  Legal <- MCLegal
  HouseOrders <- MCHouseOrders
  Score <- MCScore
  TurnLimit <- MCTurnLimit
  None = None
  Writers = {w1, w2}
  MayCrash = TRUE
  MaxRecords = 3
SYMMETRY Symmetry
CHECK_DEADLOCK FALSE
INVARIANT TurnsAreWhole
INVARIANT FormsPlayTheirTurn
INVARIANT StoredMatchReplays
INVARIANT HouseNeverRated
INVARIANT ResolvesUnlessRaced
