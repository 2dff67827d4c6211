\* One browser on every path of the site, planning and ending turns of two units.
SPECIFICATION Spec
CONSTANTS
  Docs = {"index", "about"}
  Rated = {"ada"}
  Providers = {"github"}
  Assets <- MCAssets
  Md <- MCMd
  Json <- MCJson
  ApiRoots = {"v1", "v1.md"}
  Units = {1, 2}
  Verbs = {"hold", "move", "deliver"}
  None = None
  GameLists <- MCGameLists
  StartBoard <- MCStartBoard
  MatchId = "m"
  Paths <- MCPaths
  MaxStaged = 2
  TurnLimit = 2
INVARIANT EndTurnPlaysPlan
INVARIANT OneTapPerDecision
INVARIANT PageTellsTurn
INVARIANT StaleCookieIsNoCookie
