---------------------------- MODULE MCBrowserTurn ----------------------------
(***************************************************************************)
(* Two units, one post and one resource node; and the paths of the site, a *)
(* few that are nobody's among them.                                       *)
(***************************************************************************)
EXTENDS BrowserTurn, TLC

MCStartBoard ==
  [owner |-> None, bank |-> 0, node |-> 2,
   alive |-> [u \in Units |-> TRUE], carrying |-> [u \in Units |-> 0]]

MCGameLists(board, u) ==
  IF ~board.alive[u] THEN {}
  ELSE {"hold", IF board.carrying[u] = 1 THEN "deliver" ELSE "move"}

MCAssets == {<<"theme.css">>, <<"fonts", "league.woff2">>}

MCMd == [s \in {"index.md", "docs.md", "nothing.md", "play.md", "profiles.md", "v1.md"} |->
           CASE s = "index.md" -> "index"       [] s = "docs.md" -> "docs"
             [] s = "nothing.md" -> "nothing"   [] s = "play.md" -> "play"
             [] s = "profiles.md" -> "profiles" [] s = "v1.md" -> "v1"]

MCJson == [s \in {"ada.json", "bob.json"} |-> IF s = "ada.json" THEN "ada" ELSE "bob"]

MCPaths ==
  LET m == MatchId IN
  MCAssets \cup
  {<<"">>, <<"index">>, <<"index.md">>, <<"docs">>, <<"docs.md">>, <<"llms.txt">>,
   <<"front">>, <<"fonts", "none">>, <<"nothing">>, <<"nothing.md">>, <<Stage>>,
   <<"leaderboard">>, <<"matches", m, "watch">>, <<"matches", "gone", "watch">>,
   <<"profiles", "">>, <<"profiles", "ada">>, <<"profiles", "ada", "card.svg">>,
   <<"profiles", "ada.json">>, <<"profiles", "bob.json">>, <<"profiles.md">>,
   <<"auth", "login", "">>, <<"auth", "login", "a", "b">>, <<"auth", "login", "github">>, <<"auth", "login", "other">>,
   <<"auth", "callback", "github">>, <<"auth", "logout">>, <<"auth", "agents">>,
   <<"play">>, <<"play.md">>, <<"play", "nothing">>, PlayMatches, PlayMatches \o <<"gone">>,
   PlayMatches \o <<m>>, PlayMatches \o <<m, "turns">>,
   Api \o <<"leaderboard">>, Api \o <<"nothing">>, <<"api", "v1.md">>, ApiMatches, ApiMatches \o <<m>>,
   ApiMatches \o <<m, "turns">>, ApiMatches \o <<"gone", "turns">>, ApiMatches \o <<m, "score">>,
   ApiMatches \o <<m, "resume">>}
=============================================================================
