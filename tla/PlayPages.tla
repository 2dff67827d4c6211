------------------------------ MODULE PlayPages ------------------------------
(***************************************************************************)
(* One grid-lane match, played through the browser (league_site/play) and  *)
(* through the API side by side.  A page shows the board a human plans on; *)
(* its form names the turn, and may be posted at any time, more than once, *)
(* and after the board has moved.  Both surfaces load the match, apply the *)
(* turn to their own copy (matchops.take_turn) and save the whole copy:    *)
(*                                                                         *)
(*   load, (record the rating of a finished match,) save                   *)
(*                                                                         *)
(* The rating ledger's own steps are those of MatchService; here the match *)
(* is rated in one.  Refused requests (redirects with a notice, 4xx, 500)  *)
(* change nothing and are not steps; nor is the single-action form, which  *)
(* is shown for games without orders per unit only.  No client waits for its own answers, *)
(* so a load from a replica that lags is a load that happened earlier: an  *)
(* invocation may hold its copy for as long as it likes.                   *)
(***************************************************************************)
EXTENDS GridLane

CONSTANTS Writers,       \* concurrent invocations
          MayCrash,      \* TRUE: an invocation may die between two calls
          MaxRecords     \* bound: turn records of the match

ASSUME PagesAssumption == MayCrash \in BOOLEAN /\ MaxRecords \in Nat

VARIABLES
  match,     \* the stored match, NoMatch before it is created
  page,      \* page[p]: the board on p's open page, None without a form
  request,   \* request[w]: what invocation w is in the middle of
  rated,     \* whether record_match has been called for the match
  accepted,  \* history: <<p, n>> once p has been told its turn n orders are in
  raced      \* history: TRUE once a request began beside another

vars == <<match, page, request, rated, accepted, raced>>

NoMatch == [status |-> "absent"]

\* turn: the turn that by's orders are for.
NoRequest == [stage |-> "idle", by |-> None, turn |-> None, match |-> None]

Init ==
  /\ match = NoMatch
  /\ page = [p \in Players |-> None]
  /\ request = [w \in Writers |-> NoRequest]
  /\ rated = FALSE
  /\ accepted = {}
  /\ raced = FALSE

Idle(w) == request[w].stage = "idle"

\* w goes on with its copy m; the next call is the rating or the save.
Begins(w, stage, by, turn, m) ==
  /\ request' = [request EXCEPT ![w] =
       [stage |-> stage, by |-> by, turn |-> turn, match |-> m]]
  /\ raced' = (raced \/ \E v \in Writers : ~Idle(v))
  /\ UNCHANGED <<match, page, rated, accepted>>

-----------------------------------------------------------------------------
(* create_match, by either surface: its one write *)

Started(mode, seats) ==
  [mode |-> mode, seats |-> seats, status |-> "active", game |-> NewGame(mode),
   turns |-> << >>, result |-> None]

Create(mode, seats) ==
  /\ match = NoMatch
  /\ match' = Started(mode, seats)
  /\ UNCHANGED <<page, request, rated, accepted, raced>>

-----------------------------------------------------------------------------
(* matchops.take_turn *)

SoleLeader(scores) ==
  LET leaders == {p \in DOMAIN scores : \A q \in DOMAIN scores \ {p} : scores[p] > scores[q]}
  IN  IF leaders = {} THEN None ELSE CHOOSE p \in leaders : TRUE

Turned(m, play) ==
  [m EXCEPT !.game = ApplyTurn(m.mode, m.seats, @, play),
            !.turns = Append(@, play)]

Completed(m) ==
  LET scores == Scores(m.mode, m.seats, m.game)
  IN  [m EXCEPT !.status = "completed",
                !.result = [winner |-> SoleLeader(scores), scores |-> scores]]

\* Faulty variant: a finished game is not completed.
AfterTurnNeverComplete(m, play) == Turned(m, play)

AfterTurn(m, play) ==
  LET turned == Turned(m, play) IN IF IsOver(m.mode, turned.game) THEN Completed(turned) ELSE turned

\* Faulty variant: every score counts as a rated participant's.
RatedByScores(m) == m.status = "completed" /\ Cardinality(DOMAIN m.result.scores) >= 2

\* record_rating: the scored participants, at least two.
Rated(m) ==
  m.status = "completed" /\ Cardinality(DOMAIN m.result.scores \cap Seated(m.seats)) >= 2

TakeTurn(w, m, play) ==
  LET after == AfterTurn(m, play)
  IN  Begins(w, IF Rated(after) THEN "rating" ELSE "saving", play.by, Len(m.game.log), after)

\* What both surfaces ask of the match they have loaded.
MayPlay(m, p) ==
  /\ m.status = "active"
  /\ p \in Seated(m.seats)
  /\ Len(m.turns) < MaxRecords

\* POST /matches/{id}/turns of the API: any orders, whatever the turn.
CallTurn(w, p, orders) ==
  /\ Idle(w)
  /\ MayPlay(match, p)
  /\ TakeTurn(w, match, Play(p, orders, None))

-----------------------------------------------------------------------------
(* play/wsgi.py *)

\* GET /play/matches/{id}: a planning page, when it is p's move.
OpenPage(p) ==
  /\ match.status = "active"
  /\ p \in Seated(match.seats)
  /\ match.game.staged[TeamOf(match.mode, match.seats, p)] = None
  /\ page' = [page EXCEPT ![p] = match.game.log]
  /\ UNCHANGED <<match, request, rated, accepted, raced>>

\* Faulty variant: the form's turn is not compared with the match's.
PostFormAnyTurn(w, p, orders) ==
  /\ Idle(w) /\ page[p] # None
  /\ MayPlay(match, p)
  /\ LET t == TeamOf(match.mode, match.seats, p) IN
       orders \in Legal(page[p], t) \cap Legal(match.game.log, t)
  /\ TakeTurn(w, match, Play(p, orders, Len(page[p])))

\* POST /play/matches/{id}/turns: the plan of an open page.  It is refused as
\* stale when the turn has moved, and as illegal by the orders of the moment.
PostForm(w, p, orders) ==
  /\ Idle(w) /\ page[p] # None
  /\ MayPlay(match, p)
  /\ Len(page[p]) = Len(match.game.log)
  /\ LET t == TeamOf(match.mode, match.seats, p) IN
       orders \in Legal(page[p], t) \cap Legal(match.game.log, t)
  /\ TakeTurn(w, match, Play(p, orders, Len(page[p])))

-----------------------------------------------------------------------------
(* The rest of a request *)

Rate(w) ==
  /\ request[w].stage = "rating"
  /\ rated' = TRUE
  /\ request' = [request EXCEPT ![w].stage = "saving"]
  /\ UNCHANGED <<match, page, accepted, raced>>

\* put_item of the whole copy; the caller learns that it is done.
Save(w) ==
  /\ request[w].stage = "saving"
  /\ match' = request[w].match
  /\ accepted' = accepted \cup {<<request[w].by, request[w].turn>>}
  /\ request' = [request EXCEPT ![w] = NoRequest]
  /\ UNCHANGED <<page, rated, raced>>

\* The invocation dies, or a call to AWS or to the league program raises.
Die(w) ==
  /\ MayCrash
  /\ ~Idle(w)
  /\ request' = [request EXCEPT ![w] = NoRequest]
  /\ UNCHANGED <<match, page, rated, accepted, raced>>

Step(w) ==
  \/ \E p \in Players, orders \in Orders : CallTurn(w, p, orders) \/ PostForm(w, p, orders)
  \/ Rate(w) \/ Save(w) \/ Die(w)

Next ==
  \/ \E mode \in Modes : \E seats \in Seatings(mode) : Create(mode, seats)
  \/ \E p \in Players : OpenPage(p)
  \/ \E w \in Writers : Step(w)

Spec == Init /\ [][Next]_vars

-----------------------------------------------------------------------------
(* Properties *)

PlaySet == [by : Players \cup {None}, orders : Orders, made : Nat \cup {None}]

\* Python's None is not what a team has staged.
ASSUME NoneIsNoPlay == None \notin PlaySet

Logs(mode) == Seq([TeamIds(mode) -> PlaySet])

IsMatch(m) ==
  /\ DOMAIN m = {"mode", "seats", "status", "game", "turns", "result"}
  /\ m.mode \in Modes /\ m.seats \in Seatings(m.mode)
  /\ m.status \in {"active", "completed"}
  /\ DOMAIN m.game = {"staged", "log"}
  /\ m.game.staged \in [TeamIds(m.mode) -> PlaySet \cup {None}]
  /\ m.game.log \in Logs(m.mode) /\ Len(m.game.log) <= TurnLimit(m.mode)
  /\ m.turns \in Seq(PlaySet)
  /\ m.status = "completed" <=> m.result # None
  /\ m.result # None => m.result.winner \in DOMAIN m.result.scores \cup {None}

RequestOK(r) ==
  /\ r.stage \in {"idle", "rating", "saving"}
  /\ r.stage # "idle" => IsMatch(r.match) /\ r.by \in Seated(r.match.seats)
  /\ r.turn \in Nat \cup {None}

\* The types of the store, the pages and the requests.
TypeOK ==
  /\ match # NoMatch => IsMatch(match)
  /\ \A p \in Players : page[p] # None => \E mode \in Modes : page[p] \in Logs(mode)
  /\ \A w \in Writers : RequestOK(request[w])
  /\ rated \in BOOLEAN /\ raced \in BOOLEAN
  /\ accepted \subseteq Players \X Nat

Board(m, n) == SubSeq(m.game.log, 1, n - 1)   \* the board that turn n was played on

\* modes.py: every turn that was ever resolved was played by every team: by a
\* participant of the team, or, for the house, by its policy on that very board.
TurnsAreWhole ==
  match # NoMatch =>
    \A n \in DOMAIN match.game.log : \A t \in TeamIds(match.mode) :
      LET play == match.game.log[n][t] IN
      IF t \in match.mode.bots
        THEN play = Executed(Board(match, n), t, Play(None, HouseOrders(Board(match, n), t), None))
        ELSE play.by \in Seated(match.seats) /\ TeamOf(match.mode, match.seats, play.by) = t

\* test_play_board_wsgi.py: a double or stale submit plays nothing twice.  The
\* orders of a page are only ever played in the turn that page showed, however
\* late, often or concurrently its form is posted.
FormsPlayTheirTurn ==
  match # NoMatch =>
    \A n \in DOMAIN match.game.log : \A t \in TeamIds(match.mode) :
      match.game.log[n][t].made \in {None, n - 1}

\* The game that a turn log leads to.
Replay(mode, seats, turns) ==
  LET game[n \in 0..Len(turns)] ==
        IF n = 0 THEN NewGame(mode) ELSE ApplyTurn(mode, seats, game[n - 1], turns[n])
  IN  game[Len(turns)]

Replays(m) ==
  /\ m.game = Replay(m.mode, m.seats, m.turns)
  /\ m.status = "completed" <=> IsOver(m.mode, m.game)
  /\ m.status = "completed" => m.result.scores = Scores(m.mode, m.seats, m.game)

\* The turn log of match.py replays to the stored game, through the adapter
\* and the house's policy; and a match is completed, with the game's own scores,
\* exactly when the game is over.
StoredMatchReplays == match # NoMatch => Replays(match)

\* adapter.py, score: "rated flows never involve house teams", although the
\* house is in the score map.
HouseNeverRated == rated => match.mode.bots = {}

\* modes.py: a turn is resolved once both participants have staged: when no
\* request is running, some participant's orders for the turn at hand are not in.
ResolvesOnceAllStaged ==
  (match.status = "active" /\ \A w \in Writers : Idle(w)) =>
    \E p \in Seated(match.seats) : <<p, Len(match.game.log)>> \notin accepted

\* The same, while requests run one at a time.
ResolvesUnlessRaced == ~raced => ResolvesOnceAllStaged
=============================================================================
