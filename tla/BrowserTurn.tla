------------------------------ MODULE BrowserTurn ------------------------------
(***************************************************************************)
(* One human's browser and one grid-lane match: the site behind API Gateway*)
(* (Site), the pages on which turns are planned (PlayView), and what else  *)
(* moves the match meanwhile.  Pages carry the plan in their URLs and the  *)
(* session in a cookie, so the browser may come back with a page, a form   *)
(* or a cookie of any age.                                                 *)
(*                                                                         *)
(* A request is one step here: module PlayPages takes the requests of one  *)
(* match apart into loads and saves, and the game into its turns; what a   *)
(* turn does to the board is left open.                                    *)
(***************************************************************************)
EXTENDS Site, PlayView

CONSTANTS GameLists(_, _), \* GameLists(board, u): the legal orders of u there
          StartBoard,      \* the board of a new match
          MatchId,
          Paths,           \* bound: the paths the browser tries besides the match
          MaxStaged,       \* bound: orders in a URL that is typed in
          TurnLimit        \* turn_limit of the scenario

ASSUME TurnAssumption ==
  StartBoard \in Board /\ {MaxStaged, TurnLimit} \subseteq Nat /\ MatchId # ""

VARIABLES
  secret,   \* whether LEAGUE_SESSION_SECRET is set
  cookie,   \* the session cookie in the browser: "none", "live" or "stale"
  match,    \* the stored match
  form,     \* the planning page last shown, which its form may be sent from
  asked,    \* the last request, if it was for anything but the match
  verdict,  \* what became of the form, if that was the last request
  happened  \* history: what the last turn that was resolved has changed

vars == <<secret, cookie, match, form, asked, verdict, happened>>

Sides == {"us", "them"}

\* solo: the other side is the house's.
NewMatch(mode) ==
  [mode |-> mode, status |-> "active", turn |-> 0, staged |-> {},
   board |-> StartBoard, news |-> {}]

NoForm == [turn |-> None]
NoRequest == [path |-> None]
NoVerdict == [result |-> None]

Legal == [u \in Units |-> GameLists(match.board, u)]

\* The other side is an agent's, or the house's.
World ==
  [secret |-> secret, stored |-> {MatchId}, human |-> {MatchId},
   agent |-> IF match.mode = "duel" THEN {MatchId} ELSE {}]

Serve(req) == Handler(req, World)

MatchPage == PlayMatches \o <<MatchId>>

Browser(method, path) ==
  [method |-> method, stage |-> FALSE, path |-> path, cookie |-> cookie, token |-> FALSE]

Init ==
  /\ secret \in BOOLEAN
  /\ cookie \in {"none", "live", "stale"}
  /\ \E mode \in {"solo", "duel"} : match = NewMatch(mode)
  /\ form = NoForm
  /\ asked = NoRequest
  /\ verdict = NoVerdict
  /\ happened = {}

-----------------------------------------------------------------------------
(* A turn, in the game and in adapter.py *)

\* What a resolved turn may come to: one of these for each unit, and an owner of
\* the post.
Outcomes ==
  {o \in [does : [Units -> {"nothing", "gather", "deliver", "fall"}],
          owner : {"us", "them", None}] :
     /\ \A u \in Units :
          /\ o.does[u] # "nothing" => match.board.alive[u]
          /\ o.does[u] = "gather" => match.board.carrying[u] = 0
          /\ o.does[u] = "deliver" => match.board.carrying[u] = 1
     /\ Cardinality({u \in Units : o.does[u] = "gather"}) <= match.board.node}

Doing(o, what) == {u \in Units : o.does[u] = what}

After(board, o) ==
  [owner |-> o.owner,
   bank |-> board.bank + Cardinality(Doing(o, "deliver")),
   node |-> board.node - Cardinality(Doing(o, "gather")),
   alive |-> [u \in Units |-> board.alive[u] /\ o.does[u] # "fall"],
   carrying |-> [u \in Units |-> CASE o.does[u] = "gather" -> 1
                                   [] o.does[u] \in {"deliver", "fall"} -> 0
                                   [] OTHER -> board.carrying[u]]]

\* The same, told as news.
Changes(board, o) ==
  UNION {{<<"gathered", u>> : u \in Doing(o, "gather")},
         {<<"fell", u>> : u \in Doing(o, "fall")},
         IF Doing(o, "deliver") = {} THEN {} ELSE {<<"delivered", Cardinality(Doing(o, "deliver"))>>},
         IF board.node > 0 /\ board.node = Cardinality(Doing(o, "gather")) THEN {<<"exhausted">>} ELSE {},
         IF o.owner = board.owner THEN {}
         ELSE IF o.owner = None THEN {<<"lost", board.owner>>} ELSE {<<"captured", o.owner>>}}

Staging(m, side) == m.staged \cup {side} \cup IF m.mode = "solo" THEN {"them"} ELSE {}

Resolving(m, side) == Staging(m, side) = Sides

Resolved(m, o) ==
  [m EXCEPT !.board = After(@, o), !.turn = @ + 1, !.staged = {},
            !.status = IF m.turn + 1 = TurnLimit THEN "completed" ELSE @]

\* Faulty variant: the events are told before the house has been driven.
ApplyTurnToldEarly(m, side, o) ==
  LET after == IF Resolving(m, side) THEN Resolved(m, o)
               ELSE [m EXCEPT !.staged = Staging(m, side)]
  IN  [after EXCEPT !.news = IF m.mode = "solo" THEN {} ELSE DiffTurnEvents(m.board, after.board)]

\* apply_turn: the orders of a side are staged, the house is driven, the turn is
\* resolved once both sides have staged, and the news is whatever has changed.
ApplyTurn(m, side, o) ==
  LET after == IF Resolving(m, side) THEN Resolved(m, o)
               ELSE [m EXCEPT !.staged = Staging(m, side)]
  IN  [after EXCEPT !.news = DiffTurnEvents(m.board, after.board)]

TakeTurn(side) ==
  \E o \in Outcomes :
    /\ match' = ApplyTurn(match, side, o)
    /\ happened' = IF Resolving(match, side) THEN Changes(match.board, o) ELSE happened

-----------------------------------------------------------------------------
(* Everybody else *)

\* The match has moved on under the page.
Stale == form' = IF form = NoForm THEN form ELSE [form EXCEPT !.fresh = FALSE]

Elsewhere == asked' = NoRequest /\ verdict' = NoVerdict

\* A turn through the API: the agent's, or the human's own from another page.
ApiTurn(side) ==
  /\ match.status = "active"
  /\ match.mode = "solo" => side = "us"
  /\ TakeTurn(side)
  /\ Stale /\ Elsewhere
  /\ UNCHANGED <<secret, cookie>>

PauseOrResume ==
  /\ match.status \in {"active", "paused"}
  /\ match' = [match EXCEPT !.status = IF @ = "active" THEN "paused" ELSE "active"]
  /\ Stale /\ Elsewhere
  /\ UNCHANGED <<secret, cookie, happened>>

\* A callback, the passing of time or a new secret, and a logout.
CookieChanges ==
  /\ \/ secret /\ cookie' = "live"
     \/ cookie = "live" /\ cookie' = "stale"
     \/ cookie' = "none"
  /\ Elsewhere
  /\ UNCHANGED <<secret, match, form, happened>>

-----------------------------------------------------------------------------
(* The browser *)

\* Any other request.  Bound: one at a time, before the first turn.
Browse(req) ==
  /\ match.turn = 0 /\ form = NoForm /\ asked = NoRequest
  /\ req.cookie = cookie
  /\ asked' = req
  /\ verdict' = NoVerdict
  /\ UNCHANGED <<secret, cookie, match, form, happened>>

\* URLs that are typed in, bookmarked or left from an earlier page, and the links
\* of the page at hand.
TypedUrls == Urls(MaxStaged)

FollowedUrls ==
  IF form # NoForm /\ form.fresh
    THEN Links([plan |-> form.plan, unit |-> form.unit], Legal) ELSE {}

\* GET /play/matches/{id} with a plan in its query: a planning page, when it is the
\* human's move.
ShowPlan(urls) ==
  /\ Serve(Browser("GET", MatchPage)).status = 200
  /\ Planning(match, Legal)
  /\ \E url \in urls :
       LET page == PageAt(url, Legal)
       IN  form' = [turn |-> match.turn, plan |-> page.plan, unit |-> page.unit, fresh |-> TRUE]
  /\ Elsewhere
  /\ UNCHANGED <<secret, cookie, match, happened>>

\* Faulty variant: the form's turn is not compared.
SubmitPlanAnyTurn ==
  IF match.status # "active" THEN "over"
  ELSE IF PlayablePlan(form.plan, Legal) THEN "played" ELSE "illegal"

\* _submit_turn and _submit_plan, once the surface has let the human in.
SubmitPlan ==
  IF match.status # "active" THEN "over"
  ELSE IF form.turn # match.turn THEN "stale"
  ELSE IF PlayablePlan(form.plan, Legal) THEN "played" ELSE "illegal"

\* POST /play/matches/{id}/turns, from the page or from behind the back button.
PostForm ==
  /\ form # NoForm /\ form.plan # << >>
  /\ LET answer == Serve(Browser("POST", MatchPage \o <<"turns">>))
         result == IF answer.status = 303 THEN SubmitPlan ELSE "refused"
     IN  /\ verdict' = [result |-> result, turn |-> match.turn, fresh |-> form.fresh,
                        orders |-> IF result = "played" THEN ComposeTurn(form.plan) ELSE {}]
         /\ IF result = "played"
              THEN TakeTurn("us") /\ Stale
              ELSE UNCHANGED <<match, form, happened>>
  /\ asked' = NoRequest
  /\ UNCHANGED <<secret, cookie>>

Next ==
  \/ \E side \in Sides : ApiTurn(side)
  \/ PauseOrResume
  \/ CookieChanges
  \/ \E req \in Requests(Paths) : Browse(req)
  \/ ShowPlan(TypedUrls)
  \/ ShowPlan(FollowedUrls)
  \/ PostForm

Spec == Init /\ [][Next]_vars

-----------------------------------------------------------------------------
(* Properties *)

\* play/wsgi.py, _submit_plan: only a double submit or a board that has moved is
\* refused.  Whatever URL the page came from, its plan is played whole if nobody
\* has moved since and the session is still good, and never in a later turn.
EndTurnPlaysPlan ==
  verdict # NoVerdict =>
    /\ secret /\ cookie = "live" /\ verdict.fresh => verdict.result = "played"
    /\ verdict.result = "played" =>
         verdict.turn = form.turn /\ verdict.orders = ToSet(form.plan)

\* The pages that one more tap on a control leads to, and so many taps.
Tap(pages, legal) ==
  UNION {{PageAt(url, legal) : url \in Controls(page, legal)} : page \in pages}

AfterTaps(page, legal, count) ==
  LET pages[k \in 0..count] == IF k = 0 THEN {page} ELSE Tap(pages[k - 1], legal)
  IN  pages[count]

\* Every way to give each of these units an order.
OrderChoices(units, legal) ==
  {{[unit |-> u, verb |-> verb[u]] : u \in units} :
     verb \in {f \in [units -> Verbs] : \A u \in units : f[u] \in legal[u]}}

\* play/board.py, _next_unstaged: a full turn is one tap per decision.  From a page
\* with a unit selected, as many taps on controls as units need an order lead to
\* every way to complete its plan, and nowhere else; and then the page tells the
\* human to end the turn, which it does not before.
OneTapPerDecision ==
  (form # NoForm /\ form.fresh /\ form.unit # None) =>
    LET open == Unstaged(form.plan, Legal)
        ends == AfterTaps([plan |-> form.plan, unit |-> form.unit], Legal, Cardinality(open))
    IN  /\ {ComposeTurn(page.plan) : page \in ends} =
             {ToSet(form.plan) \cup orders : orders \in OrderChoices(open, Legal)}
        /\ \A page \in ends : Lead(page, Legal) = <<"end turn">>
        /\ Lead([plan |-> form.plan, unit |-> None], Legal) # <<"end turn">>

\* adapter.py: the feed is the whole of the last resolved turn, whoever resolved
\* it, the house's part included; it is empty as soon as a side has staged for the
\* next one.  The page never contradicts it with the posts it shows; and it only
\* gives up on the browser when no unit of the human's is left.
PageTellsTurn ==
  LET shown == View(match, Url(<< >>, None), Legal) IN
  /\ match.news = IF match.staged = {} THEN happened ELSE {}
  /\ \A team \in Sides :
       /\ <<"captured", Label(match, team)>> \in shown.events => shown.strip.posts[team] = 1
       /\ <<"lost", Label(match, team)>> \in shown.events =>
            \A holder \in Sides : shown.strip.posts[holder] = 0
  /\ shown.panel = "through the API" => \A u \in Units : ~match.board.alive[u]

\* wiring.py, _without_session_cookies: a cookie that cannot verify is as good as
\* none, on every surface, and no page fails for it; only signing in takes the
\* secret.  And nobody is taken for the human without a session that verifies.
StaleCookieIsNoCookie ==
  asked # NoRequest =>
    LET answer == Serve(asked) IN
    /\ ~secret \/ cookie # "live" => answer = Serve([asked EXCEPT !.cookie = "none"])
    /\ answer.as = "human" => secret /\ cookie = "live"
    /\ answer = Crash => ~secret /\ \E step \in {"login", "callback"} :
                            Under(AppPath(StagePath(asked)), <<"auth", step>>)
=============================================================================
