----------------------------- MODULE PagesProofs -----------------------------
(***************************************************************************)
(* What holds of the pages that the site serves.                           *)
(*                                                                         *)
(* First, for one browser and one match, any set of paths, units, orders   *)
(* and boards, and URLs of any length:                                     *)
(*   - Cookies: two requests that differ in cookies that are not sessions  *)
(*     are told apart by no router.                                        *)
(*   - Plans: what the page makes of any URL is a plan of legal orders, at *)
(*     most one for each unit; such a plan goes through the loop of        *)
(*     _staged_orders unchanged, and its path through the site to the form *)
(*     of this match.  A fresh form's plan is one for the board at hand.   *)
(*   - Taps: after as many taps as you like, all pages that they lead to   *)
(*     have planned the same units and select the same one, and together   *)
(*     they have every choice of orders for these.                         *)
(*   - News: what a turn's outcome changes is what the difference of the   *)
(*     boards before and after it says.                                    *)
(*                                                                         *)
(* Then, that a report counts every match once that had its status all     *)
(* along, and that a profile page shows the newest matches that stay: for  *)
(* any number of matches, however the requests and sweeps beside the reader*)
(* write the table and however far its reads lag.                          *)
(*                                                                         *)
(* The argument: what a reader can find is among what has been true since  *)
(* it began.  Once listed, a match is either still to be loaded or counted,*)
(* so the two together say how often it was listed; and the places of the  *)
(* history that a page has passed are shown or were seen missing.          *)
(***************************************************************************)
EXTENDS BrowserTurn, PublicPages, FiniteSetTheorems, SequenceTheorems, WellFoundedInduction, TLAPS

-----------------------------------------------------------------------------
(* Requests without a session *)

\* The requests r and s differ in their cookies at most, and neither has a session.
Twins(r, s) ==
  /\ r.method = s.method /\ r.path = s.path /\ r.token = s.token
  /\ ~Session(r) /\ ~Session(s)

LEMMA ApiTwins ==
  ASSUME NEW r, NEW s, NEW w, Twins(r, s)
  PROVE  WithApi(r, w) = WithApi(s, w)
<1>1. Identity(r) = Identity(s) BY DEF Twins, Identity
<1>2. CreateMatch(r) = CreateMatch(s) BY <1>1 DEF CreateMatch
<1>3. \A id : WriteMatch(r, id, w) = WriteMatch(s, id, w) BY <1>1, Zenon DEF WriteMatch
<1>4. \A by, method, answer : OnMethod(by, r, method, answer) = OnMethod(by, s, method, answer)
  BY DEF Twins, OnMethod
<1>5. r.path = s.path BY DEF Twins
<1>6. ApiDispatch(r, w) = ApiDispatch(s, w)
  <2>. DEFINE leaderboard(path) == path = Api \o <<"leaderboard">>
              create(path) == path \in {ApiMatches, ApiMatches \o <<"">>}
              write(path)  == \E act \in {"turns", "pause", "resume"} : Names(path, ApiMatches, <<act>>)
              score(path)  == Names(path, ApiMatches, <<"score">>)
              read(path)   == Names(path, ApiMatches, << >>)
  <2>1. \A q : ApiDispatch(q, w) =
          CASE leaderboard(q.path)   -> OnMethod("api", q, "GET", Page("api", 200))
            [] create(q.path)        -> OnMethod("api", q, "POST", CreateMatch(q))
            [] write(q.path)         -> OnMethod("api", q, "POST", WriteMatch(q, q.path[4], w))
            [] score(q.path) \/ read(q.path) ->
                 OnMethod("api", q, "GET", ReadMatch(q.path[4], w))
            [] OTHER                 -> Page("api", 404)
    BY Zenon DEF ApiDispatch
  <2>. HIDE DEF leaderboard, create, write, score, read
  <2>. QED BY <1>2, <1>3, <1>4, <1>5, <2>1
<1>. QED BY <1>5, <1>6, Zenon DEF WithApi

LEMMA PlayTwins ==
  ASSUME NEW r, NEW s, NEW w, Twins(r, s)
  PROVE  WithPlay(r, w) = WithPlay(s, w)
<1>1. ~Session(r) /\ ~Session(s) /\ Human(r) = Human(s) BY DEF Twins, Human
<1>2. CreateInBrowser(r) = CreateInBrowser(s) BY <1>1, Zenon DEF CreateInBrowser
<1>3. \A id : ViewMatch(r, id, w) = ViewMatch(s, id, w) BY <1>1, Zenon DEF ViewMatch
<1>4. \A id : SubmitTurn(r, id, w) = SubmitTurn(s, id, w) BY <1>1, Zenon DEF SubmitTurn
<1>5. \A by, method, answer : OnMethod(by, r, method, answer) = OnMethod(by, s, method, answer)
  BY DEF Twins, OnMethod
<1>6. r.path = s.path BY DEF Twins
<1>7. PlayDispatch(r, w) = PlayDispatch(s, w)
  BY <1>1, <1>2, <1>3, <1>4, <1>5, <1>6 DEF PlayDispatch
<1>. QED BY <1>6, <1>7, ApiTwins, Zenon DEF WithPlay

LEMMA SiteTwins ==
  ASSUME NEW r, NEW s, NEW w, Twins(r, s), w.secret \/ (r.cookie = "none" /\ s.cookie = "none")
  PROVE  SiteApp(r, w) = SiteApp(s, w)
<1>1. ~Session(r) /\ ~Session(s) /\ Human(r) = Human(s) BY DEF Twins, Human
<1>2. MintToken(r) = MintToken(s) BY <1>1, Zenon DEF MintToken
<1>3. \A by, method, answer : OnMethod(by, r, method, answer) = OnMethod(by, s, method, answer)
  BY DEF Twins, OnMethod
<1>4. r.path = s.path /\ r.method = s.method BY DEF Twins
<1>5. AuthRoute(r, w) = AuthRoute(s, w)
  BY <1>2, <1>3, <1>4, PlayTwins DEF AuthRoute
<1>6. WithAuth(r, w) = WithAuth(s, w) BY <1>5, Zenon DEF WithAuth
<1>7. \A answer : Shelled(r, answer) = Shelled(s, answer) BY <1>1, <1>4, Zenon DEF Shelled
<1>8. WithShell(r, w) = WithShell(s, w) BY <1>4, <1>6, <1>7, Zenon DEF WithShell
<1>9. ProfileApp(r) = ProfileApp(s) BY <1>3, <1>4 DEF ProfileApp
<1>10. WithProfiles(r, w) = WithProfiles(s, w) BY <1>4, <1>8, <1>9, Zenon DEF WithProfiles
<1>11. ViewerApp(r, w) = ViewerApp(s, w) BY <1>3, <1>4 DEF ViewerApp
<1>12. WithViewer(r, w) = WithViewer(s, w) BY <1>4, <1>10, <1>11, Zenon DEF WithViewer
<1>. QED BY <1>12, Zenon DEF SiteApp

\* An answer that a surface gives, and to whom it may.
Proper(r, answer) == answer.by # "lambda" /\ (answer.as = "human" => Session(r))

LEMMA ProperPages ==
  ASSUME NEW r, NEW by, by # "lambda"
  PROVE  /\ \A status : Proper(r, Page(by, status))
         /\ \A status : Proper(r, Answer(by, status, Human(r)))
         /\ \A status : Proper(r, Answer(by, status, Identity(r)))
         /\ \A status : Session(r) => Proper(r, Answer(by, status, "human"))
         /\ \A method, answer : Proper(r, answer) => Proper(r, OnMethod(by, r, method, answer))
<1>1. \A status : Proper(r, Page(by, status)) BY DEF Proper, Page, Answer
<1>2. \A status, as : (as = "human" => Session(r)) => Proper(r, Answer(by, status, as))
  BY DEF Proper, Answer
<1>3. (Human(r) = "human" => Session(r)) /\ (Identity(r) = "human" => Session(r))
  BY DEF Human, Identity
<1>. QED BY <1>1, <1>2, <1>3 DEF OnMethod

LEMMA ApiIsProper ==
  ASSUME NEW r, NEW w
  PROVE  Proper(r, WithApi(r, w))
<1>1. /\ \A status : Proper(r, Page("api", status)) /\ Proper(r, Page("docs", status))
      /\ \A status : Proper(r, Answer("api", status, Identity(r)))
      /\ \A method, answer : Proper(r, answer) => Proper(r, OnMethod("api", r, method, answer))
  <2>1. "api" # "lambda" /\ "docs" # "lambda" OBVIOUS
  <2>. QED BY <2>1, ProperPages, Zenon
<1>2. \A path : Proper(r, HttpApp(path))
  <2>1. \A path : \E status : Agentfront(path) = Page("docs", status) BY Zenon DEF Agentfront
  <2>2. \A path : Proper(r, Agentfront(path)) BY <1>1, <2>1, Zenon
  <2>3. \A path : \E other : WithRootLanding(path) = Agentfront(other) BY Zenon DEF WithRootLanding
  <2>4. \A path : \E other : HttpApp(path) = WithRootLanding(other) BY Zenon DEF HttpApp
  <2>. QED BY <2>2, <2>3, <2>4, Zenon
<1>3. \A id : Proper(r, ReadMatch(id, w)) /\ Proper(r, WriteMatch(r, id, w))
  <2>1. \A id : \E status : ReadMatch(id, w) = Page("api", status) BY Zenon DEF ReadMatch
  <2>2. \A id : \E status : WriteMatch(r, id, w) \in {Page("api", status), Answer("api", status, Identity(r))}
    BY Zenon DEF WriteMatch
  <2>. QED BY <1>1, <2>1, <2>2, Zenon
<1>4. Proper(r, CreateMatch(r))
  <2>1. \E status : CreateMatch(r) = Answer("api", status, Identity(r)) BY Zenon DEF CreateMatch
  <2>. QED BY <1>1, <2>1, Zenon
<1>5. \/ ApiDispatch(r, w) = OnMethod("api", r, "GET", Page("api", 200))
      \/ ApiDispatch(r, w) = OnMethod("api", r, "POST", CreateMatch(r))
      \/ ApiDispatch(r, w) = OnMethod("api", r, "POST", WriteMatch(r, r.path[4], w))
      \/ ApiDispatch(r, w) = OnMethod("api", r, "GET", ReadMatch(r.path[4], w))
      \/ ApiDispatch(r, w) = Page("api", 404)
  <2>. DEFINE leaderboard == r.path = Api \o <<"leaderboard">>
              create == r.path \in {ApiMatches, ApiMatches \o <<"">>}
              write  == \E act \in {"turns", "pause", "resume"} : Names(r.path, ApiMatches, <<act>>)
              score  == Names(r.path, ApiMatches, <<"score">>)
              read   == Names(r.path, ApiMatches, << >>)
  <2>1. ApiDispatch(r, w) =
          CASE leaderboard    -> OnMethod("api", r, "GET", Page("api", 200))
            [] create         -> OnMethod("api", r, "POST", CreateMatch(r))
            [] write          -> OnMethod("api", r, "POST", WriteMatch(r, r.path[4], w))
            [] score \/ read  -> OnMethod("api", r, "GET", ReadMatch(r.path[4], w))
            [] OTHER          -> Page("api", 404)
    BY Zenon DEF ApiDispatch
  <2>. HIDE DEF leaderboard, create, write, score, read
  <2>. QED BY <2>1
<1>6. Proper(r, ApiDispatch(r, w)) BY <1>1, <1>3, <1>4, <1>5, Zenon
<1>. QED BY <1>2, <1>6, Zenon DEF WithApi

LEMMA PlayIsProper ==
  ASSUME NEW r, NEW w
  PROVE  Proper(r, WithPlay(r, w))
<1>1. /\ \A status : Proper(r, Page("play", status))
      /\ \A status : Proper(r, Answer("play", status, Human(r)))
      /\ \A status : Session(r) => Proper(r, Answer("play", status, "human"))
      /\ \A method, answer : Proper(r, answer) => Proper(r, OnMethod("play", r, method, answer))
  <2>1. "play" # "lambda" OBVIOUS
  <2>. QED BY <2>1, ProperPages, Zenon
<1>2. \A id : Proper(r, ViewMatch(r, id, w))
  <2>1. \A id : \E status : ViewMatch(r, id, w) \in {Page("play", status), Answer("play", status, Human(r))}
    BY Zenon DEF ViewMatch
  <2>. QED BY <1>1, <2>1, Zenon
<1>3. \A id : Proper(r, SubmitTurn(r, id, w))
  <2>1. \A id : \E status : \/ SubmitTurn(r, id, w) = Page("play", status)
                            \/ Session(r) /\ SubmitTurn(r, id, w) = Answer("play", status, "human")
    <3>. TAKE id
    <3>1. id \notin w.stored => SubmitTurn(r, id, w) = Page("play", 404)
      BY Zenon DEF SubmitTurn
    <3>2. id \in w.stored /\ ~Session(r) => SubmitTurn(r, id, w) = Page("play", 401)
      BY Zenon DEF SubmitTurn
    <3>3. id \in w.stored /\ Session(r)
          => \E status : SubmitTurn(r, id, w) = Answer("play", status, "human")
      BY Zenon DEF SubmitTurn
    <3>. QED BY <3>1, <3>2, <3>3, Zenon
  <2>. QED BY <1>1, <2>1, Zenon
<1>4. \E status : CreateInBrowser(r) = Answer("play", status, Human(r)) BY Zenon DEF CreateInBrowser
<1>5. \/ PlayDispatch(r, w) = OnMethod("play", r, "GET", Answer("play", 200, Human(r)))
      \/ PlayDispatch(r, w) = OnMethod("play", r, "POST", CreateInBrowser(r))
      \/ PlayDispatch(r, w) = OnMethod("play", r, "POST", SubmitTurn(r, r.path[3], w))
      \/ PlayDispatch(r, w) = OnMethod("play", r, "GET", ViewMatch(r, r.path[3], w))
      \/ PlayDispatch(r, w) = Page("play", 404)
  BY DEF PlayDispatch
<1>6. Proper(r, PlayDispatch(r, w)) BY <1>1, <1>2, <1>3, <1>4, <1>5, Zenon
<1>. QED BY <1>6, ApiIsProper, Zenon DEF WithPlay

\* Only a step of signing in takes the secret.
Failing(r, w) == ~w.secret /\ \E step \in {"login", "callback"} : Under(r.path, <<"auth", step>>)

LEMMA AuthIsProper ==
  ASSUME NEW r, NEW w, w.secret \/ r.cookie = "none"
  PROVE  Proper(r, WithAuth(r, w)) \/ (WithAuth(r, w) = Crash /\ Failing(r, w))
<1>1. /\ \A status : Proper(r, Page("auth", status))
      /\ \A status : Proper(r, Answer("auth", status, Human(r)))
      /\ \A method, answer : Proper(r, answer) => Proper(r, OnMethod("auth", r, method, answer))
  <2>1. "auth" # "lambda" OBVIOUS
  <2>. QED BY <2>1, ProperPages, Zenon
<1>2. \A provider : \/ \E status : AuthLogin(provider, w) = Page("auth", status)
                    \/ ~w.secret /\ AuthLogin(provider, w) = Crash
  BY Zenon DEF AuthLogin
<1>3. \/ \E status : AuthCallback(w) = Page("auth", status)
      \/ ~w.secret /\ AuthCallback(w) = Crash
  BY Zenon DEF AuthCallback
<1>4. \E status : MintToken(r) = Answer("auth", status, Human(r)) BY Zenon DEF MintToken
<1>5. \/ AuthRoute(r, w) = Page("auth", 404) \/ AuthRoute(r, w) = Page("auth", 302)
      \/ Under(r.path, <<"auth", "login">>) /\ AuthRoute(r, w) = AuthLogin(r.path[3], w)
      \/ Under(r.path, <<"auth", "callback">>) /\ AuthRoute(r, w) = AuthCallback(w)
      \/ AuthRoute(r, w) = OnMethod("auth", r, "POST", MintToken(r))
      \/ AuthRoute(r, w) = WithPlay(r, w)
  <2>. DEFINE login    == Under(r.path, <<"auth", "login">>)
              callback == Under(r.path, <<"auth", "callback">>)
              logout   == r.path = <<"auth", "logout">>
              agents   == r.path = <<"auth", "agents">>
  <2>1. AuthRoute(r, w) =
          CASE login                    -> ForProvider(r.path, AuthLogin(r.path[3], w))
            [] callback                 -> ForProvider(r.path, AuthCallback(w))
            [] logout                   -> Page("auth", 302)
            [] agents                   -> OnMethod("auth", r, "POST", MintToken(r))
            [] OTHER                    -> WithPlay(r, w)
    BY Zenon DEF AuthRoute
  <2>2. \A answer : ForProvider(r.path, answer) \in {answer, Page("auth", 404)}
    BY Zenon DEF ForProvider
  <2>. HIDE DEF login, callback, logout, agents
  <2>3. \/ AuthRoute(r, w) = Page("auth", 302)
        \/ login /\ AuthRoute(r, w) = ForProvider(r.path, AuthLogin(r.path[3], w))
        \/ callback /\ AuthRoute(r, w) = ForProvider(r.path, AuthCallback(w))
        \/ AuthRoute(r, w) = OnMethod("auth", r, "POST", MintToken(r))
        \/ AuthRoute(r, w) = WithPlay(r, w)
    BY <2>1
  <2>. QED BY <2>2, <2>3, Zenon DEF login, callback
<1>6. /\ Under(r.path, <<"auth", "login">>) /\ ~w.secret => Failing(r, w)
      /\ Under(r.path, <<"auth", "callback">>) /\ ~w.secret => Failing(r, w)
  BY DEF Failing
<1>7. Proper(r, AuthRoute(r, w)) \/ (AuthRoute(r, w) = Crash /\ Failing(r, w))
  <2>. DEFINE route == AuthRoute(r, w)
  <2>1. ASSUME NEW provider, Under(r.path, <<"auth", "login">>), route = AuthLogin(provider, w)
        PROVE  Proper(r, route) \/ (route = Crash /\ Failing(r, w))
    BY <1>1, <1>2, <1>6, <2>1
  <2>2. ASSUME Under(r.path, <<"auth", "callback">>), route = AuthCallback(w)
        PROVE  Proper(r, route) \/ (route = Crash /\ Failing(r, w))
    BY <1>1, <1>3, <1>6, <2>2
  <2>3. Proper(r, OnMethod("auth", r, "POST", MintToken(r))) BY <1>1, <1>4
  <2>. HIDE DEF route
  <2>. QED BY <1>1, <1>5, <2>1, <2>2, <2>3, PlayIsProper DEF route
<1>. QED BY <1>7, Zenon DEF WithAuth

LEMMA SiteIsProper ==
  ASSUME NEW r, NEW w, w.secret \/ r.cookie = "none"
  PROVE  Proper(r, SiteApp(r, w)) \/ (SiteApp(r, w) = Crash /\ Failing(r, w))
<1>1. \A by \in {"static", "profiles", "viewer"} :
        /\ \A status : Proper(r, Page(by, status))
        /\ \A method, answer : Proper(r, answer) => Proper(r, OnMethod(by, r, method, answer))
  <2>1. \A by \in {"static", "profiles", "viewer"} : by # "lambda" OBVIOUS
  <2>. QED BY <2>1, ProperPages, Zenon
<1>2. \A answer : Proper(r, answer) => Proper(r, Shelled(r, answer))
  <2>1. ASSUME NEW answer, Proper(r, answer)
        PROVE  Proper(r, [answer EXCEPT !.shelled = TRUE, !.as = Human(r)])
    <3>1. Human(r) = "human" => Session(r) BY DEF Human
    <3>. QED BY <2>1, <3>1 DEF Proper
  <2>. QED BY <2>1, Zenon DEF Shelled
<1>3. Shelled(r, Crash) = Crash
  <2>1. Crash.by # "docs" BY DEF Crash, Page, Answer
  <2>. QED BY <2>1, Zenon DEF Shelled
<1>4. Proper(r, WithShell(r, w)) \/ (WithShell(r, w) = Crash /\ Failing(r, w))
  <2>1. WithShell(r, w) \in {Page("static", 200), Shelled(r, WithAuth(r, w))}
    BY Zenon DEF WithShell
  <2>2. Proper(r, Page("static", 200)) BY <1>1
  <2>. QED BY <1>2, <1>3, <2>1, <2>2, AuthIsProper, Zenon
<1>5. Proper(r, ProfileApp(r))
  <2>1. \E status : ProfileApp(r) = OnMethod("profiles", r, "GET", Page("profiles", status))
    BY Zenon DEF ProfileApp
  <2>. QED BY <1>1, <2>1
<1>6. Proper(r, ViewerApp(r, w))
  <2>1. \E status : ViewerApp(r, w) = OnMethod("viewer", r, "GET", Page("viewer", status))
    BY Zenon DEF ViewerApp
  <2>. QED BY <1>1, <2>1
<1>. QED BY <1>4, <1>5, <1>6, Zenon DEF SiteApp, WithViewer, WithProfiles

\* What the surfaces get of a request.
Received(req, w) ==
  LET r == [req EXCEPT !.path = AppPath(StagePath(req))]
  IN  IF w.secret THEN r ELSE WithoutSessionCookies(r)

LEMMA ReceivedRight ==
  ASSUME NEW paths, NEW req \in Requests(paths), NEW w
  PROVE  /\ Handler(req, w) = SiteApp(Received(req, w), w)
         /\ Received(req, w).method = req.method
         /\ Received(req, w).token = req.token
         /\ Received(req, w).path = AppPath(StagePath(req))
         /\ Received(req, w).cookie = IF w.secret THEN req.cookie ELSE "none"
<1>. DEFINE r == [req EXCEPT !.path = AppPath(StagePath(req))]
<1>1. /\ r.method = req.method /\ r.token = req.token /\ r.cookie = req.cookie
      /\ r.path = AppPath(StagePath(req)) /\ DOMAIN r = DOMAIN req
      /\ DOMAIN req = {"method", "stage", "path", "cookie", "token"}
  BY DEF Requests
<1>2. Handler(req, w) = SiteApp(Received(req, w), w)
  BY Zenon DEF Handler, BuildSiteApp, Received
<1>3. Received(req, w) = IF w.secret THEN r ELSE WithoutSessionCookies(r)
  BY Zenon DEF Received
<1>. HIDE DEF r
<1>4. /\ WithoutSessionCookies(r).method = r.method
      /\ WithoutSessionCookies(r).token = r.token
      /\ WithoutSessionCookies(r).path = r.path
      /\ WithoutSessionCookies(r).cookie = "none"
  BY <1>1 DEF WithoutSessionCookies
<1>. QED BY <1>1, <1>2, <1>3, <1>4

\* The last request was made with the cookie at hand.
AskedNow == asked # NoRequest => asked \in Requests(Paths) /\ asked.cookie = cookie

LEMMA AskedInit == Init => AskedNow
BY DEF Init, AskedNow

LEMMA AskedNext == AskedNow /\ [Next]_vars => AskedNow'
<1> SUFFICES ASSUME AskedNow, [Next]_vars PROVE AskedNow'
  OBVIOUS
<1>1. ASSUME NEW req \in Requests(Paths), Browse(req) PROVE AskedNow'
  BY <1>1 DEF Browse, AskedNow
<1>2. CASE asked' = NoRequest BY <1>2 DEF AskedNow, NoRequest
<1>3. CASE UNCHANGED vars BY <1>3 DEF AskedNow, vars
<1>4. ASSUME NEW side, ApiTurn(side) PROVE asked' = NoRequest
  BY <1>4, Zenon DEF ApiTurn, Elsewhere
<1>5. ASSUME NEW urls, ShowPlan(urls) PROVE asked' = NoRequest
  BY <1>5, Zenon DEF ShowPlan, Elsewhere
<1>6. ASSUME PauseOrResume \/ CookieChanges \/ PostForm PROVE asked' = NoRequest
  BY <1>6, Zenon DEF PauseOrResume, CookieChanges, PostForm, Elsewhere
<1>. QED BY <1>1, <1>2, <1>3, <1>4, <1>5, <1>6, Zenon DEF Next

\* wiring.py, _without_session_cookies: a cookie that does not verify is as good as
\* none on every path of the site, whatever is stored, and fails no page.
THEOREM CookiesAreVerified == Spec => []StaleCookieIsNoCookie
<1>1. AskedNow => StaleCookieIsNoCookie
  <2> SUFFICES ASSUME AskedNow, asked # NoRequest
               PROVE  LET answer == Serve(asked) IN
                      /\ ~secret \/ cookie # "live" => answer = Serve([asked EXCEPT !.cookie = "none"])
                      /\ answer.as = "human" => secret /\ cookie = "live"
                      /\ answer = Crash => ~secret /\ \E step \in {"login", "callback"} :
                            Under(AppPath(StagePath(asked)), <<"auth", step>>)
    BY Zenon DEF StaleCookieIsNoCookie
  <2>. DEFINE w     == World
              other == [asked EXCEPT !.cookie = "none"]
  <2>1. asked \in Requests(Paths) /\ asked.cookie = cookie BY DEF AskedNow
  <2>2. w.secret = secret BY DEF World
  <2>3. /\ other \in Requests(Paths)
        /\ other.method = asked.method /\ other.stage = asked.stage /\ other.path = asked.path
        /\ other.token = asked.token /\ other.cookie = "none"
    BY <2>1 DEF Requests
  <2>4. Serve(asked) = Handler(asked, w) /\ Serve(other) = Handler(other, w) BY Zenon DEF Serve
  <2>. HIDE DEF w, other
  <2>5. AppPath(StagePath(other)) = AppPath(StagePath(asked)) BY <2>3 DEF StagePath
  <2>. DEFINE r == Received(asked, w)
              q == Received(other, w)
  <2>6. /\ Handler(asked, w) = SiteApp(r, w)
        /\ r.method = asked.method /\ r.token = asked.token
        /\ r.path = AppPath(StagePath(asked))
        /\ r.cookie = IF w.secret THEN asked.cookie ELSE "none"
    BY <2>1, ReceivedRight
  <2>7. /\ Handler(other, w) = SiteApp(q, w)
        /\ q.method = other.method /\ q.token = other.token
        /\ q.path = AppPath(StagePath(other))
        /\ q.cookie = IF w.secret THEN other.cookie ELSE "none"
    BY <2>3, ReceivedRight
  <2>. HIDE DEF r, q
  <2>8. w.secret \/ (r.cookie = "none" /\ q.cookie = "none") BY <2>6, <2>7
  <2>9. ASSUME ~secret \/ cookie # "live" PROVE SiteApp(r, w) = SiteApp(q, w)
    <3>1. ~Session(r) BY <2>1, <2>2, <2>6, <2>9 DEF Session
    <3>2. ~Session(q) BY <2>3, <2>7 DEF Session
    <3>3. Twins(r, q) BY <2>3, <2>5, <2>6, <2>7, <3>1, <3>2 DEF Twins
    <3>. QED BY <2>8, <3>3, SiteTwins
  <2>10. Proper(r, SiteApp(r, w)) \/ (SiteApp(r, w) = Crash /\ Failing(r, w))
    BY <2>8, SiteIsProper
  <2>11. Session(r) => secret /\ cookie = "live" BY <2>1, <2>2, <2>6 DEF Session
  <2>12. Crash.by = "lambda" /\ Crash.as = "anyone" BY DEF Crash, Page, Answer
  <2>13. SiteApp(r, w).as = "human" => secret /\ cookie = "live"
    BY <2>10, <2>11, <2>12 DEF Proper
  <2>14. SiteApp(r, w) = Crash => Failing(r, w) BY <2>10, <2>12 DEF Proper
  <2>15. Failing(r, w) => ~secret /\ \E step \in {"login", "callback"} :
                            Under(AppPath(StagePath(asked)), <<"auth", step>>)
    BY <2>2, <2>6, Zenon DEF Failing
  <2>16. Serve(asked) = SiteApp(r, w) /\ Serve([asked EXCEPT !.cookie = "none"]) = SiteApp(q, w)
    BY <2>4, <2>6, <2>7, Zenon DEF other
  <2>. QED BY <2>9, <2>13, <2>14, <2>15, <2>16, Zenon
<1> QED
  BY <1>1, AskedInit, AskedNext, PTL DEF Spec

-----------------------------------------------------------------------------
(* Plans *)

LEMMA LeastElement ==
  ASSUME NEW S \in SUBSET Nat, S # {}
  PROVE  \E k \in S : \A j \in S : k <= j
<1>1. PICK k \in S : \A j \in S : ~(<<j, k>> \in OpToRel(<, Nat))
  BY NatLessThanWellFounded, WFMin
<1>2. ASSUME NEW j \in S, j < k PROVE FALSE
  <2>1. <<j, k>> \in Nat \X Nat /\ <<j, k>>[1] < <<j, k>>[2] BY <1>2
  <2>2. <<j, k>> \in {p \in Nat \X Nat : p[1] < p[2]} BY <2>1, Zenon
  <2>. QED BY <1>1, <2>2, Zenon DEF OpToRel
<1>. QED BY <1>2

\* Every order of the plan is legal, and no two are of one unit.
PlanFits(plan, legal) ==
  /\ plan \in Seq(Order)
  /\ \A k \in 1..Len(plan) : plan[k] \in UnitOrders(legal)
  /\ \A j, k \in 1..Len(plan) : plan[j].unit = plan[k].unit => j = k

LEMMA AddToPlan ==
  ASSUME NEW legal, NEW plan, PlanFits(plan, legal), NEW order \in UnitOrders(legal),
         order.unit \notin Planned(plan)
  PROVE  /\ PlanFits(Append(plan, order), legal)
         /\ Planned(Append(plan, order)) = Planned(plan) \cup {order.unit}
         /\ ToSet(Append(plan, order)) = ToSet(plan) \cup {order}
<1>. DEFINE longer == Append(plan, order)
            N == Len(plan)
<1>1. plan \in Seq(Order) /\ order \in Order BY DEF PlanFits, UnitOrders
<1>2. N \in Nat /\ DOMAIN plan = 1..N BY <1>1
<1>3. /\ longer \in Seq(Order) /\ Len(longer) = N + 1 /\ DOMAIN longer = 1..(N + 1)
      /\ longer[N + 1] = order /\ \A k \in 1..N : longer[k] = plan[k]
  BY <1>1
<1>. HIDE DEF longer, N
<1>4. \A k \in 1..(N + 1) : k = N + 1 \/ k \in 1..N BY <1>2
<1>5. \A k \in 1..N : k \in 1..(N + 1) /\ k # N + 1 BY <1>2
<1>6. N + 1 \in 1..(N + 1) BY <1>2
<1>7. \A k \in 1..N : plan[k].unit # order.unit BY <1>2 DEF Planned
<1>8. Planned(longer) = Planned(plan) \cup {order.unit}
  BY <1>2, <1>3, <1>4, <1>5, <1>6 DEF Planned
<1>9. ToSet(longer) = ToSet(plan) \cup {order}
  BY <1>2, <1>3, <1>4, <1>5, <1>6 DEF ToSet
<1>10. /\ \A k \in 1..N : plan[k] \in UnitOrders(legal)
       /\ \A j, k \in 1..N : plan[j].unit = plan[k].unit => j = k
  BY DEF PlanFits, N
<1>11. \A k \in 1..(N + 1) : longer[k] \in UnitOrders(legal)
  BY <1>3, <1>4, <1>10
<1>12. \A j, k \in 1..(N + 1) : longer[j].unit = longer[k].unit => j = k
  BY <1>3, <1>4, <1>7, <1>10
<1>13. PlanFits(longer, legal) BY <1>3, <1>11, <1>12 DEF PlanFits
<1>. QED BY <1>8, <1>9, <1>13 DEF longer

LEMMA EmptyPlanFits == ASSUME NEW legal PROVE PlanFits(<< >>, legal)
<1>1. << >> \in Seq(Order) /\ Len(<< >>) = 0 /\ \A k : k \notin 1..0 OBVIOUS
<1>. QED BY <1>1 DEF PlanFits

LEMMA StagedFits ==
  ASSUME NEW legal, NEW plan, PlanFits(plan, legal), NEW order
  PROVE  PlanFits(Staged(plan, order, legal), legal)
<1>1. CASE MatchOrder(legal, order) /\ order.unit \notin Planned(plan)
  <2>1. order \in UnitOrders(legal) BY <1>1 DEF MatchOrder
  <2>. QED BY <1>1, <2>1, AddToPlan DEF Staged
<1>2. CASE ~(MatchOrder(legal, order) /\ order.unit \notin Planned(plan))
  BY <1>2 DEF Staged
<1>. QED BY <1>1, <1>2

\* The passes of the loop of _staged_orders, up to the N-th.
Passes(staged, legal, N, s) ==
  s = [n \in 0..N |-> IF n = 0 THEN << >> ELSE Staged(s[n - 1], staged[n], legal)]

LEMMA PassesExtend ==
  ASSUME NEW staged, NEW legal, NEW N \in Nat, NEW s, Passes(staged, legal, N, s)
  PROVE  \E t : Passes(staged, legal, N + 1, t)
<1>. DEFINE next == Staged(s[N], staged[N + 1], legal)
            t == [n \in 0..(N + 1) |-> IF n = N + 1 THEN next ELSE s[n]]
<1>1. \A n \in 0..N : t[n] = s[n] OBVIOUS
<1>2. t[N + 1] = next OBVIOUS
<1>3. ASSUME NEW n \in 0..(N + 1)
      PROVE  t[n] = IF n = 0 THEN << >> ELSE Staged(t[n - 1], staged[n], legal)
  <2>1. CASE n = N + 1
    <3>1. t[n - 1] = s[N] /\ n # 0 BY <1>1, <2>1
    <3>. QED BY <1>2, <2>1, <3>1
  <2>2. CASE n \in 1..N
    <3>1. t[n - 1] = s[n - 1] /\ t[n] = s[n] BY <1>1, <2>2
    <3>2. s[n] = Staged(s[n - 1], staged[n], legal) BY <2>2 DEF Passes
    <3>. QED BY <2>2, <3>1, <3>2
  <2>3. CASE n = 0 BY <1>1, <2>3 DEF Passes
  <2>. QED BY <2>1, <2>2, <2>3
<1>4. t = [n \in 0..(N + 1) |-> t[n]] OBVIOUS
<1>. HIDE DEF t, next
<1>5. Passes(staged, legal, N + 1, t) BY <1>3, <1>4 DEF Passes
<1>. QED BY <1>5

LEMMA PassesExist ==
  ASSUME NEW staged, NEW legal, NEW N \in Nat
  PROVE  \E s : Passes(staged, legal, N, s)
<1>. DEFINE Lacking == {n \in Nat : ~ \E s : Passes(staged, legal, n, s)}
<1>1. Lacking \in SUBSET Nat OBVIOUS
<1>2. ASSUME Lacking # {} PROVE FALSE
  <2>. HIDE DEF Lacking
  <2>1. PICK n \in Lacking : \A m \in Lacking : n <= m BY <1>1, <1>2, LeastElement
  <2>. USE DEF Lacking
  <2>2. n # 0
    <3>1. Passes(staged, legal, 0, [k \in 0..0 |-> << >>]) BY DEF Passes
    <3>. QED BY <2>1, <3>1
  <2>3. n - 1 \in Nat /\ n - 1 \notin Lacking BY <2>1, <2>2
  <2>4. PICK s : Passes(staged, legal, n - 1, s) BY <2>3
  <2>5. \E t : Passes(staged, legal, (n - 1) + 1, t) BY <2>3, <2>4, PassesExtend
  <2>6. (n - 1) + 1 = n BY <2>3
  <2>. QED BY <2>1, <2>5, <2>6
<1>. QED BY <1>2

\* The loop ends with its last pass.
LEMMA LoopOfStaged ==
  ASSUME NEW staged, NEW legal, Len(staged) \in Nat
  PROVE  \E s : /\ StagedOrders(staged, legal) = s[Len(staged)]
                /\ s[0] = << >>
                /\ \A n \in 1..Len(staged) : s[n] = Staged(s[n - 1], staged[n], legal)
<1>. DEFINE N == Len(staged)
            s == CHOOSE f : Passes(staged, legal, N, f)
<1>1. Passes(staged, legal, N, s) BY PassesExist
<1>2. StagedOrders(staged, legal) = s[N] BY Zenon DEF StagedOrders, Passes
<1>. HIDE DEF s
<1>3. s[0] = << >> /\ \A n \in 1..N : s[n] = Staged(s[n - 1], staged[n], legal)
  BY <1>1 DEF Passes
<1>. QED BY <1>2, <1>3

\* Whatever is in a URL, what the page makes of it is a plan.
LEMMA StagedIsPlan ==
  ASSUME NEW staged, NEW legal, Len(staged) \in Nat
  PROVE  PlanFits(StagedOrders(staged, legal), legal)
<1>. DEFINE N == Len(staged)
<1>1. PICK s : /\ StagedOrders(staged, legal) = s[N]
               /\ s[0] = << >>
               /\ \A n \in 1..N : s[n] = Staged(s[n - 1], staged[n], legal)
  BY LoopOfStaged
<1>. DEFINE Astray == {n \in 0..N : ~PlanFits(s[n], legal)}
<1>. HIDE DEF N
<1>2. N \in Nat /\ Astray \in SUBSET Nat BY DEF N
<1>3. ASSUME Astray # {} PROVE FALSE
  <2>. HIDE DEF Astray
  <2>1. PICK n \in Astray : \A m \in Astray : n <= m BY <1>2, <1>3, LeastElement
  <2>. USE DEF Astray
  <2>2. n # 0 BY <1>1, <2>1, EmptyPlanFits
  <2>3. n - 1 \in 0..N /\ PlanFits(s[n - 1], legal) BY <1>2, <2>1, <2>2
  <2>4. s[n] = Staged(s[n - 1], staged[n], legal) BY <1>1, <1>2, <2>1, <2>2
  <2>. QED BY <2>1, <2>3, <2>4, StagedFits
<1>4. N \in 0..N BY <1>2
<1>. QED BY <1>1, <1>3, <1>4

\* A plan that fits is played as it is.
LEMMA PlanStays ==
  ASSUME NEW plan, NEW legal, PlanFits(plan, legal)
  PROVE  StagedOrders(plan, legal) = plan
<1>. DEFINE N == Len(plan)
<1>1. plan \in Seq(Order) /\ N \in Nat BY DEF PlanFits
<1>2. PICK s : /\ StagedOrders(plan, legal) = s[N]
               /\ s[0] = << >>
               /\ \A n \in 1..N : s[n] = Staged(s[n - 1], plan[n], legal)
  BY <1>1, LoopOfStaged
<1>. DEFINE Copies(n) == /\ s[n] \in Seq(Order) /\ Len(s[n]) = n
                         /\ \A k \in 1..n : s[n][k] = plan[k]
            Astray == {n \in 0..N : ~Copies(n)}
<1>3. Astray \in SUBSET Nat BY <1>1
<1>4. Copies(0) BY <1>2
<1>5. ASSUME NEW n \in 1..N, Copies(n - 1) PROVE Copies(n)
  <2>1. n \in Nat /\ n - 1 \in Nat /\ (n - 1) + 1 = n BY <1>1
  <2>2. plan[n] \in UnitOrders(legal) /\ plan[n] \in Order BY <1>1 DEF PlanFits, UnitOrders
  <2>3. DOMAIN s[n - 1] = 1..(n - 1) BY <1>5
  <2>4. \A k \in 1..(n - 1) : k \in 1..N /\ k # n BY <1>1
  <2>5. plan[n].unit \notin Planned(s[n - 1])
    <3>1. ASSUME NEW k \in 1..(n - 1), s[n - 1][k].unit = plan[n].unit PROVE FALSE
      BY <1>5, <2>4, <3>1 DEF PlanFits
    <3>. QED BY <2>3, <3>1 DEF Planned
  <2>6. s[n] = Append(s[n - 1], plan[n]) BY <1>2, <2>2, <2>5 DEF Staged, MatchOrder
  <2>7. /\ s[n] \in Seq(Order) /\ Len(s[n]) = (n - 1) + 1
        /\ s[n][(n - 1) + 1] = plan[n] /\ \A k \in 1..(n - 1) : s[n][k] = s[n - 1][k]
    BY <1>5, <2>2, <2>6
  <2>8. \A k \in 1..n : k = n \/ k \in 1..(n - 1) BY <2>1
  <2>. QED BY <1>5, <2>1, <2>7, <2>8
<1>. HIDE DEF Copies
<1>6. ASSUME Astray # {} PROVE FALSE
  <2>. HIDE DEF Astray
  <2>1. PICK n \in Astray : \A m \in Astray : n <= m BY <1>3, <1>6, LeastElement
  <2>. USE DEF Astray
  <2>2. n \in 1..N /\ n - 1 \in 0..N BY <1>1, <1>4, <2>1
  <2>3. Copies(n - 1) BY <1>1, <2>1, <2>2
  <2>. QED BY <1>5, <2>1, <2>2, <2>3
<1>7. Copies(N) BY <1>1, <1>6
<1>8. s[N] = plan BY <1>1, <1>7 DEF Copies
<1>. QED BY <1>2, <1>8

\* The URLs that come to the match page carry sequences.
LEMMA WithoutIsPlan ==
  ASSUME NEW plan \in Seq(Order), NEW u \in Planned(plan)
  PROVE  Len(Without(plan, u)) \in Nat
<1>. DEFINE k == CHOOSE i \in DOMAIN plan : plan[i].unit = u
<1>1. k \in DOMAIN plan BY DEF Planned
<1>2. k \in 1..Len(plan) BY <1>1
<1>3. SubSeq(plan, 1, k - 1) \in Seq(Order) /\ SubSeq(plan, k + 1, Len(plan)) \in Seq(Order)
  <2>. HIDE DEF k
  <2>. QED BY <1>2
<1>. DEFINE rest == SubSeq(plan, 1, k - 1) \o SubSeq(plan, k + 1, Len(plan))
<1>4. Without(plan, u) = rest BY Zenon DEF Without, RemoveAt
<1>. HIDE DEF k
<1>5. Len(rest) \in Nat BY <1>3
<1>. QED BY <1>4, <1>5

LEMMA LinksCarryPlans ==
  ASSUME NEW legal, NEW page, page.plan \in Seq(Order), NEW url \in Links(page, legal)
  PROVE  Len(url.staged) \in Nat
<1>1. \A plan, unit : Url(plan, unit).staged = plan BY DEF Url
<1>2. \A plan \in Seq(Order) : \A order : Len(Append(plan, order)) \in Nat
  <2>1. ASSUME NEW plan \in Seq(Order), NEW order PROVE Len(Append(plan, order)) \in Nat
    <3>1. plan \in Seq(Order \cup {order}) OBVIOUS
    <3>. QED BY <3>1
  <2>. QED BY <2>1
<1>3. Len(page.plan) \in Nat /\ Len(<< >>) \in Nat OBVIOUS
<1>4. CASE url \in SelectLinks(page, legal) BY <1>1, <1>3, <1>4 DEF SelectLinks
<1>5. CASE url \in RestageLinks(page) BY <1>1, <1>5, WithoutIsPlan DEF RestageLinks
<1>6. CASE url \in Controls(page, legal)
  <2>1. PICK order, unit : url = Url(Append(page.plan, order), unit)
    BY <1>6, Zenon DEF Controls
  <2>. QED BY <1>1, <1>2, <2>1
<1>7. CASE url \in PanelLinks(page, legal)
  <2>1. \/ \E u \in Planned(page.plan) : url = Url(Without(page.plan, u), None)
        \/ url = Url(<< >>, None) \/ url = Url(page.plan, None)
        \/ \E order : url = Url(Append(page.plan, order), None)
    BY <1>7 DEF PanelLinks
  <2>. QED BY <1>1, <1>2, <1>3, <2>1, WithoutIsPlan
<1>. QED BY <1>4, <1>5, <1>6, <1>7 DEF Links

-----------------------------------------------------------------------------
(* Ending a turn *)

LEMMA LongerPath ==
  ASSUME NEW S, NEW s \in Seq(S), NEW x \in S
  PROVE  /\ s \o <<x>> \in Seq(S) /\ Len(s \o <<x>>) = Len(s) + 1
         /\ \A k \in 1..Len(s) : (s \o <<x>>)[k] = s[k]
         /\ (s \o <<x>>)[Len(s) + 1] = x
<1>. DEFINE t == <<x>>
<1>1. t \in Seq(S) /\ Len(t) = 1 /\ t[1] = x OBVIOUS
<1>. HIDE DEF t
<1>2. Len(s) \in Nat OBVIOUS
<1>3. /\ s \o t \in Seq(S) /\ Len(s \o t) = Len(s) + Len(t)
      /\ \A i \in 1..(Len(s) + Len(t)) : (s \o t)[i] = IF i <= Len(s) THEN s[i] ELSE t[i - Len(s)]
  BY <1>1, ConcatProperties
<1>4. (s \o t)[Len(s) + 1] = x BY <1>1, <1>2, <1>3
<1>5. \A k \in 1..Len(s) : (s \o t)[k] = s[k] BY <1>1, <1>2, <1>3
<1>6. s \o t \in Seq(S) /\ Len(s \o t) = Len(s) + 1 BY <1>1, <1>3
<1>. QED BY <1>4, <1>5, <1>6 DEF t

\* The path of the form is the form's, whoever has what in the store.
LEMMA FormIsServed ==
  ASSUME secret, cookie = "live"
  PROVE  Serve(Browser("POST", MatchPage \o <<"turns">>)).status = 303
<1>. DEFINE path == MatchPage \o <<"turns">>
            req  == Browser("POST", path)
            w    == World
            r    == [req EXCEPT !.path = AppPath(StagePath(req))]
            S    == {"play", "matches", "turns", MatchId}
<1>1. /\ path \in Seq(S) /\ Len(path) = 4
      /\ path[1] = "play" /\ path[2] = "matches" /\ path[3] = MatchId /\ path[4] = "turns"
  <2>1. /\ PlayMatches \in Seq(S) /\ Len(PlayMatches) = 2
        /\ PlayMatches[1] = "play" /\ PlayMatches[2] = "matches"
        /\ MatchId \in S /\ "turns" \in S
    BY DEF PlayMatches
  <2>. HIDE DEF S
  <2>. DEFINE page == PlayMatches \o <<MatchId>>
  <2>2. /\ page \in Seq(S) /\ Len(page) = Len(PlayMatches) + 1
        /\ \A k \in 1..Len(PlayMatches) : page[k] = PlayMatches[k]
        /\ page[Len(PlayMatches) + 1] = MatchId
    BY <2>1, LongerPath
  <2>3. page = MatchPage BY DEF MatchPage
  <2>. HIDE DEF page
  <2>4. Len(page) = 3 /\ page[1] = "play" /\ page[2] = "matches" /\ page[3] = MatchId
    BY <2>1, <2>2
  <2>5. /\ page \o <<"turns">> \in Seq(S) /\ Len(page \o <<"turns">>) = Len(page) + 1
        /\ \A k \in 1..Len(page) : (page \o <<"turns">>)[k] = page[k]
        /\ (page \o <<"turns">>)[Len(page) + 1] = "turns"
    BY <2>1, <2>2, LongerPath
  <2>6. path = page \o <<"turns">> BY <2>3
  <2>. HIDE DEF path
  <2>. QED BY <2>4, <2>5, <2>6
<1>. HIDE DEF path, S
<1>2. /\ w.secret = TRUE /\ MatchId \in w.stored /\ MatchId \in w.human
  BY DEF World
<1>3. /\ req.method = "POST" /\ req.stage = FALSE /\ req.path = path /\ req.cookie = "live"
      /\ DOMAIN req = {"method", "stage", "path", "cookie", "token"}
  BY DEF Browser
<1>. HIDE DEF w, req
<1>4. /\ path # <<Stage>> /\ path # <<"leaderboard">> /\ path # <<"play">>
      /\ path # PlayMatches
      /\ path # <<"auth", "logout">> /\ path # <<"auth", "agents">>
  <2>1. \A p : Len(p) # 4 => path # p BY <1>1
  <2>2. /\ Len(<<Stage>>) = 1 /\ Len(<<"leaderboard">>) = 1 /\ Len(<<"play">>) = 1
        /\ Len(PlayMatches) = 2
        /\ Len(<<"auth", "logout">>) = 2 /\ Len(<<"auth", "agents">>) = 2
    BY DEF PlayMatches
  <2>3. 1 # 4 /\ 2 # 4 OBVIOUS
  <2>. QED BY <2>1, <2>2, <2>3, Zenon
<1>5. AppPath(StagePath(req)) = path
  BY <1>1, <1>3, <1>4 DEF AppPath, StagePath, Stage
<1>6. r.method = "POST" /\ r.path = path /\ r.cookie = "live" BY <1>3, <1>5
<1>7. Serve(req) = SiteApp(r, w) BY <1>2, Zenon DEF Serve, Handler, BuildSiteApp, w
<1>. HIDE DEF r
<1>8. ~Names(path, <<"matches">>, <<"watch">>) /\ ~Names(path, PlayMatches, << >>)
  BY <1>1 DEF Names, PlayMatches
<1>9. ~Under(path, <<"profiles">>)
  <2>1. SubSeq(path, 1, 1)[1] = "play" BY <1>1
  <2>2. SubSeq(<<"profiles">>, 1, 1)[1] = "profiles" OBVIOUS
  <2>3. ~IsPrefix(<<"profiles">>, path) BY <2>1, <2>2 DEF IsPrefix
  <2>. QED BY <2>3, Zenon DEF Under
<1>10. Names(path, PlayMatches, <<"turns">>)
  <2>1. IsPrefix(PlayMatches, path)
    <3>1. ASSUME NEW p \in Seq(S), Len(p) >= 2, p[1] = "play", p[2] = "matches"
          PROVE  SubSeq(p, 1, 2) = PlayMatches
      <4>1. \A i \in 1..2 : p[i] \in S BY <3>1
      <4>2. /\ SubSeq(p, 1, 2) \in Seq(S)
            /\ Len(SubSeq(p, 1, 2)) = IF 1 <= 2 THEN 2 - 1 + 1 ELSE 0
            /\ \A i \in 1..(2 - 1 + 1) : SubSeq(p, 1, 2)[i] = p[1 + i - 1]
        BY <4>1, SubSeqProperties
      <4>3. /\ Len(SubSeq(p, 1, 2)) = 2
            /\ SubSeq(p, 1, 2)[1] = "play" /\ SubSeq(p, 1, 2)[2] = "matches"
        BY <3>1, <4>2
      <4>4. /\ PlayMatches \in Seq(S) /\ Len(PlayMatches) = 2
            /\ PlayMatches[1] = "play" /\ PlayMatches[2] = "matches"
        BY DEF PlayMatches, S
      <4>5. \A i \in 1..2 : i = 1 \/ i = 2 OBVIOUS
      <4>. QED BY <4>2, <4>3, <4>4, <4>5, SeqEqual
    <3>2. /\ PlayMatches \in Seq(S) /\ Len(PlayMatches) = 2
          /\ PlayMatches[1] = "play" /\ PlayMatches[2] = "matches"
      BY DEF PlayMatches, S
    <3>3. SubSeq(path, 1, 2) = PlayMatches BY <1>1, <3>1
    <3>4. SubSeq(PlayMatches, 1, 2) = PlayMatches BY <3>1, <3>2
    <3>. QED BY <1>1, <3>2, <3>3, <3>4 DEF IsPrefix
  <2>2. IsSuffix(<<"turns">>, path)
    <3>. DEFINE back == Reverse(path)
                one  == Reverse(<<"turns">>)
    <3>1. back = [i \in 1..4 |-> path[(4 - i) + 1]] BY <1>1 DEF Reverse
    <3>2. Len(back) = 4 /\ back[1] = "turns" BY <1>1, <3>1
    <3>3. one = <<"turns">> /\ Len(one) = 1 BY DEF Reverse
    <3>. HIDE DEF back, one
    <3>4. ASSUME NEW p, p[1] = "turns" PROVE SubSeq(p, 1, 1) = <<"turns">>
      <4>1. \A i \in 1..1 : p[i] \in {"turns"} BY <3>4
      <4>2. /\ SubSeq(p, 1, 1) \in Seq({"turns"})
            /\ Len(SubSeq(p, 1, 1)) = IF 1 <= 1 THEN 1 - 1 + 1 ELSE 0
        BY <4>1, SubSeqProperties
      <4>. DEFINE first == SubSeq(p, 1, 1)
                  turns == <<"turns">>
      <4>3. /\ first \in Seq({"turns"}) /\ Len(first) = 1
            /\ turns \in Seq({"turns"}) /\ Len(turns) = 1
        BY <4>2
      <4>. HIDE DEF first, turns
      <4>4. \A i \in 1..1 : first[i] = turns[i] BY <4>3, ElementOfSeq
      <4>5. first = turns BY <4>3, <4>4, SeqEqual
      <4>. QED BY <4>5 DEF first, turns
    <3>5. SubSeq(back, 1, 1) = <<"turns">> /\ SubSeq(one, 1, 1) = <<"turns">>
      BY <3>2, <3>3, <3>4
    <3>6. IsPrefix(one, back) BY <3>2, <3>3, <3>5 DEF IsPrefix
    <3>. QED BY <3>6, Zenon DEF IsSuffix, back, one
  <2>3. path[3] # "" BY <1>1, TurnAssumption, Zenon
  <2>4. Len(PlayMatches) = 2 /\ Len(<<"turns">>) = 1 /\ 2 + 1 = 3 /\ 3 + 1 = 4 BY DEF PlayMatches
  <2>. QED BY <1>1, <2>1, <2>2, <2>3, <2>4, Zenon DEF Names
<1>11. SubmitTurn(r, MatchId, w) = Answer("play", 303, "human")
  BY <1>2, <1>6 DEF SubmitTurn, Session, Plays
<1>12. WithPlay(r, w) = Answer("play", 303, "human")
  <2>1. PlayDispatch(r, w) = OnMethod("play", r, "POST", SubmitTurn(r, r.path[3], w))
    BY <1>4, <1>6, <1>8, <1>10 DEF PlayDispatch
  <2>. QED BY <1>1, <1>6, <1>11, <2>1 DEF WithPlay, OnMethod
<1>13. AuthRoute(r, w) = WithPlay(r, w)
  <2>1. ASSUME NEW step PROVE ~Under(path, <<"auth", step>>)
    <3>1. SubSeq(path, 1, 2)[1] = "play" BY <1>1
    <3>2. SubSeq(<<"auth", step>>, 1, 2)[1] = "auth" OBVIOUS
    <3>3. Len(<<"auth", step>>) = 2 OBVIOUS
    <3>4. ~IsPrefix(<<"auth", step>>, path) BY <3>1, <3>2, <3>3 DEF IsPrefix
    <3>. QED BY <3>4, Zenon DEF Under
  <2>. QED BY <1>4, <1>6, <2>1 DEF AuthRoute
<1>14. WithShell(r, w) = Answer("play", 303, "human")
  <2>1. WithAuth(r, w) = Answer("play", 303, "human")
    BY <1>2, <1>12, <1>13, Zenon DEF WithAuth
  <2>2. Answer("play", 303, "human").by # "docs" BY DEF Answer
  <2>. QED BY <1>6, <2>1, <2>2 DEF WithShell, Shelled
<1>15. SiteApp(r, w) = Answer("play", 303, "human")
  BY <1>4, <1>6, <1>8, <1>9, <1>14 DEF SiteApp, WithViewer, WithProfiles
<1>. QED BY <1>7, <1>15 DEF Answer, req, path

IsForm(f) == f = [turn |-> f.turn, plan |-> f.plan, unit |-> f.unit, fresh |-> f.fresh]

\* The page shown last, while the match has not moved on.
FormFits ==
  form # NoForm =>
    /\ IsForm(form)
    /\ form.plan \in Seq(Order)
    /\ form.fresh =>
         /\ match.status = "active" /\ form.turn = match.turn
         /\ PlanFits(form.plan, Legal)
         /\ form.unit = Selected(form.unit, form.plan, Legal)

PlanInv == FormFits /\ EndTurnPlaysPlan

LEMMA PlanInit == Init => PlanInv
<1>1. Init => form = NoForm /\ verdict = NoVerdict BY DEF Init
<1>. QED BY <1>1 DEF PlanInv, FormFits, EndTurnPlaysPlan

LEMMA FormKept == ASSUME FormFits, UNCHANGED <<form, match>> PROVE FormFits'
<1>1. Legal' = Legal BY DEF Legal
<1>. QED BY <1>1 DEF FormFits

LEMMA FormStale == ASSUME FormFits, Stale PROVE FormFits'
<1>1. CASE form = NoForm BY <1>1 DEF FormFits, Stale
<1>2. CASE form # NoForm
  <2>1. form' = [form EXCEPT !.fresh = FALSE] BY <1>2 DEF Stale
  <2>2. IsForm(form) /\ form.plan \in Seq(Order) BY <1>2 DEF FormFits
  <2>3. IsForm(form') /\ form'.plan = form.plan /\ form'.fresh = FALSE
    BY <2>1, <2>2 DEF IsForm
  <2>. QED BY <2>2, <2>3 DEF FormFits
<1>. QED BY <1>1, <1>2

LEMMA UrlsCarryPlans ==
  ASSUME FormFits, NEW url \in TypedUrls \cup FollowedUrls
  PROVE  Len(url.staged) \in Nat
<1>1. CASE url \in TypedUrls
  <2>1. url.staged \in UNION {[1..m -> Order] : m \in 0..MaxStaged}
    BY <1>1, Zenon DEF TypedUrls, Urls, BoundedSeq, SeqOf
  <2>2. PICK m \in 0..MaxStaged : url.staged \in [1..m -> Order] BY <2>1
  <2>3. m \in Nat
    <3>1. MaxStaged \in Nat BY TurnAssumption, Zenon
    <3>. QED BY <3>1
  <2>. QED BY <2>2, <2>3
<1>2. CASE url \in FollowedUrls
  <2>. DEFINE page == [plan |-> form.plan, unit |-> form.unit]
  <2>1. form # NoForm /\ url \in Links(page, Legal) BY <1>2 DEF FollowedUrls
  <2>2. page.plan \in Seq(Order) BY <2>1 DEF FormFits
  <2>. HIDE DEF page
  <2>. QED BY <2>1, <2>2, LinksCarryPlans
<1>. QED BY <1>1, <1>2

\* The page of a URL is a page that its own URL leads back to.
LEMMA PageAtFits ==
  ASSUME NEW url, NEW legal, Len(url.staged) \in Nat
  PROVE  LET page == PageAt(url, legal) IN
         /\ PlanFits(page.plan, legal)
         /\ page.unit = Selected(page.unit, page.plan, legal)
<1>. DEFINE plan == StagedOrders(url.staged, legal)
            unit == Selected(url.unit, plan, legal)
<1>1. PlanFits(plan, legal) BY StagedIsPlan
<1>. HIDE DEF plan
<1>2. unit = Selected(unit, plan, legal)
  <2>1. None \notin Unstaged(plan, legal) BY PlanAssumption DEF Unstaged
  <2>. QED BY <2>1 DEF Selected
<1>. HIDE DEF unit
<1>3. PageAt(url, legal) = [plan |-> plan, unit |-> unit] BY Zenon DEF PageAt, plan, unit
<1>. QED BY <1>1, <1>2, <1>3

LEMMA ShowPlanFits ==
  ASSUME FormFits, NEW urls, urls \subseteq TypedUrls \cup FollowedUrls, ShowPlan(urls)
  PROVE  FormFits'
<1>1. Planning(match, Legal) /\ UNCHANGED match BY DEF ShowPlan
<1>2. PICK url \in urls :
        LET page == PageAt(url, Legal)
        IN  form' = [turn |-> match.turn, plan |-> page.plan, unit |-> page.unit, fresh |-> TRUE]
  BY DEF ShowPlan
<1>. DEFINE page == PageAt(url, Legal)
<1>3. Len(url.staged) \in Nat BY UrlsCarryPlans
<1>4. PlanFits(page.plan, Legal) /\ page.unit = Selected(page.unit, page.plan, Legal)
  BY <1>3, PageAtFits
<1>5. form' = [turn |-> match.turn, plan |-> page.plan, unit |-> page.unit, fresh |-> TRUE]
  BY <1>2
<1>. HIDE DEF page
<1>6. /\ IsForm(form') /\ form'.turn = match.turn /\ form'.plan = page.plan
      /\ form'.unit = page.unit
  BY <1>5 DEF IsForm
<1>7. match.status = "active" BY <1>1 DEF Planning
<1>8. Legal' = Legal BY <1>1 DEF Legal
<1>9. page.plan \in Seq(Order) BY <1>4 DEF PlanFits
<1>. QED BY <1>1, <1>4, <1>6, <1>7, <1>8, <1>9 DEF FormFits

LEMMA PostFormPlays ==
  ASSUME FormFits, PostForm
  PROVE  FormFits' /\ EndTurnPlaysPlan'
<1>. DEFINE answer == Serve(Browser("POST", MatchPage \o <<"turns">>))
            result == IF answer.status = 303 THEN SubmitPlan ELSE "refused"
<1>1. /\ form # NoForm /\ form.plan # << >> /\ UNCHANGED <<secret, cookie>>
      /\ verdict' = [result |-> result, turn |-> match.turn, fresh |-> form.fresh,
                     orders |-> IF result = "played" THEN ComposeTurn(form.plan) ELSE {}]
      /\ result = "played" => Stale
      /\ result # "played" => UNCHANGED <<match, form>>
  BY DEF PostForm
<1>2. secret /\ cookie = "live" => answer.status = 303 BY FormIsServed
<1>3. /\ SubmitPlan = "played" => form.turn = match.turn
      /\ form.turn = match.turn /\ match.status = "active" /\ PlayablePlan(form.plan, Legal)
           => SubmitPlan = "played"
  BY DEF SubmitPlan
<1>4. form.fresh => PlayablePlan(form.plan, Legal)
  BY <1>1, PlanStays DEF FormFits, PlayablePlan
<1>5. secret /\ cookie = "live" /\ form.fresh => result = "played"
  BY <1>1, <1>2, <1>3, <1>4 DEF FormFits
<1>6. result = "played" => form.turn = match.turn BY <1>3
<1>. HIDE DEF result, answer
<1>7. /\ verdict'.result = result /\ verdict'.turn = match.turn /\ verdict'.fresh = form.fresh
      /\ result = "played" => verdict'.orders = ToSet(form.plan)
  BY <1>1 DEF ComposeTurn
<1>8. FormFits' BY <1>1, FormKept, FormStale
<1>9. form'.turn = form.turn /\ form'.plan = form.plan
  <2>1. CASE result = "played"
    <3>1. form' = [form EXCEPT !.fresh = FALSE] BY <1>1, <2>1 DEF Stale
    <3>2. IsForm(form) BY <1>1 DEF FormFits
    <3>. QED BY <3>1, <3>2 DEF IsForm
  <2>2. CASE result # "played" BY <1>1, <2>2
  <2>. QED BY <2>1, <2>2
<1>. QED BY <1>1, <1>5, <1>6, <1>7, <1>8, <1>9 DEF EndTurnPlaysPlan

LEMMA PlanNext == PlanInv /\ [Next]_vars => PlanInv'
<1> SUFFICES ASSUME PlanInv, [Next]_vars PROVE PlanInv'
  OBVIOUS
<1>1. FormFits /\ EndTurnPlaysPlan BY DEF PlanInv
<1>2. ASSUME verdict' = NoVerdict PROVE EndTurnPlaysPlan'
  BY <1>2 DEF EndTurnPlaysPlan, NoVerdict
<1>3. ASSUME NEW side, ApiTurn(side) PROVE PlanInv'
  <2>1. Stale /\ verdict' = NoVerdict BY <1>3 DEF ApiTurn, Elsewhere
  <2>. QED BY <1>1, <1>2, <2>1, FormStale DEF PlanInv
<1>4. CASE PauseOrResume
  <2>1. Stale /\ verdict' = NoVerdict BY <1>4 DEF PauseOrResume, Elsewhere
  <2>. QED BY <1>1, <1>2, <2>1, FormStale DEF PlanInv
<1>5. CASE CookieChanges
  <2>1. UNCHANGED <<form, match>> /\ verdict' = NoVerdict BY <1>5 DEF CookieChanges, Elsewhere
  <2>. QED BY <1>1, <1>2, <2>1, FormKept DEF PlanInv
<1>6. ASSUME NEW req, Browse(req) PROVE PlanInv'
  <2>1. UNCHANGED <<form, match>> /\ verdict' = NoVerdict BY <1>6 DEF Browse
  <2>. QED BY <1>1, <1>2, <2>1, FormKept DEF PlanInv
<1>7. ASSUME NEW urls, urls \in {TypedUrls, FollowedUrls}, ShowPlan(urls) PROVE PlanInv'
  <2>1. verdict' = NoVerdict BY <1>7 DEF ShowPlan, Elsewhere
  <2>2. urls \subseteq TypedUrls \cup FollowedUrls BY <1>7
  <2>. QED BY <1>1, <1>2, <1>7, <2>1, <2>2, ShowPlanFits DEF PlanInv
<1>8. CASE PostForm BY <1>1, <1>8, PostFormPlays DEF PlanInv
<1>9. CASE UNCHANGED vars
  <2>1. UNCHANGED <<form, match, verdict, secret, cookie>> BY <1>9 DEF vars
  <2>. QED BY <1>1, <2>1, FormKept DEF PlanInv, EndTurnPlaysPlan
<1>. QED BY <1>3, <1>4, <1>5, <1>6, <1>7, <1>8, <1>9 DEF Next

\* play/wsgi.py, _submit_plan: the plan of a page is played whole as long as nobody
\* has moved since and the session holds, and it is never played in a later turn.
THEOREM PlansArePlayed == Spec => []EndTurnPlaysPlan
<1>1. PlanInv => EndTurnPlaysPlan
  BY DEF PlanInv
<1> QED
  BY <1>1, PlanInit, PlanNext, PTL DEF Spec

-----------------------------------------------------------------------------
(* Tapping a plan together *)

\* The pages after the taps up to the N-th.
Tappings(page, legal, N, s) ==
  s = [k \in 0..N |-> IF k = 0 THEN {page} ELSE Tap(s[k - 1], legal)]

\* The same, level by level.
Levels(page, legal, N, s) == s[0] = {page} /\ \A k \in 1..N : s[k] = Tap(s[k - 1], legal)

LEMMA PassOfTaps ==
  ASSUME NEW page, NEW legal, NEW N \in Nat, NEW s, Tappings(page, legal, N, s)
  PROVE  Levels(page, legal, N, s)
<1>. DEFINE value(k) == IF k = 0 THEN {page} ELSE Tap(s[k - 1], legal)
<1>1. s = [k \in 0..N |-> value(k)] BY Zenon DEF Tappings
<1>2. value(0) = {page} OBVIOUS
<1>3. \A k : k # 0 => value(k) = Tap(s[k - 1], legal) OBVIOUS
<1>. HIDE DEF value
<1>4. \A k \in 0..N : s[k] = value(k) BY <1>1
<1>5. 0 \in 0..N /\ \A k \in 1..N : k \in 0..N /\ k # 0 OBVIOUS
<1>. QED BY <1>2, <1>3, <1>4, <1>5 DEF Levels

LEMMA TappingsExtend ==
  ASSUME NEW page, NEW legal, NEW N \in Nat, NEW s, Tappings(page, legal, N, s)
  PROVE  \E t : Tappings(page, legal, N + 1, t)
<1>. DEFINE next == Tap(s[N], legal)
            t == [k \in 0..(N + 1) |-> IF k = N + 1 THEN next ELSE s[k]]
<1>1. \A k \in 0..N : t[k] = s[k] OBVIOUS
<1>2. t[N + 1] = next OBVIOUS
<1>3. ASSUME NEW k \in 0..(N + 1)
      PROVE  t[k] = IF k = 0 THEN {page} ELSE Tap(t[k - 1], legal)
  <2>1. CASE k = N + 1
    <3>1. t[k - 1] = s[N] /\ k # 0 BY <1>1, <2>1
    <3>. QED BY <1>2, <2>1, <3>1
  <2>2. CASE k \in 1..N
    <3>1. t[k - 1] = s[k - 1] /\ t[k] = s[k] BY <1>1, <2>2
    <3>2. Levels(page, legal, N, s) BY PassOfTaps
    <3>3. s[k] = Tap(s[k - 1], legal) BY <2>2, <3>2 DEF Levels
    <3>. QED BY <2>2, <3>1, <3>3
  <2>3. CASE k = 0 BY <1>1, <2>3 DEF Tappings
  <2>. QED BY <2>1, <2>2, <2>3
<1>4. t = [k \in 0..(N + 1) |-> t[k]] OBVIOUS
<1>. HIDE DEF t, next
<1>5. Tappings(page, legal, N + 1, t) BY <1>3, <1>4 DEF Tappings
<1>. QED BY <1>5

LEMMA TappingsExist ==
  ASSUME NEW page, NEW legal, NEW N \in Nat
  PROVE  \E s : Tappings(page, legal, N, s)
<1>. DEFINE Lacking == {n \in Nat : ~ \E s : Tappings(page, legal, n, s)}
<1>1. Lacking \in SUBSET Nat OBVIOUS
<1>2. ASSUME Lacking # {} PROVE FALSE
  <2>. HIDE DEF Lacking
  <2>1. PICK n \in Lacking : \A m \in Lacking : n <= m BY <1>1, <1>2, LeastElement
  <2>. USE DEF Lacking
  <2>2. n # 0
    <3>1. Tappings(page, legal, 0, [k \in 0..0 |-> {page}]) BY DEF Tappings
    <3>. QED BY <2>1, <3>1
  <2>3. n - 1 \in Nat /\ n - 1 \notin Lacking BY <2>1, <2>2
  <2>4. PICK s : Tappings(page, legal, n - 1, s) BY <2>3
  <2>5. \E t : Tappings(page, legal, (n - 1) + 1, t) BY <2>3, <2>4, TappingsExtend
  <2>6. (n - 1) + 1 = n BY <2>3
  <2>. QED BY <2>1, <2>5, <2>6
<1>. QED BY <1>2

LEMMA LevelsOfTaps ==
  ASSUME NEW page, NEW legal, NEW N \in Nat
  PROVE  \E s : AfterTaps(page, legal, N) = s[N] /\ Levels(page, legal, N, s)
<1>. DEFINE s == CHOOSE f : Tappings(page, legal, N, f)
<1>1. Tappings(page, legal, N, s) BY TappingsExist
<1>2. AfterTaps(page, legal, N) = s[N] BY Zenon DEF AfterTaps, Tappings
<1>. HIDE DEF s
<1>3. Levels(page, legal, N, s) BY <1>1, PassOfTaps
<1>. QED BY <1>2, <1>3

\* All these pages have an order for the same units, done, besides those of plan;
\* they have the same unit selected; and between them they have every choice of
\* orders for done.
Reached(pages, done, unit, plan, legal) ==
  /\ \A page \in pages :
       /\ PlanFits(page.plan, legal) /\ page.unit = unit
       /\ Planned(page.plan) = Planned(plan) \cup done
  /\ {ToSet(page.plan) : page \in pages} = {ToSet(plan) \cup orders : orders \in OrderChoices(done, legal)}

\* A choice for one more unit is a choice for the others and an order of that unit.
LEMMA OneMoreChoice ==
  ASSUME NEW legal, NEW done, NEW u, u \notin done, legal[u] \subseteq Verbs
  PROVE  /\ \A orders \in OrderChoices(done \cup {u}, legal) :
              \E rest \in OrderChoices(done, legal), v \in legal[u] :
                orders = rest \cup {[unit |-> u, verb |-> v]}
         /\ \A rest \in OrderChoices(done, legal), v \in legal[u] :
              rest \cup {[unit |-> u, verb |-> v]} \in OrderChoices(done \cup {u}, legal)
<1>. DEFINE more == done \cup {u}
            Verbal(units) == {f \in [units -> Verbs] : \A w \in units : f[w] \in legal[w]}
            Told(units, f) == {[unit |-> w, verb |-> f[w]] : w \in units}
<1>1. \A units : OrderChoices(units, legal) = {Told(units, f) : f \in Verbal(units)}
  BY Zenon DEF OrderChoices
<1>2. ASSUME NEW f \in Verbal(more)
      PROVE  /\ [w \in done |-> f[w]] \in Verbal(done) /\ f[u] \in legal[u]
             /\ Told(more, f) = Told(done, [w \in done |-> f[w]]) \cup {[unit |-> u, verb |-> f[u]]}
  <2>. DEFINE g == [w \in done |-> f[w]]
  <2>1. \A w \in done : g[w] = f[w] OBVIOUS
  <2>2. g \in Verbal(done) /\ f[u] \in legal[u] OBVIOUS
  <2>. HIDE DEF g
  <2>3. Told(more, f) = Told(done, g) \cup {[unit |-> u, verb |-> f[u]]} BY <2>1
  <2>. QED BY <2>2, <2>3 DEF g
<1>3. ASSUME NEW g \in Verbal(done), NEW v \in legal[u]
      PROVE  \E f \in Verbal(more) : Told(more, f) = Told(done, g) \cup {[unit |-> u, verb |-> v]}
  <2>. DEFINE f == [w \in more |-> IF w = u THEN v ELSE g[w]]
  <2>1. f[u] = v /\ \A w \in done : f[w] = g[w] OBVIOUS
  <2>2. f \in Verbal(more) OBVIOUS
  <2>. HIDE DEF f
  <2>3. Told(more, f) = Told(done, g) \cup {[unit |-> u, verb |-> v]} BY <2>1
  <2>. QED BY <2>2, <2>3
<1>. HIDE DEF Verbal, Told, more
<1>4. OrderChoices(done, legal) = {Told(done, f) : f \in Verbal(done)}
      /\ OrderChoices(more, legal) = {Told(more, f) : f \in Verbal(more)}
  BY <1>1
<1>5. ASSUME NEW orders \in OrderChoices(more, legal)
      PROVE  \E rest \in OrderChoices(done, legal), v \in legal[u] :
               orders = rest \cup {[unit |-> u, verb |-> v]}
  <2>1. PICK f \in Verbal(more) : orders = Told(more, f) BY <1>4
  <2>. QED BY <1>2, <1>4, <2>1
<1>6. ASSUME NEW rest \in OrderChoices(done, legal), NEW v \in legal[u]
      PROVE  rest \cup {[unit |-> u, verb |-> v]} \in OrderChoices(more, legal)
  <2>1. PICK g \in Verbal(done) : rest = Told(done, g) BY <1>4
  <2>. QED BY <1>3, <1>4, <2>1
<1>. QED BY <1>5, <1>6 DEF more

\* One more tap, on a control for u: another unit is selected, if one is left.
TapGoesOn(pages, done, u, plan, legal) ==
  LET open == Unstaged(plan, legal) IN
  \E next : /\ Reached(Tap(pages, legal), done \cup {u}, next, plan, legal)
            /\ open # done \cup {u} => next \in open \ (done \cup {u})
            /\ open = done \cup {u} => next = None

LEMMA OneMoreTap ==
  ASSUME NEW legal, \A u \in Units : legal[u] \subseteq Verbs,
         NEW plan, NEW open, open = Unstaged(plan, legal),
         NEW done, done \subseteq open, NEW u \in open \ done,
         NEW pages, Reached(pages, done, u, plan, legal)
  PROVE  TapGoesOn(pages, done, u, plan, legal)
<1>. DEFINE left == open \ done
            next == NextUnstaged(left, u)
            more == done \cup {u}
            order(v) == [unit |-> u, verb |-> v]
<1>1. /\ open \subseteq Units /\ u \in Units /\ u # None /\ None \notin open
      /\ open \subseteq Nat
  BY PlanAssumption DEF Unstaged
<1>2. /\ open # more => next \in open \ more
      /\ open = more => next = None
  <2>1. CASE left \subseteq {u} BY <2>1 DEF NextUnstaged
  <2>2. CASE ~(left \subseteq {u})
    <3>1. left \ {u} # {} /\ left \ {u} \in SUBSET Nat BY <1>1, <2>2
    <3>2. \E k \in left \ {u} : \A j \in left \ {u} : k <= j
      BY <3>1, LeastElement
    <3>3. Least(left \ {u}) \in left \ {u} BY <3>2, Zenon DEF Least
    <3>4. next = Least(left \ {u}) BY <2>2 DEF NextUnstaged
    <3>. QED BY <3>1, <3>3, <3>4
  <2>. QED BY <2>1, <2>2
<1>3. \A v \in legal[u] : order(v) \in UnitOrders(legal) BY <1>1 DEF UnitOrders, Order
<1>. HIDE DEF next
<1>4. ASSUME NEW page \in pages, NEW v \in legal[u]
      PROVE  LET after == PageAt(Url(Append(page.plan, order(v)), next), legal) IN
             /\ PlanFits(after.plan, legal) /\ after.unit = next
             /\ Planned(after.plan) = Planned(plan) \cup more
             /\ ToSet(after.plan) = ToSet(page.plan) \cup {order(v)}
  <2>. DEFINE longer == Append(page.plan, order(v))
  <2>1. PlanFits(page.plan, legal) /\ Planned(page.plan) = Planned(plan) \cup done
    BY DEF Reached
  <2>2. order(v).unit = u /\ u \notin Planned(page.plan)
    BY <2>1 DEF Unstaged
  <2>3. /\ PlanFits(longer, legal)
        /\ Planned(longer) = Planned(page.plan) \cup {u}
        /\ ToSet(longer) = ToSet(page.plan) \cup {order(v)}
    BY <1>3, <2>1, <2>2, AddToPlan
  <2>. HIDE DEF longer, order
  <2>4. StagedOrders(longer, legal) = longer BY <2>3, PlanStays
  <2>5. Planned(longer) = Planned(plan) \cup more BY <2>1, <2>3
  <2>6. Unstaged(longer, legal) = open \ more BY <2>5 DEF Unstaged
  <2>7. Selected(next, longer, legal) = next
    <3>1. CASE next \in Unstaged(longer, legal) BY <3>1 DEF Selected
    <3>2. CASE next \notin Unstaged(longer, legal)
      <4>1. next = None BY <1>2, <2>6, <3>2
      <4>. QED BY <3>2, <4>1 DEF Selected
    <3>. QED BY <3>1, <3>2
  <2>8. PageAt(Url(longer, next), legal) = [plan |-> longer, unit |-> next]
    <3>1. Url(longer, next).staged = longer /\ Url(longer, next).unit = next BY DEF Url
    <3>. QED BY <2>4, <2>7, <3>1, Zenon DEF PageAt
  <2>. QED BY <2>3, <2>5, <2>8 DEF longer
<1>5. ASSUME NEW page \in pages
      PROVE  Controls(page, legal) = {Url(Append(page.plan, order(v)), next) : v \in legal[u]}
  <2>1. page.unit = u /\ Planned(page.plan) = Planned(plan) \cup done BY DEF Reached
  <2>2. Unstaged(page.plan, legal) = left BY <2>1 DEF Unstaged
  <2>. QED BY <1>1, <2>1, <2>2 DEF Controls, next
<1>. DEFINE after(page, v) == PageAt(Url(Append(page.plan, order(v)), next), legal)
<1>7. /\ \A page \in pages : \A v \in legal[u] : after(page, v) \in Tap(pages, legal)
      /\ \A p \in Tap(pages, legal) : \E page \in pages : \E v \in legal[u] : p = after(page, v)
  <2>1. ASSUME NEW page \in pages, NEW v \in legal[u] PROVE after(page, v) \in Tap(pages, legal)
    <3>. DEFINE url == Url(Append(page.plan, order(v)), next)
    <3>1. url \in Controls(page, legal) BY <1>5
    <3>. HIDE DEF url
    <3>2. PageAt(url, legal) \in {PageAt(w, legal) : w \in Controls(page, legal)} BY <3>1
    <3>3. PageAt(url, legal) \in Tap(pages, legal) BY <3>2, Zenon DEF Tap
    <3>. QED BY <3>3 DEF url
  <2>2. ASSUME NEW p \in Tap(pages, legal)
        PROVE  \E page \in pages : \E v \in legal[u] : p = after(page, v)
    <3>1. \E page \in pages : \E url \in Controls(page, legal) : p = PageAt(url, legal)
      BY Zenon DEF Tap
    <3>. QED BY <1>5, <3>1
  <2>. QED BY <2>1, <2>2
<1>8. \A page \in pages : \A v \in legal[u] :
        /\ PlanFits(after(page, v).plan, legal) /\ after(page, v).unit = next
        /\ Planned(after(page, v).plan) = Planned(plan) \cup more
        /\ ToSet(after(page, v).plan) = ToSet(page.plan) \cup {order(v)}
  BY <1>4
<1>. HIDE DEF after, order
<1>9. \A p \in Tap(pages, legal) :
        /\ PlanFits(p.plan, legal) /\ p.unit = next
        /\ Planned(p.plan) = Planned(plan) \cup more
  BY <1>7, <1>8
<1>10. {ToSet(page.plan) : page \in pages} =
         {ToSet(plan) \cup orders : orders \in OrderChoices(done, legal)}
  BY DEF Reached
<1>11. /\ \A orders \in OrderChoices(more, legal) :
            \E rest \in OrderChoices(done, legal) : \E v \in legal[u] : orders = rest \cup {order(v)}
       /\ \A rest \in OrderChoices(done, legal) : \A v \in legal[u] :
            rest \cup {order(v)} \in OrderChoices(more, legal)
  BY <1>1, OneMoreChoice DEF order
<1>12. ASSUME NEW p \in Tap(pages, legal)
       PROVE  \E orders \in OrderChoices(more, legal) : ToSet(p.plan) = ToSet(plan) \cup orders
  <2>1. PICK page \in pages : \E v \in legal[u] : p = after(page, v) BY <1>7
  <2>2. PICK v \in legal[u] : p = after(page, v) BY <2>1
  <2>3. PICK rest \in OrderChoices(done, legal) : ToSet(page.plan) = ToSet(plan) \cup rest
    BY <1>10
  <2>4. ToSet(p.plan) = ToSet(plan) \cup (rest \cup {order(v)}) BY <1>8, <2>2, <2>3
  <2>. QED BY <1>11, <2>4
<1>13. ASSUME NEW orders \in OrderChoices(more, legal)
       PROVE  \E p \in Tap(pages, legal) : ToSet(p.plan) = ToSet(plan) \cup orders
  <2>1. PICK rest \in OrderChoices(done, legal) :
          \E v \in legal[u] : orders = rest \cup {order(v)} BY <1>11
  <2>2. PICK v \in legal[u] : orders = rest \cup {order(v)} BY <2>1
  <2>3. PICK page \in pages : ToSet(page.plan) = ToSet(plan) \cup rest BY <1>10
  <2>4. ToSet(after(page, v).plan) = ToSet(plan) \cup orders BY <1>8, <2>2, <2>3
  <2>. QED BY <1>7, <2>4
<1>. DEFINE tapped == Tap(pages, legal)
<1>. HIDE DEF tapped, more
<1>14. {ToSet(p.plan) : p \in tapped} =
         {ToSet(plan) \cup orders : orders \in OrderChoices(more, legal)}
  BY <1>12, <1>13 DEF tapped
<1>15. Reached(tapped, more, next, plan, legal) BY <1>9, <1>14 DEF Reached, tapped
<1>. QED BY <1>2, <1>15 DEF TapGoesOn, tapped, more

\* As many taps as units need an order lead to every complete plan.
LEMMA TapsCompletePlans ==
  ASSUME NEW legal, \A u \in Units : legal[u] \subseteq Verbs,
         NEW plan, PlanFits(plan, legal), NEW unit \in Unstaged(plan, legal)
  PROVE  LET open == Unstaged(plan, legal)
         IN  Reached(AfterTaps([plan |-> plan, unit |-> unit], legal, Cardinality(open)),
                     open, None, plan, legal)
<1>. DEFINE open == Unstaged(plan, legal)
            N    == Cardinality(open)
            page == [plan |-> plan, unit |-> unit]
<1>1. IsFiniteSet(open) /\ N \in Nat /\ unit \in open
  <2>1. IsFiniteSet(open) BY PlanAssumption, FS_Subset DEF Unstaged
  <2>. QED BY <2>1, FS_CardinalityType
<1>. HIDE DEF open
<1>2. PICK s : AfterTaps(page, legal, N) = s[N] /\ Levels(page, legal, N, s)
  <2>. HIDE DEF page, N
  <2>1. N \in Nat BY <1>1
  <2>. QED BY <2>1, LevelsOfTaps, Zenon
<1>. HIDE DEF N
<1>. DEFINE Level(k) ==
       \E done \in SUBSET open : \E u :
         /\ Cardinality(done) = k
         /\ Reached(s[k], done, u, plan, legal)
         /\ open # done => u \in open \ done
         /\ open = done => u = None
<1>3. Level(0)
  <2>1. Planned(page.plan) = Planned(plan) \cup {} OBVIOUS
  <2>2. OrderChoices({}, legal) = {{}}
    <3>. DEFINE f == [w \in {} |-> w]
    <3>1. f \in [{} -> Verbs] OBVIOUS
    <3>. QED BY <3>1 DEF OrderChoices
  <2>3. {ToSet(p.plan) : p \in {page}} = {ToSet(plan) \cup orders : orders \in {{}}}
    OBVIOUS
  <2>4. PlanFits(page.plan, legal) /\ page.unit = unit OBVIOUS
  <2>. HIDE DEF page
  <2>5. Reached({page}, {}, unit, plan, legal)
    BY <2>1, <2>2, <2>3, <2>4 DEF Reached
  <2>6. Cardinality({}) = 0 /\ {} \in SUBSET open /\ unit \in open \ {} /\ open # {}
    BY <1>1, FS_EmptySet
  <2>. QED BY <1>2, <2>5, <2>6 DEF Levels
<1>4. ASSUME NEW k \in 1..N, Level(k - 1) PROVE Level(k)
  <2>1. PICK done \in SUBSET open : \E u :
          /\ Cardinality(done) = k - 1
          /\ Reached(s[k - 1], done, u, plan, legal)
          /\ open # done => u \in open \ done
    BY <1>4
  <2>2. PICK u : /\ Cardinality(done) = k - 1
                 /\ Reached(s[k - 1], done, u, plan, legal)
                 /\ open # done => u \in open \ done
    BY <2>1
  <2>3. k - 1 # N BY <1>1
  <2>4. open # done BY <2>2, <2>3 DEF N
  <2>5. u \in open \ done BY <2>2, <2>4
  <2>6. PICK next : /\ Reached(Tap(s[k - 1], legal), done \cup {u}, next, plan, legal)
                    /\ open # done \cup {u} => next \in open \ (done \cup {u})
                    /\ open = done \cup {u} => next = None
    <3>1. open = Unstaged(plan, legal) BY DEF open
    <3>2. done \subseteq open OBVIOUS
    <3>. DEFINE pages == s[k - 1]
    <3>3. Reached(pages, done, u, plan, legal) BY <2>2
    <3>. HIDE DEF pages, open
    <3>4. TapGoesOn(pages, done, u, plan, legal)
      BY <2>5, <3>1, <3>2, <3>3, OneMoreTap
    <3>. QED BY <3>1, <3>4, Zenon DEF TapGoesOn, pages
  <2>7. IsFiniteSet(done) BY <1>1, FS_Subset
  <2>8. Cardinality(done \cup {u}) = k
    <3>1. Cardinality(done \cup {u}) = Cardinality(done) + 1 BY <2>5, <2>7, FS_AddElement
    <3>2. (k - 1) + 1 = k BY <1>1
    <3>. QED BY <2>2, <3>1, <3>2
  <2>9. done \cup {u} \in SUBSET open BY <2>5
  <2>10. s[k] = Tap(s[k - 1], legal) BY <1>2 DEF Levels
  <2>. QED BY <2>6, <2>8, <2>9, <2>10
<1>. HIDE DEF Level
<1>5. Level(N)
  <2>. DEFINE Astray == {k \in 0..N : ~Level(k)}
  <2>1. Astray \in SUBSET Nat BY <1>1
  <2>2. ASSUME Astray # {} PROVE FALSE
    <3>. HIDE DEF Astray
    <3>1. PICK k \in Astray : \A m \in Astray : k <= m BY <2>1, <2>2, LeastElement
    <3>. USE DEF Astray
    <3>2. k \in 1..N /\ k - 1 \in 0..N BY <1>1, <1>3, <3>1
    <3>3. Level(k - 1) BY <1>1, <3>1, <3>2
    <3>. QED BY <1>4, <3>1, <3>2, <3>3
  <2>3. N \in 0..N BY <1>1
  <2>. QED BY <2>2, <2>3
<1>. USE DEF Level
<1>6. PICK done \in SUBSET open : \E u :
        /\ Cardinality(done) = N
        /\ Reached(s[N], done, u, plan, legal)
        /\ open = done => u = None
  BY <1>5
<1>7. done = open
  <2>1. Cardinality(done) = Cardinality(open) BY <1>6 DEF N
  <2>2. done \subseteq open OBVIOUS
  <2>. QED BY <1>1, <2>1, <2>2, FS_Subset
<1>8. Reached(s[N], open, None, plan, legal) BY <1>6, <1>7
<1>. QED BY <1>2, <1>8, Zenon DEF open, N, page

\* GameLists lists orders of Verbs for any unit.
ListsVerbs == \A board \in Board : \A u \in Units : GameLists(board, u) \subseteq Verbs

-----------------------------------------------------------------------------
(* What a turn has done *)

IsMatch(m) ==
  m = [mode |-> m.mode, status |-> m.status, turn |-> m.turn, staged |-> m.staged,
       board |-> m.board, news |-> m.news]

\* The news is about the board it stands beside.
NewsFits(m) ==
  \A event \in m.news :
    /\ event[1] = "captured" => event[2] \in Sides /\ m.board.owner = event[2]
    /\ event[1] = "lost" => m.board.owner = None

MatchFits(m) ==
  /\ IsMatch(m)
  /\ m.mode \in {"solo", "duel"}
  /\ m.status \in {"active", "paused", "completed"}
  /\ m.board \in Board
  /\ NewsFits(m)

NewsInv ==
  /\ MatchFits(match)
  /\ match.news = IF match.staged = {} THEN happened ELSE {}

\* Nothing has changed between a board and itself.
LEMMA NoChange ==
  ASSUME NEW board \in Board
  PROVE  DiffTurnEvents(board, board) = {}
<1>1. PostEvents(board, board) = {} BY DEF PostEvents
<1>2. GatherEvents(board, board) = {}
  <2>1. \A u \in Units : board.carrying[u] \in {0, 1} BY DEF Board
  <2>2. \A u \in Units : ~(board.carrying[u] > board.carrying[u]) BY <2>1
  <2>. QED BY <2>2 DEF GatherEvents
<1>3. DeliverEvents(board, board) = {}
  <2>1. board.bank \in Nat BY DEF Board
  <2>2. ~(board.bank > board.bank) BY <2>1
  <2>. QED BY <2>2, Zenon DEF DeliverEvents
<1>4. NodeEvents(board, board) = {}
  <2>1. board.node \in Nat BY DEF Board
  <2>2. ~(board.node = 0 /\ board.node > 0) BY <2>1
  <2>. QED BY <2>2, Zenon DEF NodeEvents
<1>5. FallenEvents(board, board) = {} BY DEF FallenEvents
<1>. QED BY <1>1, <1>2, <1>3, <1>4, <1>5 DEF DiffTurnEvents

\* Some of the units, counted.
LEMMA CountUnits ==
  ASSUME NEW S \in SUBSET Units
  PROVE  Cardinality(S) \in Nat /\ (Cardinality(S) = 0 <=> S = {})
<1>1. IsFiniteSet(S) BY PlanAssumption, FS_Subset
<1>. QED BY <1>1, FS_CardinalityType, FS_EmptySet

LEMMA OutcomeFits ==
  ASSUME match.board \in Board, NEW o \in Outcomes
  PROVE  LET after == After(match.board, o) IN
         /\ after \in Board /\ after.owner = o.owner
         /\ DiffTurnEvents(match.board, after) = Changes(match.board, o)
<1>. DEFINE board == match.board
            after == After(board, o)
            gathered  == Cardinality(Doing(o, "gather"))
            delivered == Cardinality(Doing(o, "deliver"))
<1>1. /\ o.does \in [Units -> {"nothing", "gather", "deliver", "fall"}]
      /\ o.owner \in {"us", "them", None}
      /\ \A u \in Units :
           /\ o.does[u] # "nothing" => board.alive[u]
           /\ o.does[u] = "gather" => board.carrying[u] = 0
           /\ o.does[u] = "deliver" => board.carrying[u] = 1
      /\ gathered <= board.node
  BY DEF Outcomes, Doing
<1>2. /\ gathered \in Nat /\ delivered \in Nat
      /\ delivered = 0 <=> Doing(o, "deliver") = {}
  <2>1. \A what : Doing(o, what) \in SUBSET Units BY DEF Doing
  <2>. QED BY <2>1, CountUnits
<1>3. /\ board.owner \in {"us", "them", None} /\ board.bank \in Nat /\ board.node \in Nat
      /\ board.alive \in [Units -> BOOLEAN] /\ board.carrying \in [Units -> {0, 1}]
  BY DEF Board
<1>. DEFINE alive == [u \in Units |-> board.alive[u] /\ o.does[u] # "fall"]
            carrying == [u \in Units |-> CASE o.does[u] = "gather" -> 1
                                           [] o.does[u] \in {"deliver", "fall"} -> 0
                                           [] OTHER -> board.carrying[u]]
<1>4. after = [owner |-> o.owner, bank |-> board.bank + delivered, node |-> board.node - gathered,
               alive |-> alive, carrying |-> carrying]
  BY Zenon DEF After
<1>5. alive \in [Units -> BOOLEAN] OBVIOUS
<1>6. carrying \in [Units -> {0, 1}]
  <2>1. ASSUME NEW u \in Units PROVE carrying[u] \in {0, 1}
    <3>1. board.carrying[u] \in {0, 1} BY <1>3
    <3>. QED BY <3>1
  <2>. HIDE DEF carrying
  <2>2. carrying = [u \in Units |-> carrying[u]] BY DEF carrying
  <2>. QED BY <2>1, <2>2
<1>7. board.node - gathered \in Nat /\ board.bank + delivered \in Nat BY <1>1, <1>2, <1>3
<1>8. \A u \in Units : carrying[u] > board.carrying[u] <=> o.does[u] = "gather"
  <2>1. ASSUME NEW u \in Units PROVE carrying[u] > board.carrying[u] <=> o.does[u] = "gather"
    <3>1. board.carrying[u] \in {0, 1} BY <1>3
    <3>2. o.does[u] \in {"nothing", "gather", "deliver", "fall"} BY <1>1
    <3>3. CASE o.does[u] = "gather"
      <4>1. carrying[u] = 1 /\ board.carrying[u] = 0 BY <1>1, <3>3
      <4>. QED BY <3>3, <4>1
    <3>4. CASE o.does[u] \in {"deliver", "fall"}
      <4>1. carrying[u] = 0 BY <3>4
      <4>. QED BY <3>1, <3>4, <4>1
    <3>5. CASE o.does[u] = "nothing"
      <4>1. carrying[u] = board.carrying[u] BY <3>5
      <4>. QED BY <3>1, <3>5, <4>1
    <3>. QED BY <3>2, <3>3, <3>4, <3>5
  <2>. QED BY <2>1
<1>9. \A u \in Units : board.alive[u] /\ ~alive[u] <=> o.does[u] = "fall"
  BY <1>1
<1>. HIDE DEF after, alive, carrying, gathered, delivered, board
<1>10. /\ after.owner = o.owner /\ after.bank = board.bank + delivered
       /\ after.node = board.node - gathered /\ after.alive = alive /\ after.carrying = carrying
  BY <1>4
<1>11. after \in Board
  BY <1>1, <1>4, <1>5, <1>6, <1>7 DEF Board
<1>12. GatherEvents(board, after) = {<<"gathered", u>> : u \in Doing(o, "gather")}
  BY <1>8, <1>10 DEF GatherEvents, Doing
<1>13. FallenEvents(board, after) = {<<"fell", u>> : u \in Doing(o, "fall")}
  BY <1>9, <1>10 DEF FallenEvents, Doing
<1>14. DeliverEvents(board, after) =
         IF Doing(o, "deliver") = {} THEN {} ELSE {<<"delivered", delivered>>}
  <2>1. after.bank > board.bank <=> delivered # 0 BY <1>2, <1>3, <1>10
  <2>2. after.bank - board.bank = delivered BY <1>2, <1>3, <1>10
  <2>. QED BY <1>2, <2>1, <2>2 DEF DeliverEvents
<1>15. NodeEvents(board, after) =
         IF board.node > 0 /\ board.node = gathered THEN {<<"exhausted">>} ELSE {}
  <2>1. after.node = 0 <=> board.node = gathered BY <1>2, <1>3, <1>10
  <2>. QED BY <2>1, Zenon DEF NodeEvents
<1>16. PostEvents(board, after) =
         IF o.owner = board.owner THEN {}
         ELSE IF o.owner = None THEN {<<"lost", board.owner>>} ELSE {<<"captured", o.owner>>}
  BY <1>10 DEF PostEvents
<1>17. DiffTurnEvents(board, after) = Changes(board, o)
  <2>1. Changes(board, o) =
          UNION {{<<"gathered", u>> : u \in Doing(o, "gather")},
                 {<<"fell", u>> : u \in Doing(o, "fall")},
                 IF Doing(o, "deliver") = {} THEN {} ELSE {<<"delivered", delivered>>},
                 IF board.node > 0 /\ board.node = gathered THEN {<<"exhausted">>} ELSE {},
                 IF o.owner = board.owner THEN {}
                 ELSE IF o.owner = None THEN {<<"lost", board.owner>>} ELSE {<<"captured", o.owner>>}}
    BY Zenon DEF Changes, delivered, gathered
  <2>2. Changes(board, o) =
          UNION {GatherEvents(board, after), FallenEvents(board, after),
                 DeliverEvents(board, after), NodeEvents(board, after), PostEvents(board, after)}
    BY <1>12, <1>13, <1>14, <1>15, <1>16, <2>1, Zenon
  <2>. QED BY <2>2 DEF DiffTurnEvents
<1>. QED BY <1>10, <1>11, <1>17 DEF after, board

\* Posts change hands in the news as they do on the board.
LEMMA NewsOfBoards ==
  ASSUME NEW before \in Board, NEW after \in Board,
         NEW event \in DiffTurnEvents(before, after)
  PROVE  /\ event[1] = "captured" => event[2] \in Sides /\ after.owner = event[2]
         /\ event[1] = "lost" => after.owner = None
<1>1. CASE event \in PostEvents(before, after)
  <2>1. after.owner \in {"us", "them", None} BY DEF Board
  <2>2. \/ after.owner # None /\ event = <<"captured", after.owner>>
        \/ after.owner = None /\ event = <<"lost", before.owner>>
    BY <1>1 DEF PostEvents
  <2>. QED BY <2>1, <2>2 DEF Sides
<1>2. CASE event \notin PostEvents(before, after)
  <2>1. event[1] \in {"gathered", "delivered", "exhausted", "fell"}
    BY <1>2 DEF DiffTurnEvents, GatherEvents, DeliverEvents, NodeEvents, FallenEvents
  <2>. QED BY <2>1
<1>. QED BY <1>1, <1>2

LEMMA ApplyTurnFits ==
  ASSUME NewsInv, match.status = "active", NEW side \in Sides, NEW o \in Outcomes
  PROVE  LET next == ApplyTurn(match, side, o) IN
         /\ MatchFits(next)
         /\ next.news = IF next.staged = {}
                          THEN IF Resolving(match, side) THEN Changes(match.board, o) ELSE happened
                          ELSE {}
<1>. DEFINE after == IF Resolving(match, side) THEN Resolved(match, o)
                     ELSE [match EXCEPT !.staged = Staging(match, side)]
            next == [after EXCEPT !.news = DiffTurnEvents(match.board, after.board)]
<1>1. ApplyTurn(match, side, o) = next BY Zenon DEF ApplyTurn
<1>2. /\ IsMatch(match) /\ match.mode \in {"solo", "duel"} /\ match.board \in Board
  BY DEF NewsInv, MatchFits
<1>3. /\ IsMatch(after) /\ after.mode = match.mode /\ after.status \in {"active", "completed"}
      /\ Resolving(match, side) => after.staged = {} /\ after.board = After(match.board, o)
      /\ ~Resolving(match, side) =>
           after.staged = Staging(match, side) /\ after.board = match.board
  <2>1. CASE Resolving(match, side)
    <3>1. after = Resolved(match, o) BY <2>1
    <3>. HIDE DEF after
    <3>. QED BY <1>2, <2>1, <3>1 DEF Resolved, IsMatch
  <2>2. CASE ~Resolving(match, side)
    <3>1. after = [match EXCEPT !.staged = Staging(match, side)] BY <2>2
    <3>. HIDE DEF after
    <3>. QED BY <1>2, <2>2, <3>1 DEF IsMatch
  <2>. QED BY <2>1, <2>2
<1>. HIDE DEF after
<1>4. /\ IsMatch(next) /\ next.mode = after.mode /\ next.status = after.status
      /\ next.staged = after.staged /\ next.board = after.board
      /\ next.news = DiffTurnEvents(match.board, after.board)
  BY <1>3 DEF IsMatch
<1>. HIDE DEF next
<1>5. after.board \in Board BY <1>2, <1>3, OutcomeFits
<1>6. NewsFits(next) BY <1>2, <1>4, <1>5, NewsOfBoards DEF NewsFits
<1>7. MatchFits(next) BY <1>2, <1>3, <1>4, <1>5, <1>6 DEF MatchFits
<1>8. CASE Resolving(match, side)
  <2>1. next.news = Changes(match.board, o) BY <1>2, <1>3, <1>4, <1>8, OutcomeFits
  <2>. QED BY <1>1, <1>3, <1>4, <1>7, <1>8, <2>1
<1>9. CASE ~Resolving(match, side)
  <2>1. next.news = {} BY <1>2, <1>3, <1>4, <1>9, NoChange
  <2>2. next.staged # {} BY <1>3, <1>4, <1>9 DEF Staging
  <2>. QED BY <1>1, <1>7, <2>1, <2>2
<1>. QED BY <1>8, <1>9

LEMMA TakeTurnFits ==
  ASSUME NewsInv, match.status = "active", NEW side \in Sides, TakeTurn(side)
  PROVE  NewsInv'
<1>1. PICK o \in Outcomes :
        /\ match' = ApplyTurn(match, side, o)
        /\ happened' = IF Resolving(match, side) THEN Changes(match.board, o) ELSE happened
  BY DEF TakeTurn
<1>. DEFINE next == ApplyTurn(match, side, o)
<1>2. /\ MatchFits(next)
      /\ next.news = IF next.staged = {}
                       THEN IF Resolving(match, side) THEN Changes(match.board, o) ELSE happened
                       ELSE {}
  BY ApplyTurnFits
<1>. HIDE DEF next
<1>3. match' = next BY <1>1 DEF next
<1>. QED BY <1>1, <1>2, <1>3, Zenon DEF NewsInv

LEMMA NewsInit == Init => NewsInv
<1> SUFFICES ASSUME Init PROVE NewsInv
  OBVIOUS
<1>1. PICK mode \in {"solo", "duel"} : match = NewMatch(mode) BY DEF Init
<1>2. /\ match.mode = mode /\ match.status = "active" /\ match.staged = {} /\ match.news = {}
      /\ match.board = StartBoard /\ IsMatch(match)
  BY <1>1 DEF NewMatch, IsMatch
<1>3. happened = {} BY DEF Init
<1>. QED BY <1>2, <1>3, TurnAssumption DEF NewsInv, MatchFits, NewsFits

LEMMA NewsNext == NewsInv /\ [Next]_vars => NewsInv'
<1> SUFFICES ASSUME NewsInv, [Next]_vars PROVE NewsInv'
  OBVIOUS
<1>1. ASSUME UNCHANGED <<match, happened>> PROVE NewsInv' BY <1>1 DEF NewsInv
<1>2. ASSUME NEW side \in Sides, ApiTurn(side) PROVE NewsInv'
  BY <1>2, TakeTurnFits DEF ApiTurn
<1>3. CASE PauseOrResume
  <2>1. /\ match' = [match EXCEPT !.status = IF @ = "active" THEN "paused" ELSE "active"]
        /\ happened' = happened
    BY <1>3 DEF PauseOrResume
  <2>2. IsMatch(match) BY DEF NewsInv, MatchFits
  <2>3. /\ IsMatch(match') /\ match'.mode = match.mode /\ match'.status \in {"active", "paused"}
        /\ match'.staged = match.staged /\ match'.board = match.board /\ match'.news = match.news
    BY <2>1, <2>2 DEF IsMatch
  <2>. QED BY <2>1, <2>3 DEF NewsInv, MatchFits, NewsFits
<1>4. CASE CookieChanges BY <1>1, <1>4 DEF CookieChanges
<1>5. ASSUME NEW req, Browse(req) PROVE NewsInv' BY <1>1, <1>5 DEF Browse
<1>6. ASSUME NEW urls, ShowPlan(urls) PROVE NewsInv' BY <1>1, <1>6 DEF ShowPlan
<1>7. CASE PostForm
  <2>. DEFINE answer == Serve(Browser("POST", MatchPage \o <<"turns">>))
              result == IF answer.status = 303 THEN SubmitPlan ELSE "refused"
  <2>1. /\ result = "played" => TakeTurn("us")
        /\ result # "played" => UNCHANGED <<match, form, happened>>
    BY <1>7 DEF PostForm
  <2>2. result = "played" => match.status = "active" BY DEF SubmitPlan
  <2>. HIDE DEF result
  <2>3. "us" \in Sides BY DEF Sides
  <2>. QED BY <1>1, <2>1, <2>2, <2>3, TakeTurnFits
<1>8. CASE UNCHANGED vars BY <1>1, <1>8 DEF vars
<1>. QED BY <1>2, <1>3, <1>4, <1>5, <1>6, <1>7, <1>8 DEF Next

\* normalize.py: "hold is always legal", for a unit that stands.
AliveCanBeOrdered ==
  \A board \in Board : \A u \in Units : board.alive[u] => GameLists(board, u) \cap Verbs # {}

\* adapter.py, events.py, render.py: what the page tells of the last turn is what the
\* turn has changed, it agrees with the board beside it, and the page offers orders
\* as long as a unit stands.
THEOREM PagesTellTurns == AliveCanBeOrdered => (Spec => []PageTellsTurn)
<1> SUFFICES ASSUME AliveCanBeOrdered PROVE Spec => []PageTellsTurn
  OBVIOUS
<1>1. NewsInv => PageTellsTurn
  <2> SUFFICES ASSUME NewsInv PROVE PageTellsTurn
    OBVIOUS
  <2>. DEFINE shown == View(match, Url(<< >>, None), Legal)
  <2>1. /\ shown.panel = Panel(match, Legal) /\ shown.strip = StatusStrip(match)
        /\ shown.events = DescribeEvents(match)
    BY DEF View
  <2>2. /\ match.mode \in {"solo", "duel"} /\ match.status \in {"active", "paused", "completed"}
        /\ match.board \in Board /\ NewsFits(match)
        /\ match.news = IF match.staged = {} THEN happened ELSE {}
    BY DEF NewsInv, MatchFits
  <2>. HIDE DEF shown
  <2>3. \A team \in Sides : shown.strip.posts[team] = IF match.board.owner = team THEN 1 ELSE 0
    BY <2>1 DEF StatusStrip, Sides
  <2>4. ASSUME NEW kind \in {"captured", "lost"}, NEW team \in Sides,
               <<kind, Label(match, team)>> \in shown.events
        PROVE  \E event \in match.news : event[1] = kind /\ Label(match, event[2]) = Label(match, team)
    <3>1. PICK event \in match.news : <<kind, Label(match, team)>> = Sentence(match, event)
      BY <2>1, <2>4 DEF DescribeEvents
    <3>2. event[1] \in {"captured", "lost"} BY <3>1 DEF Sentence
    <3>3. Sentence(match, event) = <<event[1], Label(match, event[2])>> BY <3>2 DEF Sentence
    <3>. QED BY <3>1, <3>3
  <2>5. \A a, b \in Sides : Label(match, a) = Label(match, b) => a = b
    <3>1. Label(match, "us") = "You" BY SMT DEF Label
    <3>2. Label(match, "them") = "House bot" \/ Label(match, "them") = "rival"
      <4>1. CASE match.mode = "solo" BY <4>1 DEF Label
      <4>2. CASE match.mode # "solo" BY <4>2 DEF Label
      <4>. QED BY <4>1, <4>2
    <3>3. Label(match, "us") # Label(match, "them") BY <3>1, <3>2
    <3>. QED BY <3>3, Zenon DEF Sides
  <2>6. ASSUME NEW team \in Sides, <<"captured", Label(match, team)>> \in shown.events
        PROVE  shown.strip.posts[team] = 1
    <3>1. PICK event \in match.news :
            event[1] = "captured" /\ Label(match, event[2]) = Label(match, team)
      BY <2>4, <2>6
    <3>2. event[2] \in Sides /\ match.board.owner = event[2] BY <2>2, <3>1 DEF NewsFits
    <3>. QED BY <2>3, <2>5, <3>1, <3>2
  <2>7. ASSUME NEW team \in Sides, <<"lost", Label(match, team)>> \in shown.events
        PROVE  \A holder \in Sides : shown.strip.posts[holder] = 0
    <3>1. PICK event \in match.news : event[1] = "lost" BY <2>4, <2>7
    <3>2. match.board.owner = None BY <2>2, <3>1 DEF NewsFits
    <3>. QED BY <2>3, <3>2, PlanAssumption DEF Sides
  <2>8. ASSUME shown.panel = "through the API", NEW u \in Units, match.board.alive[u]
        PROVE  FALSE
    <3>1. Panel(match, Legal) = "through the API" BY <2>1, <2>8
    <3>2. /\ ~Planning(match, Legal) /\ match.status \notin {"completed", "paused"}
          /\ ~Waiting(match)
      BY <3>1 DEF Panel
    <3>3. UnitOrders(Legal) = {} BY <2>2, <3>2 DEF Planning
    <3>4. PICK verb \in Verbs : verb \in GameLists(match.board, u)
      BY <2>2, <2>8 DEF AliveCanBeOrdered
    <3>5. [unit |-> u, verb |-> verb] \in UnitOrders(Legal)
      BY <3>4 DEF UnitOrders, Order, Legal
    <3>. QED BY <3>3, <3>5
  <2>9. /\ \A team \in Sides :
             /\ <<"captured", Label(match, team)>> \in shown.events => shown.strip.posts[team] = 1
             /\ <<"lost", Label(match, team)>> \in shown.events =>
                  \A holder \in Sides : shown.strip.posts[holder] = 0
        /\ shown.panel = "through the API" => \A u \in Units : ~match.board.alive[u]
    BY <2>6, <2>7, <2>8
  <2>. QED BY <2>2, <2>9, Zenon DEF PageTellsTurn, shown
<1> QED
  BY <1>1, NewsInit, NewsNext, PTL DEF Spec

\* play/board.py, _next_unstaged: from any page with a unit selected, one tap for each
\* unit without an order leads to every complete plan and to nothing else, for any
\* number of units and orders; and the page says so then and not before.
THEOREM OneTapEach == ListsVerbs => (Spec => []OneTapPerDecision)
<1> SUFFICES ASSUME ListsVerbs PROVE Spec => []OneTapPerDecision
  OBVIOUS
<1>1. PlanInv /\ NewsInv => OneTapPerDecision
  <2> SUFFICES ASSUME PlanInv, NewsInv, form # NoForm, form.fresh, form.unit # None
               PROVE  OneTapPerDecision
    BY DEF OneTapPerDecision
  <2>. DEFINE legal == Legal
              plan  == form.plan
              open  == Unstaged(plan, legal)
              ends  == AfterTaps([plan |-> plan, unit |-> form.unit], legal, Cardinality(open))
  <2>1. \A u \in Units : legal[u] \subseteq Verbs
    <3>1. match.board \in Board BY DEF NewsInv, MatchFits
    <3>. QED BY <3>1 DEF Legal, ListsVerbs
  <2>2. PlanFits(plan, legal) /\ form.unit = Selected(form.unit, plan, legal)
    BY DEF PlanInv, FormFits
  <2>. HIDE DEF legal, plan
  <2>3. form.unit \in open BY <2>2 DEF Selected
  <2>4. Reached(ends, open, None, plan, legal) BY <2>1, <2>2, <2>3, TapsCompletePlans
  <2>5. IsFiniteSet(open) /\ Cardinality(open) \in Nat /\ Cardinality(open) # 0
    <3>1. IsFiniteSet(open) BY PlanAssumption, FS_Subset DEF Unstaged
    <3>. QED BY <2>3, <3>1, FS_CardinalityType, FS_EmptySet
  <2>6. Planned(plan) \subseteq Units
    <3>1. plan \in Seq(Order) BY <2>2 DEF PlanFits
    <3>2. \A k \in DOMAIN plan : plan[k] \in Order BY <3>1
    <3>. QED BY <3>2 DEF Planned, Order
  <2>7. \A units \in SUBSET Units : IsFiniteSet(units) /\ Cardinality(units) \in Nat
    BY PlanAssumption, FS_Subset, FS_CardinalityType
  <2>. HIDE DEF ends
  <2>8. {ToSet(page.plan) : page \in ends} = {ToSet(plan) \cup orders : orders \in OrderChoices(open, legal)}
    BY <2>4 DEF Reached
  <2>9. ASSUME NEW page \in ends PROVE Lead(page, legal) = <<"end turn">>
    <3>1. page.unit = None /\ Planned(page.plan) = Planned(plan) \cup open BY <2>4 DEF Reached
    <3>2. Unstaged(page.plan, legal) = {} BY <3>1 DEF Unstaged
    <3>3. Planned(page.plan) \in SUBSET Units /\ Planned(page.plan) # {}
      BY <2>3, <2>6, <3>1 DEF Unstaged
    <3>. DEFINE staged == Cardinality(Planned(page.plan))
    <3>4. staged \in Nat /\ staged # 0 BY <2>7, <3>3, FS_EmptySet
    <3>5. Cardinality(Unstaged(page.plan, legal)) = 0 BY <3>2, FS_EmptySet
    <3>. HIDE DEF staged
    <3>6. Lead(page, legal) = IF staged = 0 THEN <<"tap a unit">>
                              ELSE IF staged >= 0 + staged THEN <<"end turn">>
                              ELSE <<"planned", staged, 0 + staged>>
      BY <3>1, <3>5 DEF Lead, staged
    <3>7. staged >= 0 + staged BY <3>4
    <3>. QED BY <3>4, <3>6, <3>7, Zenon
  <2>10. Lead([plan |-> plan, unit |-> None], legal) # <<"end turn">>
    <3>. DEFINE staged == Cardinality(Planned(plan))
                more   == Cardinality(open)
    <3>1. staged \in Nat BY <2>6, <2>7
    <3>2. Lead([plan |-> plan, unit |-> None], legal) =
            IF staged = 0 THEN <<"tap a unit">>
            ELSE IF staged >= more + staged THEN <<"end turn">>
            ELSE <<"planned", staged, more + staged>>
      BY DEF Lead
    <3>. HIDE DEF staged, more
    <3>3. more \in Nat /\ more # 0 BY <2>5 DEF more
    <3>4. ~(staged >= more + staged) BY <3>1, <3>3
    <3>5. <<"tap a unit">> # <<"end turn">> OBVIOUS
    <3>6. <<"planned", staged, more + staged>> # <<"end turn">> OBVIOUS
    <3>. QED BY <3>2, <3>4, <3>5, <3>6
  <2>. QED BY <2>8, <2>9, <2>10 DEF OneTapPerDecision, ComposeTurn, ends, plan, legal
<1> QED
  BY <1>1, PlanInit, PlanNext, NewsInit, NewsNext, PTL DEF Spec

-----------------------------------------------------------------------------
(* Reports and profiles *)

Copies == [MatchIds -> Stored \cup Missing]

\* What a reader has before it is among what it has had a chance to see, and a match
\* at rest has been as it is all the time.
SeenOK ==
  /\ seen \in [MatchIds -> SUBSET (Stored \cup Missing \cup {"moved"})]
  /\ table \in Copies /\ replica \in Copies /\ moving \subseteq MatchIds
  /\ \A id \in MatchIds \ moving : replica[id] = table[id]
  /\ ~Free => \A id \in MatchIds :
       /\ Reads(id) \subseteq seen[id]
       /\ id \in moving => "moved" \in seen[id]
       /\ "moved" \notin seen[id] => seen[id] = {table[id]}

\* What list_ids has yet to ask for.
Lists == {ListOrder, <<"paused", "completed">>, <<"completed">>, << >>}

Awaited(queries) == {queries[i] : i \in 1..Len(queries)}

\* What a report has of a match: one at rest is listed by the query for its status,
\* and counted by the load for that one listing.
Counted(counts, queries, left, tally, saw) ==
  /\ left \in Nat /\ tally \in Nat
  /\ saw \cap counts = {} => tally = 0
  /\ "moved" \notin saw /\ saw \subseteq counts =>
       left + tally = IF saw \cap Awaited(queries) = {} THEN 1 ELSE 0

Kinds == {Telemetry, Capacity, Hub}

Report == [page : {"report"}, kind : Kinds, queries : Lists,
           left : [MatchIds -> Nat], tally : [MatchIds -> Nat]]

ReportOK ==
  reader.page = "report" =>
    /\ reader \in Report
    /\ \A id \in MatchIds :
         Counted(reader.kind.counts, reader.queries, reader.left[id], reader.tally[id], seen[id])

ReportsInv == SeenOK /\ ReportOK

Summaries == [id : MatchIds, scored : BOOLEAN]

Profile == [page : {"profile"}, entries : Seq(MatchIds), todo : Seq(MatchIds),
            recent : Seq(Summaries)]

\* What is left to do is the end of the history.
ToPass(todo, newest) ==
  /\ Len(todo) <= Len(newest)
  /\ \A i \in 1..Len(todo) : todo[i] = newest[Len(newest) - Len(todo) + i]

Steady(saw, id) == saw[id] \cap Missing = {}

\* Of the first places of the history, the page has those that stay, in order.
Placed(recent, newest, passed, saw) ==
  \E place \in [1..Len(recent) -> 1..passed] :
    /\ \A k, m \in 1..Len(recent) : k < m => place[k] < place[m]
    /\ \A k \in 1..Len(recent) : recent[k].id = newest[place[k]]
    /\ \A p \in 1..passed : Steady(saw, newest[p]) =>
         \E k \in 1..Len(recent) : place[k] = p

ProfileOK ==
  reader.page = "profile" =>
    LET newest == Reverse(reader.entries) IN
    /\ reader \in Profile /\ ToPass(reader.todo, newest)
    /\ Len(reader.recent) <= RecentLimit
    /\ Placed(reader.recent, newest, Len(newest) - Len(reader.todo), seen)

ProfilesInv == SeenOK /\ history \in Seq(MatchIds) /\ ProfileOK

PagesInv == ReportsInv /\ ProfilesInv

-----------------------------------------------------------------------------

LEMMA KindsCount == \A kind \in Kinds : kind.counts \subseteq Stored
BY DEF Kinds, Telemetry, Capacity, Hub, Stored

LEMMA ReportFields ==
  ASSUME ReportOK, reader.page = "report"
  PROVE  /\ reader \in Report /\ reader.kind \in Kinds /\ reader.kind.counts \subseteq Stored
         /\ reader.queries \in Lists
         /\ reader.left \in [MatchIds -> Nat] /\ reader.tally \in [MatchIds -> Nat]
<1>1. reader \in Report BY DEF ReportOK
<1>2. reader.kind \in Kinds BY <1>1 DEF Report
<1>. QED BY <1>1, <1>2, KindsCount DEF Report

\* Every status is asked for, and each once.
LEMMA ListsAll == ListOrder \in Lists /\ Awaited(ListOrder) = Stored /\ Awaited(<< >>) = {}
<1>1. Awaited(ListOrder) = {"active", "paused", "completed"}
  <2>1. Len(ListOrder) = 3 /\ 1..3 = {1, 2, 3} BY DEF ListOrder
  <2>. QED BY <2>1 DEF Awaited, ListOrder
<1>2. Awaited(<< >>) = {} BY DEF Awaited
<1>. QED BY <1>1, <1>2 DEF Lists, Stored

LEMMA ListsNext ==
  ASSUME NEW queries \in Lists, queries # << >>
  PROVE  /\ Tail(queries) \in Lists /\ Head(queries) \notin Awaited(Tail(queries))
         /\ Awaited(queries) = Awaited(Tail(queries)) \cup {Head(queries)}
<1>1. Awaited(<< >>) = {} BY DEF Awaited
<1>2. Awaited(<<"completed">>) = {"completed"}
  <2>1. Len(<<"completed">>) = 1 /\ 1..1 = {1} OBVIOUS
  <2>. QED BY <2>1 DEF Awaited
<1>3. Awaited(<<"paused", "completed">>) = {"paused", "completed"}
  <2>1. Len(<<"paused", "completed">>) = 2 /\ 1..2 = {1, 2} OBVIOUS
  <2>. QED BY <2>1 DEF Awaited
<1>4. Awaited(ListOrder) = {"active", "paused", "completed"} BY ListsAll DEF Stored
<1>5. CASE queries = ListOrder
  <2>1. Head(queries) = "active" /\ Tail(queries) = <<"paused", "completed">>
    BY <1>5 DEF ListOrder
  <2>. QED BY <1>3, <1>4, <1>5, <2>1 DEF Lists
<1>6. CASE queries = <<"paused", "completed">>
  <2>1. Head(queries) = "paused" /\ Tail(queries) = <<"completed">> BY <1>6
  <2>. QED BY <1>2, <1>3, <1>6, <2>1 DEF Lists
<1>7. CASE queries = <<"completed">>
  <2>1. Head(queries) = "completed" /\ Tail(queries) = << >> BY <1>7
  <2>. QED BY <1>1, <1>2, <1>7, <2>1 DEF Lists
<1>. QED BY <1>5, <1>6, <1>7 DEF Lists

\* What was seen stays seen while a reader is at work.
LEMMA SeenGrows ==
  ASSUME SeenOK, Watching, NEW id \in MatchIds, ~Free, reader'.page # "none"
  PROVE  seen[id] \subseteq seen'[id] /\ Reads(id) # {} /\ Reads(id) \subseteq seen[id]
BY DEF SeenOK, Watching, Reads, Free

\* A match that is at rest before and after a step is left alone by it.
LEMMA TableNext ==
  ASSUME SeenOK, PublicNext
  PROVE  /\ table' \in Copies /\ replica' \in Copies /\ moving' \subseteq MatchIds
         /\ \A id \in MatchIds \ moving' : replica'[id] = table'[id]
         /\ \A id \in MatchIds \ (moving \cup moving') :
              table'[id] = table[id] /\ replica'[id] = replica[id]
<1>1. CASE UNCHANGED store BY <1>1 DEF store, SeenOK
<1>2. CASE \E other \in MatchIds : Save(other) \/ Delete(other)
  <2>1. PICK other \in MatchIds : Save(other) \/ Delete(other) BY <1>2
  <2>2. PICK status \in Stored \cup Missing : table' = [table EXCEPT ![other] = status]
    BY <2>1 DEF Save, Delete, Missing
  <2>3. replica' = replica /\ moving' = moving \cup {other} BY <2>1 DEF Save, Delete
  <2>. QED BY <2>2, <2>3 DEF SeenOK, Copies
<1>3. CASE \E other \in MatchIds : RecordRating(other)
  BY <1>3 DEF RecordRating, SeenOK
<1>4. CASE \E other \in MatchIds : Replicate(other)
  <2>1. PICK other \in MatchIds :
          /\ table' = table /\ replica' = [replica EXCEPT ![other] = table[other]]
          /\ moving' = moving \ {other} /\ other \in moving
    BY <1>4 DEF Replicate
  <2>. QED BY <2>1 DEF SeenOK, Copies
<1>. QED BY <1>1, <1>2, <1>3, <1>4 DEF PublicNext

LEMMA SeenNext ==
  ASSUME SeenOK, PublicNext
  PROVE  SeenOK'
<1>1. /\ table' \in Copies /\ replica' \in Copies /\ moving' \subseteq MatchIds
      /\ \A id \in MatchIds \ moving' : replica'[id] = table'[id]
      /\ \A id \in MatchIds \ (moving \cup moving') :
           table'[id] = table[id] /\ replica'[id] = replica[id]
  BY TableNext
<1>2. Watching BY DEF PublicNext
<1>. DEFINE AllSeen == SUBSET (Stored \cup Missing \cup {"moved"})
            now == [id \in MatchIds |-> {table'[id], replica'[id]}
                       \cup (IF id \in moving' THEN {"moved"} ELSE {})
                       \cup IF Free THEN {} ELSE seen[id]]
<1>3. seen' \in [MatchIds -> AllSeen]
  <2>1. Unseen \in [MatchIds -> AllSeen] BY DEF Unseen
  <2>2. now \in [MatchIds -> AllSeen] BY <1>1 DEF SeenOK, Copies
  <2>. QED BY <1>2, <2>1, <2>2 DEF Watching
<1>4. ASSUME reader'.page # "none", NEW id \in MatchIds
      PROVE  /\ {table'[id], replica'[id]} \subseteq seen'[id]
             /\ id \in moving' => "moved" \in seen'[id]
             /\ "moved" \notin seen'[id] => seen'[id] = {table'[id]}
  <2>1. seen'[id] = {table'[id], replica'[id]} \cup (IF id \in moving' THEN {"moved"} ELSE {})
                      \cup IF Free THEN {} ELSE seen[id]
    BY <1>2, <1>4 DEF Watching
  <2>2. ASSUME "moved" \notin seen'[id] PROVE seen'[id] = {table'[id]}
    <3>1. id \notin moving' BY <2>1, <2>2
    <3>2. CASE Free BY <1>1, <2>1, <3>1, <3>2
    <3>3. CASE ~Free
      <4>1. "moved" \notin seen[id] /\ id \notin moving /\ seen[id] = {table[id]}
        BY <2>1, <2>2, <3>3 DEF SeenOK
      <4>. QED BY <1>1, <2>1, <3>1, <3>3, <4>1
    <3>. QED BY <3>2, <3>3
  <2>. QED BY <2>1, <2>2
<1>. QED BY <1>1, <1>3, <1>4 DEF SeenOK, Reads, Free

\* A load that finds the match.
LEMMA CountedLoad ==
  ASSUME NEW counts, NEW queries, NEW left, NEW tally, NEW saw, NEW status \in saw,
         Counted(counts, queries, left, tally, saw), left > 0
  PROVE  Counted(counts, queries, left - 1, IF status \in counts THEN tally + 1 ELSE tally, saw)
<1>1. CASE status \in counts BY <1>1 DEF Counted
<1>2. CASE status \notin counts BY <1>2 DEF Counted
<1>. QED BY <1>1, <1>2

\* A load that finds it gone.
LEMMA CountedGone ==
  ASSUME NEW counts, counts \subseteq Stored, NEW queries, NEW left, NEW tally, NEW saw,
         saw \cap Missing # {}, Counted(counts, queries, left, tally, saw), left > 0
  PROVE  Counted(counts, queries, left - 1, tally, saw)
<1>1. ~(saw \subseteq counts) BY DEF Stored, Missing
<1>. QED BY <1>1 DEF Counted

-----------------------------------------------------------------------------

\* A step beside the reader.
LEMMA ReportBeside ==
  ASSUME ReportsInv, PublicNext, reader' = reader
  PROVE  ReportOK'
<1>. SUFFICES ASSUME reader.page = "report" PROVE ReportOK' BY DEF ReportOK
<1>1. SeenOK /\ ReportOK /\ Watching /\ SeenOK' BY SeenNext DEF ReportsInv, PublicNext
<1>2. ~Free /\ reader'.page # "none" /\ ~Free' BY DEF Free
<1>3. ASSUME NEW id \in MatchIds
      PROVE  Counted(reader.kind.counts, reader.queries, reader.left[id], reader.tally[id], seen'[id])
  <2>1. seen[id] \subseteq seen'[id] /\ seen[id] # {} BY <1>1, <1>2, SeenGrows
  <2>2. "moved" \notin seen'[id] => seen'[id] = seen[id]
    <3>1. "moved" \notin seen'[id] => seen'[id] = {table'[id]} BY <1>1, <1>2 DEF SeenOK
    <3>. QED BY <2>1, <3>1
  <2>3. Counted(reader.kind.counts, reader.queries, reader.left[id], reader.tally[id], seen[id])
    BY <1>1 DEF ReportOK
  <2>. QED BY <2>1, <2>2, <2>3 DEF Counted
<1>. QED BY <1>1, <1>3 DEF ReportOK

\* A step of the reader: what it has seen stays the same.
LEMMA SeenStill ==
  ASSUME SeenOK, Watching, UNCHANGED store, ~Free, reader'.page # "none", NEW id \in MatchIds
  PROVE  seen'[id] = seen[id]
BY DEF SeenOK, Watching, store, Reads, Free

LEMMA BeginReportStep ==
  ASSUME ReportsInv, PublicNext, UNCHANGED store, NEW kind \in Kinds, BeginReport(kind)
  PROVE  ReportOK'
<1>. DEFINE none == [id \in MatchIds |-> 0]
<1>1. reader' = [page |-> "report", kind |-> kind, queries |-> ListOrder,
                 left |-> none, tally |-> none]
  BY DEF BeginReport
<1>2. none \in [MatchIds -> Nat] /\ \A id \in MatchIds : none[id] = 0 OBVIOUS
<1>. HIDE DEF none
<1>3. /\ reader'.page = "report" /\ reader'.kind = kind /\ reader'.queries = ListOrder
      /\ reader'.left = none /\ reader'.tally = none
  BY <1>1
<1>4. ASSUME NEW id \in MatchIds
      PROVE  Counted(kind.counts, ListOrder, none[id], none[id], seen'[id])
  <2>1. "moved" \notin seen'[id] => seen'[id] # {}
    <3>1. SeenOK' /\ ~Free' BY <1>3, SeenNext DEF ReportsInv, Free
    <3>. QED BY <3>1 DEF SeenOK
  <2>2. kind.counts \subseteq Stored BY KindsCount
  <2>3. "moved" \notin seen'[id] /\ seen'[id] \subseteq kind.counts =>
          seen'[id] \cap Awaited(ListOrder) # {}
    BY <2>1, <2>2, ListsAll
  <2>. QED BY <1>2, <2>3 DEF Counted
<1>5. reader' \in Report BY <1>1, <1>2, ListsAll DEF Report
<1>. QED BY <1>3, <1>4, <1>5 DEF ReportOK

LEMMA NextQueryStep ==
  ASSUME ReportsInv, Watching, UNCHANGED store, NextQuery
  PROVE  ReportOK'
<1>1. /\ SeenOK /\ ReportOK /\ reader.page = "report" /\ reader.queries # << >>
      /\ reader \in Report /\ reader.kind.counts \subseteq Stored
      /\ reader.queries \in Lists /\ reader.left \in [MatchIds -> Nat]
  BY ReportFields DEF ReportsInv, NextQuery
<1>2. PICK found \in Query(Head(reader.queries)) :
        reader' = [reader EXCEPT !.queries = Tail(@),
                     !.left = [id \in MatchIds |-> @[id] + found[id]]]
  BY DEF NextQuery
<1>. DEFINE left == [id \in MatchIds |-> reader.left[id] + found[id]]
            listed == Head(reader.queries)
            rest == Tail(reader.queries)
<1>3. reader' = [reader EXCEPT !.queries = rest, !.left = left] BY <1>2
<1>4. found \in [MatchIds -> 0..2] BY DEF Query
<1>5. left \in [MatchIds -> Nat] BY <1>1, <1>4
<1>6. \A id \in MatchIds : left[id] = reader.left[id] + found[id] OBVIOUS
<1>7. /\ rest \in Lists /\ listed \notin Awaited(rest)
      /\ Awaited(reader.queries) = Awaited(rest) \cup {listed}
  BY <1>1, ListsNext
<1>8. \A id \in MatchIds : /\ found[id] > 0 => listed \in Reads(id)
                           /\ Reads(id) = {listed} /\ id \notin moving => found[id] = 1
  BY DEF Query
<1>. HIDE DEF left, listed, rest
<1>9. /\ reader'.page = "report" /\ reader'.kind = reader.kind /\ reader'.queries = rest
      /\ reader'.left = left /\ reader'.tally = reader.tally
  BY <1>1, <1>3 DEF Report
<1>10. ASSUME NEW id \in MatchIds
       PROVE  Counted(reader.kind.counts, rest, left[id], reader.tally[id], seen'[id])
  <2>1. ~Free /\ reader'.page # "none" BY <1>1, <1>9 DEF Free
  <2>2. seen'[id] = seen[id] BY <1>1, <2>1, SeenStill
  <2>3. Counted(reader.kind.counts, reader.queries, reader.left[id], reader.tally[id], seen[id])
    BY <1>1 DEF ReportOK
  <2>4. found[id] \in Nat /\ left[id] = reader.left[id] + found[id] BY <1>4, <1>6
  <2>5. ASSUME "moved" \notin seen[id], seen[id] \subseteq reader.kind.counts
        PROVE  left[id] + reader.tally[id] = IF seen[id] \cap Awaited(rest) = {} THEN 1 ELSE 0
    <3>1. /\ id \notin moving /\ seen[id] = {table[id]} /\ Reads(id) = {table[id]}
      BY <1>1, <2>1, <2>5 DEF SeenOK, Reads
    <3>2. CASE table[id] = listed
      <4>1. found[id] = 1 BY <1>8, <3>1, <3>2
      <4>2. reader.left[id] + reader.tally[id] = 0
        BY <1>7, <2>3, <2>5, <3>1, <3>2 DEF Counted
      <4>3. seen[id] \cap Awaited(rest) = {} BY <1>7, <3>1, <3>2
      <4>. QED BY <2>3, <2>4, <4>1, <4>2, <4>3 DEF Counted
    <3>3. CASE table[id] # listed
      <4>1. found[id] = 0 BY <1>8, <2>4, <3>1, <3>3
      <4>2. seen[id] \cap Awaited(rest) = seen[id] \cap Awaited(reader.queries)
        BY <1>7, <3>1, <3>3
      <4>. QED BY <2>3, <2>4, <2>5, <4>1, <4>2 DEF Counted
    <3>. QED BY <3>2, <3>3
  <2>6. left[id] \in Nat BY <2>3, <2>4 DEF Counted
  <2>. QED BY <2>2, <2>3, <2>5, <2>6 DEF Counted
<1>11. reader' \in Report BY <1>1, <1>3, <1>5, <1>7 DEF Report
<1>. QED BY <1>9, <1>10, <1>11 DEF ReportOK

LEMMA LoadStep ==
  ASSUME ReportsInv, Watching, UNCHANGED store, NEW id \in MatchIds,
         CountLoaded(id) \/ LoadGone(id)
  PROVE  ReportOK'
<1>1. /\ SeenOK /\ ReportOK /\ reader.page = "report"
      /\ reader.left[id] > 0 /\ reader.left \in [MatchIds -> Nat]
      /\ reader.tally \in [MatchIds -> Nat] /\ reader.kind.counts \subseteq Stored
      /\ reader \in Report
  BY ReportFields DEF ReportsInv, CountLoaded, LoadGone, Loads
<1>2. CASE reader' = NoReader
  BY <1>2 DEF ReportOK, NoReader
<1>3. CASE reader' # NoReader
  <2>1. PICK n \in Nat :
          /\ reader' = [reader EXCEPT !.left[id] = @ - 1, !.tally[id] = n]
          /\ \/ \E status \in Reads(id) :
                  n = IF status \in reader.kind.counts THEN reader.tally[id] + 1
                                                     ELSE reader.tally[id]
             \/ Gone(id) /\ n = reader.tally[id]
    <3>1. CASE CountLoaded(id)
      <4>1. PICK status \in Reads(id) \cap Stored :
              reader' = [reader EXCEPT !.left[id] = @ - 1,
                           !.tally[id] = IF status \in reader.kind.counts THEN @ + 1 ELSE @]
        BY <3>1 DEF CountLoaded
      <4>. DEFINE n == IF status \in reader.kind.counts THEN reader.tally[id] + 1
                                                      ELSE reader.tally[id]
      <4>2. n \in Nat BY <1>1
      <4>3. reader' = [reader EXCEPT !.left[id] = @ - 1, !.tally[id] = n] BY <4>1
      <4>. QED BY <4>2, <4>3
    <3>2. CASE LoadGone(id)
      <4>1. reader' = [reader EXCEPT !.left[id] = @ - 1] BY <1>3, <3>2 DEF LoadGone
      <4>2. reader' = [reader EXCEPT !.left[id] = @ - 1, !.tally[id] = reader.tally[id]]
        BY <1>1, <4>1
      <4>. QED BY <1>1, <3>2, <4>2 DEF LoadGone
    <3>. QED BY <3>1, <3>2
  <2>. DEFINE left == [reader.left EXCEPT ![id] = @ - 1]
              tally == [reader.tally EXCEPT ![id] = n]
  <2>2. /\ reader'.page = "report" /\ reader'.kind = reader.kind
        /\ reader'.queries = reader.queries
        /\ reader'.left = left /\ reader'.tally = tally
    BY <1>1, <2>1 DEF Report
  <2>3. left \in [MatchIds -> Nat] /\ tally \in [MatchIds -> Nat] BY <1>1, <2>1
  <2>4. /\ left[id] = reader.left[id] - 1 /\ tally[id] = n
        /\ \A other \in MatchIds \ {id} :
             left[other] = reader.left[other] /\ tally[other] = reader.tally[other]
    BY <1>1
  <2>. HIDE DEF left, tally
  <2>5. ~Free /\ reader'.page # "none" BY <1>1, <2>2 DEF Free
  <2>6. \A other \in MatchIds : seen'[other] = seen[other] BY <1>1, <2>5, SeenStill
  <2>7. Reads(id) \subseteq seen[id] BY <1>1, <2>5 DEF SeenOK
  <2>8. Counted(reader.kind.counts, reader.queries, reader.left[id], reader.tally[id], seen[id])
    BY <1>1 DEF ReportOK
  <2>9. Counted(reader.kind.counts, reader.queries, left[id], tally[id], seen[id])
    <3>1. CASE \E status \in Reads(id) :
                  n = IF status \in reader.kind.counts THEN reader.tally[id] + 1
                                                     ELSE reader.tally[id]
      <4>1. PICK status \in Reads(id) :
                  n = IF status \in reader.kind.counts THEN reader.tally[id] + 1
                                                     ELSE reader.tally[id]
        BY <3>1
      <4>2. status \in seen[id] BY <2>7
      <4>3. Counted(reader.kind.counts, reader.queries, reader.left[id] - 1,
                    IF status \in reader.kind.counts THEN reader.tally[id] + 1
                                                   ELSE reader.tally[id], seen[id])
        BY <1>1, <2>8, <4>2, CountedLoad
      <4>. QED BY <2>4, <4>1, <4>3
    <3>2. CASE Gone(id) /\ n = reader.tally[id]
      <4>1. seen[id] \cap Missing # {} BY <2>7, <3>2 DEF Gone
      <4>2. Counted(reader.kind.counts, reader.queries, reader.left[id] - 1, reader.tally[id], seen[id])
        BY <1>1, <2>8, <4>1, CountedGone
      <4>. QED BY <2>4, <3>2, <4>2
    <3>. QED BY <2>1, <3>1, <3>2
  <2>10. ASSUME NEW other \in MatchIds
         PROVE  Counted(reader.kind.counts, reader.queries, left[other], tally[other], seen'[other])
    BY <1>1, <2>4, <2>6, <2>9 DEF ReportOK
  <2>11. reader' \in Report
    <3>1. reader' = [reader EXCEPT !.left = left, !.tally = tally]
      BY <1>1, <2>1 DEF left, tally, Report
    <3>. QED BY <1>1, <2>3, <3>1 DEF Report
  <2>. QED BY <2>2, <2>10, <2>11 DEF ReportOK
<1>. QED BY <1>2, <1>3

\* Pages that go on stay the pages they are.
LEMMA ProfileGoesOn ==
  ASSUME ProfileOK, LoadRecent \/ SkipMissing
  PROVE  reader'.page = "profile"
<1>1. reader \in Profile BY DEF ProfileOK, LoadRecent, SkipMissing, Assembling
<1>2. CASE LoadRecent BY <1>1, <1>2 DEF LoadRecent, Profile
<1>3. CASE SkipMissing BY <1>1, <1>3 DEF SkipMissing, Profile
<1>. QED BY <1>2, <1>3

LEMMA ReportGoesOn ==
  ASSUME ReportOK, NextQuery \/ \E id \in MatchIds : CountLoaded(id) \/ LoadGone(id)
  PROVE  reader'.page \in {"report", "none"}
<1>1. reader \in Report
  BY ReportFields DEF NextQuery, CountLoaded, LoadGone, Loads
<1>2. CASE NextQuery BY <1>1, <1>2 DEF NextQuery, Report
<1>3. ASSUME NEW id \in MatchIds, CountLoaded(id) PROVE reader'.page = "report"
  BY <1>1, <1>3 DEF CountLoaded, Loads, Report
<1>4. ASSUME NEW id \in MatchIds, LoadGone(id) PROVE reader'.page \in {"report", "none"}
  BY <1>1, <1>4 DEF LoadGone, Loads, Report, NoReader
<1>. QED BY <1>2, <1>3, <1>4

LEMMA ReportNext ==
  ASSUME ReportsInv, ProfileOK, PublicNext
  PROVE  ReportOK'
<1>1. Watching BY DEF PublicNext
<1>2. CASE reader' = reader BY <1>2, ReportBeside
<1>3. ASSUME PageStep, UNCHANGED store PROVE ReportOK'
  <2>1. ASSUME NEW kind \in Kinds, BeginReport(kind) PROVE ReportOK'
    BY <1>1, <1>3, <2>1, BeginReportStep
  <2>2. CASE NextQuery BY <1>1, <1>3, <2>2, NextQueryStep
  <2>3. ASSUME NEW id \in MatchIds, CountLoaded(id) \/ LoadGone(id) PROVE ReportOK'
    BY <1>1, <1>3, <2>3, LoadStep
  <2>4. ASSUME reader'.page # "report" PROVE ReportOK'
    BY <2>4 DEF ReportOK
  <2>5. ASSUME NEW id \in MatchIds, Watch(id) PROVE ReportOK'
    <3>1. reader'.page = "watch" BY <2>5 DEF Watch
    <3>. QED BY <2>4, <3>1
  <2>6. CASE BeginProfile
    <3>1. reader'.page = "profile" BY <2>6 DEF BeginProfile
    <3>. QED BY <2>4, <3>1
  <2>7. CASE EndPage
    <3>1. reader'.page = "none" BY <2>7 DEF EndPage, NoReader
    <3>. QED BY <2>4, <3>1
  <2>8. CASE LoadRecent \/ SkipMissing
    <3>1. reader'.page = "profile" BY <2>8, ProfileGoesOn
    <3>. QED BY <2>4, <3>1
  <2>. QED BY <1>3, <2>1, <2>2, <2>3, <2>5, <2>6, <2>7, <2>8 DEF PageStep, Kinds
<1>. QED BY <1>2, <1>3 DEF PublicNext

\* What the page of a profile has shown of the passed places of the history.
LEMMA PlacedStays ==
  ASSUME NEW recent, NEW newest, NEW passed, NEW saw, NEW more,
         Placed(recent, newest, passed, saw),
         \A p \in 1..passed : newest[p] \in MatchIds,
         \A id \in MatchIds : saw[id] \subseteq more[id]
  PROVE  Placed(recent, newest, passed, more)
<1>1. \A p \in 1..passed : Steady(more, newest[p]) => Steady(saw, newest[p]) BY DEF Steady
<1>. QED BY <1>1 DEF Placed

\* The next place is passed by showing it ...
LEMMA PlacedShown ==
  ASSUME NEW recent \in Seq(Summaries), NEW newest, NEW passed \in Nat, NEW saw, NEW summary,
         Placed(recent, newest, passed, saw), summary.id = newest[passed + 1]
  PROVE  Placed(Append(recent, summary), newest, passed + 1, saw)
<1>. DEFINE more == Append(recent, summary)
            n    == Len(recent)
<1>1. n \in Nat /\ Len(more) = n + 1 /\ more[n + 1] = summary
      /\ \A k \in 1..n : more[k] = recent[k]
  OBVIOUS
<1>2. PICK place \in [1..n -> 1..passed] :
        /\ \A k, m \in 1..n : k < m => place[k] < place[m]
        /\ \A k \in 1..n : recent[k].id = newest[place[k]]
        /\ \A p \in 1..passed : Steady(saw, newest[p]) => \E k \in 1..n : place[k] = p
  BY DEF Placed
<1>. DEFINE next == [k \in 1..(n + 1) |-> IF k = n + 1 THEN passed + 1 ELSE place[k]]
<1>. HIDE DEF more, n
<1>3. next \in [1..(n + 1) -> 1..(passed + 1)] BY <1>1
<1>4. /\ next[n + 1] = passed + 1
      /\ \A k \in 1..n : k \in 1..(n + 1) /\ next[k] = place[k] /\ place[k] \in 1..passed
  BY <1>1
<1>. HIDE DEF next
<1>5. \A k \in 1..(n + 1) : k = n + 1 \/ k \in 1..n BY <1>1
<1>6. \A k, m \in 1..(n + 1) : k < m => next[k] < next[m]
  <2>1. ASSUME NEW k \in 1..(n + 1), NEW m \in 1..(n + 1), k < m PROVE next[k] < next[m]
    <3>1. k \in 1..n BY <1>1, <2>1
    <3>2. CASE m = n + 1 BY <1>4, <3>1, <3>2
    <3>3. CASE m \in 1..n BY <1>2, <1>4, <2>1, <3>1, <3>3
    <3>. QED BY <1>5, <3>2, <3>3
  <2>. QED BY <2>1
<1>7. \A k \in 1..(n + 1) : more[k].id = newest[next[k]] BY <1>1, <1>2, <1>4, <1>5
<1>8. ASSUME NEW p \in 1..(passed + 1), Steady(saw, newest[p])
      PROVE  \E k \in 1..(n + 1) : next[k] = p
  <2>1. CASE p = passed + 1 BY <1>1, <1>4, <2>1
  <2>2. CASE p \in 1..passed BY <1>2, <1>4, <1>8, <2>2
  <2>. QED BY <2>1, <2>2
<1>9. Len(more) = n + 1 BY <1>1
<1>10. \E at \in [1..Len(more) -> 1..(passed + 1)] :
         /\ \A k, m \in 1..Len(more) : k < m => at[k] < at[m]
         /\ \A k \in 1..Len(more) : more[k].id = newest[at[k]]
         /\ \A p \in 1..(passed + 1) : Steady(saw, newest[p]) =>
              \E k \in 1..Len(more) : at[k] = p
  <2>1. /\ next \in [1..Len(more) -> 1..(passed + 1)]
        /\ \A k, m \in 1..Len(more) : k < m => next[k] < next[m]
        /\ \A k \in 1..Len(more) : more[k].id = newest[next[k]]
        /\ \A p \in 1..(passed + 1) : Steady(saw, newest[p]) =>
             \E k \in 1..Len(more) : next[k] = p
    BY <1>3, <1>6, <1>7, <1>8, <1>9
  <2>. QED BY <2>1, Zenon
<1>11. Placed(more, newest, passed + 1, saw) BY <1>10, Zenon DEF Placed
<1>. QED BY <1>11 DEF more

\* ... or for it was missing.
LEMMA PlacedMissing ==
  ASSUME NEW recent \in Seq(Summaries), NEW newest, NEW passed \in Nat, NEW saw,
         Placed(recent, newest, passed, saw), ~Steady(saw, newest[passed + 1])
  PROVE  Placed(recent, newest, passed + 1, saw)
<1>1. PICK place \in [1..Len(recent) -> 1..passed] :
        /\ \A k, m \in 1..Len(recent) : k < m => place[k] < place[m]
        /\ \A k \in 1..Len(recent) : recent[k].id = newest[place[k]]
        /\ \A p \in 1..passed : Steady(saw, newest[p]) =>
             \E k \in 1..Len(recent) : place[k] = p
  BY DEF Placed
<1>2. place \in [1..Len(recent) -> 1..(passed + 1)] OBVIOUS
<1>3. \A p \in 1..(passed + 1) : p = passed + 1 \/ p \in 1..passed OBVIOUS
<1>. QED BY <1>1, <1>2, <1>3 DEF Placed

LEMMA ReversedHistory ==
  ASSUME NEW entries \in Seq(MatchIds)
  PROVE  Reverse(entries) \in Seq(MatchIds) /\ Len(Reverse(entries)) = Len(entries)
BY DEF Reverse

\* A step to the next place of the history.
LEMMA PassedOne ==
  ASSUME NEW todo \in Seq(MatchIds), todo # << >>, NEW newest \in Seq(MatchIds),
         ToPass(todo, newest)
  PROVE  /\ Tail(todo) \in Seq(MatchIds) /\ ToPass(Tail(todo), newest)
         /\ Head(todo) \in MatchIds /\ Head(todo) = newest[Len(newest) - Len(todo) + 1]
         /\ Len(newest) - Len(todo) \in Nat
         /\ Len(newest) - Len(Tail(todo)) = Len(newest) - Len(todo) + 1
<1>1. /\ Len(todo) \in Nat /\ Len(todo) > 0 /\ Len(newest) \in Nat
      /\ Tail(todo) \in Seq(MatchIds) /\ Len(Tail(todo)) = Len(todo) - 1
      /\ Head(todo) = todo[1] /\ \A i \in 1..Len(Tail(todo)) : Tail(todo)[i] = todo[i + 1]
  OBVIOUS
<1>2. /\ Len(todo) <= Len(newest)
      /\ \A i \in 1..Len(todo) : todo[i] = newest[Len(newest) - Len(todo) + i]
  BY DEF ToPass
<1>3. Head(todo) \in MatchIds /\ Head(todo) = newest[Len(newest) - Len(todo) + 1]
  BY <1>1, <1>2
<1>4. Len(Tail(todo)) <= Len(newest) BY <1>1, <1>2
<1>5. ASSUME NEW i \in 1..Len(Tail(todo))
      PROVE  Tail(todo)[i] = newest[Len(newest) - Len(Tail(todo)) + i]
  <2>1. i + 1 \in 1..Len(todo) BY <1>1
  <2>2. todo[i + 1] = newest[Len(newest) - Len(todo) + (i + 1)] BY <1>2, <2>1
  <2>3. Len(newest) - Len(todo) + (i + 1) = Len(newest) - Len(Tail(todo)) + i BY <1>1
  <2>. QED BY <1>1, <2>2, <2>3
<1>6. ToPass(Tail(todo), newest) BY <1>4, <1>5 DEF ToPass
<1>. QED BY <1>1, <1>2, <1>3, <1>6

-----------------------------------------------------------------------------

LEMMA HistoryNext ==
  ASSUME history \in Seq(MatchIds), PublicNext
  PROVE  history' \in Seq(MatchIds)
<1>1. CASE UNCHANGED store BY <1>1 DEF store
<1>2. ASSUME NEW id \in MatchIds, Save(id) \/ RecordRating(id) \/ Delete(id) \/ Replicate(id)
      PROVE  history' \in Seq(MatchIds)
  BY <1>2 DEF Save, RecordRating, Delete, Replicate
<1>. QED BY <1>1, <1>2 DEF PublicNext

LEMMA BeginProfileStep ==
  ASSUME ProfilesInv, BeginProfile
  PROVE  ProfileOK'
<1>. PICK n \in 1..Len(history) :
        reader' = [page |-> "profile", entries |-> SubSeq(history, 1, n),
                   todo |-> Reverse(SubSeq(history, 1, n)), recent |-> << >>]
  BY DEF BeginProfile
<1>1. PICK entries \in Seq(MatchIds) :
        reader' = [page |-> "profile", entries |-> entries,
                   todo |-> Reverse(entries), recent |-> << >>]
  <2>1. history \in Seq(MatchIds) BY DEF ProfilesInv
  <2>2. SubSeq(history, 1, n) \in Seq(MatchIds) BY <2>1
  <2>. QED BY <2>2
<1>. DEFINE newest == Reverse(entries)
<1>2. /\ reader'.page = "profile" /\ reader'.entries = entries
      /\ reader'.todo = newest /\ reader'.recent = << >>
      /\ reader' = [page |-> "profile", entries |-> entries, todo |-> newest, recent |-> << >>]
  BY <1>1
<1>3. newest \in Seq(MatchIds) /\ Len(newest) \in Nat BY <1>1, ReversedHistory
<1>. HIDE DEF newest
<1>4. reader' \in Profile BY <1>1, <1>2, <1>3 DEF Profile
<1>5. ToPass(newest, newest) BY <1>3 DEF ToPass
<1>6. Placed(<< >>, newest, 0, seen')
  <2>1. \A k : k \notin 1..Len(<< >>) /\ k \notin 1..0 OBVIOUS
  <2>2. [k \in 1..Len(<< >>) |-> 0] \in [1..Len(<< >>) -> 1..0] BY <2>1, Zenon
  <2>. QED BY <2>1, <2>2, Zenon DEF Placed
<1>7. Len(newest) - Len(newest) = 0 /\ Len(<< >>) <= RecentLimit
  BY <1>3, PagesAssumption
<1>8. reader'.todo = newest /\ Reverse(reader'.entries) = newest BY <1>2 DEF newest
<1>. QED BY <1>2, <1>4, <1>5, <1>6, <1>7, <1>8 DEF ProfileOK

\* The page takes up the next match, or passes it over.
LEMMA ProfileGoesOnOK ==
  ASSUME ProfilesInv, PublicNext, UNCHANGED store, LoadRecent \/ SkipMissing
  PROVE  ProfileOK'
<1>. DEFINE newest == Reverse(reader.entries)
            todo   == reader.todo
            passed == Len(Reverse(reader.entries)) - Len(reader.todo)
<1>1. /\ SeenOK /\ reader.page = "profile" /\ reader \in Profile /\ todo # << >>
      /\ Len(reader.recent) < RecentLimit
      /\ ToPass(todo, newest) /\ Placed(reader.recent, newest, passed, seen)
  BY DEF ProfilesInv, ProfileOK, LoadRecent, SkipMissing, Assembling
<1>2. /\ reader.entries \in Seq(MatchIds) /\ todo \in Seq(MatchIds)
      /\ reader.recent \in Seq(Summaries)
  BY <1>1 DEF Profile
<1>3. newest \in Seq(MatchIds) BY <1>2, ReversedHistory
<1>. HIDE DEF newest, todo
<1>4. /\ Tail(todo) \in Seq(MatchIds) /\ ToPass(Tail(todo), newest)
      /\ Head(todo) \in MatchIds /\ Head(todo) = newest[passed + 1] /\ passed \in Nat
      /\ Len(newest) - Len(Tail(todo)) = passed + 1
  BY <1>1, <1>2, <1>3, PassedOne DEF newest, todo
<1>. HIDE DEF passed
<1>5. ~Free BY <1>1 DEF Free
<1>6. Reads(Head(todo)) \subseteq seen[Head(todo)] BY <1>1, <1>4, <1>5 DEF SeenOK
<1>7. PICK recent \in Seq(Summaries) :
        /\ reader' = [reader EXCEPT !.todo = Tail(todo), !.recent = recent]
        /\ Len(recent) <= RecentLimit
        /\ Placed(recent, newest, passed + 1, seen)
  <2>1. CASE LoadRecent
    <3>1. PICK status \in Reads(Head(todo)) \cap Stored :
            reader' = [reader EXCEPT !.todo = Tail(@),
                         !.recent = Append(@, Summary(Head(todo), status))]
      BY <2>1 DEF LoadRecent, todo
    <3>. DEFINE summary == Summary(Head(todo), status)
    <3>2. summary \in Summaries /\ summary.id = Head(todo)
      BY <1>4 DEF Summary, Summaries
    <3>. HIDE DEF summary
    <3>3. /\ Append(reader.recent, summary) \in Seq(Summaries)
          /\ Len(Append(reader.recent, summary)) = Len(reader.recent) + 1
          /\ Len(reader.recent) \in Nat
      BY <1>2, <3>2
    <3>4. Placed(Append(reader.recent, summary), newest, passed + 1, seen)
      BY <1>1, <1>2, <1>4, <3>2, PlacedShown
    <3>5. reader' = [reader EXCEPT !.todo = Tail(todo), !.recent = Append(reader.recent, summary)]
      BY <3>1 DEF summary, todo
    <3>6. Len(Append(reader.recent, summary)) <= RecentLimit
      BY <1>1, <3>3, PagesAssumption
    <3>. QED BY <3>3, <3>4, <3>5, <3>6
  <2>2. CASE SkipMissing
    <3>1. reader' = [reader EXCEPT !.todo = Tail(todo)] /\ Gone(Head(todo))
      BY <2>2 DEF SkipMissing, todo
    <3>2. reader' = [reader EXCEPT !.todo = Tail(todo), !.recent = reader.recent]
      BY <1>1, <3>1 DEF Profile
    <3>3. ~Steady(seen, Head(todo)) BY <1>6, <3>1 DEF Gone, Steady
    <3>4. Placed(reader.recent, newest, passed + 1, seen)
      BY <1>1, <1>2, <1>4, <3>3, PlacedMissing
    <3>5. Len(reader.recent) <= RecentLimit BY <1>1, <1>2, PagesAssumption
    <3>. QED BY <1>2, <3>2, <3>4, <3>5
  <2>. QED BY <2>1, <2>2
<1>8. /\ reader' \in Profile /\ reader'.page = "profile" /\ reader'.entries = reader.entries
      /\ reader'.todo = Tail(todo) /\ reader'.recent = recent
  BY <1>1, <1>4, <1>7 DEF Profile
<1>9. \A id \in MatchIds : seen'[id] = seen[id]
  <2>1. reader'.page # "none" /\ Watching BY <1>8 DEF PublicNext
  <2>. QED BY <1>1, <1>5, <2>1, SeenStill
<1>10. \A p \in 1..(passed + 1) : newest[p] \in MatchIds
  <2>1. passed + 1 <= Len(newest) /\ Len(newest) \in Nat BY <1>3, <1>4
  <2>. QED BY <1>3, <1>4, <2>1
<1>11. Placed(recent, newest, passed + 1, seen')
  <2>1. \A id \in MatchIds : seen[id] \subseteq seen'[id] BY <1>9
  <2>. QED BY <1>7, <1>10, <2>1, PlacedStays
<1>12. Reverse(reader'.entries) = newest BY <1>8 DEF newest
<1>. QED BY <1>4, <1>7, <1>8, <1>11, <1>12 DEF ProfileOK

LEMMA ProfileBeside ==
  ASSUME ProfilesInv, PublicNext, reader' = reader
  PROVE  ProfileOK'
<1>. SUFFICES ASSUME reader.page = "profile" PROVE ProfileOK' BY DEF ProfileOK
<1>. DEFINE newest == Reverse(reader.entries)
            passed == Len(Reverse(reader.entries)) - Len(reader.todo)
<1>1. /\ SeenOK /\ reader \in Profile /\ ToPass(reader.todo, newest)
      /\ Placed(reader.recent, newest, passed, seen)
      /\ Len(reader.recent) <= RecentLimit
  BY DEF ProfilesInv, ProfileOK
<1>2. \A id \in MatchIds : seen[id] \subseteq seen'[id]
  <2>1. ~Free /\ reader'.page # "none" /\ Watching BY DEF Free, PublicNext
  <2>. QED BY <1>1, <2>1, SeenGrows
<1>3. newest \in Seq(MatchIds) /\ reader.todo \in Seq(MatchIds)
  BY <1>1, ReversedHistory DEF Profile
<1>. HIDE DEF newest
<1>4. \A p \in 1..(Len(newest) - Len(reader.todo)) : newest[p] \in MatchIds BY <1>3
<1>5. passed = Len(newest) - Len(reader.todo) BY DEF newest
<1>. HIDE DEF passed
<1>6. Placed(reader.recent, newest, passed, seen') BY <1>1, <1>2, <1>4, <1>5, PlacedStays
<1>. QED BY <1>1, <1>6 DEF ProfileOK, newest, passed

LEMMA PagesNext ==
  ASSUME PagesInv, [PublicNext]_publicVars
  PROVE  PagesInv'
<1>1. CASE UNCHANGED publicVars
  BY <1>1 DEF publicVars, store, PagesInv, ReportsInv, ProfilesInv, SeenOK, ReportOK, ProfileOK,
              Copies, Reads, Free
<1>2. CASE PublicNext
  <2>1. SeenOK' BY <1>2, SeenNext DEF PagesInv, ReportsInv
  <2>2. ReportOK' BY <1>2, ReportNext DEF PagesInv, ProfilesInv
  <2>3. history' \in Seq(MatchIds) BY <1>2, HistoryNext DEF PagesInv, ProfilesInv
  <2>4. ProfileOK'
    <3>1. CASE reader' = reader BY <1>2, <3>1, ProfileBeside DEF PagesInv
    <3>2. ASSUME PageStep, UNCHANGED store PROVE ProfileOK'
      <4>1. ASSUME reader'.page # "profile" PROVE ProfileOK' BY <4>1 DEF ProfileOK
      <4>2. CASE BeginProfile BY <4>2, BeginProfileStep DEF PagesInv
      <4>3. CASE LoadRecent \/ SkipMissing BY <1>2, <3>2, <4>3, ProfileGoesOnOK DEF PagesInv
      <4>4. ASSUME NEW kind \in {Telemetry, Capacity, Hub}, BeginReport(kind) PROVE ProfileOK'
        <5>1. reader'.page = "report" BY <4>4 DEF BeginReport
        <5>. QED BY <4>1, <5>1
      <4>5. CASE NextQuery
        <5>1. reader'.page \in {"report", "none"} BY <4>5, ReportGoesOn DEF PagesInv, ReportsInv
        <5>. QED BY <4>1, <5>1
      <4>6. ASSUME NEW id \in MatchIds, CountLoaded(id) \/ LoadGone(id) PROVE ProfileOK'
        <5>1. reader'.page \in {"report", "none"} BY <4>6, ReportGoesOn DEF PagesInv, ReportsInv
        <5>. QED BY <4>1, <5>1
      <4>7. ASSUME NEW id \in MatchIds, Watch(id) PROVE ProfileOK'
        <5>1. reader'.page = "watch" BY <4>7 DEF Watch
        <5>. QED BY <4>1, <5>1
      <4>8. CASE EndPage
        <5>1. reader'.page = "none" BY <4>8 DEF EndPage, NoReader
        <5>. QED BY <4>1, <5>1
      <4>. QED BY <3>2, <4>2, <4>3, <4>4, <4>5, <4>6, <4>7, <4>8 DEF PageStep
    <3>. QED BY <1>2, <3>1, <3>2 DEF PublicNext
  <2>. QED BY <2>1, <2>2, <2>3, <2>4 DEF PagesInv, ReportsInv, ProfilesInv
<1>. QED BY <1>1, <1>2

LEMMA PagesInit == ASSUME PublicInit PROVE PagesInv
<1>1. reader.page = "none" BY DEF PublicInit, NoReader
<1>2. SeenOK BY <1>1 DEF PublicInit, SeenOK, Copies, Reads, Free, Unseen, Missing
<1>3. history \in Seq(MatchIds) BY DEF PublicInit
<1>. QED BY <1>1, <1>2, <1>3 DEF PagesInv, ReportsInv, ProfilesInv, ReportOK, ProfileOK

\* The telemetry, the capacity report and the play hub count matches by loading what
\* three index queries have listed, one after the other.  A report that goes through
\* has each match that rested throughout once or not at all, as its status says,
\* and no match that never was of a status it counts.
THEOREM ReportsCountRight == PublicSpec => []ReportsCountOnce
<1>1. PublicInit => PagesInv BY PagesInit
<1>2. PagesInv /\ [PublicNext]_publicVars => PagesInv' BY PagesNext
<1>3. ASSUME PagesInv PROVE ReportsCountOnce
  <2>. SUFFICES ASSUME Reported, NEW id \in MatchIds
                PROVE  /\ "moved" \notin seen[id] => reader.tally[id] =
                            (IF seen[id] \subseteq reader.kind.counts THEN 1 ELSE 0)
                       /\ seen[id] \cap reader.kind.counts = {} => reader.tally[id] = 0
    BY DEF ReportsCountOnce
  <2>1. /\ SeenOK /\ ReportOK /\ reader.page = "report" /\ reader.queries = << >>
        /\ reader.left[id] = 0 /\ ~Free
    BY <1>3 DEF PagesInv, ReportsInv, Reported, Free
  <2>2. Counted(reader.kind.counts, << >>, 0, reader.tally[id], seen[id])
    BY <2>1 DEF ReportOK
  <2>3. "moved" \notin seen[id] => seen[id] = {table[id]} BY <2>1 DEF SeenOK
  <2>4. Awaited(<< >>) = {} BY ListsAll
  <2>. QED BY <2>2, <2>3, <2>4 DEF Counted
<1>. QED BY <1>1, <1>2, <1>3, PTL DEF PublicSpec

\* A finished page shows places of the history.
LEMMA RecentShown == ASSUME PagesInv PROVE ProfileShowsRecent
<1>. SUFFICES ASSUME ProfileDone PROVE ProfileShowsRecent BY DEF ProfileShowsRecent
<1>. DEFINE newest == Reverse(reader.entries)
            shown  == reader.recent
            todo   == reader.todo
<1>1. /\ reader.page = "profile" /\ reader \in Profile /\ ToPass(todo, newest)
      /\ Len(shown) <= RecentLimit
      /\ Placed(shown, newest, Len(newest) - Len(todo), seen)
  BY DEF PagesInv, ProfilesInv, ProfileOK, ProfileDone
<1>2. todo \in Seq(MatchIds) /\ shown \in Seq(Summaries) /\ newest \in Seq(MatchIds)
  BY <1>1, ReversedHistory DEF Profile
<1>3. todo = << >> \/ Len(shown) = RecentLimit
  <2>1. Len(shown) \in Nat /\ RecentLimit \in Nat BY <1>2, PagesAssumption
  <2>. QED BY <1>1, <2>1 DEF ProfileDone, Assembling
<1>. HIDE DEF newest, shown, todo
<1>. DEFINE passed == Len(newest) - Len(todo)
<1>4. /\ Len(newest) \in Nat /\ Len(todo) \in Nat /\ Len(shown) \in Nat /\ passed \in Nat
      /\ passed <= Len(newest) /\ DOMAIN newest = 1..Len(newest) /\ DOMAIN shown = 1..Len(shown)
  BY <1>1, <1>2 DEF ToPass
<1>5. PICK place \in [1..Len(shown) -> 1..passed] :
        /\ \A k, m \in 1..Len(shown) : k < m => place[k] < place[m]
        /\ \A k \in 1..Len(shown) : shown[k].id = newest[place[k]]
        /\ \A p \in 1..passed : Steady(seen, newest[p]) =>
             \E k \in 1..Len(shown) : place[k] = p
  BY <1>1 DEF Placed
<1>6. todo = << >> => passed = Len(newest) BY <1>4
<1>. HIDE DEF passed
<1>7. place \in [DOMAIN shown -> DOMAIN newest] BY <1>4
<1>8. ASSUME NEW p \in DOMAIN newest, Steady(seen, newest[p])
      PROVE  \/ \E k \in DOMAIN shown : place[k] = p
             \/ Len(shown) = RecentLimit /\ \A k \in DOMAIN shown : place[k] < p
  <2>1. CASE p \in 1..passed BY <1>4, <1>5, <1>8, <2>1
  <2>2. CASE p \notin 1..passed
    <3>1. p > passed BY <1>4, <2>2
    <3>2. \A k \in DOMAIN shown : place[k] < p BY <1>4, <1>5, <3>1
    <3>3. Len(shown) = RecentLimit BY <1>3, <1>4, <1>6, <2>2
    <3>. QED BY <3>2, <3>3
  <2>. QED BY <2>1, <2>2
<1>9. /\ \A k, m \in DOMAIN shown : k < m => place[k] < place[m]
      /\ \A k \in DOMAIN shown : shown[k].id = newest[place[k]]
  BY <1>4, <1>5
<1>. QED BY <1>1, <1>7, <1>8, <1>9 DEF ProfileShowsRecent, Steady, shown, newest

\* The profile page goes through the ledger's history, newest first, and loads match
\* after match until it is full.  What it shows are entries of that history in its
\* order, and a match that stayed in the table is among them unless newer ones have
\* filled the page.
THEOREM ProfilesShowNewest == PublicSpec => []ProfileShowsRecent
<1>1. PublicInit => PagesInv BY PagesInit
<1>2. PagesInv /\ [PublicNext]_publicVars => PagesInv' BY PagesNext
<1>3. PagesInv => ProfileShowsRecent BY RecentShown
<1>. QED BY <1>1, <1>2, <1>3, PTL DEF PublicSpec
=============================================================================
