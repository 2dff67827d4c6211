--------------------------------- MODULE Site ---------------------------------
(***************************************************************************)
(* How a request to the deployed site finds the surface that answers it,   *)
(* and under whose identity: league_site.aws_lambda, the middlewares that  *)
(* web.http.site_app composes, and the routers of the surfaces.            *)
(*                                                                         *)
(* A path is the sequence of its segments, "/" being <<"">>.  A request is *)
(* [method, stage, path, cookie, token]: whether the path comes with the   *)
(* stage of API Gateway in front, what sessions.verify makes of the        *)
(* league_session cookie ("live", or "stale": expired, or signed           *)
(* otherwise), and whether there is a bearer token.  What a surface does   *)
(* once it has been reached, and whom it refuses for reasons of its own    *)
(* (bodies, caps, the state of the match, blocked tokens), is the matter of*)
(* other modules.                                                          *)
(***************************************************************************)
EXTENDS Naturals, Sequences, SequencesExt

CONSTANTS Docs,      \* slugs of the registered documents
          Rated,     \* slugs of the identities that have a profile
          Providers, \* the OAuth providers that are configured
          Assets,    \* the static files of the shell, as paths
          Md, Json,  \* of each segment that ends in .md, in .json, what stands before that
          ApiRoots   \* the segments that begin with v1

ASSUME SiteAssumption ==
  /\ "index" \in Docs /\ {"docs", "llms.txt", "front"} \cap Docs = {}
  /\ DOMAIN Md \cap {"", "index", "docs", "play", "profiles", "prod"} = {}
  /\ DOMAIN Json \cap Rated = {} /\ "v1" \in ApiRoots

Stage == "prod"

Requests(paths) ==
  [method : {"GET", "HEAD", "POST"}, stage : BOOLEAN, path : paths,
   cookie : {"none", "live", "stale"}, token : BOOLEAN]

\* What the answers depend on besides: whether LEAGUE_SESSION_SECRET is set, the
\* match ids in the store, and those of them that the human and the agent play.
Worlds(ids) ==
  [secret : BOOLEAN, stored : SUBSET ids, human : SUBSET ids, agent : SUBSET ids]

\* by: the layer that answers.  as: whom the answer is given to.
Answer(by, status, as) == [by |-> by, status |-> status, as |-> as, shelled |-> FALSE]

Page(by, status) == Answer(by, status, "anyone")

\* An exception that nothing catches.
Crash == Page("lambda", 500)

Under(path, prefix) == Len(path) > Len(prefix) /\ IsPrefix(prefix, path)

\* Whether path is <<a, id, b>> for some match id.
Names(path, a, b) ==
  /\ Len(path) = Len(a) + 1 + Len(b) /\ path[Len(a) + 1] # ""
  /\ IsPrefix(a, path) /\ IsSuffix(b, path)

-----------------------------------------------------------------------------
(* The documents: http_app around agentfront *)

\* agentfront's own surface, for a method it serves: the catalog at "/", and a
\* document per slug.
Agentfront(path) ==
  IF path \in {<<"">>, <<"llms.txt">>, <<"front">>} \/ (Len(path) = 1 /\ path[1] \in Docs)
    THEN Page("docs", 200) ELSE Page("docs", 404)

WithRootLanding(path) ==
  Agentfront(CASE path = <<"">>     -> <<"index">>
               [] path = <<"docs">> -> <<"">>
               [] OTHER             -> path)

EndsInMd(path) == Last(path) \in DOMAIN Md

HttpApp(path) ==
  WithRootLanding(IF EndsInMd(path) THEN Append(Front(path), Md[Last(path)]) ELSE path)

-----------------------------------------------------------------------------
(* Identities *)

\* with_auth puts the session of the cookie, if it verifies, beside the request.
Session(req) == req.cookie = "live"

\* resolve_identity: a session goes before a token.
Identity(req) == IF Session(req) THEN "human" ELSE IF req.token THEN "agent" ELSE "anyone"

Plays(as, id, w) == (as = "human" /\ id \in w.human) \/ (as = "agent" /\ id \in w.agent)

-----------------------------------------------------------------------------
(* The match API *)

\* Anybody may read; who may write is resolved after the match has been found.
ReadMatch(id, w) == IF id \in w.stored THEN Page("api", 200) ELSE Page("api", 404)

WriteMatch(req, id, w) ==
  IF id \notin w.stored THEN Page("api", 404)
  ELSE IF Plays(Identity(req), id, w) THEN Answer("api", 200, Identity(req))
  ELSE Answer("api", 403, Identity(req))

CreateMatch(req) ==
  Answer("api", IF Identity(req) = "anyone" THEN 401 ELSE 201, Identity(req))

Api == <<"api", "v1">>
ApiMatches == Api \o <<"matches">>

\* _require_method comes first on every route.
OnMethod(by, req, method, answer) == IF req.method = method THEN answer ELSE Page(by, 405)

ApiDispatch(req, w) ==
  LET path == req.path IN
  CASE path = Api \o <<"leaderboard">> ->
         OnMethod("api", req, "GET", Page("api", 200))
    [] path \in {ApiMatches, ApiMatches \o <<"">>} ->
         OnMethod("api", req, "POST", CreateMatch(req))
    [] \E act \in {"turns", "pause", "resume"} : Names(path, ApiMatches, <<act>>) ->
         OnMethod("api", req, "POST", WriteMatch(req, path[4], w))
    [] Names(path, ApiMatches, <<"score">>) \/ Names(path, ApiMatches, << >>) ->
         OnMethod("api", req, "GET", ReadMatch(path[4], w))
    [] OTHER -> Page("api", 404)

\* API_PREFIX ends without a slash: /api/v10 is under it.
UnderApi(path) == Len(path) > 1 /\ path[1] = "api" /\ path[2] \in ApiRoots

WithApi(req, w) ==
  IF UnderApi(req.path) THEN ApiDispatch(req, w) ELSE HttpApp(req.path)

-----------------------------------------------------------------------------
(* The play pages: sessions only *)

Human(req) == IF Session(req) THEN "human" ELSE "anyone"

CreateInBrowser(req) == Answer("play", IF Session(req) THEN 303 ELSE 401, Human(req))

\* Whoever does not play the match is sent to watch it.
ViewMatch(req, id, w) ==
  IF id \notin w.stored THEN Page("play", 404)
  ELSE Answer("play", IF Plays(Human(req), id, w) THEN 200 ELSE 302, Human(req))

\* The outcome of an accepted form is a redirect, too: module BrowserTurn.
SubmitTurn(req, id, w) ==
  IF id \notin w.stored THEN Page("play", 404)
  ELSE IF ~Session(req) THEN Page("play", 401)
  ELSE Answer("play", IF Plays("human", id, w) THEN 303 ELSE 403, "human")

PlayMatches == <<"play", "matches">>

PlayDispatch(req, w) ==
  LET path == req.path IN
  CASE path = <<"play">> ->
         OnMethod("play", req, "GET", Answer("play", 200, Human(req)))
    [] path = PlayMatches ->
         OnMethod("play", req, "POST", CreateInBrowser(req))
    [] Names(path, PlayMatches, <<"turns">>) ->
         OnMethod("play", req, "POST", SubmitTurn(req, path[3], w))
    [] Names(path, PlayMatches, << >>) ->
         OnMethod("play", req, "GET", ViewMatch(req, path[3], w))
    [] OTHER -> Page("play", 404)

WithPlay(req, w) == IF req.path[1] = "play" THEN PlayDispatch(req, w) ELSE WithApi(req, w)

-----------------------------------------------------------------------------
(* Signing in *)

\* Credentials are looked for before the state is signed.
AuthLogin(provider, w) ==
  IF provider \notin Providers THEN Page("auth", 400)
  ELSE IF w.secret THEN Page("auth", 302) ELSE Crash

\* With a code and a state that is not ours; module SignIn has those that are.
AuthCallback(w) == IF w.secret THEN Page("auth", 400) ELSE Crash

MintToken(req) == Answer("auth", IF Session(req) THEN 201 ELSE 401, Human(req))

\* A provider is one segment, and not the empty one.
ForProvider(path, answer) ==
  IF Len(path) = 3 /\ path[3] # "" THEN answer ELSE Page("auth", 404)

AuthRoute(req, w) ==
  LET path == req.path IN
  CASE Under(path, <<"auth", "login">>)    -> ForProvider(path, AuthLogin(path[3], w))
    [] Under(path, <<"auth", "callback">>) -> ForProvider(path, AuthCallback(w))
    [] path = <<"auth", "logout">> -> Page("auth", 302)
    [] path = <<"auth", "agents">> -> OnMethod("auth", req, "POST", MintToken(req))
    [] OTHER -> WithPlay(req, w)

\* The cookie is verified on every request, which takes the secret.
WithAuth(req, w) ==
  IF req.cookie # "none" /\ ~w.secret THEN Crash ELSE AuthRoute(req, w)

-----------------------------------------------------------------------------
(* The shell, and what is mounted before it *)

\* Only documents are markdown; the raw surfaces stay as they are.  The page
\* around a document greets the human who is signed in.
Shelled(req, answer) ==
  IF answer.by = "docs" /\ answer.status = 200 /\ ~EndsInMd(req.path)
       /\ req.path \notin {<<"llms.txt">>, <<"front">>}
    THEN [answer EXCEPT !.shelled = TRUE, !.as = Human(req)] ELSE answer

WithShell(req, w) ==
  IF req.method \in {"GET", "HEAD"} /\ req.path \in Assets THEN Page("static", 200)
  ELSE Shelled(req, WithAuth(req, w))

\* The page of an identity, and its card, badge and JSON.
ProfileRoute(path) ==
  \/ /\ path[2] \in Rated
     /\ SubSeq(path, 3, Len(path)) \in {<< >>, <<"card.svg">>, <<"badge.svg">>}
  \/ Len(path) = 2 /\ path[2] \in DOMAIN Json /\ Json[path[2]] \in Rated

ProfileApp(req) ==
  OnMethod("profiles", req, "GET", Page("profiles", IF ProfileRoute(req.path) THEN 200 ELSE 404))

WithProfiles(req, w) ==
  IF Under(req.path, <<"profiles">>) THEN ProfileApp(req) ELSE WithShell(req, w)

ViewerApp(req, w) ==
  OnMethod("viewer", req, "GET",
    Page("viewer", IF req.path = <<"leaderboard">> \/ req.path[2] \in w.stored THEN 200 ELSE 404))

WithViewer(req, w) ==
  IF Names(req.path, <<"matches">>, <<"watch">>) \/ req.path = <<"leaderboard">>
    THEN ViewerApp(req, w) ELSE WithProfiles(req, w)

\* site_app: what is outermost comes first, and calls the next.
SiteApp(req, w) == WithViewer(req, w)

\* Faulty variant: cookies are let through although there is no secret.
BuildSiteAppBare(req, w) == SiteApp(req, w)

WithoutSessionCookies(req) == [req EXCEPT !.cookie = "none"]

\* Without a secret no session can be verified: the cookie is not let through.
BuildSiteApp(req, w) ==
  SiteApp(IF w.secret THEN req ELSE WithoutSessionCookies(req), w)

\* event_to_environ drops the stage that execute-api puts in front.
StagePath(req) == IF ~req.stage THEN req.path ELSE <<Stage>> \o req.path

AppPath(path) ==
  IF path = <<Stage>> THEN <<"">> ELSE IF path[1] = Stage THEN Tail(path) ELSE path

Handler(req, w) == BuildSiteApp([req EXCEPT !.path = AppPath(StagePath(req))], w)
=============================================================================
