------------------------------- MODULE SignIn -------------------------------
(***************************************************************************)
(* Signing in with an OAuth provider: league_site.auth.wsgi (with_auth),   *)
(* auth.oauth, auth.sessions, auth._signing, and the accounts they upsert  *)
(* (accounts.store, accounts.aws).                                         *)
(*                                                                         *)
(* The server keeps neither logins nor sessions: the state a browser takes *)
(* to the provider and the session in its cookie are signed tokens, and    *)
(* what they are worth is decided by the clock when they come back.  The   *)
(* callback is a chain of calls to the provider and to DynamoDB; the clock *)
(* runs, other requests run and the process may die between any two.       *)
(* Display names and timestamps of accounts are left out.                  *)
(***************************************************************************)
EXTENDS Integers, Sequences, SequencesExt

CONSTANTS Providers,    \* the providers whose client credentials are configured
          Browsers,     \* browsers, each with one cookie jar
          Subjects,     \* provider user ids
          Addresses,    \* e-mail addresses
          Own,          \* Own[s]: the addresses provider user s has proved to hold
          StateTTL,     \* _STATE_TTL_SECONDS
          SessionTTL,   \* sessions.DEFAULT_TTL_SECONDS
          RequestLimit, \* a Lambda invocation is stopped after this long
          MaxTime,      \* bound: clock readings
          MaxListed,    \* bound: addresses /user/emails lists
          None

ASSUME SignInAssumption ==
  /\ Providers \subseteq {"github", "google"}
  /\ {StateTTL, SessionTTL, RequestLimit, MaxTime, MaxListed} \subseteq Nat
  /\ Own \in [Subjects -> SUBSET Addresses]
  /\ None \notin Addresses

VARIABLES
  account,  \* account[id]: item ACCOUNT#id, NoAccount when there is none
  away,     \* away[b]: the state browser b last took to a provider
  cookie,   \* cookie[b]: the session token b sends with its requests
  visit,    \* visit[b]: the callback or mint request of b in progress
  now,      \* the clock
  denied    \* the accounts operators have blocked, and not unblocked again

vars == <<account, away, cookie, visit, now, denied>>

AccountIds == Providers \X Subjects

\* account_id_for.
AccountOf(identity) == <<identity.provider, identity.subject>>

NoAccount == [blocked |-> None]
NoVisit == [step |-> "idle"]
Idle(b) == visit[b] = NoVisit
Goes(b, next) == visit' = [visit EXCEPT ![b] = next]

-----------------------------------------------------------------------------
(* What the provider tells of a user *)

\* Userinfo replies that parse and carry an id; one about s shows only an address
\* that is s's, or none.
UserInfo(s) == [email : Own[s] \cup {None}]

\* _normalize_github, _normalize_google.
Normalize(provider, s, data) == [provider |-> provider, subject |-> s, email |-> data.email]

Entry == [email : Addresses \cup {None}, primary : BOOLEAN, verified : BOOLEAN]

\* The addresses /user/emails may list for s; the unverified are anybody's.
Lists(s) == {list \in BoundedSeq(Entry, MaxListed) :
               \A k \in DOMAIN list : list[k].verified => list[k].email \in Own[s] \cup {None}}

\* The address of the first of the usable entries.
FirstEmail(list, usable) ==
  IF usable = {} THEN None
  ELSE list[CHOOSE k \in usable : \A j \in usable : k <= j].email

\* Faulty variant: an address nobody has verified will do.
PrimaryEmailUnverified(list) ==
  FirstEmail(list, {k \in DOMAIN list : list[k].primary /\ list[k].email # None})

\* _fetch_github_primary_email: whatever else comes back counts as an empty list.
PrimaryEmail(list) ==
  FirstEmail(list, {k \in DOMAIN list : /\ list[k].primary /\ list[k].verified
                                        /\ list[k].email # None})

-----------------------------------------------------------------------------
(* Signed tokens *)

\* build_state.
State(provider) == [provider |-> provider, issued |-> now]

\* verify_state: minted here, for this provider, and not too long ago.
VerifyState(state, provider) ==
  state # None /\ state.provider = provider /\ now - state.issued \in 0..StateTTL

\* sessions.issue.  left: when the browser left for the provider.
Session(identity, left) ==
  [account |-> AccountOf(identity), expiry |-> now + SessionTTL, left |-> left]

\* Faulty variant: the session still counts in the second it expires.
IsExpiredLate(session) == now > session.expiry

\* Session.is_expired.
IsExpired(session) == now >= session.expiry

\* _read_session: the session a request of b is served under.
ReadSession(b) == IF cookie[b] = None \/ IsExpired(cookie[b]) THEN None ELSE cookie[b]

-----------------------------------------------------------------------------

Init ==
  /\ account = [id \in AccountIds |-> NoAccount]
  /\ away = [b \in Browsers |-> None]
  /\ cookie = [b \in Browsers |-> None]
  /\ visit = [b \in Browsers |-> NoVisit]
  /\ now = 0
  /\ denied = {}

\* GET /auth/login/<provider>; any other provider is refused.
Login(b, provider) ==
  /\ away' = [away EXCEPT ![b] = State(provider)]
  /\ UNCHANGED <<account, cookie, visit, now, denied>>

\* GET /auth/callback/<provider>: s has consented, and the provider has sent the
\* browser back with a code and the state.  400 without a valid state.
Callback(b, provider, s) ==
  /\ Idle(b)
  /\ VerifyState(away[b], provider)
  /\ Goes(b, [step |-> "completing", provider |-> provider, subject |-> s,
              left |-> away[b].issued, began |-> now])
  /\ UNCHANGED <<account, away, cookie, now, denied>>

Identified(v, identity) ==
  [step |-> "upserting", identity |-> identity, left |-> v.left, began |-> v.began]

\* complete_login: the code is exchanged and the profile fetched.  Only a GitHub
\* profile that hides the address leads to another request.
CompleteLogin(b, data) ==
  /\ visit[b].step = "completing"
  /\ LET identity == Normalize(visit[b].provider, visit[b].subject, data)
         step == IF identity.provider = "github" /\ identity.email = None
                   THEN "listing" ELSE "upserting"
     IN  Goes(b, [Identified(visit[b], identity) EXCEPT !.step = step])
  /\ UNCHANGED <<account, away, cookie, now, denied>>

FetchPrimaryEmail(b, list) ==
  /\ visit[b].step = "listing"
  /\ LET identity == [visit[b].identity EXCEPT !.email = PrimaryEmail(list)]
     IN  Goes(b, Identified(visit[b], identity))
  /\ UNCHANGED <<account, away, cookie, now, denied>>

\* OAuthError (400), or an error of the transport that nothing catches (500).
FailCallback(b) ==
  /\ visit[b].step = "completing"
  /\ Goes(b, NoVisit)
  /\ UNCHANGED <<account, away, cookie, now, denied>>

\* Faulty variant: the item is put as a fresh record.
UpsertedAfresh(existing, identity) ==
  [email |-> identity.email, blocked |-> FALSE]

\* upsert: one update_item that leaves blocked alone, absent on an insertion.
Upserted(existing, identity) ==
  [email |-> identity.email, blocked |-> existing # NoAccount /\ existing.blocked]

UpsertAccount(b) ==
  /\ visit[b].step = "upserting"
  /\ LET identity == visit[b].identity IN
       account' = [account EXCEPT ![AccountOf(identity)] = Upserted(@, identity)]
  /\ Goes(b, [visit[b] EXCEPT !.step = "issuing"])
  /\ UNCHANGED <<away, cookie, now, denied>>

\* Faulty variant: the session is issued before the account is upserted.
IssueSessionFirst(b) ==
  /\ visit[b].step \in {"upserting", "issuing"}
  /\ cookie' = [cookie EXCEPT ![b] = Session(visit[b].identity, visit[b].left)]
  /\ Goes(b, NoVisit)
  /\ UNCHANGED <<account, away, now, denied>>

\* The redirect to / that ends the callback sets the cookie.
IssueSession(b) ==
  /\ visit[b].step = "issuing"
  /\ cookie' = [cookie EXCEPT ![b] = Session(visit[b].identity, visit[b].left)]
  /\ Goes(b, NoVisit)
  /\ UNCHANGED <<account, away, now, denied>>

\* GET /auth/logout clears the cookie of this browser.
Logout(b) ==
  /\ cookie[b] # None
  /\ cookie' = [cookie EXCEPT ![b] = None]
  /\ UNCHANGED <<account, away, visit, now, denied>>

IsBlocked(id) == account[id] # NoAccount /\ account[id].blocked

\* POST /auth/agents: 401 without a session, 403 for a blocked account; an account
\* that is not found would be let through.
BeginMint(b) ==
  /\ Idle(b)
  /\ ReadSession(b) # None
  /\ ~IsBlocked(ReadSession(b).account)
  /\ Goes(b, [step |-> "minting", account |-> ReadSession(b).account, began |-> now])
  /\ UNCHANGED <<account, away, cookie, now, denied>>

\* issue_self_serve and the answer: module AgentTokens.
EndMint(b) ==
  /\ visit[b].step = "minting"
  /\ Goes(b, NoVisit)
  /\ UNCHANGED <<account, away, cookie, now, denied>>

\* `accounts block` and `accounts unblock`, on condition that the account exists.
SetBlocked(id, blocked) ==
  /\ account[id] # NoAccount
  /\ account' = [account EXCEPT ![id].blocked = blocked]
  /\ denied' = IF blocked THEN denied \cup {id} ELSE denied \ {id}
  /\ UNCHANGED <<away, cookie, visit, now>>

Die(b) ==
  /\ ~Idle(b)
  /\ Goes(b, NoVisit)
  /\ UNCHANGED <<account, away, cookie, now, denied>>

\* The clock; a request that has run for RequestLimit is stopped before it moves.
Tick ==
  /\ now < MaxTime
  /\ \A b \in Browsers : ~Idle(b) => now - visit[b].began < RequestLimit
  /\ now' = now + 1
  /\ UNCHANGED <<account, away, cookie, visit, denied>>

CallbackStep(b) ==
  \/ \E provider \in Providers, s \in Subjects : Callback(b, provider, s)
  \/ visit[b].step = "completing" /\ \E data \in UserInfo(visit[b].subject) : CompleteLogin(b, data)
  \/ visit[b].step = "listing" /\ \E list \in Lists(visit[b].identity.subject) : FetchPrimaryEmail(b, list)
  \/ FailCallback(b)
  \/ UpsertAccount(b)
  \/ IssueSession(b)

Next ==
  \/ \E b \in Browsers :
       \/ \E provider \in Providers : Login(b, provider)
       \/ CallbackStep(b)
       \/ Logout(b) \/ BeginMint(b) \/ EndMint(b) \/ Die(b)
  \/ \E id \in AccountIds, blocked \in BOOLEAN : SetBlocked(id, blocked)
  \/ Tick

Spec == Init /\ [][Next]_vars

-----------------------------------------------------------------------------
(* Properties *)

Accounts ==
  [email : Addresses \cup {None}, blocked : BOOLEAN]

Steps == {"idle", "completing", "listing", "upserting", "issuing", "minting"}

\* The types of the stores and of the requests in progress.
TypeOK ==
  /\ account \in [AccountIds -> Accounts \cup {NoAccount}]
  /\ now \in 0..MaxTime
  /\ \A b \in Browsers :
       /\ visit[b].step \in Steps
       /\ away[b] # None => away[b].provider \in Providers /\ away[b].issued \in 0..now
       /\ cookie[b] # None => cookie[b].account \in AccountIds /\ cookie[b].left \in 0..now

\* sessions.py: account_store.get(session.account_id) always returns the account
\* of the signed-in human.  However callbacks die, race and meet an operator, no
\* cookie names an account that is not stored.
SessionsHaveAccount ==
  \A b \in Browsers : cookie[b] # None => account[cookie[b].account] # NoAccount

\* A request is served under a session only for a bounded time after its browser
\* went to the provider: the state may be used for StateTTL, the callback may run
\* for RequestLimit, and the session it issues lasts less than SessionTTL.
ServedRecently ==
  \A b \in Browsers : ReadSession(b) # None =>
    now - ReadSession(b).left < StateTTL + RequestLimit + SessionTTL

\* oauth.py: the address recovered is the primary verified one.  The contact
\* address of an account is one its own holder has proved, or none, whatever
\* profile and list the provider answered with in whichever of its sign-ins.
EmailIsOwn ==
  \A id \in AccountIds : account[id] # NoAccount =>
    account[id].email \in Own[id[2]] \cup {None}

\* The accounts and the mints as module AgentTokens has them, which takes an
\* account that is stored and not blocked for a human with a session.
MintOf(v) ==
  LET minting == v.step = "minting" IN
  [step |-> IF minting THEN "admitted" ELSE "idle",
   account |-> IF minting THEN v.account ELSE None,
   name |-> IF minting THEN "agent" ELSE None,
   token |-> None, created |-> 0, flag |-> "none", held |-> {}]

StateOf(item) ==
  IF item = NoAccount THEN "none" ELSE IF item.blocked THEN "blocked" ELSE "open"

NoTokens == [t \in {} |-> None]

Tokens == INSTANCE AgentTokens WITH
  Accounts <- AccountIds, Names <- {"agent"}, TokenIds <- {}, Legacy <- {},
  Callers <- Browsers, HourlyCap <- 1, Window <- 1, LaggingScans <- FALSE,
  account <- [id \in AccountIds |-> StateOf(account[id])],
  token <- NoTokens, replica <- NoTokens,
  call <- [b \in Browsers |-> MintOf(visit[b])],
  now <- 0,
  denied <- {<<"block", id>> : id \in denied}

\* The sign-in flow, seen as accounts and mints, is a behaviour of AgentTokens:
\* no sign-in, however late or repeated, lifts a block, and whoever is let to mint
\* has an account that is stored and not blocked.
KeepsTokensContract == Tokens!Spec
=============================================================================
