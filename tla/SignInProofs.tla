---------------------------- MODULE SignInProofs ----------------------------
(***************************************************************************)
(* Signing in, for any providers, browsers, users, addresses and time      *)
(* limits: no cookie names an account that is not stored, none is good for *)
(* longer than the three limits together, and an account only ever holds   *)
(* an address its holder has proved.                                       *)
(*                                                                         *)
(* A token in a browser's hand is checked by the clock alone, so the       *)
(* argument carries two bounds through the callback: how long the state    *)
(* was under way when the callback began, and how long the callback has    *)
(* been running.  Accounts are never deleted, so the one a callback has    *)
(* upserted is still there when it issues the session.                     *)
(*                                                                         *)
(* The steps also keep the contract of accounts and tokens (AgentTokens),  *)
(* each being one of its operations or none.                               *)
(***************************************************************************)
EXTENDS SignIn, WellFoundedInduction, TLAPS

-----------------------------------------------------------------------------
(* What a request in progress is *)

Identity ==
  [provider : Providers, subject : Subjects, email : Addresses \cup {None}]

Completing ==
  [step : {"completing"}, provider : Providers, subject : Subjects, left : Nat, began : Nat]

Identifying ==
  [step : {"listing", "upserting", "issuing"}, identity : Identity, left : Nat, began : Nat]

Minting == [step : {"minting"}, account : AccountIds, began : Nat]

OwnEmail(email, s) == email \in Own[s] \cup {None}

\* A callback began soon enough after its browser had left.
LeftInTime(v) == v.left <= v.began /\ v.began - v.left <= StateTTL

\* v runs under its limit at time n, with the accounts as stored.
VisitOK(v, n, accounts) ==
  \/ v = NoVisit
  \/ /\ v \in Completing \cup Identifying \cup Minting
     /\ v.began <= n /\ n - v.began <= RequestLimit
     /\ v \in Completing \cup Identifying => LeftInTime(v)
     /\ v \in Identifying =>
          /\ OwnEmail(v.identity.email, v.identity.subject)
          /\ v.step = "issuing" => accounts[AccountOf(v.identity)] # NoAccount

\* The longest time from the departure for the provider to the session's expiry.
Limit == StateTTL + RequestLimit + SessionTTL

CookieOK(session, n, accounts) ==
  session = None \/
    /\ session \in [account : AccountIds, expiry : Nat, left : Nat]
    /\ session.left <= n /\ session.expiry <= session.left + Limit
    /\ accounts[session.account] # NoAccount

StateOK(state, n) ==
  state = None \/ (state \in [provider : Providers, issued : Nat] /\ state.issued <= n)

AccountOK(id, item) ==
  item = NoAccount \/ (item \in Accounts /\ OwnEmail(item.email, id[2]))

SignInInv ==
  /\ account \in [AccountIds -> Accounts \cup {NoAccount}] /\ DOMAIN away = Browsers
  /\ DOMAIN cookie = Browsers /\ DOMAIN visit = Browsers
  /\ now \in 0..MaxTime
  /\ \A id \in AccountIds : AccountOK(id, account[id])
  /\ \A b \in Browsers :
       /\ StateOK(away[b], now)
       /\ VisitOK(visit[b], now, account)
       /\ CookieOK(cookie[b], now, account)

-----------------------------------------------------------------------------
(* Helpers *)

LEMMA LimitsAreNat ==
  /\ StateTTL \in Nat /\ SessionTTL \in Nat /\ RequestLimit \in Nat /\ MaxTime \in Nat
  /\ Limit \in Nat
BY SignInAssumption DEF Limit

LEMMA LeastElement ==
  ASSUME NEW S \in SUBSET Nat, S # {}
  PROVE  \E k \in S : \A j \in S : k <= j
<1>1. PICK k \in S : \A j \in S : <<j, k>> \notin OpToRel(<, Nat)
  BY NatLessThanWellFounded, WFMin
<1>2. ASSUME NEW j \in S, j < k PROVE FALSE
  <2>1. <<j, k>> \in Nat \X Nat /\ <<j, k>>[1] < <<j, k>>[2] BY <1>2
  <2>2. <<j, k>> \in {p \in Nat \X Nat : p[1] < p[2]} BY <2>1, Zenon
  <2>. QED BY <1>1, <2>2, Zenon DEF OpToRel
<1>. QED BY <1>2

\* What is recovered is one of the listed addresses that the owner has verified.
LEMMA PrimaryIsOwn ==
  ASSUME NEW s \in Subjects, NEW list, DOMAIN list \subseteq Nat,
         \A k \in DOMAIN list : list[k].verified => OwnEmail(list[k].email, s)
  PROVE  OwnEmail(PrimaryEmail(list), s)
<1>. DEFINE usable == {k \in DOMAIN list : /\ list[k].primary /\ list[k].verified
                                           /\ list[k].email # None}
<1>1. CASE usable = {} BY <1>1 DEF PrimaryEmail, FirstEmail, OwnEmail
<1>2. CASE usable # {}
  <2>1. usable \in SUBSET Nat OBVIOUS
  <2>2. \A k \in usable : OwnEmail(list[k].email, s) OBVIOUS
  <2>3. PrimaryEmail(list) = list[CHOOSE k \in usable : \A j \in usable : k <= j].email
    BY <1>2 DEF PrimaryEmail, FirstEmail
  <2>. HIDE DEF usable
  <2>4. (CHOOSE k \in usable : \A j \in usable : k <= j) \in usable
    BY <1>2, <2>1, LeastElement
  <2>. QED BY <2>2, <2>3, <2>4
<1>. QED BY <1>1, <1>2

LEMMA ListsOwn ==
  ASSUME NEW s \in Subjects, NEW list \in Lists(s)
  PROVE  /\ DOMAIN list \subseteq Nat
         /\ \A k \in DOMAIN list : list[k].verified => OwnEmail(list[k].email, s)
BY SignInAssumption DEF Lists, OwnEmail, BoundedSeq, SeqOf

LEMMA AccountsAreItems == ASSUME NEW item \in Accounts PROVE item # NoAccount
BY DEF Accounts, NoAccount

LEMMA AccountOfType ==
  ASSUME NEW identity \in Identity
  PROVE  AccountOf(identity) \in AccountIds /\ AccountOf(identity)[2] = identity.subject
BY DEF Identity, AccountOf, AccountIds

\* Accounts that stay are there for every request and cookie that relies on them.
LEMMA AccountsStay ==
  ASSUME NEW accounts, NEW later, NEW n,
         \A id \in AccountIds : accounts[id] # NoAccount => later[id] # NoAccount
  PROVE  /\ \A v : VisitOK(v, n, accounts) => VisitOK(v, n, later)
         /\ \A s : CookieOK(s, n, accounts) => CookieOK(s, n, later)
<1>1. ASSUME NEW v, VisitOK(v, n, accounts) PROVE VisitOK(v, n, later)
  <2>1. v \in Identifying => AccountOf(v.identity) \in AccountIds
    BY AccountOfType DEF Identifying
  <2>. QED BY <1>1, <2>1 DEF VisitOK
<1>2. ASSUME NEW s, CookieOK(s, n, accounts) PROVE CookieOK(s, n, later)
  BY <1>2 DEF CookieOK
<1>. QED BY <1>1, <1>2

\* A step of b's request to next, which may write b's cookie but no account.
LEMMA VisitStep ==
  ASSUME SignInInv, NEW b \in Browsers, NEW next, Goes(b, next), VisitOK(next, now, account),
         UNCHANGED <<account, away, cookie, now>>
  PROVE  SignInInv'
BY DEF SignInInv, Goes

LEMMA EndOfVisit ==
  ASSUME SignInInv, NEW b \in Browsers, Goes(b, NoVisit), UNCHANGED <<account, away, cookie, now>>
  PROVE  SignInInv'
BY VisitStep DEF VisitOK

-----------------------------------------------------------------------------
(* The steps *)

LEMMA LoginInv ==
  ASSUME SignInInv, NEW b \in Browsers, NEW provider \in Providers, Login(b, provider)
  PROVE  SignInInv'
<1>1. StateOK(State(provider), now) BY DEF SignInInv, StateOK, State
<1>. QED BY <1>1 DEF SignInInv, Login

LEMMA CallbackInv ==
  ASSUME SignInInv, NEW b \in Browsers, NEW provider \in Providers, NEW s \in Subjects,
         Callback(b, provider, s)
  PROVE  SignInInv'
<1>. DEFINE next == [step |-> "completing", provider |-> provider, subject |-> s,
                     left |-> away[b].issued, began |-> now]
<1>1. /\ away[b].issued \in Nat /\ now \in Nat /\ away[b].issued <= now
      /\ now - away[b].issued <= StateTTL
  BY LimitsAreNat DEF Callback, VerifyState, SignInInv, StateOK
<1>2. next \in Completing BY <1>1 DEF Completing
<1>3. next.began <= now /\ now - next.began <= RequestLimit /\ LeftInTime(next)
  BY <1>1, LimitsAreNat DEF LeftInTime
<1>4. next \notin Identifying BY DEF Identifying
<1>5. Goes(b, next) /\ UNCHANGED <<account, away, cookie, now>> BY DEF Callback
<1>. HIDE DEF next
<1>6. VisitOK(next, now, account) BY <1>2, <1>3, <1>4 DEF VisitOK
<1>. QED BY <1>5, <1>6, VisitStep

\* The request of a callback past its guard.
LEMMA AtStep ==
  ASSUME SignInInv, NEW b \in Browsers
  PROVE  LET v == visit[b] IN
         /\ VisitOK(v, now, account)
         /\ v.step = "completing" => v \in Completing /\ v \notin Identifying
         /\ v.step \in {"listing", "upserting", "issuing"} => v \in Identifying
         /\ v.step \in {"completing", "listing", "upserting", "issuing"} =>
              LeftInTime(v) /\ v.began <= now /\ now - v.began <= RequestLimit
BY DEF SignInInv, VisitOK, NoVisit, Completing, Identifying, Minting

\* A callback that goes on with an identity of its own.
LEMMA Identifies ==
  ASSUME SignInInv, NEW v, LeftInTime(v), v.began <= now, now - v.began <= RequestLimit,
         v.left \in Nat, v.began \in Nat,
         NEW step \in {"listing", "upserting", "issuing"}, NEW identity \in Identity,
         OwnEmail(identity.email, identity.subject),
         step = "issuing" => account[AccountOf(identity)] # NoAccount
  PROVE  VisitOK([step |-> step, identity |-> identity, left |-> v.left, began |-> v.began],
                 now, account)
<1>. DEFINE next == [step |-> step, identity |-> identity, left |-> v.left, began |-> v.began]
<1>1. next \in Identifying BY DEF Identifying
<1>2. /\ next.step = step /\ next.identity = identity
      /\ next.left = v.left /\ next.began = v.began
  OBVIOUS
<1>. HIDE DEF next
<1>3. VisitOK(next, now, account) BY <1>1, <1>2 DEF VisitOK, LeftInTime
<1>. QED BY <1>3 DEF next

LEMMA CompleteLoginInv ==
  ASSUME SignInInv, NEW b \in Browsers, visit[b].step = "completing",
         NEW data \in UserInfo(visit[b].subject), CompleteLogin(b, data)
  PROVE  SignInInv'
<1>. DEFINE v == visit[b]
            identity == Normalize(v.provider, v.subject, data)
<1>1. /\ v \in Completing /\ LeftInTime(v) /\ v.began <= now /\ now - v.began <= RequestLimit
  BY AtStep
<1>2. v.provider \in Providers /\ v.subject \in Subjects /\ v.left \in Nat /\ v.began \in Nat
  BY <1>1 DEF Completing
<1>3. data.email \in Own[v.subject] \cup {None} BY DEF UserInfo
<1>4. Own[v.subject] \subseteq Addresses BY <1>2, SignInAssumption
<1>5. identity \in Identity /\ OwnEmail(identity.email, identity.subject)
  BY <1>2, <1>3, <1>4 DEF Normalize, Identity, OwnEmail
<1>6. PICK step \in {"listing", "upserting"} :
        Goes(b, [Identified(v, identity) EXCEPT !.step = step])
  BY DEF CompleteLogin
<1>. HIDE DEF identity
<1>7. [Identified(v, identity) EXCEPT !.step = step]
        = [step |-> step, identity |-> identity, left |-> v.left, began |-> v.began]
  BY DEF Identified
<1>8. VisitOK([step |-> step, identity |-> identity, left |-> v.left, began |-> v.began],
              now, account)
  BY <1>1, <1>2, <1>5, Identifies
<1>. QED BY <1>6, <1>7, <1>8, VisitStep DEF CompleteLogin

LEMMA FetchPrimaryEmailInv ==
  ASSUME SignInInv, NEW b \in Browsers, visit[b].step = "listing",
         NEW list \in Lists(visit[b].identity.subject), FetchPrimaryEmail(b, list)
  PROVE  SignInInv'
<1>. DEFINE v == visit[b]
            s == v.identity.subject
            email == PrimaryEmail(list)
            identity == [v.identity EXCEPT !.email = email]
            next == [step |-> "upserting", identity |-> identity, left |-> v.left, began |-> v.began]
<1>1. v \in Identifying /\ LeftInTime(v) /\ v.began <= now /\ now - v.began <= RequestLimit
  BY AtStep
<1>2. v.identity \in Identity /\ v.left \in Nat /\ v.began \in Nat BY <1>1 DEF Identifying
<1>3. s \in Subjects /\ v.identity.provider \in Providers BY <1>2 DEF Identity
<1>4. OwnEmail(email, s) BY <1>3, ListsOwn, PrimaryIsOwn
<1>5. email \in Addresses \cup {None} BY <1>3, <1>4, SignInAssumption DEF OwnEmail
<1>. HIDE DEF email
<1>6. identity \in Identity /\ OwnEmail(identity.email, identity.subject)
  BY <1>2, <1>4, <1>5 DEF Identity
<1>7. Goes(b, next) /\ UNCHANGED <<account, away, cookie, now>>
  BY DEF FetchPrimaryEmail, Identified, email
<1>. HIDE DEF identity
<1>8. VisitOK(next, now, account) BY <1>1, <1>2, <1>6, Identifies
<1>. HIDE DEF next
<1>. QED BY <1>7, <1>8, VisitStep

LEMMA UpsertAccountInv ==
  ASSUME SignInInv, NEW b \in Browsers, UpsertAccount(b)
  PROVE  SignInInv'
<1>. DEFINE v == visit[b]
            id == AccountOf(v.identity)
            item == Upserted(account[id], v.identity)
            next == [v EXCEPT !.step = "issuing"]
<1>1. v.step = "upserting" BY DEF UpsertAccount
<1>2. v \in Identifying /\ LeftInTime(v) /\ v.began <= now /\ now - v.began <= RequestLimit
  BY <1>1, AtStep
<1>3. /\ v.identity \in Identity /\ v.left \in Nat /\ v.began \in Nat
      /\ OwnEmail(v.identity.email, v.identity.subject)
  BY <1>2, AtStep DEF Identifying, VisitOK, NoVisit
<1>4. id \in AccountIds /\ id[2] = v.identity.subject BY <1>3, AccountOfType
<1>5. item \in Accounts
  <2>1. account[id] # NoAccount => account[id].blocked \in BOOLEAN
    BY <1>4 DEF SignInInv, AccountOK, Accounts
  <2>2. v.identity.email \in Addresses \cup {None} BY <1>3 DEF Identity
  <2>. HIDE DEF id
  <2>. QED BY <2>1, <2>2 DEF Upserted, Accounts
<1>6. AccountOK(id, item) /\ item # NoAccount
  <2>1. item.email = v.identity.email BY DEF Upserted
  <2>. QED BY <1>3, <1>4, <1>5, <2>1, AccountsAreItems DEF AccountOK
<1>7. account' = [account EXCEPT ![id] = item] /\ Goes(b, next) /\ UNCHANGED <<away, cookie, now>>
  BY DEF UpsertAccount
<1>8. next = [step |-> "issuing", identity |-> v.identity, left |-> v.left, began |-> v.began]
  BY <1>2 DEF Identifying
<1>. HIDE DEF id, item, next
<1>9. /\ account' \in [AccountIds -> Accounts \cup {NoAccount}] /\ account'[id] # NoAccount
      /\ \A i \in AccountIds : account'[i] = IF i = id THEN item ELSE account[i]
  BY <1>4, <1>5, <1>6, <1>7 DEF SignInInv
<1>10. \A i \in AccountIds : account[i] # NoAccount => account'[i] # NoAccount
  BY <1>6, <1>9
<1>11. VisitOK(next, now, account')
  <2>1. next \in Identifying BY <1>3, <1>8 DEF Identifying
  <2>2. AccountOf(next.identity) = id BY <1>8 DEF id
  <2>. QED BY <1>2, <1>3, <1>8, <1>9, <2>1, <2>2 DEF VisitOK, LeftInTime
<1>12. \A d \in Browsers : VisitOK(visit[d], now, account') /\ CookieOK(cookie[d], now, account')
  BY <1>10, AccountsStay DEF SignInInv
<1>13. \A i \in AccountIds : AccountOK(i, account'[i]) BY <1>6, <1>9 DEF SignInInv
<1>. QED BY <1>7, <1>9, <1>11, <1>12, <1>13 DEF SignInInv, Goes

LEMMA IssueSessionInv ==
  ASSUME SignInInv, NEW b \in Browsers, IssueSession(b)
  PROVE  SignInInv'
<1>. DEFINE v == visit[b]
            session == Session(v.identity, v.left)
<1>1. v.step = "issuing" BY DEF IssueSession
<1>2. v \in Identifying /\ LeftInTime(v) /\ v.began <= now /\ now - v.began <= RequestLimit
  BY <1>1, AtStep
<1>3. /\ v.identity \in Identity /\ v.left \in Nat /\ v.began \in Nat
      /\ account[AccountOf(v.identity)] # NoAccount
  BY <1>1, <1>2, AtStep DEF Identifying, VisitOK, NoVisit
<1>4. AccountOf(v.identity) \in AccountIds BY <1>3, AccountOfType
<1>5. /\ session.account = AccountOf(v.identity) /\ session.left = v.left
      /\ session.expiry = now + SessionTTL
      /\ session \in [account : AccountIds, expiry : Nat, left : Nat]
  BY <1>3, <1>4, LimitsAreNat DEF Session, SignInInv
<1>6. v.left <= now /\ now + SessionTTL <= v.left + Limit
  BY <1>2, <1>3, LimitsAreNat DEF LeftInTime, Limit, SignInInv
<1>7. CookieOK(session, now, account) BY <1>3, <1>5, <1>6 DEF CookieOK
<1>8. /\ cookie' = [cookie EXCEPT ![b] = session] /\ Goes(b, NoVisit)
      /\ UNCHANGED <<account, away, now>>
  BY DEF IssueSession
<1>. HIDE DEF session
<1>9. VisitOK(NoVisit, now, account) BY DEF VisitOK
<1>. QED BY <1>7, <1>8, <1>9 DEF SignInInv, Goes

LEMMA LogoutInv ==
  ASSUME SignInInv, NEW b \in Browsers, Logout(b) PROVE SignInInv'
BY DEF Logout, SignInInv, CookieOK

LEMMA BeginMintInv ==
  ASSUME SignInInv, NEW b \in Browsers, BeginMint(b)
  PROVE  SignInInv'
<1>. DEFINE next == [step |-> "minting", account |-> cookie[b].account, began |-> now]
<1>1. cookie[b] # None /\ ReadSession(b) = cookie[b] BY DEF BeginMint, ReadSession
<1>2. cookie[b].account \in AccountIds BY <1>1 DEF SignInInv, CookieOK
<1>3. now \in Nat BY LimitsAreNat DEF SignInInv
<1>4. next \in Minting /\ next \notin Completing /\ next \notin Identifying
  BY <1>2, <1>3 DEF Minting, Completing, Identifying
<1>5. next.began = now OBVIOUS
<1>6. Goes(b, next) /\ UNCHANGED <<account, away, cookie, now>> BY <1>1 DEF BeginMint
<1>. HIDE DEF next
<1>7. VisitOK(next, now, account) BY <1>3, <1>4, <1>5, LimitsAreNat DEF VisitOK
<1>. QED BY <1>6, <1>7, VisitStep

LEMMA SetBlockedInv ==
  ASSUME SignInInv, NEW id \in AccountIds, NEW blocked \in BOOLEAN, SetBlocked(id, blocked)
  PROVE  SignInInv'
<1>. DEFINE item == [account[id] EXCEPT !.blocked = blocked]
<1>1. account[id] \in Accounts /\ OwnEmail(account[id].email, id[2])
  BY DEF SetBlocked, SignInInv, AccountOK
<1>2. item \in Accounts /\ item.email = account[id].email BY <1>1 DEF Accounts
<1>3. account' = [account EXCEPT ![id] = item] /\ UNCHANGED <<away, cookie, visit, now>>
  BY <1>1 DEF SetBlocked, SignInInv
<1>. HIDE DEF item
<1>4. AccountOK(id, item) /\ item # NoAccount
  BY <1>1, <1>2, AccountsAreItems DEF AccountOK
<1>5. /\ account' \in [AccountIds -> Accounts \cup {NoAccount}]
      /\ \A i \in AccountIds : account'[i] = IF i = id THEN item ELSE account[i]
  BY <1>2, <1>3 DEF SignInInv
<1>6. \A i \in AccountIds : account[i] # NoAccount => account'[i] # NoAccount
  BY <1>4, <1>5
<1>7. \A d \in Browsers : VisitOK(visit[d], now, account') /\ CookieOK(cookie[d], now, account')
  BY <1>6, AccountsStay DEF SignInInv
<1>. QED BY <1>3, <1>4, <1>5, <1>7 DEF SignInInv

\* A request is stopped before the clock takes it past its limit.
LEMMA TickInv == ASSUME SignInInv, Tick PROVE SignInInv'
<1>1. now \in Nat /\ now' = now + 1 /\ now' \in 0..MaxTime /\ UNCHANGED <<account, away, cookie, visit>>
  BY LimitsAreNat DEF Tick, SignInInv
<1>2. ASSUME NEW b \in Browsers PROVE StateOK(away[b], now')
  BY <1>1 DEF SignInInv, StateOK
<1>3. ASSUME NEW b \in Browsers PROVE CookieOK(cookie[b], now', account)
  BY <1>1 DEF SignInInv, CookieOK
<1>4. ASSUME NEW b \in Browsers PROVE VisitOK(visit[b], now', account)
  <2>1. CASE visit[b] = NoVisit BY <2>1 DEF VisitOK
  <2>2. CASE visit[b] # NoVisit
    <3>1. now - visit[b].began < RequestLimit BY <2>2 DEF Tick, Idle
    <3>2. VisitOK(visit[b], now, account) BY DEF SignInInv
    <3>3. visit[b].began \in Nat BY <2>2, <3>2 DEF VisitOK, Completing, Identifying, Minting
    <3>4. visit[b].began <= now' /\ now' - visit[b].began <= RequestLimit
      BY <1>1, <2>2, <3>1, <3>2, <3>3, LimitsAreNat DEF VisitOK
    <3>. QED BY <2>2, <3>2, <3>4 DEF VisitOK
  <2>. QED BY <2>1, <2>2
<1>. QED BY <1>1, <1>2, <1>3, <1>4 DEF SignInInv

-----------------------------------------------------------------------------
(* The theorems *)

LEMMA SignInStarts == Init => SignInInv
<1>1. Init => now \in 0..MaxTime BY LimitsAreNat DEF Init
<1>. QED BY <1>1 DEF Init, SignInInv, AccountOK, StateOK, VisitOK, CookieOK

LEMMA SignInSteps == ASSUME SignInInv, [Next]_vars PROVE SignInInv'
<1>1. ASSUME NEW b \in Browsers, CallbackStep(b) PROVE SignInInv'
  <2>1. CASE FailCallback(b) BY <2>1, EndOfVisit DEF FailCallback
  <2>. QED BY <1>1, <2>1, CallbackInv, CompleteLoginInv, FetchPrimaryEmailInv,
              UpsertAccountInv, IssueSessionInv DEF CallbackStep
<1>2. ASSUME NEW b \in Browsers, EndMint(b) \/ Die(b) PROVE SignInInv'
  BY <1>2, EndOfVisit DEF EndMint, Die
<1>3. CASE UNCHANGED vars BY <1>3 DEF vars, SignInInv
<1>. QED BY <1>1, <1>2, <1>3, LoginInv, LogoutInv, BeginMintInv, SetBlockedInv, TickInv DEF Next

LEMMA SignInInvariant == Spec => []SignInInv
BY SignInStarts, SignInSteps, PTL DEF Spec

\* The types of accounts, cookies and callbacks in progress (auth/wsgi.py).
THEOREM SignInTypeCorrect == Spec => []TypeOK
<1>1. ASSUME SignInInv PROVE TypeOK
  <2>1. now \in Nat BY <1>1, LimitsAreNat DEF SignInInv
  <2>2. ASSUME NEW b \in Browsers
        PROVE  /\ visit[b].step \in Steps
               /\ away[b] # None => away[b].provider \in Providers /\ away[b].issued \in 0..now
               /\ cookie[b] # None => cookie[b].account \in AccountIds /\ cookie[b].left \in 0..now
    <3>1. visit[b].step \in Steps
      BY <1>1 DEF SignInInv, VisitOK, NoVisit, Completing, Identifying, Minting, Steps
    <3>2. away[b] # None => away[b].provider \in Providers /\ away[b].issued \in 0..now
      BY <1>1, <2>1 DEF SignInInv, StateOK
    <3>3. cookie[b] # None => cookie[b].account \in AccountIds /\ cookie[b].left \in 0..now
      BY <1>1, <2>1 DEF SignInInv, CookieOK
    <3>. QED BY <3>1, <3>2, <3>3
  <2>. QED BY <1>1, <2>2 DEF TypeOK, SignInInv
<1>. QED BY <1>1, SignInInvariant, PTL

\* sessions.py: the account of a signed-in human is always there.  The callback upserts
\* before it issues the cookie, and nothing deletes an account.
THEOREM SessionsKeepAccount == Spec => []SessionsHaveAccount
<1>1. SignInInv => SessionsHaveAccount
  BY DEF SignInInv, CookieOK, SessionsHaveAccount
<1>. QED BY <1>1, SignInInvariant, PTL

\* No request is served under a session for longer after its browser went to the
\* provider than the three limits of oauth.py, the invocation and sessions.py allow.
THEOREM SessionsExpire == Spec => []ServedRecently
<1>1. ASSUME SignInInv PROVE ServedRecently
  <2>1. SUFFICES ASSUME NEW b \in Browsers, ReadSession(b) # None
                 PROVE  now - ReadSession(b).left < Limit
    BY DEF ServedRecently, Limit
  <2>2. cookie[b] # None /\ ~IsExpired(cookie[b]) /\ ReadSession(b) = cookie[b]
    BY <2>1 DEF ReadSession
  <2>3. now \in Nat BY <1>1, LimitsAreNat DEF SignInInv
  <2>4. /\ cookie[b].expiry \in Nat /\ cookie[b].left \in Nat
        /\ cookie[b].expiry <= cookie[b].left + Limit
    BY <1>1, <2>2 DEF SignInInv, CookieOK
  <2>. QED BY <2>2, <2>3, <2>4, LimitsAreNat DEF IsExpired
<1>. QED BY <1>1, SignInInvariant, PTL

\* oauth.py: the contact address of an account is one its own holder has proved, or none.
THEOREM EmailsAreOwn == Spec => []EmailIsOwn
<1>1. SignInInv => EmailIsOwn
  BY DEF SignInInv, AccountOK, OwnEmail, EmailIsOwn
<1>. QED BY <1>1, SignInInvariant, PTL

-----------------------------------------------------------------------------
(* The refinement of AgentTokens *)

States == [id \in AccountIds |-> StateOf(account[id])]
Mints == [b \in Browsers |-> MintOf(visit[b])]
Denials == {<<"block", id>> : id \in denied}

LEMMA TokensStutter ==
  ASSUME UNCHANGED <<States, Mints, Denials>>
  PROVE  UNCHANGED Tokens!vars
BY DEF Tokens!vars, States, Mints, Denials, NoTokens

\* What a visit other than a mint is to AgentTokens.
LEMMA NoMint ==
  ASSUME NEW v, v.step # "minting" PROVE MintOf(v) = Tokens!NoCall
BY DEF MintOf, Tokens!NoCall

LEMMA MintsFollow ==
  ASSUME SignInInv, NEW b \in Browsers, NEW next, Goes(b, next)
  PROVE  Mints' = [Mints EXCEPT ![b] = MintOf(next)]
<1>1. visit' = [visit EXCEPT ![b] = next] /\ DOMAIN visit = Browsers
  BY DEF Goes, SignInInv
<1>. QED BY <1>1 DEF Mints

\* A visit that goes on outside of minting.
LEMMA OutsideMints ==
  ASSUME SignInInv, NEW b \in Browsers, visit[b].step # "minting",
         NEW next, next.step # "minting", Goes(b, next)
  PROVE  Mints' = Mints
<1>1. MintOf(next) = Mints[b] BY NoMint DEF Mints
<1>2. Mints = [d \in Browsers |-> Mints[d]] BY DEF Mints
<1>. QED BY <1>1, <1>2, MintsFollow

LEMMA VisitOutside ==
  ASSUME SignInInv, NEW b \in Browsers, visit[b].step # "minting",
         NEW next, next.step # "minting", Goes(b, next), UNCHANGED <<account, denied>>
  PROVE  UNCHANGED Tokens!vars
BY OutsideMints, TokensStutter DEF States, Denials

LEMMA UpsertSignsIn ==
  ASSUME SignInInv, NEW b \in Browsers, UpsertAccount(b) PROVE Tokens!Next
<1>. DEFINE identity == visit[b].identity
            id == AccountOf(identity)
            item == Upserted(account[id], identity)
            next == [visit[b] EXCEPT !.step = "issuing"]
<1>1. visit[b] \in Identifying BY DEF SignInInv, VisitOK, UpsertAccount, NoVisit, Completing, Minting
<1>2. id \in AccountIds /\ visit[b].step = "upserting" /\ next.step = "issuing"
  BY <1>1, AccountOfType DEF Identifying, UpsertAccount
<1>3. /\ account' = [account EXCEPT ![id] = item] /\ Goes(b, next) /\ UNCHANGED denied
      /\ account \in [AccountIds -> Accounts \cup {NoAccount}]
  BY DEF UpsertAccount, SignInInv
<1>4. StateOf(item) = IF StateOf(account[id]) = "none" THEN "open" ELSE StateOf(account[id])
  <2>1. item # NoAccount /\ item.blocked = (account[id] # NoAccount /\ account[id].blocked)
    BY DEF Upserted, NoAccount
  <2>2. account[id] = NoAccount \/ account[id].blocked \in BOOLEAN
    BY <1>2, <1>3 DEF Accounts
  <2>. HIDE DEF item, id
  <2>. QED BY <2>1, <2>2 DEF StateOf
<1>. HIDE DEF next, item, id
<1>5. Mints' = Mints BY <1>2, <1>3, OutsideMints
<1>6. States' = [States EXCEPT ![id] = IF @ = "none" THEN "open" ELSE @]
  BY <1>2, <1>3, <1>4 DEF States
<1>7. Tokens!SignIn(id) BY <1>3, <1>5, <1>6 DEF Tokens!SignIn, States, Mints, NoTokens
<1>. QED BY <1>2, <1>7 DEF Tokens!Next

LEMMA AdmittedCall ==
  ASSUME NEW id
  PROVE  [Tokens!NoCall EXCEPT !.step = "admitted", !.account = id, !.name = "agent"]
           = [step |-> "admitted", account |-> id, name |-> "agent", token |-> None,
              created |-> 0, flag |-> "none", held |-> {}]
<1>. DEFINE k == Tokens!NoCall
            admitted == [k EXCEPT !.step = "admitted", !.account = id, !.name = "agent"]
            fields == {"step", "account", "name", "token", "created", "flag", "held"}
<1>1. /\ k = [f \in fields |-> k[f]]
      /\ k.token = None /\ k.created = 0 /\ k.flag = "none" /\ k.held = {}
  BY DEF Tokens!NoCall
<1>. HIDE DEF k
<1>2. /\ admitted = [f \in fields |-> admitted[f]]
      /\ admitted.step = "admitted" /\ admitted.account = id /\ admitted.name = "agent"
      /\ admitted.token = None /\ admitted.created = 0 /\ admitted.flag = "none"
      /\ admitted.held = {}
  BY <1>1
<1>. HIDE DEF admitted
<1>3. admitted = [step |-> "admitted", account |-> id, name |-> "agent", token |-> None,
                  created |-> 0, flag |-> "none", held |-> {}]
  BY <1>2
<1>. QED BY <1>3 DEF admitted, k

LEMMA MintBegins ==
  ASSUME SignInInv, NEW b \in Browsers, BeginMint(b) PROVE Tokens!Next
<1>. DEFINE id == cookie[b].account
            next == [step |-> "minting", account |-> id, began |-> now]
<1>1. cookie[b] # None /\ ReadSession(b) = cookie[b] BY DEF BeginMint, ReadSession
<1>2. id \in AccountIds /\ account[id] # NoAccount BY <1>1 DEF SignInInv, CookieOK
<1>3. ~IsBlocked(id) /\ Goes(b, next) /\ visit[b] = NoVisit /\ UNCHANGED <<account, denied>>
  BY <1>1 DEF BeginMint, Idle
<1>4. States[id] = "open" BY <1>2, <1>3 DEF States, StateOf, IsBlocked
<1>5. Mints[b] = Tokens!NoCall BY <1>3, NoMint DEF NoVisit, Mints
<1>6. MintOf(next) = [Tokens!NoCall EXCEPT !.step = "admitted", !.account = id, !.name = "agent"]
  <2>1. next.step = "minting" /\ next.account = id OBVIOUS
  <2>2. MintOf(next) = [step |-> "admitted", account |-> id, name |-> "agent", token |-> None,
                        created |-> 0, flag |-> "none", held |-> {}]
    <3>. HIDE DEF next, id
    <3>. QED BY <2>1 DEF MintOf
  <2>. QED BY <2>2, AdmittedCall
<1>. HIDE DEF next, id
<1>7. Mints' = [Mints EXCEPT ![b] = [Tokens!NoCall EXCEPT !.step = "admitted", !.account = id,
                                                          !.name = "agent"]]
  BY <1>3, <1>6, MintsFollow
<1>8. Tokens!BeginMint(b, id, "agent")
  <2>1. Mints[b].step = "idle" BY <1>5 DEF Tokens!NoCall
  <2>2. UNCHANGED <<States, Denials>> BY <1>3 DEF States, Denials
  <2>. QED BY <1>4, <1>7, <2>1, <2>2
    DEF Tokens!BeginMint, Tokens!Idle, Tokens!Goes, States, Mints, Denials, NoTokens
<1>. QED BY <1>2, <1>8 DEF Tokens!Next, Tokens!CallStep

\* A mint that is answered, or dies, is a call of AgentTokens that dies.
LEMMA MintEnds ==
  ASSUME SignInInv, NEW b \in Browsers, visit[b].step = "minting", Goes(b, NoVisit),
         UNCHANGED <<account, denied>>
  PROVE  Tokens!Next
<1>1. MintOf(NoVisit) = Tokens!NoCall BY NoMint DEF NoVisit
<1>2. Mints' = [Mints EXCEPT ![b] = Tokens!NoCall] BY <1>1, MintsFollow
<1>3. Mints[b].step = "admitted" BY DEF Mints, MintOf
<1>4. UNCHANGED <<States, Denials>> BY DEF States, Denials
<1>5. Tokens!Die(b)
  BY <1>2, <1>3, <1>4 DEF Tokens!Die, Tokens!Idle, Tokens!Goes, States, Mints, Denials, NoTokens
<1>. QED BY <1>5 DEF Tokens!Next, Tokens!CallStep

\* No call of these holds a denial, so lifting one changes no call.
LEMMA NothingHeld == ASSUME NEW id PROVE Tokens!Lifted(id) = Mints
<1>1. ASSUME NEW b \in Browsers
      PROVE  [MintOf(visit[b]) EXCEPT !.held = @ \ {<<"block", id>>}] = MintOf(visit[b])
  BY DEF MintOf
<1>. QED BY <1>1 DEF Tokens!Lifted, Tokens!Denial, Mints

LEMMA BlocksAreDenials ==
  ASSUME SignInInv, NEW id \in AccountIds, NEW blocked \in BOOLEAN, SetBlocked(id, blocked)
  PROVE  Tokens!Next
<1>. DEFINE item == [account[id] EXCEPT !.blocked = blocked]
<1>1. account[id] \in Accounts /\ account \in [AccountIds -> Accounts \cup {NoAccount}]
  BY DEF SetBlocked, SignInInv
<1>2. item # NoAccount /\ item.blocked = blocked
  <2>1. item \in Accounts BY <1>1 DEF Accounts
  <2>2. item.blocked = blocked BY <1>1 DEF Accounts
  <2>. QED BY <2>1, <2>2, AccountsAreItems
<1>3. account' = [account EXCEPT ![id] = item] /\ UNCHANGED visit BY DEF SetBlocked
<1>4. denied' = IF blocked THEN denied \cup {id} ELSE denied \ {id} BY DEF SetBlocked
<1>. HIDE DEF item
<1>5. States' = [States EXCEPT ![id] = IF blocked THEN "blocked" ELSE "open"]
  BY <1>1, <1>2, <1>3 DEF States, StateOf
<1>6. States[id] # "none"
  BY <1>1, AccountsAreItems DEF States, StateOf
<1>7. Mints' = Mints BY <1>3 DEF Mints
<1>8. CASE blocked
  <2>1. Denials' = Denials \cup {<<"block", id>>} BY <1>4, <1>8 DEF Denials
  <2>2. Tokens!BlockAccount(id)
    BY <1>5, <1>6, <1>7, <1>8, <2>1
    DEF Tokens!BlockAccount, Tokens!Denial, States, Mints, Denials, NoTokens
  <2>. QED BY <2>2 DEF Tokens!Next
<1>9. CASE ~blocked
  <2>1. Denials' = Denials \ {<<"block", id>>} BY <1>4, <1>9 DEF Denials
  <2>2. Mints' = Tokens!Lifted(id) BY <1>7, NothingHeld
  <2>3. Tokens!UnblockAccount(id)
    BY <1>5, <1>6, <1>9, <2>1, <2>2
    DEF Tokens!UnblockAccount, Tokens!Denial, States, Mints, Denials, NoTokens
  <2>. QED BY <2>3 DEF Tokens!Next
<1>. QED BY <1>8, <1>9

LEMMA TokensFollow ==
  ASSUME SignInInv, [Next]_vars PROVE [Tokens!Next]_(Tokens!vars)
<1>1. ASSUME UNCHANGED <<account, visit, denied>> PROVE UNCHANGED Tokens!vars
  BY <1>1, TokensStutter DEF States, Mints, Denials
<1>2. ASSUME NEW b \in Browsers, Goes(b, NoVisit), UNCHANGED <<account, denied>>
      PROVE  [Tokens!Next]_(Tokens!vars)
  <2>1. CASE visit[b].step = "minting" BY <1>2, <2>1, MintEnds
  <2>2. CASE visit[b].step # "minting"
    <3>1. NoVisit.step # "minting" BY DEF NoVisit
    <3>. QED BY <1>2, <2>2, <3>1, VisitOutside
  <2>. QED BY <2>1, <2>2
<1>3. ASSUME NEW b \in Browsers, NEW provider \in Providers, NEW s \in Subjects,
             Callback(b, provider, s)
      PROVE  UNCHANGED Tokens!vars
  <2>. DEFINE next == [step |-> "completing", provider |-> provider, subject |-> s,
                       left |-> away[b].issued, began |-> now]
  <2>1. next.step = "completing" OBVIOUS
  <2>2. Goes(b, next) /\ visit[b].step = "idle" /\ UNCHANGED <<account, denied>>
    BY <1>3 DEF Callback, Idle, NoVisit
  <2>. HIDE DEF next
  <2>. QED BY <2>1, <2>2, VisitOutside
<1>4. ASSUME NEW b \in Browsers, NEW data, CompleteLogin(b, data) PROVE UNCHANGED Tokens!vars
  <2>. DEFINE identity == Normalize(visit[b].provider, visit[b].subject, data)
              step == IF identity.provider = "github" /\ identity.email = None
                        THEN "listing" ELSE "upserting"
              next == [Identified(visit[b], identity) EXCEPT !.step = step]
  <2>1. Goes(b, next) BY <1>4 DEF CompleteLogin
  <2>2. next.step = step /\ step # "minting"
    <3>. HIDE DEF identity
    <3>. QED BY DEF Identified
  <2>3. Goes(b, next) /\ visit[b].step = "completing" /\ UNCHANGED <<account, denied>>
    BY <1>4, <2>1 DEF CompleteLogin
  <2>. HIDE DEF next, step
  <2>. QED BY <2>2, <2>3, VisitOutside
<1>5. ASSUME NEW b \in Browsers, NEW list, FetchPrimaryEmail(b, list)
      PROVE  UNCHANGED Tokens!vars
  <2>1. PICK identity : Goes(b, Identified(visit[b], identity)) BY <1>5 DEF FetchPrimaryEmail
  <2>. DEFINE next == Identified(visit[b], identity)
  <2>2. next.step = "upserting" BY DEF Identified
  <2>3. Goes(b, next) /\ visit[b].step = "listing" /\ UNCHANGED <<account, denied>>
    BY <1>5, <2>1 DEF FetchPrimaryEmail
  <2>. HIDE DEF next
  <2>. QED BY <2>2, <2>3, VisitOutside
<1>6. ASSUME NEW b \in Browsers, CallbackStep(b) PROVE [Tokens!Next]_(Tokens!vars)
  <2>1. CASE FailCallback(b) \/ IssueSession(b)
    BY <1>2, <2>1 DEF FailCallback, IssueSession
  <2>. QED BY <1>3, <1>4, <1>5, <1>6, <2>1, UpsertSignsIn DEF CallbackStep
<1>7. ASSUME NEW b \in Browsers, EndMint(b) \/ Die(b) PROVE [Tokens!Next]_(Tokens!vars)
  BY <1>2, <1>7 DEF EndMint, Die
<1>8. ASSUME NEW b \in Browsers, NEW provider, Login(b, provider) PROVE UNCHANGED Tokens!vars
  BY <1>1, <1>8 DEF Login
<1>9. ASSUME NEW b \in Browsers, Logout(b) PROVE UNCHANGED Tokens!vars
  BY <1>1, <1>9 DEF Logout
<1>10. CASE Tick BY <1>1, <1>10 DEF Tick
<1>11. CASE UNCHANGED vars BY <1>1, <1>11 DEF vars
<1>. QED BY <1>6, <1>7, <1>8, <1>9, <1>10, <1>11, MintBegins, BlocksAreDenials DEF Next

\* accounts/aws.py and auth/wsgi.py: a sign-in never lifts a block, however late it
\* arrives, and a mint is only let through for an account that is stored and open.
THEOREM SignInKeepsContract == Spec => KeepsTokensContract
<1>1. Init => Tokens!Init
  <2>1. ASSUME Init PROVE /\ States = [id \in AccountIds |-> "none"]
                          /\ Mints = [b \in Browsers |-> Tokens!NoCall]
                          /\ Denials = {}
    <3>1. NoVisit.step # "minting" BY DEF NoVisit
    <3>. QED BY <2>1, <3>1, NoMint DEF Init, States, StateOf, Mints, Denials
  <2>2. NoTokens \in [{} -> {None} \cup {Tokens!Minted(n, None, 0) : n \in {"agent"}}]
    BY DEF NoTokens
  <2>. QED BY <2>1, <2>2 DEF Tokens!Init, States, Mints, Denials
<1>2. SignInInv /\ [Next]_vars => [Tokens!Next]_(Tokens!vars)
  BY TokensFollow
<1>. QED BY <1>1, <1>2, SignInInvariant, PTL DEF Spec, KeepsTokensContract, Tokens!Spec
=============================================================================
