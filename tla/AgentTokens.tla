----------------------------- MODULE AgentTokens -----------------------------
(***************************************************************************)
(* Human accounts and the agent tokens they mint: league_site/accounts and *)
(* league_site/auth on the DynamoDB stores, where both share one table.    *)
(*                                                                         *)
(*   sign-in:        one update_item of the account (upsert)               *)
(*   POST /auth/agents: get the account, scan the tokens, put the token    *)
(*   revoke, block, unblock of a token: scan for it, update_item a flag    *)
(*   block, unblock of an account: one conditional update_item             *)
(*   a request with a bearer token (verify): get the token, get the account*)
(*                                                                         *)
(* These calls of concurrent callers interleave.  The two gets of verify   *)
(* are strongly consistent; a scan may see any item as it was before.      *)
(* Refused calls change nothing and are not steps, unless they end a call  *)
(* that has begun.                                                         *)
(***************************************************************************)
EXTENDS Integers, FiniteSets

CONSTANTS Accounts,      \* human account ids
          Names,         \* agent names
          TokenIds,      \* the tokens that can be minted
          Legacy,        \* the tokens minted before accounts existed
          Callers,       \* concurrent requests and operator commands
          HourlyCap,     \* issue_hourly_cap_from_env
          Window,        \* ISSUE_CAP_WINDOW
          MaxTime,       \* bound: clock readings
          LaggingScans,  \* TRUE: a scan may see an item as it was before
          None

ASSUME TokenAssumption ==
  /\ HourlyCap \in Nat \ {0} /\ Window \in Nat \ {0} /\ MaxTime \in Nat
  /\ Legacy \subseteq TokenIds /\ IsFiniteSet(Legacy) /\ LaggingScans \in BOOLEAN /\ Names # {}
  /\ None \notin Accounts /\ None \notin TokenIds /\ Accounts \cap TokenIds = {}

VARIABLES
  account,  \* account[a]: "none", "open" or "blocked"
  token,    \* token[t]: the item TOKEN#t, None when there is none
  replica,  \* replica[t]: what a lagging scan may still see of it
  call,     \* call[c]: what caller c is in the middle of
  now,      \* the clock
  denied    \* what operators have shut off, and not lifted again

vars == <<account, token, replica, call, now, denied>>

TokenRecord ==
  [name : Names, owner : Accounts \cup {None}, created : 0..MaxTime,
   revoked : BOOLEAN, blocked : BOOLEAN]

ASSUME NoneIsNoToken == None \notin TokenRecord

Minted(name, owner, created) ==
  [name |-> name, owner |-> owner, created |-> created, revoked |-> FALSE, blocked |-> FALSE]

\* held: of what was denied as the call began, what has been denied ever since.
NoCall == [step |-> "idle", account |-> None, name |-> None, token |-> None,
           created |-> 0, flag |-> "none", held |-> {}]

Flags == {"revoke", "block", "unblock"}
Denial(flag, subject) == <<flag, subject>>

Init ==
  /\ account = [a \in Accounts |-> "none"]
  /\ token \in [TokenIds -> {None} \cup {Minted(n, None, 0) : n \in Names}]
  /\ \A t \in TokenIds : token[t] # None <=> t \in Legacy
  /\ replica = token
  /\ call = [c \in Callers |-> NoCall]
  /\ now = 0
  /\ denied = {}

Idle(c) == call[c].step = "idle"
Goes(c, next) == call' = [call EXCEPT ![c] = next]

Writes(t, record) ==
  /\ token' = [token EXCEPT ![t] = record]
  /\ replica' = IF LaggingScans THEN replica ELSE token'

\* What a paginated scan may return, as a function of the token.
Scans ==
  {seen \in [TokenIds -> {token[t] : t \in TokenIds} \cup {replica[t] : t \in TokenIds}] :
     \A t \in TokenIds : seen[t] \in {token[t], replica[t]}}

-----------------------------------------------------------------------------
(* Sign-in and POST /auth/agents *)

\* Faulty variant: the account is put as a fresh record.
SignInAfresh(a) ==
  /\ account' = [account EXCEPT ![a] = "open"]
  /\ UNCHANGED <<token, replica, call, now, denied>>

\* upsert never writes the blocked flag.
SignIn(a) ==
  /\ account' = [account EXCEPT ![a] = IF @ = "none" THEN "open" ELSE @]
  /\ UNCHANGED <<token, replica, call, now, denied>>

\* A human with a session, whose account is not blocked, asks for a token.
BeginMint(c, a, name) ==
  /\ Idle(c)
  /\ account[a] = "open"
  /\ Goes(c, [NoCall EXCEPT !.step = "admitted", !.account = a, !.name = name])
  /\ UNCHANGED <<account, token, replica, now, denied>>

\* Faulty variants: only the account's own tokens keep a name taken; revoking a
\* token gives its share of the cap back.
NameTakenAtHome(seen, a, name) ==
  \E t \in TokenIds : seen[t] # None /\ seen[t].name = name /\ ~seen[t].revoked
                        /\ seen[t].owner = a
LiveInWindow(seen, a, time) ==
  {t \in TokenIds : seen[t] # None /\ seen[t].owner = a /\ seen[t].created > time - Window
                      /\ ~seen[t].revoked}

NameTaken(seen, a, name) ==
  \E t \in TokenIds : seen[t] # None /\ seen[t].name = name /\ ~seen[t].revoked

InWindow(seen, a, time) ==
  {t \in TokenIds : seen[t] # None /\ seen[t].owner = a /\ seen[t].created > time - Window}

\* issue_self_serve: one scan decides on the name and the cap; 409 and 429 end
\* the call.
CheckMint(c) ==
  /\ call[c].step = "admitted"
  /\ \E seen \in Scans :
       Goes(c, IF \/ NameTaken(seen, call[c].account, call[c].name)
                  \/ Cardinality(InWindow(seen, call[c].account, now)) >= HourlyCap
                 THEN NoCall
                 ELSE [call[c] EXCEPT !.step = "saving", !.created = now])
  /\ UNCHANGED <<account, token, replica, now, denied>>

\* issue: the token gets a fresh id and is put.
SaveMint(c, t) ==
  /\ call[c].step = "saving"
  /\ token[t] = None
  /\ Writes(t, Minted(call[c].name, call[c].account, call[c].created))
  /\ Goes(c, NoCall)
  /\ UNCHANGED <<account, now, denied>>

-----------------------------------------------------------------------------
(* The operator *)

\* revoke and set_blocked, and `tokens block <name>` before it, find the token
\* in a scan ...
FindToken(c, t, flag) ==
  /\ Idle(c)
  /\ token[t] # None
  /\ Goes(c, [NoCall EXCEPT !.step = "flagging", !.token = t, !.flag = flag])
  /\ UNCHANGED <<account, token, replica, now, denied>>

Flagged(record, flag) ==
  CASE flag = "revoke"  -> [record EXCEPT !.revoked = TRUE]
    [] flag = "block"   -> [record EXCEPT !.blocked = TRUE]
    [] flag = "unblock" -> [record EXCEPT !.blocked = FALSE]

\* A block of subject is lifted: no call can hold it against a request any more.
Lifted(subject) ==
  [c \in Callers |-> [call[c] EXCEPT !.held = @ \ {Denial("block", subject)}]]

\* ... and update that one attribute of the item, whatever the others are by now.
SetFlag(c) ==
  /\ call[c].step = "flagging"
  /\ LET t == call[c].token IN
       /\ Writes(t, Flagged(token[t], call[c].flag))
       /\ IF call[c].flag = "unblock"
            THEN /\ denied' = denied \ {Denial("block", t)}
                 /\ call' = [Lifted(t) EXCEPT ![c] = NoCall]
            ELSE /\ denied' = denied \cup {Denial(call[c].flag, t)}
                 /\ Goes(c, NoCall)
  /\ UNCHANGED <<account, now>>

\* AccountStore.set_blocked, on condition that the account exists.
BlockAccount(a) ==
  /\ account[a] # "none"
  /\ account' = [account EXCEPT ![a] = "blocked"]
  /\ denied' = denied \cup {Denial("block", a)}
  /\ UNCHANGED <<token, replica, call, now>>

UnblockAccount(a) ==
  /\ account[a] # "none"
  /\ account' = [account EXCEPT ![a] = "open"]
  /\ denied' = denied \ {Denial("block", a)}
  /\ call' = Lifted(a)
  /\ UNCHANGED <<token, replica, now>>

-----------------------------------------------------------------------------
(* A request that carries a bearer token: verify *)

Usable(record) ==
  record # None /\ ~record.revoked /\ ~record.blocked /\ record.owner # None

\* get_by_hash, and the refusals that need nothing else.
Present(c, t) ==
  /\ Idle(c)
  /\ Usable(token[t])
  /\ Goes(c, [NoCall EXCEPT !.step = "checking", !.token = t,
                            !.account = token[t].owner, !.held = denied])
  /\ UNCHANGED <<account, token, replica, now, denied>>

\* The owner's account decides: 403, or the request goes ahead as the agent.
CheckOwner(c) ==
  /\ call[c].step = "checking"
  /\ Goes(c, IF account[call[c].account] = "blocked"
               THEN NoCall ELSE [call[c] EXCEPT !.step = "accepted"])
  /\ UNCHANGED <<account, token, replica, now, denied>>

EndRequest(c) ==
  /\ call[c].step = "accepted"
  /\ Goes(c, NoCall)
  /\ UNCHANGED <<account, token, replica, now, denied>>

-----------------------------------------------------------------------------

Replicate(t) ==
  /\ replica[t] # token[t]
  /\ replica' = [replica EXCEPT ![t] = token[t]]
  /\ UNCHANGED <<account, token, call, now, denied>>

\* A caller's process dies in the middle of a call.
Die(c) ==
  /\ ~Idle(c)
  /\ Goes(c, NoCall)
  /\ UNCHANGED <<account, token, replica, now, denied>>

Tick ==
  /\ now < MaxTime
  /\ now' = now + 1
  /\ UNCHANGED <<account, token, replica, call, denied>>

CallStep(c) ==
  \/ \E a \in Accounts, name \in Names : BeginMint(c, a, name)
  \/ CheckMint(c)
  \/ \E t \in TokenIds : SaveMint(c, t) \/ Present(c, t)
  \/ \E t \in TokenIds, flag \in Flags : FindToken(c, t, flag)
  \/ SetFlag(c)
  \/ CheckOwner(c)
  \/ EndRequest(c)
  \/ Die(c)

Next ==
  \/ \E c \in Callers : CallStep(c)
  \/ \E a \in Accounts : SignIn(a) \/ BlockAccount(a) \/ UnblockAccount(a)
  \/ \E t \in TokenIds : Replicate(t)
  \/ Tick

Spec == Init /\ [][Next]_vars

\* The name and the hourly cap of a mint are checked on a listing of the table,
\* so that they can only be promised of mints that run one at a time and list
\* what is stored.  Everything else races, and every other reader may lag.
Minting == {c \in Callers : call[c].step \in {"admitted", "saving"}}

OneMint == \A c, d \in Minting : c = d

ListsStored ==
  \A c \in Minting :
    call'[c].step = "saving" /\ call[c].step = "admitted" => replica = token

MintsAlone == OneMint' /\ ListsStored

SerialSpec == Init /\ [][Next /\ MintsAlone]_vars

-----------------------------------------------------------------------------
(* Properties *)

Call ==
  [step : {"idle", "admitted", "saving", "flagging", "checking", "accepted"},
   account : Accounts \cup {None}, name : Names \cup {None}, token : TokenIds \cup {None},
   created : 0..MaxTime, flag : Flags \cup {"none"},
   held : SUBSET (Flags \X (TokenIds \cup Accounts))]

\* What a call that has begun has in hand.
InHand(k) ==
  /\ k.created <= now
  /\ k.step \in {"admitted", "saving"} => k.account \in Accounts /\ k.name \in Names
  /\ k.step = "flagging" => k.token \in TokenIds /\ token[k.token] # None /\ k.flag \in Flags
  /\ k.step \in {"checking", "accepted"} =>
       /\ k.token \in TokenIds /\ token[k.token] # None
       /\ k.account \in Accounts /\ k.account = token[k.token].owner

\* The types of the stores and the calls, and that every token but the legacy
\* ones belongs to a human who has signed in (auth/tokens.py, "Human-anchored
\* tokens").
TypeOK ==
  /\ account \in [Accounts -> {"none", "open", "blocked"}]
  /\ token \in [TokenIds -> TokenRecord \cup {None}]
  /\ \A t \in TokenIds : token[t] # None =>
       /\ token[t].owner = None <=> t \in Legacy
       /\ token[t].owner # None => account[token[t].owner] # "none"
  /\ replica \in [TokenIds -> TokenRecord \cup {None}]
  /\ now \in 0..MaxTime
  /\ call \in [Callers -> Call] /\ \A c \in Callers : InHand(call[c])
  /\ denied \subseteq Flags \X (TokenIds \cup Accounts)

\* What shuts off a request made with token t on behalf of account a.
ShutsOff(denial, t, a) ==
  denial \in {Denial("revoke", t), Denial("block", t), Denial("block", a)}

\* docs/agent-tokens.md: an operator's block, or a revocation, is honoured on
\* the very next request.  No request goes ahead against a denial that was in
\* force before it began and has not been lifted since, whatever sign-ins, mints
\* and other operator commands are running.
DenialHonoured ==
  \A c \in Callers : call[c].step = "accepted" =>
    \A denial \in call[c].held : ~ShutsOff(denial, call[c].token, call[c].account)

\* auth/tokens.py: a name that has a live token is refused.  So a live token of
\* an account shares its name with no other live token, and nobody plays and is
\* rated under the name of another.  This holds while mints run one at a time.
NamesUnique ==
  \A t \in TokenIds \ Legacy, u \in TokenIds :
    t # u /\ None \notin {token[t], token[u]} /\ ~token[t].revoked /\ ~token[u].revoked
      => token[t].name # token[u].name

\* auth/tokens.py: the cap bounds a single account.  No window, whenever it
\* ends, holds more than HourlyCap tokens of one account, revoked ones included.
\* This holds while mints run one at a time.
MintWithinCap ==
  \A a \in Accounts, time \in 0..MaxTime :
    Cardinality({t \in TokenIds : /\ token[t] # None /\ token[t].owner = a
                                  /\ token[t].created \in (time - Window + 1)..time})
      <= HourlyCap
=============================================================================
