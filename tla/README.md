# Formal verification of the League of Agents platform

TLA+ models of `league_site` (everything below is relative to `src/league_site`
unless it says otherwise), checked with TLC on small instances, and theorems
about them proved with TLAPS for every value of the constants.

The platform lets humans and agents play turn-based matches, rates them, keeps
matches in DynamoDB and old ones in S3, and runs as Lambda functions behind an
HTTP API.  Several invocations run at once, each reads and writes single items,
and nothing is transactional: most of what can go wrong goes wrong *between* two
of those calls.  That is what these models are about.

## 1. Inventory

| Part | State it keeps | Operations | Interacts with | What makes it correct |
|---|---|---|---|---|
| Rating formula (`ratings/system.py`) | none | `compute_deltas` | called by every ledger | monotone expectations, winners gain, points are almost conserved |
| Rating ledger (`ratings/ledger.py`, `ratings/aws.py`) | per identity a list of entries; registration markers and their counter | `get`, `record_match`, `all_identities` | matchops; leaderboard | append-only, every entry chained to the one before, nobody registered twice, everybody listed |
| Match record (`matches/match.py`, `api/engines.py`) | status, game state, turn log, result | `create`, `start`, `take_turn`, `pause`, `resume`, `complete` | engine | the log explains the state; completed is final |
| Match store (`matches/aws.py`, `matches/store.py`) | one item per match; S3 objects | `save`, `load`, `delete`, `list_ids`, `archive` | everything | a stored match is one that play can reach; no match is lost |
| Match API (`api/wsgi.py`, `api/matchops.py`, `api/identity.py`) | what a request has loaded | create, turn, pause, resume | guard, store, ledger | no completed match without its rating; each rated once; no lost turn |
| Capacity guard (`capacity/guard.py`) | what it has counted | `check_capacity` | match store | the caps hold |
| Retention sweep (`aws_lambda/cleanup.py`, `cli/_commands/match.py`) | lists and records loaded by the passes | `run_cleanup`, operator archive | hot table, archive | nothing lost early, nothing kept for ever, live matches untouched, dry run = real run |
| Agent tokens (`auth/tokens.py`, `auth/aws_tokens.py`, `auth/wsgi.py`) | one item per token | mint, revoke, block, unblock, verify | accounts | a denial is honoured at once; names unique; mint rate capped |
| Accounts (`accounts/`) | one item per human account | upsert at sign-in, block, unblock, get | tokens | a block survives a returning sign-in |
| Grid-lane adapter (`game/`) | a snapshot of an external game inside the match state | stage orders, resolve turn | match API, play pages | no staged order lost, a turn is resolved once, house bots move fairly |
| Play pages (`play/wsgi.py`) | none; pages and forms that may be stale | create match, show page, submit turn | match API, adapter | a double or stale post does nothing twice; the turn shown is the turn played |
| Turn planning (`play/actions.py`, `play/board.py`, `play/render.py`, `viewer/board.py`) | the plan, in the URL of the page | tap, replace, undo, clear, select | play pages | a plan that is played was legal and is played whole; every plan can be tapped together; the page tells the truth about the last turn |
| BYOK vault and runner (`byok/`) | encrypted keys, one item each | put, get, revoke, describe; a hosted turn | KMS, external model providers | a revoked key is not used; only legal orders survive a reply |
| Sign-in and sessions (`auth/`) | none on the server: a signed state and a signed cookie | login, callback, logout, mint | OAuth providers, accounts, tokens | no session without an account; both clocks bound a session; no foreign address is stored |
| Telemetry and capacity reports, play hub (`capacity/telemetry.py`, `cli/_commands/ops.py`, `play/wsgi.py`) | what has been listed and counted | `ops telemetry`, `ops capacity`, the hub's live list | match store | a match that rests while a report is put together is counted once, if its status is counted |
| Leaderboard, profiles, match pages, dataset (`ratings/leaderboard.py`, `profiles/`, `viewer/`, `datasets/`) | none | assemble from ledger and matches | both stores | the dataset explains the leaderboard; links lead to the right profile; recent matches are recent |
| Site (`aws_lambda/`, `web/http.py`, the surfaces' routers) | none | route a request, resolve who asks | every surface | exactly one surface answers; a cookie that does not verify is no cookie |
| Styles, scripts, SVG cards, Markdown, CLI output, request signing, infrastructure | none that matters here | rendering, wiring | | |

What is hard: requests, sweeps and operator commands interleave between any two
calls to AWS; reads of matches, index listings and table scans are eventually
consistent; an invocation can die at any call (29 s API timeout and 60 s sweep
timeout in `infra/template.yaml`); and writes of several items are not atomic.
`PROJECT.json` lists the hazards one by one, each at its line.

## 2. Modules

| Module | Models | State | Actions |
|---|---|---|---|
| `EloRating` | `ratings/system.py` | (operators only) | |
| `AppendLedger` | what `RatingLedgerStore` promises | `history` | `Record` |
| `InMemoryLedger` | `InMemoryRatingLedgerStore` | `history`, `listed`, `played` | `RecordMatch` |
| `RatingLedger` | `DynamoDBRatingLedgerStore`, one DynamoDB call per step | `entries`, `markers`, `counter`, `writer` | `BeginRecord`, `ReadPrior`, `PutEntry`, `EntryRefused`, `TakeOrder`, `PutMarker`, `Crash`, `EndRecord` |
| `MatchRecord` | `match.py` and the stub engine as operators on a match value | (operators only) | |
| `MatchLifecycle` | a match store whose every operation is atomic | `matches` | `Create`, `TakeTurn`, `Pause`, `Resume` |
| `MatchService` | the API over the DynamoDB store and ledger; composes `RatingLedger` and `MatchRecord` | `table`, `replica`, `minted`, `request` and the ledger's | guard: `ListIds`, `CountOne`, `CountFails`, `Admit`, `Refuse`, `RejectBody`; play: `TakeTurn`, `Pause`, `Resume`, `Rate`, `RateDone`, `RateFails`, `Save`; environment: `Replicate`, `Die` |
| `SerialService` | `MatchService`, remembering whether an invocation has ever died: what the ledger, the table, the dataset, the leaderboard and the pages agree on until one has | the service's and `died` | those of `MatchService`; `died` follows `Die` |
| `Retention` | the sweep, the archive and the operator | `table`, `replica`, `archive`, `fate`, `job` | `Create`, `Play`, `SavePlay`, `BeginSweep`, the steps of `SweepStep`, `OperatorArchive`, `Die`, `Replicate`, `Day` |
| `GridLane` | the game adapter and the launch modes, as operators on a game: what each team has staged, and the log of resolved turns | (operators only) | |
| `PlayPages` | one grid-lane match under the play pages and the API; extends `GridLane` | `match`, `page`, `request`, `rated`; histories `accepted`, `raced` | `Create`, `OpenPage`, `CallTurn`, `PostForm`, `Rate`, `Save`, `Die` |
| `AgentTokens` | tokens and accounts | `account`, `token`, `replica`, `call`, `now`, `denied` | `SignIn`, `BeginMint`, `CheckMint`, `SaveMint`, `FindToken`, `SetFlag`, `BlockAccount`, `UnblockAccount`, `Present`, `CheckOwner`, `EndRequest`, `Replicate`, `Die`, `Tick` |
| `SignIn` | the OAuth sign-in, its state and session tokens, the upsert; implements `AgentTokens` | `account`, `away`, `cookie`, `visit`, `now`, `denied` | `Login`, `Callback`, `CompleteLogin`, `FetchPrimaryEmail`, `FailCallback`, `UpsertAccount`, `IssueSession`, `Logout`, `BeginMint`, `EndMint`, `SetBlocked`, `Die`, `Tick` |
| `InMemoryKeyVault` | what a key vault promises, as the reference store keeps it | `entries` | `Put`, `Revoke` |
| `KeyVault` | `KMSDynamoDBKeyVault`, one KMS or DynamoDB call per step; implements `InMemoryKeyVault` | `table`, `replica`, `call` | `BeginPut`, `StoreKey`, `LoadKey`, `DecryptKey`, `LoadForRevoke`, `SaveRevoked`, `Describe`, `EndDescribe`, `Replicate` |
| `HostedTurn` | `run_turn`, the provider registry and the reading of replies, over `KeyVault` | the vault's and `turn` | `Ask`, `FailTurn`, `Answer`, `EndTurn`, `Abort` |
| `MatchItem` | the DynamoDB item of a match and what comes back from it; extends `MatchRecord` | (operators only) | |
| `PublicRecord` | dataset records, leaderboard, match page and profile links, of matches that came through `MatchItem` | (operators only) | |
| `PublicPages` | the reports, the hub, the profile page and the watch page as a chain of reads | `table`, `replica`, `moving`, `history`, `reader`, `seen` | `BeginReport`, `NextQuery`, `CountLoaded`, `LoadGone`, `BeginProfile`, `LoadRecent`, `SkipMissing`, `Watch`, `EndPage`; environment: `Save`, `RecordRating`, `Delete`, `Replicate` |
| `Site` | the Lambda handler, the middlewares `site_app` composes, and every surface's router | (operators only) | |
| `BoardPlan` | the legal orders, the plan of a URL, taps and links, the events of a turn | (operators only) | |
| `PlayView` | the play page of a match; extends `BoardPlan` | (operators only) | |
| `BrowserTurn` | one browser against the site and one match; composes `Site` and `PlayView` | `secret`, `cookie`, `match`, `form`, `asked`, `verdict`, `happened` | `Browse`, `ShowPlan`, `PostForm`, `ApiTurn`, `PauseOrResume`, `CookieChanges` |

`MC*` modules give the constants their values for TLC; `*Proofs` modules hold
the theorems.  Definitions marked *Faulty variant* are never used by a
specification: each is what a plausible slip in the code would make of the
definition after it, and shows that a property notices (`PROJECT.json`,
"mutants").

How the models read the code:

* **One step per call to AWS.** What a handler computes between two calls is
  part of the step of the call before or after it.  A request that is refused
  before it has changed anything is not a step.
* **Replicas.** `replica` is what an eventually consistent read may still see;
  it catches up at any time (`Replicate`).  The only reads the code makes strongly
  consistent are the two of `verify` (`auth/aws_tokens.py:152`,
  `accounts/aws.py:121`), and they read the table itself.  The ledger's queries are
  not (`ratings/aws.py:163-176`): what they return is any prefix of the history in
  `RatingLedger` (with `LaggingReads`) and in `PublicPages.BeginProfile`.
* **Crashes.** `Die` and `Crash` forget what an invocation has in hand and leave
  what it has written.  A call to AWS that raises ends the request in the same
  way.
* **Data.** Participants, identities, ids and names are model values; a game is
  the stub engine's score race; ages are whole days, and stop counting at the
  window they are compared with.
* `MatchService` and `Retention` take `list_ids` as one step, which may miss matches
  where reads lag.  Its queries run status by status, so that a match that moves
  meanwhile may be missed by all of them, or be listed twice.  `PublicPages` models
  each query.  In the serial runs nothing moves while a guard or a sweep lists.
  Elsewhere, what an id listed twice does is left out: a guard counts too many and
  refuses more; pass 1 loads a match again that it has just deleted, which ends the
  sweep as a death would; pass 3 finds more overflow and archives more completed
  matches, or one of them twice, by a put and a delete each time.
* `GridLane`: the `league` program is external; what it does is read off the
  adapter's use of it and the mode descriptions.  The board is what the log of
  plays makes of it, so the legal orders, the house's policy and the score are
  operators on the log (`Legal`, `HouseOrders`, `Score`).  The stub engine of
  `MatchRecord` and this one sit behind the same `GameEngine` interface.
* `PlayPages`: no client waits for its own answer, so an eventually consistent
  load is a load that happened earlier by an invocation that is slow, and there
  is no replica.  Pausing is in `MatchService`, and so are the calls of a rating.
* `Retention`: no job is running when a day ends, as a sweep reads its clock
  once and lasts at most a minute.  S3 listings fit one page of 1000 keys.
* `AgentTokens`: a session is "the account has signed in"; requests of a human
  session are not checked against the account's block by the code, and are not
  modelled.  Tokens without an owner exist from before accounts did (`Legacy`);
  nothing in the program mints new ones.
* `SignIn`: the signatures are taken as unforgeable, so a state or session is the
  record it signs, and what it is worth depends on the clock.  A provider answers
  with any profile and any list of addresses of that user, and with another one
  the next time.
* `HostedTurn`: the text of a reply is the sequence of what begins at its opening
  braces, each an object or something that does not parse; the prompt is left out.
* `PublicPages`: only statuses matter, and whether the last write of a match has
  reached every copy and the index (`moving`).  `list_ids` is one step per status
  query, in the order of `MatchStatus`; the query for created matches finds none, as
  no created match is saved.  The pages of a query are not steps of their own: a
  query that takes several can meet a moving match in its old place and its new one,
  or in neither, so it may find it from no to two times.  A match at rest stands in
  one place and is found once.  Its environment saves, deletes and rates freely,
  which is more than `MatchService` and `Retention` do.  Readers write nothing and
  cannot disturb each other, so one is enough.
* `MatchItem`, `PublicRecord`: names and timestamps pass unchanged, numbers come
  back from DynamoDB in the type the conversion gives them, so the scores of a
  result carry their type.
* `Site`: a path is its segments, and a segment a whole string; `Md`, `Json` and
  `ApiRoots` say of the strings which end in `.md` or `.json`, with which stem, and
  which begin with `v1`, as the routers ask just that.  A surface is modelled up to the point where it
  answers: which status, and as whom.  `agentfront`, which renders the root and
  the documents, is external.
* `BoardPlan`, `PlayView`, `BrowserTurn`: a unit is its id, a verb an order with
  its cell; a page is what it offers and says, not how it looks.  A request is one
  step, since `PlayPages` already takes requests apart.

## 3. Runs

| Run | Question | Bounds, and why they suffice | Result |
|---|---|---|---|
| `EloArithmetic` | Is the formula sane at every difference, and over seasons? | differences -430..430 pass both clamps and visit each of the 25 interpolation remainders in all 32 intervals; seasons of 3 matches of 2 or 3 seats over 3 identities include ties, namesakes and ratings off the anchors | holds |
| `MatchSerial` | With one request at a time (the `wsgiref` server), are matches atomic, caps kept, ratings counted once, and does the published record agree with itself when its matches are rated in the order in which they were recorded? | 3 match ids against caps of 1 and 2; both ways a game ends (target, turn limit); deaths at any call; a human and an agent of one display name, so slugs and links must tell them apart | holds, the counting until a request dies |
| `MatchConcurrent` | What survives two invocations with lagging reads and crashes, of the match and of the DynamoDB ledger under it? | 1 match, 3 turns, 2 invocations: a lost turn, a resurrection and a second rating all occur; histories of 2 entries, so a first and a later entry race | holds |
| `MatchLostTurn` | Is a match atomic under two invocations? | as above, without lag or crashes | refuted |
| `RetentionSerial` | Does a sweep do what it announces, meet the cap, spare live matches, and does everything expire? | 3 matches against a cap of 1, windows of 2 days and 1 day: all three passes act in one sweep | holds |
| `RetentionRaces` | Can a match get lost while play, crashes and lag disturb the sweep? | 1 match, 2 workers: losing a match concerns only that match; with one match there is no overflow, so pass 3 acts in `RetentionSerial`, and under races in the theorem `RetainedThroughSweeps`, for any matches and caps | holds |
| `TokensConcurrent` | Is a denial ever overlooked by concurrent callers?  Are names unique and the cap kept while mints run one at a time? | 2 callers, 1 account, 2 tokens to mint against a cap of 1, 1 legacy token: a denial concerns one token and its owner | holds |
| `PlayRaces` | In every launch mode, with stale pages, double posts, races and deaths: are turns whole, forms played in their turn, the log and the game in step? | 2 participants, 2 invocations; 2 turns alone or together, 1 turn of team against team; 3 turn records, so a team stages again before the other has; teams may advance in every second turn, so a plan can be legal on one board and not on the next | holds |
| `ByokRaces` | Is a revoked key used, is a revocation ever undone, and what of a model's reply reaches the match? | 2 handles, 2 keys, 2 callers: a revocation races another one, a put and a turn that holds the key; replies of one object after at most one other thing, of up to 2 orders, with a legal order, an illegal one and a stranger's | holds |
| `SignInFlow` | Does a session always have an account, end in time, and is an address the holder's own?  Does the flow keep the accounts and mints of `AgentTokens`? | 1 browser, whose old states and cookies come back late; 2 providers; up to 2 listed addresses, so a usable one can stand behind another that must not be taken; lifetimes of 1 and 2 in a time of 4, so each of them runs out at, before and after a boundary | holds |
| `PagesRaces` | What do reports and profiles say while the table changes under them? | 2 matches, one of which is saved over, paused, resumed, completed or deleted between any two queries and loads while the other rests (`MaxMoved` = 1: what is said of a match concerns that match alone); a moving match is in fact counted twice, and missed, in some of the runs; histories of 3 against a list of 2 | holds |
| `BrowserTurns` | Is a plan played whole or not at all, can every plan be tapped together, does the page tell what happened, and is a bad cookie no cookie? | every path the site knows and some it does not (`/play.md`, `/auth/login/a/b`, `/api/v1.md` among them), with and without the stage of API Gateway, cookies of any age, no secret; 2 units with 2 verbs each, turns 1 and 2, so a plan meets the turn after its own; URLs of up to 2 orders, conflicting and illegal ones among them | holds |

The refuted claim is in `PROJECT.json`, "findings": of a paused match `docs/api.md:44`
says "Full state persists; a participant can resume later", and `:50` that resume
"Restores identical prior state; play continues unchanged".  A pause that has loaded
the match before a turn is saved puts it back as it was before that turn.

The serial runs state what the code guarantees to a caller with no competitor,
and their constants are the precondition.  It is known, by changing only those
constants, that with two writers `CapsHold`, `NamesUnique` and `MintWithinCap`
fail (each is decided on a listing or scan before the put); that after a
death `ListedUntilDeath` would fail without its guard (a newcomer's marker is
never written later); that once requests race a turn may not resolve when both
teams have staged (two teams that stage at once: one staging is lost, though its
client was told it is in; modes.py says the turn resolves "once both participants
have staged"), which is why `ResolvesUnlessRaced` says unless; and that with two
sweeps at a time `RetainedUntilAged` fails (`SweepsOverlap = TRUE`, the daily job
and an operator's `ops cleanup --apply`).  `SignInFlow` also holds with two
browsers and one provider.

Other places where the code and its words part, met while modelling:

* `ratings/system.py:237-242`: duels are "always exactly zero-sum"; the
  interpolation floors, so a duel can create one point
  (`DriftAtMostOnePerMatch` is the bound that holds).
* `ratings/aws.py:50-53`: "Two *concurrent* first-time recordings of the same identity
  could each write a marker".  They cannot: `_register_identity` runs after the put
  of the identity's first entry, that put is conditional on the item not being there,
  and the writer it refuses leaves `record_match`.  `OneMarkerPerIdentity` states
  what the code does, in `MatchConcurrent` and, for any number of writers, as the
  theorem `RegisteredOnce`; the deduplication on read that the docstring describes
  has nothing to do.  This is the docstring being more cautious than the code.
* `matches/aws.py`, `list_ids`: "returns *every* match id regardless of how DynamoDB
  paginates"; a match saved "milliseconds ago may be missing".  The index is queried
  status by status, page by page, and ordered by the time of the last save: a match
  stored long ago and paused between the queries for active and paused ones is listed
  twice, and counted twice by `ops capacity` and the hub; one resumed between them is
  missed; one saved meanwhile may be either, though live throughout.
  `ReportsCountOnce` therefore speaks of matches at rest.
* `docs/api.md:56`: the leaderboard shows the "number of completed matches"; a
  retry after a crash between rating and save counts a match twice.
* `docs/operations.md:81`: dry-run and `--apply` "compute the identical action
  list"; after a sweep that died between put and delete they do not.
* `capacity/telemetry.py:46`: a report "must always succeed"; a match archived
  between the listing and its load ends it with `MatchNotFoundError`.
* `viewer/wsgi.py:31-36`, `web/content/index.md:19` and `docs/api.md:66` promise a
  permanent replay URL; the watch page is 404 once a match is archived, and
  `S3MatchArchive.retrieve` has no caller.
* `viewer/render.py`, `build_page_model`: every participant is linked to a profile;
  the participant of a completed practice match is unrated, and the link is 404.
* `play/actions.py:104`: orders are non-empty exactly for grid-shaped states; a
  human whose units have all fallen has none, and is sent "through the API" by a
  page that refreshes for ever.

### Fairness

Only `RetentionSerial` assumes any (`Retention!FairSpec`): a job that has begun
goes on (weak fairness: an invocation runs), days go by, and a real sweep is
begun again and again (strong fairness: EventBridge's `rate(1 day)` fires
whatever requests and previews come in between).  Crashes are left out of that
run: with a crash in every sweep nothing would ever be cleaned up.

## 4. Proofs

| Theorem | States | Assumes | Along which argument |
|---|---|---|---|
| `MatchServiceProofs!LedgerTypeCorrect` | `LedgerTypeOK` | deltas are integers | `LedgerInv`: the type invariant, plus "what a writer has read is a prefix of the history" (`ReadsPrefixes`) and "an order in hand was given out" (`Registers`) |
| `MatchServiceProofs!LedgerKeepsContract` | the ledger refines `AppendLedger` | the same | by `ReadsPrefixes` the conditional put can only succeed when the prefix read is the whole history, so the entry is chained to its predecessor |
| `MatchServiceProofs!RegisteredOnce` | `OrdersFresh`, `OneMarkerPerIdentity` | the same | a registering writer has put entry 1; no second writer can put it again |
| `MatchServiceProofs!ServiceTypeCorrect` | `ServiceTypeOK` | the same | a match value keeps its type through every operation of `MatchRecord` |
| `MatchServiceProofs!CompletedAreRated` | `CompletedIsRated` | the same | entries are never removed, and a request that carries a completed match to its save has recorded it for all participants |
| `MatchServiceProofs!StoredReplay` | `StoredMatchesReplay` | the same | every copy in hand was made by whole operations from one that replays; that a longer log replays one turn further is proved with the least turn at which two replays would differ |
| `MatchServiceProofs!ServiceKeepsLedgerContract` | `MatchService` refines `AppendLedger` | the same | `LedgerServed`: the service only moves the ledger by steps of `RatingLedger`, whose proof carries over |
| `MatchServiceProofs!ServiceRegistersOnce` | `OrdersFresh`, `OneMarkerPerIdentity` | the same | as for the ledger alone, by `LedgerServed` |
| `MatchServiceProofs!SerialCapsHold` | `CapsHold` | the same, and one request at a time on reads up to date | `SerialInv`: while a request is in hand nobody else writes, so what its guard has counted still is the table, and what it loaded is what is stored |
| `MatchServiceProofs!ServiceKeepsLifecycle` | `MatchService` refines `MatchLifecycle` | the same | by `SerialInv` the copy a request saves was made by one whole operation from the match that is still stored; creating finds the id free |
| `MatchServiceProofs!CountsWhileAlive` | `CountsUntilDeath` | the same | `CountsInv`: an identity has one entry for each of its completed matches that is stored, and for the one being recorded |
| `MatchServiceProofs!ListedWhileAlive` | `ListedUntilDeath` | deltas are integers | `ListedInv`: an identity with an entry has a marker, or a living request is about to write it |
| `MatchServiceProofs!LeaderboardWhileAlive` | `LeaderboardFollowsDataset` | deltas are integers, and one request at a time on reads up to date | `ExplainedInv`: the ledger without what is ahead of the table is what some order of the dataset's lines leads to (`Chronicle`), a match being rated has read that standing (`PriorsRight`), and the entries ahead are what rating it makes of it (`LastRight`); saving the match adds its line |
| `MatchServiceProofs!LineTellsOutcome` | a dataset line gives back the outcome that was rated | identities that `RatingIdentity` lets through | numbers and identities are followed through the item, the conversions and the allowlist |
| `MatchServiceProofs!RowsIgnoreOrder` | the leaderboard does not depend on the order in which the ledger lists identities | the same, integer ratings | the sort key tells identities apart, so no two tie: each has a place that counts those ahead of it, and places are a bijection with the ranks |
| `RatingsProofs!ExpectationsRise` | `ExpectationMonotone` | an integer to start from | consecutive anchors rise, and interpolation between two of them rises and stays between them; no interval is left out, because quotient and remainder of every difference are bounded |
| `RatingsProofs!WinnersGain` | `WinnerGainsLoserPays` | the same | a duel has one pair per side, so its deltas are rounded quotients of chances in 91..909 |
| `RatingsProofs!EloGivesIntegers` | Elo is a rating system with integer deltas | integer ratings and scores, two or more participants | the fold that sums over a set of pairs takes its elements out in any order (`TotalTakes`), as no smallest set can be an exception |
| `RatingsProofs!EloBarelyDrifts` | the deltas of n participants add up to -0.5 n to 0.532 n points | the same | the table is symmetric, so the sides of a pair cancel up to what two floors lose; each delta is at most half a point off its share |
| `RatingsProofs!SeasonKeepsContract` | `InMemoryLedger` refines `AppendLedger` | integer scores | each involved history gets one entry, chained to the rating it ended with |
| `RatingsProofs!SeasonDrifts` | `DriftAtMostOnePerMatch` | a finite league, integer scores, matches of two or three | `SeasonInv`, by `EloBarelyDrifts` for each match |
| `RetentionProofs!RetentionTypeCorrect` | `TypeOK` | sweeps do not overlap | `RetentionInv` |
| `RetentionProofs!RetainedThroughSweeps` | `RetainedUntilAged` | the same | whoever is about to delete from the table has put the archive, and no other sweep can remove that archive meanwhile |
| `RetentionProofs!SweepsSpareLive` | `OnlyOperatorDropsLive` | one worker, reads up to date | `SparesLive`: what a sweep has loaded or taken is not live in the table, and nobody plays while it is in hand |
| `RetentionProofs!SweepLeavesCapMet` | `SweepMeetsCap` | the same | `SweepOK`: what each pass has visited, chosen and deleted, told from the table as the sweep began |
| `RetentionProofs!RealRunDoesThePreview` | `RealRunMatchesPreview` | the same, and no job dies (the put a dead job leaves behind is counted by the next sweep's second pass) | `OrderlyJob`: what the sweep has reported is what a preview reports of the matches visited so far |
| `PlayPagesProofs!FormsKeepTheirTurn` | `FormsPlayTheirTurn` | nothing | `PagesInv`: in the stored match and in every copy in hand, what is staged was made for the turn at hand of that very copy, and what was played for its own turn |
| `PlayPagesProofs!HouseStaysUnrated` | `HouseNeverRated` | nothing | copies keep the mode and the seats of the match; two rated participants are two seats, and no mode with bots has them |
| `PlayPagesProofs!EveryTurnIsWhole` | `TurnsAreWhole` | nothing | a turn is logged only when every team's play is staged in the copy in hand, each made for the board of that very turn, and copies are saved whole |
| `PlayPagesProofs!EveryMatchReplays` | `StoredMatchReplays` | nothing | every copy in hand replays; a longer log replays one turn further by the least turn at which two replays would differ |
| `PlayPagesProofs!TurnsResolve` | `ResolvesUnlessRaced` | the house answers with orders (`HouseHasOrders`) | `RoundsInv`: until two requests race, in the stored match and the copy in hand the orders that are in for the turn at hand are staged, and an active match still misses somebody's |
| `AgentTokensProofs!TokensTypeCorrect` | `TypeOK` | nothing | `TokensInv` |
| `AgentTokensProofs!DenialsAreHonoured` | `DenialHonoured` | nothing | a denial in force is written in the stores, no other write touches its attribute, and verify reads both stores after the request began |
| `AgentTokensProofs!NamesStayUnique` | `NamesUnique` | mints run one at a time (`SerialSpec`) | `MintsInv`: a mint that is about to save would be let through by the tokens as they are now |
| `AgentTokensProofs!MintsKeepCap` | `MintWithinCap` | the same | the same; and every window that holds the new token ends no later than now |
| `HostedTurnProofs!TurnTypeCorrect` | `TypeOK` | nothing | `VaultInv`, and a turn with a request in hand has a key for it |
| `HostedTurnProofs!RevokedKeysUnused` | `RevokedKeyUnused` | nothing | `FlagsAreRight`: once a revocation has settled, table and replica agree, and every later load shows the flag |
| `HostedTurnProofs!RepliesAreSplit` | `DecisionSplitsReply` | nothing | the kept and the dropped orders split every prefix of the reply, by the shortest prefix that would not be split |
| `HostedTurnProofs!VaultKeepsContract` | `HostedTurn` refines `InMemoryKeyVault` | nothing | `EveryCopyIsEarlier`: a copy in a replica or a call differs from the item stored at most by not being revoked yet, so the whole-item put of a revoke can only raise the flag |
| `SignInProofs!SignInTypeCorrect` | `TypeOK` | nothing | `SignInInv` |
| `SignInProofs!SessionsKeepAccount` | `SessionsHaveAccount` | nothing | a callback in its last step has upserted, and accounts are never deleted |
| `SignInProofs!SessionsExpire` | `ServedRecently` | nothing | the age of the state when the callback began and the time the callback has run are bounded, and a session is issued after both |
| `SignInProofs!EmailsAreOwn` | `EmailIsOwn` | nothing | every address in hand came from a provider's verified field or list; the first usable entry exists by the least number principle |
| `SignInProofs!SignInKeepsContract` | `SignIn` refines `AgentTokens` | nothing | the accounts, the blocks and the mints let through: an upsert is a sign-in of the contract, which never lifts a block; a mint begins only for an account that is stored and open, and one that ends is a call that dies |
| `PagesProofs!CookiesAreVerified` | `StaleCookieIsNoCookie` | nothing | two requests that differ in cookies that are not sessions are told apart by no router |
| `PagesProofs!PlansArePlayed` | `EndTurnPlaysPlan` | nothing | `PlanInv`: the plan of a fresh form is legal on the board at hand with one order for a unit, and such a plan goes through `_staged_orders` unchanged |
| `PagesProofs!PagesTellTurns` | `PageTellsTurn` | a unit that stands always has a legal order (`AliveCanBeOrdered`; hold is always legal, `normalize.py:16`) | `NewsInv`: unless a team has staged since, the stored match has the events of its last resolved turn |
| `PagesProofs!OneTapEach` | `OneTapPerDecision` | the game lists orders of its verbs (`ListsVerbs`) | all pages that as many taps lead to have planned the same units and select the same one, and together they make every choice |
| `PagesProofs!ReportsCountRight` | `ReportsCountOnce` | nothing | `ReportsInv`: a match at rest since the report began is found by the query for its status and by no other, and then still to load or counted, once in all; one that never had a counted status is in no load that counts |
| `PagesProofs!ProfilesShowNewest` | `ProfileShowsRecent` | nothing | `ProfilesInv`: of the entries passed so far, the page has those that stayed, in order |

"Deltas are integers" (`DeltasAreIntegers`) is the rating system's interface: it
gives every outcome of two or more participants one integer for each
(`compute_deltas` rejects fewer).  `EloGivesIntegers` proves it of the formula the
runs and the program use.  The named assumptions on the constants stand in the
modules that declare them, and TLC evaluates them.  The `*Inv` invariants are
inductive where the properties themselves are not: none of the properties speaks
of what a writer, a request or a job has in hand.

`DenialHonoured` is proved for mints that race, too, and the run lets them run one
at a time; names and cap are proved for mints one at a time, since they fail
otherwise.  `DriftAtMostOnePerMatch` holds of matches of up to three;
`EloBarelyDrifts` is the bound for any number.

Only model-checked:

* `CompletedLeavesHot` and `ArchiveExpires`: liveness under fairness is beyond
  TLAPS.

Induction theorems that take an operator are beyond the provers, too.  What is
recursive is proved with the least element of a set of numbers, or of a set of
finite sets, instead: replays, replies, tapped plans, sums, the re-rating of a
dataset.

`LeaderboardFollowsDataset` takes the most apart.  Besides `ExplainedInv` it needs
`CountsInv` (what is ahead of the table is one entry per identity of the match at
hand), `ListedInv`, `OrdersInv` (until a death no order is given out and lost, so
the index has no gaps) and `Rests` (a writer works only for a request that rates).
Its links are right because kind, name, model and provider tell all identities
apart even though a missing model compares as the empty string
(`FieldsTellApart`): only the kind says which of the two it is.  Hence
`IdentitiesAssumption` is what `RatingIdentity.__post_init__` enforces, and no
more: names may be empty.  `NoneAssumption` and `NoneIsNoRecord` say that `None`
is no number and no record of an item, as in Python; TLC evaluates all three.

## 5. Not modelled

Seen while modelling, and outside the properties:

* `apply_turn` overwrites `last_turn_events` with an empty difference when a team
  stages without resolving the turn (`game/adapter.py:210`), so the other team's
  page loses the events of the turn before.  `PageTellsTurn` says what the feed
  shows after a turn that was resolved.
* The turn guard of a form compares numbers: in team-against-team a form posted
  twice before the turn is resolved stages and is logged twice, and after a race a
  form can be played on another board with the same turn number.
* A plan in a URL survives the turn it was made for; it is checked again on every
  page, and the form of a new page plays what is still legal of it.
* A truncated reply of a model yields its first inner object, and all its orders
  are lost without being reported as dropped.
* A transient error of `/user/emails` counts as an empty list, and the upsert that
  follows erases the address stored before.
* Login and callback without a session secret end in an uncaught
  `MissingSecretError`.
* A cookie header with an illegal key raises `CookieError` in `SimpleCookie.load`
  (`auth/wsgi.py:152`, `aws_lambda/wiring.py:112`), which nothing catches: such a
  request fails instead of counting as one without a cookie.  The cookies of `Site`
  are ones that parse, and `StaleCookieIsNoCookie` does not speak of that header.
* Watch and profile pages are composed outside `with_auth` and show nobody signed
  in.

Left out:

* Of the game: missions, score reports, quality axes, registration of rosters and
  the action caps (None in every bundled mode); on the play page, refused orders
  and the rival's stock.  They are read from the external game and shown.
* Of the play pages: the single-action form of games without unit orders.  No
  bundled mode has one.
* Of the dataset: versions, timestamps and quality axes, which these matches do
  not have, and the scrub check, which finds nothing in an allowlisted record.
* Rendering: styles (`web/theme.py`), page frames (`web/shell.py`), scripts, SVG
  cards and board geometry, Markdown, command line output.  They are pure
  functions of what the models call a page, and no property is about their looks.
* Request signing (`byok/sigv4.py`), a pure function with published test vectors;
  the CloudFormation template and deployment scripts; argument parsing.
* The encryption of KMS and of the cookies' signatures is taken to work.

## 6. Plan

1. Done: ratings (`EloRating` ... `RatingLedger`), the match API over the stores
   (`MatchRecord` ... `MatchService`), retention, tokens and accounts; the game
   adapter and the play pages (`GridLane`, `PlayPages`).
2. Done: the key vault and hosted turns, sign-in, the public record, reports and
   profiles, the site and the planning of turns.
3. Done: first theorems of each stateful component, `StoredMatchesReplay` for any
   number of requests, the vault's refinement.
4. Done: wholeness and replay of the play pages for any game, the contract of
   tokens and accounts kept by signing in, live matches kept by serial sweeps.
5. Done: what the serial runs check, for any constants: caps, counts, names, the
   lifecycle of a match, sweeps that do what they announce; reports, profiles, the
   browser's turns, replies; the arithmetic of Elo and its drift.
6. Done: what the league publishes agrees with itself, for any identities, matches
   and rating system.  With it every safety property and every action property of
   the passing runs is a theorem.
7. Left: missions and quality axes once a bundled mode scores by them.
