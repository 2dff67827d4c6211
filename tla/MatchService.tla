---------------------------- MODULE MatchService ----------------------------
(***************************************************************************)
(* The match API (league_site/api/wsgi.py over league_site/api/matchops.py)*)
(* on the DynamoDB match table (league_site/matches/aws.py) and the rating *)
(* ledger.  Every request runs in a Lambda invocation of its own, a member *)
(* of Writers.  A request that changes a match loads it, works on its own  *)
(* copy and writes the whole copy back; nothing ties the write to what was *)
(* read, and the rating of a finished match is recorded in between:        *)
(*                                                                         *)
(*   turn:          load, (record_match of RatingLedger,) save             *)
(*   pause, resume: load, save                                             *)
(*   create:        list_ids, load every id, save                          *)
(*                                                                         *)
(* A request that is refused (404, 403, 409, 400, 429) writes nothing and  *)
(* is not a step.                                                          *)
(***************************************************************************)
EXTENDS RatingLedger, MatchRecord

CONSTANTS IdentityOf,     \* the rating identity of each participant id
          MaxConcurrent,  \* CapacityConfig.max_concurrent_matches
          MaxStored       \* CapacityConfig.max_stored_matches

ASSUME ServiceAssumption ==
  /\ IdentityOf \in [Callers -> Identities]
  /\ MaxConcurrent \in Nat \ {0} /\ MaxStored \in Nat \ {0}
  /\ None \notin MatchIds /\ IsFiniteSet(MatchIds)

VARIABLES
  table,     \* table[id]: the match item of the hot table, None when absent
  replica,   \* replica[id]: what an eventually consistent read may still see
  minted,    \* the match ids given out so far (uuid4: never the same twice)
  request    \* request[w]: what invocation w is in the middle of

serviceVars == <<table, replica, minted, request>>
vars == <<serviceVars, ledgerVars>>

NoRequest == [stage |-> "idle", id |-> None, match |-> None,
              unread |-> {}, listed |-> 0, concurrent |-> 0]

Init ==
  /\ LedgerInit
  /\ table = [id \in MatchIds |-> None]
  /\ replica = table
  /\ minted = {}
  /\ request = [w \in Writers |-> NoRequest]

Goes(w, r) == request' = [request EXCEPT ![w] = r]
Idle(w) == request[w].stage = "idle"

\* What a load of id can return: get_item is eventually consistent.
Loadable(id) == (IF LaggingReads THEN {table[id], replica[id]} ELSE {table[id]}) \ {None}

-----------------------------------------------------------------------------
(* POST /matches: check_capacity, then create_match *)

Counted(match) == match.status \in {"active", "paused"}

\* list_ids: every stored id, or with lagging reads any of them.
ListIds(w) ==
  /\ Idle(w)
  /\ \E ids \in SUBSET {id \in MatchIds : table[id] # None} :
       /\ LaggingReads \/ \A id \in MatchIds : table[id] # None => id \in ids
       /\ Goes(w, [NoRequest EXCEPT !.stage = "counting", !.unread = ids,
                                    !.listed = Cardinality(ids)])
  /\ UNCHANGED <<ledgerVars, table, replica, minted>>

\* One load of the guard's scan.
CountOne(w) ==
  /\ request[w].stage = "counting"
  /\ \E id \in request[w].unread : \E match \in Loadable(id) :
       Goes(w, [request[w] EXCEPT !.unread = @ \ {id},
                                  !.concurrent = @ + (IF Counted(match) THEN 1 ELSE 0)])
  /\ UNCHANGED <<ledgerVars, table, replica, minted>>

\* A listed id whose load finds nothing yet: MatchNotFoundError leaves the guard.
CountFails(w) ==
  /\ request[w].stage = "counting"
  /\ LaggingReads /\ \E id \in request[w].unread : replica[id] = None
  /\ Goes(w, NoRequest)
  /\ UNCHANGED <<ledgerVars, table, replica, minted>>

CapsAllow(w) ==
  /\ request[w].concurrent < MaxConcurrent
  /\ request[w].listed < MaxStored

\* Faulty variant: the counts may reach the caps before a request is refused.
AdmitOneMore(w) ==
  /\ request[w].stage = "counting" /\ request[w].unread = {}
  /\ request[w].concurrent <= MaxConcurrent /\ request[w].listed <= MaxStored
  /\ \E id \in MatchIds \ minted, seats \in Seatings :
       /\ minted' = minted \cup {id}
       /\ Goes(w, [NoRequest EXCEPT !.stage = "saving", !.id = id,
                                    !.match = Started(Created(seats))])
  /\ UNCHANGED <<ledgerVars, table, replica>>

\* The guard allows; a new match is built and started, but not stored yet.
\* Bound: MatchIds; once all are minted, every create request is refused.
Admit(w) ==
  /\ request[w].stage = "counting" /\ request[w].unread = {}
  /\ CapsAllow(w)
  /\ \E id \in MatchIds \ minted, seats \in Seatings :
       /\ minted' = minted \cup {id}
       /\ Goes(w, [NoRequest EXCEPT !.stage = "saving", !.id = id,
                                    !.match = Started(Created(seats))])
  /\ UNCHANGED <<ledgerVars, table, replica>>

\* 429 capacity_exceeded.
Refuse(w) ==
  /\ request[w].stage = "counting" /\ request[w].unread = {}
  /\ ~CapsAllow(w)
  /\ Goes(w, NoRequest)
  /\ UNCHANGED <<ledgerVars, table, replica, minted>>

\* The guard allows, and create_match refuses the body: 400.
RejectBody(w) ==
  /\ request[w].stage = "counting" /\ request[w].unread = {}
  /\ CapsAllow(w)
  /\ Goes(w, NoRequest)
  /\ UNCHANGED <<ledgerVars, table, replica, minted>>

-----------------------------------------------------------------------------
(* POST /matches/{id}/turns, /pause, /resume *)

\* outcome_from_match: the scored participants in seat order.
OutcomeOf(match) ==
  [k \in DOMAIN match.seats |->
     [identity |-> IdentityOf[match.seats[k]], score |-> match.result.scores[match.seats[k]]]]

\* record_rating records nothing for a practice match.
Rated(match) == match.status = "completed" /\ Len(match.seats) >= 2

\* The copy a request is going to write.
Carries(w, stage, id, match) ==
  Goes(w, [NoRequest EXCEPT !.stage = stage, !.id = id, !.match = match])

\* Faulty variant: the match is saved before its rating is recorded, and a
\* match that is to be rated is not rated at all.
TakeTurnUnrated(w, id, by, points) ==
  /\ Idle(w)
  /\ \E match \in Loadable(id) :
       /\ by \in Seated(match.seats)
       /\ CanTakeTurn(match, by, points)
       /\ Carries(w, "saving", id, AfterTurn(match, by, points))
  /\ UNCHANGED <<ledgerVars, table, replica, minted>>

\* Load, participant check, turn and completion, up to the first write: the
\* rating of a finished match, the save of any other.
TakeTurn(w, id, by, points) ==
  /\ Idle(w)
  /\ \E match \in Loadable(id) :
       /\ by \in Seated(match.seats)
       /\ CanTakeTurn(match, by, points)
       /\ LET after == AfterTurn(match, by, points) IN
            IF Rated(after)
              THEN Carries(w, "rating", id, after) /\ BeginRecord(w, id, OutcomeOf(after))
              ELSE Carries(w, "saving", id, after) /\ UNCHANGED ledgerVars
  /\ UNCHANGED <<table, replica, minted>>

\* Faulty variant: pausing forgets to check the status.
PauseAnyway(w, id, by) ==
  /\ Idle(w)
  /\ \E match \in Loadable(id) :
       /\ by \in Seated(match.seats)
       /\ Carries(w, "saving", id, Paused(match))
  /\ UNCHANGED <<ledgerVars, table, replica, minted>>

Pause(w, id, by) ==
  /\ Idle(w)
  /\ \E match \in Loadable(id) :
       /\ by \in Seated(match.seats)
       /\ CanPause(match)
       /\ Carries(w, "saving", id, Paused(match))
  /\ UNCHANGED <<ledgerVars, table, replica, minted>>

Resume(w, id, by) ==
  /\ Idle(w)
  /\ \E match \in Loadable(id) :
       /\ by \in Seated(match.seats)
       /\ CanResume(match)
       /\ Carries(w, "saving", id, Resumed(match))
  /\ UNCHANGED <<ledgerVars, table, replica, minted>>

\* One DynamoDB call of record_match.
Rate(w) ==
  /\ request[w].stage = "rating"
  /\ ReadPrior(w) \/ PutEntry(w) \/ TakeOrder(w) \/ PutMarker(w)
  /\ UNCHANGED serviceVars

\* record_match returns: on to the save.
RateDone(w) ==
  /\ request[w].stage = "rating"
  /\ EndRecord(w)
  /\ Goes(w, [request[w] EXCEPT !.stage = "saving"])
  /\ UNCHANGED <<table, replica, minted>>

\* record_match raises: 500, and the match is not saved.
RateFails(w) ==
  /\ request[w].stage = "rating"
  /\ EntryRefused(w)
  /\ Goes(w, NoRequest)
  /\ UNCHANGED <<table, replica, minted>>

\* put_item of the whole match, over whatever is there.
Save(w) ==
  /\ request[w].stage = "saving"
  /\ table' = [table EXCEPT ![request[w].id] = request[w].match]
  /\ replica' = IF LaggingReads THEN replica ELSE table'
  /\ Goes(w, NoRequest)
  /\ UNCHANGED <<ledgerVars, minted>>

-----------------------------------------------------------------------------
(* The environment *)

\* The lagging replica of one item catches up.
Replicate(id) ==
  /\ replica[id] # table[id]
  /\ replica' = [replica EXCEPT ![id] = table[id]]
  /\ UNCHANGED <<ledgerVars, table, minted, request>>

\* The invocation dies (timeout, out of memory, redeploy).
Die(w) ==
  /\ MayCrash
  /\ ~Idle(w)
  /\ Abandon(w)
  /\ Goes(w, NoRequest)
  /\ UNCHANGED <<table, replica, minted>>

\* Bound: no turn is played once an identity has MaxEntries ledger entries.
LedgerHasRoom == \A i \in Identities : Len(entries[i]) < MaxEntries

Step(w) ==
  \/ ListIds(w) \/ CountOne(w) \/ CountFails(w) \/ Admit(w) \/ Refuse(w) \/ RejectBody(w)
  \/ \E id \in MatchIds, by \in Callers, points \in Points :
       LedgerHasRoom /\ TakeTurn(w, id, by, points)
  \/ \E id \in MatchIds, by \in Callers : Pause(w, id, by) \/ Resume(w, id, by)
  \/ Rate(w) \/ RateDone(w) \/ RateFails(w)
  \/ Save(w)
  \/ Die(w)

Next == (\E w \in Writers : Step(w)) \/ (\E id \in MatchIds : Replicate(id))

Spec == Init /\ [][Next]_vars

-----------------------------------------------------------------------------
(* Properties *)

Result(seats) == [winner : Callers \cup {None}, scores : [Seated(seats) -> Nat]]

\* A match between the participants seated in seats, once it has been started.
MatchOf(seats) ==
  [seats  : {seats},
   status : {"active", "paused", "completed"},
   game   : [order : {seats}, scores : [Seated(seats) -> Nat], taken : Nat],
   turns  : Seq([number : Nat, by : Callers, points : Points]),
   result : {None} \cup Result(seats)]

\* Python's None is not a match.
ASSUME NoneIsNoMatch == \A seats \in Seatings : None \notin MatchOf(seats)

IsMatch(m) ==
  /\ m.seats \in Seatings /\ m \in MatchOf(m.seats)
  /\ m.status = "completed" => m.result \in Result(m.seats)

\* A request past its load or its mint carries a match and its id.
RequestOK(r) ==
  /\ DOMAIN r = DOMAIN NoRequest
  /\ r.stage \in {"idle", "counting", "rating", "saving"}
  /\ r.unread \subseteq MatchIds /\ r.listed \in Nat /\ r.concurrent \in Nat
  /\ r.stage \in {"rating", "saving"} => r.id \in MatchIds /\ IsMatch(r.match)

\* The types of the service's state.
ServiceTypeOK ==
  /\ DOMAIN table = MatchIds /\ DOMAIN replica = MatchIds
  /\ \A id \in MatchIds :
       /\ table[id] # None => IsMatch(table[id])
       /\ replica[id] # None => IsMatch(replica[id])
  /\ minted \subseteq MatchIds
  /\ DOMAIN request = Writers
  /\ \A w \in Writers : RequestOK(request[w])

\* The game that the turns lead to from the start.
Replay(seats, turns) ==
  LET game[n \in 0..Len(turns)] ==
        IF n = 0 THEN InitialState(seats)
        ELSE ApplyTurn(game[n - 1], turns[n].by, turns[n].points)
  IN  game[Len(turns)]

\* The recorded turns explain the match: played from the start, each in turn
\* and none after the end, they give its state; and the match is completed,
\* with the right result, exactly when that state is final.
Replays(match) ==
  LET Before(n) == Replay(match.seats, SubSeq(match.turns, 1, n - 1)) IN
  /\ match.game = Replay(match.seats, match.turns)
  /\ \A n \in DOMAIN match.turns :
       /\ match.turns[n].number = n
       /\ match.turns[n].by = OnTurn(Before(n))
       /\ ~IsOver(Before(n))
  /\ match.status = "completed" <=> IsOver(match.game)
  /\ match.result =
       IF match.status = "completed"
         THEN [winner |-> SoleLeader(match.game.scores), scores |-> match.game.scores]
         ELSE None

\* No race, lagging read or crash can tear a stored match: the turn log of
\* match.py replays to the stored state and result.
StoredMatchesReplay ==
  \A id \in MatchIds : table[id] # None => Replays(table[id])

\* Who is rated by a match.
RatedIdentities(match) ==
  IF Rated(match) THEN {IdentityOf[match.seats[k]] : k \in DOMAIN match.seats} ELSE {}

\* A match is never readable as completed while a participant's rating entry
\* for it is missing: matchops.take_turn records before it saves.
CompletedIsRated ==
  \A id \in MatchIds : table[id] # None =>
    \A i \in RatedIdentities(table[id]) : HasEntry(i, id)

\* The leaderboard's match count is the number of completed matches (docs/api.md).
\* This holds while requests run one at a time and none dies.
CountsCompletedMatches ==
  (\A w \in Writers : Idle(w)) =>
    \A i \in Identities :
      Len(entries[i]) =
        Cardinality({id \in MatchIds : table[id] # None /\ i \in RatedIdentities(table[id])})

\* Every match is the atomic state machine of match.py: no turn is lost, no
\* completed match comes back to life.  This holds while requests run one at a
\* time, even if they die.
Lifecycle == INSTANCE MatchLifecycle WITH matches <- table
KeepsLifecycle == Lifecycle!Spec

Open == {id \in MatchIds : table[id] # None /\ Counted(table[id])}

\* docs/capacity.md: at most MaxConcurrent active or paused matches at once, and
\* at most MaxStored in all.  This holds while requests run one at a time.
CapsHold ==
  Cardinality(Open) <= MaxConcurrent
    /\ Cardinality({id \in MatchIds : table[id] # None}) <= MaxStored
=============================================================================
