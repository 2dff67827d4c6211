--------------------------- MODULE SerialService ---------------------------
(***************************************************************************)
(* The match API, remembering whether an invocation has ever died: what    *)
(* the ledger, the table and what the league publishes of both agree on    *)
(* until one has.                                                          *)
(***************************************************************************)
EXTENDS MatchService, PublicRecord

\* What RatingIdentity.__post_init__ lets through, empty strings included.
ASSUME IdentitiesAssumption ==
  \A i \in Identities :
    /\ i \in [kind : {"human", "agent"}, display_name : Nat,
              model : Nat \cup {None}, provider : Nat \cup {None}]
    /\ IsRatingIdentity(i)

\* Python's None is no dict of an item, and no record made of one.
ASSUME NoneIsNoRecord ==
  /\ None \notin [model : Nat, provider : Nat]
  /\ \A seats \in Seatings :
       LET scores == [Seated(seats) -> [type : {"float", "Decimal", "int"}, value : Nat]] IN
       /\ None \notin Result(seats)
       /\ None \notin [winner_participant_id : Callers \cup {None}, scores : scores]
       /\ None \notin [winner : Callers \cup {None}, scores : scores]

VARIABLE died   \* TRUE once an invocation has died

WatchedInit == Init /\ died = FALSE

WatchedNext == Next /\ died' = (died \/ \E w \in Writers : Die(w))

WatchedSpec == WatchedInit /\ [][WatchedNext]_<<vars, died>>

\* docs/api.md: an identity's match count is its number of completed matches.
\* Requests that run one at a time keep it so, until one dies.
CountsUntilDeath == ~died => CountsCompletedMatches

\* ledger.py: all_identities lists every identity with a recorded match, once
\* no writer is at work, and unless one has died before it could register.
ListedUntilDeath == ~died => ListedWhenQuiet

-----------------------------------------------------------------------------
(* The ledger against the dataset *)

LedgerStanding ==
  [i \in Identities |->
     [rating |-> RatingAt(entries[i], Len(entries[i])), match_count |-> Len(entries[i])]]

NewStanding == [rating |-> InitialRating, match_count |-> 0]

\* What a reader of the dataset can tell of a participant, and so of the outcome:
\* the participants who were scored, as outcome_from_match would have them.
IdentityIn(p) ==
  [kind |-> p.kind, display_name |-> p.display_name, model |-> p.model, provider |-> p.provider]

OutcomeIn(line) ==
  LET scored == {k \in DOMAIN line.participants : line.participants[k].hard_score # None}
      Nth(n) == line.participants[CHOOSE k \in scored : Cardinality(scored \cap (1..k)) = n]
  IN  [n \in 1..Cardinality(scored) |->
         [identity |-> IdentityIn(Nth(n)), score |-> Nth(n).hard_score]]

\* Rates one outcome, as record_match would have: from the ratings of those involved.
Rerate(standing, outcome) ==
  LET rated  == {outcome[k].identity : k \in DOMAIN outcome}
      known  == DOMAIN standing \cup rated
      before == [i \in known |-> IF i \in DOMAIN standing THEN standing[i] ELSE NewStanding]
      deltas == ComputeDeltas(
                  [i \in known |-> IF i \in rated THEN before[i].rating ELSE InitialRating],
                  outcome)
  IN  IF Len(outcome) < 2 THEN standing
      ELSE [i \in known |->
              IF i \in rated THEN [rating |-> before[i].rating + deltas[i],
                                   match_count |-> before[i].match_count + 1]
                             ELSE before[i]]

Unrated == [i \in Identities |-> NewStanding]

\* Rates the lines of a dataset, from the first to the last.
Rerated(lines) ==
  LET standing[n \in 0..Len(lines)] ==
        IF n = 0 THEN Unrated ELSE Rerate(standing[n - 1], OutcomeIn(lines[n]))
  IN  standing[Len(lines)]

Finished == {id \in MatchIds : table[id] # None /\ table[id].status = "completed"}

Item(id) == SavedItem(id, table[id], IdentityOf)

ExportOf(ids) == ExportMatches([k \in DOMAIN ids |-> LoadedMatch(Item(ids[k]))])

Rows == Leaderboard(LedgerStanding, markers)

\* Rating the lines of the export in some order, the one in which the matches were
\* recorded, gives the leaderboard, to the rank, in whatever order the ledger lists
\* the identities.
ExportGivesRows ==
  \E ids \in SetToSeqs(Finished) :
    /\ ExportOf(ids).written
    /\ Leaderboard(Rerated(ExportOf(ids).lines), Reverse(markers)) = Rows

\* Each row links to a profile with its own rank.
RowsLeadToProfiles ==
  \A rank \in DOMAIN Rows : RankOf(Rows, SlugIndex(markers)[Rows[rank].profile]) = rank

\* Each participant on the page of a finished duel links to a profile that is there,
\* and is its own.
PagesLeadToProfiles ==
  \A id \in Finished :
    LET page == PageModel(LoadedMatch(Item(id)), LedgerStanding)
    IN  Len(page.participants) > 1 =>
          \A view \in ToSet(page.participants) :
            /\ view.profile \in DOMAIN SlugIndex(markers)
            /\ SlugIndex(markers)[view.profile] = IdentityOf[view.participant_id]

\* docs/architecture.md: results feed the leaderboard and the dataset export.
\* They tell one story: the completed matches can be stored, loaded and exported,
\* their export explains the leaderboard, and the links from both lead to the right
\* profiles.  This holds until an invocation dies between the ledger and the table.
LeaderboardFollowsDataset ==
  ~died /\ (\A w \in Writers : Idle(w)) =>
    /\ \A id \in Finished : Storable(Item(id))
    /\ ExportGivesRows
    /\ RowsLeadToProfiles
    /\ PagesLeadToProfiles
=============================================================================
