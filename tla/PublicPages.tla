----------------------------- MODULE PublicPages -----------------------------
(***************************************************************************)
(* The pages and reports that read matches while they are played and swept:*)
(* the watch page (viewer.wsgi), the profile page (profiles.wsgi,          *)
(* profiles.data), the play hub's list of live matches (play.wsgi), and    *)
(* `ops telemetry` and `ops capacity` (capacity.telemetry, cli.ops).       *)
(*                                                                         *)
(* A reader locks nothing.  It lists the table by one index query per      *)
(* status, one after the other, or takes its ids from the rating ledger,   *)
(* and then loads match after match; the table moves on meanwhile.         *)
(* Readers write nothing, so one of them is enough.                        *)
(*                                                                         *)
(* Of the table, only statuses matter here, and whether the last write of  *)
(* an item has reached every copy: the by-status index orders a status by  *)
(* updated_at, so every save moves the match there, to another place if    *)
(* not to another status.  Modules MatchService and Retention say who      *)
(* writes the table when: a stored match may at any time be saved over, by *)
(* a request that loaded it long ago, or be deleted.                       *)
(***************************************************************************)
EXTENDS Naturals, Sequences, FiniteSets, SequencesExt

CONSTANTS MatchIds,    \* matches
          RecentLimit, \* profiles.data._DEFAULT_RECENT_LIMIT
          MaxHistory,  \* bound: entries of the identity whose profile is read
          MaxMoved     \* bound: matches written while one page is put together

ASSUME PagesAssumption ==
  RecentLimit \in Nat \ {0} /\ MaxHistory \in Nat /\ MaxMoved \in Nat

VARIABLES
  table,    \* table[id]: status of the match in the hot table, or why it has none
  replica,  \* replica[id]: what an eventually consistent read may still see
  moving,   \* the matches whose last write has not reached every copy and the index
  history,  \* the ledger's history of an identity that plays in every match, oldest first
  reader,   \* the page or report that is being put together
  seen      \* history variable: what has been true of each match since it was begun

store == <<table, replica, moving, history>>
publicVars == <<table, replica, moving, history, reader, seen>>

\* No created match is saved: it is started first.
Stored == {"active", "paused", "completed"}
Missing == {"absent"}

NoReader == [page |-> "none"]
Free == reader.page = "none"

Unseen == [id \in MatchIds |-> {}]

PublicInit ==
  /\ table = [id \in MatchIds |-> "absent"]
  /\ replica = table
  /\ moving = {}
  /\ history = << >>
  /\ reader = NoReader
  /\ seen = Unseen

-----------------------------------------------------------------------------
(* The requests and sweeps that go on meanwhile *)

Save(id) ==
  /\ \E status \in Stored :
       /\ status = "completed" => Contains(history, id)
       /\ table' = [table EXCEPT ![id] = status]
  /\ moving' = moving \cup {id}
  /\ UNCHANGED <<replica, history>>

\* A completed match is rated before it is saved; dying in between, a request may
\* have it rated again.
RecordRating(id) ==
  /\ Len(history) < MaxHistory
  /\ history' = Append(history, id)
  /\ UNCHANGED <<table, replica, moving>>

Delete(id) ==
  /\ table[id] \in Stored
  /\ table' = [table EXCEPT ![id] = "absent"]
  /\ moving' = moving \cup {id}
  /\ UNCHANGED <<replica, history>>

Replicate(id) ==
  /\ id \in moving
  /\ replica' = [replica EXCEPT ![id] = table[id]]
  /\ moving' = moving \ {id}
  /\ UNCHANGED <<table, history>>

-----------------------------------------------------------------------------
(* What a reader may come across *)

\* What a load of id may find.
Reads(id) == {table[id], replica[id]}

Gone(id) == Reads(id) \cap Missing # {}

\* What a reader at work, or just beginning, has had a chance to see.
Watching ==
  seen' = IF reader'.page = "none" THEN Unseen
          ELSE [id \in MatchIds |-> {table'[id], replica'[id]}
                                      \cup (IF id \in moving' THEN {"moved"} ELSE {})
                                      \cup IF Free THEN {} ELSE seen[id]]

-----------------------------------------------------------------------------
(* Reports: list_ids, then a load for each id listed *)

\* kind: the statuses the report counts.  strict: whether a missing match ends it.
Telemetry == [counts |-> {"completed"}, strict |-> TRUE]
Capacity  == [counts |-> {"active", "paused"}, strict |-> TRUE]
Hub       == [counts |-> {"active", "paused"}, strict |-> FALSE]

\* MatchStatus in its order of declaration; the query for created ones finds none.
ListOrder == <<"active", "paused", "completed">>

BeginReport(kind) ==
  /\ Free
  /\ reader' = [page |-> "report", kind |-> kind, queries |-> ListOrder,
                left |-> [id \in MatchIds |-> 0], tally |-> [id \in MatchIds |-> 0]]

\* How often the query for a status, page after page, may come across each match.
\* A match at rest stands in one place of the index.  One on the move may be found
\* in its old place or its new one, in both if both are of this status, or, with
\* the new place read before the write and the old one after it, in neither.
Query(status) ==
  {found \in [MatchIds -> 0..2] :
     \A id \in MatchIds :
       /\ found[id] > 0 => status \in Reads(id)
       /\ found[id] > 1 => Reads(id) = {status} /\ id \in moving
       /\ Reads(id) = {status} /\ id \notin moving => found[id] = 1}

\* list_ids keeps an id as often as it is found.
NextQuery ==
  /\ reader.page = "report" /\ reader.queries # << >>
  /\ \E found \in Query(Head(reader.queries)) :
       reader' = [reader EXCEPT !.queries = Tail(@),
                    !.left = [id \in MatchIds |-> @[id] + found[id]]]

Loads(id) == reader.page = "report" /\ reader.queries = << >> /\ reader.left[id] > 0

\* Faulty variant: what is listed is counted, whatever its load says.
CountLoadedUnread(id) ==
  /\ Loads(id)
  /\ Reads(id) \cap Stored # {}
  /\ reader' = [reader EXCEPT !.left[id] = @ - 1, !.tally[id] = @ + 1]

\* The sum a report prints is the sum of its tally.
CountLoaded(id) ==
  /\ Loads(id)
  /\ \E status \in Reads(id) \cap Stored :
       reader' = [reader EXCEPT !.left[id] = @ - 1,
                    !.tally[id] = IF status \in reader.kind.counts THEN @ + 1 ELSE @]

\* MatchNotFoundError: the hub leaves the match out, an operator's report fails.
LoadGone(id) ==
  /\ Loads(id)
  /\ Gone(id)
  /\ reader' = IF reader.kind.strict THEN NoReader ELSE [reader EXCEPT !.left[id] = @ - 1]

Reported ==
  /\ reader.page = "report" /\ reader.queries = << >>
  /\ \A id \in MatchIds : reader.left[id] = 0

-----------------------------------------------------------------------------
(* Profiles and the watch page *)

\* build_profile: the standing, and from its history the matches to load.  The query
\* for the entries is not a consistent one: the newest may be missing.
BeginProfile ==
  /\ Free
  /\ \E n \in 1..Len(history) :
       LET entries == SubSeq(history, 1, n)
       IN  reader' = [page |-> "profile", entries |-> entries,
                      todo |-> Reverse(entries), recent |-> << >>]

Assembling ==
  reader.page = "profile" /\ reader.todo # << >> /\ Len(reader.recent) < RecentLimit

\* _summarize_match, of a match completed or not.
Summary(id, status) == [id |-> id, scored |-> status = "completed"]

LoadRecent ==
  /\ Assembling
  /\ \E status \in Reads(Head(reader.todo)) \cap Stored :
       reader' = [reader EXCEPT !.todo = Tail(@),
                    !.recent = Append(@, Summary(Head(reader.todo), status))]

\* Faulty variant: the page ends with the first match that is gone.
SkipMissingAndRest ==
  /\ Assembling
  /\ Gone(Head(reader.todo))
  /\ reader' = [reader EXCEPT !.todo = << >>]

\* A match the ledger remembers and the table no longer has is passed over.
SkipMissing ==
  /\ Assembling
  /\ Gone(Head(reader.todo))
  /\ reader' = [reader EXCEPT !.todo = Tail(@)]

ProfileDone == reader.page = "profile" /\ ~Assembling

\* The watch page is one load of the hot table; the archive is never asked.
Watch(id) ==
  /\ Free
  /\ \E status \in Reads(id) : reader' = [page |-> "watch", shows |-> status]

EndPage ==
  /\ Reported \/ ProfileDone \/ reader.page = "watch"
  /\ reader' = NoReader

PageStep ==
  \/ \E kind \in {Telemetry, Capacity, Hub} : BeginReport(kind)
  \/ NextQuery
  \/ \E id \in MatchIds : CountLoaded(id) \/ LoadGone(id) \/ Watch(id)
  \/ BeginProfile \/ LoadRecent \/ SkipMissing
  \/ EndPage

-----------------------------------------------------------------------------
PublicNext ==
  /\ \/ PageStep /\ UNCHANGED store
     \/ /\ \E id \in MatchIds : Save(id) \/ RecordRating(id) \/ Delete(id) \/ Replicate(id)
        /\ UNCHANGED reader
  /\ Watching
  /\ Cardinality({id \in MatchIds : "moved" \in seen'[id]}) <= MaxMoved

PublicSpec == PublicInit /\ [][PublicNext]_publicVars

-----------------------------------------------------------------------------
(* Properties *)

\* telemetry.py: completed_matches is the number of matches in the store with
\* status COMPLETED; guard.py and play.wsgi count the active and paused ones in the
\* same way, and list_ids promises them every match id.  A report that goes through
\* has a match that rested throughout exactly once if it is of a status the report
\* counts, and no match that never was of such a status.  No more holds: one that is
\* paused, resumed or saved again while the index is read may be counted twice or
\* be missed.
ReportsCountOnce ==
  Reported =>
    \A id \in MatchIds :
      LET counted == reader.tally[id]
          counts  == reader.kind.counts
      IN  /\ "moved" \notin seen[id] => counted = (IF seen[id] \subseteq counts THEN 1 ELSE 0)
          /\ seen[id] \cap counts = {} => counted = 0

\* profiles.data: recent matches come from the ledger's history, most recent
\* first, capped at the limit, and a match the store no longer has is skipped.
\* What the page shows are entries of that history, in its order; a match that was
\* stored throughout is one of them, unless newer ones have filled the page: the
\* missing take no room.
ProfileShowsRecent ==
  ProfileDone =>
    LET Steady(id) == seen[id] \cap Missing = {}
        newest == Reverse(reader.entries)
        shown  == reader.recent
    IN  /\ Len(shown) <= RecentLimit
        /\ \E place \in [DOMAIN shown -> DOMAIN newest] :
             /\ \A k, m \in DOMAIN shown : k < m => place[k] < place[m]
             /\ \A k \in DOMAIN shown : shown[k].id = newest[place[k]]
             /\ \A p \in DOMAIN newest : Steady(newest[p]) =>
                  \/ \E k \in DOMAIN shown : place[k] = p
                  \/ Len(shown) = RecentLimit /\ \A k \in DOMAIN shown : place[k] < p
=============================================================================
