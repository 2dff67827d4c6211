------------------------------ MODULE Retention ------------------------------
(***************************************************************************)
(* How long a match is kept: the sweep of league_site/aws_lambda/cleanup.py*)
(* over the hot DynamoDB table and the S3 archive, next to the requests    *)
(* that play matches and the operator's `match archive --apply`.           *)
(*                                                                         *)
(* A worker runs one job at a time; its calls to DynamoDB and S3 are       *)
(* separate steps.  A sweep lists and loads the table (pass 1, "stale"),   *)
(* lists the archive (pass 2, "aged"), lists and loads the table again and *)
(* archives its overflow (pass 3, "load" and "overflow").  Archiving a     *)
(* match is a put into S3 followed by a delete from the table.             *)
(*                                                                         *)
(* Time is counted in days, and no job is running when a day ends: a       *)
(* request lasts at most 29 seconds and a sweep 60 (infra/template.yaml),  *)
(* and a sweep reads its clock once.                                       *)
(***************************************************************************)
EXTENDS Integers, FiniteSets

CONSTANTS MatchIds,       \* the matches that can be created
          Workers,        \* concurrent invocations
          MaxStored,      \* CapacityConfig.max_stored_matches
          MaxHot,         \* CapacityConfig.max_match_age_days_hot
          MaxArchive,     \* CapacityConfig.max_archive_age_days
          MaxTurns,       \* bound: turns of a match
          LaggingReads,   \* TRUE: table reads and listings may be out of date
          MayCrash,       \* TRUE: a job may die, or a call of it fail, at any step
          SweepsOverlap,  \* TRUE: sweeps and operator archives may overlap
          None

ASSUME RetentionAssumption ==
  /\ {MaxStored, MaxHot, MaxArchive} \subseteq Nat \ {0} /\ MaxTurns \in Nat
  /\ {LaggingReads, MayCrash, SweepsOverlap} \subseteq BOOLEAN
  /\ IsFiniteSet(MatchIds) /\ None \notin MatchIds

VARIABLES
  table,    \* table[id]: the match in the hot table, None when there is none
  replica,  \* replica[id]: what an eventually consistent read may still see
  archive,  \* archive[id]: the object in S3, None when there is none
  fate,     \* fate[id]: "unsaved", "kept", or "expired" once an aged archive was deleted
  job       \* job[w]: what worker w is doing

vars == <<table, replica, archive, fate, job>>

\* Ages are in whole days since updated_at or LastModified, and stop counting
\* at the window they are compared with.  "live": active or paused.
Match == [status : {"live", "completed"}, turns : 0..MaxTurns, age : 0..MaxHot]
Object == [status : {"live", "completed"}, turns : 0..MaxTurns, age : 0..MaxArchive]

ASSUME NoneIsNoRecord == None \notin Match \cup Object

\* todo: ids the current pass has still to visit.  id, copy: the match in hand.
\* loaded: what pass 3 has loaded.  quota: how many more it may archive.
\* start: the table and the archive as the sweep began (for the properties).
NoJob == [pass |-> "idle", step |-> "visit", dry |-> FALSE, todo |-> {}, id |-> None,
          copy |-> None, loaded |-> {}, quota |-> 0, removed |-> {}, actions |-> {},
          start |-> None]

Sweeping == {"stale", "aged", "load", "overflow"}

\* Who can delete anything.
Removing == Sweeping \cup {"operator"}

Init ==
  /\ table = [id \in MatchIds |-> None]
  /\ replica = table
  /\ archive = [id \in MatchIds |-> None]
  /\ fate = [id \in MatchIds |-> "unsaved"]
  /\ job = [w \in Workers |-> NoJob]

Does(w, j) == job' = [job EXCEPT ![w] = j]
Idle(w) == job[w].pass = "idle"

Stored == {id \in MatchIds : table[id] # None}
Archived == {id \in MatchIds : archive[id] # None}

\* list_ids: the index may lack new matches and still hold deleted ones.
Listings ==
  IF LaggingReads THEN SUBSET (Stored \cup {id \in MatchIds : replica[id] # None})
                  ELSE {Stored}

\* What a load may return; None is MatchNotFoundError.
Reads(id) == IF LaggingReads THEN {table[id], replica[id]} ELSE {table[id]}

\* A write to the table; without lag the replica follows at once.
Writes(id, match) ==
  /\ table' = [table EXCEPT ![id] = match]
  /\ replica' = IF LaggingReads THEN replica ELSE table'

-----------------------------------------------------------------------------
(* Playing a match (MatchService has the details) *)

Create(w, id) ==
  /\ Idle(w)
  /\ fate[id] = "unsaved"
  /\ Writes(id, [status |-> "live", turns |-> 0, age |-> 0])
  /\ fate' = [fate EXCEPT ![id] = "kept"]
  /\ UNCHANGED <<archive, job>>

\* A request loads a match and plays a turn, which may be the last.
Play(w, id) ==
  /\ Idle(w)
  /\ \E match \in Reads(id) \ {None}, status \in {"live", "completed"} :
       /\ match.status = "live" /\ match.turns < MaxTurns
       /\ Does(w, [NoJob EXCEPT !.pass = "play", !.id = id,
                     !.copy = [status |-> status, turns |-> match.turns + 1, age |-> 0]])
  /\ UNCHANGED <<table, replica, archive, fate>>

\* ... and saves its copy over whatever is there.
SavePlay(w) ==
  /\ job[w].pass = "play"
  /\ Writes(job[w].id, job[w].copy)
  /\ Does(w, NoJob)
  /\ UNCHANGED <<archive, fate>>

-----------------------------------------------------------------------------
(* The sweep *)

\* No other sweep or operator archive is running, if they may not overlap.
Alone(w) ==
  SweepsOverlap \/ \A v \in Workers \ {w} : job[v].pass \notin Removing

\* run_cleanup begins: pass 1 lists the table.
BeginSweep(w, dry) ==
  /\ Idle(w) /\ Alone(w)
  /\ \E ids \in Listings :
       Does(w, [NoJob EXCEPT !.pass = "stale", !.dry = dry, !.todo = ids,
                             !.start = [table |-> table, archive |-> archive]])
  /\ UNCHANGED <<table, replica, archive, fate>>

Kinds == {"archive_hot_stale", "delete_aged_archive", "archive_overflow"}
Action(kind, id) == [kind |-> kind, id |-> id]

\* Faulty variants: the comparisons with the window are the wrong way round.
IsStaleSwapped(match) == match.status = "completed" /\ match.age < MaxHot
IsAgedSwapped(object) == object.age < MaxArchive

IsStale(match) == match.status = "completed" /\ match.age >= MaxHot

\* Faulty variant: the put is left out.
TakesWithoutPut(j, kind, id, match) ==
  [j EXCEPT !.actions = @ \cup {Action(kind, id)}, !.removed = @ \cup {id},
            !.id = id, !.copy = match, !.step = IF j.dry THEN "visit" ELSE "delete"]

\* Job j once it has decided to archive the match it loaded as id.
Takes(j, kind, id, match) ==
  [j EXCEPT !.actions = @ \cup {Action(kind, id)}, !.removed = @ \cup {id},
            !.id = id, !.copy = match,
            !.step = IF j.dry THEN "visit" ELSE "put"]

\* Faulty variant: a match is swept by its age alone.
VisitStaleByAge(w) ==
  /\ job[w].pass = "stale" /\ job[w].step = "visit"
  /\ \E id \in job[w].todo : \E match \in Reads(id) \ {None} :
       LET next == [job[w] EXCEPT !.todo = @ \ {id}] IN
       Does(w, IF match.age >= MaxHot
                 THEN Takes(next, "archive_hot_stale", id, match)
                 ELSE next)
  /\ UNCHANGED <<table, replica, archive, fate>>

\* _archive_hot_stale loads the next id.
VisitStale(w) ==
  /\ job[w].pass = "stale" /\ job[w].step = "visit"
  /\ \E id \in job[w].todo : \E match \in Reads(id) \ {None} :
       LET next == [job[w] EXCEPT !.todo = @ \ {id}] IN
       Does(w, IF IsStale(match) THEN Takes(next, "archive_hot_stale", id, match) ELSE next)
  /\ UNCHANGED <<table, replica, archive, fate>>

\* A listed id is gone when it is loaded: the sweep ends with MatchNotFoundError.
VisitMissing(w) ==
  /\ job[w].pass \in {"stale", "load"} /\ job[w].step = "visit"
  /\ \E id \in job[w].todo : None \in Reads(id)
  /\ Does(w, NoJob)
  /\ UNCHANGED <<table, replica, archive, fate>>

\* _archive_and_delete: the put.
PutArchive(w) ==
  /\ job[w].step = "put"
  /\ archive' = [archive EXCEPT ![job[w].id] =
       [status |-> job[w].copy.status, turns |-> job[w].copy.turns, age |-> 0]]
  /\ Does(w, [job[w] EXCEPT !.step = "delete"])
  /\ UNCHANGED <<table, replica, fate>>

\* _archive_and_delete: the delete, of whatever the table holds by now.
DeleteHot(w) ==
  /\ job[w].step = "delete"
  /\ Writes(job[w].id, None)
  /\ Does(w, IF job[w].pass = "operator" THEN NoJob
             ELSE [job[w] EXCEPT !.step = "visit", !.id = None, !.copy = None])
  /\ UNCHANGED <<archive, fate>>

IsAged(object) == object.age >= MaxArchive

\* Pass 2 lists the archive.
ListAged(w) ==
  /\ job[w].pass = "stale" /\ job[w].step = "visit" /\ job[w].todo = {}
  /\ Does(w, [job[w] EXCEPT !.pass = "aged",
                            !.todo = {id \in Archived : IsAged(archive[id])}])
  /\ UNCHANGED <<table, replica, archive, fate>>

\* _delete_aged_archives deletes the next object listed, whatever it is by now.
DeleteAged(w) ==
  /\ job[w].pass = "aged"
  /\ \E id \in job[w].todo :
       /\ Does(w, [job[w] EXCEPT !.todo = @ \ {id},
                                 !.actions = @ \cup {Action("delete_aged_archive", id)}])
       /\ IF job[w].dry \/ archive[id] = None
            THEN UNCHANGED <<archive, fate>>
            ELSE /\ archive' = [archive EXCEPT ![id] = None]
                 /\ fate' = IF IsAged(archive[id]) THEN [fate EXCEPT ![id] = "expired"]
                                                   ELSE fate
  /\ UNCHANGED <<table, replica>>

\* Faulty variant: the cap may be exceeded by one.
ListOverflowLate(w) ==
  /\ job[w].pass = "aged" /\ job[w].todo = {}
  /\ \E ids \in Listings :
       LET remaining == ids \ job[w].removed
           overflow  == Cardinality(remaining) - MaxStored - 1
       IN  Does(w, IF overflow <= 0 THEN [job[w] EXCEPT !.pass = "done"]
                   ELSE [job[w] EXCEPT !.pass = "load", !.todo = remaining,
                                       !.quota = overflow])
  /\ UNCHANGED <<table, replica, archive, fate>>

\* Pass 3 lists the table again.
ListOverflow(w) ==
  /\ job[w].pass = "aged" /\ job[w].todo = {}
  /\ \E ids \in Listings :
       LET remaining == ids \ job[w].removed
           overflow  == Cardinality(remaining) - MaxStored
       IN  Does(w, IF overflow <= 0 THEN [job[w] EXCEPT !.pass = "done"]
                   ELSE [job[w] EXCEPT !.pass = "load", !.todo = remaining,
                                       !.quota = overflow])
  /\ UNCHANGED <<table, replica, archive, fate>>

\* _archive_overflow loads the next remaining id and keeps it if completed.
LoadOverflow(w) ==
  /\ job[w].pass = "load"
  /\ \E id \in job[w].todo : \E match \in Reads(id) \ {None} :
       Does(w, [job[w] EXCEPT !.todo = @ \ {id},
                  !.loaded = IF match.status = "completed"
                               THEN @ \cup {[id |-> id, match |-> match]} ELSE @])
  /\ UNCHANGED <<table, replica, archive, fate>>

Sorted(w) ==
  /\ job[w].pass = "load" /\ job[w].todo = {}
  /\ Does(w, [job[w] EXCEPT !.pass = "overflow"])
  /\ UNCHANGED <<table, replica, archive, fate>>

\* Faulty variant: the newest completed match goes first.
TakeNewest(w) ==
  /\ job[w].pass = "overflow" /\ job[w].step = "visit" /\ job[w].quota > 0
  /\ \E c \in job[w].loaded :
       /\ \A d \in job[w].loaded : d.match.age >= c.match.age
       /\ Does(w, Takes([job[w] EXCEPT !.loaded = @ \ {c}, !.quota = @ - 1],
                        "archive_overflow", c.id, c.match))
  /\ UNCHANGED <<table, replica, archive, fate>>

\* The oldest completed match that is left goes next.
TakeOldest(w) ==
  /\ job[w].pass = "overflow" /\ job[w].step = "visit" /\ job[w].quota > 0
  /\ \E c \in job[w].loaded :
       /\ \A d \in job[w].loaded : d.match.age <= c.match.age
       /\ Does(w, Takes([job[w] EXCEPT !.loaded = @ \ {c}, !.quota = @ - 1],
                        "archive_overflow", c.id, c.match))
  /\ UNCHANGED <<table, replica, archive, fate>>

LastTaken(w) ==
  /\ job[w].pass = "overflow" /\ job[w].step = "visit"
  /\ job[w].quota = 0 \/ job[w].loaded = {}
  /\ Does(w, [job[w] EXCEPT !.pass = "done"])
  /\ UNCHANGED <<table, replica, archive, fate>>

\* run_cleanup returns its report.
EndSweep(w) ==
  /\ job[w].pass = "done"
  /\ Does(w, NoJob)
  /\ UNCHANGED <<table, replica, archive, fate>>

\* The steps of a sweep already begun.
SweepStep(w) ==
  \/ VisitStale(w) \/ VisitMissing(w) \/ PutArchive(w) \/ DeleteHot(w)
  \/ ListAged(w) \/ DeleteAged(w)
  \/ ListOverflow(w) \/ LoadOverflow(w) \/ Sorted(w) \/ TakeOldest(w) \/ LastTaken(w)
  \/ EndSweep(w)

-----------------------------------------------------------------------------
(* The operator and the environment *)

\* `match archive <id> --apply` loads a match, in whatever status; the put and
\* the delete follow.
OperatorArchive(w, id) ==
  /\ Idle(w) /\ Alone(w)
  /\ \E match \in Reads(id) \ {None} :
       Does(w, [NoJob EXCEPT !.pass = "operator", !.step = "put", !.id = id, !.copy = match])
  /\ UNCHANGED <<table, replica, archive, fate>>

Die(w) ==
  /\ MayCrash
  /\ ~Idle(w)
  /\ Does(w, NoJob)
  /\ UNCHANGED <<table, replica, archive, fate>>

Replicate(id) ==
  /\ replica[id] # table[id]
  /\ replica' = [replica EXCEPT ![id] = table[id]]
  /\ UNCHANGED <<table, archive, fate, job>>

\* store with every record a day older, up to the limit.
Older(store, limit) ==
  [id \in MatchIds |->
     IF store[id] = None THEN None
     ELSE [store[id] EXCEPT !.age = IF @ < limit THEN @ + 1 ELSE @]]

\* A day ends: nothing runs, and the replicas have long caught up.
Day ==
  /\ \A w \in Workers : Idle(w)
  /\ replica = table
  /\ table' = Older(table, MaxHot)
  /\ replica' = table'
  /\ archive' = Older(archive, MaxArchive)
  /\ UNCHANGED <<fate, job>>

Next ==
  \/ \E w \in Workers :
       \/ \E id \in MatchIds : Create(w, id) \/ Play(w, id) \/ OperatorArchive(w, id)
       \/ \E dry \in BOOLEAN : BeginSweep(w, dry)
       \/ SavePlay(w) \/ SweepStep(w) \/ Die(w)
  \/ \E id \in MatchIds : Replicate(id)
  \/ Day

Spec == Init /\ [][Next]_vars

\* A job that has begun goes on; days go by; and the schedule starts a real
\* sweep again and again (EventBridge, rate(1 day)), however many previews and
\* requests come in between.
Fairness ==
  /\ \A w \in Workers :
       WF_vars(SavePlay(w) \/ SweepStep(w)) /\ SF_vars(BeginSweep(w, FALSE))
  /\ SF_vars(Day)

FairSpec == Spec /\ Fairness

-----------------------------------------------------------------------------
(* Properties *)

Job ==
  [pass : {"idle", "play", "done"} \cup Removing, step : {"visit", "put", "delete"},
   dry : BOOLEAN, todo : SUBSET MatchIds, id : MatchIds \cup {None},
   copy : Match \cup {None}, loaded : SUBSET [id : MatchIds, match : Match],
   quota : Int, removed : SUBSET MatchIds,
   actions : SUBSET [kind : Kinds, id : MatchIds],
   start : {None} \cup [table : [MatchIds -> Match \cup {None}],
                        archive : [MatchIds -> Object \cup {None}]]]

\* What a job between the decision and the delete has in hand: a completed
\* match, unless the operator chose it, and never in a dry run.
HandOK(j) ==
  j.step \in {"put", "delete"} =>
    /\ j.id \in MatchIds /\ j.copy \in Match /\ ~j.dry
    /\ j.pass # "operator" => j.copy.status = "completed"

\* The types of the tables and the jobs, and that only what was saved is stored.
TypeOK ==
  /\ table \in [MatchIds -> Match \cup {None}]
  /\ replica \in [MatchIds -> Match \cup {None}]
  /\ archive \in [MatchIds -> Object \cup {None}]
  /\ fate \in [MatchIds -> {"unsaved", "kept", "expired"}]
  /\ \A id \in Stored \cup Archived : fate[id] # "unsaved"
  /\ job \in [Workers -> Job]
  /\ \A w \in Workers : HandOK(job[w])

\* docs/capacity.md: a match is in the hot table or in the archive until its
\* archive is max_archive_age_days old.  The put before the delete and pass 1
\* before pass 2 make this survive crashes, failing calls, lagging reads and
\* the requests that run meanwhile, as long as sweeps do not overlap.
RetainedUntilAged ==
  \A id \in MatchIds : fate[id] = "kept" => id \in Stored \cup Archived

Live(id) == table[id] # None /\ table[id].status = "live"

\* cleanup.py: only completed matches are ever archived, for anything else would
\* throw away live game state.  Only the operator removes a live match.
OnlyOperatorDropsLive ==
  [][\A id \in MatchIds :
       Live(id) /\ table'[id] = None =>
         \E w \in Workers : job[w].pass = "operator" /\ job[w].id = id]_vars

\* A real sweep that finishes undisturbed leaves at most max_stored_matches in
\* the hot table, or nothing completed to archive.  This is for one worker at a
\* time and reads that do not lag.
SweepMeetsCap ==
  \A w \in Workers :
    job[w].pass = "done" /\ ~job[w].dry =>
      Cardinality(Stored) <= MaxStored \/ \A id \in Stored : Live(id)

\* The action sets that a dry run can report for a table t and an archive a: the
\* stale matches, the aged archives, and of the rest the oldest completed ones
\* that exceed the cap (equal ages in either order).
Previews(t, a) ==
  LET stored    == {id \in MatchIds : t[id] # None}
      stale     == {id \in stored : IsStale(t[id])}
      aged      == {id \in MatchIds : a[id] # None /\ IsAged(a[id])}
      remaining == stored \ stale
      completed == {id \in remaining : t[id].status = "completed"}
      overflow  == Cardinality(remaining) - MaxStored
      OldestFirst(ids) ==
        /\ Cardinality(ids) = IF overflow <= 0 THEN 0
                              ELSE IF overflow < Cardinality(completed) THEN overflow
                              ELSE Cardinality(completed)
        /\ \A id \in ids, other \in completed \ ids : t[other].age <= t[id].age
  IN  { {Action("archive_hot_stale", id) : id \in stale}
          \cup {Action("delete_aged_archive", id) : id \in aged}
          \cup {Action("archive_overflow", id) : id \in ids}
        : ids \in {s \in SUBSET completed : OldestFirst(s)} }

\* cleanup.py and docs/operations.md: dry run and real run compute the identical
\* action list.  A sweep that finishes undisturbed has done what a dry run from
\* where it started reports.
RealRunMatchesPreview ==
  \A w \in Workers :
    job[w].pass = "done" =>
      job[w].actions \in Previews(job[w].start.table, job[w].start.archive)

\* Storage is bounded in time: a completed match leaves the hot table ...
CompletedLeavesHot ==
  \A id \in MatchIds : id \in Stored /\ ~Live(id) ~> id \notin Stored

\* ... and an archive is deleted in the end.
ArchiveExpires ==
  \A id \in MatchIds : id \in Archived ~> id \notin Archived
=============================================================================
