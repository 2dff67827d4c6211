--------------------------- MODULE RetentionProofs ---------------------------
(***************************************************************************)
(* That no match is lost before its archive has aged, for any number of    *)
(* matches and workers, whatever the crashes, the lag of the reads and the *)
(* requests that run beside a sweep, as long as sweeps do not overlap.     *)
(*                                                                         *)
(* The argument: a job that is about to delete a match from the table has  *)
(* put it into the archive; only another sweep could take it out again, and*)
(* there is none; and what pass 2 deletes has aged and stays aged, because *)
(* the same sweep puts nothing while it deletes.                           *)
(*                                                                         *)
(* And, for one worker with reads that are up to date: that it never sweeps*)
(* a live match, for what it has loaded as completed stays so until it is  *)
(* deleted; that a finished sweep leaves the cap met; and that it has done *)
(* what a dry run would have reported.  The last two follow what each pass *)
(* has visited, chosen and deleted from the table and the archive as the   *)
(* sweep began, which its job records.                                     *)
(***************************************************************************)
EXTENDS Retention, FiniteSetTheorems, TLAPS

\* The tables t and r, the archive a and the fates f agree: what is stored was
\* saved, and what is kept is stored.
StoreOK(t, r, a, f) ==
  /\ t \in [MatchIds -> Match \cup {None}]
  /\ r \in [MatchIds -> Match \cup {None}]
  /\ a \in [MatchIds -> Object \cup {None}]
  /\ f \in [MatchIds -> {"unsaved", "kept", "expired"}]
  /\ \A id \in MatchIds : t[id] # None \/ r[id] # None \/ a[id] # None => f[id] # "unsaved"
  /\ \A id \in MatchIds : f[id] = "kept" => t[id] # None \/ a[id] # None

\* What a job j relies on, given the archive a and the fates f.
JobOK(j, a, f) ==
  /\ HandOK(j)
  /\ j.pass \in {"idle", "play", "aged", "load", "done"} => j.step = "visit"
  /\ j.pass = "play" => j.id \in MatchIds /\ j.copy \in Match
  /\ \A c \in j.loaded : c.match.status = "completed" /\ f[c.id] # "unsaved"
  /\ j.id # None => f[j.id] # "unsaved"
  /\ j.step = "delete" => a[j.id] # None
  /\ j.pass = "aged" => \A id \in j.todo : a[id] = None \/ IsAged(a[id])

OneRemoves ==
  \A v, w \in Workers : job[v].pass \in Removing /\ job[w].pass \in Removing => v = w

RetentionInv ==
  /\ StoreOK(table, replica, archive, fate)
  /\ job \in [Workers -> Job]
  /\ \A w \in Workers : JobOK(job[w], archive, fate)
  /\ OneRemoves

-----------------------------------------------------------------------------

LEMMA NoJobOK ==
  ASSUME NEW a, NEW f
  PROVE  /\ NoJob \in Job /\ JobOK(NoJob, a, f)
         /\ NoJob.pass = "idle" /\ NoJob.loaded = {} /\ NoJob.id = None
         /\ NoJob.step = "visit" /\ NoJob.todo = {} /\ NoJob.dry = FALSE
BY DEF NoJob, Job, JobOK, HandOK

\* A job stays in order while nobody else touches the archive, or while it
\* removes nothing itself.
LEMMA JobStays ==
  ASSUME NEW j \in Job, NEW a, NEW f, NEW b, NEW g, JobOK(j, a, f),
         \A id \in MatchIds : f[id] # "unsaved" => g[id] # "unsaved",
         b = a \/ j.pass \notin Removing
  PROVE  JobOK(j, b, g)
<1>1. /\ j.id \in MatchIds \cup {None}
      /\ \A c \in j.loaded : c.id \in MatchIds
      /\ j.pass \in {"idle", "play", "done"} \cup Removing
  BY DEF Job
<1>2. CASE b = a
  BY <1>1, <1>2 DEF JobOK
<1>3. CASE j.pass \notin Removing
  <2>1. j.pass \in {"idle", "play", "done"}
    BY <1>1, <1>3
  <2> QED
    BY <1>1, <2>1 DEF JobOK
<1> QED
  BY <1>2, <1>3

\* Worker w goes on with j, the tables being in order afterwards.
LEMMA JobStep ==
  ASSUME RetentionInv, NEW w \in Workers, NEW j, Does(w, j), j \in Job,
         JobOK(j, archive', fate'), StoreOK(table', replica', archive', fate'),
         \A id \in MatchIds : fate[id] # "unsaved" => fate'[id] # "unsaved",
         archive' = archive \/ job[w].pass \in Removing,
         j.pass \in Removing =>
           job[w].pass \in Removing
             \/ \A v \in Workers \ {w} : job[v].pass \notin Removing
  PROVE  RetentionInv'
<1>1. /\ job \in [Workers -> Job] /\ OneRemoves
      /\ \A v \in Workers : JobOK(job[v], archive, fate)
  BY DEF RetentionInv
<1>2. /\ job' \in [Workers -> Job] /\ job'[w] = j
      /\ \A v \in Workers \ {w} : job'[v] = job[v]
  BY <1>1 DEF Does
<1>3. ASSUME NEW v \in Workers, v # w
      PROVE  JobOK(job'[v], archive', fate')
  <2>1. job[v] \in Job /\ JobOK(job[v], archive, fate)
    BY <1>1
  <2>2. archive' = archive \/ job[v].pass \notin Removing
    BY <1>1, <1>3 DEF OneRemoves
  <2>3. JobOK(job[v], archive', fate')
    BY <2>1, <2>2, JobStays
  <2> QED
    BY <1>2, <1>3, <2>3
<1>4. OneRemoves'
  BY <1>1, <1>2 DEF OneRemoves
<1> QED
  BY <1>2, <1>3, <1>4 DEF RetentionInv

\* What a load returns is a match that was saved.
LEMMA ReadOK ==
  ASSUME RetentionInv, NEW id \in MatchIds, NEW match \in Reads(id) \ {None}
  PROVE  match \in Match /\ fate[id] # "unsaved"
BY DEF RetentionInv, StoreOK, Reads

\* A step in which only w's job changes.
LEMMA QuietStep ==
  ASSUME RetentionInv, NEW w \in Workers, NEW j, Does(w, j), j \in Job,
         UNCHANGED <<table, replica, archive, fate>>, JobOK(j, archive, fate),
         j.pass \in Removing =>
           job[w].pass \in Removing
             \/ \A v \in Workers \ {w} : job[v].pass \notin Removing
  PROVE  RetentionInv'
<1>1. StoreOK(table', replica', archive', fate') /\ JobOK(j, archive', fate')
  BY DEF RetentionInv
<1> QED
  BY <1>1, JobStep

LEMMA WorkerOK ==
  ASSUME RetentionInv, NEW w \in Workers
  PROVE  job[w] \in Job /\ JobOK(job[w], archive, fate)
BY DEF RetentionInv

LEMMA TakesOK ==
  ASSUME NEW j \in Job, NEW kind \in Kinds, NEW id \in MatchIds, NEW match \in Match,
         NEW a, NEW f, JobOK(j, a, f), j.pass \in {"stale", "overflow"},
         j.step = "visit", match.status = "completed", f[id] # "unsaved"
  PROVE  /\ Takes(j, kind, id, match) \in Job
         /\ JobOK(Takes(j, kind, id, match), a, f)
         /\ Takes(j, kind, id, match).pass = j.pass
<1> DEFINE k == Takes(j, kind, id, match)
<1>1. Action(kind, id) \in [kind : Kinds, id : MatchIds]
  BY DEF Action
<1>2. k \in Job
  BY <1>1 DEF Takes, Job
<1>3. /\ k.pass = j.pass /\ k.id = id /\ k.copy = match /\ k.dry = j.dry
      /\ k.loaded = j.loaded /\ k.step = IF j.dry THEN "visit" ELSE "put"
  BY DEF Takes, Job
<1>4. JobOK(k, a, f)
  BY <1>3 DEF JobOK, HandOK, Job
<1> QED
  BY <1>2, <1>3, <1>4

-----------------------------------------------------------------------------
(* The steps of a sweep *)

LEMMA VisitStaleStep ==
  ASSUME RetentionInv, NEW w \in Workers, VisitStale(w)
  PROVE  RetentionInv'
<1>1. job[w] \in Job /\ JobOK(job[w], archive, fate)
  BY WorkerOK
<1>2. PICK id \in job[w].todo : \E match \in Reads(id) \ {None} :
        LET next == [job[w] EXCEPT !.todo = @ \ {id}] IN
        Does(w, IF IsStale(match) THEN Takes(next, "archive_hot_stale", id, match) ELSE next)
  BY DEF VisitStale
<1> DEFINE next == [job[w] EXCEPT !.todo = @ \ {id}]
<1>3. PICK match \in Reads(id) \ {None} :
        Does(w, IF IsStale(match) THEN Takes(next, "archive_hot_stale", id, match) ELSE next)
  BY <1>2
<1>4. id \in MatchIds /\ UNCHANGED <<table, replica, archive, fate>>
  BY <1>1 DEF VisitStale, Job
<1>5. match \in Match /\ fate[id] # "unsaved"
  BY <1>3, <1>4, ReadOK
<1>6. /\ next \in Job /\ next.pass = "stale" /\ next.step = "visit"
      /\ JobOK(next, archive, fate)
  <2>1. /\ next \in Job /\ next.pass = job[w].pass /\ next.step = job[w].step
        /\ next.id = job[w].id /\ next.copy = job[w].copy /\ next.dry = job[w].dry
        /\ next.loaded = job[w].loaded
    BY <1>1 DEF Job
  <2>2. job[w].pass = "stale" /\ job[w].step = "visit"
    BY DEF VisitStale
  <2> HIDE DEF next
  <2> QED
    BY <1>1, <2>1, <2>2 DEF JobOK, HandOK
<1> HIDE DEF next
<1>7. CASE IsStale(match)
  <2>1. match.status = "completed"
    BY <1>7 DEF IsStale
  <2>2. /\ Takes(next, "archive_hot_stale", id, match) \in Job
        /\ JobOK(Takes(next, "archive_hot_stale", id, match), archive, fate)
    <3>1. next.pass \in {"stale", "overflow"} /\ "archive_hot_stale" \in Kinds
      BY <1>6 DEF Kinds
    <3> QED
      BY <1>4, <1>5, <1>6, <2>1, <3>1, TakesOK
  <2>3. Does(w, Takes(next, "archive_hot_stale", id, match))
    BY <1>3, <1>7
  <2>4. job[w].pass \in Removing
    BY DEF VisitStale, Removing, Sweeping
  <2> QED
    BY <1>4, <2>2, <2>3, <2>4, QuietStep
<1>8. CASE ~IsStale(match)
  <2>1. Does(w, next) /\ job[w].pass \in Removing
    BY <1>3, <1>8 DEF VisitStale, Removing, Sweeping
  <2> QED
    BY <1>4, <1>6, <2>1, QuietStep
<1> QED
  BY <1>7, <1>8

\* Whoever ends a job, for whatever reason, leaves the tables alone.
LEMMA EndStep ==
  ASSUME RetentionInv, NEW w \in Workers, Does(w, NoJob),
         UNCHANGED <<table, replica, archive, fate>>
  PROVE  RetentionInv'
<1>1. NoJob \in Job /\ JobOK(NoJob, archive, fate) /\ NoJob.pass \notin Removing
  BY NoJobOK DEF Removing, Sweeping
<1> QED
  BY <1>1, QuietStep

LEMMA PutArchiveStep ==
  ASSUME RetentionInv, NEW w \in Workers, PutArchive(w)
  PROVE  RetentionInv'
<1> DEFINE k      == [job[w] EXCEPT !.step = "delete"]
           object == [status |-> job[w].copy.status, turns |-> job[w].copy.turns, age |-> 0]
<1>1. /\ job[w] \in Job /\ JobOK(job[w], archive, fate)
      /\ StoreOK(table, replica, archive, fate)
  BY WorkerOK DEF RetentionInv
<1>2. /\ job[w].step = "put" /\ archive' = [archive EXCEPT ![job[w].id] = object]
      /\ Does(w, k) /\ UNCHANGED <<table, replica, fate>>
  BY DEF PutArchive
<1>3. /\ job[w].id \in MatchIds /\ job[w].copy \in Match /\ job[w].id # None
      /\ fate[job[w].id] # "unsaved" /\ job[w].pass \in {"stale", "overflow", "operator"}
  BY <1>1, <1>2, RetentionAssumption DEF JobOK, HandOK, Job, Removing, Sweeping
<1>4. object \in Object /\ object # None
  <2>1. object \in Object
    BY <1>3, RetentionAssumption DEF Match, Object
  <2> QED
    BY <2>1, NoneIsNoRecord
<1>5. /\ k \in Job /\ k.pass = job[w].pass /\ k.step = "delete" /\ k.id = job[w].id
      /\ k.copy = job[w].copy /\ k.dry = job[w].dry /\ k.loaded = job[w].loaded
  BY <1>1 DEF Job
<1> HIDE DEF k, object
<1>6. StoreOK(table', replica', archive', fate')
  BY <1>1, <1>2, <1>3, <1>4 DEF StoreOK
<1>7. archive'[job[w].id] # None
  BY <1>1, <1>2, <1>3, <1>4 DEF StoreOK
<1>8. JobOK(k, archive', fate')
  BY <1>1, <1>2, <1>3, <1>5, <1>7 DEF JobOK, HandOK
<1>9. job[w].pass \in Removing
  BY <1>3 DEF Removing, Sweeping
<1>10. \A id \in MatchIds : fate[id] # "unsaved" => fate'[id] # "unsaved"
  BY <1>2
<1> QED
  BY <1>2, <1>5, <1>6, <1>8, <1>9, <1>10, JobStep

LEMMA DeleteHotStep ==
  ASSUME RetentionInv, NEW w \in Workers, DeleteHot(w)
  PROVE  RetentionInv'
<1> DEFINE k == [job[w] EXCEPT !.step = "visit", !.id = None, !.copy = None]
<1>1. /\ job[w] \in Job /\ JobOK(job[w], archive, fate)
      /\ StoreOK(table, replica, archive, fate)
  BY WorkerOK DEF RetentionInv
<1>2. /\ job[w].step = "delete" /\ Writes(job[w].id, None)
      /\ Does(w, IF job[w].pass = "operator" THEN NoJob ELSE k)
      /\ UNCHANGED <<archive, fate>>
  BY DEF DeleteHot
<1>3. /\ job[w].id \in MatchIds /\ archive[job[w].id] # None
      /\ job[w].pass \in {"stale", "overflow", "operator"}
  BY <1>1, <1>2 DEF JobOK, HandOK, Job, Removing, Sweeping
<1>4. StoreOK(table', replica', archive', fate')
  BY <1>1, <1>2, <1>3 DEF StoreOK, Writes
<1>5. /\ k \in Job /\ k.pass = job[w].pass /\ k.step = "visit" /\ k.id = None
      /\ k.loaded = job[w].loaded
  BY <1>1 DEF Job
<1>6. JobOK(k, archive', fate')
  <2> HIDE DEF k
  <2> QED
    BY <1>1, <1>2, <1>3, <1>5 DEF JobOK, HandOK
<1>7. NoJob \in Job /\ JobOK(NoJob, archive', fate')
  BY NoJobOK
<1>8. job[w].pass \in Removing
  BY <1>3 DEF Removing, Sweeping
<1>9. \A id \in MatchIds : fate[id] # "unsaved" => fate'[id] # "unsaved"
  BY <1>2
<1>10. PICK j : Does(w, j) /\ j \in {NoJob, k}
  BY <1>2
<1>11. j \in Job /\ JobOK(j, archive', fate')
  BY <1>5, <1>6, <1>7, <1>10
<1> HIDE DEF k
<1> QED
  BY <1>2, <1>4, <1>8, <1>9, <1>10, <1>11, JobStep

LEMMA ListAgedStep ==
  ASSUME RetentionInv, NEW w \in Workers, ListAged(w)
  PROVE  RetentionInv'
<1> DEFINE aged == {id \in Archived : IsAged(archive[id])}
           k    == [job[w] EXCEPT !.pass = "aged", !.todo = aged]
<1>1. job[w] \in Job /\ JobOK(job[w], archive, fate)
  BY WorkerOK
<1>2. /\ job[w].pass = "stale" /\ job[w].step = "visit" /\ Does(w, k)
      /\ UNCHANGED <<table, replica, archive, fate>>
  BY DEF ListAged
<1>3. aged \subseteq MatchIds /\ \A id \in aged : IsAged(archive[id])
  BY DEF Archived
<1> HIDE DEF aged
<1>4. /\ k \in Job /\ k.pass = "aged" /\ k.todo = aged /\ k.step = job[w].step
      /\ k.id = job[w].id /\ k.loaded = job[w].loaded
  BY <1>1, <1>3 DEF Job, Removing, Sweeping
<1> HIDE DEF k
<1>5. JobOK(k, archive, fate)
  BY <1>1, <1>2, <1>3, <1>4 DEF JobOK, HandOK
<1>6. job[w].pass \in Removing
  BY <1>2 DEF Removing, Sweeping
<1> QED
  BY <1>2, <1>4, <1>5, <1>6, QuietStep

\* What pass 2 deletes has aged, so that its fate is to be expired.
LEMMA DeleteAgedStep ==
  ASSUME RetentionInv, NEW w \in Workers, DeleteAged(w)
  PROVE  RetentionInv'
<1>1. /\ job[w] \in Job /\ JobOK(job[w], archive, fate)
      /\ StoreOK(table, replica, archive, fate)
  BY WorkerOK DEF RetentionInv
<1>2. PICK id \in job[w].todo :
        /\ Does(w, [job[w] EXCEPT !.todo = @ \ {id},
                                  !.actions = @ \cup {Action("delete_aged_archive", id)}])
        /\ IF job[w].dry \/ archive[id] = None
             THEN UNCHANGED <<archive, fate>>
             ELSE /\ archive' = [archive EXCEPT ![id] = None]
                  /\ fate' = IF IsAged(archive[id]) THEN [fate EXCEPT ![id] = "expired"]
                                                    ELSE fate
  BY DEF DeleteAged
<1> DEFINE k == [job[w] EXCEPT !.todo = @ \ {id},
                               !.actions = @ \cup {Action("delete_aged_archive", id)}]
<1>3. /\ job[w].pass = "aged" /\ job[w].step = "visit" /\ id \in MatchIds
      /\ archive[id] = None \/ IsAged(archive[id])
      /\ table' = table /\ replica' = replica
  BY <1>1 DEF DeleteAged, Job, JobOK
<1>4. \/ archive' = archive /\ fate' = fate
      \/ /\ archive' = [archive EXCEPT ![id] = None] /\ archive[id] # None
         /\ fate' = [fate EXCEPT ![id] = "expired"]
  BY <1>2, <1>3
<1>5. StoreOK(table', replica', archive', fate')
  BY <1>1, <1>3, <1>4 DEF StoreOK
<1>6. Action("delete_aged_archive", id) \in [kind : Kinds, id : MatchIds]
  BY <1>3 DEF Action, Kinds
<1>7. /\ k \in Job /\ k.pass = "aged" /\ k.todo \subseteq job[w].todo /\ k.step = "visit"
      /\ k.id = job[w].id /\ k.loaded = job[w].loaded /\ Does(w, k)
  BY <1>1, <1>2, <1>3, <1>6 DEF Job
<1>8. \A other \in MatchIds : archive'[other] \in {archive[other], None}
  BY <1>1, <1>4 DEF StoreOK
<1>9. \A other \in MatchIds : fate[other] # "unsaved" => fate'[other] # "unsaved"
  BY <1>1, <1>4 DEF StoreOK
<1>10. /\ job[w].id \in MatchIds \cup {None} /\ job[w].todo \subseteq MatchIds
       /\ \A c \in job[w].loaded : c.id \in MatchIds
  BY <1>1 DEF Job
<1> HIDE DEF k
<1>11. JobOK(k, archive', fate')
  BY <1>1, <1>3, <1>7, <1>8, <1>9, <1>10 DEF JobOK, HandOK
<1>12. job[w].pass \in Removing
  BY <1>3 DEF Removing, Sweeping
<1> QED
  BY <1>5, <1>7, <1>9, <1>11, <1>12, JobStep

LEMMA ListOverflowStep ==
  ASSUME RetentionInv, NEW w \in Workers, ListOverflow(w)
  PROVE  RetentionInv'
<1>1. job[w] \in Job /\ JobOK(job[w], archive, fate)
  BY WorkerOK
<1>2. PICK ids \in Listings :
        LET remaining == ids \ job[w].removed
            overflow  == Cardinality(remaining) - MaxStored
        IN  Does(w, IF overflow <= 0 THEN [job[w] EXCEPT !.pass = "done"]
                    ELSE [job[w] EXCEPT !.pass = "load", !.todo = remaining,
                                        !.quota = overflow])
  BY DEF ListOverflow
<1> DEFINE remaining == ids \ job[w].removed
           overflow  == Cardinality(remaining) - MaxStored
           done      == [job[w] EXCEPT !.pass = "done"]
           load      == [job[w] EXCEPT !.pass = "load", !.todo = remaining,
                                       !.quota = overflow]
<1>3. /\ job[w].pass = "aged" /\ job[w].step = "visit"
      /\ UNCHANGED <<table, replica, archive, fate>>
  BY <1>1 DEF ListOverflow, JobOK
<1>4. remaining \subseteq MatchIds
  BY DEF Listings, Stored
<1>5. overflow \in Int
  <2>1. IsFiniteSet(remaining)
    BY <1>4, FS_Subset, RetentionAssumption
  <2>2. Cardinality(remaining) \in Nat
    BY <2>1, FS_CardinalityType
  <2> QED
    BY <2>2, RetentionAssumption
<1>6. PICK j : Does(w, j) /\ j \in {done, load}
  BY <1>2
<1> HIDE DEF remaining, overflow
<1>7. /\ done \in Job /\ done.pass = "done" /\ done.step = job[w].step
      /\ done.id = job[w].id /\ done.loaded = job[w].loaded
  BY <1>1 DEF Job
<1>8. /\ load \in Job /\ load.pass = "load" /\ load.step = job[w].step
      /\ load.id = job[w].id /\ load.loaded = job[w].loaded
  BY <1>1, <1>4, <1>5 DEF Job, Removing, Sweeping
<1> HIDE DEF done, load
<1>9. j \in Job /\ JobOK(j, archive, fate)
  BY <1>1, <1>3, <1>6, <1>7, <1>8 DEF JobOK, HandOK
<1>10. job[w].pass \in Removing
  BY <1>3 DEF Removing, Sweeping
<1> QED
  BY <1>3, <1>6, <1>9, <1>10, QuietStep

LEMMA LoadOverflowStep ==
  ASSUME RetentionInv, NEW w \in Workers, LoadOverflow(w)
  PROVE  RetentionInv'
<1>1. job[w] \in Job /\ JobOK(job[w], archive, fate)
  BY WorkerOK
<1>2. /\ job[w].pass = "load" /\ job[w].step = "visit"
      /\ UNCHANGED <<table, replica, archive, fate>>
  BY <1>1 DEF LoadOverflow, JobOK
<1>3. PICK id \in job[w].todo : \E match \in Reads(id) \ {None} :
        Does(w, [job[w] EXCEPT !.todo = @ \ {id},
                   !.loaded = IF match.status = "completed"
                                THEN @ \cup {[id |-> id, match |-> match]} ELSE @])
  BY DEF LoadOverflow
<1>4. PICK match \in Reads(id) \ {None} :
        Does(w, [job[w] EXCEPT !.todo = @ \ {id},
                   !.loaded = IF match.status = "completed"
                                THEN @ \cup {[id |-> id, match |-> match]} ELSE @])
  BY <1>3
<1> DEFINE loaded == IF match.status = "completed"
                       THEN job[w].loaded \cup {[id |-> id, match |-> match]}
                       ELSE job[w].loaded
           k == [job[w] EXCEPT !.todo = @ \ {id}, !.loaded = loaded]
<1>5. id \in MatchIds
  BY <1>1 DEF Job
<1>6. match \in Match /\ fate[id] # "unsaved"
  BY <1>4, <1>5, ReadOK
<1>7. /\ loaded \subseteq [id : MatchIds, match : Match]
      /\ \A c \in loaded : c.match.status = "completed" /\ fate[c.id] # "unsaved"
  BY <1>1, <1>5, <1>6 DEF Job, JobOK
<1>8. Does(w, k)
  BY <1>4
<1> HIDE DEF loaded
<1>9. /\ k \in Job /\ k.pass = "load" /\ k.step = "visit" /\ k.id = job[w].id
      /\ k.loaded = loaded
  BY <1>1, <1>2, <1>7 DEF Job
<1> HIDE DEF k
<1>10. JobOK(k, archive, fate)
  BY <1>1, <1>7, <1>9 DEF JobOK, HandOK
<1>11. job[w].pass \in Removing
  BY <1>2 DEF Removing, Sweeping
<1> QED
  BY <1>2, <1>8, <1>9, <1>10, <1>11, QuietStep

LEMMA SortedStep ==
  ASSUME RetentionInv, NEW w \in Workers, Sorted(w)
  PROVE  RetentionInv'
<1> DEFINE k == [job[w] EXCEPT !.pass = "overflow"]
<1>1. job[w] \in Job /\ JobOK(job[w], archive, fate)
  BY WorkerOK
<1>2. /\ job[w].pass = "load" /\ job[w].step = "visit" /\ Does(w, k)
      /\ UNCHANGED <<table, replica, archive, fate>>
  BY <1>1 DEF Sorted, JobOK
<1>3. /\ k \in Job /\ k.pass = "overflow" /\ k.step = "visit" /\ k.id = job[w].id
      /\ k.loaded = job[w].loaded
  BY <1>1, <1>2 DEF Job, Removing, Sweeping
<1> HIDE DEF k
<1>4. JobOK(k, archive, fate)
  BY <1>1, <1>3 DEF JobOK, HandOK
<1>5. job[w].pass \in Removing
  BY <1>2 DEF Removing, Sweeping
<1> QED
  BY <1>2, <1>3, <1>4, <1>5, QuietStep

LEMMA TakeOldestStep ==
  ASSUME RetentionInv, NEW w \in Workers, TakeOldest(w)
  PROVE  RetentionInv'
<1>1. job[w] \in Job /\ JobOK(job[w], archive, fate)
  BY WorkerOK
<1>2. PICK c \in job[w].loaded :
        Does(w, Takes([job[w] EXCEPT !.loaded = @ \ {c}, !.quota = @ - 1],
                      "archive_overflow", c.id, c.match))
  BY DEF TakeOldest
<1> DEFINE next == [job[w] EXCEPT !.loaded = @ \ {c}, !.quota = @ - 1]
<1>3. /\ job[w].pass = "overflow" /\ job[w].step = "visit"
      /\ UNCHANGED <<table, replica, archive, fate>>
  BY DEF TakeOldest
<1>4. /\ c.id \in MatchIds /\ c.match \in Match
      /\ c.match.status = "completed" /\ fate[c.id] # "unsaved"
  BY <1>1 DEF Job, JobOK
<1>5. /\ next \in Job /\ next.pass = "overflow" /\ next.step = "visit"
      /\ next.id = job[w].id /\ next.loaded \subseteq job[w].loaded
  <2>1. /\ job[w].loaded \ {c} \in SUBSET [id : MatchIds, match : Match]
        /\ job[w].quota - 1 \in Int
    BY <1>1 DEF Job
  <2>2. next \in Job
    BY <1>1, <2>1 DEF Job
  <2>3. /\ next.pass = job[w].pass /\ next.step = job[w].step /\ next.id = job[w].id
        /\ next.loaded = job[w].loaded \ {c}
    BY <1>1 DEF Job
  <2> HIDE DEF next
  <2> QED
    BY <1>3, <2>2, <2>3
<1>6. Does(w, Takes(next, "archive_overflow", c.id, c.match))
  BY <1>2
<1> HIDE DEF next
<1>7. JobOK(next, archive, fate)
  BY <1>1, <1>5 DEF JobOK, HandOK
<1>8. "archive_overflow" \in Kinds /\ next.pass \in {"stale", "overflow"}
  BY <1>5 DEF Kinds
<1>9. /\ Takes(next, "archive_overflow", c.id, c.match) \in Job
      /\ JobOK(Takes(next, "archive_overflow", c.id, c.match), archive, fate)
  BY <1>4, <1>5, <1>7, <1>8, TakesOK
<1>10. job[w].pass \in Removing
  BY <1>3 DEF Removing, Sweeping
<1> QED
  BY <1>3, <1>6, <1>9, <1>10, QuietStep

LEMMA LastTakenStep ==
  ASSUME RetentionInv, NEW w \in Workers, LastTaken(w)
  PROVE  RetentionInv'
<1> DEFINE k == [job[w] EXCEPT !.pass = "done"]
<1>1. job[w] \in Job /\ JobOK(job[w], archive, fate)
  BY WorkerOK
<1>2. /\ job[w].pass = "overflow" /\ job[w].step = "visit" /\ Does(w, k)
      /\ UNCHANGED <<table, replica, archive, fate>>
  BY DEF LastTaken
<1>3. /\ k \in Job /\ k.pass = "done" /\ k.step = "visit" /\ k.id = job[w].id
      /\ k.loaded = job[w].loaded
  BY <1>1, <1>2 DEF Job
<1> HIDE DEF k
<1>4. JobOK(k, archive, fate)
  BY <1>1, <1>3 DEF JobOK, HandOK
<1>5. job[w].pass \in Removing
  BY <1>2 DEF Removing, Sweeping
<1> QED
  BY <1>2, <1>3, <1>4, <1>5, QuietStep

\* A sweep that has begun preserves the invariant.
LEMMA SweepSteps ==
  ASSUME RetentionInv, NEW w \in Workers, SweepStep(w)
  PROVE  RetentionInv'
<1>1. CASE VisitMissing(w) \/ EndSweep(w)
  BY <1>1, EndStep DEF VisitMissing, EndSweep
<1>2. CASE ~(VisitMissing(w) \/ EndSweep(w))
  BY <1>2, VisitStaleStep, PutArchiveStep, DeleteHotStep, ListAgedStep, DeleteAgedStep,
     ListOverflowStep, LoadOverflowStep, SortedStep, TakeOldestStep, LastTakenStep
     DEF SweepStep
<1> QED
  BY <1>1, <1>2

-----------------------------------------------------------------------------
(* The other steps *)

LEMMA CreateStep ==
  ASSUME RetentionInv, NEW w \in Workers, NEW id \in MatchIds, Create(w, id)
  PROVE  RetentionInv'
<1> DEFINE match == [status |-> "live", turns |-> 0, age |-> 0]
<1>1. /\ StoreOK(table, replica, archive, fate) /\ job \in [Workers -> Job]
      /\ \A v \in Workers : JobOK(job[v], archive, fate)
      /\ OneRemoves
  BY DEF RetentionInv
<1>2. match \in Match
  BY RetentionAssumption DEF Match
<1>3. match # None
  BY <1>2, NoneIsNoRecord
<1>4. /\ Writes(id, match) /\ fate' = [fate EXCEPT ![id] = "kept"]
      /\ archive' = archive /\ job' = job
  BY DEF Create
<1> HIDE DEF match
<1>5. StoreOK(table', replica', archive', fate')
  BY <1>1, <1>2, <1>3, <1>4 DEF StoreOK, Writes
<1>6. \A other \in MatchIds : fate[other] # "unsaved" => fate'[other] # "unsaved"
  BY <1>1, <1>4 DEF StoreOK
<1>7. ASSUME NEW v \in Workers
      PROVE  JobOK(job'[v], archive', fate')
  <2>1. job[v] \in Job /\ JobOK(job[v], archive, fate) /\ job'[v] = job[v]
    BY <1>1, <1>4
  <2>2. JobOK(job[v], archive', fate')
    BY <1>4, <1>6, <2>1, JobStays
  <2> QED
    BY <2>1, <2>2
<1> QED
  BY <1>1, <1>4, <1>5, <1>7 DEF RetentionInv, OneRemoves

LEMMA PlayStep ==
  ASSUME RetentionInv, NEW w \in Workers, NEW id \in MatchIds, Play(w, id)
  PROVE  RetentionInv'
<1>1. PICK match \in Reads(id) \ {None} : \E status \in {"live", "completed"} :
        /\ match.status = "live" /\ match.turns < MaxTurns
        /\ Does(w, [NoJob EXCEPT !.pass = "play", !.id = id,
                      !.copy = [status |-> status, turns |-> match.turns + 1, age |-> 0]])
  BY DEF Play
<1>2. PICK status \in {"live", "completed"} :
        /\ match.status = "live" /\ match.turns < MaxTurns
        /\ Does(w, [NoJob EXCEPT !.pass = "play", !.id = id,
                      !.copy = [status |-> status, turns |-> match.turns + 1, age |-> 0]])
  BY <1>1
<1> DEFINE copy == [status |-> status, turns |-> match.turns + 1, age |-> 0]
           k    == [NoJob EXCEPT !.pass = "play", !.id = id, !.copy = copy]
<1>3. match \in Match /\ fate[id] # "unsaved"
  BY <1>1, ReadOK
<1>4. copy \in Match
  BY <1>2, <1>3, RetentionAssumption DEF Match
<1>5. Does(w, k) /\ UNCHANGED <<table, replica, archive, fate>>
  BY <1>2 DEF Play
<1> HIDE DEF copy
<1>6. /\ k \in Job /\ k.pass = "play" /\ k.id = id /\ k.copy = copy
      /\ k.step = "visit" /\ k.loaded = {}
  <2>1. NoJob \in Job /\ NoJob.step = "visit" /\ NoJob.loaded = {}
    BY NoJobOK
  <2> QED
    BY <1>4, <2>1 DEF Job
<1> HIDE DEF k
<1>7. JobOK(k, archive, fate)
  BY <1>3, <1>4, <1>6 DEF JobOK, HandOK
<1>8. k.pass \notin Removing
  BY <1>6 DEF Removing, Sweeping
<1> QED
  BY <1>5, <1>6, <1>7, <1>8, QuietStep

LEMMA SavePlayStep ==
  ASSUME RetentionInv, NEW w \in Workers, SavePlay(w)
  PROVE  RetentionInv'
<1>1. /\ job[w] \in Job /\ JobOK(job[w], archive, fate)
      /\ StoreOK(table, replica, archive, fate)
  BY WorkerOK DEF RetentionInv
<1>2. /\ Writes(job[w].id, job[w].copy) /\ Does(w, NoJob)
      /\ archive' = archive /\ fate' = fate
  BY DEF SavePlay
<1>3. /\ job[w].id \in MatchIds /\ job[w].copy \in Match /\ job[w].id # None
  BY <1>1, RetentionAssumption DEF SavePlay, JobOK
<1>4. job[w].copy # None /\ fate[job[w].id] # "unsaved"
  BY <1>1, <1>3, NoneIsNoRecord DEF JobOK
<1>5. StoreOK(table', replica', archive', fate')
  BY <1>1, <1>2, <1>3, <1>4 DEF StoreOK, Writes
<1>6. /\ NoJob \in Job /\ JobOK(NoJob, archive', fate')
      /\ NoJob.pass \notin Removing
  BY NoJobOK DEF Removing, Sweeping
<1>7. \A id \in MatchIds : fate[id] # "unsaved" => fate'[id] # "unsaved"
  BY <1>2
<1> QED
  BY <1>2, <1>5, <1>6, <1>7, JobStep

\* What has no sweep beside it when it begins is the only one to remove things.
LEMMA OperatorStep ==
  ASSUME SweepsOverlap = FALSE, RetentionInv, NEW w \in Workers, NEW id \in MatchIds,
         OperatorArchive(w, id)
  PROVE  RetentionInv'
<1>1. PICK match \in Reads(id) \ {None} :
        Does(w, [NoJob EXCEPT !.pass = "operator", !.step = "put", !.id = id, !.copy = match])
  BY DEF OperatorArchive
<1> DEFINE k == [NoJob EXCEPT !.pass = "operator", !.step = "put", !.id = id, !.copy = match]
<1>2. match \in Match /\ fate[id] # "unsaved"
  BY <1>1, ReadOK
<1>3. /\ NoJob \in Job /\ NoJob.loaded = {} /\ NoJob.dry = FALSE
  BY NoJobOK
<1>4. /\ k \in Job /\ k.pass = "operator" /\ k.step = "put" /\ k.id = id
      /\ k.copy = match /\ k.loaded = {} /\ k.dry = FALSE
  BY <1>2, <1>3 DEF Job, Removing, Sweeping
<1>5. /\ Does(w, k) /\ UNCHANGED <<table, replica, archive, fate>>
      /\ \A v \in Workers \ {w} : job[v].pass \notin Removing
  BY <1>1 DEF OperatorArchive, Alone
<1> HIDE DEF k
<1>6. JobOK(k, archive, fate)
  BY <1>2, <1>4 DEF JobOK, HandOK
<1> QED
  BY <1>4, <1>5, <1>6, QuietStep

LEMMA BeginStep ==
  ASSUME SweepsOverlap = FALSE, RetentionInv, NEW w \in Workers, NEW dry \in BOOLEAN,
         BeginSweep(w, dry)
  PROVE  RetentionInv'
<1> DEFINE start == [table |-> table, archive |-> archive]
<1>1. PICK ids \in Listings :
        Does(w, [NoJob EXCEPT !.pass = "stale", !.dry = dry, !.todo = ids, !.start = start])
  BY DEF BeginSweep
<1> DEFINE k == [NoJob EXCEPT !.pass = "stale", !.dry = dry, !.todo = ids, !.start = start]
<1>2. ids \subseteq MatchIds
  BY DEF Listings, Stored
<1>3. start \in [table : [MatchIds -> Match \cup {None}],
                 archive : [MatchIds -> Object \cup {None}]]
  BY DEF RetentionInv, StoreOK
<1>4. /\ NoJob \in Job /\ NoJob.loaded = {} /\ NoJob.id = None /\ NoJob.step = "visit"
  BY NoJobOK
<1>5. /\ Does(w, k) /\ UNCHANGED <<table, replica, archive, fate>>
      /\ \A v \in Workers \ {w} : job[v].pass \notin Removing
  BY <1>1 DEF BeginSweep, Alone
<1> HIDE DEF start
<1>6. /\ k \in Job /\ k.pass = "stale" /\ k.step = "visit" /\ k.id = None
      /\ k.loaded = {}
  <2>1. /\ k.pass = "stale" /\ k.step = NoJob.step /\ k.id = NoJob.id
        /\ k.loaded = NoJob.loaded
    BY <1>4 DEF Job
  <2>2. [NoJob EXCEPT !.dry = dry] \in Job
    BY <1>4 DEF Job
  <2>3. k = [[NoJob EXCEPT !.dry = dry] EXCEPT !.pass = "stale", !.todo = ids, !.start = start]
    BY <1>4 DEF Job
  <2>4. "stale" \in {"idle", "play", "done"} \cup Removing /\ ids \in SUBSET MatchIds
    BY <1>2 DEF Removing, Sweeping
  <2>5. k \in Job
    BY <1>3, <2>2, <2>3, <2>4 DEF Job
  <2> QED
    BY <1>4, <2>1, <2>5
<1> HIDE DEF k
<1>7. JobOK(k, archive, fate)
  BY <1>6 DEF JobOK, HandOK
<1> QED
  BY <1>5, <1>6, <1>7, QuietStep

LEMMA ReplicateStep ==
  ASSUME RetentionInv, NEW id \in MatchIds, Replicate(id)
  PROVE  RetentionInv'
<1>1. StoreOK(table, replica, archive, fate) /\ UNCHANGED <<table, archive, fate, job>>
  BY DEF RetentionInv, Replicate
<1>2. StoreOK(table', replica', archive', fate')
  BY <1>1 DEF StoreOK, Replicate
<1> QED
  BY <1>1, <1>2 DEF RetentionInv, OneRemoves

\* Growing older neither adds a record nor drops one.
LEMMA OlderOK ==
  ASSUME NEW limit \in Nat, NEW store,
         store \in [MatchIds -> [status : {"live", "completed"}, turns : 0..MaxTurns,
                                 age : 0..limit] \cup {None}],
         None \notin [status : {"live", "completed"}, turns : 0..MaxTurns, age : 0..limit]
  PROVE  /\ Older(store, limit) \in
              [MatchIds -> [status : {"live", "completed"}, turns : 0..MaxTurns,
                            age : 0..limit] \cup {None}]
         /\ \A id \in MatchIds : Older(store, limit)[id] = None <=> store[id] = None
<1> DEFINE Record == [status : {"live", "completed"}, turns : 0..MaxTurns, age : 0..limit]
           aged(id) == [store[id] EXCEPT !.age = IF @ < limit THEN @ + 1 ELSE @]
<1>1. ASSUME NEW id \in MatchIds, store[id] # None
      PROVE  aged(id) \in Record
  <2>1. store[id] \in Record
    BY <1>1
  <2>2. (IF store[id].age < limit THEN store[id].age + 1 ELSE store[id].age) \in 0..limit
    BY <2>1
  <2> QED
    BY <2>1, <2>2
<1>2. ASSUME NEW id \in MatchIds
      PROVE  Older(store, limit)[id] = IF store[id] = None THEN None ELSE aged(id)
  BY DEF Older
<1>3. Older(store, limit) = [id \in MatchIds |-> Older(store, limit)[id]]
  BY DEF Older
<1> HIDE DEF Record, aged
<1>4. None \notin Record
  BY DEF Record
<1>5. ASSUME NEW id \in MatchIds
      PROVE  /\ Older(store, limit)[id] \in Record \cup {None}
             /\ Older(store, limit)[id] = None <=> store[id] = None
  BY <1>1, <1>2, <1>4
<1>6. Older(store, limit) \in [MatchIds -> Record \cup {None}]
  BY <1>3, <1>5
<1> QED
  BY <1>5, <1>6 DEF Record

LEMMA DayStep ==
  ASSUME RetentionInv, Day
  PROVE  RetentionInv'
<1>1. /\ StoreOK(table, replica, archive, fate) /\ job' = job /\ fate' = fate
      /\ table' = Older(table, MaxHot) /\ replica' = table'
      /\ archive' = Older(archive, MaxArchive)
  BY DEF RetentionInv, Day
<1>2. None \notin Match /\ None \notin Object
  BY NoneIsNoRecord
<1>3. /\ Older(table, MaxHot) \in [MatchIds -> Match \cup {None}]
      /\ \A id \in MatchIds : Older(table, MaxHot)[id] = None <=> table[id] = None
  <2>1. table \in [MatchIds -> Match \cup {None}] /\ MaxHot \in Nat
    BY <1>1, RetentionAssumption DEF StoreOK
  <2> QED
    BY <1>2, <2>1, OlderOK DEF Match
<1>4. /\ Older(archive, MaxArchive) \in [MatchIds -> Object \cup {None}]
      /\ \A id \in MatchIds : Older(archive, MaxArchive)[id] = None <=> archive[id] = None
  <2>1. archive \in [MatchIds -> Object \cup {None}] /\ MaxArchive \in Nat
    BY <1>1, RetentionAssumption DEF StoreOK
  <2> QED
    BY <1>2, <2>1, OlderOK DEF Object
<1>5. StoreOK(table', replica', archive', fate')
  BY <1>1, <1>3, <1>4 DEF StoreOK
<1>6. ASSUME NEW v \in Workers
      PROVE  JobOK(job'[v], archive', fate')
  <2>1. /\ job[v] \in Job /\ JobOK(job[v], archive, fate) /\ job'[v] = job[v]
        /\ job[v].pass \notin Removing
    BY <1>1, WorkerOK DEF Day, Idle, Removing, Sweeping
  <2>2. JobOK(job[v], archive', fate')
    BY <1>1, <2>1, JobStays
  <2> QED
    BY <2>1, <2>2
<1> QED
  BY <1>1, <1>5, <1>6 DEF RetentionInv, OneRemoves

-----------------------------------------------------------------------------

LEMMA RetentionInit ==
  ASSUME Init
  PROVE  RetentionInv
<1>1. \A w \in Workers : job[w] \in Job /\ JobOK(job[w], archive, fate) /\ job[w].pass = "idle"
  BY NoJobOK DEF Init
<1>2. StoreOK(table, replica, archive, fate) /\ job \in [Workers -> Job]
  BY <1>1 DEF Init, StoreOK
<1>3. OneRemoves
  BY <1>1 DEF OneRemoves, Removing, Sweeping
<1> QED
  BY <1>1, <1>2, <1>3 DEF RetentionInv

LEMMA RetentionNext ==
  ASSUME SweepsOverlap = FALSE, RetentionInv, [Next]_vars
  PROVE  RetentionInv'
<1>1. CASE UNCHANGED vars
  BY <1>1 DEF vars, RetentionInv, OneRemoves
<1>2. ASSUME NEW w \in Workers, NEW id \in MatchIds,
             Create(w, id) \/ Play(w, id) \/ OperatorArchive(w, id)
      PROVE  RetentionInv'
  BY <1>2, CreateStep, PlayStep, OperatorStep
<1>3. ASSUME NEW w \in Workers, NEW dry \in BOOLEAN, BeginSweep(w, dry)
      PROVE  RetentionInv'
  BY <1>3, BeginStep
<1>4. ASSUME NEW w \in Workers, SavePlay(w) \/ SweepStep(w)
      PROVE  RetentionInv'
  BY <1>4, SavePlayStep, SweepSteps
<1>5. ASSUME NEW w \in Workers, Die(w)
      PROVE  RetentionInv'
  BY <1>5, EndStep DEF Die
<1>6. CASE \E id \in MatchIds : Replicate(id)
  BY <1>6, ReplicateStep
<1>7. CASE Day
  BY <1>7, DayStep
<1> QED
  BY <1>1, <1>2, <1>3, <1>4, <1>5, <1>6, <1>7 DEF Next

\* The tables and the jobs keep their types: what a job holds between its
\* decision and its delete is a completed match unless the operator chose it,
\* and only what was saved is ever stored.
THEOREM RetentionTypeCorrect ==
  ASSUME SweepsOverlap = FALSE
  PROVE  Spec => []TypeOK
<1>1. Init => RetentionInv
  BY RetentionInit
<1>2. RetentionInv /\ [Next]_vars => RetentionInv'
  BY RetentionNext
<1>3. RetentionInv => TypeOK
  BY DEF RetentionInv, StoreOK, JobOK, TypeOK, Stored, Archived
<1> QED
  BY <1>1, <1>2, <1>3, PTL DEF Spec

\* No saved match is lost before its archive has aged: the put before the delete
\* of cleanup.py keeps it somewhere, through crashes, failing calls, lagging
\* reads and the saves of requests.
THEOREM RetainedThroughSweeps ==
  ASSUME SweepsOverlap = FALSE
  PROVE  Spec => []RetainedUntilAged
<1>1. Init => RetentionInv
  BY RetentionInit
<1>2. RetentionInv /\ [Next]_vars => RetentionInv'
  BY RetentionNext
<1>3. RetentionInv => RetainedUntilAged
  BY DEF RetentionInv, StoreOK, RetainedUntilAged, Stored, Archived
<1> QED
  BY <1>1, <1>2, <1>3, PTL DEF Spec

-----------------------------------------------------------------------------
(* One worker at a time, whose reads are up to date: a sweep only takes what *)
(* is completed, and it stays so, for nobody plays meanwhile.                *)

IsLive(match) == match # None /\ match.status = "live"

\* What job j has in hand, or has loaded to choose from, is not live in table t.
SparesLive(j, t) ==
  /\ j.pass \in {"stale", "aged"} => j.loaded = {}
  /\ j.pass \in {"load", "overflow"} => \A c \in j.loaded : ~IsLive(t[c.id])
  /\ j.step \in {"put", "delete"} /\ j.pass # "operator" => ~IsLive(t[j.id])

LEMMA NoJobSpares == ASSUME NEW t PROVE SparesLive(NoJob, t)
BY DEF SparesLive, NoJob

\* A job that takes the match it loaded as id, and the rest of it.
LEMMA TakesSpares ==
  ASSUME NEW j \in Job, NEW kind, NEW id, NEW match, NEW t, ~IsLive(t[id]), SparesLive(j, t)
  PROVE  SparesLive(Takes(j, kind, id, match), t)
<1>. DEFINE k == Takes(j, kind, id, match)
<1>1. k.pass = j.pass /\ k.loaded = j.loaded /\ k.id = id
  BY DEF Takes, Job
<1>. HIDE DEF k
<1>2. SparesLive(k, t) BY <1>1 DEF SparesLive
<1>. QED BY <1>2 DEF k

LEMMA CurrentRead ==
  ASSUME LaggingReads = FALSE, NEW id, NEW match \in Reads(id) PROVE match = table[id]
BY DEF Reads

LEMMA SweepSpares ==
  ASSUME RetentionInv, LaggingReads = FALSE, NEW w \in Workers,
         SparesLive(job[w], table), SweepStep(w)
  PROVE  SparesLive(job'[w], table')
<1>. DEFINE j == job[w]
<1>1. /\ j \in Job /\ DOMAIN job = Workers
      /\ \A c \in j.loaded : c.id \in MatchIds /\ c.match.status = "completed"
  BY DEF RetentionInv, JobOK, Job
<1>2. \A k : Does(w, k) => job'[w] = k BY <1>1 DEF Does
<1>3. ASSUME Does(w, NoJob) PROVE SparesLive(job'[w], table')
  BY <1>2, <1>3, NoJobSpares
<1>4. CASE VisitStale(w)
  <2>1. PICK id \in j.todo : \E match \in Reads(id) \ {None} :
          Does(w, IF IsStale(match)
                    THEN Takes([j EXCEPT !.todo = @ \ {id}], "archive_hot_stale", id, match)
                    ELSE [j EXCEPT !.todo = @ \ {id}])
    BY <1>4 DEF VisitStale
  <2>0. PICK match \in Reads(id) \ {None} :
          Does(w, IF IsStale(match)
                    THEN Takes([j EXCEPT !.todo = @ \ {id}], "archive_hot_stale", id, match)
                    ELSE [j EXCEPT !.todo = @ \ {id}])
    BY <2>1
  <2>. DEFINE next == [j EXCEPT !.todo = @ \ {id}]
  <2>2. next \in Job /\ next.pass = j.pass /\ next.loaded = j.loaded /\ next.step = j.step
        /\ next.id = j.id
    BY <1>1 DEF Job
  <2>3. table' = table BY <1>4 DEF VisitStale
  <2>. HIDE DEF next
  <2>4. SparesLive(next, table) BY <2>2 DEF SparesLive
  <2>5. CASE IsStale(match)
    <3>1. ~IsLive(table[id]) BY <2>5, CurrentRead DEF IsStale, IsLive
    <3>2. SparesLive(Takes(next, "archive_hot_stale", id, match), table)
      BY <2>2, <2>4, <3>1, TakesSpares
    <3>. QED BY <1>2, <2>0, <2>3, <2>5, <3>2 DEF next
  <2>6. CASE ~IsStale(match) BY <1>2, <2>0, <2>3, <2>4, <2>6 DEF next
  <2>. QED BY <2>5, <2>6
<1>5. CASE VisitMissing(w) \/ EndSweep(w) BY <1>3, <1>5 DEF VisitMissing, EndSweep
<1>6. CASE PutArchive(w)
  <2>1. job'[w] = [j EXCEPT !.step = "delete"] /\ j.step = "put" /\ table' = table
    BY <1>2, <1>6 DEF PutArchive
  <2>. QED BY <1>1, <2>1 DEF SparesLive, Job
<1>7. CASE DeleteHot(w)
  <2>1. CASE j.pass = "operator" BY <1>3, <1>7, <2>1 DEF DeleteHot
  <2>2. CASE j.pass # "operator"
    <3>1. /\ job'[w] = [j EXCEPT !.step = "visit", !.id = None, !.copy = None]
          /\ table' = [table EXCEPT ![j.id] = None] /\ DOMAIN table = MatchIds
      BY <1>2, <1>7, <2>2 DEF DeleteHot, Writes, RetentionInv, StoreOK
    <3>2. /\ job'[w].step = "visit" /\ job'[w].pass = j.pass /\ job'[w].loaded = j.loaded
      BY <1>1, <3>1 DEF Job
    <3>3. \A id \in MatchIds : IsLive(table'[id]) => IsLive(table[id])
      BY <3>1 DEF IsLive
    <3>. QED BY <1>1, <3>2, <3>3 DEF SparesLive
  <2>. QED BY <2>1, <2>2
<1>8. CASE ListAged(w)
  <2>1. /\ job'[w] = [j EXCEPT !.pass = "aged", !.todo = {id \in Archived : IsAged(archive[id])}]
        /\ j.pass = "stale" /\ j.step = "visit" /\ table' = table
    BY <1>2, <1>8 DEF ListAged
  <2>2. job'[w].pass = "aged" /\ job'[w].step = "visit" /\ job'[w].loaded = j.loaded
    BY <1>1, <2>1 DEF Job
  <2>. QED BY <2>1, <2>2 DEF SparesLive
<1>9. CASE DeleteAged(w)
  <2>1. PICK id \in j.todo :
          Does(w, [j EXCEPT !.todo = @ \ {id}, !.actions = @ \cup {Action("delete_aged_archive", id)}])
    BY <1>9 DEF DeleteAged
  <2>2. /\ job'[w].pass = j.pass /\ job'[w].step = j.step /\ job'[w].loaded = j.loaded
        /\ job'[w].id = j.id /\ table' = table
    BY <1>1, <1>2, <1>9, <2>1 DEF DeleteAged, Job
  <2>. QED BY <2>2 DEF SparesLive
<1>10. CASE ListOverflow(w)
  <2>1. PICK remaining, overflow :
          Does(w, IF overflow <= 0 THEN [j EXCEPT !.pass = "done"]
                  ELSE [j EXCEPT !.pass = "load", !.todo = remaining, !.quota = overflow])
    BY <1>10 DEF ListOverflow
  <2>2. j.pass = "aged" /\ j.step = "visit" /\ table' = table
    BY <1>10 DEF ListOverflow, RetentionInv, JobOK
  <2>3. /\ job'[w].pass \in {"done", "load"} /\ job'[w].step = j.step
        /\ job'[w].loaded = j.loaded
    BY <1>1, <1>2, <2>1 DEF Job
  <2>. QED BY <2>2, <2>3 DEF SparesLive
<1>11. CASE LoadOverflow(w)
  <2>1. PICK id \in j.todo : \E match \in Reads(id) \ {None} :
          Does(w, [j EXCEPT !.todo = @ \ {id},
                     !.loaded = IF match.status = "completed"
                                  THEN @ \cup {[id |-> id, match |-> match]} ELSE @])
    BY <1>11 DEF LoadOverflow
  <2>0. PICK match \in Reads(id) \ {None} :
          Does(w, [j EXCEPT !.todo = @ \ {id},
                     !.loaded = IF match.status = "completed"
                                  THEN @ \cup {[id |-> id, match |-> match]} ELSE @])
    BY <2>1
  <2>2. j.pass = "load" /\ j.step = "visit" /\ table' = table
    BY <1>11 DEF LoadOverflow, RetentionInv, JobOK
  <2>3. /\ job'[w].pass = "load" /\ job'[w].step = "visit"
        /\ job'[w].loaded = IF match.status = "completed"
                              THEN j.loaded \cup {[id |-> id, match |-> match]} ELSE j.loaded
    BY <1>1, <1>2, <2>0, <2>2 DEF Job
  <2>4. match.status = "completed" => ~IsLive(table[id]) BY CurrentRead DEF IsLive
  <2>5. \A c \in j.loaded : ~IsLive(table[c.id]) BY <2>2 DEF SparesLive
  <2>6. \A c \in job'[w].loaded : ~IsLive(table[c.id]) BY <2>3, <2>4, <2>5
  <2>. QED BY <2>2, <2>3, <2>6 DEF SparesLive
<1>12. CASE Sorted(w)
  <2>1. j.pass = "load" /\ j.step = "visit" /\ table' = table
    BY <1>12 DEF Sorted, RetentionInv, JobOK
  <2>2. job'[w].pass = "overflow" /\ job'[w].step = "visit" /\ job'[w].loaded = j.loaded
    BY <1>1, <1>2, <1>12, <2>1 DEF Sorted, Job
  <2>. QED BY <2>1, <2>2 DEF SparesLive
<1>13. CASE TakeOldest(w)
  <2>1. PICK c \in j.loaded :
          Does(w, Takes([j EXCEPT !.loaded = @ \ {c}, !.quota = @ - 1],
                        "archive_overflow", c.id, c.match))
    BY <1>13 DEF TakeOldest
  <2>. DEFINE next == [j EXCEPT !.loaded = @ \ {c}, !.quota = @ - 1]
  <2>2. j.pass = "overflow" /\ j.step = "visit" /\ table' = table BY <1>13 DEF TakeOldest
  <2>3. /\ next.pass = "overflow" /\ next.step = "visit" /\ next.loaded \subseteq j.loaded
    BY <1>1, <2>2 DEF Job
  <2>8. j.quota - 1 \in Int /\ j.loaded \ {c} \in SUBSET [id : MatchIds, match : Match]
    BY <1>1 DEF Job
  <2>7. next \in Job BY <1>1, <2>8, Zenon DEF Job
  <2>. HIDE DEF next
  <2>4. \A d \in j.loaded : ~IsLive(table[d.id]) BY <2>2 DEF SparesLive
  <2>5. SparesLive(next, table) BY <2>3, <2>4 DEF SparesLive
  <2>6. SparesLive(Takes(next, "archive_overflow", c.id, c.match), table)
    BY <2>3, <2>4, <2>5, <2>7, TakesSpares
  <2>. QED BY <1>2, <2>1, <2>2, <2>6 DEF next
<1>14. CASE LastTaken(w)
  <2>1. j.step = "visit" /\ table' = table BY <1>14 DEF LastTaken
  <2>2. job'[w].pass = "done" /\ job'[w].step = "visit"
    BY <1>1, <1>2, <1>14, <2>1 DEF LastTaken, Job
  <2>. QED BY <2>2 DEF SparesLive
<1>. QED BY <1>4, <1>5, <1>6, <1>7, <1>8, <1>9, <1>10, <1>11, <1>12, <1>13, <1>14 DEF SweepStep

LEMMA SparesLiveStep ==
  ASSUME RetentionInv, LaggingReads = FALSE, NEW w, Workers = {w},
         SparesLive(job[w], table), [Next]_vars
  PROVE  SparesLive(job'[w], table')
<1>1. /\ job[w] \in Job /\ DOMAIN job = Workers /\ w \in Workers
      /\ job[w].pass \in {"idle", "play"} => job[w].step = "visit"
  BY DEF RetentionInv, JobOK
<1>2. \A k : Does(w, k) => job'[w] = k BY <1>1 DEF Does
<1>3. \A t : Idle(w) => SparesLive(job[w], t) BY <1>1 DEF Idle, SparesLive
<1>4. ASSUME NEW id \in MatchIds, Create(w, id) PROVE SparesLive(job'[w], table')
  <2>1. Idle(w) /\ job' = job BY <1>4 DEF Create
  <2>. QED BY <1>3, <2>1
<1>5. ASSUME NEW id \in MatchIds, Play(w, id) PROVE SparesLive(job'[w], table')
  <2>1. PICK copy : Does(w, [NoJob EXCEPT !.pass = "play", !.id = id, !.copy = copy])
    BY <1>5 DEF Play
  <2>2. job'[w].pass = "play" /\ job'[w].step = "visit" BY <1>2, <2>1 DEF NoJob
  <2>. QED BY <2>2 DEF SparesLive
<1>6. ASSUME NEW id \in MatchIds, OperatorArchive(w, id) PROVE SparesLive(job'[w], table')
  <2>1. PICK match :
          Does(w, [NoJob EXCEPT !.pass = "operator", !.step = "put", !.id = id, !.copy = match])
    BY <1>6 DEF OperatorArchive
  <2>2. job'[w].pass = "operator" BY <1>2, <2>1 DEF NoJob
  <2>. QED BY <2>2 DEF SparesLive
<1>7. ASSUME NEW dry \in BOOLEAN, BeginSweep(w, dry) PROVE SparesLive(job'[w], table')
  <2>1. PICK ids :
          Does(w, [NoJob EXCEPT !.pass = "stale", !.dry = dry, !.todo = ids,
                                !.start = [table |-> table, archive |-> archive]])
    BY <1>7 DEF BeginSweep
  <2>2. job'[w].pass = "stale" /\ job'[w].step = "visit" /\ job'[w].loaded = {}
    BY <1>2, <2>1 DEF NoJob
  <2>. QED BY <2>2 DEF SparesLive
<1>8. CASE SavePlay(w) \/ Die(w) BY <1>2, <1>8, NoJobSpares DEF SavePlay, Die
<1>9. CASE SweepStep(w) BY <1>1, <1>9, SweepSpares
<1>10. CASE Day BY <1>1, <1>3, <1>10 DEF Day
<1>11. CASE \E id \in MatchIds : Replicate(id) BY <1>11 DEF Replicate
<1>12. CASE UNCHANGED vars BY <1>12 DEF vars
<1>. QED BY <1>4, <1>5, <1>6, <1>7, <1>8, <1>9, <1>10, <1>11, <1>12 DEF Next

\* Only a delete takes a match out of the table.
LEMMA OnlyDeletes ==
  ASSUME RetentionInv, [Next]_vars, NEW id \in MatchIds, table[id] # None, table'[id] = None
  PROVE  \E w \in Workers : DeleteHot(w) /\ job[w].id = id
<1>1. table \in [MatchIds -> Match \cup {None}] /\ None \notin Match
  BY NoneIsNoRecord DEF RetentionInv, StoreOK
<1>2. ASSUME NEW w \in Workers, SweepStep(w), ~DeleteHot(w) PROVE table' = table
  BY <1>2 DEF SweepStep, VisitStale, VisitMissing, PutArchive, ListAged, DeleteAged, ListOverflow,
              LoadOverflow, Sorted, TakeOldest, LastTaken, EndSweep
<1>3. ASSUME NEW w \in Workers, DeleteHot(w) PROVE job[w].id = id
  BY <1>1, <1>3 DEF DeleteHot, Writes
<1>4. ASSUME NEW w \in Workers, NEW i \in MatchIds, Create(w, i) PROVE FALSE
  <2>1. PICK match : match # None /\ table' = [table EXCEPT ![i] = match]
    <3>1. [status |-> "live", turns |-> 0, age |-> 0] \in Match
      BY RetentionAssumption DEF Match
    <3>. QED BY <1>1, <1>4, <3>1 DEF Create, Writes
  <2>. QED BY <1>1, <2>1
<1>5. ASSUME NEW w \in Workers, SavePlay(w) PROVE FALSE
  <2>1. job[w].copy \in Match /\ table' = [table EXCEPT ![job[w].id] = job[w].copy]
    BY <1>5 DEF SavePlay, Writes, RetentionInv, JobOK
  <2>. QED BY <1>1, <2>1
<1>6. CASE Day
  <2>1. table'[id] = [table[id] EXCEPT !.age = IF @ < MaxHot THEN @ + 1 ELSE @]
    BY <1>6 DEF Day, Older
  <2>2. [table[id] EXCEPT !.age = IF @ < MaxHot THEN @ + 1 ELSE @] \in Match
    BY <1>1, RetentionAssumption DEF Match
  <2>. QED BY <1>1, <2>1, <2>2
<1>. QED BY <1>1, <1>2, <1>3, <1>4, <1>5, <1>6
  DEF Next, Play, OperatorArchive, BeginSweep, Die, Replicate, vars

\* No job has a live match in hand or in mind, unless the operator chose it.
AllSpareLive == \A w \in Workers : SparesLive(job[w], table)

\* cleanup.py archives completed matches only.  While one job runs at a time and
\* reads are up to date, a live match leaves the table by the operator alone, for any
\* number of matches, any caps and ages, and whatever jobs die.
THEOREM SweepsSpareLive ==
  ASSUME SweepsOverlap = FALSE, LaggingReads = FALSE, NEW worker, Workers = {worker}
  PROVE  Spec => OnlyOperatorDropsLive
<1>1. Init => RetentionInv /\ AllSpareLive
  <2>1. ASSUME Init, NEW w \in Workers PROVE SparesLive(job[w], table)
    <3>1. job[w] = NoJob BY <2>1 DEF Init
    <3>. QED BY <3>1, NoJobSpares
  <2>. QED BY <2>1, RetentionInit DEF AllSpareLive
<1>2. RetentionInv /\ AllSpareLive /\ [Next]_vars => (RetentionInv /\ AllSpareLive)'
  <2>1. ASSUME RetentionInv, AllSpareLive, [Next]_vars
        PROVE  SparesLive(job'[worker], table')
    <3>1. SparesLive(job[worker], table) BY <2>1 DEF AllSpareLive
    <3>. QED BY <2>1, <3>1, SparesLiveStep
  <2>. QED BY <2>1, RetentionNext DEF AllSpareLive
<1>3. RetentionInv /\ AllSpareLive /\ [Next]_vars =>
        \A id \in MatchIds : Live(id) /\ table'[id] = None =>
          \E w \in Workers : job[w].pass = "operator" /\ job[w].id = id
  <2>1. ASSUME RetentionInv, AllSpareLive, [Next]_vars,
               NEW id \in MatchIds, Live(id), table'[id] = None
        PROVE  \E w \in Workers : job[w].pass = "operator" /\ job[w].id = id
    <3>1. PICK w \in Workers : DeleteHot(w) /\ job[w].id = id BY <2>1, OnlyDeletes DEF Live
    <3>2. job[w].step = "delete" BY <3>1 DEF DeleteHot
    <3>3. SparesLive(job[w], table) BY <2>1 DEF AllSpareLive
    <3>4. IsLive(table[id]) BY <2>1 DEF IsLive, Live
    <3>. QED BY <3>1, <3>2, <3>3, <3>4 DEF SparesLive
  <2>. QED BY <2>1
<1>. QED BY <1>1, <1>2, <1>3, PTL DEF Spec, OnlyOperatorDropsLive

-----------------------------------------------------------------------------
(* What one undisturbed sweep has done so far, told from the table t and the *)
(* archive a as it began.                                                    *)

StoredIn(t) == {id \in MatchIds : t[id] # None}
StaleIn(t) == {id \in StoredIn(t) : IsStale(t[id])}
AgedIn(a) == {id \in MatchIds : a[id] # None /\ IsAged(a[id])}
RemainingIn(t) == StoredIn(t) \ StaleIn(t)
CompletedIn(t) == {id \in RemainingIn(t) : t[id].status = "completed"}
Excess(t) == Cardinality(RemainingIn(t)) - MaxStored
Loads(t, ids) == {[id |-> id, match |-> t[id]] : id \in ids}

\* No completed match outside ids is older than one in it.
Oldest(t, ids) ==
  \A id \in ids, other \in CompletedIn(t) \ ids : t[other].age <= t[id].age

\* How many completed matches pass 3 archives.
Quota(t) ==
  IF Excess(t) <= 0 THEN 0
  ELSE IF Excess(t) < Cardinality(CompletedIn(t)) THEN Excess(t)
  ELSE Cardinality(CompletedIn(t))

\* What the overflow pass has chosen.
Chosen(j, t) == j.removed \ StaleIn(t)

ChosenOK(j, t) ==
  /\ StaleIn(t) \subseteq j.removed
  /\ Chosen(j, t) \subseteq CompletedIn(t)
  /\ Oldest(t, Chosen(j, t))

\* What each pass has visited, removed and loaded.
Progress(j, t) ==
  /\ j.pass = "stale" =>
       j.todo \subseteq StoredIn(t) /\ j.removed = StaleIn(t) \ j.todo /\ j.loaded = {}
  /\ j.pass = "aged" => j.removed = StaleIn(t) /\ j.loaded = {}
  /\ j.pass = "load" =>
       /\ j.removed = StaleIn(t) /\ j.todo \subseteq RemainingIn(t)
       /\ j.loaded = Loads(t, CompletedIn(t) \ j.todo)
       /\ j.quota = Excess(t) /\ Excess(t) > 0
  /\ j.pass = "overflow" =>
       /\ ChosenOK(j, t)
       /\ j.loaded = Loads(t, CompletedIn(t) \ Chosen(j, t))
       /\ j.quota = Excess(t) - Cardinality(Chosen(j, t)) /\ j.quota >= 0
       /\ Excess(t) > 0
  /\ j.pass = "done" => ChosenOK(j, t) /\ Cardinality(Chosen(j, t)) = Quota(t)

\* The match that job j has decided on and not yet deleted.
InHand(j) == IF j.step \in {"put", "delete"} THEN {j.id} ELSE {}

\* The table is what it was, less what a real sweep has deleted.
Tracks(j, t, now) ==
  /\ InHand(j) \subseteq j.removed
  /\ \A id \in MatchIds :
       now[id] = IF ~j.dry /\ id \in j.removed \ InHand(j) THEN None ELSE t[id]

SweepOK(j, now) ==
  j.pass \in Sweeping \cup {"done"} =>
    Progress(j, j.start.table) /\ Tracks(j, j.start.table, now)

-----------------------------------------------------------------------------

\* The sets of a table are finite.
LEMMA TableSets ==
  ASSUME NEW t
  PROVE  /\ IsFiniteSet(StoredIn(t)) /\ IsFiniteSet(RemainingIn(t))
         /\ IsFiniteSet(CompletedIn(t))
         /\ Cardinality(RemainingIn(t)) \in Nat /\ Cardinality(CompletedIn(t)) \in Nat
         /\ Excess(t) \in Int
         /\ StaleIn(t) \subseteq StoredIn(t) /\ StoredIn(t) \subseteq MatchIds
         /\ CompletedIn(t) \subseteq RemainingIn(t) /\ RemainingIn(t) \subseteq StoredIn(t)
<1>1. /\ StaleIn(t) \subseteq StoredIn(t) /\ StoredIn(t) \subseteq MatchIds
      /\ CompletedIn(t) \subseteq RemainingIn(t) /\ RemainingIn(t) \subseteq StoredIn(t)
  BY DEF StaleIn, StoredIn, CompletedIn, RemainingIn
<1>2. IsFiniteSet(StoredIn(t)) /\ IsFiniteSet(RemainingIn(t)) /\ IsFiniteSet(CompletedIn(t))
  BY <1>1, FS_Subset, RetentionAssumption
<1>3. Cardinality(RemainingIn(t)) \in Nat /\ Cardinality(CompletedIn(t)) \in Nat
  BY <1>2, FS_CardinalityType
<1>. QED BY <1>1, <1>2, <1>3, RetentionAssumption DEF Excess

\* A finite part of a table's completed matches.
LEMMA ChosenSets ==
  ASSUME NEW t, NEW ids \in SUBSET CompletedIn(t)
  PROVE  /\ IsFiniteSet(ids) /\ Cardinality(ids) \in Nat
         /\ Cardinality(ids) <= Cardinality(CompletedIn(t))
         /\ Cardinality(ids) = Cardinality(CompletedIn(t)) => ids = CompletedIn(t)
<1>1. IsFiniteSet(CompletedIn(t)) BY TableSets
<1>2. /\ IsFiniteSet(ids) /\ Cardinality(ids) <= Cardinality(CompletedIn(t))
      /\ Cardinality(ids) = Cardinality(CompletedIn(t)) => ids = CompletedIn(t)
  BY <1>1, FS_Subset
<1>. QED BY <1>2, FS_CardinalityType

-----------------------------------------------------------------------------
(* The steps of the one sweep, field by field *)

Untouched == UNCHANGED <<table, replica, archive, fate>>

\* What most steps leave of a job.
Keeps(j, k) == k.dry = j.dry /\ k.start = j.start

LEMMA Moves ==
  ASSUME RetentionInv, NEW w \in Workers, NEW k, Does(w, k)
  PROVE  job'[w] = k
BY DEF Does, RetentionInv

\* What taking a match changes of a job.
LEMMA TakesFields ==
  ASSUME NEW j \in Job, NEW kind, NEW id, NEW match
  PROVE  LET k == Takes(j, kind, id, match) IN
         /\ Keeps(j, k) /\ k.pass = j.pass /\ k.todo = j.todo /\ k.loaded = j.loaded
         /\ k.quota = j.quota /\ k.id = id
         /\ k.removed = j.removed \cup {id}
         /\ k.actions = j.actions \cup {Action(kind, id)}
         /\ k.step = IF j.dry THEN "visit" ELSE "put"
<1>. DEFINE new == Action(kind, id)
<1>1. Takes(j, kind, id, match) =
        [j EXCEPT !.actions = @ \cup {new}, !.removed = @ \cup {id}, !.id = id, !.copy = match,
                  !.step = IF j.dry THEN "visit" ELSE "put"]
  BY DEF Takes
<1>. HIDE DEF new
<1>2. /\ Keeps(j, Takes(j, kind, id, match))
      /\ Takes(j, kind, id, match).pass = j.pass
      /\ Takes(j, kind, id, match).todo = j.todo
      /\ Takes(j, kind, id, match).loaded = j.loaded
      /\ Takes(j, kind, id, match).quota = j.quota
      /\ Takes(j, kind, id, match).id = id
      /\ Takes(j, kind, id, match).removed = j.removed \cup {id}
      /\ Takes(j, kind, id, match).actions = j.actions \cup {new}
      /\ Takes(j, kind, id, match).step = IF j.dry THEN "visit" ELSE "put"
  BY <1>1 DEF Job, Keeps
<1>. QED BY <1>2 DEF new

LEMMA StaleVisited ==
  ASSUME RetentionInv, LaggingReads = FALSE, NEW w \in Workers, VisitStale(w)
  PROVE  /\ Untouched /\ job[w].pass = "stale" /\ job[w].step = "visit"
         /\ Keeps(job[w], job'[w]) /\ job'[w].pass = "stale"
         /\ job'[w].loaded = job[w].loaded
         /\ \E id \in job[w].todo :
              /\ table[id] # None /\ job'[w].todo = job[w].todo \ {id}
              /\ \/ /\ IsStale(table[id]) /\ job'[w].id = id
                    /\ job'[w].removed = job[w].removed \cup {id}
                    /\ job'[w].actions =
                         job[w].actions \cup {Action("archive_hot_stale", id)}
                    /\ job'[w].step = IF job[w].dry THEN "visit" ELSE "put"
                 \/ /\ ~IsStale(table[id]) /\ job'[w].step = "visit"
                    /\ job'[w].removed = job[w].removed /\ job'[w].actions = job[w].actions
<1>. DEFINE j == job[w]
<1>1. j \in Job BY WorkerOK
<1>2. j.pass = "stale" /\ j.step = "visit" /\ Untouched BY DEF VisitStale, Untouched
<1>3. PICK id \in j.todo : \E match \in Reads(id) \ {None} :
          Does(w, IF IsStale(match)
                    THEN Takes([j EXCEPT !.todo = @ \ {id}], "archive_hot_stale", id, match)
                    ELSE [j EXCEPT !.todo = @ \ {id}])
  BY DEF VisitStale
<1>4. PICK match \in Reads(id) \ {None} :
          Does(w, IF IsStale(match)
                    THEN Takes([j EXCEPT !.todo = @ \ {id}], "archive_hot_stale", id, match)
                    ELSE [j EXCEPT !.todo = @ \ {id}])
  BY <1>3
<1>. DEFINE next == [j EXCEPT !.todo = @ \ {id}]
<1>5. match = table[id] /\ table[id] # None BY <1>4, CurrentRead
<1>6. /\ next \in Job /\ Keeps(j, next) /\ next.pass = j.pass /\ next.step = j.step
      /\ next.todo = j.todo \ {id} /\ next.loaded = j.loaded /\ next.quota = j.quota
      /\ next.removed = j.removed /\ next.actions = j.actions
  BY <1>1 DEF Job, Keeps
<1>. HIDE DEF next
<1>7. CASE IsStale(table[id])
  <2>1. job'[w] = Takes(next, "archive_hot_stale", id, match)
    BY <1>4, <1>5, <1>7, Moves DEF next
  <2>. QED BY <1>2, <1>5, <1>6, <1>7, <2>1, TakesFields DEF Keeps
<1>8. CASE ~IsStale(table[id])
  <2>1. job'[w] = next BY <1>4, <1>5, <1>8, Moves DEF next
  <2>. QED BY <1>2, <1>5, <1>6, <1>8, <2>1
<1>. QED BY <1>7, <1>8

LEMMA HotDeleted ==
  ASSUME RetentionInv, NEW w \in Workers, DeleteHot(w), job[w].pass # "operator"
  PROVE  /\ table' = [table EXCEPT ![job[w].id] = None] /\ archive' = archive
         /\ job[w].step = "delete" /\ job[w].id \in MatchIds /\ ~job[w].dry
         /\ Keeps(job[w], job'[w]) /\ job'[w].pass = job[w].pass /\ job'[w].step = "visit"
         /\ job'[w].todo = job[w].todo /\ job'[w].loaded = job[w].loaded
         /\ job'[w].quota = job[w].quota /\ job'[w].removed = job[w].removed
         /\ job'[w].actions = job[w].actions
<1>1. job[w] \in Job /\ JobOK(job[w], archive, fate) BY WorkerOK
<1>2. /\ job[w].step = "delete" /\ table' = [table EXCEPT ![job[w].id] = None]
      /\ Does(w, [job[w] EXCEPT !.step = "visit", !.id = None, !.copy = None])
      /\ archive' = archive
  BY DEF DeleteHot, Writes
<1>3. job'[w] = [job[w] EXCEPT !.step = "visit", !.id = None, !.copy = None] BY <1>2, Moves
<1>4. job[w].id \in MatchIds /\ ~job[w].dry BY <1>1, <1>2 DEF JobOK, HandOK
<1>. QED BY <1>1, <1>2, <1>3, <1>4 DEF Job, Keeps

LEMMA ArchivePut ==
  ASSUME RetentionInv, NEW w \in Workers, PutArchive(w)
  PROVE  /\ table' = table /\ job[w].step = "put" /\ job[w].id \in MatchIds
         /\ archive'[job[w].id].age = 0 /\ archive'[job[w].id] # None
         /\ \A id \in MatchIds \ {job[w].id} : archive'[id] = archive[id]
         /\ Keeps(job[w], job'[w]) /\ job'[w].pass = job[w].pass /\ job'[w].step = "delete"
         /\ job'[w].id = job[w].id
         /\ job'[w].todo = job[w].todo /\ job'[w].loaded = job[w].loaded
         /\ job'[w].quota = job[w].quota /\ job'[w].removed = job[w].removed
         /\ job'[w].actions = job[w].actions
<1>. DEFINE object == [status |-> job[w].copy.status, turns |-> job[w].copy.turns, age |-> 0]
<1>1. job[w] \in Job /\ JobOK(job[w], archive, fate) BY WorkerOK
<1>2. /\ job[w].step = "put" /\ table' = table
      /\ archive' = [archive EXCEPT ![job[w].id] = object]
      /\ Does(w, [job[w] EXCEPT !.step = "delete"])
  BY DEF PutArchive
<1>3. job'[w] = [job[w] EXCEPT !.step = "delete"] BY <1>2, Moves
<1>4. job[w].id \in MatchIds /\ job[w].copy \in Match BY <1>1, <1>2 DEF JobOK, HandOK
<1>5. object \in Object /\ object.age = 0
  BY <1>4, RetentionAssumption DEF Match, Object
<1>6. object # None BY <1>5, NoneIsNoRecord
<1>7. DOMAIN archive = MatchIds BY DEF RetentionInv, StoreOK
<1>. HIDE DEF object
<1>8. /\ archive'[job[w].id] = object
      /\ \A id \in MatchIds \ {job[w].id} : archive'[id] = archive[id]
  BY <1>2, <1>4, <1>7
<1>9. /\ Keeps(job[w], job'[w]) /\ job'[w].pass = job[w].pass /\ job'[w].step = "delete"
      /\ job'[w].id = job[w].id
      /\ job'[w].todo = job[w].todo /\ job'[w].loaded = job[w].loaded
      /\ job'[w].quota = job[w].quota /\ job'[w].removed = job[w].removed
      /\ job'[w].actions = job[w].actions
  BY <1>1, <1>3 DEF Job, Keeps
<1>. QED BY <1>2, <1>4, <1>5, <1>6, <1>8, <1>9

LEMMA AgedListed ==
  ASSUME RetentionInv, NEW w \in Workers, ListAged(w)
  PROVE  /\ Untouched /\ job[w].pass = "stale" /\ job[w].step = "visit" /\ job[w].todo = {}
         /\ Keeps(job[w], job'[w]) /\ job'[w].pass = "aged" /\ job'[w].step = "visit"
         /\ job'[w].todo = AgedIn(archive) /\ job'[w].loaded = job[w].loaded
         /\ job'[w].removed = job[w].removed /\ job'[w].actions = job[w].actions
<1>1. job[w] \in Job BY WorkerOK
<1>2. AgedIn(archive) = {id \in Archived : IsAged(archive[id])} BY DEF AgedIn, Archived
<1>3. /\ Untouched /\ job[w].pass = "stale" /\ job[w].step = "visit" /\ job[w].todo = {}
      /\ Does(w, [job[w] EXCEPT !.pass = "aged", !.todo = AgedIn(archive)])
  BY <1>2 DEF ListAged, Untouched
<1>4. job'[w] = [job[w] EXCEPT !.pass = "aged", !.todo = AgedIn(archive)] BY <1>3, Moves
<1>. QED BY <1>1, <1>3, <1>4 DEF Job, Keeps

LEMMA AgedDeleted ==
  ASSUME RetentionInv, NEW w \in Workers, DeleteAged(w)
  PROVE  /\ table' = table /\ job[w].pass = "aged" /\ job[w].step = "visit"
         /\ \A id \in MatchIds : archive'[id] \in {archive[id], None}
         /\ Keeps(job[w], job'[w]) /\ job'[w].pass = "aged" /\ job'[w].step = "visit"
         /\ job'[w].loaded = job[w].loaded /\ job'[w].removed = job[w].removed
         /\ \E id \in job[w].todo :
              /\ job'[w].todo = job[w].todo \ {id}
              /\ job'[w].actions = job[w].actions \cup {Action("delete_aged_archive", id)}
<1>1. job[w] \in Job /\ JobOK(job[w], archive, fate) BY WorkerOK
<1>2. PICK id \in job[w].todo :
        /\ Does(w, [job[w] EXCEPT !.todo = @ \ {id},
                                  !.actions = @ \cup {Action("delete_aged_archive", id)}])
        /\ IF job[w].dry \/ archive[id] = None
             THEN UNCHANGED <<archive, fate>>
             ELSE /\ archive' = [archive EXCEPT ![id] = None]
                  /\ fate' = IF IsAged(archive[id]) THEN [fate EXCEPT ![id] = "expired"]
                                                    ELSE fate
  BY DEF DeleteAged
<1>3. job[w].pass = "aged" /\ job[w].step = "visit" /\ table' = table
  BY <1>1 DEF DeleteAged, JobOK
<1>4. DOMAIN archive = MatchIds BY DEF RetentionInv, StoreOK
<1>5. \A other \in MatchIds : archive'[other] \in {archive[other], None} BY <1>2, <1>4
<1>. DEFINE new == Action("delete_aged_archive", id)
<1>6. job'[w] = [job[w] EXCEPT !.todo = @ \ {id}, !.actions = @ \cup {new}] BY <1>2, Moves
<1>. HIDE DEF new
<1>7. /\ Keeps(job[w], job'[w]) /\ job'[w].pass = job[w].pass /\ job'[w].step = job[w].step
      /\ job'[w].loaded = job[w].loaded /\ job'[w].removed = job[w].removed
      /\ job'[w].todo = job[w].todo \ {id} /\ job'[w].actions = job[w].actions \cup {new}
  BY <1>1, <1>6 DEF Job, Keeps
<1>. QED BY <1>3, <1>5, <1>7 DEF new

LEMMA OverflowListed ==
  ASSUME RetentionInv, LaggingReads = FALSE, NEW w \in Workers, ListOverflow(w)
  PROVE  LET remaining == Stored \ job[w].removed
             overflow  == Cardinality(remaining) - MaxStored
         IN  /\ Untouched /\ job[w].pass = "aged" /\ job[w].step = "visit"
             /\ job[w].todo = {}
             /\ Keeps(job[w], job'[w]) /\ job'[w].step = "visit"
             /\ job'[w].loaded = job[w].loaded /\ job'[w].removed = job[w].removed
             /\ job'[w].actions = job[w].actions
             /\ \/ overflow <= 0 /\ job'[w].pass = "done"
                \/ /\ ~(overflow <= 0) /\ job'[w].pass = "load"
                   /\ job'[w].todo = remaining /\ job'[w].quota = overflow
<1>. DEFINE remaining == Stored \ job[w].removed
            overflow  == Cardinality(remaining) - MaxStored
<1>1. job[w] \in Job /\ JobOK(job[w], archive, fate) BY WorkerOK
<1>2. /\ job[w].pass = "aged" /\ job[w].step = "visit" /\ job[w].todo = {} /\ Untouched
      /\ Does(w, IF overflow <= 0 THEN [job[w] EXCEPT !.pass = "done"]
                 ELSE [job[w] EXCEPT !.pass = "load", !.todo = remaining, !.quota = overflow])
  BY <1>1 DEF ListOverflow, Listings, JobOK, Untouched
<1>. HIDE DEF remaining, overflow
<1>3. CASE overflow <= 0
  <2>1. job'[w] = [job[w] EXCEPT !.pass = "done"] BY <1>2, <1>3, Moves
  <2>2. /\ Keeps(job[w], job'[w]) /\ job'[w].pass = "done" /\ job'[w].step = job[w].step
        /\ job'[w].loaded = job[w].loaded /\ job'[w].removed = job[w].removed
        /\ job'[w].actions = job[w].actions
    BY <1>1, <2>1 DEF Job, Keeps
  <2>. QED BY <1>2, <1>3, <2>2 DEF remaining, overflow
<1>4. CASE ~(overflow <= 0)
  <2>1. job'[w] = [job[w] EXCEPT !.pass = "load", !.todo = remaining, !.quota = overflow]
    BY <1>2, <1>4, Moves
  <2>2. /\ Keeps(job[w], job'[w]) /\ job'[w].pass = "load" /\ job'[w].step = job[w].step
        /\ job'[w].loaded = job[w].loaded /\ job'[w].removed = job[w].removed
        /\ job'[w].actions = job[w].actions /\ job'[w].todo = remaining
        /\ job'[w].quota = overflow
    BY <1>1, <2>1 DEF Job, Keeps
  <2>. QED BY <1>2, <1>4, <2>2 DEF remaining, overflow
<1>. QED BY <1>3, <1>4

LEMMA OverflowLoaded ==
  ASSUME RetentionInv, LaggingReads = FALSE, NEW w \in Workers, LoadOverflow(w)
  PROVE  /\ Untouched /\ job[w].pass = "load" /\ job[w].step = "visit"
         /\ Keeps(job[w], job'[w]) /\ job'[w].pass = "load" /\ job'[w].step = "visit"
         /\ job'[w].removed = job[w].removed /\ job'[w].actions = job[w].actions
         /\ job'[w].quota = job[w].quota
         /\ \E id \in job[w].todo :
              /\ table[id] # None /\ job'[w].todo = job[w].todo \ {id}
              /\ job'[w].loaded = IF table[id].status = "completed"
                                    THEN job[w].loaded \cup {[id |-> id, match |-> table[id]]}
                                    ELSE job[w].loaded
<1>1. job[w] \in Job /\ JobOK(job[w], archive, fate) BY WorkerOK
<1>2. job[w].pass = "load" /\ job[w].step = "visit" /\ Untouched
  BY <1>1 DEF LoadOverflow, JobOK, Untouched
<1>3. PICK id \in job[w].todo : \E match \in Reads(id) \ {None} :
        Does(w, [job[w] EXCEPT !.todo = @ \ {id},
                   !.loaded = IF match.status = "completed"
                                THEN @ \cup {[id |-> id, match |-> match]} ELSE @])
  BY DEF LoadOverflow
<1>4. PICK match \in Reads(id) \ {None} :
        Does(w, [job[w] EXCEPT !.todo = @ \ {id},
                   !.loaded = IF match.status = "completed"
                                THEN @ \cup {[id |-> id, match |-> match]} ELSE @])
  BY <1>3
<1>5. match = table[id] /\ table[id] # None BY <1>4, CurrentRead
<1>. DEFINE loaded == IF table[id].status = "completed"
                        THEN job[w].loaded \cup {[id |-> id, match |-> table[id]]}
                        ELSE job[w].loaded
<1>6. job'[w] = [job[w] EXCEPT !.todo = @ \ {id}, !.loaded = loaded] BY <1>4, <1>5, Moves
<1>. HIDE DEF loaded
<1>7. /\ Keeps(job[w], job'[w]) /\ job'[w].pass = job[w].pass /\ job'[w].step = job[w].step
      /\ job'[w].removed = job[w].removed /\ job'[w].actions = job[w].actions
      /\ job'[w].quota = job[w].quota /\ job'[w].todo = job[w].todo \ {id}
      /\ job'[w].loaded = loaded
  BY <1>1, <1>6 DEF Job, Keeps
<1>. QED BY <1>2, <1>5, <1>7 DEF loaded

\* A step that only moves on to the next pass.
LEMMA PassChanged ==
  ASSUME RetentionInv, NEW w \in Workers, NEW pass, Does(w, [job[w] EXCEPT !.pass = pass])
  PROVE  /\ Keeps(job[w], job'[w]) /\ job'[w].pass = pass /\ job'[w].step = job[w].step
         /\ job'[w].id = job[w].id /\ job'[w].todo = job[w].todo
         /\ job'[w].loaded = job[w].loaded /\ job'[w].quota = job[w].quota
         /\ job'[w].removed = job[w].removed /\ job'[w].actions = job[w].actions
<1>1. job[w] \in Job /\ job'[w] = [job[w] EXCEPT !.pass = pass] BY WorkerOK, Moves
<1>. QED BY <1>1 DEF Job, Keeps

LEMMA OldestTaken ==
  ASSUME RetentionInv, NEW w \in Workers, TakeOldest(w)
  PROVE  /\ Untouched /\ job[w].pass = "overflow" /\ job[w].step = "visit" /\ job[w].quota > 0
         /\ Keeps(job[w], job'[w]) /\ job'[w].pass = "overflow"
         /\ job'[w].quota = job[w].quota - 1
         /\ job'[w].step = IF job[w].dry THEN "visit" ELSE "put"
         /\ \E c \in job[w].loaded :
              /\ \A d \in job[w].loaded : d.match.age <= c.match.age
              /\ job'[w].loaded = job[w].loaded \ {c} /\ job'[w].id = c.id
              /\ job'[w].removed = job[w].removed \cup {c.id}
              /\ job'[w].actions = job[w].actions \cup {Action("archive_overflow", c.id)}
<1>1. job[w] \in Job BY WorkerOK
<1>2. /\ job[w].pass = "overflow" /\ job[w].step = "visit" /\ job[w].quota > 0 /\ Untouched
  BY DEF TakeOldest, Untouched
<1>3. PICK c \in job[w].loaded :
        /\ \A d \in job[w].loaded : d.match.age <= c.match.age
        /\ Does(w, Takes([job[w] EXCEPT !.loaded = @ \ {c}, !.quota = @ - 1],
                         "archive_overflow", c.id, c.match))
  BY DEF TakeOldest
<1>. DEFINE next == [job[w] EXCEPT !.loaded = @ \ {c}, !.quota = @ - 1]
<1>4. job[w].quota - 1 \in Int /\ job[w].loaded \ {c} \in SUBSET [id : MatchIds, match : Match]
  BY <1>1 DEF Job
<1>5. next \in Job BY <1>1, <1>4, Zenon DEF Job
<1>6. /\ Keeps(job[w], next) /\ next.pass = job[w].pass /\ next.loaded = job[w].loaded \ {c}
      /\ next.quota = job[w].quota - 1 /\ next.removed = job[w].removed
      /\ next.actions = job[w].actions
  BY <1>1 DEF Job, Keeps
<1>. HIDE DEF next
<1>7. job'[w] = Takes(next, "archive_overflow", c.id, c.match) BY <1>3, Moves DEF next
<1>8. /\ Keeps(next, job'[w]) /\ job'[w].pass = next.pass /\ job'[w].loaded = next.loaded
      /\ job'[w].quota = next.quota /\ job'[w].id = c.id
      /\ job'[w].removed = next.removed \cup {c.id}
      /\ job'[w].actions = next.actions \cup {Action("archive_overflow", c.id)}
      /\ job'[w].step = IF next.dry THEN "visit" ELSE "put"
  BY <1>5, <1>7, TakesFields
<1>. QED BY <1>2, <1>3, <1>6, <1>8 DEF Keeps

LEMMA SweepBegun ==
  ASSUME RetentionInv, LaggingReads = FALSE, NEW w \in Workers, NEW dry \in BOOLEAN,
         BeginSweep(w, dry)
  PROVE  /\ Untouched /\ Idle(w) /\ job'[w].pass = "stale" /\ job'[w].step = "visit"
         /\ job'[w].todo = Stored /\ job'[w].removed = {} /\ job'[w].loaded = {}
         /\ job'[w].actions = {}
         /\ job'[w].start = [table |-> table, archive |-> archive]
<1>. DEFINE start == [table |-> table, archive |-> archive]
<1>1. /\ Untouched /\ Idle(w)
      /\ Does(w, [NoJob EXCEPT !.pass = "stale", !.dry = dry, !.todo = Stored, !.start = start])
  BY DEF BeginSweep, Listings, Untouched
<1>. HIDE DEF start
<1>2. job'[w] = [NoJob EXCEPT !.pass = "stale", !.dry = dry, !.todo = Stored, !.start = start]
  BY <1>1, Moves
<1>3. /\ job'[w].pass = "stale" /\ job'[w].step = "visit"
      /\ job'[w].todo = Stored /\ job'[w].removed = {} /\ job'[w].loaded = {}
      /\ job'[w].actions = {} /\ job'[w].start = start
  BY <1>2 DEF NoJob
<1>. QED BY <1>1, <1>3 DEF start

-----------------------------------------------------------------------------
(* The sweep so far, step by step *)

\* What a sweep knows of the record it began with.
LEMMA SweepBasics ==
  ASSUME RetentionInv, NEW w \in Workers, SweepOK(job[w], table),
         job[w].pass \in Sweeping
  PROVE  /\ Progress(job[w], job[w].start.table) /\ Tracks(job[w], job[w].start.table, table)
         /\ job[w].todo \subseteq MatchIds /\ job[w].removed \subseteq MatchIds
BY WorkerOK DEF SweepOK, Job

\* A step that changes neither the table nor what is removed.
LEMMA TracksStays ==
  ASSUME NEW j, NEW k, NEW t, NEW now, Tracks(j, t, now), k.dry = j.dry,
         k.removed = j.removed, InHand(k) = InHand(j)
  PROVE  Tracks(k, t, now)
BY DEF Tracks

LEMMA TracksTaken ==
  ASSUME NEW j, NEW k, NEW t, NEW now, NEW id, Tracks(j, t, now), k.dry = j.dry,
         j.step = "visit", k.id = id, k.removed = j.removed \cup {id},
         j.dry \in BOOLEAN, k.step = IF j.dry THEN "visit" ELSE "put",
         id \notin j.removed
  PROVE  Tracks(k, t, now)
BY DEF Tracks, InHand

LEMMA StaleVisitedOK ==
  ASSUME RetentionInv, LaggingReads = FALSE, NEW w \in Workers, SweepOK(job[w], table),
         VisitStale(w)
  PROVE  SweepOK(job'[w], table')
<1>. DEFINE j == job[w]
            k == job'[w]
            t == job[w].start.table
<1>1. /\ Untouched /\ j.pass = "stale" /\ j.step = "visit"
      /\ Keeps(j, k) /\ k.pass = "stale" /\ k.loaded = j.loaded
      /\ \E id \in j.todo :
              /\ table[id] # None /\ k.todo = j.todo \ {id}
              /\ \/ /\ IsStale(table[id]) /\ k.id = id
                    /\ k.removed = j.removed \cup {id}
                    /\ k.step = IF j.dry THEN "visit" ELSE "put"
                 \/ /\ ~IsStale(table[id]) /\ k.step = "visit" /\ k.removed = j.removed
  BY StaleVisited
<1>2. /\ Progress(j, t) /\ Tracks(j, t, table) /\ j.todo \subseteq MatchIds
  BY <1>1, SweepBasics DEF Sweeping
<1>3. j.dry \in BOOLEAN BY WorkerOK DEF Job
<1>4. k.start = j.start /\ k.dry = j.dry /\ table' = table BY <1>1 DEF Keeps, Untouched
<1>13. k.start.table = t BY <1>4
<1>. HIDE DEF j, k, t
<1>5. PICK id \in j.todo :
              /\ table[id] # None /\ k.todo = j.todo \ {id}
              /\ \/ /\ IsStale(table[id]) /\ k.id = id
                    /\ k.removed = j.removed \cup {id}
                    /\ k.step = IF j.dry THEN "visit" ELSE "put"
                 \/ /\ ~IsStale(table[id]) /\ k.step = "visit" /\ k.removed = j.removed
  BY <1>1
<1>6. /\ j.todo \subseteq StoredIn(t) /\ j.removed = StaleIn(t) \ j.todo /\ j.loaded = {}
  BY <1>1, <1>2 DEF Progress
<1>7. id \notin j.removed /\ id \in MatchIds BY <1>2, <1>5, <1>6
<1>8. table[id] = t[id] /\ InHand(j) = {} BY <1>1, <1>2, <1>7 DEF Tracks, InHand
<1>9. IsStale(table[id]) <=> id \in StaleIn(t) BY <1>5, <1>6, <1>8 DEF StaleIn
<1>10. Progress(k, t)
  <2>1. k.removed = StaleIn(t) \ k.todo BY <1>5, <1>6, <1>9
  <2>. QED BY <1>1, <1>5, <1>6, <2>1 DEF Progress
<1>11. Tracks(k, t, table)
  <2>1. CASE IsStale(table[id])
    BY <1>1, <1>2, <1>3, <1>4, <1>5, <1>7, <2>1, TracksTaken
  <2>2. CASE ~IsStale(table[id])
    <3>1. InHand(k) = {} /\ k.removed = j.removed BY <1>5, <2>2 DEF InHand
    <3>. QED BY <1>2, <1>4, <1>8, <3>1, TracksStays
  <2>. QED BY <2>1, <2>2
<1>12. SweepOK(k, table') BY <1>13, <1>4, <1>10, <1>11 DEF SweepOK
<1>. QED BY <1>12 DEF k

\* The put and the delete leave the progress of the sweep as it is.
LEMMA ProgressStays ==
  ASSUME NEW j, NEW k, NEW t, Progress(j, t), k.pass = j.pass, k.todo = j.todo,
         k.removed = j.removed, k.loaded = j.loaded, k.quota = j.quota
  PROVE  Progress(k, t)
BY DEF Progress, ChosenOK, Chosen

LEMMA ArchivePutOK ==
  ASSUME RetentionInv, NEW w \in Workers, SweepOK(job[w], table), PutArchive(w)
  PROVE  SweepOK(job'[w], table')
<1>. DEFINE j == job[w]
            k == job'[w]
            t == job[w].start.table
<1>1. /\ table' = table /\ j.step = "put"
      /\ k.start = j.start /\ k.dry = j.dry /\ k.pass = j.pass /\ k.step = "delete"
      /\ k.id = j.id /\ k.todo = j.todo /\ k.loaded = j.loaded
      /\ k.quota = j.quota /\ k.removed = j.removed
  BY ArchivePut DEF Keeps
<1>. SUFFICES ASSUME k.pass \in Sweeping \cup {"done"} PROVE SweepOK(job'[w], table')
  BY DEF SweepOK
<1>2. Progress(j, t) /\ Tracks(j, t, table) BY <1>1 DEF SweepOK
<1>3. k.start.table = t BY <1>1
<1>. HIDE DEF j, k, t
<1>4. Progress(k, t) BY <1>1, <1>2, ProgressStays
<1>5. Tracks(k, t, table') BY <1>1, <1>2 DEF Tracks, InHand
<1>6. SweepOK(k, table') BY <1>1, <1>2, <1>3, <1>4, <1>5 DEF SweepOK
<1>. QED BY <1>6 DEF k

LEMMA HotDeletedOK ==
  ASSUME RetentionInv, NEW w \in Workers, SweepOK(job[w], table), DeleteHot(w)
  PROVE  SweepOK(job'[w], table')
<1>1. CASE job[w].pass = "operator"
  <2>1. job'[w] = NoJob BY <1>1, Moves DEF DeleteHot
  <2>. QED BY <2>1, NoJobOK DEF SweepOK, Sweeping
<1>2. CASE job[w].pass # "operator"
  <2>. DEFINE j == job[w]
              k == job'[w]
              t == job[w].start.table
  <2>1. /\ table' = [table EXCEPT ![j.id] = None]
        /\ j.step = "delete" /\ j.id \in MatchIds /\ ~j.dry
        /\ k.start = j.start /\ k.dry = j.dry /\ k.pass = j.pass /\ k.step = "visit"
        /\ k.todo = j.todo /\ k.loaded = j.loaded
        /\ k.quota = j.quota /\ k.removed = j.removed
    BY <1>2, HotDeleted DEF Keeps
  <2>. SUFFICES ASSUME k.pass \in Sweeping \cup {"done"} PROVE SweepOK(job'[w], table')
    BY DEF SweepOK
  <2>2. Progress(j, t) /\ Tracks(j, t, table) BY <2>1 DEF SweepOK
  <2>3. k.start.table = t /\ DOMAIN table = MatchIds BY <2>1 DEF RetentionInv, StoreOK
  <2>. HIDE DEF j, k, t
  <2>4. Progress(k, t) BY <2>1, <2>2, ProgressStays
  <2>5. InHand(j) = {j.id} /\ InHand(k) = {} /\ j.id \in j.removed
    BY <2>1, <2>2 DEF InHand, Tracks
  <2>6. Tracks(k, t, table') BY <2>1, <2>2, <2>3, <2>5 DEF Tracks
  <2>7. SweepOK(k, table') BY <2>1, <2>2, <2>3, <2>4, <2>6 DEF SweepOK
  <2>. QED BY <2>7 DEF k
<1>. QED BY <1>1, <1>2

LEMMA AgedListedOK ==
  ASSUME RetentionInv, NEW w \in Workers, SweepOK(job[w], table), ListAged(w)
  PROVE  SweepOK(job'[w], table')
<1>. DEFINE j == job[w]
            k == job'[w]
            t == job[w].start.table
<1>1. /\ table' = table /\ j.pass = "stale" /\ j.step = "visit" /\ j.todo = {}
      /\ k.dry = j.dry /\ k.start = j.start /\ k.pass = "aged" /\ k.step = "visit"
      /\ k.loaded = j.loaded /\ k.removed = j.removed
  BY AgedListed DEF Keeps, Untouched
<1>2. Progress(j, t) /\ Tracks(j, t, table)
  BY <1>1, SweepBasics DEF Sweeping
<1>3. k.start.table = t BY <1>1
<1>. HIDE DEF j, k, t
<1>4. Progress(k, t) BY <1>1, <1>2 DEF Progress
<1>5. InHand(k) = InHand(j) BY <1>1 DEF InHand
<1>6. Tracks(k, t, table') BY <1>1, <1>2, <1>5, TracksStays
<1>7. SweepOK(k, table') BY <1>1, <1>2, <1>3, <1>4, <1>6 DEF SweepOK
<1>. QED BY <1>7 DEF k

LEMMA AgedDeletedOK ==
  ASSUME RetentionInv, NEW w \in Workers, SweepOK(job[w], table), DeleteAged(w)
  PROVE  SweepOK(job'[w], table')
<1>. DEFINE j == job[w]
            k == job'[w]
            t == job[w].start.table
<1>1. /\ table' = table /\ j.pass = "aged" /\ j.step = "visit"
      /\ k.dry = j.dry /\ k.start = j.start /\ k.pass = "aged" /\ k.step = "visit"
      /\ k.loaded = j.loaded /\ k.removed = j.removed
  BY AgedDeleted DEF Keeps
<1>2. Progress(j, t) /\ Tracks(j, t, table)
  BY <1>1, SweepBasics DEF Sweeping
<1>3. k.start.table = t BY <1>1
<1>. HIDE DEF j, k, t
<1>4. Progress(k, t) BY <1>1, <1>2 DEF Progress
<1>5. InHand(k) = InHand(j) BY <1>1 DEF InHand
<1>6. Tracks(k, t, table') BY <1>1, <1>2, <1>5, TracksStays
<1>7. SweepOK(k, table') BY <1>1, <1>2, <1>3, <1>4, <1>6 DEF SweepOK
<1>. QED BY <1>7 DEF k

\* With only stale matches removed, pass 3 has chosen nothing yet.
LEMMA NothingChosen ==
  ASSUME NEW j, NEW t, j.removed = StaleIn(t)
  PROVE  ChosenOK(j, t) /\ Chosen(j, t) = {} /\ Cardinality(Chosen(j, t)) = 0
BY FS_EmptySet DEF ChosenOK, Chosen, Oldest

LEMMA OverflowListedOK ==
  ASSUME RetentionInv, LaggingReads = FALSE, NEW w \in Workers, SweepOK(job[w], table),
         ListOverflow(w)
  PROVE  SweepOK(job'[w], table')
<1>. DEFINE j == job[w]
            k == job'[w]
            t == job[w].start.table
            remaining == Stored \ job[w].removed
            overflow  == Cardinality(remaining) - MaxStored
<1>1. /\ table' = table /\ j.pass = "aged" /\ j.step = "visit" /\ j.todo = {}
      /\ k.dry = j.dry /\ k.start = j.start /\ k.step = "visit"
      /\ k.loaded = j.loaded /\ k.removed = j.removed
      /\ \/ overflow <= 0 /\ k.pass = "done"
         \/ ~(overflow <= 0) /\ k.pass = "load" /\ k.todo = remaining /\ k.quota = overflow
  BY OverflowListed DEF Keeps, Untouched
<1>2. Progress(j, t) /\ Tracks(j, t, table)
  BY <1>1, SweepBasics DEF Sweeping
<1>3. k.start.table = t BY <1>1
<1>4. j.removed = StaleIn(t) /\ j.loaded = {} BY <1>1, <1>2 DEF Progress
<1>5. InHand(j) = {} /\ InHand(k) = {} BY <1>1 DEF InHand
<1>6. remaining = RemainingIn(t)
  BY <1>2, <1>4, <1>5 DEF Tracks, Stored, RemainingIn, StoredIn
<1>7. overflow = Excess(t) BY <1>6 DEF Excess
<1>8. Excess(t) \in Int BY TableSets
<1>. HIDE DEF j, k, t, remaining, overflow
<1>9. ChosenOK(k, t) /\ Chosen(k, t) = {} /\ Cardinality(Chosen(k, t)) = 0
  BY <1>1, <1>4, NothingChosen
<1>10. Progress(k, t)
  <2>1. CASE overflow <= 0
    BY <1>1, <1>7, <1>9, <2>1 DEF Progress, Quota
  <2>2. CASE ~(overflow <= 0)
    <3>1. k.loaded = Loads(t, CompletedIn(t) \ k.todo)
      <4>1. CompletedIn(t) \ k.todo = {} BY <1>1, <1>6, <2>2 DEF CompletedIn
      <4>. QED BY <1>1, <1>4, <4>1 DEF Loads
    <3>2. k.todo \subseteq RemainingIn(t) /\ k.pass = "load" /\ k.quota = Excess(t)
      BY <1>1, <1>6, <1>7, <2>2
    <3>3. Excess(t) > 0 BY <1>7, <1>8, <2>2
    <3>. QED BY <1>1, <1>4, <3>1, <3>2, <3>3 DEF Progress
  <2>. QED BY <2>1, <2>2
<1>11. Tracks(k, t, table') BY <1>1, <1>2, <1>5, TracksStays
<1>12. SweepOK(k, table') BY <1>1, <1>2, <1>3, <1>10, <1>11 DEF SweepOK
<1>. QED BY <1>12 DEF k

LEMMA OverflowLoadedOK ==
  ASSUME RetentionInv, LaggingReads = FALSE, NEW w \in Workers, SweepOK(job[w], table),
         LoadOverflow(w)
  PROVE  SweepOK(job'[w], table')
<1>. DEFINE j == job[w]
            k == job'[w]
            t == job[w].start.table
<1>1. /\ table' = table /\ j.pass = "load" /\ j.step = "visit"
      /\ k.dry = j.dry /\ k.start = j.start /\ k.pass = "load" /\ k.step = "visit"
      /\ k.removed = j.removed /\ k.quota = j.quota
      /\ \E id \in j.todo :
              /\ table[id] # None /\ k.todo = j.todo \ {id}
              /\ k.loaded = IF table[id].status = "completed"
                              THEN j.loaded \cup {[id |-> id, match |-> table[id]]}
                              ELSE j.loaded
  BY OverflowLoaded DEF Keeps, Untouched
<1>2. Progress(j, t) /\ Tracks(j, t, table)
  BY <1>1, SweepBasics DEF Sweeping
<1>3. k.start.table = t BY <1>1
<1>. HIDE DEF j, k, t
<1>4. PICK id \in j.todo :
              /\ table[id] # None /\ k.todo = j.todo \ {id}
              /\ k.loaded = IF table[id].status = "completed"
                              THEN j.loaded \cup {[id |-> id, match |-> table[id]]}
                              ELSE j.loaded
  BY <1>1
<1>5. /\ j.removed = StaleIn(t) /\ j.todo \subseteq RemainingIn(t)
      /\ j.loaded = Loads(t, CompletedIn(t) \ j.todo)
      /\ j.quota = Excess(t) /\ Excess(t) > 0
  BY <1>1, <1>2 DEF Progress
<1>6. InHand(j) = {} /\ InHand(k) = {} BY <1>1 DEF InHand
<1>7. id \in RemainingIn(t) /\ id \in MatchIds /\ id \notin j.removed
  BY <1>4, <1>5 DEF RemainingIn, StoredIn
<1>8. table[id] = t[id] BY <1>2, <1>7 DEF Tracks
<1>9. k.loaded = Loads(t, CompletedIn(t) \ k.todo)
  <2>1. CASE table[id].status = "completed"
    <3>1. CompletedIn(t) \ k.todo = (CompletedIn(t) \ j.todo) \cup {id}
      BY <1>4, <1>7, <1>8, <2>1 DEF CompletedIn
    <3>2. \A ids : Loads(t, ids \cup {id}) = Loads(t, ids) \cup {[id |-> id, match |-> t[id]]}
      BY DEF Loads
    <3>. QED BY <1>4, <1>5, <1>8, <2>1, <3>1, <3>2
  <2>2. CASE table[id].status # "completed"
    <3>1. CompletedIn(t) \ k.todo = CompletedIn(t) \ j.todo
      BY <1>4, <1>8, <2>2 DEF CompletedIn
    <3>. QED BY <1>4, <1>5, <2>2, <3>1
  <2>. QED BY <2>1, <2>2
<1>10. Progress(k, t) BY <1>1, <1>4, <1>5, <1>9 DEF Progress
<1>11. Tracks(k, t, table') BY <1>1, <1>2, <1>6, TracksStays
<1>12. SweepOK(k, table') BY <1>1, <1>2, <1>3, <1>10, <1>11 DEF SweepOK
<1>. QED BY <1>12 DEF k

LEMMA SortedOK ==
  ASSUME RetentionInv, NEW w \in Workers, SweepOK(job[w], table), Sorted(w)
  PROVE  SweepOK(job'[w], table')
<1>. DEFINE j == job[w]
            k == job'[w]
            t == job[w].start.table
<1>1. /\ table' = table /\ j.pass = "load" /\ j.todo = {} /\ j.step = "visit"
      /\ Does(w, [j EXCEPT !.pass = "overflow"])
  BY WorkerOK DEF Sorted, JobOK
<1>2. /\ k.dry = j.dry /\ k.start = j.start /\ k.pass = "overflow" /\ k.step = "visit"
      /\ k.loaded = j.loaded /\ k.removed = j.removed /\ k.quota = j.quota
  BY <1>1, PassChanged DEF Keeps
<1>3. Progress(j, t) /\ Tracks(j, t, table)
  BY <1>1, SweepBasics DEF Sweeping
<1>4. k.start.table = t BY <1>2
<1>5. Excess(t) \in Int BY TableSets
<1>. HIDE DEF j, k, t
<1>6. /\ k.removed = StaleIn(t) /\ k.loaded = Loads(t, CompletedIn(t))
      /\ k.quota = Excess(t) /\ Excess(t) > 0
  BY <1>1, <1>2, <1>3 DEF Progress
<1>7. ChosenOK(k, t) /\ Chosen(k, t) = {} /\ Cardinality(Chosen(k, t)) = 0
  BY <1>6, NothingChosen
<1>8. Progress(k, t) BY <1>2, <1>5, <1>6, <1>7 DEF Progress
<1>9. InHand(k) = InHand(j) BY <1>1, <1>2 DEF InHand
<1>10. Tracks(k, t, table') BY <1>1, <1>2, <1>3, <1>9, TracksStays
<1>11. SweepOK(k, table') BY <1>2, <1>3, <1>4, <1>8, <1>10 DEF SweepOK
<1>. QED BY <1>11 DEF k

LEMMA OldestTakenOK ==
  ASSUME RetentionInv, NEW w \in Workers, SweepOK(job[w], table), TakeOldest(w)
  PROVE  SweepOK(job'[w], table')
<1>. DEFINE j == job[w]
            k == job'[w]
            t == job[w].start.table
<1>1. /\ table' = table /\ j.pass = "overflow" /\ j.step = "visit" /\ j.quota > 0
      /\ k.dry = j.dry /\ k.start = j.start /\ k.pass = "overflow" /\ k.quota = j.quota - 1
      /\ k.step = IF j.dry THEN "visit" ELSE "put"
      /\ \E c \in j.loaded :
              /\ \A d \in j.loaded : d.match.age <= c.match.age
              /\ k.loaded = j.loaded \ {c} /\ k.id = c.id
              /\ k.removed = j.removed \cup {c.id}
  BY OldestTaken DEF Keeps, Untouched
<1>2. Progress(j, t) /\ Tracks(j, t, table)
  BY <1>1, SweepBasics DEF Sweeping
<1>3. k.start.table = t BY <1>1
<1>4. j.dry \in BOOLEAN BY WorkerOK DEF Job
<1>. HIDE DEF j, k, t
<1>5. PICK c \in j.loaded :
              /\ \A d \in j.loaded : d.match.age <= c.match.age
              /\ k.loaded = j.loaded \ {c} /\ k.id = c.id
              /\ k.removed = j.removed \cup {c.id}
  BY <1>1
<1>. DEFINE chosen == Chosen(j, t)
            id     == c.id
<1>6. /\ StaleIn(t) \subseteq j.removed /\ chosen \subseteq CompletedIn(t) /\ Oldest(t, chosen)
      /\ j.loaded = Loads(t, CompletedIn(t) \ chosen)
      /\ j.quota = Excess(t) - Cardinality(chosen) /\ j.quota >= 0
      /\ Excess(t) > 0
  BY <1>1, <1>2 DEF Progress, ChosenOK
<1>7. id \in CompletedIn(t) \ chosen /\ c = [id |-> id, match |-> t[id]]
  BY <1>5, <1>6 DEF Loads
<1>8. id \notin StaleIn(t) /\ id \notin j.removed
  BY <1>7 DEF CompletedIn, RemainingIn, Chosen
<1>9. Chosen(k, t) = chosen \cup {id} BY <1>5, <1>8 DEF Chosen
<1>. HIDE DEF chosen, id
<1>10. Oldest(t, chosen \cup {id})
  <2>1. ASSUME NEW other \in CompletedIn(t) \ chosen PROVE t[other].age <= t[id].age
    <3>1. [id |-> other, match |-> t[other]] \in j.loaded BY <1>6 DEF Loads
    <3>2. [id |-> other, match |-> t[other]].match.age <= c.match.age BY <1>5, <3>1
    <3>. QED BY <1>7, <3>2
  <2>. QED BY <1>6, <2>1 DEF Oldest
<1>11. k.loaded = Loads(t, CompletedIn(t) \ (chosen \cup {id}))
  <2>1. \A ids : Loads(t, ids \ {id}) = Loads(t, ids) \ {[id |-> id, match |-> t[id]]}
    BY DEF Loads
  <2>2. CompletedIn(t) \ (chosen \cup {id}) = (CompletedIn(t) \ chosen) \ {id} OBVIOUS
  <2>. QED BY <1>5, <1>6, <1>7, <2>1, <2>2
<1>12. k.quota = Excess(t) - Cardinality(chosen \cup {id}) /\ k.quota >= 0
  <2>1. IsFiniteSet(chosen) /\ Cardinality(chosen) \in Nat BY <1>6, ChosenSets
  <2>2. Cardinality(chosen \cup {id}) = Cardinality(chosen) + 1 BY <1>7, <2>1, FS_AddElement
  <2>3. Excess(t) \in Int BY TableSets
  <2>. QED BY <1>1, <1>6, <2>1, <2>2, <2>3
<1>13. ChosenOK(k, t) BY <1>5, <1>6, <1>7, <1>9, <1>10 DEF ChosenOK
<1>14. Progress(k, t) BY <1>1, <1>6, <1>9, <1>11, <1>12, <1>13 DEF Progress
<1>15. Tracks(k, t, table)
  BY <1>1, <1>2, <1>4, <1>5, <1>8, TracksTaken DEF id
<1>16. SweepOK(k, table') BY <1>1, <1>2, <1>3, <1>14, <1>15 DEF SweepOK
<1>. QED BY <1>16 DEF k

LEMMA LastTakenOK ==
  ASSUME RetentionInv, NEW w \in Workers, SweepOK(job[w], table), LastTaken(w)
  PROVE  SweepOK(job'[w], table')
<1>. DEFINE j == job[w]
            k == job'[w]
            t == job[w].start.table
<1>1. /\ table' = table /\ j.pass = "overflow" /\ j.step = "visit"
      /\ j.quota = 0 \/ j.loaded = {}
      /\ Does(w, [j EXCEPT !.pass = "done"])
  BY DEF LastTaken
<1>2. /\ k.dry = j.dry /\ k.start = j.start /\ k.pass = "done" /\ k.step = "visit"
      /\ k.removed = j.removed
  BY <1>1, PassChanged DEF Keeps
<1>3. Progress(j, t) /\ Tracks(j, t, table)
  BY <1>1, SweepBasics DEF Sweeping
<1>4. k.start.table = t BY <1>2
<1>5. Excess(t) \in Int /\ Cardinality(CompletedIn(t)) \in Nat BY TableSets
<1>. HIDE DEF j, k, t
<1>. DEFINE chosen == Chosen(j, t)
<1>6. /\ ChosenOK(j, t) /\ j.loaded = Loads(t, CompletedIn(t) \ chosen)
      /\ j.quota = Excess(t) - Cardinality(chosen) /\ j.quota >= 0 /\ Excess(t) > 0
  BY <1>1, <1>3 DEF Progress
<1>7. chosen \subseteq CompletedIn(t) BY <1>6 DEF ChosenOK
<1>8. ChosenOK(k, t) /\ Chosen(k, t) = chosen BY <1>2, <1>6 DEF ChosenOK, Chosen
<1>. HIDE DEF chosen
<1>9. /\ Cardinality(chosen) \in Nat /\ Cardinality(chosen) <= Cardinality(CompletedIn(t))
      /\ Cardinality(chosen) = Cardinality(CompletedIn(t)) => chosen = CompletedIn(t)
  BY <1>7, ChosenSets
<1>10. Cardinality(chosen) = Quota(t)
  <2>1. CASE j.quota = 0 BY <1>5, <1>6, <1>9, <2>1 DEF Quota
  <2>2. CASE j.loaded = {}
    <3>1. CompletedIn(t) \ chosen = {} BY <1>6, <2>2 DEF Loads
    <3>2. chosen = CompletedIn(t) BY <1>7, <3>1
    <3>. QED BY <1>5, <1>6, <1>9, <3>2 DEF Quota
  <2>. QED BY <1>1, <2>1, <2>2
<1>11. Progress(k, t) BY <1>2, <1>8, <1>10 DEF Progress
<1>12. InHand(k) = InHand(j) BY <1>1, <1>2 DEF InHand
<1>13. Tracks(k, t, table') BY <1>1, <1>2, <1>3, <1>12, TracksStays
<1>14. SweepOK(k, table') BY <1>2, <1>3, <1>4, <1>11, <1>13 DEF SweepOK
<1>. QED BY <1>14 DEF k

LEMMA SweepBegunOK ==
  ASSUME RetentionInv, LaggingReads = FALSE, NEW w \in Workers, NEW dry \in BOOLEAN,
         BeginSweep(w, dry)
  PROVE  SweepOK(job'[w], table')
<1>. DEFINE k == job'[w]
<1>1. /\ table' = table /\ k.pass = "stale" /\ k.step = "visit"
      /\ k.todo = Stored /\ k.removed = {} /\ k.loaded = {}
      /\ k.start = [table |-> table, archive |-> archive]
  BY SweepBegun DEF Untouched
<1>. HIDE DEF k
<1>2. k.start.table = table /\ StoredIn(table) = Stored BY <1>1 DEF StoredIn, Stored
<1>3. Progress(k, table) BY <1>1, <1>2 DEF Progress, StaleIn
<1>4. Tracks(k, table, table) BY <1>1 DEF Tracks, InHand
<1>5. SweepOK(k, table') BY <1>1, <1>2, <1>3, <1>4 DEF SweepOK
<1>. QED BY <1>5 DEF k

LEMMA IdleSweepOK ==
  ASSUME NEW j, NEW now, j.pass \in {"idle", "play", "operator"}
  PROVE  SweepOK(j, now)
BY DEF SweepOK, Sweeping

LEMMA NoSweepOK == ASSUME NEW now PROVE SweepOK(NoJob, now)
BY NoJobOK DEF SweepOK, Sweeping

LEMMA SweepStepOK ==
  ASSUME RetentionInv, LaggingReads = FALSE, NEW w \in Workers, SweepOK(job[w], table),
         SweepStep(w)
  PROVE  SweepOK(job'[w], table')
<1>1. ASSUME Does(w, NoJob) PROVE SweepOK(job'[w], table')
  <2>1. job'[w] = NoJob BY <1>1, Moves
  <2>. QED BY <2>1, NoSweepOK
<1>2. CASE VisitMissing(w) \/ EndSweep(w) BY <1>1, <1>2 DEF VisitMissing, EndSweep
<1>3. CASE VisitStale(w) BY <1>3, StaleVisitedOK
<1>4. CASE PutArchive(w) BY <1>4, ArchivePutOK
<1>5. CASE DeleteHot(w) BY <1>5, HotDeletedOK
<1>6. CASE ListAged(w) BY <1>6, AgedListedOK
<1>7. CASE DeleteAged(w) BY <1>7, AgedDeletedOK
<1>8. CASE ListOverflow(w) BY <1>8, OverflowListedOK
<1>9. CASE LoadOverflow(w) BY <1>9, OverflowLoadedOK
<1>10. CASE Sorted(w) BY <1>10, SortedOK
<1>11. CASE TakeOldest(w) BY <1>11, OldestTakenOK
<1>12. CASE LastTaken(w) BY <1>12, LastTakenOK
<1>. QED BY <1>2, <1>3, <1>4, <1>5, <1>6, <1>7, <1>8, <1>9, <1>10, <1>11, <1>12 DEF SweepStep

\* Other jobs begin only when the one worker is idle.
LEMMA PlayBegun ==
  ASSUME RetentionInv, LaggingReads = FALSE, NEW w \in Workers, NEW id \in MatchIds,
         Play(w, id)
  PROVE  /\ Untouched /\ job'[w].pass = "play" /\ job'[w].step = "visit" /\ job'[w].id = id
         /\ table[id] # None /\ Idle(w)
<1>1. PICK match \in Reads(id) \ {None}, status \in {"live", "completed"} :
        Does(w, [NoJob EXCEPT !.pass = "play", !.id = id,
                      !.copy = [status |-> status, turns |-> match.turns + 1, age |-> 0]])
  BY DEF Play
<1>. DEFINE copy == [status |-> status, turns |-> match.turns + 1, age |-> 0]
<1>2. job'[w] = [NoJob EXCEPT !.pass = "play", !.id = id, !.copy = copy] BY <1>1, Moves
<1>3. table[id] # None BY <1>1, CurrentRead
<1>. HIDE DEF copy
<1>4. job'[w].pass = "play" /\ job'[w].step = "visit" /\ job'[w].id = id BY <1>2 DEF NoJob
<1>. QED BY <1>3, <1>4 DEF Play, Untouched

LEMMA OperatorBegun ==
  ASSUME RetentionInv, NEW w \in Workers, NEW id \in MatchIds, OperatorArchive(w, id)
  PROVE  /\ Untouched /\ job'[w].pass = "operator" /\ job'[w].step = "put"
         /\ job'[w].id = id /\ Idle(w)
<1>1. PICK match \in Reads(id) \ {None} :
        Does(w, [NoJob EXCEPT !.pass = "operator", !.step = "put", !.id = id, !.copy = match])
  BY DEF OperatorArchive
<1>2. job'[w] = [NoJob EXCEPT !.pass = "operator", !.step = "put", !.id = id, !.copy = match]
  BY <1>1, Moves
<1>3. job'[w].pass = "operator" /\ job'[w].step = "put" /\ job'[w].id = id BY <1>2 DEF NoJob
<1>. QED BY <1>3 DEF OperatorArchive, Untouched

\* One worker: the sweep it is at goes on as it should, for it is alone.
LEMMA SweepNextOK ==
  ASSUME RetentionInv, LaggingReads = FALSE, NEW w, Workers = {w}, SweepOK(job[w], table),
         [Next]_vars
  PROVE  SweepOK(job'[w], table')
<1>0. w \in Workers OBVIOUS
<1>1. ASSUME Does(w, NoJob) PROVE SweepOK(job'[w], table')
  <2>1. job'[w] = NoJob BY <1>0, <1>1, Moves
  <2>. QED BY <2>1, NoSweepOK
<1>2. ASSUME job' = job, Idle(w) PROVE SweepOK(job'[w], table')
  BY <1>2, IdleSweepOK DEF Idle
<1>3. ASSUME NEW id \in MatchIds, Create(w, id) PROVE SweepOK(job'[w], table')
  BY <1>2, <1>3 DEF Create
<1>4. ASSUME NEW id \in MatchIds, Play(w, id) PROVE SweepOK(job'[w], table')
  <2>1. job'[w].pass \in {"idle", "play", "operator"} BY <1>0, <1>4, PlayBegun
  <2>. QED BY <2>1, IdleSweepOK
<1>5. ASSUME NEW id \in MatchIds, OperatorArchive(w, id) PROVE SweepOK(job'[w], table')
  <2>1. job'[w].pass \in {"idle", "play", "operator"} BY <1>0, <1>5, OperatorBegun
  <2>. QED BY <2>1, IdleSweepOK
<1>6. ASSUME NEW dry \in BOOLEAN, BeginSweep(w, dry) PROVE SweepOK(job'[w], table')
  BY <1>0, <1>6, SweepBegunOK
<1>7. CASE SavePlay(w) \/ Die(w) BY <1>1, <1>7 DEF SavePlay, Die
<1>8. CASE SweepStep(w) BY <1>0, <1>8, SweepStepOK
<1>9. CASE Day BY <1>0, <1>2, <1>9 DEF Day
<1>10. CASE \E id \in MatchIds : Replicate(id) BY <1>10 DEF Replicate
<1>11. CASE UNCHANGED vars BY <1>11 DEF vars
<1>. QED BY <1>3, <1>4, <1>5, <1>6, <1>7, <1>8, <1>9, <1>10, <1>11 DEF Next

\* A finished real sweep has left what it should.
LEMMA CapMet ==
  ASSUME RetentionInv, NEW w \in Workers, SweepOK(job[w], table),
         job[w].pass = "done", ~job[w].dry
  PROVE  Cardinality(Stored) <= MaxStored \/ \A id \in Stored : Live(id)
<1>. DEFINE j == job[w]
            t == job[w].start.table
            chosen == Chosen(j, t)
<1>1. Progress(j, t) /\ Tracks(j, t, table) BY DEF SweepOK
<1>2. InHand(j) = {} BY WorkerOK DEF JobOK, InHand
<1>3. ChosenOK(j, t) /\ Cardinality(chosen) = Quota(t) BY <1>1 DEF Progress
<1>4. StaleIn(t) \subseteq j.removed /\ chosen \subseteq CompletedIn(t) BY <1>3 DEF ChosenOK
<1>5. \A id \in MatchIds : table[id] = IF id \in j.removed THEN None ELSE t[id]
  BY <1>1, <1>2 DEF Tracks
<1>6. Stored = RemainingIn(t) \ chosen
  BY <1>4, <1>5 DEF Stored, RemainingIn, StoredIn, Chosen
<1>7. \A id \in Stored : table[id] = t[id]
  BY <1>5 DEF Stored
<1>8. /\ IsFiniteSet(RemainingIn(t)) /\ Cardinality(RemainingIn(t)) \in Nat
      /\ Cardinality(CompletedIn(t)) \in Nat /\ CompletedIn(t) \subseteq RemainingIn(t)
  BY TableSets
<1>9. /\ Cardinality(chosen) \in Nat
      /\ Cardinality(chosen) = Cardinality(CompletedIn(t)) => chosen = CompletedIn(t)
  BY <1>4, ChosenSets
<1>. HIDE DEF j, t, chosen
<1>10. Cardinality(Stored) = Cardinality(RemainingIn(t)) - Cardinality(chosen)
  <2>1. RemainingIn(t) \cap chosen = chosen BY <1>4, <1>8
  <2>. QED BY <1>6, <1>8, <2>1, FS_Difference
<1>11. MaxStored \in Nat BY RetentionAssumption
<1>12. CASE Excess(t) <= 0 \/ Cardinality(chosen) = Excess(t)
  BY <1>3, <1>8, <1>9, <1>10, <1>11, <1>12 DEF Excess, Quota
<1>13. CASE chosen = CompletedIn(t)
  <2>1. ASSUME NEW id \in Stored PROVE Live(id)
    <3>1. /\ id \in RemainingIn(t) /\ id \notin CompletedIn(t) /\ table[id] = t[id]
          /\ id \in MatchIds /\ table[id] # None
      BY <1>6, <1>7, <1>13, <2>1 DEF Stored
    <3>2. t[id].status # "completed" BY <3>1 DEF CompletedIn
    <3>3. table[id] \in Match BY <3>1 DEF RetentionInv, StoreOK
    <3>. QED BY <3>1, <3>2, <3>3 DEF Live, Match
  <2>. QED BY <2>1
<1>. QED BY <1>3, <1>9, <1>12, <1>13 DEF Quota

AllSweepsOK == \A w \in Workers : SweepOK(job[w], table)

\* A real sweep that finishes leaves at most max_stored_matches in the hot table,
\* or nothing completed to archive: for any number of matches, any caps and ages,
\* while one job runs at a time and reads are up to date, whatever earlier jobs
\* died half-way.
THEOREM SweepLeavesCapMet ==
  ASSUME SweepsOverlap = FALSE, LaggingReads = FALSE, NEW worker, Workers = {worker}
  PROVE  Spec => []SweepMeetsCap
<1>1. Init => RetentionInv /\ AllSweepsOK
  <2>1. ASSUME Init, NEW w \in Workers PROVE SweepOK(job[w], table)
    <3>1. job[w] = NoJob BY <2>1 DEF Init
    <3>. QED BY <3>1, NoSweepOK
  <2>. QED BY <2>1, RetentionInit DEF AllSweepsOK
<1>2. RetentionInv /\ AllSweepsOK /\ [Next]_vars => (RetentionInv /\ AllSweepsOK)'
  <2>1. ASSUME RetentionInv, AllSweepsOK, [Next]_vars
        PROVE  SweepOK(job'[worker], table')
    <3>1. SweepOK(job[worker], table) BY <2>1 DEF AllSweepsOK
    <3>. QED BY <2>1, <3>1, SweepNextOK
  <2>. QED BY <2>1, RetentionNext DEF AllSweepsOK
<1>3. RetentionInv /\ AllSweepsOK => SweepMeetsCap
  BY CapMet DEF AllSweepsOK, SweepMeetsCap
<1>. QED BY <1>1, <1>2, <1>3, PTL DEF Spec

-----------------------------------------------------------------------------
(* What the sweep reports, when no job dies half-way: then a match is in the *)
(* table or in the archive, and what pass 1 archives has not aged in pass 2. *)

Report(stale, aged, overflow) ==
  {Action("archive_hot_stale", id) : id \in stale}
    \cup {Action("delete_aged_archive", id) : id \in aged}
    \cup {Action("archive_overflow", id) : id \in overflow}

\* The archive now is a with new objects, put today.
Freshened(a, now) ==
  \A id \in MatchIds :
    now[id] = a[id] \/ (a[id] = None /\ now[id] # None /\ now[id].age = 0)

\* What job j has reported, for the table t and the archive a it began with.
Reported(j, t, a, now) ==
  /\ \A id \in MatchIds : t[id] = None \/ a[id] = None
  /\ j.pass = "stale" => Freshened(a, now) /\ j.actions = Report(j.removed, {}, {})
  /\ j.pass = "aged" =>
       /\ j.todo \subseteq AgedIn(a)
       /\ j.actions = Report(StaleIn(t), AgedIn(a) \ j.todo, {})
  /\ j.pass \in {"load", "overflow", "done"} =>
       j.actions = Report(StaleIn(t), AgedIn(a), Chosen(j, t))

ReportOK(j, now) ==
  j.pass \in Sweeping \cup {"done"} => Reported(j, j.start.table, j.start.archive, now)

\* Only between its put and its delete is a match in both stores.
Apart(j, t, a) ==
  \A id \in MatchIds : t[id] # None /\ a[id] # None => j.step = "delete" /\ j.id = id

\* A request saves a match that is still in the table.
PlaysStored(j, t) == j.pass = "play" => t[j.id] # None

OrderlyJob(w) ==
  /\ SweepOK(job[w], table) /\ ReportOK(job[w], archive)
  /\ Apart(job[w], table, archive) /\ PlaysStored(job[w], table)

-----------------------------------------------------------------------------

LEMMA NoReport == ASSUME NEW j, NEW now, j.pass \in {"idle", "play", "operator"}
                  PROVE  ReportOK(j, now)
BY DEF ReportOK, Sweeping

LEMMA ReportBasics ==
  ASSUME NEW w \in Workers, OrderlyJob(w), job[w].pass \in Sweeping
  PROVE  Reported(job[w], job[w].start.table, job[w].start.archive, archive)
BY DEF OrderlyJob, ReportOK

LEMMA StaleVisitedReport ==
  ASSUME RetentionInv, LaggingReads = FALSE, NEW w \in Workers, OrderlyJob(w), VisitStale(w)
  PROVE  ReportOK(job'[w], archive')
<1>. DEFINE j == job[w]
            k == job'[w]
            t == job[w].start.table
            a == job[w].start.archive
<1>1. /\ archive' = archive /\ j.pass = "stale" /\ k.start = j.start /\ k.pass = "stale"
      /\ \E id \in j.todo :
           \/ /\ k.removed = j.removed \cup {id}
              /\ k.actions = j.actions \cup {Action("archive_hot_stale", id)}
           \/ k.removed = j.removed /\ k.actions = j.actions
  BY StaleVisited DEF Untouched, Keeps
<1>2. Reported(j, t, a, archive) BY <1>1, ReportBasics DEF Sweeping
<1>3. k.start.table = t /\ k.start.archive = a BY <1>1
<1>. HIDE DEF j, k, t, a
<1>4. PICK id \in j.todo :
           \/ /\ k.removed = j.removed \cup {id}
              /\ k.actions = j.actions \cup {Action("archive_hot_stale", id)}
           \/ k.removed = j.removed /\ k.actions = j.actions
  BY <1>1
<1>5. k.actions = Report(k.removed, {}, {})
  <2>1. Report(j.removed \cup {id}, {}, {}) =
          Report(j.removed, {}, {}) \cup {Action("archive_hot_stale", id)}
    BY DEF Report
  <2>2. j.actions = Report(j.removed, {}, {}) BY <1>1, <1>2 DEF Reported
  <2>. QED BY <1>4, <2>1, <2>2
<1>6. Reported(k, t, a, archive') BY <1>1, <1>2, <1>5 DEF Reported
<1>7. ReportOK(k, archive') BY <1>3, <1>6 DEF ReportOK
<1>. QED BY <1>7 DEF k

LEMMA ArchivePutReport ==
  ASSUME RetentionInv, NEW w \in Workers, OrderlyJob(w), PutArchive(w)
  PROVE  ReportOK(job'[w], archive')
<1>. DEFINE j == job[w]
            k == job'[w]
            t == job[w].start.table
            a == job[w].start.archive
<1>1. /\ j.step = "put" /\ j.id \in MatchIds
      /\ archive'[j.id].age = 0 /\ archive'[j.id] # None
      /\ \A id \in MatchIds \ {j.id} : archive'[id] = archive[id]
      /\ k.start = j.start /\ k.pass = j.pass /\ k.todo = j.todo
      /\ k.removed = j.removed /\ k.actions = j.actions
  BY ArchivePut DEF Keeps
<1>. SUFFICES ASSUME k.pass \in Sweeping \cup {"done"} PROVE ReportOK(job'[w], archive')
  BY DEF ReportOK
<1>2. Reported(j, t, a, archive) BY <1>1 DEF OrderlyJob, ReportOK
<1>3. Progress(j, t) /\ Tracks(j, t, table) BY <1>1 DEF OrderlyJob, SweepOK
<1>4. k.start.table = t /\ k.start.archive = a BY <1>1
<1>. HIDE DEF j, k, t, a
<1>5. ASSUME k.pass = "stale" PROVE Freshened(a, archive')
  <2>1. j.removed \subseteq StaleIn(t) BY <1>1, <1>3, <1>5 DEF Progress
  <2>2. j.id \in StaleIn(t) BY <1>1, <1>3, <2>1 DEF Tracks, InHand
  <2>3. a[j.id] = None BY <1>1, <1>2, <2>2 DEF Reported, StaleIn, StoredIn
  <2>. QED BY <1>1, <1>2, <1>5, <2>3 DEF Reported, Freshened
<1>6. Chosen(k, t) = Chosen(j, t) BY <1>1 DEF Chosen
<1>7. Reported(k, t, a, archive') BY <1>1, <1>2, <1>5, <1>6 DEF Reported
<1>8. ReportOK(k, archive') BY <1>4, <1>7 DEF ReportOK
<1>. QED BY <1>8 DEF k

\* A step of the sweep that reports nothing, in the same pass and over the same archive.
LEMMA ReportStays ==
  ASSUME NEW j, NEW k, NEW now, ReportOK(j, now), k.start = j.start, k.pass = j.pass,
         k.todo = j.todo \/ k.pass \notin {"aged"},
         k.removed = j.removed, k.actions = j.actions
  PROVE  ReportOK(k, now)
BY DEF ReportOK, Reported, Chosen

LEMMA HotDeletedReport ==
  ASSUME RetentionInv, NEW w \in Workers, OrderlyJob(w), DeleteHot(w)
  PROVE  ReportOK(job'[w], archive')
<1>1. CASE job[w].pass = "operator"
  <2>1. job'[w] = NoJob BY <1>1, Moves DEF DeleteHot
  <2>. QED BY <2>1, NoJobOK DEF ReportOK, Sweeping
<1>2. CASE job[w].pass # "operator"
  <2>1. /\ archive' = archive /\ job'[w].start = job[w].start /\ job'[w].pass = job[w].pass
        /\ job'[w].todo = job[w].todo /\ job'[w].removed = job[w].removed
        /\ job'[w].actions = job[w].actions
    BY <1>2, HotDeleted DEF Keeps
  <2>. QED BY <2>1, ReportStays DEF OrderlyJob
<1>. QED BY <1>1, <1>2

LEMMA AgedListedReport ==
  ASSUME RetentionInv, NEW w \in Workers, OrderlyJob(w), ListAged(w)
  PROVE  ReportOK(job'[w], archive')
<1>. DEFINE j == job[w]
            k == job'[w]
            t == job[w].start.table
            a == job[w].start.archive
<1>1. /\ j.pass = "stale" /\ j.todo = {} /\ k.start = j.start /\ k.pass = "aged"
      /\ k.todo = AgedIn(archive) /\ k.actions = j.actions
  BY AgedListed DEF Keeps
<1>2. Reported(j, t, a, archive) /\ Progress(j, t)
  BY <1>1, ReportBasics DEF Sweeping, OrderlyJob, SweepOK
<1>3. k.start.table = t /\ k.start.archive = a BY <1>1
<1>. HIDE DEF j, k, t, a
<1>4. AgedIn(archive) = AgedIn(a)
  <2>1. ~(0 >= MaxArchive) BY RetentionAssumption
  <2>2. ASSUME NEW id \in MatchIds
        PROVE  archive[id] # None /\ IsAged(archive[id]) <=> a[id] # None /\ IsAged(a[id])
    <3>1. archive[id] = a[id] \/ (a[id] = None /\ archive[id] # None /\ archive[id].age = 0)
      BY <1>1, <1>2 DEF Reported, Freshened
    <3>. QED BY <2>1, <3>1 DEF IsAged
  <2>. QED BY <2>2 DEF AgedIn
<1>5. j.removed = StaleIn(t) BY <1>1, <1>2 DEF Progress
<1>6. k.actions = Report(StaleIn(t), {}, {}) BY <1>1, <1>2, <1>5 DEF Reported
<1>7. k.todo = AgedIn(a) /\ AgedIn(a) \ k.todo = {} BY <1>1, <1>4
<1>8. Reported(k, t, a, archive') BY <1>1, <1>2, <1>6, <1>7 DEF Reported
<1>9. ReportOK(k, archive') BY <1>3, <1>8 DEF ReportOK
<1>. QED BY <1>9 DEF k

LEMMA AgedDeletedReport ==
  ASSUME RetentionInv, NEW w \in Workers, OrderlyJob(w), DeleteAged(w)
  PROVE  ReportOK(job'[w], archive')
<1>. DEFINE j == job[w]
            k == job'[w]
            t == job[w].start.table
            a == job[w].start.archive
<1>1. /\ j.pass = "aged" /\ k.start = j.start /\ k.pass = "aged"
      /\ \E id \in j.todo :
           /\ k.todo = j.todo \ {id}
           /\ k.actions = j.actions \cup {Action("delete_aged_archive", id)}
  BY AgedDeleted DEF Keeps
<1>2. Reported(j, t, a, archive) BY <1>1, ReportBasics DEF Sweeping
<1>3. k.start.table = t /\ k.start.archive = a BY <1>1
<1>. HIDE DEF j, k, t, a
<1>4. PICK id \in j.todo :
           /\ k.todo = j.todo \ {id}
           /\ k.actions = j.actions \cup {Action("delete_aged_archive", id)}
  BY <1>1
<1>5. /\ j.todo \subseteq AgedIn(a)
      /\ j.actions = Report(StaleIn(t), AgedIn(a) \ j.todo, {})
  BY <1>1, <1>2 DEF Reported
<1>6. AgedIn(a) \ k.todo = (AgedIn(a) \ j.todo) \cup {id} BY <1>4, <1>5
<1>7. k.actions = Report(StaleIn(t), AgedIn(a) \ k.todo, {})
  <2>1. Report(StaleIn(t), (AgedIn(a) \ j.todo) \cup {id}, {}) =
          Report(StaleIn(t), AgedIn(a) \ j.todo, {}) \cup {Action("delete_aged_archive", id)}
    BY DEF Report
  <2>. QED BY <1>4, <1>5, <1>6, <2>1
<1>8. Reported(k, t, a, archive') BY <1>1, <1>2, <1>4, <1>5, <1>7 DEF Reported
<1>9. ReportOK(k, archive') BY <1>3, <1>8 DEF ReportOK
<1>. QED BY <1>9 DEF k

LEMMA OverflowListedReport ==
  ASSUME RetentionInv, LaggingReads = FALSE, NEW w \in Workers, OrderlyJob(w), ListOverflow(w)
  PROVE  ReportOK(job'[w], archive')
<1>. DEFINE j == job[w]
            k == job'[w]
            t == job[w].start.table
            a == job[w].start.archive
<1>1. /\ j.pass = "aged" /\ j.todo = {} /\ k.start = j.start /\ k.pass \in {"done", "load"}
      /\ k.removed = j.removed /\ k.actions = j.actions
  BY OverflowListed DEF Keeps
<1>2. Reported(j, t, a, archive) /\ Progress(j, t)
  BY <1>1, ReportBasics DEF Sweeping, OrderlyJob, SweepOK
<1>3. k.start.table = t /\ k.start.archive = a BY <1>1
<1>. HIDE DEF j, k, t, a
<1>4. k.removed = StaleIn(t) BY <1>1, <1>2 DEF Progress
<1>5. Chosen(k, t) = {} BY <1>4 DEF Chosen
<1>6. AgedIn(a) \ j.todo = AgedIn(a) BY <1>1
<1>7. k.actions = Report(StaleIn(t), AgedIn(a), Chosen(k, t))
  BY <1>1, <1>2, <1>5, <1>6 DEF Reported
<1>8. Reported(k, t, a, archive') BY <1>1, <1>2, <1>7 DEF Reported
<1>9. ReportOK(k, archive') BY <1>3, <1>8 DEF ReportOK
<1>. QED BY <1>9 DEF k

\* From the loads on, the report grows by what is chosen.
LEMMA LatePasses ==
  ASSUME NEW j, NEW k, NEW now, NEW later, ReportOK(j, now), k.start = j.start,
         j.pass \in {"load", "overflow"}, k.pass \in {"load", "overflow", "done"},
         k.removed = j.removed, k.actions = j.actions
  PROVE  ReportOK(k, later)
BY DEF ReportOK, Reported, Chosen, Sweeping

LEMMA OldestTakenReport ==
  ASSUME RetentionInv, NEW w \in Workers, OrderlyJob(w), TakeOldest(w)
  PROVE  ReportOK(job'[w], archive')
<1>. DEFINE j == job[w]
            k == job'[w]
            t == job[w].start.table
            a == job[w].start.archive
<1>1. /\ j.pass = "overflow" /\ k.start = j.start /\ k.pass = "overflow"
      /\ \E c \in j.loaded :
           /\ k.removed = j.removed \cup {c.id}
           /\ k.actions = j.actions \cup {Action("archive_overflow", c.id)}
  BY OldestTaken DEF Keeps
<1>2. Reported(j, t, a, archive) /\ Progress(j, t)
  BY <1>1, ReportBasics DEF Sweeping, OrderlyJob, SweepOK
<1>3. k.start.table = t /\ k.start.archive = a BY <1>1
<1>. HIDE DEF j, k, t, a
<1>4. PICK c \in j.loaded :
           /\ k.removed = j.removed \cup {c.id}
           /\ k.actions = j.actions \cup {Action("archive_overflow", c.id)}
  BY <1>1
<1>5. c.id \in CompletedIn(t) \ Chosen(j, t) BY <1>1, <1>2, <1>4 DEF Progress, Loads
<1>6. Chosen(k, t) = Chosen(j, t) \cup {c.id}
  BY <1>4, <1>5 DEF Chosen, CompletedIn, RemainingIn
<1>7. k.actions = Report(StaleIn(t), AgedIn(a), Chosen(k, t))
  <2>1. Report(StaleIn(t), AgedIn(a), Chosen(j, t) \cup {c.id}) =
          Report(StaleIn(t), AgedIn(a), Chosen(j, t)) \cup {Action("archive_overflow", c.id)}
    BY DEF Report
  <2>2. j.actions = Report(StaleIn(t), AgedIn(a), Chosen(j, t)) BY <1>1, <1>2 DEF Reported
  <2>. QED BY <1>4, <1>6, <2>1, <2>2
<1>8. Reported(k, t, a, archive') BY <1>1, <1>2, <1>7 DEF Reported
<1>9. ReportOK(k, archive') BY <1>3, <1>8 DEF ReportOK
<1>. QED BY <1>9 DEF k

LEMMA SweepBegunReport ==
  ASSUME RetentionInv, LaggingReads = FALSE, NEW w \in Workers, NEW dry \in BOOLEAN,
         OrderlyJob(w), BeginSweep(w, dry)
  PROVE  ReportOK(job'[w], archive')
<1>. DEFINE k == job'[w]
<1>1. /\ archive' = archive /\ Idle(w) /\ k.pass = "stale" /\ k.removed = {} /\ k.actions = {}
      /\ k.start = [table |-> table, archive |-> archive]
  BY SweepBegun DEF Untouched
<1>2. job[w].step = "visit" BY <1>1, WorkerOK DEF JobOK, Idle
<1>3. \A id \in MatchIds : table[id] = None \/ archive[id] = None
  BY <1>2 DEF OrderlyJob, Apart
<1>. HIDE DEF k
<1>4. Report({}, {}, {}) = {} BY DEF Report
<1>5. Reported(k, table, archive, archive') BY <1>1, <1>3, <1>4 DEF Reported, Freshened
<1>6. k.start.table = table /\ k.start.archive = archive BY <1>1
<1>7. ReportOK(k, archive') BY <1>5, <1>6 DEF ReportOK
<1>. QED BY <1>7 DEF k

LEMMA SweepStepReport ==
  ASSUME RetentionInv, LaggingReads = FALSE, NEW w \in Workers, OrderlyJob(w), SweepStep(w)
  PROVE  ReportOK(job'[w], archive')
<1>0. ReportOK(job[w], archive) BY DEF OrderlyJob
<1>1. ASSUME Does(w, NoJob) PROVE ReportOK(job'[w], archive')
  <2>1. job'[w] = NoJob BY <1>1, Moves
  <2>. QED BY <2>1, NoJobOK DEF ReportOK, Sweeping
<1>2. CASE VisitMissing(w) \/ EndSweep(w) BY <1>1, <1>2 DEF VisitMissing, EndSweep
<1>3. CASE VisitStale(w) BY <1>3, StaleVisitedReport
<1>4. CASE PutArchive(w) BY <1>4, ArchivePutReport
<1>5. CASE DeleteHot(w) BY <1>5, HotDeletedReport
<1>6. CASE ListAged(w) BY <1>6, AgedListedReport
<1>7. CASE DeleteAged(w) BY <1>7, AgedDeletedReport
<1>8. CASE ListOverflow(w) BY <1>8, OverflowListedReport
<1>9. CASE LoadOverflow(w)
  <2>1. /\ job[w].pass = "load" /\ job'[w].pass = "load" /\ job'[w].start = job[w].start
        /\ job'[w].removed = job[w].removed /\ job'[w].actions = job[w].actions
    BY <1>9, OverflowLoaded DEF Keeps
  <2>. QED BY <1>0, <2>1, LatePasses
<1>10. CASE Sorted(w)
  <2>1. job[w].pass = "load" /\ Does(w, [job[w] EXCEPT !.pass = "overflow"])
    BY <1>10 DEF Sorted
  <2>2. /\ job'[w].pass = "overflow" /\ job'[w].start = job[w].start
        /\ job'[w].removed = job[w].removed /\ job'[w].actions = job[w].actions
    BY <2>1, PassChanged DEF Keeps
  <2>. QED BY <1>0, <2>1, <2>2, LatePasses
<1>11. CASE TakeOldest(w) BY <1>11, OldestTakenReport
<1>12. CASE LastTaken(w)
  <2>1. job[w].pass = "overflow" /\ Does(w, [job[w] EXCEPT !.pass = "done"])
    BY <1>12 DEF LastTaken
  <2>2. /\ job'[w].pass = "done" /\ job'[w].start = job[w].start
        /\ job'[w].removed = job[w].removed /\ job'[w].actions = job[w].actions
    BY <2>1, PassChanged DEF Keeps
  <2>. QED BY <1>0, <2>1, <2>2, LatePasses
<1>. QED BY <1>2, <1>3, <1>4, <1>5, <1>6, <1>7, <1>8, <1>9, <1>10, <1>11, <1>12 DEF SweepStep

-----------------------------------------------------------------------------

LEMMA NoneIsSeparate ==
  ASSUME RetentionInv
  PROVE  /\ DOMAIN table = MatchIds /\ DOMAIN archive = MatchIds
         /\ None \notin Match /\ None \notin Object
BY NoneIsNoRecord DEF RetentionInv, StoreOK

\* No step that begins with nothing in hand and adds to no store brings a match into both.
LEMMA ApartStays ==
  ASSUME NEW j, NEW k, NEW t, NEW a, NEW u, NEW b, Apart(j, t, a), j.step # "delete",
         \A id \in MatchIds : t[id] = None => u[id] = None,
         \A id \in MatchIds : a[id] = None => b[id] = None
  PROVE  Apart(k, u, b)
BY DEF Apart

LEMMA ApartNext ==
  ASSUME RetentionInv, LaggingReads = FALSE, MayCrash = FALSE, NEW w, Workers = {w},
         Apart(job[w], table, archive), PlaysStored(job[w], table), Next
  PROVE  Apart(job'[w], table', archive')
<1>. DEFINE j == job[w]
            k == job'[w]
<1>1. w \in Workers OBVIOUS
<1>2. /\ j \in Job /\ JobOK(j, archive, fate) BY <1>1, WorkerOK
<1>3. j.pass \in {"idle", "play", "aged", "load", "done"} => j.step = "visit"
  BY <1>2 DEF JobOK
<1>4. ASSUME j.step # "delete", table' = table, archive' = archive
      PROVE  Apart(k, table', archive')
  BY <1>4, ApartStays
<1>5. ASSUME NEW id \in MatchIds, Create(w, id) PROVE Apart(k, table', archive')
  <2>1. /\ j.step = "visit" /\ fate[id] = "unsaved" /\ archive' = archive
        /\ table' = [table EXCEPT ![id] = [status |-> "live", turns |-> 0, age |-> 0]]
    BY <1>3, <1>5 DEF Create, Writes, Idle
  <2>2. archive[id] = None BY <2>1 DEF RetentionInv, StoreOK
  <2>3. \A other \in MatchIds \ {id} : table'[other] = table[other]
    BY <2>1, NoneIsSeparate
  <2>. QED BY <2>1, <2>2, <2>3 DEF Apart
<1>6. CASE SavePlay(w)
  <2>1. /\ j.pass = "play" /\ table' = [table EXCEPT ![j.id] = j.copy] /\ archive' = archive
    BY <1>6 DEF SavePlay, Writes
  <2>2. j.step = "visit" /\ table[j.id] # None BY <1>3, <2>1 DEF PlaysStored
  <2>3. \A id \in MatchIds : table[id] = None => table'[id] = None
    BY <2>1, <2>2, NoneIsSeparate
  <2>4. \A id \in MatchIds : archive[id] = None => archive'[id] = None BY <2>1
  <2>5. j.step # "delete" BY <2>2
  <2>. QED BY <2>3, <2>4, <2>5, ApartStays
<1>7. CASE PutArchive(w)
  <2>1. /\ table' = table /\ j.step = "put" /\ k.step = "delete" /\ k.id = j.id
        /\ \A id \in MatchIds \ {j.id} : archive'[id] = archive[id]
    BY <1>1, <1>7, ArchivePut
  <2>. QED BY <2>1 DEF Apart
<1>8. CASE DeleteHot(w)
  <2>1. /\ j.step = "delete" /\ table' = [table EXCEPT ![j.id] = None] /\ archive' = archive
    BY <1>8 DEF DeleteHot, Writes
  <2>. HIDE DEF j, k
  <2>2. \A id \in MatchIds : table'[id] = IF id = j.id THEN None ELSE table[id]
    BY <2>1, NoneIsSeparate
  <2>. QED BY <2>1, <2>2 DEF Apart, j
<1>9. CASE DeleteAged(w)
  <2>1. /\ table' = table /\ j.step = "visit"
        /\ \A id \in MatchIds : archive'[id] \in {archive[id], None}
    BY <1>1, <1>9, AgedDeleted
  <2>2. \A id \in MatchIds : archive[id] = None => archive'[id] = None BY <2>1
  <2>. QED BY <2>1, <2>2, ApartStays
<1>10. CASE SweepStep(w) /\ ~PutArchive(w) /\ ~DeleteHot(w) /\ ~DeleteAged(w)
  <2>1. table' = table /\ archive' = archive
    BY <1>10 DEF SweepStep, VisitStale, VisitMissing, ListAged, ListOverflow, LoadOverflow,
                 Sorted, TakeOldest, LastTaken, EndSweep
  <2>2. j.step # "delete"
    BY <1>3, <1>10 DEF SweepStep, VisitStale, VisitMissing, ListAged, ListOverflow,
                       LoadOverflow, Sorted, TakeOldest, LastTaken, EndSweep
  <2>. QED BY <1>4, <2>1, <2>2
<1>11. ASSUME NEW id \in MatchIds, Play(w, id) \/ OperatorArchive(w, id)
       PROVE  Apart(k, table', archive')
  BY <1>3, <1>4, <1>11 DEF Play, OperatorArchive, Idle
<1>12. ASSUME NEW dry \in BOOLEAN, BeginSweep(w, dry) PROVE Apart(k, table', archive')
  BY <1>3, <1>4, <1>12 DEF BeginSweep, Idle
<1>13. CASE Die(w) BY <1>13 DEF Die
<1>14. CASE Day
  <2>1. table' = Older(table, MaxHot) /\ archive' = Older(archive, MaxArchive) /\ j.step = "visit"
    BY <1>1, <1>3, <1>14 DEF Day, Idle
  <2>2. /\ \A id \in MatchIds : table[id] = None => table'[id] = None
        /\ \A id \in MatchIds : archive[id] = None => archive'[id] = None
    BY <2>1 DEF Older
  <2>. QED BY <2>1, <2>2, ApartStays
<1>15. ASSUME NEW id \in MatchIds, Replicate(id) PROVE Apart(k, table', archive')
  BY <1>15 DEF Replicate, Apart
<1>. QED BY <1>5, <1>6, <1>7, <1>8, <1>9, <1>10, <1>11, <1>12, <1>13, <1>14, <1>15 DEF Next

LEMMA PlaysNext ==
  ASSUME RetentionInv, LaggingReads = FALSE, NEW w, Workers = {w},
         PlaysStored(job[w], table), Next
  PROVE  PlaysStored(job'[w], table')
<1>1. w \in Workers OBVIOUS
<1>2. ASSUME job'[w].pass # "play" PROVE PlaysStored(job'[w], table') BY <1>2 DEF PlaysStored
<1>3. ASSUME job' = job, Idle(w) PROVE PlaysStored(job'[w], table')
  BY <1>2, <1>3 DEF Idle
<1>4. ASSUME Does(w, NoJob) PROVE PlaysStored(job'[w], table')
  BY <1>1, <1>2, <1>4, Moves, NoJobOK
<1>5. ASSUME NEW id \in MatchIds, Create(w, id) PROVE PlaysStored(job'[w], table')
  BY <1>3, <1>5 DEF Create
<1>6. ASSUME NEW id \in MatchIds, Play(w, id) PROVE PlaysStored(job'[w], table')
  BY <1>1, <1>6, PlayBegun DEF PlaysStored, Untouched
<1>7. ASSUME NEW id \in MatchIds, OperatorArchive(w, id) PROVE PlaysStored(job'[w], table')
  BY <1>1, <1>2, <1>7, OperatorBegun
<1>8. ASSUME NEW dry \in BOOLEAN, BeginSweep(w, dry) PROVE PlaysStored(job'[w], table')
  BY <1>1, <1>2, <1>8, SweepBegun
<1>9. CASE SavePlay(w) \/ Die(w) \/ VisitMissing(w) \/ EndSweep(w)
  BY <1>4, <1>9 DEF SavePlay, Die, VisitMissing, EndSweep
<1>10. CASE VisitStale(w) BY <1>1, <1>2, <1>10, StaleVisited
<1>11. CASE PutArchive(w)
  <2>1. job[w].step = "put" /\ job'[w].pass = job[w].pass BY <1>1, <1>11, ArchivePut
  <2>2. job[w].pass # "play" BY <1>1, <2>1, WorkerOK DEF JobOK
  <2>. QED BY <1>2, <2>1, <2>2
<1>12. CASE DeleteHot(w)
  <2>1. CASE job[w].pass = "operator" BY <1>4, <1>12, <2>1 DEF DeleteHot
  <2>2. CASE job[w].pass # "operator"
    <3>1. job[w].step = "delete" /\ job'[w].pass = job[w].pass BY <1>1, <1>12, <2>2, HotDeleted
    <3>2. job[w].pass # "play" BY <1>1, <3>1, WorkerOK DEF JobOK
    <3>. QED BY <1>2, <3>1, <3>2
  <2>. QED BY <2>1, <2>2
<1>13. CASE ListAged(w) BY <1>1, <1>2, <1>13, AgedListed
<1>14. CASE DeleteAged(w) BY <1>1, <1>2, <1>14, AgedDeleted
<1>15. CASE ListOverflow(w)
  <2>1. job'[w].pass \in {"done", "load"} BY <1>1, <1>15, OverflowListed
  <2>. QED BY <1>2, <2>1
<1>16. CASE LoadOverflow(w) BY <1>1, <1>2, <1>16, OverflowLoaded
<1>17. CASE Sorted(w)
  <2>1. job'[w].pass = "overflow" BY <1>1, <1>17, PassChanged DEF Sorted
  <2>. QED BY <1>2, <2>1
<1>18. CASE TakeOldest(w) BY <1>1, <1>2, <1>18, OldestTaken
<1>19. CASE LastTaken(w)
  <2>1. job'[w].pass = "done" BY <1>1, <1>19, PassChanged DEF LastTaken
  <2>. QED BY <1>2, <2>1
<1>20. CASE Day BY <1>1, <1>3, <1>20 DEF Day
<1>21. ASSUME NEW id \in MatchIds, Replicate(id) PROVE PlaysStored(job'[w], table')
  BY <1>21 DEF Replicate, PlaysStored
<1>. QED BY <1>5, <1>6, <1>7, <1>8, <1>9, <1>10, <1>11, <1>12, <1>13, <1>14, <1>15, <1>16,
            <1>17, <1>18, <1>19, <1>20, <1>21 DEF Next, SweepStep

LEMMA ReportNext ==
  ASSUME RetentionInv, LaggingReads = FALSE, MayCrash = FALSE, NEW w, Workers = {w},
         OrderlyJob(w), Next
  PROVE  ReportOK(job'[w], archive')
<1>1. w \in Workers OBVIOUS
<1>2. ASSUME job'[w].pass \in {"idle", "play", "operator"} PROVE ReportOK(job'[w], archive')
  BY <1>2, NoReport
<1>3. ASSUME job' = job, Idle(w) PROVE ReportOK(job'[w], archive')
  BY <1>2, <1>3 DEF Idle
<1>4. ASSUME NEW id \in MatchIds, Create(w, id) PROVE ReportOK(job'[w], archive')
  BY <1>3, <1>4 DEF Create
<1>5. ASSUME NEW id \in MatchIds, Play(w, id) PROVE ReportOK(job'[w], archive')
  BY <1>1, <1>2, <1>5, PlayBegun
<1>6. ASSUME NEW id \in MatchIds, OperatorArchive(w, id) PROVE ReportOK(job'[w], archive')
  BY <1>1, <1>2, <1>6, OperatorBegun
<1>7. ASSUME NEW dry \in BOOLEAN, BeginSweep(w, dry) PROVE ReportOK(job'[w], archive')
  BY <1>1, <1>7, SweepBegunReport
<1>8. CASE SavePlay(w)
  <2>1. job'[w] = NoJob BY <1>1, <1>8, Moves DEF SavePlay
  <2>. QED BY <1>2, <2>1, NoJobOK
<1>9. CASE Die(w) BY <1>9 DEF Die
<1>10. CASE SweepStep(w) BY <1>1, <1>10, SweepStepReport
<1>11. CASE Day BY <1>1, <1>3, <1>11 DEF Day
<1>12. ASSUME NEW id \in MatchIds, Replicate(id) PROVE ReportOK(job'[w], archive')
  <2>1. job' = job /\ archive' = archive BY <1>12 DEF Replicate
  <2>. QED BY <2>1 DEF OrderlyJob
<1>. QED BY <1>4, <1>5, <1>6, <1>7, <1>8, <1>9, <1>10, <1>11, <1>12 DEF Next

LEMMA OrderlyNext ==
  ASSUME RetentionInv, LaggingReads = FALSE, MayCrash = FALSE, NEW w, Workers = {w},
         OrderlyJob(w), [Next]_vars
  PROVE  OrderlyJob(w)'
<1>1. /\ SweepOK(job[w], table) /\ Apart(job[w], table, archive)
      /\ PlaysStored(job[w], table)
  BY DEF OrderlyJob
<1>2. CASE Next
  <2>1. SweepOK(job'[w], table') BY <1>1, <1>2, SweepNextOK
  <2>2. ReportOK(job'[w], archive') BY <1>2, ReportNext
  <2>3. Apart(job'[w], table', archive') BY <1>1, <1>2, ApartNext
  <2>4. PlaysStored(job'[w], table') BY <1>1, <1>2, PlaysNext
  <2>. QED BY <2>1, <2>2, <2>3, <2>4 DEF OrderlyJob
<1>3. CASE UNCHANGED vars
  <2>1. table' = table /\ archive' = archive /\ job' = job BY <1>3 DEF vars
  <2>. QED BY <2>1 DEF OrderlyJob
<1>. QED BY <1>2, <1>3

\* The dry runs that could have been: one for each choice of the oldest matches.
LEMMA PreviewsAre ==
  ASSUME NEW t, NEW a
  PROVE  Previews(t, a) =
           { Report(StaleIn(t), AgedIn(a), ids) :
               ids \in {s \in SUBSET CompletedIn(t) :
                          Cardinality(s) = Quota(t) /\ Oldest(t, s)} }
BY DEF Previews, Report, StaleIn, AgedIn, CompletedIn, RemainingIn, StoredIn, Quota, Excess, Oldest

\* A finished sweep has reported one of them.
LEMMA PreviewMatched ==
  ASSUME NEW w \in Workers, OrderlyJob(w), job[w].pass = "done"
  PROVE  job[w].actions \in Previews(job[w].start.table, job[w].start.archive)
<1>. DEFINE j == job[w]
            t == job[w].start.table
            a == job[w].start.archive
<1>1. Progress(j, t) /\ Reported(j, t, a, archive) BY DEF OrderlyJob, SweepOK, ReportOK
<1>2. /\ Chosen(j, t) \subseteq CompletedIn(t) /\ Oldest(t, Chosen(j, t))
      /\ Cardinality(Chosen(j, t)) = Quota(t)
  BY <1>1 DEF Progress, ChosenOK
<1>3. j.actions = Report(StaleIn(t), AgedIn(a), Chosen(j, t)) BY <1>1 DEF Reported
<1>. HIDE DEF j, t, a
<1>4. j.actions \in Previews(t, a) BY <1>2, <1>3, PreviewsAre
<1>. QED BY <1>4 DEF j, t, a

AllOrderly == \A w \in Workers : OrderlyJob(w)

\* Dry run and real run compute the identical action list (docs/operations.md): a
\* sweep that finishes has done, or reported, exactly what a dry run from where it
\* started reports, up to the order of equal ages.  One job runs at a time, reads are
\* up to date, and no job dies half-way: the put that a dead job has left behind
\* would be counted by the next sweep's second pass.
THEOREM RealRunDoesThePreview ==
  ASSUME SweepsOverlap = FALSE, LaggingReads = FALSE, MayCrash = FALSE,
         NEW worker, Workers = {worker}
  PROVE  Spec => []RealRunMatchesPreview
<1>1. Init => RetentionInv /\ AllOrderly
  <2>1. ASSUME Init, NEW w \in Workers PROVE OrderlyJob(w)
    <3>1. job[w] = NoJob /\ \A id \in MatchIds : table[id] = None BY <2>1 DEF Init
    <3>2. NoJob.pass = "idle" BY NoJobOK
    <3>. QED BY <3>1, <3>2 DEF OrderlyJob, SweepOK, ReportOK, Apart, PlaysStored, Sweeping
  <2>. QED BY <2>1, RetentionInit DEF AllOrderly
<1>2. RetentionInv /\ AllOrderly /\ [Next]_vars => (RetentionInv /\ AllOrderly)'
  <2>1. ASSUME RetentionInv, AllOrderly, [Next]_vars
        PROVE  OrderlyJob(worker)'
    <3>1. OrderlyJob(worker) BY <2>1 DEF AllOrderly
    <3>. QED BY <2>1, <3>1, OrderlyNext
  <2>2. ASSUME RetentionInv, AllOrderly, [Next]_vars PROVE AllOrderly'
    BY <2>1, <2>2 DEF AllOrderly
  <2>. QED BY <2>2, RetentionNext
<1>3. RetentionInv /\ AllOrderly => RealRunMatchesPreview
  BY PreviewMatched DEF AllOrderly, RealRunMatchesPreview
<1>. QED BY <1>1, <1>2, <1>3, PTL DEF Spec
=============================================================================
