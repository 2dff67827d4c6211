---------------------------- MODULE RatingLedger ----------------------------
(***************************************************************************)
(* league_site.ratings.aws.DynamoDBRatingLedgerStore under concurrent      *)
(* writers.  record_match is a sequence of separate DynamoDB calls:        *)
(*                                                                         *)
(*   get(identity)             one query per involved identity             *)
(*   put_item ENTRY#<count+1>  one conditional put per involved identity   *)
(*   update_item COUNTER       \  only after an identity's first entry     *)
(*   put_item ORDER#<n>        /                                           *)
(*                                                                         *)
(* and other Lambda invocations run between any two of them.  A refused    *)
(* condition raises and abandons the rest of the call; so does a crash.    *)
(* MatchService composes these actions with the match handlers; the        *)
(* specification at the end lets any writer record any match at any time.  *)
(***************************************************************************)
EXTENDS Integers, Sequences, FiniteSets

CONSTANTS Identities,            \* who can be rated
          MatchIds,              \* the matches that can be recorded
          Writers,               \* concurrent callers of record_match
          Outcomes,              \* the outcomes LedgerSpec records
          ComputeDeltas(_, _),   \* RatingSystem.compute_deltas
          InitialRating,         \* the rating of an identity without history
          LaggingReads,          \* TRUE: get's query may miss the latest entries
          MayCrash,              \* TRUE: a writer may die between two calls
          MaxEntries             \* bound: entries of one identity

Outcome == Seq([identity : Identities, score : Int])

ASSUME LedgerAssumption ==
  /\ InitialRating \in Int /\ MatchIds # {}
  /\ \A o \in Outcomes : o \in Outcome /\ Len(o) >= 2
  /\ LaggingReads \in BOOLEAN /\ MayCrash \in BOOLEAN

VARIABLES
  entries,   \* entries[i]: item ENTRY#n of identity i at n
  markers,   \* markers[n]: the identity of item ORDER#n
  counter,   \* next_order of item COUNTER
  writer     \* writer[w]: what w's record_match has done so far

ledgerVars == <<entries, markers, counter, writer>>

Entry == [match : MatchIds, delta : Int, rating : Int]

Prior == [count : Nat, rating : Int]
NoHistory == [count |-> 0, rating |-> InitialRating]

\* "reading" the priors, "putting" entries, "counting" a newcomer, "marking" it,
\* "done".  todo: the outcome positions the current loop has still to handle.
\* at: the position being registered.
Stages == {"idle", "reading", "putting", "counting", "marking", "done"}

IdleWriter == [stage |-> "idle", match |-> CHOOSE m \in MatchIds : TRUE,
               outcome |-> << >>, todo |-> {}, at |-> 0, order |-> 0,
               priors |-> [i \in Identities |-> NoHistory]]

\* dict.fromkeys: an identity is handled at the first position that names it.
FirstSeen(outcome) ==
  {k \in DOMAIN outcome : \A j \in 1..(k - 1) : outcome[j].identity # outcome[k].identity}

\* k is the next position of w's current loop.
IsNext(w, k) == k \in writer[w].todo /\ \A j \in writer[w].todo : k <= j

At(w, k) == writer[w].outcome[k].identity

RatingAt(h, n) == IF n = 0 THEN InitialRating ELSE h[n].rating

LedgerInit ==
  /\ entries = [i \in Identities |-> << >>]
  /\ markers = << >>
  /\ counter = 0
  /\ writer = [w \in Writers |-> IdleWriter]

-----------------------------------------------------------------------------
(* record_match *)

BeginRecord(w, m, outcome) ==
  /\ writer[w].stage = "idle"
  /\ writer' = [writer EXCEPT ![w] =
       [IdleWriter EXCEPT !.stage = "reading", !.match = m, !.outcome = outcome,
                          !.todo = FirstSeen(outcome)]]
  /\ UNCHANGED <<entries, markers, counter>>

\* The stage after a loop that has left the positions in todo.
AfterReading(todo) == IF todo = {} THEN "putting" ELSE "reading"
AfterPutting(todo) == IF todo = {} THEN "done" ELSE "putting"

\* get: the history as far as the query sees it.  A lagging query sees the
\* entries in the order they were written, without the latest ones.
ReadPrior(w) ==
  /\ writer[w].stage = "reading"
  /\ \E k \in writer[w].todo :
       /\ IsNext(w, k)
       /\ LET i    == At(w, k)
              left == writer[w].todo \ {k}
              all  == Len(entries[i])
          IN  \E n \in 0..all :
                /\ LaggingReads \/ n = all
                /\ writer' = [writer EXCEPT
                     ![w].priors[i] = [count |-> n, rating |-> RatingAt(entries[i], n)],
                     ![w].todo = IF left = {} THEN FirstSeen(writer[w].outcome) ELSE left,
                     ![w].stage = AfterReading(left)]
  /\ UNCHANGED <<entries, markers, counter>>

\* compute_deltas over the priors read.
Deltas(w) ==
  ComputeDeltas([i \in Identities |-> writer[w].priors[i].rating], writer[w].outcome)

NewEntry(w, i) ==
  LET delta == Deltas(w)[i] IN
  [match |-> writer[w].match, delta |-> delta, rating |-> writer[w].priors[i].rating + delta]

\* h with item n set to e.
WithItem(h, n, e) == [k \in DOMAIN h \cup {n} |-> IF k = n THEN e ELSE h[k]]

\* Faulty variant: the put carries no condition.
PutEntryBlindly(w) ==
  /\ writer[w].stage = "putting"
  /\ \E k \in writer[w].todo :
       /\ IsNext(w, k)
       /\ LET i    == At(w, k)
              n    == writer[w].priors[i].count
              left == writer[w].todo \ {k}
          IN  /\ entries' = [entries EXCEPT ![i] = WithItem(@, n + 1, NewEntry(w, i))]
              /\ writer' = [writer EXCEPT
                   ![w].todo = left, ![w].at = k,
                   ![w].stage = IF n = 0 THEN "counting" ELSE AfterPutting(left)]
  /\ UNCHANGED <<markers, counter>>

\* The conditional put of the next identity's entry, accepted: the item after
\* the last entry read does not exist yet.
PutEntry(w) ==
  /\ writer[w].stage = "putting"
  /\ \E k \in writer[w].todo :
       /\ IsNext(w, k)
       /\ LET i    == At(w, k)
              n    == writer[w].priors[i].count
              left == writer[w].todo \ {k}
          IN  /\ n + 1 \notin DOMAIN entries[i]
              /\ entries' = [entries EXCEPT ![i] = WithItem(@, n + 1, NewEntry(w, i))]
              /\ writer' = [writer EXCEPT
                   ![w].todo = left, ![w].at = k,
                   ![w].stage = IF n = 0 THEN "counting" ELSE AfterPutting(left)]
  /\ UNCHANGED <<markers, counter>>

Abandon(w) ==
  /\ writer' = [writer EXCEPT ![w] = IdleWriter]
  /\ UNCHANGED <<entries, markers, counter>>

\* The conditional put refused: ConditionalCheckFailed leaves record_match.
EntryRefused(w) ==
  /\ writer[w].stage = "putting"
  /\ \E k \in writer[w].todo :
       IsNext(w, k) /\ writer[w].priors[At(w, k)].count + 1 \in DOMAIN entries[At(w, k)]
  /\ Abandon(w)

\* _register_identity, first half: the atomic ADD hands out the next order.
TakeOrder(w) ==
  /\ writer[w].stage = "counting"
  /\ counter' = counter + 1
  /\ writer' = [writer EXCEPT ![w].stage = "marking", ![w].order = counter + 1]
  /\ UNCHANGED <<entries, markers>>

\* Faulty variant: the marker names the first identity of the outcome.
PutMarkerOfFirst(w) ==
  /\ writer[w].stage = "marking"
  /\ writer[w].order \notin DOMAIN markers
  /\ markers' = WithItem(markers, writer[w].order, At(w, 1))
  /\ writer' = [writer EXCEPT ![w].stage = AfterPutting(writer[w].todo)]
  /\ UNCHANGED <<entries, counter>>

\* _register_identity, second half: the marker's conditional put.  (Invariant
\* OrdersFresh: the condition always holds.)
PutMarker(w) ==
  /\ writer[w].stage = "marking"
  /\ writer[w].order \notin DOMAIN markers
  /\ markers' = WithItem(markers, writer[w].order, At(w, writer[w].at))
  /\ writer' = [writer EXCEPT ![w].stage = AfterPutting(writer[w].todo)]
  /\ UNCHANGED <<entries, counter>>

\* The Lambda invocation dies in the middle of record_match.
Crash(w) == MayCrash /\ writer[w].stage \notin {"idle", "done"} /\ Abandon(w)

\* record_match returns.
EndRecord(w) == writer[w].stage = "done" /\ Abandon(w)

\* The steps of a record_match already begun.
LedgerStep(w) ==
  \/ ReadPrior(w)
  \/ PutEntry(w)
  \/ EntryRefused(w)
  \/ TakeOrder(w)
  \/ PutMarker(w)

LedgerNext ==
  \E w \in Writers :
    \/ \E m \in MatchIds, outcome \in Outcomes :
         /\ \A k \in DOMAIN outcome : Len(entries[outcome[k].identity]) < MaxEntries
         /\ BeginRecord(w, m, outcome)
    \/ LedgerStep(w)
    \/ Crash(w)
    \/ EndRecord(w)

LedgerSpec == LedgerInit /\ [][LedgerNext]_ledgerVars

-----------------------------------------------------------------------------
(* Properties *)

Registering == {w \in Writers : writer[w].stage \in {"counting", "marking"}}
Marking == {w \in Writers : writer[w].stage = "marking"}
Quiescent == \A w \in Writers : writer[w].stage \in {"idle", "done"}

\* all_identities, as a set.
Listed == {markers[n] : n \in DOMAIN markers}

HasEntry(i, m) == \E k \in DOMAIN entries[i] : entries[i][k].match = m

Writer ==
  [stage : Stages, match : MatchIds, outcome : Outcome,
   todo : SUBSET Nat, at : Nat, order : Nat, priors : [Identities -> Prior]]

\* The type of the ledger.  That entries[i] is a sequence says that the ENTRY#n
\* items of an identity are numbered without a gap, which get's match_count =
\* len(history) relies on.
LedgerTypeOK ==
  /\ entries \in [Identities -> Seq(Entry)]
  /\ counter \in Nat
  /\ DOMAIN markers \subseteq 1..counter
  /\ \A n \in DOMAIN markers : markers[n] \in Identities
  /\ \A w \in Writers : writer[w].todo \subseteq FirstSeen(writer[w].outcome)
  /\ writer \in [Writers -> Writer]

\* An order number is never written twice: whoever is about to write a marker
\* has one that is neither used nor held by another writer.
OrdersFresh ==
  \A w \in Marking :
    /\ writer[w].order \notin DOMAIN markers
    /\ \A v \in Marking : v # w => writer[v].order # writer[w].order

\* However many writers record an identity's first match at once, it is
\* registered once: the refused entry put keeps the others from registering it.
\* (ratings/aws.py:50-53 says "could each write a marker" of two such writers; the
\* code registers only after the put of entry 1, and that put succeeds once.)
OneMarkerPerIdentity ==
  \A n, k \in DOMAIN markers : markers[n] = markers[k] => n = k

\* all_identities is complete between calls: every identity with at least one
\* recorded match is listed, and nobody else is (ledger.py, all_identities).
\* This holds as long as no writer dies between an entry and its marker.
ListedWhenQuiet ==
  Quiescent => Listed = {i \in Identities : entries[i] # << >>}

\* Whatever the interleaving, the lag of the reads and the crashes, every
\* history only ever grows by one chained entry (AppendLedger).
Contract == INSTANCE AppendLedger WITH history <- entries
KeepsLedgerContract == Contract!Spec
=============================================================================
