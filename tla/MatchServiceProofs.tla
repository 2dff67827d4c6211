------------------------- MODULE MatchServiceProofs -------------------------
(***************************************************************************)
(* What holds of the match API and of its rating ledger for any number of  *)
(* matches and participants, any points and limits, and any rating system  *)
(* with integer deltas.                                                    *)
(*                                                                         *)
(* First, what holds of the DynamoDB ledger alone, for any number of       *)
(* writers, whatever the interleaving, the lag of the reads and the        *)
(* crashes.  It rests on one fact: an entry once written never changes, so *)
(* the prefix of a history that a writer has read stays its prefix.  The   *)
(* conditional put then succeeds only if that prefix is the whole history. *)
(*                                                                         *)
(* Second, of the API for any number of concurrent requests, with the same *)
(* lag and crashes.                                                        *)
(*   - A completed match is rated: entries are never removed, so "this     *)
(*     match's rating is in the ledger" stays true once it is, and         *)
(*     record_match has made it true of the copy a request carries by the  *)
(*     time the request saves that copy.                                   *)
(*   - A stored match replays: turns may be lost when two requests save    *)
(*     what they each made of the same match, but a copy in hand was made  *)
(*     by whole operations of match.py from a copy that replays, and is    *)
(*     only ever stored whole.  The replay of a log is defined by          *)
(*     recursion; that it takes one more turn to replay a log with one     *)
(*     more turn is proved with the least number at which two replays of   *)
(*     the log would differ, or a replay would fail to exist.              *)
(*   - The ledger keeps its contract and registers everyone once: every    *)
(*     step of the service is a step of the ledger or leaves it alone.     *)
(*   - Everyone with an entry is listed while no invocation has died.      *)
(*                                                                         *)
(* Then, while requests run one at a time and see the last write: what a   *)
(* request has read of the table is still true of it when the request      *)
(* saves.  So the caps hold, the service implements the state machine of   *)
(* match.py, even if invocations die, and the match counts follow the      *)
(* table until one dies.                                                   *)
(*                                                                         *)
(* Last, what the league publishes, until an invocation dies.              *)
(*   - The settled standing is the ledger without the entries that are     *)
(*     ahead of the table, those of a match still to be saved.  In some    *)
(*     order the dataset's lines of the finished matches lead to it: the   *)
(*     order in which the matches were saved.  A match that is rated       *)
(*     starts from the settled standing, and saving it adds its line.      *)
(*   - A line gives back the outcome that was rated, since the numbers and *)
(*     identities of a match survive the item and the allowlist.           *)
(*   - Rows do not depend on the order in which identities are listed: no  *)
(*     two of them tie, so each has one place.                             *)
(***************************************************************************)
EXTENDS SerialService, FiniteSetTheorems, WellFoundedInduction, TLAPS

-----------------------------------------------------------------------------
(* The rating ledger *)

\* The outcomes that compute_deltas takes.
RatedOutcome == {outcome \in Outcome : Len(outcome) >= 2}

\* The rating system's own contract: an integer delta for every participant.
DeltasAreIntegers ==
  \A ratings \in [Identities -> Int], outcome \in RatedOutcome :
    \A k \in DOMAIN outcome : ComputeDeltas(ratings, outcome)[outcome[k].identity] \in Int

\* The priors that writer record r has read are prefixes of the histories es.
ReadsPrefixes(r, es) ==
  \A i \in Identities :
    /\ r.priors[i].count <= Len(es[i])
    /\ r.priors[i].rating = RatingAt(es[i], r.priors[i].count)

\* A writer at work rates two or more; one that registers an identity is at a
\* position of its outcome, and one that marks it holds an order the counter c
\* has given out.
Registers(r, c) ==
  /\ r.stage # "idle" => Len(r.outcome) >= 2
  /\ r.stage \in {"counting", "marking"} => r.at \in DOMAIN r.outcome
  /\ r.stage = "marking" => r.order \in 1..c

LedgerInv ==
  /\ LedgerTypeOK
  /\ \A w \in Writers : ReadsPrefixes(writer[w], entries) /\ Registers(writer[w], counter)

-----------------------------------------------------------------------------

\* Writing the item after the last one appends to a history.
LEMMA ItemAppended ==
  ASSUME NEW S, NEW h \in Seq(S), NEW e \in S,
         NEW g, g = WithItem(h, Len(h) + 1, e)
  PROVE  /\ g \in Seq(S)
         /\ Len(g) = Len(h) + 1
         /\ \A k \in 1..Len(h) : g[k] = h[k]
         /\ g[Len(h) + 1] = e
<1>1. DOMAIN h = 1..Len(h) /\ Len(h) \in Nat
  OBVIOUS
<1>2. DOMAIN h \cup {Len(h) + 1} = 1..(Len(h) + 1)
  BY <1>1
<1>3. g = [k \in 1..(Len(h) + 1) |-> IF k = Len(h) + 1 THEN e ELSE h[k]]
  BY <1>2 DEF WithItem
<1>4. \A k \in 1..(Len(h) + 1) : k # Len(h) + 1 => k \in 1..Len(h)
  BY <1>1
<1>5. \A k \in 1..Len(h) : h[k] \in S
  OBVIOUS
<1>6. g \in [1..(Len(h) + 1) -> S]
  BY <1>3, <1>4, <1>5
<1>7. g \in Seq(S)
  BY <1>1, <1>6
<1>8. Len(g) = Len(h) + 1
  BY <1>1, <1>3, <1>7
<1> QED
  BY <1>1, <1>3, <1>7, <1>8

\* The initial record of a writer, and its priors.
LEMMA IdleWriterOK ==
  /\ IdleWriter \in Writer
  /\ IdleWriter.stage = "idle" /\ IdleWriter.todo = {}
  /\ \A i \in Identities :
       IdleWriter.priors[i].count = 0 /\ IdleWriter.priors[i].rating = InitialRating
<1>1. (CHOOSE m \in MatchIds : TRUE) \in MatchIds
  BY LedgerAssumption
<1>2. << >> \in Outcome
  BY DEF Outcome
<1>3. NoHistory \in Prior
  BY LedgerAssumption DEF NoHistory, Prior
<1> QED
  BY <1>1, <1>2, <1>3 DEF IdleWriter, Writer, Stages, NoHistory

\* Positions of an outcome are natural numbers that name identities.
LEMMA OutcomePositions ==
  ASSUME NEW outcome \in Outcome
  PROVE  /\ FirstSeen(outcome) \subseteq DOMAIN outcome
         /\ DOMAIN outcome \subseteq Nat
         /\ \A k \in DOMAIN outcome : outcome[k].identity \in Identities
<1> DEFINE S == [identity : Identities, score : Int]
<1>1. outcome \in Seq(S)
  BY DEF Outcome
<1> HIDE DEF S
<1>2. DOMAIN outcome = 1..Len(outcome) /\ Len(outcome) \in Nat
  BY <1>1
<1>3. \A k \in DOMAIN outcome : outcome[k] \in S
  BY <1>1, <1>2
<1> QED
  BY <1>2, <1>3 DEF FirstSeen, S

-----------------------------------------------------------------------------
(* The inductive invariant *)

LEMMA LedgerInitInv == LedgerInit => LedgerInv
<1> SUFFICES ASSUME LedgerInit PROVE LedgerInv
  OBVIOUS
<1>1. LedgerTypeOK
  BY IdleWriterOK DEF LedgerInit, LedgerTypeOK
<1>2. ASSUME NEW w \in Writers
      PROVE  ReadsPrefixes(writer[w], entries) /\ Registers(writer[w], counter)
  <2>1. writer[w] = IdleWriter
    BY DEF LedgerInit
  <2>2. Len(<< >>) = 0
    OBVIOUS
  <2> QED
    BY <2>1, <2>2, IdleWriterOK DEF LedgerInit, ReadsPrefixes, Registers, RatingAt
<1> QED
  BY <1>1, <1>2 DEF LedgerInv

\* The outcome position a writer's current loop is at.
LEMMA NextPosition ==
  ASSUME LedgerInv, NEW w \in Writers, NEW k \in writer[w].todo
  PROVE  /\ k \in DOMAIN writer[w].outcome
         /\ At(w, k) \in Identities
         /\ writer[w].todo \ {k} \subseteq FirstSeen(writer[w].outcome)
<1>1. writer[w] \in Writer /\ writer[w].todo \subseteq FirstSeen(writer[w].outcome)
  BY DEF LedgerInv, LedgerTypeOK
<1>2. writer[w].outcome \in Outcome
  BY <1>1 DEF Writer
<1> QED
  BY <1>1, <1>2, OutcomePositions DEF At

\* The entry that record_match writes is one.
LEMMA NewEntryOK ==
  ASSUME DeltasAreIntegers, LedgerInv, NEW w \in Writers, writer[w].stage # "idle",
         NEW k \in DOMAIN writer[w].outcome
  PROVE  /\ NewEntry(w, At(w, k)) \in Entry
         /\ NewEntry(w, At(w, k)).match = writer[w].match
         /\ NewEntry(w, At(w, k)).rating =
              writer[w].priors[At(w, k)].rating + NewEntry(w, At(w, k)).delta
<1> DEFINE i == At(w, k)
           ratings == [j \in Identities |-> writer[w].priors[j].rating]
<1>1. writer[w] \in Writer
  BY DEF LedgerInv, LedgerTypeOK
<1>2. writer[w].outcome \in Outcome /\ writer[w].match \in MatchIds
      /\ writer[w].outcome \in RatedOutcome
      /\ writer[w].priors \in [Identities -> Prior]
  BY <1>1 DEF Writer, LedgerInv, Registers, RatedOutcome
<1>3. i \in Identities
  BY <1>2, OutcomePositions DEF At
<1>4. ratings \in [Identities -> Int] /\ writer[w].priors[i].rating \in Int
  BY <1>2, <1>3 DEF Prior
<1>5. Deltas(w)[i] \in Int
  BY <1>2, <1>4, DeltasAreIntegers DEF DeltasAreIntegers, Deltas, At
<1> QED
  BY <1>2, <1>4, <1>5 DEF NewEntry, Entry

\* An accepted put appends one chained entry to one history.
LEMMA PutAppends ==
  ASSUME DeltasAreIntegers, LedgerInv, NEW w \in Writers, PutEntry(w)
  PROVE  \E k \in writer[w].todo :
           LET i == At(w, k)
               n == Len(entries[i]) IN
           /\ i \in Identities /\ k \in DOMAIN writer[w].outcome
           /\ writer[w].priors[i].count = n
           /\ entries' = [entries EXCEPT ![i] = WithItem(@, n + 1, NewEntry(w, i))]
           /\ entries'[i] \in Seq(Entry)
           /\ Len(entries'[i]) = n + 1
           /\ \A j \in 1..n : entries'[i][j] = entries[i][j]
           /\ entries'[i][n + 1] = NewEntry(w, i)
           /\ NewEntry(w, i).rating = RatingAt(entries[i], n) + NewEntry(w, i).delta
           /\ writer' = [writer EXCEPT
                ![w].todo = writer[w].todo \ {k}, ![w].at = k,
                ![w].stage = IF n = 0 THEN "counting"
                             ELSE AfterPutting(writer[w].todo \ {k})]
<1>1. PICK k \in writer[w].todo :
        LET i    == At(w, k)
            n    == writer[w].priors[i].count
            left == writer[w].todo \ {k}
        IN  /\ n + 1 \notin DOMAIN entries[i]
            /\ entries' = [entries EXCEPT ![i] = WithItem(@, n + 1, NewEntry(w, i))]
            /\ writer' = [writer EXCEPT
                 ![w].todo = left, ![w].at = k,
                 ![w].stage = IF n = 0 THEN "counting" ELSE AfterPutting(left)]
  BY DEF PutEntry
<1> DEFINE i == At(w, k)
           n == Len(entries[i])
           e == NewEntry(w, i)
<1>2. i \in Identities /\ k \in DOMAIN writer[w].outcome
  BY NextPosition
<1>3. entries[i] \in Seq(Entry) /\ writer[w].priors[i] \in Prior
      /\ entries \in [Identities -> Seq(Entry)]
  BY <1>2 DEF LedgerInv, LedgerTypeOK, Writer
<1>4. DOMAIN entries[i] = 1..n /\ n \in Nat
  BY <1>3
<1>5. writer[w].priors[i].count <= n /\ writer[w].priors[i].count \in Nat
      /\ writer[w].priors[i].rating = RatingAt(entries[i], writer[w].priors[i].count)
  BY <1>2, <1>3 DEF LedgerInv, ReadsPrefixes, Prior
<1>6. writer[w].priors[i].count = n
  BY <1>1, <1>4, <1>5
<1>7. e \in Entry /\ e.rating = RatingAt(entries[i], n) + e.delta
  BY <1>2, <1>5, <1>6, NewEntryOK DEF PutEntry
<1>8. entries' = [entries EXCEPT ![i] = WithItem(@, n + 1, e)]
  BY <1>1, <1>6
<1>9. entries'[i] = WithItem(entries[i], n + 1, e)
  BY <1>2, <1>3, <1>8
<1>10. /\ entries'[i] \in Seq(Entry)
       /\ Len(entries'[i]) = n + 1
       /\ \A j \in 1..n : entries'[i][j] = entries[i][j]
       /\ entries'[i][n + 1] = e
  <2>1. \A h \in Seq(Entry), x \in Entry : \A g :
           g = WithItem(h, Len(h) + 1, x) =>
             /\ g \in Seq(Entry)
             /\ Len(g) = Len(h) + 1
             /\ \A j \in 1..Len(h) : g[j] = h[j]
             /\ g[Len(h) + 1] = x
    BY ItemAppended
  <2> HIDE DEF e, i
  <2> QED BY <2>1, <1>3, <1>7, <1>9
<1> QED
  BY <1>1, <1>2, <1>6, <1>7, <1>8, <1>10

\* A step that only changes one writer's record, and perhaps raises the counter.
LEMMA WriterStep ==
  ASSUME LedgerInv, NEW w \in Writers, NEW r,
         writer' = [writer EXCEPT ![w] = r],
         entries' = entries, DOMAIN markers' \subseteq 1..counter',
         \A n \in DOMAIN markers' : markers'[n] \in Identities,
         counter' \in Nat, counter' >= counter,
         r \in Writer, r.todo \subseteq FirstSeen(r.outcome),
         ReadsPrefixes(r, entries), Registers(r, counter')
  PROVE  LedgerInv'
<1>1. writer \in [Writers -> Writer] /\ counter \in Nat
  BY DEF LedgerInv, LedgerTypeOK
<1>2. writer'[w] = r /\ \A v \in Writers \ {w} : writer'[v] = writer[v]
  BY <1>1
<1>3. LedgerTypeOK'
  BY <1>1, <1>2 DEF LedgerInv, LedgerTypeOK
<1>4. ASSUME NEW v \in Writers
      PROVE  ReadsPrefixes(writer[v], entries)' /\ Registers(writer[v], counter)'
  <2>1. CASE v = w
    BY <1>2, <2>1 DEF ReadsPrefixes, Registers
  <2>2. CASE v # w
    <3>1. ReadsPrefixes(writer[v], entries) /\ Registers(writer[v], counter)
      BY DEF LedgerInv
    <3>2. writer'[v] = writer[v] /\ 1..counter \subseteq 1..counter'
      BY <1>1, <1>2, <2>2
    <3> QED
      BY <3>1, <3>2 DEF ReadsPrefixes, Registers
  <2> QED
    BY <2>1, <2>2
<1> QED
  BY <1>3, <1>4 DEF LedgerInv

LEMMA AbandonInv ==
  ASSUME LedgerInv, NEW w \in Writers, Abandon(w)
  PROVE  LedgerInv'
<1>1. entries \in [Identities -> Seq(Entry)] /\ counter \in Nat
      /\ DOMAIN markers \subseteq 1..counter
      /\ \A n \in DOMAIN markers : markers[n] \in Identities
  BY DEF LedgerInv, LedgerTypeOK
<1>2. ReadsPrefixes(IdleWriter, entries)
  BY <1>1, IdleWriterOK DEF ReadsPrefixes, RatingAt
<1>3. Registers(IdleWriter, counter)
  BY IdleWriterOK DEF Registers
<1>4. IdleWriter \in Writer /\ IdleWriter.todo \subseteq FirstSeen(IdleWriter.outcome)
  BY IdleWriterOK
<1>5. /\ writer' = [writer EXCEPT ![w] = IdleWriter]
      /\ entries' = entries /\ DOMAIN markers' \subseteq 1..counter'
      /\ \A n \in DOMAIN markers' : markers'[n] \in Identities
      /\ counter' \in Nat /\ counter' >= counter
      /\ Registers(IdleWriter, counter')
  BY <1>1, <1>3 DEF Abandon
<1> QED
  BY <1>2, <1>4, <1>5, WriterStep

LEMMA BeginRecordInv ==
  ASSUME LedgerInv, NEW w \in Writers, NEW m \in MatchIds, NEW outcome \in RatedOutcome,
         BeginRecord(w, m, outcome)
  PROVE  LedgerInv'
<1> DEFINE r == [IdleWriter EXCEPT !.stage = "reading", !.match = m, !.outcome = outcome,
                                   !.todo = FirstSeen(outcome)]
<1>1. entries \in [Identities -> Seq(Entry)] /\ counter \in Nat
      /\ DOMAIN markers \subseteq 1..counter
      /\ \A n \in DOMAIN markers : markers[n] \in Identities
  BY DEF LedgerInv, LedgerTypeOK
<1>2. r \in Writer /\ r.stage = "reading" /\ r.todo = FirstSeen(r.outcome)
      /\ r.priors = IdleWriter.priors
  <2>1. outcome \in Outcome
    BY DEF RatedOutcome
  <2> QED
    BY <2>1, IdleWriterOK, OutcomePositions DEF Writer, Stages
<1>3. ReadsPrefixes(r, entries)
  BY <1>1, <1>2, IdleWriterOK DEF ReadsPrefixes, RatingAt
<1>4. Registers(r, counter)
  <2>1. r.outcome = outcome /\ Len(outcome) >= 2
    BY IdleWriterOK DEF Writer, RatedOutcome
  <2> QED
    BY <1>2, <2>1 DEF Registers
<1> HIDE DEF r
<1>5. writer' = [writer EXCEPT ![w] = r] /\ UNCHANGED <<entries, markers, counter>>
  BY DEF BeginRecord, r
<1>6. /\ writer' = [writer EXCEPT ![w] = r]
      /\ entries' = entries /\ DOMAIN markers' \subseteq 1..counter'
      /\ \A n \in DOMAIN markers' : markers'[n] \in Identities
      /\ counter' \in Nat /\ counter' >= counter
      /\ r \in Writer /\ r.todo \subseteq FirstSeen(r.outcome)
      /\ Registers(r, counter')
  BY <1>1, <1>2, <1>4, <1>5
<1> QED
  BY <1>3, <1>6, WriterStep

LEMMA ReadPriorInv ==
  ASSUME LedgerInv, NEW w \in Writers, ReadPrior(w)
  PROVE  LedgerInv'
<1>1. PICK k \in writer[w].todo :
        LET i == At(w, k)
            left == writer[w].todo \ {k} IN
        \E n \in 0..Len(entries[i]) :
          writer' = [writer EXCEPT
            ![w].priors[i] = [count |-> n, rating |-> RatingAt(entries[i], n)],
            ![w].todo = IF left = {} THEN FirstSeen(writer[w].outcome) ELSE left,
            ![w].stage = AfterReading(left)]
  BY DEF ReadPrior
<1> DEFINE i == At(w, k)
           left == writer[w].todo \ {k}
<1>11. PICK n \in 0..Len(entries[i]) :
        writer' = [writer EXCEPT
          ![w].priors[i] = [count |-> n, rating |-> RatingAt(entries[i], n)],
          ![w].todo = IF left = {} THEN FirstSeen(writer[w].outcome) ELSE left,
          ![w].stage = AfterReading(left)]
  BY <1>1
<1> DEFINE prior == [count |-> n, rating |-> RatingAt(entries[i], n)]
           todo == IF left = {} THEN FirstSeen(writer[w].outcome) ELSE left
           r == [writer[w] EXCEPT !.priors[i] = prior, !.todo = todo,
                                  !.stage = AfterReading(left)]
<1>2. i \in Identities /\ left \subseteq FirstSeen(writer[w].outcome)
  BY NextPosition
<1>3. entries \in [Identities -> Seq(Entry)] /\ counter \in Nat
      /\ writer \in [Writers -> Writer] /\ DOMAIN markers \subseteq 1..counter
      /\ \A m \in DOMAIN markers : markers[m] \in Identities
  BY DEF LedgerInv, LedgerTypeOK
<1>4. prior \in Prior
  <2>1. entries[i] \in Seq(Entry) /\ n \in 0..Len(entries[i])
    BY <1>11, <1>2, <1>3
  <2>2. ASSUME n # 0 PROVE entries[i][n].rating \in Int
    <3> HIDE DEF i
    <3>1. entries[i][n] \in Entry
      BY <2>1, <2>2
    <3> QED
      BY <3>1 DEF Entry
  <2> QED
    BY <2>1, <2>2, LedgerAssumption DEF Prior, RatingAt
<1>5. todo \subseteq FirstSeen(writer[w].outcome) /\ todo \in SUBSET Nat
  <2>1. writer[w].outcome \in Outcome
    BY <1>3 DEF Writer
  <2> QED
    BY <1>2, <2>1, OutcomePositions
<1>6. /\ r \in Writer /\ r.todo = todo /\ r.outcome = writer[w].outcome
      /\ r.stage \in {"reading", "putting"}
      /\ r.priors = [writer[w].priors EXCEPT ![i] = prior]
  <2> HIDE DEF i, prior, todo, left
  <2>1. writer[w] \in Writer
    BY <1>3
  <2> QED
    BY <1>2, <1>4, <1>5, <2>1 DEF Writer, Stages, AfterReading
<1>7. ReadsPrefixes(r, entries)
  <2>1. ReadsPrefixes(writer[w], entries) /\ writer[w].priors \in [Identities -> Prior]
    BY <1>3 DEF LedgerInv, Writer
  <2>2. n <= Len(entries[i])
    <3>1. Len(entries[i]) \in Nat
      <4> HIDE DEF i
      <4> QED
        BY <1>2, <1>3
    <3> QED
      BY <3>1
  <2> HIDE DEF i, r, todo, left
  <2> QED
    BY <1>2, <1>6, <2>1, <2>2 DEF ReadsPrefixes
<1>8. Registers(r, counter)
  <2>1. Len(writer[w].outcome) >= 2
    BY DEF LedgerInv, Registers, ReadPrior
  <2> QED
    BY <1>6, <2>1 DEF Registers
<1>9. writer' = [writer EXCEPT ![w] = r] /\ UNCHANGED <<entries, markers, counter>>
  BY <1>11, <1>3 DEF ReadPrior
<1> HIDE DEF r, todo, prior, left, i
<1>10. /\ writer' = [writer EXCEPT ![w] = r]
       /\ entries' = entries /\ DOMAIN markers' \subseteq 1..counter'
       /\ \A m \in DOMAIN markers' : markers'[m] \in Identities
       /\ counter' \in Nat /\ counter' >= counter
       /\ r \in Writer /\ r.todo \subseteq FirstSeen(r.outcome)
       /\ Registers(r, counter')
  BY <1>3, <1>5, <1>6, <1>8, <1>9
<1> QED
  BY <1>7, <1>10, WriterStep

\* An append leaves every prefix what it was.
LEMMA PrefixesStay ==
  ASSUME NEW i \in Identities, NEW es \in [Identities -> Seq(Entry)],
         NEW h \in Seq(Entry), Len(h) = Len(es[i]) + 1,
         \A j \in 1..Len(es[i]) : h[j] = es[i][j],
         NEW r \in Writer, ReadsPrefixes(r, es)
  PROVE  ReadsPrefixes(r, [es EXCEPT ![i] = h])
<1> DEFINE fs == [es EXCEPT ![i] = h]
<1> SUFFICES ASSUME NEW j \in Identities
             PROVE  /\ r.priors[j].count <= Len(fs[j])
                    /\ r.priors[j].rating = RatingAt(fs[j], r.priors[j].count)
  BY DEF ReadsPrefixes
<1>1. r.priors[j] \in Prior
  BY DEF Writer
<1>2. r.priors[j].count \in Nat /\ r.priors[j].count <= Len(es[j])
      /\ r.priors[j].rating = RatingAt(es[j], r.priors[j].count)
  BY <1>1 DEF Prior, ReadsPrefixes
<1>3. CASE j # i
  BY <1>2, <1>3
<1>4. CASE j = i
  <2>1. fs[j] = h /\ Len(es[i]) \in Nat
    BY <1>4
  <2>2. r.priors[j].count = 0 \/ r.priors[j].count \in 1..Len(es[i])
    BY <1>2, <1>4, <2>1
  <2> QED
    BY <1>2, <1>4, <2>1, <2>2 DEF RatingAt
<1> QED
  BY <1>3, <1>4

LEMMA PutEntryInv ==
  ASSUME DeltasAreIntegers, LedgerInv, NEW w \in Writers, PutEntry(w)
  PROVE  LedgerInv'
<1>1. PICK k \in writer[w].todo :
        LET i == At(w, k)
            n == Len(entries[i]) IN
        /\ i \in Identities /\ k \in DOMAIN writer[w].outcome
        /\ entries' = [entries EXCEPT ![i] = WithItem(@, n + 1, NewEntry(w, i))]
        /\ entries'[i] \in Seq(Entry)
        /\ Len(entries'[i]) = n + 1
        /\ \A j \in 1..n : entries'[i][j] = entries[i][j]
        /\ writer' = [writer EXCEPT
             ![w].todo = writer[w].todo \ {k}, ![w].at = k,
             ![w].stage = IF n = 0 THEN "counting"
                          ELSE AfterPutting(writer[w].todo \ {k})]
  BY PutAppends
<1> DEFINE i == At(w, k)
           h == entries'[i]
           left == writer[w].todo \ {k}
           stage == IF Len(entries[i]) = 0 THEN "counting" ELSE AfterPutting(left)
           r == [writer[w] EXCEPT !.todo = left, !.at = k, !.stage = stage]
<1>2. entries \in [Identities -> Seq(Entry)] /\ writer \in [Writers -> Writer]
  BY DEF LedgerInv, LedgerTypeOK
<1>3. entries' = [entries EXCEPT ![i] = h]
  BY <1>1, <1>2
<1>4. entries' \in [Identities -> Seq(Entry)]
  BY <1>1, <1>2, <1>3
<1>5. stage \in Stages /\ stage # "marking"
  BY DEF AfterPutting, Stages
<1>6. /\ r \in Writer /\ r.todo \subseteq FirstSeen(r.outcome)
      /\ r.at \in DOMAIN r.outcome /\ r.stage # "marking" /\ r.priors = writer[w].priors
      /\ r.outcome = writer[w].outcome
  <2>1. writer[w] \in Writer /\ left \subseteq FirstSeen(writer[w].outcome)
    BY <1>2, NextPosition
  <2>2. left \in SUBSET Nat /\ k \in Nat
    BY <1>1, <2>1, OutcomePositions DEF Writer
  <2> HIDE DEF left, stage
  <2> QED
    BY <1>1, <1>5, <2>1, <2>2 DEF Writer
<1> HIDE DEF r, left, stage
<1>7. writer' = [writer EXCEPT ![w] = r]
  BY <1>1, <1>2 DEF r, left, stage
<1>8. writer' \in [Writers -> Writer] /\ writer'[w] = r
      /\ \A v \in Writers : v # w => writer'[v] = writer[v]
  BY <1>2, <1>6, <1>7
<1>9. UNCHANGED <<markers, counter>>
  BY DEF PutEntry
<1>10. LedgerTypeOK'
  <2>1. \A v \in Writers : writer[v].todo \subseteq FirstSeen(writer[v].outcome)
    BY DEF LedgerInv, LedgerTypeOK
  <2>2. \A v \in Writers : writer'[v].todo \subseteq FirstSeen(writer'[v].outcome)
    BY <1>6, <1>8, <2>1
  <2> QED
    BY <1>4, <1>8, <1>9, <2>2 DEF LedgerInv, LedgerTypeOK
<1>11. ASSUME NEW v \in Writers
       PROVE  ReadsPrefixes(writer[v], entries)' /\ Registers(writer[v], counter)'
  <2>1. writer'[v] \in Writer /\ writer'[v].priors = writer[v].priors
    BY <1>6, <1>8
  <2>2. ReadsPrefixes(writer[v], entries)
    BY DEF LedgerInv
  <2>3. ReadsPrefixes(writer'[v], entries)
    BY <2>1, <2>2 DEF ReadsPrefixes
  <2> HIDE DEF h, i
  <2>4. ReadsPrefixes(writer'[v], [entries EXCEPT ![i] = h])
    BY <1>1, <1>2, <2>1, <2>3, PrefixesStay DEF h, i
  <2>5. Registers(writer[v], counter)'
    <3>1. CASE v = w
      <4>1. Len(r.outcome) >= 2
        BY <1>6 DEF LedgerInv, Registers, PutEntry
      <4> QED
        BY <1>6, <1>8, <3>1, <4>1 DEF Registers
    <3>2. CASE v # w
      BY <1>8, <1>9, <3>2 DEF LedgerInv, Registers
    <3> QED
      BY <3>1, <3>2
  <2> QED
    BY <1>3, <2>4, <2>5 DEF h, i
<1> QED
  BY <1>10, <1>11 DEF LedgerInv

LEMMA TakeOrderInv ==
  ASSUME LedgerInv, NEW w \in Writers, TakeOrder(w)
  PROVE  LedgerInv'
<1> DEFINE r == [writer[w] EXCEPT !.stage = "marking", !.order = counter + 1]
<1>1. writer \in [Writers -> Writer] /\ counter \in Nat
      /\ DOMAIN markers \subseteq 1..counter
      /\ \A n \in DOMAIN markers : markers[n] \in Identities
  BY DEF LedgerInv, LedgerTypeOK
<1>2. ReadsPrefixes(writer[w], entries) /\ Registers(writer[w], counter)
  BY DEF LedgerInv
<1>3. r \in Writer /\ r.todo = writer[w].todo /\ r.outcome = writer[w].outcome
      /\ r.priors = writer[w].priors /\ r.at = writer[w].at
      /\ r.stage = "marking" /\ r.order = counter + 1
  <2>1. writer[w] \in Writer /\ counter + 1 \in Nat
    BY <1>1
  <2> QED
    BY <2>1 DEF Writer, Stages
<1>4. writer' = [writer EXCEPT ![w] = r] /\ counter' = counter + 1
      /\ UNCHANGED <<entries, markers>> /\ writer[w].stage = "counting"
  BY <1>1 DEF TakeOrder
<1> HIDE DEF r
<1>5. Registers(r, counter')
  BY <1>1, <1>2, <1>3, <1>4 DEF Registers
<1>6. ReadsPrefixes(r, entries)
  BY <1>2, <1>3 DEF ReadsPrefixes
<1>7. /\ writer' = [writer EXCEPT ![w] = r]
      /\ entries' = entries /\ DOMAIN markers' \subseteq 1..counter'
      /\ \A n \in DOMAIN markers' : markers'[n] \in Identities
      /\ counter' \in Nat /\ counter' >= counter
  BY <1>1, <1>4
<1>8. r \in Writer /\ r.todo \subseteq FirstSeen(r.outcome)
  <2>1. r \in Writer /\ r.todo = writer[w].todo /\ r.outcome = writer[w].outcome
    BY <1>3
  <2>2. writer[w].todo \subseteq FirstSeen(writer[w].outcome)
    BY DEF LedgerInv, LedgerTypeOK
  <2> QED
    BY <2>1, <2>2
<1> QED
  BY <1>5, <1>6, <1>7, <1>8, WriterStep

LEMMA PutMarkerInv ==
  ASSUME LedgerInv, NEW w \in Writers, PutMarker(w)
  PROVE  LedgerInv'
<1> DEFINE r == [writer[w] EXCEPT !.stage = AfterPutting(writer[w].todo)]
<1>1. writer \in [Writers -> Writer] /\ counter \in Nat
      /\ DOMAIN markers \subseteq 1..counter
      /\ \A n \in DOMAIN markers : markers[n] \in Identities
  BY DEF LedgerInv, LedgerTypeOK
<1>2. ReadsPrefixes(writer[w], entries) /\ Registers(writer[w], counter)
  BY DEF LedgerInv
<1>3. r \in Writer /\ r.todo = writer[w].todo /\ r.outcome = writer[w].outcome
      /\ r.priors = writer[w].priors /\ r.stage \in {"putting", "done"}
  BY <1>1 DEF Writer, Stages, AfterPutting
<1>4. writer' = [writer EXCEPT ![w] = r] /\ UNCHANGED <<entries, counter>>
      /\ markers' = WithItem(markers, writer[w].order, At(w, writer[w].at))
  BY <1>1 DEF PutMarker
<1>5. writer[w].order \in 1..counter /\ At(w, writer[w].at) \in Identities
  <2>1. writer[w].outcome \in Outcome
    BY <1>1 DEF Writer
  <2> QED
    BY <1>2, <2>1, OutcomePositions DEF PutMarker, Registers, At
<1>6. DOMAIN markers' \subseteq 1..counter' /\ \A n \in DOMAIN markers' : markers'[n] \in Identities
  BY <1>1, <1>4, <1>5 DEF WithItem
<1> HIDE DEF r
<1>7. Registers(r, counter') /\ ReadsPrefixes(r, entries)
  BY <1>2, <1>3 DEF Registers, ReadsPrefixes, PutMarker
<1>8. /\ writer' = [writer EXCEPT ![w] = r]
      /\ entries' = entries
      /\ counter' \in Nat /\ counter' >= counter
  BY <1>1, <1>4
<1>9. r \in Writer /\ r.todo \subseteq FirstSeen(r.outcome)
  <2>1. r \in Writer /\ r.todo = writer[w].todo /\ r.outcome = writer[w].outcome
    BY <1>3
  <2>2. writer[w].todo \subseteq FirstSeen(writer[w].outcome)
    BY DEF LedgerInv, LedgerTypeOK
  <2> QED
    BY <2>1, <2>2
<1> QED
  BY <1>6, <1>7, <1>8, <1>9, WriterStep

\* Every step of the ledger keeps the invariant.
LEMMA LedgerNextInv ==
  ASSUME DeltasAreIntegers, LedgerInv, [LedgerNext]_ledgerVars
  PROVE  LedgerInv'
<1>1. ASSUME NEW w \in Writers, NEW m \in MatchIds, NEW outcome \in Outcomes,
             BeginRecord(w, m, outcome)
      PROVE  LedgerInv'
  BY <1>1, BeginRecordInv, LedgerAssumption DEF RatedOutcome
<1>2. ASSUME NEW w \in Writers, LedgerStep(w)
      PROVE  LedgerInv'
  BY <1>2, ReadPriorInv, PutEntryInv, TakeOrderInv, PutMarkerInv, AbandonInv
     DEF LedgerStep, EntryRefused
<1>3. ASSUME NEW w \in Writers, Crash(w) \/ EndRecord(w)
      PROVE  LedgerInv'
  BY <1>3, AbandonInv DEF Crash, EndRecord
<1>4. CASE UNCHANGED ledgerVars
  BY <1>4 DEF ledgerVars, LedgerInv, LedgerTypeOK, ReadsPrefixes, Registers
<1> QED
  BY <1>1, <1>2, <1>3, <1>4 DEF LedgerNext

\* The ledger is well typed: above all, the entries of every identity are
\* numbered without a gap, however many writers record at once, however far
\* their reads lag, and wherever they die.
THEOREM LedgerTypeCorrect ==
  ASSUME DeltasAreIntegers
  PROVE  LedgerSpec => []LedgerTypeOK
<1>1. LedgerInit => LedgerInv
  BY LedgerInitInv
<1>2. LedgerInv /\ [LedgerNext]_ledgerVars => LedgerInv'
  BY LedgerNextInv
<1>3. LedgerInv => LedgerTypeOK
  BY DEF LedgerInv
<1> QED
  BY <1>1, <1>2, <1>3, PTL DEF LedgerSpec

\* What reading one prior does to the writer.
LEMMA ReadPriorMoves ==
  ASSUME LedgerInv, NEW w \in Writers, ReadPrior(w)
  PROVE  \E priors, todo, stage :
           /\ writer' = [writer EXCEPT ![w].priors = priors, ![w].todo = todo,
                                       ![w].stage = stage]
           /\ stage \in {"reading", "putting"}
           /\ stage = "putting" => todo = FirstSeen(writer[w].outcome)
<1>1. PICK k \in writer[w].todo :
        LET i == At(w, k)
            left == writer[w].todo \ {k} IN
        \E n \in 0..Len(entries[i]) :
          writer' = [writer EXCEPT
            ![w].priors[i] = [count |-> n, rating |-> RatingAt(entries[i], n)],
            ![w].todo = IF left = {} THEN FirstSeen(writer[w].outcome) ELSE left,
            ![w].stage = AfterReading(left)]
  BY DEF ReadPrior
<1> DEFINE i == At(w, k)
           left == writer[w].todo \ {k}
<1>2. PICK n \in 0..Len(entries[i]) :
        writer' = [writer EXCEPT
          ![w].priors[i] = [count |-> n, rating |-> RatingAt(entries[i], n)],
          ![w].todo = IF left = {} THEN FirstSeen(writer[w].outcome) ELSE left,
          ![w].stage = AfterReading(left)]
  BY <1>1
<1> DEFINE priors == [writer[w].priors EXCEPT
                        ![i] = [count |-> n, rating |-> RatingAt(entries[i], n)]]
           todo == IF left = {} THEN FirstSeen(writer[w].outcome) ELSE left
           stage == AfterReading(left)
<1>3. writer \in [Writers -> Writer]
  BY DEF LedgerInv, LedgerTypeOK
<1>4. writer' = [writer EXCEPT ![w].priors = priors, ![w].todo = todo, ![w].stage = stage]
  BY <1>2, <1>3 DEF Writer
<1>5. /\ stage \in {"reading", "putting"}
      /\ stage = "putting" => todo = FirstSeen(writer[w].outcome)
  BY DEF AfterReading
<1> WITNESS priors, todo, stage
<1> QED
  BY <1>4, <1>5

-----------------------------------------------------------------------------
(* The ledger implements its contract *)

LEMMA PutEntryRecords ==
  ASSUME DeltasAreIntegers, LedgerInv, NEW w \in Writers, PutEntry(w)
  PROVE  Contract!Next
<1>1. PICK k \in writer[w].todo :
        LET i == At(w, k)
            n == Len(entries[i]) IN
        /\ i \in Identities /\ k \in DOMAIN writer[w].outcome
        /\ entries' = [entries EXCEPT ![i] = WithItem(@, n + 1, NewEntry(w, i))]
        /\ entries'[i] \in Seq(Entry)
        /\ Len(entries'[i]) = n + 1
        /\ \A j \in 1..n : entries'[i][j] = entries[i][j]
        /\ entries'[i][n + 1] = NewEntry(w, i)
        /\ NewEntry(w, i).rating = RatingAt(entries[i], n) + NewEntry(w, i).delta
  BY PutAppends
<1> DEFINE i == At(w, k)
           m == writer[w].match
<1>2. entries \in [Identities -> Seq(Entry)] /\ m \in MatchIds
  BY DEF LedgerInv, LedgerTypeOK, Writer
<1>3. NewEntry(w, i).match = m
  BY <1>1, NewEntryOK DEF PutEntry
<1>4. entries' \in [Identities -> Seq(Entry)]
      /\ \A j \in Identities \ {i} : entries'[j] = entries[j]
  BY <1>1, <1>2
<1>5. Contract!Appended(i, m)
  BY <1>1, <1>3 DEF Contract!Appended, Contract!RatingAt, RatingAt, Contract!Entry, Entry
<1>6. Contract!Record({i}, m)
  BY <1>4, <1>5 DEF Contract!Record, Contract!Entry, Entry
<1> QED
  BY <1>1, <1>2, <1>6 DEF Contract!Next

LEMMA StepsKeepContract ==
  ASSUME DeltasAreIntegers, LedgerInv, [LedgerNext]_ledgerVars
  PROVE  [Contract!Next]_entries
<1>1. ASSUME NEW w \in Writers, PutEntry(w)
      PROVE  Contract!Next
  BY <1>1, PutEntryRecords
<1>2. ASSUME NEW w \in Writers, LedgerStep(w), ~PutEntry(w)
      PROVE  UNCHANGED entries
  BY <1>2 DEF LedgerStep, ReadPrior, EntryRefused, Abandon, TakeOrder, PutMarker
<1>3. ASSUME NEW w \in Writers, NEW m \in MatchIds, NEW outcome \in Outcomes,
             BeginRecord(w, m, outcome)
      PROVE  UNCHANGED entries
  BY <1>3 DEF BeginRecord
<1>4. ASSUME NEW w \in Writers, Crash(w) \/ EndRecord(w)
      PROVE  UNCHANGED entries
  BY <1>4 DEF Crash, EndRecord, Abandon
<1>5. CASE UNCHANGED ledgerVars
  BY <1>5 DEF ledgerVars
<1> QED
  BY <1>1, <1>2, <1>3, <1>4, <1>5 DEF LedgerNext

\* Lock-free and without a transaction, the DynamoDB ledger still keeps the
\* contract of RatingLedgerStore: every history only grows, one chained entry
\* at a time, under any interleaving, lag and crash.
THEOREM LedgerKeepsContract ==
  ASSUME DeltasAreIntegers
  PROVE  LedgerSpec => KeepsLedgerContract
<1>1. LedgerInit => LedgerInv
  BY LedgerInitInv
<1>2. LedgerInv /\ [LedgerNext]_ledgerVars => LedgerInv'
  BY LedgerNextInv
<1>3. LedgerInit => Contract!Init
  BY DEF LedgerInit, Contract!Init
<1>4. LedgerInv /\ [LedgerNext]_ledgerVars => [Contract!Next]_entries
  BY StepsKeepContract
<1> QED
  BY <1>1, <1>2, <1>3, <1>4, PTL DEF LedgerSpec, KeepsLedgerContract, Contract!Spec

-----------------------------------------------------------------------------
(* Registration *)

\* The identity that w is registering.
Registered(w) == At(w, writer[w].at)

\* A writer registers an identity only after its own put created the first
\* entry, and a second put of that entry is refused: so at any time one writer
\* at most registers an identity, and none one that is already listed.
RegistrationInv ==
  /\ OrdersFresh
  /\ OneMarkerPerIdentity
  /\ \A i \in Listed : entries[i] # << >>
  /\ \A w \in Registering : entries[Registered(w)] # << >> /\ Registered(w) \notin Listed
  /\ \A v, w \in Registering : v # w => Registered(v) # Registered(w)

\* A step of a writer that is not registering anything afterwards.
LEMMA RegistersNothing ==
  ASSUME LedgerInv, RegistrationInv, NEW w \in Writers, NEW r,
         r.stage \notin {"counting", "marking"},
         writer' = [writer EXCEPT ![w] = r], UNCHANGED <<entries, markers>>
  PROVE  RegistrationInv'
<1>1. writer'[w] = r /\ \A v \in Writers : v # w => writer'[v] = writer[v]
  BY DEF LedgerInv, LedgerTypeOK
<1>2. Registering' \subseteq Registering \ {w} /\ Marking' \subseteq Marking \ {w}
  BY <1>1 DEF Registering, Marking
<1>3. \A v \in Writers \ {w} : Registered(v)' = Registered(v)
  BY <1>1 DEF Registered, At
<1>4. Listed' = Listed
  BY DEF Listed
<1>5. OrdersFresh' /\ OneMarkerPerIdentity'
  BY <1>1, <1>2 DEF RegistrationInv, OrdersFresh, OneMarkerPerIdentity, Marking
<1>6. \A v \in Registering' : v \in Registering /\ Registered(v)' = Registered(v)
  BY <1>2, <1>3 DEF Registering
<1> QED
  BY <1>4, <1>5, <1>6 DEF RegistrationInv

LEMMA PutEntryRegistration ==
  ASSUME DeltasAreIntegers, LedgerInv, RegistrationInv, NEW w \in Writers, PutEntry(w)
  PROVE  RegistrationInv'
<1>1. PICK k \in writer[w].todo :
        LET i == At(w, k)
            n == Len(entries[i]) IN
        /\ i \in Identities
        /\ entries' = [entries EXCEPT ![i] = WithItem(@, n + 1, NewEntry(w, i))]
        /\ entries'[i] \in Seq(Entry)
        /\ Len(entries'[i]) = n + 1
        /\ writer' = [writer EXCEPT
             ![w].todo = writer[w].todo \ {k}, ![w].at = k,
             ![w].stage = IF n = 0 THEN "counting"
                          ELSE AfterPutting(writer[w].todo \ {k})]
  BY PutAppends
<1> DEFINE i == At(w, k)
<1>2. entries \in [Identities -> Seq(Entry)] /\ writer \in [Writers -> Writer]
      /\ Listed \subseteq Identities
  BY DEF LedgerInv, LedgerTypeOK, Listed
<1>3. entries'[i] # << >> /\ \A j \in Identities : j # i => entries'[j] = entries[j]
  BY <1>1, <1>2
<1>4. \A v \in Writers : v # w => writer'[v] = writer[v]
  BY <1>1, <1>2
<1>5. /\ writer'[w].at = k /\ writer'[w].outcome = writer[w].outcome
      /\ writer'[w].stage = IF Len(entries[i]) = 0 THEN "counting"
                            ELSE AfterPutting(writer[w].todo \ {k})
  BY <1>1, <1>2 DEF Writer
<1>6. UNCHANGED markers /\ Listed' = Listed /\ w \notin Registering
  BY DEF PutEntry, Listed, Registering
<1>7. Marking' = Marking /\ \A v \in Marking : writer'[v] = writer[v]
  <2>1. writer'[w].stage # "marking" /\ w \notin Marking
    BY <1>5 DEF AfterPutting, PutEntry, Marking
  <2> QED
    BY <1>4, <2>1 DEF Marking
<1>8. OrdersFresh' /\ OneMarkerPerIdentity'
  BY <1>6, <1>7 DEF RegistrationInv, OrdersFresh, OneMarkerPerIdentity
<1>9. \A v \in Registering : v # w /\ Registered(v)' = Registered(v)
  BY <1>4, <1>6 DEF Registered, At, Registering
<1>10. Registered(w)' = i
  BY <1>5 DEF Registered, At
<1>11. Registering' \subseteq Registering \cup {w}
  BY <1>4 DEF Registering
<1>12. ASSUME w \in Registering'
       PROVE  /\ i \notin Listed
              /\ \A v \in Registering : Registered(v) # i
  <2>1. Len(entries[i]) = 0
    BY <1>5, <1>12 DEF Registering, AfterPutting
  <2>2. entries[i] = << >>
    <3> HIDE DEF i
    <3> QED
      BY <1>1, <1>2, <2>1 DEF i
  <2> QED
    BY <2>2 DEF RegistrationInv
<1>13. \A v \in Registering : Registered(v) \in Identities
  <2>1. SUFFICES ASSUME NEW v \in Registering PROVE Registered(v) \in Identities
    OBVIOUS
  <2>2. v \in Writers /\ writer[v].outcome \in Outcome /\ writer[v].at \in DOMAIN writer[v].outcome
    BY <1>2 DEF Registering, LedgerInv, Registers, Writer
  <2> QED
    BY <2>2, OutcomePositions DEF Registered, At
<1> HIDE DEF i
<1>14. \A j \in Listed : entries'[j] # << >>
  BY <1>2, <1>3 DEF RegistrationInv
<1>15. \A v \in Registering' : entries'[Registered(v)'] # << >> /\ Registered(v)' \notin Listed
  BY <1>3, <1>9, <1>10, <1>11, <1>12, <1>13 DEF RegistrationInv
<1>16. \A u, v \in Registering' : u # v => Registered(u)' # Registered(v)'
  BY <1>9, <1>10, <1>11, <1>12 DEF RegistrationInv
<1> QED
  BY <1>6, <1>8, <1>14, <1>15, <1>16 DEF RegistrationInv

LEMMA TakeOrderRegistration ==
  ASSUME LedgerInv, RegistrationInv, NEW w \in Writers, TakeOrder(w)
  PROVE  RegistrationInv'
<1>1. writer \in [Writers -> Writer] /\ counter \in Nat /\ DOMAIN markers \subseteq 1..counter
  BY DEF LedgerInv, LedgerTypeOK
<1>2. \A v \in Writers : v # w => writer'[v] = writer[v]
  BY <1>1 DEF TakeOrder
<1>3. /\ writer'[w].stage = "marking" /\ writer'[w].order = counter + 1
      /\ writer'[w].at = writer[w].at /\ writer'[w].outcome = writer[w].outcome
  BY <1>1 DEF TakeOrder, Writer
<1>4. Registering' = Registering /\ Marking' = Marking \cup {w} /\ w \notin Marking
  BY <1>2, <1>3 DEF Registering, Marking, TakeOrder
<1>5. \A v \in Writers : Registered(v)' = Registered(v)
  BY <1>2, <1>3 DEF Registered, At
<1>6. UNCHANGED <<entries, markers>> /\ Listed' = Listed
  BY DEF TakeOrder, Listed
<1>7. \A v \in Marking : writer[v].order \in 1..counter
  BY DEF LedgerInv, Registers, Marking
<1>8. OrdersFresh'
  <2>1. \A v \in Marking : writer'[v].order = writer[v].order /\ writer[v].order # counter + 1
    BY <1>1, <1>2, <1>4, <1>7 DEF Marking
  <2>2. counter + 1 \notin DOMAIN markers
    BY <1>1
  <2> QED
    BY <1>3, <1>4, <1>6, <2>1, <2>2 DEF RegistrationInv, OrdersFresh
<1>9. OneMarkerPerIdentity'
  BY <1>6 DEF RegistrationInv, OneMarkerPerIdentity
<1>10. \A v \in Registering : Registered(v)' = Registered(v)
  BY <1>5 DEF Registering
<1> QED
  BY <1>4, <1>6, <1>8, <1>9, <1>10 DEF RegistrationInv

LEMMA PutMarkerRegistration ==
  ASSUME LedgerInv, RegistrationInv, NEW w \in Writers, PutMarker(w)
  PROVE  RegistrationInv'
<1> DEFINE n == writer[w].order
           i == Registered(w)
<1>1. writer \in [Writers -> Writer]
  BY DEF LedgerInv, LedgerTypeOK
<1>2. \A v \in Writers : v # w => writer'[v] = writer[v]
  BY <1>1 DEF PutMarker
<1>3. writer'[w].stage \in {"putting", "done"} /\ w \in Marking /\ w \in Registering
  BY <1>1 DEF PutMarker, AfterPutting, Marking, Registering
<1>4. Registering' = Registering \ {w} /\ Marking' = Marking \ {w}
  BY <1>2, <1>3 DEF Registering, Marking
<1>5. markers' = WithItem(markers, n, i) /\ n \notin DOMAIN markers /\ UNCHANGED entries
  BY DEF PutMarker, Registered
<1>6. /\ DOMAIN markers' = DOMAIN markers \cup {n} /\ markers'[n] = i
      /\ \A m \in DOMAIN markers : markers'[m] = markers[m]
  BY <1>5 DEF WithItem
<1>7. Listed' = Listed \cup {i}
  BY <1>5, <1>6 DEF Listed
<1>8. \A v \in Registering \ {w} : Registered(v)' = Registered(v)
  BY <1>2 DEF Registered, At, Registering
<1>9. i \notin Listed /\ entries[i] # << >>
      /\ \A v \in Registering \ {w} : Registered(v) # i
  BY <1>3 DEF RegistrationInv
<1> HIDE DEF i, n
<1>10. OrdersFresh'
  <2>1. \A v \in Marking \ {w} : writer'[v] = writer[v] /\ writer[v].order # n
    BY <1>2, <1>3 DEF Marking, RegistrationInv, OrdersFresh, n
  <2> QED
    BY <1>4, <1>6, <2>1 DEF RegistrationInv, OrdersFresh
<1>11. OneMarkerPerIdentity'
  <2>1. \A m \in DOMAIN markers : markers[m] # i
    BY <1>9 DEF Listed
  <2> QED
    BY <1>6, <2>1 DEF RegistrationInv, OneMarkerPerIdentity
<1> QED
  BY <1>4, <1>5, <1>7, <1>8, <1>9, <1>10, <1>11 DEF RegistrationInv

LEMMA RegistrationNextInv ==
  ASSUME DeltasAreIntegers, LedgerInv, RegistrationInv, [LedgerNext]_ledgerVars
  PROVE  RegistrationInv'
<1>1. ASSUME NEW w \in Writers, Abandon(w)
      PROVE  RegistrationInv'
  BY <1>1, RegistersNothing, IdleWriterOK DEF Abandon
<1>2. ASSUME NEW w \in Writers, NEW m \in MatchIds, NEW outcome \in Outcomes,
             BeginRecord(w, m, outcome)
      PROVE  RegistrationInv'
  <2> DEFINE r == [IdleWriter EXCEPT !.stage = "reading", !.match = m, !.outcome = outcome,
                                     !.todo = FirstSeen(outcome)]
  <2>1. r.stage = "reading"
    BY IdleWriterOK DEF Writer
  <2>2. writer' = [writer EXCEPT ![w] = r] /\ UNCHANGED <<entries, markers>>
    BY <1>2 DEF BeginRecord
  <2> HIDE DEF r
  <2>3. r.stage \notin {"counting", "marking"}
    BY <2>1
  <2> QED
    BY <2>2, <2>3, RegistersNothing
<1>3. ASSUME NEW w \in Writers, ReadPrior(w)
      PROVE  RegistrationInv'
  <2>1. writer \in [Writers -> Writer] /\ UNCHANGED <<entries, markers>>
    BY <1>3 DEF LedgerInv, LedgerTypeOK, ReadPrior
  <2>2. PICK priors, todo, stage :
          /\ writer' = [writer EXCEPT ![w].priors = priors, ![w].todo = todo,
                                      ![w].stage = stage]
          /\ stage \in {"reading", "putting"}
          /\ stage = "putting" => todo = FirstSeen(writer[w].outcome)
    BY <1>3, ReadPriorMoves
  <2> DEFINE r == [writer[w] EXCEPT !.priors = priors, !.todo = todo, !.stage = stage]
  <2>3. writer' = [writer EXCEPT ![w] = r] /\ r.stage = stage
    BY <2>1, <2>2 DEF Writer
  <2> HIDE DEF r
  <2>4. r.stage \notin {"counting", "marking"}
    BY <2>2, <2>3
  <2> QED
    BY <2>1, <2>3, <2>4, RegistersNothing
<1>4. ASSUME NEW w \in Writers, LedgerStep(w)
      PROVE  RegistrationInv'
  BY <1>1, <1>3, <1>4, PutEntryRegistration, TakeOrderRegistration, PutMarkerRegistration
     DEF LedgerStep, EntryRefused
<1>5. ASSUME NEW w \in Writers, Crash(w) \/ EndRecord(w)
      PROVE  RegistrationInv'
  BY <1>1, <1>5 DEF Crash, EndRecord
<1>6. CASE UNCHANGED ledgerVars
  BY <1>6 DEF ledgerVars, RegistrationInv, OrdersFresh, OneMarkerPerIdentity, Listed,
              Registering, Marking, Registered, At
<1> QED
  BY <1>2, <1>4, <1>5, <1>6 DEF LedgerNext

\* Every identity is registered at most once, in an order nobody else has, with
\* any number of writers racing to record its first match.  The docstring of
\* ratings/aws.py, lines 50-53, says that two of them "could each write a marker";
\* they cannot, for only the one whose put of entry 1 succeeds goes on to register.
THEOREM RegisteredOnce ==
  ASSUME DeltasAreIntegers
  PROVE  LedgerSpec => [](OrdersFresh /\ OneMarkerPerIdentity)
<1> DEFINE Inv == LedgerInv /\ RegistrationInv
<1>1. LedgerInit => Inv
  <2> SUFFICES ASSUME LedgerInit PROVE RegistrationInv
    BY LedgerInitInv
  <2>1. Registering = {} /\ Marking = {} /\ Listed = {}
    BY IdleWriterOK DEF LedgerInit, Registering, Marking, Listed
  <2> QED
    BY <2>1 DEF LedgerInit, RegistrationInv, OrdersFresh, OneMarkerPerIdentity
<1>2. Inv /\ [LedgerNext]_ledgerVars => Inv'
  BY LedgerNextInv, RegistrationNextInv
<1>3. Inv => OrdersFresh /\ OneMarkerPerIdentity
  BY DEF RegistrationInv
<1> QED
  BY <1>1, <1>2, <1>3, PTL DEF LedgerSpec

-----------------------------------------------------------------------------
(* The values of a match *)

\* One or two seats, with a caller in each.
LEMMA SeatsOK ==
  ASSUME NEW seats \in Seatings
  PROVE  /\ seats \in Seq(Callers) /\ Len(seats) \in {1, 2}
         /\ DOMAIN seats = 1..Len(seats)
         /\ Seated(seats) \subseteq Callers
         /\ \A k \in DOMAIN seats : seats[k] \in Callers /\ seats[k] \in Seated(seats)
<1>1. CASE \E p \in Callers : seats = <<p>>
  BY <1>1 DEF Seated
<1>2. CASE seats \in Callers \X Callers
  <2>1. PICK p \in Callers, q \in Callers : seats = <<p, q>>
    BY <1>2
  <2> QED
    BY <2>1 DEF Seated
<1> QED
  BY <1>1, <1>2 DEF Seatings

LEMMA StartedOK ==
  ASSUME NEW seats \in Seatings
  PROVE  /\ IsMatch(Started(Created(seats)))
         /\ Started(Created(seats)).status = "active"
<1> DEFINE m == Started(Created(seats))
<1>1. Created(seats) \in [seats : {seats}, status : {"created"}, game : {None},
                          turns : {<< >>}, result : {None}]
  BY DEF Created
<1>2. InitialState(seats) \in [order : {seats}, scores : [Seated(seats) -> Nat], taken : Nat]
  BY DEF InitialState
<1>3. << >> \in Seq([number : Nat, by : Callers, points : Points])
  OBVIOUS
<1>4. m = [Created(seats) EXCEPT !.status = "active", !.game = InitialState(seats)]
  BY DEF Started, Created
<1> HIDE DEF m
<1>5. m \in MatchOf(seats) /\ m.seats = seats /\ m.status = "active"
  <2> DEFINE c == Created(seats)
             g == InitialState(seats)
             Turns == Seq([number : Nat, by : Callers, points : Points])
             Games == [order : {seats}, scores : [Seated(seats) -> Nat], taken : Nat]
  <2>1. g \in Games /\ << >> \in Turns
    BY <1>2, <1>3
  <2> HIDE DEF c, g, Turns, Games
  <2>2. m \in [seats : {seats}, status : {"active"}, game : Games, turns : Turns, result : {None}]
    BY <1>1, <1>4, <2>1 DEF c, g
  <2> QED
    BY <2>2 DEF MatchOf, Turns, Games
<1> QED
  BY <1>5 DEF IsMatch, m

\* Pausing or resuming keeps everything but the status.
LEMMA StatusChangeOK ==
  ASSUME NEW match, IsMatch(match), NEW status \in {"active", "paused"}
  PROVE  LET m == [match EXCEPT !.status = status] IN
         IsMatch(m) /\ m.seats = match.seats /\ m.status = status
<1> DEFINE m == [match EXCEPT !.status = status]
<1>1. match \in MatchOf(match.seats) /\ match.seats \in Seatings
  BY DEF IsMatch
<1>2. m \in MatchOf(match.seats) /\ m.seats = match.seats /\ m.status = status
  BY <1>1 DEF MatchOf
<1> QED
  BY <1>1, <1>2 DEF IsMatch

LEMMA AfterTurnOK ==
  ASSUME NEW match, IsMatch(match), NEW by \in Seated(match.seats), NEW points \in Points
  PROVE  /\ IsMatch(AfterTurn(match, by, points))
         /\ AfterTurn(match, by, points).seats = match.seats
<1> DEFINE seats == match.seats
           Game == [order : {seats}, scores : [Seated(seats) -> Nat], taken : Nat]
           TurnRecord == [number : Nat, by : Callers, points : Points]
           turned == Turned(match, by, points)
           game == ApplyTurn(match.game, by, points)
           turn == [number |-> Len(match.turns) + 1, by |-> by, points |-> points]
<1>1. seats \in Seatings /\ match \in MatchOf(seats)
  BY DEF IsMatch
<1>2. match.game \in Game /\ match.turns \in Seq(TurnRecord)
  BY <1>1 DEF MatchOf
<1>3. game \in Game
  <2>1. points \in Nat
    BY EngineAssumption
  <2>2. match.game.scores \in [Seated(seats) -> Nat] /\ match.game.taken \in Nat
        /\ match.game.order = seats
    BY <1>2
  <2>3. [match.game.scores EXCEPT ![by] = @ + points] \in [Seated(seats) -> Nat]
    BY <2>1, <2>2
  <2> DEFINE scores == [match.game.scores EXCEPT ![by] = @ + points]
  <2>4. game = [match.game EXCEPT !.scores = scores, !.taken = match.game.taken + 1]
    BY <1>2 DEF ApplyTurn
  <2>5. match.game.taken + 1 \in Nat
    BY <2>2
  <2> HIDE DEF scores, game
  <2> QED
    BY <1>2, <2>3, <2>4, <2>5 DEF scores
<1>4. turn \in TurnRecord
  BY <1>1, <1>2, SeatsOK
<1>5. Append(match.turns, turn) \in Seq(TurnRecord)
  <2> HIDE DEF TurnRecord, turn
  <2> QED
    BY <1>2, <1>4
<1>6. turned = [match EXCEPT !.game = game, !.turns = Append(match.turns, turn)]
  BY <1>1 DEF Turned, MatchOf
<1> HIDE DEF turned, game, turn
<1>7. turned \in MatchOf(seats) /\ turned.seats = seats /\ turned.status = match.status
      /\ turned.result = match.result /\ turned.game = game
  BY <1>1, <1>3, <1>5, <1>6 DEF MatchOf
<1>8. IsMatch(turned)
  BY <1>1, <1>7 DEF IsMatch
<1> DEFINE over == Completed(turned)
           result == [winner |-> SoleLeader(game.scores), scores |-> game.scores]
<1>9. result \in Result(seats)
  <2>1. SoleLeader(game.scores) \in Callers \cup {None}
    <3>1. DOMAIN game.scores \subseteq Callers
      BY <1>1, <1>3, SeatsOK
    <3> QED
      BY <3>1 DEF SoleLeader
  <2> QED
    BY <1>3, <2>1 DEF Result
<1>10. over = [turned EXCEPT !.status = "completed", !.result = result]
  BY <1>7 DEF Completed
<1> HIDE DEF over, result
<1>11. over \in MatchOf(seats) /\ over.seats = seats /\ over.result = result
  BY <1>7, <1>9, <1>10 DEF MatchOf
<1>12. IsMatch(over)
  BY <1>1, <1>9, <1>11 DEF IsMatch
<1> QED
  BY <1>7, <1>8, <1>11, <1>12 DEF AfterTurn, turned, over

\* outcome_from_match gives record_match an outcome it can rate.
LEMMA OutcomeOK ==
  ASSUME NEW match, IsMatch(match), match.status = "completed"
  PROVE  /\ OutcomeOf(match) \in Outcome
         /\ Len(match.seats) >= 2 => OutcomeOf(match) \in RatedOutcome
         /\ DOMAIN OutcomeOf(match) = DOMAIN match.seats
         /\ \A k \in DOMAIN match.seats : OutcomeOf(match)[k].identity = IdentityOf[match.seats[k]]
<1> DEFINE seats == match.seats
<1>1. seats \in Seatings /\ match.result.scores \in [Seated(seats) -> Nat]
  BY DEF IsMatch, Result
<1>2. \A k \in DOMAIN seats :
        OutcomeOf(match)[k] = [identity |-> IdentityOf[seats[k]],
                               score |-> match.result.scores[seats[k]]]
  BY DEF OutcomeOf
<1>3. \A k \in DOMAIN seats : IdentityOf[seats[k]] \in Identities
                              /\ match.result.scores[seats[k]] \in Int
  BY <1>1, SeatsOK, ServiceAssumption
<1> DEFINE S == [identity : Identities, score : Int]
<1>4. ASSUME NEW k \in DOMAIN seats
      PROVE  OutcomeOf(match)[k] \in S /\ OutcomeOf(match)[k].identity = IdentityOf[seats[k]]
  <2> DEFINE i == IdentityOf[seats[k]]
             n == match.result.scores[seats[k]]
  <2>1. i \in Identities /\ n \in Int /\ OutcomeOf(match)[k] = [identity |-> i, score |-> n]
    BY <1>2, <1>3
  <2> HIDE DEF i, n
  <2> QED
    BY <2>1 DEF i
<1>5. DOMAIN seats = 1..Len(seats) /\ Len(seats) \in Nat
  BY <1>1, SeatsOK
<1>6. DOMAIN OutcomeOf(match) = DOMAIN seats
      /\ OutcomeOf(match) = [k \in DOMAIN seats |-> OutcomeOf(match)[k]]
  BY DEF OutcomeOf
<1> HIDE DEF S
<1>7. OutcomeOf(match) \in [1..Len(seats) -> S]
  BY <1>4, <1>5, <1>6
<1>8. OutcomeOf(match) \in Seq(S) /\ Len(OutcomeOf(match)) = Len(seats)
  BY <1>5, <1>7
<1> QED
  BY <1>4, <1>6, <1>8 DEF Outcome, RatedOutcome, S

\* And as long as the match has participants.
LEMMA OutcomeLength ==
  ASSUME NEW m, IsMatch(m), m.status = "completed"
  PROVE  Len(OutcomeOf(m)) \in {1, 2}
<1> DEFINE a == Len(OutcomeOf(m))
           b == Len(m.seats)
<1>1. a \in Nat /\ b \in {1, 2} /\ 1..a = 1..b
  <2>1. OutcomeOf(m) \in Outcome /\ DOMAIN OutcomeOf(m) = DOMAIN m.seats
    BY OutcomeOK
  <2>2. DOMAIN OutcomeOf(m) = 1..Len(OutcomeOf(m)) /\ Len(OutcomeOf(m)) \in Nat
    BY <2>1 DEF Outcome
  <2> QED
    BY <2>1, <2>2, SeatsOK DEF IsMatch
<1> HIDE DEF a, b
<1>2. b \in 1..b
  BY <1>1
<1>3. a # 0
  BY <1>1, <1>2
<1>4. a \in 1..a
  BY <1>1, <1>3
<1>5. a = b
  BY <1>1, <1>2, <1>4
<1> QED
  BY <1>1, <1>5 DEF a

\* Of the one or two positions of a match's outcome, every identity is handled
\* at one.
LEMMA FirstSeenCovers ==
  ASSUME NEW outcome \in Outcome, Len(outcome) \in {1, 2}, NEW k \in DOMAIN outcome
  PROVE  \E j \in FirstSeen(outcome) : outcome[j].identity = outcome[k].identity
<1>1. DOMAIN outcome = 1..Len(outcome)
  BY DEF Outcome
<1>2. 1 \in FirstSeen(outcome)
  BY <1>1 DEF FirstSeen
<1>3. CASE outcome[k].identity = outcome[1].identity
  BY <1>2, <1>3
<1>4. CASE outcome[k].identity # outcome[1].identity
  <2>1. k = 2 /\ \A j \in 1..(k - 1) : j = 1
    BY <1>1, <1>4
  <2> QED
    BY <1>4, <2>1 DEF FirstSeen
<1> QED
  BY <1>3, <1>4

-----------------------------------------------------------------------------
(* The inductive invariant *)

\* The rating of match m, stored or to be stored as id, is in the ledger.
Backed(id, m) == \A i \in RatedIdentities(m) : HasEntry(i, id)

\* What a request knows of the copy it carries: before the save, that it is
\* backed; while rating it, that the positions handled so far have their entry.
InHand(w) ==
  /\ request[w].stage = "saving" => Backed(request[w].id, request[w].match)
  /\ request[w].stage = "rating" =>
       /\ request[w].match.status = "completed"
       /\ writer[w].match = request[w].id
       /\ writer[w].outcome = OutcomeOf(request[w].match)
       /\ writer[w].stage \in {"putting", "counting", "marking", "done"} =>
            \A k \in FirstSeen(writer[w].outcome) \ writer[w].todo :
              HasEntry(At(w, k), writer[w].match)
       /\ writer[w].stage = "done" => writer[w].todo = {}

ServiceInv ==
  /\ LedgerInv
  /\ ServiceTypeOK
  /\ \A id \in MatchIds :
       /\ table[id] # None => Backed(id, table[id])
       /\ replica[id] # None => Backed(id, replica[id])
  /\ \A w \in Writers : InHand(w)

\* Entries stay.
EntriesStay == \A i \in Identities, m \in MatchIds : HasEntry(i, m) => HasEntry(i, m)'

LEMMA RatedAreIdentities ==
  ASSUME NEW m, IsMatch(m)
  PROVE  RatedIdentities(m) \subseteq Identities
BY SeatsOK, ServiceAssumption DEF RatedIdentities, IsMatch

LEMMA BackedStays ==
  ASSUME NEW m, IsMatch(m), NEW id \in MatchIds, Backed(id, m), EntriesStay
  PROVE  Backed(id, m)'
BY RatedAreIdentities DEF Backed, EntriesStay

LEMMA LedgerStays ==
  ASSUME DeltasAreIntegers, LedgerInv, NEW w \in Writers,
         LedgerStep(w) \/ Abandon(w)
           \/ \E m \in MatchIds, outcome \in RatedOutcome : BeginRecord(w, m, outcome)
  PROVE  /\ LedgerInv'
         /\ EntriesStay
         /\ \A v \in Writers : v # w => writer'[v] = writer[v]
<1>1. LedgerInv'
  BY ReadPriorInv, PutEntryInv, TakeOrderInv, PutMarkerInv, AbandonInv, BeginRecordInv
     DEF LedgerStep, EntryRefused
<1>2. EntriesStay
  <2>1. CASE PutEntry(w)
    <3>1. PICK i \in Identities :
            LET n == Len(entries[i]) IN
            /\ entries' = [entries EXCEPT ![i] = WithItem(@, n + 1, NewEntry(w, i))]
            /\ entries'[i] \in Seq(Entry)
            /\ Len(entries'[i]) = n + 1
            /\ \A j \in 1..n : entries'[i][j] = entries[i][j]
      BY <2>1, PutAppends
    <3>2. entries \in [Identities -> Seq(Entry)]
      BY DEF LedgerInv, LedgerTypeOK
    <3>3. DOMAIN entries[i] \subseteq DOMAIN entries'[i]
          /\ \A k \in DOMAIN entries[i] : entries'[i][k] = entries[i][k]
      BY <3>1, <3>2
    <3>4. \A j \in Identities : j # i => entries'[j] = entries[j]
      BY <3>1, <3>2
    <3> QED
      BY <3>3, <3>4 DEF EntriesStay, HasEntry
  <2>2. CASE UNCHANGED entries
    BY <2>2 DEF EntriesStay, HasEntry
  <2> QED
    BY <2>1, <2>2 DEF LedgerStep, ReadPrior, EntryRefused, Abandon, TakeOrder, PutMarker,
                      BeginRecord
<1>3. writer \in [Writers -> Writer]
  BY DEF LedgerInv, LedgerTypeOK
<1>4. \A v \in Writers : v # w => writer'[v] = writer[v]
  BY <1>3 DEF LedgerStep, ReadPrior, PutEntry, EntryRefused, Abandon, TakeOrder, PutMarker,
              BeginRecord
<1> QED
  BY <1>1, <1>2, <1>4

\* A step of w in which w's new copy is backed, or being rated, as it must be.
LEMMA RequestStep ==
  ASSUME ServiceInv, LedgerInv', EntriesStay, NEW w \in Writers,
         \A v \in Writers : v # w => writer'[v] = writer[v] /\ request'[v] = request[v],
         DOMAIN request' = Writers, RequestOK(request'[w]), minted' \subseteq MatchIds,
         UNCHANGED <<table, replica>>, InHand(w)'
  PROVE  ServiceInv'
<1>1. ServiceTypeOK'
  BY DEF ServiceInv, ServiceTypeOK
<1>2. ASSUME NEW id \in MatchIds
      PROVE  /\ table[id] # None => Backed(id, table[id])'
             /\ replica[id] # None => Backed(id, replica[id])'
  BY BackedStays DEF ServiceInv, ServiceTypeOK, Backed
<1>3. ASSUME NEW v \in Writers, v # w
      PROVE  InHand(v)'
  <2>1. InHand(v) /\ RequestOK(request[v])
    BY DEF ServiceInv, ServiceTypeOK
  <2>2. request'[v] = request[v] /\ writer'[v] = writer[v]
    BY <1>3
  <2>3. CASE request[v].stage = "saving"
    <3>1. IsMatch(request[v].match) /\ request[v].id \in MatchIds
      BY <2>1, <2>3 DEF RequestOK
    <3>2. Backed(request[v].id, request[v].match)
      BY <2>1, <2>3 DEF InHand
    <3>3. \A i \in RatedIdentities(request[v].match) : HasEntry(i, request[v].id)'
      BY <2>2, <3>1, <3>2, RatedAreIdentities DEF Backed, EntriesStay, HasEntry
    <3> QED
      BY <2>2, <2>3, <3>3 DEF InHand, Backed, HasEntry
  <2>4. CASE request[v].stage = "rating"
    <3>1. writer[v].match \in MatchIds
          /\ \A k \in FirstSeen(writer[v].outcome) : At(v, k) \in Identities
      <4>1. writer[v] \in Writer
        BY DEF ServiceInv, LedgerInv, LedgerTypeOK
      <4> QED
        BY <4>1, OutcomePositions DEF Writer, At
    <3>2. \A k \in FirstSeen(writer[v].outcome) \ writer[v].todo :
            HasEntry(At(v, k), writer[v].match) =>
              HasEntry(At(v, k), writer[v].match)'
      <4>1. ASSUME NEW k \in FirstSeen(writer[v].outcome) \ writer[v].todo,
                   HasEntry(At(v, k), writer[v].match)
            PROVE  HasEntry(At(v, k), writer[v].match)'
        <5>1. At(v, k)' = At(v, k) /\ (writer[v].match)' = writer[v].match
          BY <2>2 DEF At
        <5>2. HasEntry(At(v, k), writer[v].match) => \E n \in DOMAIN entries'[At(v, k)] :
                entries'[At(v, k)][n].match = writer[v].match
          BY <3>1 DEF EntriesStay, HasEntry
        <5> QED
          BY <4>1, <5>1, <5>2 DEF HasEntry
      <4> QED
        BY <4>1
    <3> QED
      BY <2>1, <2>2, <2>4, <3>2 DEF InHand
  <2> QED
    BY <2>2, <2>3, <2>4 DEF InHand
<1> QED
  BY <1>1, <1>2, <1>3 DEF ServiceInv

\* A step that leaves the ledger alone and puts r in place of w's request.
LEMMA ServiceStep ==
  ASSUME ServiceInv, NEW w \in Writers, NEW r,
         Goes(w, r), UNCHANGED <<ledgerVars, table, replica>>, minted' \subseteq MatchIds,
         RequestOK(r), r.stage # "rating",
         r.stage = "saving" => Backed(r.id, r.match)
  PROVE  ServiceInv'
<1>1. DOMAIN request = Writers
  BY DEF ServiceInv, ServiceTypeOK
<1>2. DOMAIN request' = Writers /\ request'[w] = r
      /\ \A v \in Writers : v # w => request'[v] = request[v]
  BY <1>1 DEF Goes
<1>3. UNCHANGED <<entries, markers, counter, writer>>
  BY DEF ledgerVars
<1>4. LedgerInv'
  BY <1>3 DEF ServiceInv, LedgerInv, LedgerTypeOK, ReadsPrefixes, Registers
<1>5. EntriesStay
  BY <1>3 DEF EntriesStay, HasEntry
<1>6. InHand(w)'
  BY <1>2, <1>3 DEF InHand, Backed, HasEntry
<1>7. RequestOK(request'[w])
  BY <1>2
<1> QED
  BY <1>2, <1>3, <1>4, <1>5, <1>6, <1>7, RequestStep

LEMMA NoRequestOK == RequestOK(NoRequest) /\ NoRequest.stage = "idle"
BY DEF RequestOK, NoRequest

\* A match that is not completed needs no rating.
LEMMA UnratedBacked ==
  ASSUME NEW m, NEW id, ~Rated(m)
  PROVE  Backed(id, m)
BY DEF Backed, RatedIdentities

LEMMA CreateInv ==
  ASSUME ServiceInv, NEW w \in Writers,
         \/ ListIds(w) \/ CountOne(w) \/ CountFails(w)
         \/ Admit(w) \/ Refuse(w) \/ RejectBody(w)
  PROVE  ServiceInv'
<1>0. RequestOK(request[w]) /\ minted \subseteq MatchIds
  BY DEF ServiceInv, ServiceTypeOK
<1>1. CASE ListIds(w)
  <2>1. PICK ids \in SUBSET MatchIds :
          Goes(w, [NoRequest EXCEPT !.stage = "counting", !.unread = ids,
                                    !.listed = Cardinality(ids)])
    BY <1>1 DEF ListIds
  <2>2. Cardinality(ids) \in Nat
    BY FS_Subset, FS_CardinalityType, ServiceAssumption
  <2> DEFINE r == [NoRequest EXCEPT !.stage = "counting", !.unread = ids,
                                    !.listed = Cardinality(ids)]
  <2>3. RequestOK(r) /\ r.stage = "counting"
    BY <2>2 DEF RequestOK, NoRequest
  <2> HIDE DEF r
  <2>4. Goes(w, r)
    BY <2>1 DEF r
  <2>5. UNCHANGED <<ledgerVars, table, replica>> /\ minted' \subseteq MatchIds
    BY <1>0, <1>1 DEF ListIds
  <2> QED
    BY <2>3, <2>4, <2>5, ServiceStep
<1>2. CASE CountOne(w)
  <2>1. PICK id \in request[w].unread : \E match \in Loadable(id) :
          Goes(w, [request[w] EXCEPT !.unread = @ \ {id},
                                     !.concurrent = @ + (IF Counted(match) THEN 1 ELSE 0)])
    BY <1>2 DEF CountOne
  <2>0. PICK match \in Loadable(id) :
          Goes(w, [request[w] EXCEPT !.unread = @ \ {id},
                                     !.concurrent = @ + (IF Counted(match) THEN 1 ELSE 0)])
    BY <2>1
  <2> DEFINE more == IF Counted(match) THEN 1 ELSE 0
             r == [request[w] EXCEPT !.unread = @ \ {id}, !.concurrent = @ + more]
  <2>2. more \in Nat /\ request[w].stage = "counting"
    BY <1>2 DEF CountOne
  <2> HIDE DEF more
  <2>3. RequestOK(r) /\ r.stage = "counting"
    BY <1>0, <2>2 DEF RequestOK, NoRequest
  <2> HIDE DEF r
  <2>4. Goes(w, r)
    BY <2>0 DEF r, more
  <2>5. UNCHANGED <<ledgerVars, table, replica>> /\ minted' \subseteq MatchIds
    BY <1>0, <1>2 DEF CountOne
  <2> QED
    BY <2>3, <2>4, <2>5, ServiceStep
<1>3. CASE CountFails(w) \/ Refuse(w) \/ RejectBody(w)
  <2>1. Goes(w, NoRequest) /\ UNCHANGED <<ledgerVars, table, replica>> /\ minted' \subseteq MatchIds
    BY <1>0, <1>3 DEF CountFails, Refuse, RejectBody
  <2> QED
    BY <2>1, NoRequestOK, ServiceStep
<1>4. CASE Admit(w)
  <2>1. PICK id \in MatchIds, seats \in Seatings :
          /\ minted' = minted \cup {id}
          /\ Goes(w, [NoRequest EXCEPT !.stage = "saving", !.id = id,
                                       !.match = Started(Created(seats))])
    BY <1>4 DEF Admit
  <2> DEFINE m == Started(Created(seats))
             r == [NoRequest EXCEPT !.stage = "saving", !.id = id, !.match = m]
  <2>2. IsMatch(m) /\ m.status = "active"
    BY StartedOK
  <2> HIDE DEF m
  <2>3. RequestOK(r) /\ r.stage = "saving" /\ r.match = m /\ r.id = id
    BY <2>2 DEF RequestOK, NoRequest
  <2>4. Backed(id, m)
    BY <2>2, UnratedBacked DEF Rated
  <2> HIDE DEF r
  <2>5. Goes(w, r)
    BY <2>1 DEF r, m
  <2>6. UNCHANGED <<ledgerVars, table, replica>> /\ minted' \subseteq MatchIds
    BY <1>0, <1>4, <2>1 DEF Admit
  <2> QED
    BY <2>3, <2>4, <2>5, <2>6, ServiceStep
<1> QED
  BY <1>1, <1>2, <1>3, <1>4

\* What a load returns is a match.
LEMMA LoadedOK ==
  ASSUME ServiceInv, NEW id \in MatchIds, NEW match \in Loadable(id)
  PROVE  IsMatch(match)
BY DEF ServiceInv, ServiceTypeOK, Loadable

\* A copy that needs no rating before it is saved.
LEMMA CarryInv ==
  ASSUME ServiceInv, NEW w \in Writers, NEW id \in MatchIds, NEW m, IsMatch(m), ~Rated(m),
         Carries(w, "saving", id, m), UNCHANGED <<ledgerVars, table, replica, minted>>
  PROVE  ServiceInv'
<1> DEFINE r == [NoRequest EXCEPT !.stage = "saving", !.id = id, !.match = m]
<1>1. RequestOK(r) /\ r.stage = "saving" /\ r.match = m /\ r.id = id
  BY DEF RequestOK, NoRequest
<1>2. Backed(id, m)
  BY UnratedBacked
<1>3. minted' \subseteq MatchIds
  BY DEF ServiceInv, ServiceTypeOK
<1> HIDE DEF r
<1>4. Goes(w, r)
  BY DEF Carries, r
<1> QED
  BY <1>1, <1>2, <1>3, <1>4, ServiceStep

LEMMA PauseResumeInv ==
  ASSUME ServiceInv, NEW w \in Writers, NEW id \in MatchIds, NEW by \in Callers,
         Pause(w, id, by) \/ Resume(w, id, by)
  PROVE  ServiceInv'
<1>1. CASE Pause(w, id, by)
  <2>1. PICK match \in Loadable(id) : Carries(w, "saving", id, Paused(match))
    BY <1>1 DEF Pause
  <2>2. IsMatch(Paused(match)) /\ Paused(match).status = "paused"
    BY LoadedOK, StatusChangeOK DEF Paused
  <2> QED
    BY <1>1, <2>1, <2>2, CarryInv DEF Pause, Rated
<1>2. CASE Resume(w, id, by)
  <2>1. PICK match \in Loadable(id) : Carries(w, "saving", id, Resumed(match))
    BY <1>2 DEF Resume
  <2>2. IsMatch(Resumed(match)) /\ Resumed(match).status = "active"
    BY LoadedOK, StatusChangeOK DEF Resumed
  <2> QED
    BY <1>2, <2>1, <2>2, CarryInv DEF Resume, Rated
<1> QED
  BY <1>1, <1>2

LEMMA TakeTurnInv ==
  ASSUME DeltasAreIntegers, ServiceInv, NEW w \in Writers, NEW id \in MatchIds,
         NEW by \in Callers, NEW points \in Points, TakeTurn(w, id, by, points)
  PROVE  ServiceInv'
<1>1. PICK match \in Loadable(id) :
        /\ by \in Seated(match.seats)
        /\ LET after == AfterTurn(match, by, points) IN
             IF Rated(after)
               THEN Carries(w, "rating", id, after) /\ BeginRecord(w, id, OutcomeOf(after))
               ELSE Carries(w, "saving", id, after) /\ UNCHANGED ledgerVars
  BY DEF TakeTurn
<1> DEFINE after == AfterTurn(match, by, points)
<1>2. IsMatch(after)
  BY <1>1, LoadedOK, AfterTurnOK
<1>3. UNCHANGED <<table, replica, minted>>
  BY DEF TakeTurn
<1> HIDE DEF after
<1>4. CASE ~Rated(after)
  <2>1. Carries(w, "saving", id, after) /\ UNCHANGED ledgerVars
    BY <1>1, <1>4 DEF after
  <2> QED
    BY <1>2, <1>3, <1>4, <2>1, CarryInv
<1>5. CASE Rated(after)
  <2>1. Carries(w, "rating", id, after) /\ BeginRecord(w, id, OutcomeOf(after))
    BY <1>1, <1>5 DEF after
  <2>2. after.status = "completed" /\ OutcomeOf(after) \in RatedOutcome
    BY <1>2, <1>5, OutcomeOK DEF Rated
  <2>3. /\ LedgerInv' /\ EntriesStay
        /\ \A v \in Writers : v # w => writer'[v] = writer[v]
    BY <2>1, <2>2, LedgerStays DEF ServiceInv
  <2> DEFINE r == [NoRequest EXCEPT !.stage = "rating", !.id = id, !.match = after]
  <2>4. RequestOK(r) /\ r.stage = "rating" /\ r.match = after /\ r.id = id
    BY <1>2 DEF RequestOK, NoRequest
  <2> HIDE DEF r
  <2>5. DOMAIN request = Writers /\ request' = [request EXCEPT ![w] = r]
    BY <2>1 DEF ServiceInv, ServiceTypeOK, Carries, Goes, r
  <2>6. /\ DOMAIN request' = Writers /\ request'[w] = r
        /\ \A v \in Writers : v # w => request'[v] = request[v]
    BY <2>5
  <2>7. /\ writer'[w].stage = "reading" /\ writer'[w].match = id
        /\ writer'[w].outcome = OutcomeOf(after)
    <3>1. writer \in [Writers -> Writer] /\ IdleWriter \in Writer
      BY IdleWriterOK DEF ServiceInv, LedgerInv, LedgerTypeOK
    <3> QED
      BY <2>1, <3>1 DEF BeginRecord, Writer
  <2>8. InHand(w)'
    BY <2>2, <2>4, <2>6, <2>7 DEF InHand, OutcomeOf
  <2>9. minted' \subseteq MatchIds /\ RequestOK(request'[w])
    BY <1>3, <2>4, <2>6 DEF ServiceInv, ServiceTypeOK
  <2> QED
    BY <1>3, <2>3, <2>6, <2>8, <2>9, RequestStep
<1> QED
  BY <1>4, <1>5

\* The copy a rating request carries, and the writer that rates it.
LEMMA RatingInHand ==
  ASSUME ServiceInv, NEW w \in Writers, request[w].stage = "rating"
  PROVE  /\ writer[w] \in Writer /\ InHand(w)
         /\ request[w].id \in MatchIds /\ IsMatch(request[w].match)
         /\ writer[w].outcome \in Outcome
         /\ \A k \in DOMAIN writer[w].outcome : At(w, k) \in Identities
<1>1. writer[w] \in Writer
  BY DEF ServiceInv, LedgerInv, LedgerTypeOK
<1>2. writer[w].outcome \in Outcome
  BY <1>1 DEF Writer
<1> QED
  BY <1>1, <1>2, OutcomePositions DEF ServiceInv, ServiceTypeOK, RequestOK, At

\* Identity position k of w's outcome has its entry in the ledger es.
Recorded(es, w, k) ==
  \E j \in DOMAIN es[At(w, k)] : es[At(w, k)][j].match = writer[w].match

Past == {"putting", "counting", "marking", "done"}

\* A ledger step of w that leaves w's record x with the positions it is past
\* recorded.
LEMMA LedgerStepInHand ==
  ASSUME DeltasAreIntegers, ServiceInv, NEW w \in Writers, request[w].stage = "rating",
         LedgerStep(w), UNCHANGED serviceVars,
         writer'[w].match = writer[w].match, writer'[w].outcome = writer[w].outcome,
         writer'[w].stage \in Past =>
           \A k \in FirstSeen(writer[w].outcome) \ writer'[w].todo :
             Recorded(entries', w, k),
         writer'[w].stage = "done" => writer'[w].todo = {}
  PROVE  ServiceInv'
<1>1. UNCHANGED <<table, replica, minted, request>>
  BY DEF serviceVars
<1>2. /\ LedgerInv' /\ EntriesStay
      /\ \A v \in Writers : v # w => writer'[v] = writer[v]
  BY LedgerStays DEF ServiceInv
<1>3. InHand(w)'
  <2>1. InHand(w)
    BY RatingInHand
  <2>2. writer'[w].stage \in Past =>
          \A k \in FirstSeen(writer'[w].outcome) \ writer'[w].todo :
            HasEntry(At(w, k), writer[w].match)'
    BY DEF Recorded, HasEntry, At
  <2> QED
    BY <1>1, <2>1, <2>2 DEF InHand, Past, OutcomeOf
<1>4. DOMAIN request' = Writers /\ RequestOK(request'[w]) /\ minted' \subseteq MatchIds
  BY <1>1 DEF ServiceInv, ServiceTypeOK
<1> QED
  BY <1>1, <1>2, <1>3, <1>4, RequestStep

LEMMA RateInv ==
  ASSUME DeltasAreIntegers, ServiceInv, NEW w \in Writers, Rate(w)
  PROVE  ServiceInv'
<1>1. request[w].stage = "rating" /\ UNCHANGED serviceVars /\ LedgerStep(w)
  BY DEF Rate, LedgerStep
<1>2. LedgerInv /\ EntriesStay /\ writer \in [Writers -> Writer]
  BY <1>1, LedgerStays DEF ServiceInv, LedgerInv, LedgerTypeOK
<1>3. /\ writer[w] \in Writer /\ InHand(w) /\ writer[w].match \in MatchIds
      /\ \A k \in FirstSeen(writer[w].outcome) : At(w, k) \in Identities
  BY <1>1, RatingInHand, OutcomePositions DEF Writer
<1>4. \A k \in FirstSeen(writer[w].outcome) : Recorded(entries, w, k) => Recorded(entries', w, k)
  <2> SUFFICES ASSUME NEW k \in FirstSeen(writer[w].outcome), Recorded(entries, w, k)
               PROVE  Recorded(entries', w, k)
    OBVIOUS
  <2> DEFINE i == At(w, k)
             m == writer[w].match
  <2>1. i \in Identities /\ m \in MatchIds /\ HasEntry(i, m)
    BY <1>3 DEF Recorded, HasEntry
  <2>2. \A j \in Identities, n \in MatchIds :
          HasEntry(j, n) => \E e \in DOMAIN entries'[j] : entries'[j][e].match = n
    BY <1>2 DEF EntriesStay, HasEntry
  <2> QED
    BY <2>1, <2>2 DEF Recorded
<1>5. writer[w].stage \in Past =>
        \A k \in FirstSeen(writer[w].outcome) \ writer[w].todo : Recorded(entries, w, k)
  BY <1>1, <1>3 DEF InHand, HasEntry, Recorded, Past
<1>6. CASE ReadPrior(w)
  <2>1. PICK priors, todo, stage :
          /\ writer' = [writer EXCEPT ![w].priors = priors, ![w].todo = todo,
                                      ![w].stage = stage]
          /\ stage \in {"reading", "putting"}
          /\ stage = "putting" => todo = FirstSeen(writer[w].outcome)
    BY <1>2, <1>6, ReadPriorMoves
  <2>2. /\ writer'[w].match = writer[w].match /\ writer'[w].outcome = writer[w].outcome
        /\ writer'[w].todo = todo /\ writer'[w].stage = stage
    BY <1>2, <2>1 DEF Writer
  <2> QED
    BY <1>1, <2>1, <2>2, LedgerStepInHand DEF Past
<1>7. CASE PutEntry(w)
  <2>1. PICK k \in writer[w].todo :
          LET i == At(w, k)
              n == Len(entries[i]) IN
          /\ i \in Identities /\ k \in DOMAIN writer[w].outcome
          /\ entries'[i] \in Seq(Entry)
          /\ Len(entries'[i]) = n + 1
          /\ entries'[i][n + 1] = NewEntry(w, i)
          /\ writer' = [writer EXCEPT
               ![w].todo = writer[w].todo \ {k}, ![w].at = k,
               ![w].stage = IF n = 0 THEN "counting"
                            ELSE AfterPutting(writer[w].todo \ {k})]
    BY <1>2, <1>7, PutAppends
  <2> DEFINE left == writer[w].todo \ {k}
             new == Len(entries[At(w, k)]) = 0
  <2>2. /\ writer'[w].match = writer[w].match /\ writer'[w].outcome = writer[w].outcome
        /\ writer'[w].todo = left
        /\ writer'[w].stage = IF new THEN "counting" ELSE AfterPutting(left)
    BY <1>2, <2>1 DEF Writer
  <2>3. Recorded(entries', w, k)
    <3> DEFINE i == At(w, k)
               n == Len(entries[i])
    <3>1. n \in Nat /\ entries'[i] \in Seq(Entry) /\ Len(entries'[i]) = n + 1
      BY <1>2, <2>1 DEF LedgerInv, LedgerTypeOK
    <3>2. n + 1 \in DOMAIN entries'[i]
      <4> HIDE DEF i, n
      <4> QED
        BY <3>1
    <3>3. entries'[i][n + 1].match = writer[w].match
      BY <2>1 DEF NewEntry
    <3> QED
      BY <3>2, <3>3 DEF Recorded
  <2>4. writer[w].stage \in Past
    BY <1>7 DEF PutEntry, Past
  <2>5. \A j \in FirstSeen(writer[w].outcome) \ left : Recorded(entries', w, j)
    BY <1>4, <1>5, <2>3, <2>4
  <2> HIDE DEF new
  <2>6. writer'[w].stage = "done" => left = {}
    BY <2>2 DEF AfterPutting
  <2> QED
    BY <1>1, <2>2, <2>5, <2>6, LedgerStepInHand
<1>8. CASE TakeOrder(w)
  <2>1. /\ writer'[w].match = writer[w].match /\ writer'[w].outcome = writer[w].outcome
        /\ writer'[w].todo = writer[w].todo
        /\ writer'[w].stage = "marking" /\ writer[w].stage \in Past
    BY <1>2, <1>8 DEF Writer, TakeOrder, Past
  <2> QED
    BY <1>1, <1>4, <1>5, <2>1, LedgerStepInHand
<1>9. CASE PutMarker(w)
  <2>1. /\ writer'[w].match = writer[w].match /\ writer'[w].outcome = writer[w].outcome
        /\ writer'[w].todo = writer[w].todo
        /\ writer'[w].stage = AfterPutting(writer[w].todo) /\ writer[w].stage \in Past
    BY <1>2, <1>9 DEF Writer, PutMarker, Past
  <2>2. writer'[w].stage = "done" => writer'[w].todo = {}
    BY <2>1 DEF AfterPutting
  <2> QED
    BY <1>1, <1>4, <1>5, <2>1, <2>2, LedgerStepInHand
<1> QED
  BY <1>6, <1>7, <1>8, <1>9 DEF Rate

\* The writer of a request that ends goes idle: no other copy is touched.
LEMMA EndsInv ==
  ASSUME DeltasAreIntegers, ServiceInv, NEW w \in Writers, NEW r,
         Abandon(w), Goes(w, r), UNCHANGED <<table, replica, minted>>,
         RequestOK(r), r.stage # "rating",
         r.stage = "saving" => Backed(r.id, r.match)
  PROVE  ServiceInv'
<1>1. /\ LedgerInv' /\ EntriesStay
      /\ \A v \in Writers : v # w => writer'[v] = writer[v]
  BY LedgerStays DEF ServiceInv
<1>2. DOMAIN request = Writers /\ minted \subseteq MatchIds
  BY DEF ServiceInv, ServiceTypeOK
<1>3. /\ DOMAIN request' = Writers /\ request'[w] = r
      /\ \A v \in Writers : v # w => request'[v] = request[v]
  BY <1>2 DEF Goes
<1>4. UNCHANGED entries
  BY DEF Abandon
<1>5. InHand(w)'
  BY <1>3, <1>4 DEF InHand, Backed, HasEntry
<1>6. RequestOK(request'[w]) /\ minted' \subseteq MatchIds
  BY <1>2, <1>3
<1> QED
  BY <1>1, <1>3, <1>5, <1>6, RequestStep

\* When record_match returns, every participant of the match is rated.
LEMMA RateDoneInv ==
  ASSUME DeltasAreIntegers, ServiceInv, NEW w \in Writers, RateDone(w)
  PROVE  ServiceInv'
<1> DEFINE id == request[w].id
           m == request[w].match
           r == [request[w] EXCEPT !.stage = "saving"]
<1>1. request[w].stage = "rating" /\ writer[w].stage = "done" /\ Abandon(w)
      /\ UNCHANGED <<table, replica, minted>>
  BY DEF RateDone, EndRecord
<1>2. /\ InHand(w) /\ IsMatch(m) /\ id \in MatchIds /\ writer[w].outcome \in Outcome
  BY <1>1, RatingInHand
<1>3. /\ m.status = "completed" /\ writer[w].match = id /\ writer[w].outcome = OutcomeOf(m)
      /\ \A k \in FirstSeen(writer[w].outcome) : HasEntry(At(w, k), id)
  BY <1>1, <1>2 DEF InHand
<1>4. Backed(id, m)
  <2>1. /\ DOMAIN OutcomeOf(m) = DOMAIN m.seats
        /\ \A k \in DOMAIN m.seats : OutcomeOf(m)[k].identity = IdentityOf[m.seats[k]]
    BY <1>2, <1>3, OutcomeOK
  <2>3. Len(OutcomeOf(m)) \in {1, 2} /\ OutcomeOf(m) \in Outcome
    BY <1>2, <1>3, OutcomeOK, OutcomeLength
  <2>4. ASSUME NEW k \in DOMAIN m.seats
        PROVE  HasEntry(IdentityOf[m.seats[k]], id)
    <3>1. PICK j \in FirstSeen(OutcomeOf(m)) :
            OutcomeOf(m)[j].identity = OutcomeOf(m)[k].identity
      BY <2>1, <2>3, FirstSeenCovers
    <3> QED
      BY <1>3, <2>1, <3>1 DEF At
  <2> QED
    BY <2>4 DEF Backed, RatedIdentities
<1>5. RequestOK(r) /\ r.stage = "saving" /\ r.id = id /\ r.match = m
  <2>1. RequestOK(request[w])
    BY DEF ServiceInv, ServiceTypeOK
  <2> QED
    BY <1>2, <2>1 DEF RequestOK, NoRequest
<1>6. Goes(w, r)
  BY DEF RateDone
<1> HIDE DEF r
<1> QED
  BY <1>1, <1>4, <1>5, <1>6, EndsInv

LEMMA RequestEndsInv ==
  ASSUME DeltasAreIntegers, ServiceInv, NEW w \in Writers, RateFails(w) \/ Die(w)
  PROVE  ServiceInv'
<1>1. Abandon(w) /\ Goes(w, NoRequest) /\ UNCHANGED <<table, replica, minted>>
  BY DEF RateFails, EntryRefused, Die
<1> QED
  BY <1>1, NoRequestOK, EndsInv

\* What the table and the replicas hold is a backed match.
StoreOK(store) ==
  /\ DOMAIN store = MatchIds
  /\ \A id \in MatchIds : store[id] # None => IsMatch(store[id]) /\ Backed(id, store[id])

\* A step that leaves the ledger alone and what is stored in order.
LEMMA StoreStep ==
  ASSUME ServiceInv, UNCHANGED <<ledgerVars, minted>>,
         StoreOK(table'), StoreOK(replica'), DOMAIN request' = Writers,
         \A w \in Writers : request'[w] \in {request[w], NoRequest}
  PROVE  ServiceInv'
<1>1. UNCHANGED <<entries, markers, counter, writer>>
  BY DEF ledgerVars
<1>2. LedgerInv'
  BY <1>1 DEF ServiceInv, LedgerInv, LedgerTypeOK, ReadsPrefixes, Registers
<1>3. ServiceTypeOK'
  BY NoRequestOK DEF ServiceInv, ServiceTypeOK, StoreOK
<1>4. ASSUME NEW id \in MatchIds
      PROVE  /\ table'[id] # None => Backed(id, table[id])'
             /\ replica'[id] # None => Backed(id, replica[id])'
  BY <1>1 DEF StoreOK, Backed, HasEntry
<1>5. ASSUME NEW w \in Writers
      PROVE  InHand(w)'
  <2>1. CASE request'[w] = request[w]
    BY <1>1, <2>1 DEF ServiceInv, InHand, Backed, HasEntry, At
  <2>2. CASE request'[w] = NoRequest
    BY <2>2, NoRequestOK DEF InHand
  <2> QED
    BY <2>1, <2>2
<1> QED
  BY <1>2, <1>3, <1>4, <1>5 DEF ServiceInv

LEMMA StoresOK ==
  ASSUME ServiceInv
  PROVE  StoreOK(table) /\ StoreOK(replica)
BY DEF ServiceInv, ServiceTypeOK, StoreOK

LEMMA SaveInv ==
  ASSUME ServiceInv, NEW w \in Writers, Save(w)
  PROVE  ServiceInv'
<1>1. RequestOK(request[w]) /\ InHand(w) /\ DOMAIN request = Writers
  BY DEF ServiceInv, ServiceTypeOK
<1>2. /\ request[w].stage = "saving" /\ UNCHANGED <<ledgerVars, minted>>
      /\ table' = [table EXCEPT ![request[w].id] = request[w].match]
      /\ replica' = IF LaggingReads THEN replica ELSE table'
      /\ Goes(w, NoRequest)
  BY DEF Save
<1>3. IsMatch(request[w].match) /\ Backed(request[w].id, request[w].match)
  BY <1>1, <1>2 DEF RequestOK, InHand
<1>4. StoreOK(table')
  BY <1>2, <1>3, StoresOK DEF StoreOK
<1>5. StoreOK(replica')
  BY <1>2, <1>4, StoresOK
<1>6. DOMAIN request' = Writers /\ \A v \in Writers : request'[v] \in {request[v], NoRequest}
  BY <1>1, <1>2 DEF Goes
<1> QED
  BY <1>2, <1>4, <1>5, <1>6, StoreStep

LEMMA ReplicateInv ==
  ASSUME ServiceInv, NEW id \in MatchIds, Replicate(id)
  PROVE  ServiceInv'
<1>1. /\ replica' = [replica EXCEPT ![id] = table[id]]
      /\ UNCHANGED <<ledgerVars, table, minted, request>>
  BY DEF Replicate
<1>2. StoreOK(table') /\ StoreOK(replica')
  BY <1>1, StoresOK DEF StoreOK
<1>3. DOMAIN request' = Writers /\ \A v \in Writers : request'[v] \in {request[v], NoRequest}
  BY <1>1 DEF ServiceInv, ServiceTypeOK
<1> QED
  BY <1>1, <1>2, <1>3, StoreStep

-----------------------------------------------------------------------------
(* Types, and that a completed match is rated *)

LEMMA ServiceStarts ==
  Init => ServiceInv
<1> SUFFICES ASSUME Init PROVE ServiceInv
  OBVIOUS
<1>1. LedgerInv
  BY LedgerInitInv DEF Init
<1>2. \A w \in Writers : request[w] = NoRequest
  BY DEF Init
<1>3. ServiceTypeOK
  BY <1>2, NoRequestOK DEF Init, ServiceTypeOK
<1>4. \A w \in Writers : InHand(w)
  BY <1>2, NoRequestOK DEF InHand
<1>5. \A id \in MatchIds : table[id] = None /\ replica[id] = None
  BY DEF Init
<1> QED
  BY <1>1, <1>3, <1>4, <1>5 DEF ServiceInv

LEMMA ServiceSteps ==
  ASSUME DeltasAreIntegers, ServiceInv, [Next]_vars
  PROVE  ServiceInv'
<1>1. ASSUME NEW w \in Writers, Step(w)
      PROVE  ServiceInv'
  <2>1. CASE \/ ListIds(w) \/ CountOne(w) \/ CountFails(w)
              \/ Admit(w) \/ Refuse(w) \/ RejectBody(w)
    BY <2>1, CreateInv
  <2>2. CASE \E id \in MatchIds, by \in Callers, points \in Points : TakeTurn(w, id, by, points)
    BY <2>2, TakeTurnInv
  <2>3. CASE \E id \in MatchIds, by \in Callers : Pause(w, id, by) \/ Resume(w, id, by)
    BY <2>3, PauseResumeInv
  <2>4. CASE Rate(w)
    BY <2>4, RateInv
  <2>5. CASE RateDone(w)
    BY <2>5, RateDoneInv
  <2>6. CASE RateFails(w) \/ Die(w)
    BY <2>6, RequestEndsInv
  <2>7. CASE Save(w)
    BY <2>7, SaveInv
  <2> QED
    BY <1>1, <2>1, <2>2, <2>3, <2>4, <2>5, <2>6, <2>7 DEF Step
<1>2. CASE \E id \in MatchIds : Replicate(id)
  BY <1>2, ReplicateInv
<1>3. CASE UNCHANGED vars
  <2>1. UNCHANGED <<ledgerVars, table, replica, minted, request>>
    BY <1>3 DEF vars, serviceVars
  <2>2. DOMAIN request' = Writers /\ \A w \in Writers : request'[w] \in {request[w], NoRequest}
    BY <2>1 DEF ServiceInv, ServiceTypeOK
  <2>3. StoreOK(table') /\ StoreOK(replica')
    BY <2>1, StoresOK DEF StoreOK, Backed, HasEntry
  <2> QED
    BY <2>1, <2>2, <2>3, StoreStep
<1> QED
  BY <1>1, <1>2, <1>3 DEF Next

LEMMA ServiceInvariant ==
  ASSUME DeltasAreIntegers
  PROVE  Spec => []ServiceInv
<1>1. ServiceInv /\ [Next]_vars => ServiceInv'
  BY ServiceSteps
<1> QED
  BY <1>1, ServiceStarts, PTL DEF Spec

\* Type correctness of the match API's state: what is stored, and what a request
\* carries between its load and its save, is a started match between one or two
\* different participants, with a score for each and a result once completed.
THEOREM ServiceTypeCorrect ==
  ASSUME DeltasAreIntegers
  PROVE  Spec => []ServiceTypeOK
<1>1. ServiceInv => ServiceTypeOK
  BY DEF ServiceInv
<1> QED
  BY <1>1, ServiceInvariant, PTL

\* A match never reads as completed before each of its participants has the
\* rating entry for it: matchops.take_turn calls record_rating before save, and
\* neither a race, a lagging read nor a crash undoes that.
THEOREM CompletedAreRated ==
  ASSUME DeltasAreIntegers
  PROVE  Spec => []CompletedIsRated
<1>1. ServiceInv => CompletedIsRated
  BY DEF ServiceInv, CompletedIsRated, Backed
<1> QED
  BY <1>1, ServiceInvariant, PTL

-----------------------------------------------------------------------------
(* Replaying a log *)

LEMMA LeastElement ==
  ASSUME NEW S \in SUBSET Nat, S # {}
  PROVE  \E k \in S : \A j \in S : k <= j
<1>1. PICK k \in S : \A j \in S : <<j, k>> \notin OpToRel(<, Nat)
  BY NatLessThanWellFounded, WFMin
<1>2. ASSUME NEW j \in S, j < k PROVE FALSE
  <2>1. <<j, k>> \in Nat \X Nat /\ <<j, k>>[1] < <<j, k>>[2] BY <1>2
  <2>2. <<j, k>> \in {p \in Nat \X Nat : p[1] < p[2]} BY <2>1, Zenon
  <2>. QED BY <1>1, <2>2, Zenon DEF OpToRel
<1>. QED BY <1>2

\* The games that the first N turns lead through.
Games(seats, turns, N, g) ==
  g = [n \in 0..N |-> IF n = 0 THEN InitialState(seats)
                      ELSE ApplyTurn(g[n - 1], turns[n].by, turns[n].points)]

\* The games of one turn more.
LEMMA GamesExtend ==
  ASSUME NEW seats, NEW turns, NEW N \in Nat, NEW g, Games(seats, turns, N, g),
         NEW more, \A n \in 1..N : more[n] = turns[n]
  PROVE  \E h : /\ Games(seats, more, N + 1, h)
                /\ h[N + 1] = ApplyTurn(g[N], more[N + 1].by, more[N + 1].points)
<1>. DEFINE next == ApplyTurn(g[N], more[N + 1].by, more[N + 1].points)
            h == [n \in 0..(N + 1) |-> IF n = N + 1 THEN next ELSE g[n]]
<1>1. \A n \in 0..N : h[n] = g[n] OBVIOUS
<1>2. h[N + 1] = next OBVIOUS
<1>3. ASSUME NEW n \in 0..(N + 1)
      PROVE  h[n] = IF n = 0 THEN InitialState(seats)
                    ELSE ApplyTurn(h[n - 1], more[n].by, more[n].points)
  <2>1. CASE n = N + 1
    <3>1. h[n - 1] = g[N] /\ n # 0 BY <1>1, <2>1
    <3>. QED BY <1>2, <2>1, <3>1
  <2>2. CASE n \in 1..N
    <3>1. h[n - 1] = g[n - 1] /\ h[n] = g[n] /\ more[n] = turns[n] BY <1>1, <2>2
    <3>2. g[n] = ApplyTurn(g[n - 1], turns[n].by, turns[n].points) BY <2>2 DEF Games
    <3>. QED BY <2>2, <3>1, <3>2
  <2>3. CASE n = 0 BY <1>1, <2>3 DEF Games
  <2>. QED BY <2>1, <2>2, <2>3
<1>4. h = [n \in 0..(N + 1) |-> h[n]] OBVIOUS
<1>. HIDE DEF h, next
<1>5. Games(seats, more, N + 1, h) BY <1>3, <1>4 DEF Games
<1>. QED BY <1>2, <1>5 DEF next

LEMMA GamesExist ==
  ASSUME NEW seats, NEW turns, NEW N \in Nat
  PROVE  \E g : Games(seats, turns, N, g)
<1>. DEFINE Without == {n \in Nat : ~ \E g : Games(seats, turns, n, g)}
<1>1. Without \in SUBSET Nat OBVIOUS
<1>2. ASSUME Without # {} PROVE FALSE
  <2>. HIDE DEF Without
  <2>1. PICK n \in Without : \A m \in Without : n <= m BY <1>1, <1>2, LeastElement
  <2>. USE DEF Without
  <2>2. n # 0
    <3>1. Games(seats, turns, 0, [k \in 0..0 |-> InitialState(seats)]) BY DEF Games
    <3>. QED BY <2>1, <3>1
  <2>3. n - 1 \in Nat /\ n - 1 \notin Without BY <2>1, <2>2
  <2>4. PICK g : Games(seats, turns, n - 1, g) BY <2>3
  <2>5. \E h : Games(seats, turns, (n - 1) + 1, h) BY <2>3, <2>4, GamesExtend
  <2>6. (n - 1) + 1 = n BY <2>3
  <2>. QED BY <2>1, <2>5, <2>6
<1>. QED BY <1>2

LEMMA GamesUnique ==
  ASSUME NEW seats, NEW turns, NEW N \in Nat, NEW g, NEW h,
         Games(seats, turns, N, g), Games(seats, turns, N, h)
  PROVE  g[N] = h[N]
<1>. DEFINE Apart == {n \in 0..N : g[n] # h[n]}
<1>1. Apart \in SUBSET Nat OBVIOUS
<1>2. ASSUME Apart # {} PROVE FALSE
  <2>. HIDE DEF Apart
  <2>1. PICK n \in Apart : \A m \in Apart : n <= m BY <1>1, <1>2, LeastElement
  <2>. USE DEF Apart
  <2>2. n # 0 BY <2>1 DEF Games
  <2>3. n - 1 \in 0..N /\ g[n - 1] = h[n - 1] BY <2>1, <2>2
  <2>4. /\ g[n] = ApplyTurn(g[n - 1], turns[n].by, turns[n].points)
        /\ h[n] = ApplyTurn(h[n - 1], turns[n].by, turns[n].points)
    BY <2>1, <2>2 DEF Games
  <2>. QED BY <2>1, <2>3, <2>4
<1>. QED BY <1>2

\* Replay is the last of the games.
LEMMA ReplayIsLast ==
  ASSUME NEW seats, NEW turns, Len(turns) \in Nat, NEW g, Games(seats, turns, Len(turns), g)
  PROVE  Replay(seats, turns) = g[Len(turns)]
<1>. DEFINE r == CHOOSE f : Games(seats, turns, Len(turns), f)
<1>1. Games(seats, turns, Len(turns), r) OBVIOUS
<1>2. Replay(seats, turns) = r[Len(turns)] BY Zenon DEF Replay, Games
<1>. QED BY <1>1, <1>2, GamesUnique

LEMMA ReplayStart == ASSUME NEW seats PROVE Replay(seats, << >>) = InitialState(seats)
<1>1. Len(<< >>) = 0 OBVIOUS
<1>2. PICK g : Games(seats, << >>, 0, g) BY GamesExist
<1>3. g[0] = InitialState(seats) BY <1>2 DEF Games
<1>. QED BY <1>1, <1>2, <1>3, ReplayIsLast

LEMMA ReplayAppend ==
  ASSUME NEW seats, NEW T, NEW turns \in Seq(T), NEW turn \in T
  PROVE  Replay(seats, Append(turns, turn)) = ApplyTurn(Replay(seats, turns), turn.by, turn.points)
<1>. DEFINE N == Len(turns)
            more == Append(turns, turn)
<1>1. N \in Nat /\ Len(more) = N + 1 /\ more[N + 1] = turn /\ \A n \in 1..N : more[n] = turns[n]
  OBVIOUS
<1>. HIDE DEF more
<1>2. PICK g : Games(seats, turns, N, g) BY <1>1, GamesExist
<1>3. PICK h : /\ Games(seats, more, N + 1, h)
               /\ h[N + 1] = ApplyTurn(g[N], more[N + 1].by, more[N + 1].points)
  BY <1>1, <1>2, GamesExtend
<1>4. Replay(seats, turns) = g[N] BY <1>1, <1>2, ReplayIsLast
<1>5. Replay(seats, more) = h[N + 1] BY <1>1, <1>3, ReplayIsLast
<1>. QED BY <1>1, <1>3, <1>4, <1>5 DEF more

-----------------------------------------------------------------------------
(* What the operations of match.py do to the replay *)

TurnRecords == [number : Nat, by : Callers, points : Points]

LEMMA FieldsOfMatch ==
  ASSUME NEW m, IsMatch(m)
  PROVE  /\ m.seats \in Seatings /\ m.turns \in Seq(TurnRecords)
         /\ m.status \in {"active", "paused", "completed"}
         /\ m = [k \in {"seats", "status", "game", "turns", "result"} |-> m[k]]
BY DEF IsMatch, MatchOf, TurnRecords

LEMMA StartedReplays ==
  ASSUME NEW seats \in Seatings PROVE Replays(Started(Created(seats)))
<1>. DEFINE m == Started(Created(seats))
<1>1. /\ m.seats = seats /\ m.status = "active" /\ m.turns = << >> /\ m.result = None
      /\ m.game = InitialState(seats)
  BY DEF Started, Created
<1>2. ~IsOver(InitialState(seats)) BY EngineAssumption DEF InitialState, IsOver
<1>. HIDE DEF m
<1>3. Replays(m) BY <1>1, <1>2, ReplayStart DEF Replays
<1>. QED BY <1>3 DEF m

LEMMA StatusChangeReplays ==
  ASSUME NEW m, IsMatch(m), Replays(m), m.status \in {"active", "paused"},
         NEW status \in {"active", "paused"}
  PROVE  Replays([m EXCEPT !.status = status])
<1>. DEFINE after == [m EXCEPT !.status = status]
<1>1. /\ after.seats = m.seats /\ after.status = status /\ after.turns = m.turns
      /\ after.result = m.result /\ after.game = m.game
  BY FieldsOfMatch
<1>. HIDE DEF after
<1>2. Replays(after) BY <1>1 DEF Replays
<1>. QED BY <1>2 DEF after

\* The log before turn n, of a log with one turn more.
LEMMA LogPrefixesStay ==
  ASSUME NEW T, NEW turns \in Seq(T), NEW turn \in T
  PROVE  LET more == Append(turns, turn) IN
         /\ \A n \in 1..Len(turns) : SubSeq(more, 1, n - 1) = SubSeq(turns, 1, n - 1)
         /\ SubSeq(more, 1, (Len(turns) + 1) - 1) = turns
OBVIOUS

\* Played by whose turn it is, before the game was over.
PlayedInTurn(seats, turns) ==
  \A n \in DOMAIN turns :
    /\ turns[n].number = n
    /\ turns[n].by = OnTurn(Replay(seats, SubSeq(turns, 1, n - 1)))
    /\ ~IsOver(Replay(seats, SubSeq(turns, 1, n - 1)))

LEMMA PlayedInTurnExtends ==
  ASSUME NEW seats, NEW turns \in Seq(TurnRecords), NEW turn \in TurnRecords,
         PlayedInTurn(seats, turns), turn.number = Len(turns) + 1,
         turn.by = OnTurn(Replay(seats, turns)), ~IsOver(Replay(seats, turns))
  PROVE  PlayedInTurn(seats, Append(turns, turn))
<1>. DEFINE more == Append(turns, turn)
            N == Len(turns)
<1>1. /\ N \in Nat /\ DOMAIN more = 1..(N + 1) /\ DOMAIN turns = 1..N
      /\ more[N + 1] = turn /\ \A n \in 1..N : more[n] = turns[n]
  OBVIOUS
<1>2. /\ \A n \in 1..N : SubSeq(more, 1, n - 1) = SubSeq(turns, 1, n - 1)
      /\ SubSeq(more, 1, (N + 1) - 1) = turns
  BY LogPrefixesStay
<1>. HIDE DEF more, N
<1>3. ASSUME NEW n \in DOMAIN more
      PROVE  /\ more[n].number = n
             /\ more[n].by = OnTurn(Replay(seats, SubSeq(more, 1, n - 1)))
             /\ ~IsOver(Replay(seats, SubSeq(more, 1, n - 1)))
  <2>1. CASE n \in 1..N BY <1>1, <1>2, <2>1 DEF PlayedInTurn
  <2>2. CASE n = N + 1 BY <1>1, <1>2, <2>2 DEF N
  <2>. QED BY <1>1, <2>1, <2>2
<1>. QED BY <1>3 DEF PlayedInTurn, more

LEMMA AfterTurnReplays ==
  ASSUME NEW m, IsMatch(m), Replays(m), NEW by \in Seated(m.seats), NEW points \in Points,
         CanTakeTurn(m, by, points)
  PROVE  Replays(AfterTurn(m, by, points))
<1>. DEFINE turn == [number |-> Len(m.turns) + 1, by |-> by, points |-> points]
            more == Append(m.turns, turn)
            game == ApplyTurn(m.game, by, points)
            turned == Turned(m, by, points)
            completed == Completed(turned)
<1>1. /\ m.turns \in Seq(TurnRecords) /\ by \in Callers /\ turn \in TurnRecords
      /\ m.status = "active"
  <2>1. m.turns \in Seq(TurnRecords) /\ m.seats \in Seatings BY FieldsOfMatch
  <2>2. by \in Callers BY <2>1, SeatsOK
  <2>3. Len(m.turns) + 1 \in Nat BY <2>1
  <2>4. turn \in TurnRecords
    <3>. DEFINE n == Len(m.turns) + 1
    <3>. HIDE DEF n
    <3>. QED BY <2>2, <2>3 DEF TurnRecords, n
  <2>5. m.status = "active" BY DEF CanTakeTurn
  <2>. QED BY <2>1, <2>2, <2>4, <2>5
<1>2. /\ turned.seats = m.seats /\ turned.status = "active" /\ turned.turns = more
      /\ turned.result = m.result /\ turned.game = game
      /\ turned = [k \in {"seats", "status", "game", "turns", "result"} |-> turned[k]]
  <2>1. m = [k \in {"seats", "status", "game", "turns", "result"} |-> m[k]] BY FieldsOfMatch
  <2>2. turned = [m EXCEPT !.game = game, !.turns = more] BY <2>1 DEF Turned
  <2>. HIDE DEF turned, game, more
  <2>. QED BY <1>1, <2>1, <2>2
<1>3. /\ turn.number = Len(m.turns) + 1 /\ turn.by = by /\ turn.points = points OBVIOUS
<1>4. /\ m.game = Replay(m.seats, m.turns) /\ PlayedInTurn(m.seats, m.turns)
      /\ ~IsOver(m.game) /\ m.result = None
  BY <1>1 DEF Replays, PlayedInTurn
<1>5. by = OnTurn(m.game) BY DEF CanTakeTurn, LegalTurn
<1>. HIDE DEF turn
<1>6. game = Replay(m.seats, more) BY <1>1, <1>3, <1>4, ReplayAppend
<1>7. PlayedInTurn(m.seats, more) BY <1>1, <1>3, <1>4, <1>5, PlayedInTurnExtends
<1>8. /\ completed.seats = m.seats /\ completed.status = "completed"
      /\ completed.turns = more /\ completed.game = game
      /\ completed.result = [winner |-> SoleLeader(game.scores), scores |-> game.scores]
  <2>. HIDE DEF turned
  <2>. QED BY <1>2 DEF Completed
<1>. HIDE DEF turned, completed, more, game
<1>9. ~IsOver(game) => Replays(turned)
  BY <1>2, <1>4, <1>6, <1>7 DEF Replays, PlayedInTurn
<1>10. IsOver(game) => Replays(completed)
  BY <1>6, <1>7, <1>8 DEF Replays, PlayedInTurn
<1>. QED BY <1>2, <1>9, <1>10 DEF AfterTurn, turned, completed

-----------------------------------------------------------------------------
(* Every copy replays *)

\* w has a copy it is going to store.
Carrying(w) == request[w].stage \in {"rating", "saving"}

CopiesReplay ==
  /\ \A id \in MatchIds :
       /\ table[id] # None => Replays(table[id])
       /\ replica[id] # None => Replays(replica[id])
  /\ \A w \in Writers : Carrying(w) => Replays(request[w].match)

LEMMA LoadableReplays ==
  ASSUME ServiceInv, CopiesReplay, NEW id \in MatchIds, NEW m \in Loadable(id)
  PROVE  IsMatch(m) /\ Replays(m)
BY DEF ServiceInv, ServiceTypeOK, CopiesReplay, Loadable

\* A request that goes on as r, which replays if it is to be stored.
LEMMA RequestReplays ==
  ASSUME ServiceInv, CopiesReplay, NEW w \in Writers, NEW r, Goes(w, r),
         r.stage \in {"rating", "saving"} => Replays(r.match), UNCHANGED <<table, replica>>
  PROVE  CopiesReplay'
<1>1. \A v \in Writers : request'[v] = IF v = w THEN r ELSE request[v]
  BY DEF ServiceInv, ServiceTypeOK, Goes
<1>. QED BY <1>1 DEF CopiesReplay, Carrying

LEMMA CarriesReplays ==
  ASSUME ServiceInv, CopiesReplay, NEW w \in Writers, NEW stage, NEW id, NEW m, Replays(m),
         Carries(w, stage, id, m), UNCHANGED <<table, replica>>
  PROVE  CopiesReplay'
<1>. DEFINE r == [NoRequest EXCEPT !.stage = stage, !.id = id, !.match = m]
<1>1. r.match = m BY DEF NoRequest
<1>2. Goes(w, r) BY DEF Carries
<1>. HIDE DEF r
<1>. QED BY <1>1, <1>2, RequestReplays

LEMMA CopiesReplayStep ==
  ASSUME ServiceInv, CopiesReplay, [Next]_vars
  PROVE  CopiesReplay'
<1>1. ASSUME NEW w \in Writers, ListIds(w) \/ CountOne(w) PROVE CopiesReplay'
  <2>1. \E r : Goes(w, r) /\ r.stage = "counting"
    <3>1. CASE ListIds(w)
      <4>1. PICK ids : Goes(w, [NoRequest EXCEPT !.stage = "counting", !.unread = ids,
                                                 !.listed = Cardinality(ids)])
        BY <3>1 DEF ListIds
      <4>. DEFINE r == [NoRequest EXCEPT !.stage = "counting", !.unread = ids,
                                         !.listed = Cardinality(ids)]
      <4>2. r.stage = "counting" BY DEF NoRequest
      <4>3. Goes(w, r) BY <4>1
      <4>. HIDE DEF r
      <4>. QED BY <4>2, <4>3
    <3>2. CASE CountOne(w)
      <4>1. request[w].stage = "counting" /\ DOMAIN request[w] = DOMAIN NoRequest
        BY <3>2 DEF CountOne, ServiceInv, ServiceTypeOK, RequestOK
      <4>2. PICK id, m :
              Goes(w, [request[w] EXCEPT !.unread = @ \ {id},
                                         !.concurrent = @ + (IF Counted(m) THEN 1 ELSE 0)])
        BY <3>2 DEF CountOne
      <4>. DEFINE r == [request[w] EXCEPT !.unread = @ \ {id},
                                          !.concurrent = @ + (IF Counted(m) THEN 1 ELSE 0)]
      <4>3. r.stage = "counting" BY <4>1 DEF NoRequest
      <4>4. Goes(w, r) BY <4>2
      <4>. HIDE DEF r
      <4>. QED BY <4>3, <4>4
    <3>. QED BY <1>1, <3>1, <3>2
  <2>. QED BY <1>1, <2>1, RequestReplays DEF ListIds, CountOne
<1>2. ASSUME NEW w \in Writers, Goes(w, NoRequest), UNCHANGED <<table, replica>>
      PROVE  CopiesReplay'
  BY <1>2, NoRequestOK, RequestReplays
<1>3. ASSUME NEW w \in Writers, Admit(w) PROVE CopiesReplay'
  <2>1. PICK id \in MatchIds, seats \in Seatings :
          Carries(w, "saving", id, Started(Created(seats)))
    BY <1>3 DEF Admit, Carries
  <2>. QED BY <1>3, <2>1, StartedReplays, CarriesReplays DEF Admit
<1>4. ASSUME NEW w \in Writers, NEW id \in MatchIds, NEW by \in Callers, NEW points \in Points,
             TakeTurn(w, id, by, points)
      PROVE  CopiesReplay'
  <2>1. PICK m \in Loadable(id), stage \in {"rating", "saving"} :
          /\ by \in Seated(m.seats) /\ CanTakeTurn(m, by, points)
          /\ Carries(w, stage, id, AfterTurn(m, by, points))
    BY <1>4 DEF TakeTurn
  <2>2. Replays(AfterTurn(m, by, points)) BY <2>1, LoadableReplays, AfterTurnReplays
  <2>. QED BY <1>4, <2>1, <2>2, CarriesReplays DEF TakeTurn
<1>5. ASSUME NEW w \in Writers, NEW id \in MatchIds, NEW by \in Callers,
             Pause(w, id, by) \/ Resume(w, id, by)
      PROVE  CopiesReplay'
  <2>1. PICK m \in Loadable(id), status \in {"active", "paused"} :
          /\ m.status \in {"active", "paused"}
          /\ Carries(w, "saving", id, [m EXCEPT !.status = status])
    BY <1>5 DEF Pause, Resume, CanPause, CanResume, Paused, Resumed
  <2>2. Replays([m EXCEPT !.status = status]) BY <2>1, LoadableReplays, StatusChangeReplays
  <2>. QED BY <1>5, <2>1, <2>2, CarriesReplays DEF Pause, Resume
<1>6. ASSUME NEW w \in Writers, RateDone(w) PROVE CopiesReplay'
  <2>. DEFINE r == [request[w] EXCEPT !.stage = "saving"]
  <2>1. DOMAIN request[w] = DOMAIN NoRequest BY DEF ServiceInv, ServiceTypeOK, RequestOK
  <2>2. r.match = request[w].match BY <2>1 DEF NoRequest
  <2>3. Goes(w, r) /\ Carrying(w) /\ UNCHANGED <<table, replica>> BY <1>6 DEF RateDone, Carrying
  <2>4. Replays(r.match) BY <2>2, <2>3 DEF CopiesReplay
  <2>. HIDE DEF r
  <2>. QED BY <2>3, <2>4, RequestReplays
<1>7. ASSUME NEW w \in Writers, Save(w) PROVE CopiesReplay'
  <2>1. /\ request[w].id \in MatchIds /\ Replays(request[w].match)
        /\ table' = [table EXCEPT ![request[w].id] = request[w].match]
        /\ replica' = IF LaggingReads THEN replica ELSE table'
        /\ Goes(w, NoRequest) /\ DOMAIN table = MatchIds /\ DOMAIN request = Writers
    BY <1>7 DEF Save, ServiceInv, ServiceTypeOK, RequestOK, CopiesReplay, Carrying
  <2>2. \A id \in MatchIds : table'[id] # None => Replays(table'[id])
    BY <2>1 DEF CopiesReplay
  <2>3. \A id \in MatchIds : replica'[id] # None => Replays(replica'[id])
    BY <2>1, <2>2 DEF CopiesReplay
  <2>4. \A v \in Writers : request'[v] = IF v = w THEN NoRequest ELSE request[v]
    BY <2>1 DEF Goes
  <2>. QED BY <2>2, <2>3, <2>4, NoRequestOK DEF CopiesReplay, Carrying
<1>8. ASSUME NEW id \in MatchIds, Replicate(id) PROVE CopiesReplay'
  BY <1>8 DEF Replicate, CopiesReplay, Carrying, ServiceInv, ServiceTypeOK
<1>9. ASSUME UNCHANGED <<table, replica, request>> PROVE CopiesReplay'
  BY <1>9 DEF CopiesReplay, Carrying
<1>10. ASSUME NEW w \in Writers, Step(w) PROVE CopiesReplay'
  <2>1. CASE CountFails(w) \/ Refuse(w) \/ RejectBody(w) \/ RateFails(w) \/ Die(w)
    BY <1>2, <2>1 DEF CountFails, Refuse, RejectBody, RateFails, Die
  <2>2. CASE Rate(w) BY <1>9, <2>2 DEF Rate, serviceVars
  <2>. QED BY <1>1, <1>3, <1>4, <1>5, <1>6, <1>7, <1>10, <2>1, <2>2 DEF Step
<1>11. CASE UNCHANGED vars BY <1>9, <1>11 DEF vars, serviceVars
<1>. QED BY <1>8, <1>10, <1>11 DEF Next

\* No race, lagging read or crash can tear a stored match: the turn log of match.py
\* replays to the stored state and result, each turn played by whose turn it was and
\* none after the end, although concurrent requests may overwrite each other's turns.
THEOREM StoredReplay ==
  ASSUME DeltasAreIntegers
  PROVE  Spec => []StoredMatchesReplay
<1>1. Init => CopiesReplay
  BY NoRequestOK DEF Init, CopiesReplay, Carrying
<1>2. ServiceInv /\ CopiesReplay /\ [Next]_vars => CopiesReplay'
  BY CopiesReplayStep
<1>3. CopiesReplay => StoredMatchesReplay
  BY DEF CopiesReplay, StoredMatchesReplay
<1>. QED BY <1>1, <1>2, <1>3, ServiceInvariant, PTL DEF Spec

-----------------------------------------------------------------------------
(* The ledger under the match API *)

\* A step of the service is one of the ledger's, or leaves the ledger alone.
LedgerServed ==
  \/ \E w \in Writers :
       \/ LedgerStep(w) \/ EndRecord(w) \/ Die(w)
       \/ \E m \in MatchIds, outcome \in RatedOutcome : BeginRecord(w, m, outcome)
  \/ UNCHANGED ledgerVars

LEMMA ServiceServesLedger ==
  ASSUME ServiceInv, [Next]_vars
  PROVE  LedgerServed
<1>1. ASSUME NEW w \in Writers, NEW id \in MatchIds, NEW by \in Callers, NEW points \in Points,
             TakeTurn(w, id, by, points)
      PROVE  LedgerServed
  <2>1. PICK match \in Loadable(id) :
          /\ by \in Seated(match.seats)
          /\ LET after == AfterTurn(match, by, points) IN
               IF Rated(after) THEN BeginRecord(w, id, OutcomeOf(after)) ELSE UNCHANGED ledgerVars
    BY <1>1 DEF TakeTurn
  <2> DEFINE after == AfterTurn(match, by, points)
  <2>2. IsMatch(after)
    BY <2>1, LoadedOK, AfterTurnOK
  <2> HIDE DEF after
  <2>3. Rated(after) => OutcomeOf(after) \in RatedOutcome
    BY <2>2, OutcomeOK DEF Rated
  <2> QED
    BY <2>1, <2>3 DEF LedgerServed, after
<1>2. ASSUME NEW w \in Writers, Step(w) PROVE LedgerServed
  <2>1. CASE Rate(w)
    BY <2>1 DEF Rate, LedgerStep, LedgerServed
  <2>2. CASE RateDone(w) \/ RateFails(w) \/ Die(w)
    BY <2>2 DEF RateDone, RateFails, LedgerStep, LedgerServed
  <2>3. CASE UNCHANGED ledgerVars
    BY <2>3 DEF LedgerServed
  <2> QED
    BY <1>1, <1>2, <2>1, <2>2, <2>3
       DEF Step, ListIds, CountOne, CountFails, Admit, Refuse, RejectBody, Pause, Resume, Save
<1>3. CASE \E id \in MatchIds : Replicate(id)
  BY <1>3 DEF Replicate, LedgerServed
<1>4. CASE UNCHANGED vars
  BY <1>4 DEF vars, LedgerServed
<1> QED
  BY <1>2, <1>3, <1>4 DEF Next

LEMMA ServedKeepsContract ==
  ASSUME DeltasAreIntegers, LedgerInv, LedgerServed
  PROVE  [Contract!Next]_entries
<1>1. ASSUME NEW w \in Writers, PutEntry(w) PROVE Contract!Next
  BY <1>1, PutEntryRecords
<1>2. CASE UNCHANGED entries
  BY <1>2
<1> QED
  BY <1>1, <1>2 DEF LedgerServed, LedgerStep, ReadPrior, EntryRefused, TakeOrder, PutMarker,
                    EndRecord, Die, Abandon, BeginRecord, ledgerVars

LEMMA ServedRegistration ==
  ASSUME DeltasAreIntegers, LedgerInv, RegistrationInv, LedgerServed
  PROVE  RegistrationInv'
<1>1. ASSUME NEW w \in Writers, LedgerStep(w) PROVE RegistrationInv'
  <2>1. LedgerNext
    BY <1>1 DEF LedgerNext
  <2> QED
    BY <2>1, RegistrationNextInv
<1>2. ASSUME NEW w \in Writers, Abandon(w) PROVE RegistrationInv'
  BY <1>2, RegistersNothing, IdleWriterOK DEF Abandon
<1>3. ASSUME NEW w \in Writers, NEW m \in MatchIds, NEW outcome \in RatedOutcome,
             BeginRecord(w, m, outcome)
      PROVE  RegistrationInv'
  <2> DEFINE r == [IdleWriter EXCEPT !.stage = "reading", !.match = m, !.outcome = outcome,
                                     !.todo = FirstSeen(outcome)]
  <2>1. r.stage = "reading"
    BY IdleWriterOK DEF Writer
  <2>2. writer' = [writer EXCEPT ![w] = r] /\ UNCHANGED <<entries, markers>>
    BY <1>3 DEF BeginRecord
  <2> HIDE DEF r
  <2>3. r.stage \notin {"counting", "marking"}
    BY <2>1
  <2> QED
    BY <2>2, <2>3, RegistersNothing
<1>4. CASE UNCHANGED ledgerVars
  BY <1>4, RegistrationNextInv
<1> QED
  BY <1>1, <1>2, <1>3, <1>4 DEF LedgerServed, EndRecord, Die

LEMMA RegistrationStarts ==
  Init => RegistrationInv
<1> SUFFICES ASSUME Init PROVE RegistrationInv
  OBVIOUS
<1>1. Registering = {} /\ Marking = {} /\ Listed = {}
  BY IdleWriterOK DEF Init, LedgerInit, Registering, Marking, Listed
<1> QED
  BY <1>1 DEF Init, LedgerInit, RegistrationInv, OrdersFresh, OneMarkerPerIdentity

\* Under the match API too, however the turns that end matches race and whatever
\* dies, every rating history only ever grows by one chained entry.
THEOREM ServiceKeepsLedgerContract ==
  ASSUME DeltasAreIntegers
  PROVE  Spec => KeepsLedgerContract
<1>1. Init => Contract!Init
  BY DEF Init, LedgerInit, Contract!Init
<1>2. ServiceInv /\ [Next]_vars => [Contract!Next]_entries
  BY ServiceServesLedger, ServedKeepsContract DEF ServiceInv
<1> QED
  BY <1>1, <1>2, ServiceInvariant, PTL DEF Spec, KeepsLedgerContract, Contract!Spec

\* And every identity is registered at most once, in an order of its own.
THEOREM ServiceRegistersOnce ==
  ASSUME DeltasAreIntegers
  PROVE  Spec => [](OrdersFresh /\ OneMarkerPerIdentity)
<1>1. ServiceInv /\ RegistrationInv /\ [Next]_vars => RegistrationInv'
  BY ServiceServesLedger, ServedRegistration DEF ServiceInv
<1>2. RegistrationInv => OrdersFresh /\ OneMarkerPerIdentity
  BY DEF RegistrationInv
<1> QED
  BY <1>1, <1>2, RegistrationStarts, ServiceInvariant, PTL DEF Spec

-----------------------------------------------------------------------------
(* The list of identities until an invocation dies *)

\* Every identity with an entry is listed, or about to be.
Enlisted ==
  \A i \in Identities : entries[i] # << >> =>
    i \in Listed \/ \E w \in Registering : Registered(w) = i

ListedInv == ~died => Enlisted

\* A step of a writer that is not in the middle of registering an identity.
LEMMA EnlistsNobody ==
  ASSUME LedgerInv, Enlisted, NEW w \in Writers, w \notin Registering, NEW r,
         writer' = [writer EXCEPT ![w] = r], UNCHANGED <<entries, markers>>
  PROVE  Enlisted'
<1>1. \A v \in Registering : writer'[v] = writer[v]
  BY DEF LedgerInv, LedgerTypeOK, Registering
<1>2. Listed' = Listed
  BY DEF Listed
<1>3. \A v \in Registering : v \in Registering' /\ Registered(v)' = Registered(v)
  BY <1>1 DEF Registering, Registered, At
<1> QED
  BY <1>2, <1>3 DEF Enlisted

LEMMA PutEntryEnlists ==
  ASSUME DeltasAreIntegers, LedgerInv, Enlisted, NEW w \in Writers, PutEntry(w)
  PROVE  Enlisted'
<1>1. PICK k \in writer[w].todo :
        LET i == At(w, k)
            n == Len(entries[i]) IN
        /\ i \in Identities
        /\ entries' = [entries EXCEPT ![i] = WithItem(@, n + 1, NewEntry(w, i))]
        /\ writer' = [writer EXCEPT
             ![w].todo = writer[w].todo \ {k}, ![w].at = k,
             ![w].stage = IF n = 0 THEN "counting"
                          ELSE AfterPutting(writer[w].todo \ {k})]
  BY PutAppends
<1> DEFINE i == At(w, k)
<1>2. entries \in [Identities -> Seq(Entry)] /\ writer \in [Writers -> Writer]
  BY DEF LedgerInv, LedgerTypeOK
<1>3. /\ writer'[w].at = k /\ writer'[w].outcome = writer[w].outcome
      /\ writer'[w].stage = IF Len(entries[i]) = 0 THEN "counting"
                            ELSE AfterPutting(writer[w].todo \ {k})
  BY <1>1, <1>2 DEF Writer
<1>4. w \notin Registering /\ Listed' = Listed
  BY DEF PutEntry, Registering, Listed
<1>5. \A v \in Registering : v \in Registering' /\ Registered(v)' = Registered(v)
  BY <1>1, <1>2, <1>4 DEF Registering, Registered, At
<1>6. Registered(w)' = i
  BY <1>3 DEF Registered, At
<1>7. CASE entries[i] = << >>
  <2>1. Len(entries[i]) = 0
    BY <1>7
  <2>2. w \in Registering'
    BY <1>3, <2>1 DEF Registering
  <2> HIDE DEF i
  <2>3. \A j \in Identities : j # i => entries'[j] = entries[j]
    BY <1>1, <1>2 DEF i
  <2> QED
    BY <1>4, <1>5, <1>6, <2>2, <2>3 DEF Enlisted
<1>8. CASE entries[i] # << >>
  <2> HIDE DEF i
  <2>1. \A j \in Identities : j # i => entries'[j] = entries[j]
    BY <1>1, <1>2 DEF i
  <2> QED
    BY <1>4, <1>5, <1>8, <2>1 DEF Enlisted
<1> QED
  BY <1>7, <1>8

LEMMA RegistrationEnlists ==
  ASSUME LedgerInv, Enlisted, NEW w \in Writers, TakeOrder(w) \/ PutMarker(w)
  PROVE  Enlisted'
<1>1. writer \in [Writers -> Writer]
  BY DEF LedgerInv, LedgerTypeOK
<1>2. \A v \in Writers : v # w => writer'[v] = writer[v]
  BY <1>1 DEF TakeOrder, PutMarker
<1>3. writer'[w].at = writer[w].at /\ writer'[w].outcome = writer[w].outcome
  BY <1>1 DEF TakeOrder, PutMarker, Writer
<1>4. \A v \in Writers : Registered(v)' = Registered(v)
  BY <1>2, <1>3 DEF Registered, At
<1>5. CASE TakeOrder(w)
  <2>1. writer'[w].stage = "marking"
    BY <1>1, <1>5 DEF TakeOrder, Writer
  <2>2. Registering \subseteq Registering' /\ Listed' = Listed /\ UNCHANGED entries
    BY <1>2, <1>5, <2>1 DEF Registering, TakeOrder, Listed
  <2> QED
    BY <1>4, <2>2 DEF Enlisted, Registering
<1>6. CASE PutMarker(w)
  <2>1. Registering \ {w} \subseteq Registering'
    BY <1>2 DEF Registering
  <2>2. UNCHANGED entries /\ Listed' = Listed \cup {Registered(w)}
    <3>1. markers' = WithItem(markers, writer[w].order, Registered(w))
          /\ writer[w].order \notin DOMAIN markers
      BY <1>6 DEF PutMarker, Registered
    <3> QED
      BY <1>6, <3>1 DEF PutMarker, Listed, WithItem
  <2> QED
    BY <1>4, <2>1, <2>2 DEF Enlisted, Registering
<1> QED
  BY <1>5, <1>6

LEMMA ListedStep ==
  ASSUME DeltasAreIntegers, ServiceInv, ListedInv, [WatchedNext]_<<vars, died>>
  PROVE  ListedInv'
<1> SUFFICES ASSUME ~died' PROVE Enlisted'
  BY DEF ListedInv
<1>1. ~died /\ Enlisted /\ [Next]_vars /\ ~\E w \in Writers : Die(w)
  <2>1. CASE WatchedNext
    BY <2>1 DEF WatchedNext, ListedInv
  <2>2. CASE UNCHANGED <<vars, died>>
    <3>1. ~\E w \in Writers : Die(w)
      BY <2>2, NoRequestOK DEF vars, serviceVars, Die, Idle, Goes, ServiceInv, ServiceTypeOK
    <3> QED
      BY <2>2, <3>1 DEF ListedInv
  <2> QED
    BY <2>1, <2>2
<1>2. LedgerInv
  BY DEF ServiceInv
<1>3. CASE \E w \in Writers : LedgerStep(w)
  <2>1. PICK w \in Writers : LedgerStep(w)
    BY <1>3
  <2>2. CASE ReadPrior(w)
    <3>1. PICK priors, todo, stage :
            /\ writer' = [writer EXCEPT ![w].priors = priors, ![w].todo = todo,
                                        ![w].stage = stage]
            /\ stage \in {"reading", "putting"}
            /\ stage = "putting" => todo = FirstSeen(writer[w].outcome)
      BY <1>2, <2>2, ReadPriorMoves
    <3> DEFINE r == [writer[w] EXCEPT !.priors = priors, !.todo = todo, !.stage = stage]
    <3>2. writer' = [writer EXCEPT ![w] = r] /\ UNCHANGED <<entries, markers>>
          /\ w \notin Registering
      BY <1>2, <2>2, <3>1 DEF ReadPrior, LedgerInv, LedgerTypeOK, Registering
    <3> HIDE DEF r
    <3> QED
      BY <1>1, <1>2, <3>2, EnlistsNobody
  <2>3. CASE EntryRefused(w)
    BY <1>1, <1>2, <2>3, EnlistsNobody DEF EntryRefused, Abandon, Registering
  <2> QED
    BY <1>1, <1>2, <2>1, <2>2, <2>3, PutEntryEnlists, RegistrationEnlists DEF LedgerStep
<1>4. CASE \E w \in Writers : EndRecord(w)
  BY <1>1, <1>2, <1>4, EnlistsNobody DEF EndRecord, Abandon, Registering
<1>5. CASE \E w \in Writers, m \in MatchIds, outcome \in RatedOutcome : BeginRecord(w, m, outcome)
  <2>1. PICK w \in Writers, m \in MatchIds, outcome \in RatedOutcome : BeginRecord(w, m, outcome)
    BY <1>5
  <2> DEFINE r == [IdleWriter EXCEPT !.stage = "reading", !.match = m, !.outcome = outcome,
                                     !.todo = FirstSeen(outcome)]
  <2>2. writer' = [writer EXCEPT ![w] = r] /\ UNCHANGED <<entries, markers>>
        /\ w \notin Registering
    BY <2>1 DEF BeginRecord, Registering
  <2> HIDE DEF r
  <2> QED
    BY <1>1, <1>2, <2>2, EnlistsNobody
<1>6. CASE UNCHANGED ledgerVars
  BY <1>1, <1>6 DEF ledgerVars, Enlisted, Listed, Registering, Registered, At
<1> QED
  BY <1>1, <1>3, <1>4, <1>5, <1>6, ServiceServesLedger DEF LedgerServed

\* However the writers race and whatever their reads miss, until one dies every
\* identity with a recorded match is listed whenever no writer is at work.
THEOREM ListedWhileAlive ==
  ASSUME DeltasAreIntegers
  PROVE  WatchedSpec => []ListedUntilDeath
<1>1. WatchedInit => Init /\ ListedInv
  BY DEF WatchedInit, Init, LedgerInit, ListedInv, Enlisted
<1>2. [WatchedNext]_<<vars, died>> => [Next]_vars
  BY DEF WatchedNext
<1>3. ServiceInv /\ ListedInv /\ [WatchedNext]_<<vars, died>> => ListedInv'
  BY ListedStep
<1>4. ServiceInv /\ RegistrationInv /\ [Next]_vars => RegistrationInv'
  BY ServiceServesLedger, ServedRegistration DEF ServiceInv
<1>5. ServiceInv /\ RegistrationInv /\ ListedInv => ListedUntilDeath
  <2> SUFFICES ASSUME ServiceInv, RegistrationInv, ~died, Enlisted, Quiescent
               PROVE  Listed = {i \in Identities : entries[i] # << >>}
    BY DEF ListedInv, ListedUntilDeath, ListedWhenQuiet
  <2>1. Registering = {}
    BY DEF Quiescent, Registering
  <2>2. Listed \subseteq Identities
    BY DEF ServiceInv, LedgerInv, LedgerTypeOK, Listed
  <2> QED
    BY <2>1, <2>2 DEF Enlisted, RegistrationInv
<1>6. WatchedSpec => Spec
  BY <1>1, <1>2, PTL DEF WatchedSpec, Spec
<1> QED
  BY <1>1, <1>3, <1>4, <1>5, <1>6, RegistrationStarts, ServiceInvariant, PTL
     DEF WatchedSpec, Spec

-----------------------------------------------------------------------------
(* Requests one at a time *)

\* One invocation serves every request, and reads see the last write.
OneAtATime == ~LaggingReads /\ \E w : Writers = {w}

Stored == {id \in MatchIds : table[id] # None}

\* The copy m of match id is what one operation of match.py makes of what is
\* stored: of nothing, while there is room for another match, or of the match.
NewMatch(id, m) ==
  /\ table[id] = None
  /\ \E seats \in Seatings : m = Started(Created(seats))
  /\ Cardinality(Open) < MaxConcurrent /\ Cardinality(Stored) < MaxStored

NextMatch(id, m) ==
  /\ table[id] # None
  /\ \/ \E by \in Callers, points \in Points :
          CanTakeTurn(table[id], by, points) /\ m = AfterTurn(table[id], by, points)
     \/ CanPause(table[id]) /\ m = Paused(table[id])
     \/ CanResume(table[id]) /\ m = Resumed(table[id])

\* What the one request knows of the table: the counts of its guard, then the
\* match it is about to save.
Informed(w) ==
  /\ request[w].stage = "counting" =>
       /\ request[w].unread \subseteq Stored
       /\ request[w].listed = Cardinality(Stored)
       /\ request[w].concurrent = Cardinality(Open \ request[w].unread)
  /\ request[w].stage \in {"rating", "saving"} =>
       /\ request[w].id \in minted
       /\ \/ NewMatch(request[w].id, request[w].match)
          \/ NextMatch(request[w].id, request[w].match)

SerialInv ==
  /\ Stored \subseteq minted
  /\ \A w \in Writers : Informed(w)
  /\ CapsHold

LEMMA FiniteMatches ==
  ASSUME NEW S \in SUBSET MatchIds
  PROVE  IsFiniteSet(S) /\ Cardinality(S) \in Nat
BY FS_Subset, FS_CardinalityType, ServiceAssumption

\* A step of the one invocation that leaves the table alone.
LEMMA InformedStep ==
  ASSUME SerialInv, NEW w, Writers = {w}, NEW r,
         request' = [request EXCEPT ![w] = r], DOMAIN request = Writers,
         UNCHANGED table, minted \subseteq minted',
         r.stage = "counting" =>
           /\ r.unread \subseteq Stored
           /\ r.listed = Cardinality(Stored)
           /\ r.concurrent = Cardinality(Open \ r.unread),
         r.stage \in {"rating", "saving"} =>
           r.id \in minted' /\ (NewMatch(r.id, r.match) \/ NextMatch(r.id, r.match))
  PROVE  SerialInv'
<1>1. request'[w] = r
  OBVIOUS
<1>2. Stored' = Stored /\ Open' = Open
  BY DEF Stored, Open
<1>3. NewMatch(r.id, r.match) => NewMatch(request[w].id, request[w].match)'
  BY <1>1, <1>2 DEF NewMatch
<1>4. NextMatch(r.id, r.match) => NextMatch(request[w].id, request[w].match)'
  BY <1>1 DEF NextMatch
<1>5. Informed(w)'
  BY <1>1, <1>2, <1>3, <1>4 DEF Informed
<1>6. CapsHold'
  BY <1>2 DEF SerialInv, CapsHold, Stored
<1> QED
  BY <1>2, <1>5, <1>6 DEF SerialInv

LEMMA SerialStarts ==
  Init => SerialInv
<1> SUFFICES ASSUME Init PROVE SerialInv
  OBVIOUS
<1>1. Stored = {} /\ Open = {}
  BY DEF Init, Stored, Open
<1>2. Cardinality({}) = 0
  BY FS_EmptySet
<1>3. \A w \in Writers : Informed(w)
  BY NoRequestOK DEF Init, Informed
<1>4. CapsHold
  BY <1>1, <1>2, ServiceAssumption DEF CapsHold, Stored
<1> QED
  BY <1>1, <1>3, <1>4 DEF SerialInv

\* Counting one more match of the scan.
LEMMA CountOneInformed ==
  ASSUME ServiceInv, SerialInv, ~LaggingReads, NEW w, Writers = {w}, CountOne(w)
  PROVE  SerialInv'
<1>1. PICK id \in request[w].unread : \E match \in Loadable(id) :
        Goes(w, [request[w] EXCEPT !.unread = @ \ {id},
                                   !.concurrent = @ + (IF Counted(match) THEN 1 ELSE 0)])
  BY DEF CountOne
<1>2. PICK match \in Loadable(id) :
        Goes(w, [request[w] EXCEPT !.unread = @ \ {id},
                                   !.concurrent = @ + (IF Counted(match) THEN 1 ELSE 0)])
  BY <1>1
<1> DEFINE more == IF Counted(match) THEN 1 ELSE 0
           unread == request[w].unread
           r == [request[w] EXCEPT !.unread = unread \ {id},
                                   !.concurrent = request[w].concurrent + more]
<1>3. /\ RequestOK(request[w]) /\ DOMAIN request = Writers /\ request[w].stage = "counting"
      /\ unread \subseteq Stored
      /\ request[w].listed = Cardinality(Stored)
      /\ request[w].concurrent = Cardinality(Open \ unread)
  BY DEF CountOne, ServiceInv, ServiceTypeOK, SerialInv, Informed
<1>4. match = table[id] /\ id \in Stored /\ id \in MatchIds /\ table[id] # None
  BY <1>2, <1>3 DEF Loadable, Stored
<1>5. Cardinality(Open \ (unread \ {id})) = Cardinality(Open \ unread) + more
  <2>1. CASE Counted(match)
    <3>1. Open \ (unread \ {id}) = (Open \ unread) \cup {id} /\ id \notin Open \ unread
      BY <1>4, <2>1, id \in unread DEF Open
    <3>2. IsFiniteSet(Open \ unread)
      BY FiniteMatches DEF Open
    <3>3. Cardinality((Open \ unread) \cup {id}) = Cardinality(Open \ unread) + 1
      BY <3>1, <3>2, FS_AddElement
    <3> QED
      BY <2>1, <3>1, <3>3
  <2>2. CASE ~Counted(match)
    <3>1. Open \ (unread \ {id}) = Open \ unread
      BY <1>4, <2>2 DEF Open
    <3>2. Cardinality(Open \ unread) \in Nat
      BY FiniteMatches DEF Open
    <3> QED
      BY <2>2, <3>1, <3>2
  <2> QED
    BY <2>1, <2>2
<1> HIDE DEF more
<1>6. /\ r.stage = "counting" /\ r.unread = unread \ {id} /\ r.listed = request[w].listed
      /\ r.concurrent = request[w].concurrent + more
  BY <1>3 DEF RequestOK, NoRequest
<1>7. request' = [request EXCEPT ![w] = r]
  BY <1>2 DEF Goes, more
<1>8. UNCHANGED <<table, minted>>
  BY DEF CountOne
<1> HIDE DEF r
<1> QED
  BY <1>3, <1>5, <1>6, <1>7, <1>8, InformedStep

LEMMA CreateInformed ==
  ASSUME ServiceInv, SerialInv, ~LaggingReads, NEW w, Writers = {w},
         \/ ListIds(w) \/ CountOne(w) \/ CountFails(w)
         \/ Admit(w) \/ Refuse(w) \/ RejectBody(w)
  PROVE  SerialInv'
<1>0. DOMAIN request = Writers
  BY DEF ServiceInv, ServiceTypeOK
<1>1. CASE ListIds(w)
  <2>1. PICK ids \in SUBSET {id \in MatchIds : table[id] # None} :
          /\ LaggingReads \/ \A id \in MatchIds : table[id] # None => id \in ids
          /\ Goes(w, [NoRequest EXCEPT !.stage = "counting", !.unread = ids,
                                       !.listed = Cardinality(ids)])
    BY <1>1 DEF ListIds
  <2> DEFINE r == [NoRequest EXCEPT !.stage = "counting", !.unread = ids,
                                    !.listed = Cardinality(ids)]
  <2>2. ids = Stored
    BY <2>1 DEF Stored
  <2>3. r.stage = "counting" /\ r.unread = Stored /\ r.listed = Cardinality(Stored)
        /\ r.concurrent = 0
    BY <2>2 DEF NoRequest
  <2>4. Open \ Stored = {}
    BY DEF Open, Stored
  <2>5. Cardinality(Open \ Stored) = 0
    BY <2>4, FS_EmptySet
  <2>6. request' = [request EXCEPT ![w] = r] /\ UNCHANGED <<table, minted>>
    BY <1>1, <2>1 DEF Goes, ListIds
  <2> HIDE DEF r
  <2> QED
    BY <1>0, <2>3, <2>5, <2>6, InformedStep
<1>2. CASE CountOne(w)
  BY <1>2, CountOneInformed
<1>3. CASE CountFails(w) \/ Refuse(w) \/ RejectBody(w)
  <2>1. request' = [request EXCEPT ![w] = NoRequest] /\ UNCHANGED <<table, minted>>
    BY <1>3 DEF Goes, CountFails, Refuse, RejectBody
  <2> QED
    BY <1>0, <2>1, NoRequestOK, InformedStep
<1>4. CASE Admit(w)
  <2>1. PICK id \in MatchIds \ minted, seats \in Seatings :
          /\ minted' = minted \cup {id}
          /\ Goes(w, [NoRequest EXCEPT !.stage = "saving", !.id = id,
                                       !.match = Started(Created(seats))])
    BY <1>4 DEF Admit
  <2> DEFINE m == Started(Created(seats))
             r == [NoRequest EXCEPT !.stage = "saving", !.id = id, !.match = m]
  <2>2. table[id] = None
    BY <2>1 DEF SerialInv, Stored
  <2>3. Cardinality(Open) < MaxConcurrent /\ Cardinality(Stored) < MaxStored
    <3>1. Informed(w) /\ request[w].stage = "counting" /\ request[w].unread = {}
          /\ CapsAllow(w)
      BY <1>4 DEF SerialInv, Admit
    <3>2. Open \ {} = Open
      OBVIOUS
    <3> QED
      BY <3>1, <3>2 DEF Informed, CapsAllow
  <2>4. NewMatch(id, m)
    BY <2>2, <2>3 DEF NewMatch
  <2> HIDE DEF m
  <2>5. r.stage = "saving" /\ r.id = id /\ r.match = m
    BY DEF NoRequest
  <2>6. request' = [request EXCEPT ![w] = r] /\ UNCHANGED table /\ minted \subseteq minted'
        /\ id \in minted'
    BY <1>4, <2>1 DEF Goes, Admit, m
  <2> HIDE DEF r
  <2> QED
    BY <1>0, <2>4, <2>5, <2>6, InformedStep
<1> QED
  BY <1>1, <1>2, <1>3, <1>4

\* A request on a stored match carries what one operation makes of it.
LEMMA CarryInformed ==
  ASSUME SerialInv, NEW w, Writers = {w}, NEW id \in MatchIds, NEW m, NEW stage \in {"rating", "saving"},
         NextMatch(id, m), Carries(w, stage, id, m), DOMAIN request = Writers,
         UNCHANGED <<table, minted>>
  PROVE  SerialInv'
<1> DEFINE r == [NoRequest EXCEPT !.stage = stage, !.id = id, !.match = m]
<1>1. r.stage = stage /\ r.id = id /\ r.match = m
  BY DEF NoRequest
<1>2. request' = [request EXCEPT ![w] = r]
  BY DEF Carries, Goes
<1>3. id \in minted
  BY DEF SerialInv, Stored, NextMatch
<1> HIDE DEF r
<1> QED
  BY <1>1, <1>2, <1>3, InformedStep

LEMMA LoadedIsStored ==
  ASSUME ~LaggingReads, NEW id \in MatchIds, NEW match \in Loadable(id)
  PROVE  match = table[id] /\ table[id] # None
BY DEF Loadable

LEMMA TakeTurnInformed ==
  ASSUME ServiceInv, SerialInv, ~LaggingReads, NEW w, Writers = {w},
         NEW id \in MatchIds, NEW by \in Callers, NEW points \in Points,
         TakeTurn(w, id, by, points)
  PROVE  SerialInv'
<1>1. PICK match \in Loadable(id), stage \in {"rating", "saving"} :
        /\ CanTakeTurn(match, by, points)
        /\ Carries(w, stage, id, AfterTurn(match, by, points))
  BY DEF TakeTurn
<1>2. NextMatch(id, AfterTurn(match, by, points))
  BY <1>1, LoadedIsStored DEF NextMatch
<1> QED
  BY <1>1, <1>2, CarryInformed DEF TakeTurn, ServiceInv, ServiceTypeOK

LEMMA PauseResumeInformed ==
  ASSUME ServiceInv, SerialInv, ~LaggingReads, NEW w, Writers = {w},
         NEW id \in MatchIds, NEW by \in Callers, Pause(w, id, by) \/ Resume(w, id, by)
  PROVE  SerialInv'
<1>1. PICK match \in Loadable(id) :
        \/ CanPause(match) /\ Carries(w, "saving", id, Paused(match))
        \/ CanResume(match) /\ Carries(w, "saving", id, Resumed(match))
  BY DEF Pause, Resume
<1>2. PICK m : NextMatch(id, m) /\ Carries(w, "saving", id, m)
  BY <1>1, LoadedIsStored DEF NextMatch
<1> QED
  BY <1>2, CarryInformed DEF Pause, Resume, ServiceInv, ServiceTypeOK

\* One match more than fewer than max.
LEMMA NewMatchCounted ==
  ASSUME NEW S \in SUBSET MatchIds, NEW T \in SUBSET MatchIds, NEW id, NEW max \in Nat,
         T \subseteq S \cup {id}, Cardinality(S) < max
  PROVE  Cardinality(T) <= max
<1>1. IsFiniteSet(S) /\ Cardinality(S) \in Nat /\ IsFiniteSet(T) /\ Cardinality(T) \in Nat
  BY FiniteMatches
<1>2. IsFiniteSet(S \cup {id}) /\ Cardinality(S \cup {id}) <= Cardinality(S) + 1
      /\ Cardinality(S \cup {id}) \in Nat
  <2>1. /\ IsFiniteSet(S \cup {id})
        /\ \/ Cardinality(S \cup {id}) = Cardinality(S)
           \/ Cardinality(S \cup {id}) = Cardinality(S) + 1
    BY <1>1, FS_AddElement
  <2> QED
    BY <1>1, <2>1
<1>3. Cardinality(T) <= Cardinality(S \cup {id})
  BY <1>2, FS_Subset
<1> QED
  BY <1>1, <1>2, <1>3

LEMMA SaveInformed ==
  ASSUME ServiceInv, SerialInv, NEW w, Writers = {w}, Save(w)
  PROVE  SerialInv'
<1> DEFINE id == request[w].id
           m == request[w].match
<1>1. /\ request[w].stage = "saving" /\ table' = [table EXCEPT ![id] = m]
      /\ request' = [request EXCEPT ![w] = NoRequest] /\ UNCHANGED minted
      /\ DOMAIN table = MatchIds /\ DOMAIN request = Writers /\ id \in MatchIds
  BY DEF Save, Goes, ServiceInv, ServiceTypeOK, RequestOK
<1>2. NewMatch(id, m) \/ NextMatch(id, m)
  BY <1>1 DEF SerialInv, Informed
<1>3. request'[w] = NoRequest /\ table'[id] = m
      /\ \A j \in MatchIds : j # id => table'[j] = table[j]
  BY <1>1
<1> HIDE DEF id, m
<1>4. Informed(w)'
  BY <1>3, NoRequestOK DEF Informed
<1>5. Stored' \subseteq Stored \cup {id} /\ Open' \subseteq Open \cup {id}
  BY <1>3 DEF Stored, Open
<1>6. Stored \in SUBSET MatchIds /\ Stored' \in SUBSET MatchIds
      /\ Open \in SUBSET MatchIds /\ Open' \in SUBSET MatchIds
  BY DEF Stored, Open
<1>7. CapsHold'
  <2>1. CASE NewMatch(id, m)
    <3>1. Cardinality(Open) < MaxConcurrent /\ Cardinality(Stored) < MaxStored
      BY <2>1 DEF NewMatch
    <3>2. Cardinality(Open') <= MaxConcurrent /\ Cardinality(Stored') <= MaxStored
      BY <1>5, <1>6, <3>1, NewMatchCounted, ServiceAssumption
    <3> QED
      BY <3>2 DEF CapsHold, Stored
  <2>2. CASE NextMatch(id, m)
    <3>1. id \in Open /\ id \in Stored
      BY <1>1, <2>2 DEF NextMatch, CanTakeTurn, CanPause, CanResume, Counted, Open, Stored, id
    <3>2. Open' \subseteq Open /\ Stored' \subseteq Stored
      BY <1>5, <3>1
    <3>3. Cardinality(Open') <= Cardinality(Open) /\ Cardinality(Stored') <= Cardinality(Stored)
      BY <1>6, <3>2, FiniteMatches, FS_Subset
    <3>4. Cardinality(Open) \in Nat /\ Cardinality(Stored) \in Nat
          /\ Cardinality(Open') \in Nat /\ Cardinality(Stored') \in Nat
      BY <1>6, FiniteMatches
    <3>5. Cardinality(Open) <= MaxConcurrent /\ Cardinality(Stored) <= MaxStored
      BY DEF SerialInv, CapsHold, Stored
    <3> QED
      BY <3>3, <3>4, <3>5, ServiceAssumption DEF CapsHold, Stored
  <2> QED
    BY <1>2, <2>1, <2>2
<1>8. Stored' \subseteq minted'
  <2>1. id \in minted /\ Stored \subseteq minted
    BY <1>1 DEF SerialInv, Informed, id
  <2> QED
    BY <1>1, <1>5, <2>1
<1> QED
  BY <1>4, <1>7, <1>8 DEF SerialInv
LEMMA RateDoneInformed ==
  ASSUME ServiceInv, SerialInv, NEW w, Writers = {w}, RateDone(w)
  PROVE  SerialInv'
<1> DEFINE r == [request[w] EXCEPT !.stage = "saving"]
<1>1. RequestOK(request[w]) /\ DOMAIN request = Writers /\ request[w].stage = "rating"
  BY DEF RateDone, ServiceInv, ServiceTypeOK
<1>2. r.stage = "saving" /\ r.id = request[w].id /\ r.match = request[w].match
  BY <1>1 DEF RequestOK, NoRequest
<1>3. request' = [request EXCEPT ![w] = r] /\ UNCHANGED <<table, minted>>
  BY DEF RateDone, Goes
<1>4. r.id \in minted /\ (NewMatch(r.id, r.match) \/ NextMatch(r.id, r.match))
  BY <1>1, <1>2 DEF SerialInv, Informed
<1> HIDE DEF r
<1> QED
  BY <1>1, <1>2, <1>3, <1>4, InformedStep

\* A step that leaves the table and the request alone.
LEMMA StillInformed ==
  ASSUME SerialInv, UNCHANGED <<table, minted, request>>
  PROVE  SerialInv'
<1>1. Stored' = Stored /\ Open' = Open
  BY DEF Stored, Open
<1>2. \A w \in Writers : Informed(w)'
  BY <1>1 DEF SerialInv, Informed, NewMatch, NextMatch
<1>3. CapsHold'
  BY <1>1 DEF SerialInv, CapsHold, Stored
<1> QED
  BY <1>1, <1>2, <1>3 DEF SerialInv

LEMMA SerialSteps ==
  ASSUME DeltasAreIntegers, OneAtATime, ServiceInv, SerialInv, [Next]_vars
  PROVE  SerialInv'
<1>1. PICK w : Writers = {w}
  BY DEF OneAtATime
<1>2. ~LaggingReads /\ DOMAIN request = Writers
  BY DEF OneAtATime, ServiceInv, ServiceTypeOK
<1>3. CASE Step(w)
  <2>1. CASE \/ ListIds(w) \/ CountOne(w) \/ CountFails(w)
             \/ Admit(w) \/ Refuse(w) \/ RejectBody(w)
    BY <1>1, <1>2, <2>1, CreateInformed
  <2>2. CASE \E id \in MatchIds, by \in Callers, points \in Points : TakeTurn(w, id, by, points)
    BY <1>1, <1>2, <2>2, TakeTurnInformed
  <2>3. CASE \E id \in MatchIds, by \in Callers : Pause(w, id, by) \/ Resume(w, id, by)
    BY <1>1, <1>2, <2>3, PauseResumeInformed
  <2>4. CASE Rate(w)
    BY <2>4, StillInformed DEF Rate, serviceVars
  <2>5. CASE RateDone(w)
    BY <1>1, <2>5, RateDoneInformed
  <2>6. CASE RateFails(w) \/ Die(w)
    <3>1. request' = [request EXCEPT ![w] = NoRequest] /\ UNCHANGED <<table, minted>>
      BY <2>6 DEF RateFails, Die, Goes
    <3> QED
      BY <1>1, <1>2, <3>1, NoRequestOK, InformedStep
  <2>7. CASE Save(w)
    BY <1>1, <2>7, SaveInformed
  <2> QED
    BY <1>3, <2>1, <2>2, <2>3, <2>4, <2>5, <2>6, <2>7 DEF Step
<1>4. CASE \E id \in MatchIds : Replicate(id)
  BY <1>4, StillInformed DEF Replicate
<1>5. CASE UNCHANGED vars
  BY <1>5, StillInformed DEF vars, serviceVars
<1> QED
  BY <1>1, <1>3, <1>4, <1>5 DEF Next

\* While requests run one at a time, even if they die, at most MaxConcurrent
\* matches are active or paused at once and at most MaxStored are stored: what the
\* guard of POST /matches counted is still true when the new match is saved.
THEOREM SerialCapsHold ==
  ASSUME DeltasAreIntegers, OneAtATime
  PROVE  Spec => []CapsHold
<1>1. ServiceInv /\ SerialInv /\ [Next]_vars => SerialInv'
  BY SerialSteps
<1>2. SerialInv => CapsHold
  BY DEF SerialInv
<1> QED
  BY <1>1, <1>2, SerialStarts, ServiceInvariant, PTL DEF Spec

\* The abstract module's match is the service's.
LEMMA SameMatchRecord ==
  /\ Lifecycle!Seatings = Seatings
  /\ \A seats : Lifecycle!Started(Lifecycle!Created(seats)) = Started(Created(seats))
  /\ \A m, by, points :
       /\ Lifecycle!CanTakeTurn(m, by, points) <=> CanTakeTurn(m, by, points)
       /\ Lifecycle!AfterTurn(m, by, points) = AfterTurn(m, by, points)
  /\ \A m : /\ Lifecycle!CanPause(m) <=> CanPause(m)
            /\ Lifecycle!Paused(m) = Paused(m)
            /\ Lifecycle!CanResume(m) <=> CanResume(m)
            /\ Lifecycle!Resumed(m) = Resumed(m)
<1>1. Lifecycle!Seatings = Seatings
  BY Zenon DEF Seatings, Lifecycle!Seatings
<1>2. ASSUME NEW seats PROVE Lifecycle!Started(Lifecycle!Created(seats)) = Started(Created(seats))
  BY Zenon DEF Started, Created, InitialState, Seated, Lifecycle!Started, Lifecycle!Created,
               Lifecycle!InitialState, Lifecycle!Seated
<1>3. ASSUME NEW m, NEW by, NEW points
      PROVE  /\ Lifecycle!CanTakeTurn(m, by, points) <=> CanTakeTurn(m, by, points)
             /\ Lifecycle!AfterTurn(m, by, points) = AfterTurn(m, by, points)
  <2>1. Lifecycle!CanTakeTurn(m, by, points) <=> CanTakeTurn(m, by, points)
    BY Zenon DEF CanTakeTurn, LegalTurn, OnTurn, Lifecycle!CanTakeTurn, Lifecycle!LegalTurn,
                 Lifecycle!OnTurn
  <2>2. Lifecycle!Turned(m, by, points) = Turned(m, by, points)
    BY Zenon DEF Turned, ApplyTurn, Lifecycle!Turned, Lifecycle!ApplyTurn
  <2>3. \A scores : Lifecycle!SoleLeader(scores) = SoleLeader(scores)
    BY Zenon DEF SoleLeader, Leads, Lifecycle!SoleLeader, Lifecycle!Leads
  <2>4. \A n : Lifecycle!Completed(n) = Completed(n)
    BY <2>3, Zenon DEF Completed, Lifecycle!Completed
  <2>5. \A game : Lifecycle!IsOver(game) <=> IsOver(game)
    BY Zenon DEF IsOver, Lifecycle!IsOver
  <2> QED
    BY <2>1, <2>2, <2>4, <2>5, Zenon DEF AfterTurn, Lifecycle!AfterTurn
<1>4. ASSUME NEW m
      PROVE  /\ Lifecycle!CanPause(m) <=> CanPause(m)
             /\ Lifecycle!Paused(m) = Paused(m)
             /\ Lifecycle!CanResume(m) <=> CanResume(m)
             /\ Lifecycle!Resumed(m) = Resumed(m)
  BY Zenon DEF CanPause, Paused, CanResume, Resumed, Lifecycle!CanPause, Lifecycle!Paused,
               Lifecycle!CanResume, Lifecycle!Resumed
<1> QED
  BY <1>1, <1>2, <1>3, <1>4

\* Every step of the service is a step of the match's state machine, or changes
\* no match.
LEMMA LifecycleStep ==
  ASSUME OneAtATime, ServiceInv, SerialInv, [Next]_vars
  PROVE  [Lifecycle!Next]_table
<1>1. CASE \E w \in Writers : Save(w)
  <2>1. PICK w \in Writers : Save(w)
    BY <1>1
  <2> DEFINE id == request[w].id
             m == request[w].match
  <2>2. /\ request[w].stage = "saving" /\ table' = [table EXCEPT ![id] = m] /\ id \in MatchIds
    BY <2>1 DEF Save, ServiceInv, ServiceTypeOK, RequestOK
  <2>3. NewMatch(id, m) \/ NextMatch(id, m)
    BY <2>2 DEF SerialInv, Informed
  <2>4. Lifecycle!Becomes(id, m)
    BY <2>2 DEF Lifecycle!Becomes
  <2> HIDE DEF id, m
  <2>5. CASE NewMatch(id, m)
    <3>1. Lifecycle!Create(id)
      BY <2>4, <2>5, SameMatchRecord DEF NewMatch, Lifecycle!Create
    <3> QED
      BY <2>2, <3>1 DEF Lifecycle!Next
  <2>6. CASE NextMatch(id, m)
    <3>1. Lifecycle!TakeTurn(id) \/ Lifecycle!Pause(id) \/ Lifecycle!Resume(id)
      BY <2>4, <2>6, SameMatchRecord DEF NextMatch, Lifecycle!TakeTurn, Lifecycle!Pause, Lifecycle!Resume
    <3> QED
      BY <2>2, <3>1 DEF Lifecycle!Next
  <2> QED
    BY <2>3, <2>5, <2>6
<1>2. CASE ~\E w \in Writers : Save(w)
  <2>1. UNCHANGED table
    BY <1>2 DEF Next, Step, vars, serviceVars, ListIds, CountOne, CountFails, Admit, Refuse,
                RejectBody, TakeTurn, Pause, Resume, Rate, RateDone, RateFails, Die, Replicate
  <2> QED
    BY <2>1
<1> QED
  BY <1>1, <1>2

\* While requests run one at a time, even if they die, the service implements the
\* state machine of match.py on every match: no turn is lost, a completed match
\* stays as it is, and a match is created only where there was none.
THEOREM ServiceKeepsLifecycle ==
  ASSUME DeltasAreIntegers, OneAtATime
  PROVE  Spec => KeepsLifecycle
<1>1. Init => Lifecycle!Init
  BY DEF Init, Lifecycle!Init
<1>2. ServiceInv /\ SerialInv /\ [Next]_vars => SerialInv'
  BY SerialSteps
<1>3. ServiceInv /\ SerialInv /\ [Next]_vars => [Lifecycle!Next]_table
  BY LifecycleStep
<1> QED
  BY <1>1, <1>2, <1>3, SerialStarts, ServiceInvariant, PTL DEF Spec, KeepsLifecycle, Lifecycle!Spec

-----------------------------------------------------------------------------
(* The match counts until an invocation dies *)

\* The stored match id rates i.
Told(i, id) == table[id] # None /\ i \in RatedIdentities(table[id])

\* Identity i of w's outcome has had its turn in the loop of puts.
Handled(w, i) ==
  /\ writer[w].stage \in Past
  /\ \E k \in FirstSeen(writer[w].outcome) \ writer[w].todo : At(w, k) = i

\* w has recorded, and not yet saved, that match id rates i.
Ahead(w, i, id) ==
  /\ id = request[w].id
  /\ \/ request[w].stage = "saving" /\ i \in RatedIdentities(request[w].match)
     \/ request[w].stage = "rating" /\ Handled(w, i)

\* The prior read for position k is the whole history.
Fresh(w, k) == writer[w].priors[At(w, k)].count = Len(entries[At(w, k)])

RatesFresh(w) ==
  request[w].stage = "rating" =>
    /\ Rated(request[w].match)
    /\ writer[w].stage = "reading" =>
         \A k \in FirstSeen(writer[w].outcome) \ writer[w].todo : Fresh(w, k)
    /\ writer[w].stage \in Past => \A k \in writer[w].todo : Fresh(w, k)

\* No match rates an identity twice.
OncePerMatch(i) ==
  \A j, k \in DOMAIN entries[i] : entries[i][j].match = entries[i][k].match => j = k

\* The entries are those of the matches that are stored as completed, and of
\* the one that is being recorded.
Counts ==
  /\ \A i \in Identities :
       /\ OncePerMatch(i)
       /\ \A id \in MatchIds :
            HasEntry(i, id) <=> Told(i, id) \/ \E w \in Writers : Ahead(w, i, id)
  /\ \A w \in Writers : RatesFresh(w)

CountsInv == ~died => Counts

LEMMA FirstSeenOnce ==
  ASSUME NEW outcome \in Outcome, NEW j \in FirstSeen(outcome), NEW k \in FirstSeen(outcome),
         outcome[j].identity = outcome[k].identity
  PROVE  j = k
<1>1. j \in Nat /\ k \in Nat /\ j >= 1 /\ k >= 1
  <2>1. j \in DOMAIN outcome /\ k \in DOMAIN outcome
    BY DEF FirstSeen
  <2>2. DOMAIN outcome = 1..Len(outcome) /\ Len(outcome) \in Nat
    BY DEF Outcome
  <2> QED
    BY <2>1, <2>2
<1>2. ~(j < k) /\ ~(k < j)
  BY <1>1 DEF FirstSeen
<1> QED
  BY <1>1, <1>2

\* The identities of a rated match are those its outcome names.
LEMMA RatedByOutcome ==
  ASSUME NEW m, IsMatch(m), Rated(m), NEW i
  PROVE  i \in RatedIdentities(m) <=>
           \E k \in FirstSeen(OutcomeOf(m)) : OutcomeOf(m)[k].identity = i
<1>1. /\ OutcomeOf(m) \in Outcome
      /\ DOMAIN OutcomeOf(m) = DOMAIN m.seats
      /\ \A k \in DOMAIN m.seats : OutcomeOf(m)[k].identity = IdentityOf[m.seats[k]]
  BY OutcomeOK DEF Rated
<1>2. Len(OutcomeOf(m)) \in {1, 2}
  BY OutcomeLength DEF Rated
<1>3. \A k \in DOMAIN m.seats :
        \E j \in FirstSeen(OutcomeOf(m)) : OutcomeOf(m)[j].identity = IdentityOf[m.seats[k]]
  <2> DEFINE out == OutcomeOf(m)
  <2>1. out \in Outcome /\ Len(out) \in {1, 2} /\ DOMAIN out = DOMAIN m.seats
    BY <1>1, <1>2
  <2> HIDE DEF out
  <2>2. \A k \in DOMAIN out : \E j \in FirstSeen(out) : out[j].identity = out[k].identity
    BY <2>1, FirstSeenCovers
  <2> QED
    BY <1>1, <2>2 DEF out
<1>4. FirstSeen(OutcomeOf(m)) \subseteq DOMAIN m.seats
  BY <1>1, OutcomePositions
<1> QED
  BY <1>1, <1>3, <1>4 DEF RatedIdentities

\* A step of the one writer that leaves the entries alone and does not change
\* what is recorded ahead of the table.
LEMMA CountsStay ==
  ASSUME Counts, NEW w, Writers = {w}, UNCHANGED entries,
         \A i \in Identities, id \in MatchIds :
           Told(i, id)' \/ Ahead(w, i, id)' <=> Told(i, id) \/ Ahead(w, i, id),
         RatesFresh(w)'
  PROVE  Counts'
<1>1. ASSUME NEW i \in Identities PROVE OncePerMatch(i)'
  BY <1>1 DEF Counts, OncePerMatch
<1>2. ASSUME NEW i \in Identities, NEW id \in MatchIds
      PROVE  HasEntry(i, id)' <=> Told(i, id)' \/ Ahead(w, i, id)'
  BY <1>2 DEF Counts, HasEntry
<1> QED
  BY <1>1, <1>2 DEF Counts

\* A step outside the rating and saving of a match, which begins neither.
Quiet(w) ==
  /\ request[w].stage \notin {"rating", "saving"} /\ UNCHANGED <<entries, table>>
  /\ request'[w].stage # "rating"
  /\ request'[w].stage = "saving" => ~Rated(request'[w].match)

LEMMA QuietStep ==
  ASSUME NEW w \in Writers, DOMAIN request = Writers, NEW r,
         request[w].stage \notin {"rating", "saving"}, request' = [request EXCEPT ![w] = r],
         UNCHANGED <<entries, table>>,
         r.stage # "rating", r.stage = "saving" => ~Rated(r.match)
  PROVE  Quiet(w)
<1>1. request'[w] = r
  OBVIOUS
<1> QED
  BY <1>1 DEF Quiet

LEMMA QuietIsNotAhead ==
  ASSUME NEW w, Quiet(w)
  PROVE  \A i, id : ~Ahead(w, i, id) /\ ~Ahead(w, i, id)'
BY DEF Quiet, Ahead, RatedIdentities, Rated

LEMMA CountsQuiet ==
  ASSUME Counts, NEW w, Writers = {w}, Quiet(w)
  PROVE  Counts'
<1>1. RatesFresh(w)'
  BY DEF Quiet, RatesFresh
<1>2. \A i, id : Told(i, id)' <=> Told(i, id)
  BY DEF Quiet, Told
<1> QED
  BY <1>1, <1>2, QuietIsNotAhead, CountsStay DEF Quiet

LEMMA CreateIsQuiet ==
  ASSUME ServiceInv, NEW w \in Writers,
         \/ ListIds(w) \/ CountOne(w) \/ CountFails(w)
         \/ Admit(w) \/ Refuse(w) \/ RejectBody(w)
  PROVE  Quiet(w)
<1>0. /\ RequestOK(request[w]) /\ DOMAIN request = Writers
      /\ request[w].stage \notin {"rating", "saving"} /\ UNCHANGED <<entries, table>>
  BY DEF ServiceInv, ServiceTypeOK, ledgerVars, ListIds, CountOne, CountFails, Admit, Refuse,
         RejectBody, Idle
<1>1. CASE ListIds(w)
  <2>1. PICK ids : Goes(w, [NoRequest EXCEPT !.stage = "counting", !.unread = ids,
                                             !.listed = Cardinality(ids)])
    BY <1>1 DEF ListIds
  <2> DEFINE r == [NoRequest EXCEPT !.stage = "counting", !.unread = ids,
                                    !.listed = Cardinality(ids)]
  <2>2. r.stage = "counting" /\ request' = [request EXCEPT ![w] = r]
    BY <2>1 DEF NoRequest, Goes
  <2> HIDE DEF r
  <2> QED
    BY <1>0, <2>2, QuietStep
<1>2. CASE CountOne(w)
  <2>1. PICK unread, concurrent :
          Goes(w, [request[w] EXCEPT !.unread = unread, !.concurrent = concurrent])
    BY <1>2, Zenon DEF CountOne
  <2> DEFINE r == [request[w] EXCEPT !.unread = unread, !.concurrent = concurrent]
  <2>2. r.stage = "counting" /\ request' = [request EXCEPT ![w] = r]
    BY <1>0, <1>2, <2>1 DEF CountOne, RequestOK, NoRequest, Goes
  <2> HIDE DEF r
  <2> QED
    BY <1>0, <2>2, QuietStep
<1>3. CASE CountFails(w) \/ Refuse(w) \/ RejectBody(w)
  BY <1>0, <1>3, NoRequestOK, QuietStep DEF CountFails, Refuse, RejectBody, Goes
<1>4. CASE Admit(w)
  <2>1. PICK id \in MatchIds, seats \in Seatings :
          Goes(w, [NoRequest EXCEPT !.stage = "saving", !.id = id,
                                    !.match = Started(Created(seats))])
    BY <1>4 DEF Admit
  <2> DEFINE m == Started(Created(seats))
             r == [NoRequest EXCEPT !.stage = "saving", !.id = id, !.match = m]
  <2>2. ~Rated(m)
    BY StartedOK DEF Rated
  <2> HIDE DEF m
  <2>3. r.stage = "saving" /\ r.match = m
    BY DEF NoRequest
  <2>4. request' = [request EXCEPT ![w] = r]
    BY <2>1 DEF Goes, m
  <2> HIDE DEF r
  <2> QED
    BY <1>0, <2>2, <2>3, <2>4, QuietStep
<1> QED
  BY <1>1, <1>2, <1>3, <1>4

\* A request on a match that needs no rating.
LEMMA CarryIsQuiet ==
  ASSUME ServiceInv, NEW w \in Writers, Idle(w), NEW id, NEW m, ~Rated(m),
         Carries(w, "saving", id, m), UNCHANGED <<entries, table>>
  PROVE  Quiet(w)
<1> DEFINE r == [NoRequest EXCEPT !.stage = "saving", !.id = id, !.match = m]
<1>1. r.stage = "saving" /\ r.match = m
  BY DEF NoRequest
<1>2. request' = [request EXCEPT ![w] = r]
  BY DEF Carries, Goes
<1>3. DOMAIN request = Writers /\ request[w].stage \notin {"rating", "saving"}
  BY DEF ServiceInv, ServiceTypeOK, Idle
<1> HIDE DEF r
<1> QED
  BY <1>1, <1>2, <1>3, QuietStep

LEMMA PauseResumeIsQuiet ==
  ASSUME ServiceInv, NEW w \in Writers,
         NEW id \in MatchIds, NEW by \in Callers, Pause(w, id, by) \/ Resume(w, id, by)
  PROVE  Quiet(w)
<1>1. PICK match \in Loadable(id) :
        \/ Carries(w, "saving", id, Paused(match)) \/ Carries(w, "saving", id, Resumed(match))
  BY DEF Pause, Resume
<1>2. ~Rated(Paused(match)) /\ ~Rated(Resumed(match))
  BY LoadedOK, StatusChangeOK DEF Paused, Resumed, Rated
<1> QED
  BY <1>1, <1>2, CarryIsQuiet DEF Pause, Resume, ledgerVars

\* A step with which the rating of a match begins.
Begins(w) ==
  /\ Idle(w) /\ UNCHANGED <<entries, table>>
  /\ request'[w].stage = "rating" /\ Rated(request'[w].match)
  /\ writer'[w].stage = "reading" /\ writer'[w].todo = FirstSeen(writer'[w].outcome)
  /\ writer'[w].priors = IdleWriter.priors

LEMMA TakeTurnBegins ==
  ASSUME ServiceInv, NEW w \in Writers,
         NEW id \in MatchIds, NEW by \in Callers, NEW points \in Points,
         TakeTurn(w, id, by, points)
  PROVE  Quiet(w) \/ Begins(w)
<1>1. PICK match \in Loadable(id) :
        /\ by \in Seated(match.seats)
        /\ LET after == AfterTurn(match, by, points) IN
             IF Rated(after)
               THEN Carries(w, "rating", id, after) /\ BeginRecord(w, id, OutcomeOf(after))
               ELSE Carries(w, "saving", id, after) /\ UNCHANGED ledgerVars
  BY DEF TakeTurn
<1> DEFINE after == AfterTurn(match, by, points)
<1>2. Idle(w) /\ UNCHANGED table /\ DOMAIN request = Writers
  BY DEF TakeTurn, ServiceInv, ServiceTypeOK
<1> HIDE DEF after
<1>3. CASE ~Rated(after)
  <2>1. Carries(w, "saving", id, after) /\ UNCHANGED ledgerVars
    BY <1>1, <1>3 DEF after
  <2> QED
    BY <1>2, <1>3, <2>1, CarryIsQuiet DEF ledgerVars
<1>4. CASE Rated(after)
  <2>1. Carries(w, "rating", id, after) /\ BeginRecord(w, id, OutcomeOf(after))
    BY <1>1, <1>4 DEF after
  <2> DEFINE r == [NoRequest EXCEPT !.stage = "rating", !.id = id, !.match = after]
  <2>2. r.stage = "rating" /\ r.match = after /\ request' = [request EXCEPT ![w] = r]
    BY <2>1 DEF NoRequest, Carries, Goes
  <2> HIDE DEF r
  <2>3. request'[w] = r
    BY <1>2, <2>2
  <2>4. /\ writer'[w].stage = "reading" /\ UNCHANGED entries
        /\ writer'[w].todo = FirstSeen(writer'[w].outcome)
        /\ writer'[w].priors = IdleWriter.priors
    <3>1. writer \in [Writers -> Writer] /\ IdleWriter \in Writer
      BY IdleWriterOK DEF ServiceInv, LedgerInv, LedgerTypeOK
    <3> QED
      BY <2>1, <3>1 DEF BeginRecord, Writer
  <2> QED
    BY <1>2, <1>4, <2>2, <2>3, <2>4 DEF Begins
<1> QED
  BY <1>3, <1>4

LEMMA BeginsIsNotAhead ==
  ASSUME NEW w, Begins(w)
  PROVE  \A i, id : ~Ahead(w, i, id) /\ ~Ahead(w, i, id)'
BY DEF Begins, Idle, Ahead, Handled, Past

LEMMA TakeTurnCounts ==
  ASSUME ServiceInv, Counts, NEW w, Writers = {w},
         NEW id \in MatchIds, NEW by \in Callers, NEW points \in Points,
         TakeTurn(w, id, by, points)
  PROVE  Counts'
<1>1. CASE Quiet(w)
  BY <1>1, CountsQuiet
<1>2. CASE Begins(w)
  <2>1. RatesFresh(w)'
    BY <1>2 DEF Begins, RatesFresh, Past, Rated
  <2>2. \A i, j : Told(i, j)' <=> Told(i, j)
    BY <1>2 DEF Begins, Told
  <2> QED
    BY <1>2, <2>1, <2>2, BeginsIsNotAhead, CountsStay DEF Begins
<1> QED
  BY <1>1, <1>2, TakeTurnBegins

\* A step of record_match that leaves the entries alone and, past the reads,
\* handles no further position.
LEMMA RatingStays ==
  ASSUME Counts, NEW w, Writers = {w}, request[w].stage = "rating",
         UNCHANGED <<entries, table, request>>,
         \A i : Handled(w, i)' <=> Handled(w, i),
         RatesFresh(w)'
  PROVE  Counts'
<1>1. \A i, id : Ahead(w, i, id)' <=> Ahead(w, i, id)
  BY DEF Ahead, RatedIdentities
<1>2. \A i, id : Told(i, id)' <=> Told(i, id)
  BY DEF Told
<1> QED
  BY <1>1, <1>2, CountsStay

LEMMA ReadPriorCounts ==
  ASSUME ServiceInv, Counts, ~LaggingReads, NEW w, Writers = {w}, request[w].stage = "rating",
         ReadPrior(w), UNCHANGED serviceVars
  PROVE  Counts'
<1>1. PICK k \in writer[w].todo :
        LET left == writer[w].todo \ {k} IN
        /\ writer' = [writer EXCEPT
             ![w].priors[At(w, k)] = [count |-> Len(entries[At(w, k)]),
                                      rating |-> RatingAt(entries[At(w, k)], Len(entries[At(w, k)]))],
             ![w].todo = IF left = {} THEN FirstSeen(writer[w].outcome) ELSE left,
             ![w].stage = AfterReading(left)]
  BY DEF ReadPrior
<1> DEFINE i == At(w, k)
           left == writer[w].todo \ {k}
           todo == IF left = {} THEN FirstSeen(writer[w].outcome) ELSE left
           prior == [count |-> Len(entries[i]), rating |-> RatingAt(entries[i], Len(entries[i]))]
           out == writer[w].outcome
<1>2. /\ writer \in [Writers -> Writer] /\ writer[w] \in Writer /\ out \in Outcome
      /\ writer[w].todo \subseteq FirstSeen(out)
  BY DEF ServiceInv, LedgerInv, LedgerTypeOK, Writer
<1>3. /\ writer'[w].outcome = out /\ writer'[w].todo = todo
      /\ writer'[w].stage = AfterReading(left)
      /\ writer'[w].priors = [writer[w].priors EXCEPT ![i] = prior]
  BY <1>1, <1>2 DEF Writer
<1>4. i \in Identities /\ writer[w].priors \in [Identities -> Prior]
  BY <1>2, OutcomePositions DEF At, Writer
<1>5. UNCHANGED <<entries, table, request>> /\ writer[w].stage = "reading"
  BY DEF ReadPrior, serviceVars
<1>6. \A j \in FirstSeen(out) : At(w, j)' = At(w, j) /\ (At(w, j) = i => j = k)
  BY <1>2, <1>3, FirstSeenOnce DEF At
<1>7. \A j \in FirstSeen(out) : At(w, j) \in Identities
  BY <1>2, OutcomePositions DEF At
<1>8. \A j \in FirstSeen(out) \ writer[w].todo : Fresh(w, j)
  BY <1>5 DEF Counts, RatesFresh
<1>9. \A j \in FirstSeen(out) : writer'[w].priors[At(w, j)] =
                                  IF j = k THEN prior ELSE writer[w].priors[At(w, j)]
  BY <1>3, <1>4, <1>6, <1>7
<1>10. prior.count = Len(entries[i])
  OBVIOUS
<1> HIDE DEF i, prior
<1>11. \A j \in FirstSeen(out) \ left : Fresh(w, j)'
  <2> SUFFICES ASSUME NEW j \in FirstSeen(out) \ left PROVE Fresh(w, j)'
    OBVIOUS
  <2>1. CASE j = k
    BY <1>5, <1>6, <1>9, <1>10, <2>1 DEF Fresh, i
  <2>2. CASE j # k
    BY <1>5, <1>6, <1>8, <1>9, <2>2 DEF Fresh
  <2> QED
    BY <2>1, <2>2
<1>12. CASE left = {}
  <2>1. writer'[w].stage = "putting" /\ writer'[w].todo = FirstSeen(out)
    BY <1>3, <1>12 DEF AfterReading
  <2>2. RatesFresh(w)'
    BY <1>3, <1>5, <1>11, <1>12, <2>1 DEF RatesFresh, Counts, Rated
  <2>3. \A a : ~Handled(w, a) /\ ~Handled(w, a)'
    BY <1>3, <1>5, <2>1 DEF Handled, Past
  <2> QED
    BY <1>5, <2>2, <2>3, RatingStays
<1>13. CASE left # {}
  <2>1. writer'[w].stage = "reading" /\ writer'[w].todo = left
    BY <1>3, <1>13 DEF AfterReading
  <2>2. RatesFresh(w)'
    BY <1>3, <1>5, <1>11, <2>1 DEF RatesFresh, Counts, Rated, Past
  <2>3. \A a : ~Handled(w, a) /\ ~Handled(w, a)'
    BY <1>5, <2>1 DEF Handled, Past
  <2> QED
    BY <1>5, <2>2, <2>3, RatingStays
<1> QED
  BY <1>12, <1>13

LEMMA RegisterCounts ==
  ASSUME ServiceInv, Counts, NEW w, Writers = {w}, request[w].stage = "rating",
         TakeOrder(w) \/ PutMarker(w), UNCHANGED serviceVars
  PROVE  Counts'
<1>1. writer \in [Writers -> Writer]
  BY DEF ServiceInv, LedgerInv, LedgerTypeOK
<1>2. /\ writer'[w].outcome = writer[w].outcome /\ writer'[w].todo = writer[w].todo
      /\ writer'[w].priors = writer[w].priors
      /\ writer[w].stage \in Past /\ writer'[w].stage \in Past
      /\ UNCHANGED <<entries, table, request>>
  BY <1>1 DEF TakeOrder, PutMarker, Writer, Past, AfterPutting, serviceVars
<1>3. RatesFresh(w)'
  BY <1>2 DEF Counts, RatesFresh, Fresh, At, Past, Rated
<1>4. \A i : Handled(w, i)' <=> Handled(w, i)
  BY <1>2 DEF Handled, At
<1> QED
  BY <1>2, <1>3, <1>4, RatingStays

\* While requests run one at a time, the put of an entry is never refused.
LEMMA NeverRefused ==
  ASSUME ServiceInv, Counts, NEW w, Writers = {w}, request[w].stage = "rating"
  PROVE  ~EntryRefused(w)
<1> SUFFICES ASSUME EntryRefused(w) PROVE FALSE
  OBVIOUS
<1>1. PICK k \in writer[w].todo :
        writer[w].priors[At(w, k)].count + 1 \in DOMAIN entries[At(w, k)]
  BY DEF EntryRefused
<1>2. writer[w].stage = "putting"
  BY DEF EntryRefused
<1>3. Fresh(w, k)
  BY <1>2 DEF Counts, RatesFresh, Past
<1>4. At(w, k) \in Identities /\ entries[At(w, k)] \in Seq(Entry)
  BY NextPosition DEF ServiceInv, LedgerInv, LedgerTypeOK
<1> QED
  BY <1>1, <1>3, <1>4 DEF Fresh

LEMMA PutEntryCounts ==
  ASSUME DeltasAreIntegers, ServiceInv, SerialInv, Counts, NEW w, Writers = {w},
         request[w].stage = "rating", PutEntry(w), UNCHANGED serviceVars
  PROVE  Counts'
<1>1. PICK k \in writer[w].todo :
        LET i == At(w, k)
            n == Len(entries[i]) IN
        /\ i \in Identities
        /\ entries' = [entries EXCEPT ![i] = WithItem(@, n + 1, NewEntry(w, i))]
        /\ entries'[i] \in Seq(Entry)
        /\ Len(entries'[i]) = n + 1
        /\ \A j \in 1..n : entries'[i][j] = entries[i][j]
        /\ entries'[i][n + 1] = NewEntry(w, i)
        /\ writer' = [writer EXCEPT
             ![w].todo = writer[w].todo \ {k}, ![w].at = k,
             ![w].stage = IF n = 0 THEN "counting"
                          ELSE AfterPutting(writer[w].todo \ {k})]
  <2>1. LedgerInv
    BY DEF ServiceInv
  <2> QED
    BY <2>1, PutAppends
<1> DEFINE i == At(w, k)
           n == Len(entries[i])
           left == writer[w].todo \ {k}
           out == writer[w].outcome
           m == writer[w].match
<1>2. /\ writer \in [Writers -> Writer] /\ out \in Outcome
      /\ writer[w].todo \subseteq FirstSeen(out) /\ entries \in [Identities -> Seq(Entry)]
  BY DEF ServiceInv, LedgerInv, LedgerTypeOK, Writer
<1>3. /\ writer'[w].outcome = out /\ writer'[w].todo = left /\ writer'[w].match = m
      /\ writer'[w].priors = writer[w].priors
      /\ writer'[w].stage \in Past /\ writer[w].stage \in Past
  BY <1>1, <1>2 DEF Writer, Past, AfterPutting, PutEntry
<1>4. UNCHANGED <<table, request>>
  BY DEF serviceVars
<1>5. m = request[w].id /\ request[w].match.status = "completed" /\ m \in MatchIds
  <2>1. InHand(w) /\ RequestOK(request[w])
    BY DEF ServiceInv, ServiceTypeOK
  <2> QED
    BY <2>1 DEF InHand, RequestOK
<1>6. \A j \in FirstSeen(out) : At(w, j)' = At(w, j) /\ (At(w, j) = i => j = k)
  BY <1>2, <1>3, FirstSeenOnce DEF At
<1>7. n \in Nat /\ DOMAIN entries[i] = 1..n /\ DOMAIN entries'[i] = 1..(n + 1)
      /\ i \in Identities
  <2>1. i \in Identities /\ entries[i] \in Seq(Entry) /\ entries'[i] \in Seq(Entry)
        /\ Len(entries'[i]) = n + 1
    BY <1>1, <1>2
  <2> QED
    BY <2>1
<1>8. /\ \A j \in 1..n : entries'[i][j] = entries[i][j]
      /\ entries'[i][n + 1].match = m
      /\ \A j \in Identities : j # i => entries'[j] = entries[j]
  BY <1>1, <1>2 DEF NewEntry
<1>9. ~HasEntry(i, m)
  <2>1. ~Told(i, m)
    <3>1. NextMatch(m, request[w].match) \/ NewMatch(m, request[w].match)
      BY <1>5 DEF SerialInv, Informed
    <3>2. table[m] # None => table[m].status \in {"active", "paused"}
      BY <3>1 DEF NextMatch, NewMatch, CanTakeTurn, CanPause, CanResume
    <3> QED
      BY <3>2 DEF Told, RatedIdentities, Rated
  <2>2. ~Handled(w, i)
    BY <1>2, <1>6 DEF Handled
  <2>3. ~Ahead(w, i, m)
    BY <2>2 DEF Ahead
  <2> QED
    BY <1>5, <1>7, <2>1, <2>3 DEF Counts
<1> HIDE DEF i, n, m
<1>10. ASSUME NEW a \in Identities PROVE OncePerMatch(a)'
  <2>1. CASE a # i
    BY <1>8, <2>1 DEF Counts, OncePerMatch
  <2>2. CASE a = i
    <3>1. \A j \in 1..n : entries'[i][j].match # m
      BY <1>7, <1>8, <1>9 DEF HasEntry
    <3>2. \A j, l \in 1..n : entries'[i][j].match = entries'[i][l].match => j = l
      BY <1>7, <1>8 DEF Counts, OncePerMatch
    <3>3. \A j \in 1..(n + 1) : j \in 1..n \/ j = n + 1
      BY <1>7
    <3> QED
      BY <1>7, <1>8, <2>2, <3>1, <3>2, <3>3 DEF OncePerMatch
  <2> QED
    BY <2>1, <2>2
<1>11. ASSUME NEW a \in Identities, NEW id \in MatchIds
       PROVE  HasEntry(a, id)' <=> HasEntry(a, id) \/ (a = i /\ id = m)
  <2>1. CASE a # i
    BY <1>8, <2>1 DEF HasEntry
  <2>2. CASE a = i
    <3>1. \A j \in 1..(n + 1) : j \in 1..n \/ j = n + 1
      BY <1>7
    <3>2. n + 1 \in 1..(n + 1) /\ \A j \in 1..n : j \in 1..(n + 1)
      BY <1>7
    <3> QED
      BY <1>7, <1>8, <2>2, <3>1, <3>2 DEF HasEntry
  <2> QED
    BY <2>1, <2>2
<1>12. \A a : Handled(w, a)' <=> Handled(w, a) \/ a = i
  BY <1>2, <1>3, <1>6 DEF Handled, i
<1>13. \A a \in Identities, id \in MatchIds :
         Ahead(w, a, id)' <=> Ahead(w, a, id) \/ (a = i /\ id = m)
  BY <1>4, <1>5, <1>12 DEF Ahead, RatedIdentities
<1>14. \A a, id : Told(a, id)' <=> Told(a, id)
  BY <1>4 DEF Told
<1>15. \A a \in Identities, id \in MatchIds :
         HasEntry(a, id)' <=> Told(a, id)' \/ Ahead(w, a, id)'
  BY <1>11, <1>13, <1>14 DEF Counts
<1>16. RatesFresh(w)'
  <2>1. ASSUME NEW j \in left PROVE Fresh(w, j)'
    <3>1. j \in FirstSeen(out) /\ j # k /\ At(w, j)' = At(w, j) /\ At(w, j) # i
      BY <1>2, <1>6
    <3>2. At(w, j) \in Identities
      BY <1>2, <3>1, OutcomePositions DEF At
    <3>3. Fresh(w, j)
      BY <1>3 DEF Counts, RatesFresh
    <3> QED
      BY <1>3, <1>8, <3>1, <3>2, <3>3 DEF Fresh
  <2>2. Rated(request[w].match)'
    BY <1>4 DEF Counts, RatesFresh, Rated
  <2>3. writer'[w].stage # "reading"
    BY <1>3 DEF Past
  <2> QED
    BY <1>3, <2>1, <2>2, <2>3 DEF RatesFresh
<1> QED
  BY <1>10, <1>15, <1>16 DEF Counts

\* When record_match returns, the ledger is as far ahead as it was.
LEMMA RateDoneKeepsAhead ==
  ASSUME ServiceInv, Counts, NEW w \in Writers, RateDone(w)
  PROVE  /\ UNCHANGED <<entries, table>>
         /\ request'[w].stage = "saving" /\ request'[w].id = request[w].id
         /\ request'[w].match = request[w].match
         /\ \A i, id : Ahead(w, i, id)' <=> Ahead(w, i, id)
<1> DEFINE m == request[w].match
           r == [request[w] EXCEPT !.stage = "saving"]
<1>1. /\ request[w].stage = "rating" /\ writer[w].stage = "done" /\ RequestOK(request[w])
      /\ UNCHANGED <<entries, table>> /\ InHand(w) /\ DOMAIN request = Writers
      /\ request' = [request EXCEPT ![w] = r]
  BY DEF RateDone, EndRecord, Abandon, ServiceInv, ServiceTypeOK, Goes
<1>2. r.stage = "saving" /\ r.id = request[w].id /\ r.match = m
  BY <1>1 DEF RequestOK, NoRequest
<1>3. request'[w] = r
  BY <1>1
<1>4. /\ IsMatch(m) /\ Rated(m) /\ writer[w].outcome = OutcomeOf(m) /\ writer[w].todo = {}
  BY <1>1 DEF RequestOK, InHand, Counts, RatesFresh
<1>5. \A i : Handled(w, i) <=> i \in RatedIdentities(m)
  <2>1. \A i : Handled(w, i) <=> \E k \in FirstSeen(OutcomeOf(m)) : OutcomeOf(m)[k].identity = i
    BY <1>1, <1>4 DEF Handled, Past, At
  <2> QED
    BY <1>4, <2>1, RatedByOutcome
<1> HIDE DEF r
<1>6. \A i, id : Ahead(w, i, id)' <=> Ahead(w, i, id)
  <2>1. \A i, id : Ahead(w, i, id) <=> id = request[w].id /\ Handled(w, i)
    BY <1>1 DEF Ahead
  <2>2. \A i, id : Ahead(w, i, id)' <=> id = r.id /\ i \in RatedIdentities(r.match)
    BY <1>2, <1>3 DEF Ahead, RatedIdentities, Rated
  <2> HIDE DEF m
  <2> QED
    BY <1>2, <1>5, <2>1, <2>2
<1> QED
  BY <1>1, <1>2, <1>3, <1>6

LEMMA RateDoneCounts ==
  ASSUME ServiceInv, Counts, NEW w, Writers = {w}, RateDone(w)
  PROVE  Counts'
<1>1. \A i, id : Told(i, id)' <=> Told(i, id)
  BY DEF RateDone, Told
<1>2. RatesFresh(w)'
  BY RateDoneKeepsAhead DEF RatesFresh
<1> QED
  BY <1>1, <1>2, RateDoneKeepsAhead, CountsStay

LEMMA SaveCounts ==
  ASSUME ServiceInv, SerialInv, Counts, NEW w, Writers = {w}, Save(w)
  PROVE  Counts'
<1> DEFINE id == request[w].id
           m == request[w].match
<1>1. /\ request[w].stage = "saving" /\ table' = [table EXCEPT ![id] = m]
      /\ request' = [request EXCEPT ![w] = NoRequest] /\ UNCHANGED entries
      /\ DOMAIN table = MatchIds /\ DOMAIN request = Writers /\ id \in MatchIds /\ IsMatch(m)
  BY DEF Save, Goes, ServiceInv, ServiceTypeOK, RequestOK, ledgerVars
<1>2. NewMatch(id, m) \/ NextMatch(id, m)
  BY <1>1 DEF SerialInv, Informed
<1>3. table[id] # None => table[id].status \in {"active", "paused"}
  BY <1>2 DEF NextMatch, NewMatch, CanTakeTurn, CanPause, CanResume
<1>4. \A i : ~Told(i, id)
  BY <1>3 DEF Told, RatedIdentities, Rated
<1>5. request'[w] = NoRequest /\ table'[id] = m
      /\ \A j \in MatchIds : j # id => table'[j] = table[j]
  BY <1>1
<1>6. \A i, j : ~Ahead(w, i, j)'
  BY <1>5, NoRequestOK DEF Ahead
<1>7. \A i, j : Ahead(w, i, j) <=> j = id /\ i \in RatedIdentities(m)
  BY <1>1 DEF Ahead
<1> HIDE DEF id, m
<1>8. ASSUME NEW i \in Identities, NEW j \in MatchIds
      PROVE  Told(i, j)' <=> Told(i, j) \/ Ahead(w, i, j)
  <2>1. CASE j = id
    <3>1. Told(i, j)' <=> m # None /\ i \in RatedIdentities(m)
      BY <1>5, <2>1 DEF Told, RatedIdentities, Rated
    <3>2. m # None
      BY <1>1, NoneIsNoMatch DEF IsMatch, m
    <3> QED
      BY <1>4, <1>7, <2>1, <3>1, <3>2
  <2>2. CASE j # id
    BY <1>5, <1>7, <2>2 DEF Told
  <2> QED
    BY <2>1, <2>2
<1>9. RatesFresh(w)'
  BY <1>5, NoRequestOK DEF RatesFresh
<1> QED
  BY <1>1, <1>6, <1>8, <1>9, CountsStay

LEMMA CountsStep ==
  ASSUME DeltasAreIntegers, OneAtATime, ServiceInv, SerialInv, CountsInv,
         [WatchedNext]_<<vars, died>>
  PROVE  CountsInv'
<1> SUFFICES ASSUME ~died' PROVE Counts'
  BY DEF CountsInv
<1>1. PICK w : Writers = {w}
  BY DEF OneAtATime
<1>2. ~LaggingReads /\ ~died
  <2>1. ~LaggingReads
    BY DEF OneAtATime
  <2>2. CASE WatchedNext
    BY <2>1, <2>2 DEF WatchedNext
  <2>3. CASE UNCHANGED <<vars, died>>
    BY <2>1, <2>3
  <2> QED
    BY <2>2, <2>3
<1>3. Counts
  BY <1>2 DEF CountsInv
<1>4. CASE Step(w) /\ ~Die(w)
  <2>1. CASE \/ ListIds(w) \/ CountOne(w) \/ CountFails(w)
             \/ Admit(w) \/ Refuse(w) \/ RejectBody(w)
    BY <1>1, <1>3, <2>1, CreateIsQuiet, CountsQuiet
  <2>2. CASE \E id \in MatchIds, by \in Callers, points \in Points : TakeTurn(w, id, by, points)
    BY <1>1, <1>3, <2>2, TakeTurnCounts
  <2>3. CASE \E id \in MatchIds, by \in Callers : Pause(w, id, by) \/ Resume(w, id, by)
    BY <1>1, <1>3, <2>3, PauseResumeIsQuiet, CountsQuiet
  <2>4. CASE Rate(w)
    BY <1>1, <1>2, <1>3, <2>4, ReadPriorCounts, PutEntryCounts, RegisterCounts DEF Rate
  <2>5. CASE RateDone(w)
    BY <1>1, <1>3, <2>5, RateDoneCounts
  <2>6. CASE RateFails(w)
    BY <1>1, <1>3, <2>6, NeverRefused DEF RateFails
  <2>7. CASE Save(w)
    BY <1>1, <1>3, <2>7, SaveCounts
  <2> QED
    BY <1>4, <2>1, <2>2, <2>3, <2>4, <2>5, <2>6, <2>7 DEF Step
<1>5. CASE UNCHANGED <<ledgerVars, table, request>>
  <2>1. \A i, id : (Told(i, id)' <=> Told(i, id)) /\ (Ahead(w, i, id)' <=> Ahead(w, i, id))
    BY <1>5 DEF Told, Ahead, Handled, At, RatedIdentities, ledgerVars
  <2>2. RatesFresh(w)'
    BY <1>1, <1>3, <1>5 DEF Counts, RatesFresh, Fresh, At, Rated, ledgerVars
  <2> QED
    BY <1>1, <1>3, <1>5, <2>1, <2>2, CountsStay DEF ledgerVars
<1>6. CASE \E id \in MatchIds : Replicate(id)
  BY <1>5, <1>6 DEF Replicate
<1>7. CASE UNCHANGED <<vars, died>>
  BY <1>5, <1>7 DEF vars, serviceVars
<1> QED
  BY <1>1, <1>4, <1>6, <1>7 DEF WatchedNext, Next

LEMMA CountsStarts ==
  Init => Counts
<1> SUFFICES ASSUME Init PROVE Counts
  OBVIOUS
<1>1. \A w \in Writers : request[w] = NoRequest
  BY DEF Init
<1>2. \A i \in Identities : DOMAIN entries[i] = {}
  BY DEF Init, LedgerInit
<1>3. \A id \in MatchIds : table[id] = None
  BY DEF Init
<1> QED
  BY <1>1, <1>2, <1>3, NoRequestOK DEF Counts, OncePerMatch, HasEntry, Told, Ahead, RatesFresh

\* An identity has one entry for each match that rates it.
LEMMA EntriesCount ==
  ASSUME ServiceInv, Counts, \A w \in Writers : Idle(w), NEW i \in Identities
  PROVE  Len(entries[i]) =
           Cardinality({id \in MatchIds : table[id] # None /\ i \in RatedIdentities(table[id])})
<1> DEFINE S == {id \in MatchIds : table[id] # None /\ i \in RatedIdentities(table[id])}
           n == Len(entries[i])
           f == [k \in 1..n |-> entries[i][k].match]
<1>1. entries[i] \in Seq(Entry)
  BY DEF ServiceInv, LedgerInv, LedgerTypeOK
<1>2. n \in Nat /\ DOMAIN entries[i] = 1..n /\ \A k \in 1..n : entries[i][k].match \in MatchIds
  <2>1. n \in Nat /\ DOMAIN entries[i] = 1..n
    BY <1>1
  <2>2. \A k \in 1..n : entries[i][k] \in Entry
    BY <1>1
  <2> QED
    BY <2>1, <2>2 DEF Entry
<1>3. \A id \in MatchIds : HasEntry(i, id) <=> id \in S
  <2>1. \A w \in Writers : \A id : ~Ahead(w, i, id)
    BY DEF Idle, Ahead
  <2> QED
    BY <2>1 DEF Counts, Told
<1> HIDE DEF S
<1>4. f \in [1..n -> S]
  BY <1>2, <1>3 DEF HasEntry
<1>5. \A j, k \in 1..n : f[j] = f[k] => j = k
  BY <1>2 DEF Counts, OncePerMatch
<1>6. \A id \in S : \E k \in 1..n : f[k] = id
  BY <1>2, <1>3 DEF HasEntry, S
<1> HIDE DEF f, n
<1>7. ExistsBijection(1..n, S)
  BY <1>4, <1>5, <1>6 DEF ExistsBijection, Bijection, Injection, Surjection, IsInjective
<1>8. Cardinality(S) = n
  BY <1>2, <1>7, FS_CountingElements
<1> QED
  BY <1>8 DEF S, n

\* While requests run one at a time and none has died, an identity's match count
\* is its number of completed matches: record_match is called once for each.
THEOREM CountsWhileAlive ==
  ASSUME DeltasAreIntegers, OneAtATime
  PROVE  WatchedSpec => []CountsUntilDeath
<1>1. WatchedInit => Init /\ CountsInv
  BY CountsStarts DEF WatchedInit, CountsInv
<1>2. [WatchedNext]_<<vars, died>> => [Next]_vars
  BY DEF WatchedNext
<1>3. ServiceInv /\ SerialInv /\ CountsInv /\ [WatchedNext]_<<vars, died>> => CountsInv'
  BY CountsStep
<1>4. ServiceInv /\ SerialInv /\ [Next]_vars => SerialInv'
  BY SerialSteps
<1>5. ServiceInv /\ CountsInv => CountsUntilDeath
  BY EntriesCount DEF CountsInv, CountsUntilDeath, CountsCompletedMatches
<1>6. WatchedSpec => Spec
  BY <1>1, <1>2, PTL DEF WatchedSpec, Spec
<1> QED
  BY <1>1, <1>3, <1>4, <1>5, <1>6, SerialStarts, ServiceInvariant, PTL
     DEF WatchedSpec, Spec

-----------------------------------------------------------------------------
(* A completed match, from the table to the dataset *)

\* The result of a match as an item has it, with numbers of one type.
Dict(type, r) ==
  [winner_participant_id |-> r.winner,
   scores |-> [p \in DOMAIN r.scores |-> Number(type, r.scores[p])]]

\* Items that differ in their result alone.
SameButResult(a, b) ==
  DOMAIN a = DOMAIN b /\ \A f \in DOMAIN b : f # "result" => a[f] = b[f]

LEMMA ScoresReplaced ==
  ASSUME NEW item, "result" \in DOMAIN item, NEW type, NEW r, item.result = Dict(type, r), NEW F
  PROVE  LET out == [item EXCEPT !.result.scores = F] IN
         /\ out.result = [winner_participant_id |-> r.winner, scores |-> F]
         /\ SameButResult(out, item)
BY DEF Dict, SameButResult

LEMMA Converted ==
  ASSUME NEW item, "result" \in DOMAIN item, NEW r, NEW from, item.result = Dict(from, r), NEW to,
         NEW out, out = [item EXCEPT !.result.scores =
                           [p \in DOMAIN r.scores |-> Number(to, r.scores[p])]]
  PROVE  out.result = Dict(to, r) /\ SameButResult(out, item)
<1> DEFINE F == [p \in DOMAIN r.scores |-> Number(to, r.scores[p])]
<1>1. out = [item EXCEPT !.result.scores = F]
  OBVIOUS
<1>2. Dict(to, r) = [winner_participant_id |-> r.winner, scores |-> F]
  BY DEF Dict
<1> HIDE DEF F
<1> QED
  BY <1>1, <1>2, ScoresReplaced

LEMMA NumbersStored ==
  ASSUME NEW item, "result" \in DOMAIN item, NEW r, item.result = Dict("float", r),
         item.result # None
  PROVE  /\ DynamoNumbers(item).result = Dict("Decimal", r)
         /\ SameButResult(DynamoNumbers(item), item)
<1>1. [p \in DOMAIN item.result.scores |->
         IF item.result.scores[p].type = "float"
           THEN Number("Decimal", item.result.scores[p].value) ELSE item.result.scores[p]]
      = [p \in DOMAIN r.scores |-> Number("Decimal", r.scores[p])]
  BY DEF Dict, Number
<1>2. DynamoNumbers(item) =
        [item EXCEPT !.result.scores = [p \in DOMAIN r.scores |-> Number("Decimal", r.scores[p])]]
  BY <1>1 DEF DynamoNumbers
<1> QED
  BY <1>2, Converted

LEMMA NumbersGot ==
  ASSUME NEW item, "result" \in DOMAIN item, NEW r, item.result = Dict("Decimal", r),
         item.result # None
  PROVE  /\ GotItem(item).result = Dict("Decimal", r)
         /\ SameButResult(GotItem(item), item)
<1>1. [p \in DOMAIN item.result.scores |-> Number("Decimal", item.result.scores[p].value)]
      = [p \in DOMAIN r.scores |-> Number("Decimal", r.scores[p])]
  BY DEF Dict, Number
<1>2. GotItem(item) =
        [item EXCEPT !.result.scores = [p \in DOMAIN r.scores |-> Number("Decimal", r.scores[p])]]
  BY <1>1 DEF GotItem
<1> QED
  BY <1>2, Converted

LEMMA NumbersPlain ==
  ASSUME NEW item, "result" \in DOMAIN item, NEW r, item.result = Dict("Decimal", r),
         item.result # None
  PROVE  /\ PlainNumbers(item).result = Dict("int", r)
         /\ SameButResult(PlainNumbers(item), item)
<1>1. [p \in DOMAIN item.result.scores |->
         IF item.result.scores[p].type = "Decimal"
           THEN Number("int", item.result.scores[p].value) ELSE item.result.scores[p]]
      = [p \in DOMAIN r.scores |-> Number("int", r.scores[p])]
  BY DEF Dict, Number
<1>2. PlainNumbers(item) =
        [item EXCEPT !.result.scores = [p \in DOMAIN r.scores |-> Number("int", r.scores[p])]]
  BY <1>1 DEF PlainNumbers
<1> QED
  BY <1>2, Converted

\* What comes back from the table of a match that was saved as completed.
LEMMA LoadedFinished ==
  ASSUME NEW id, NEW m, IsMatch(m), m.status = "completed"
  PROVE  LET item == SavedItem(id, m, IdentityOf)
             match == LoadedMatch(item) IN
         /\ Storable(item)
         /\ match.status = "completed"
         /\ match.participants =
              [k \in DOMAIN m.seats |-> ParticipantToDict(m.seats[k], IdentityOf[m.seats[k]])]
         /\ match.result # None
         /\ match.result.scores =
              [p \in Seated(m.seats) |-> Number("int", m.result.scores[p])]
<1> DEFINE r == m.result
           item0 == ToItem(id, m, IdentityOf)
           item1 == DynamoNumbers(item0)
           item2 == GotItem(item1)
           item3 == PlainNumbers(item2)
           Typed == [Seated(m.seats) -> [type : {"float", "Decimal", "int"}, value : Nat]]
<1>1. m.seats \in Seatings /\ r \in Result(m.seats)
  BY DEF IsMatch
<1>2. /\ r.winner \in Callers \cup {None} /\ r.scores \in [Seated(m.seats) -> Nat]
      /\ DOMAIN r.scores = Seated(m.seats)
  BY <1>1 DEF Result
<1>3. /\ None \notin Result(m.seats)
      /\ None \notin [winner_participant_id : Callers \cup {None}, scores : Typed]
      /\ None \notin [winner : Callers \cup {None}, scores : Typed]
  BY <1>1, NoneIsNoRecord
<1>4. ASSUME NEW type \in {"float", "Decimal", "int"}
      PROVE  /\ Dict(type, r).scores \in Typed
             /\ Dict(type, r) # None
             /\ [winner |-> r.winner, scores |-> Dict(type, r).scores] # None
  <2> DEFINE S == Dict(type, r).scores
  <2>1. S = [p \in Seated(m.seats) |-> Number(type, r.scores[p])]
    BY <1>2 DEF Dict
  <2>2. \A p \in Seated(m.seats) :
          Number(type, r.scores[p]) \in [type : {"float", "Decimal", "int"}, value : Nat]
    BY <1>2 DEF Number
  <2>3. S \in Typed
    BY <2>1, <2>2
  <2>4. Dict(type, r) = [winner_participant_id |-> r.winner, scores |-> S]
    BY DEF Dict
  <2> HIDE DEF S, Typed
  <2>5. Dict(type, r) # None
    BY <1>2, <1>3, <2>3, <2>4
  <2>6. [winner |-> r.winner, scores |-> S] # None
    BY <1>2, <1>3, <2>3
  <2> QED
    BY <2>3, <2>5, <2>6 DEF S
<1>5. /\ item0.result = Dict("float", r) /\ "result" \in DOMAIN item0
      /\ "status" \in DOMAIN item0 /\ "participants" \in DOMAIN item0
      /\ item0.status = m.status
      /\ item0.participants =
           [k \in DOMAIN m.seats |-> ParticipantToDict(m.seats[k], IdentityOf[m.seats[k]])]
  BY <1>1, <1>3 DEF ToItem, ResultToDict, Dict
<1> HIDE DEF item0, r
<1>6. item1.result = Dict("Decimal", r) /\ SameButResult(item1, item0)
  BY <1>4, <1>5, NumbersStored
<1>7. "result" \in DOMAIN item1
  BY <1>5, <1>6 DEF SameButResult
<1> HIDE DEF item1
<1>8. item2.result = Dict("Decimal", r) /\ SameButResult(item2, item1)
  BY <1>4, <1>6, <1>7, NumbersGot
<1>9. "result" \in DOMAIN item2
  BY <1>7, <1>8 DEF SameButResult
<1> HIDE DEF item2
<1>10. item3.result = Dict("int", r) /\ SameButResult(item3, item2)
  BY <1>4, <1>8, <1>9, NumbersPlain
<1> HIDE DEF item3
<1>11. item3.status = item0.status /\ item3.participants = item0.participants
  BY <1>5, <1>6, <1>8, <1>10 DEF SameButResult
<1>12. Storable(item1)
  BY <1>6 DEF Storable, Dict, Number
<1> DEFINE match == FromItem(item3)
<1>13. /\ match.status = item3.status /\ match.result = ResultFromDict(item3.result)
       /\ match.participants = [k \in DOMAIN item3.participants |->
                                  ParticipantFromDict(item3.participants[k])]
  BY DEF FromItem
<1> HIDE DEF match
<1>14. match.participants = item0.participants
  <2>1. \A p, i : ParticipantFromDict(ParticipantToDict(p, i)) = ParticipantToDict(p, i)
    BY DEF ParticipantFromDict, ParticipantToDict
  <2> QED
    BY <1>5, <1>11, <1>13, <2>1
<1>15. match.result = [winner |-> r.winner, scores |-> Dict("int", r).scores]
  <2>1. Dict("int", r).winner_participant_id = r.winner
    BY DEF Dict
  <2> QED
    BY <1>4, <1>10, <1>13, <2>1 DEF ResultFromDict
<1>16. Dict("int", r).scores = [p \in Seated(m.seats) |-> Number("int", r.scores[p])]
  BY <1>2 DEF Dict
<1>17. match.result # None /\ match.result.scores = Dict("int", r).scores
  BY <1>4, <1>15
<1>18. match = LoadedMatch(SavedItem(id, m, IdentityOf)) /\ item1 = SavedItem(id, m, IdentityOf)
  BY DEF match, item3, item2, item1, item0, LoadedMatch, SavedItem
<1> QED
  BY <1>5, <1>11, <1>12, <1>13, <1>14, <1>16, <1>17, <1>18 DEF r

\* An identity survives its way through a participant of an item, and into the dataset.
LEMMA IdentityBack ==
  ASSUME NEW p, NEW i \in Identities, NEW match
  PROVE  LET participant == ParticipantToDict(p, i)
             exported == ParticipantRecord(match, participant) IN
         /\ participant.participant_id = p
         /\ FromParticipant(participant) = i
         /\ IdentityIn(exported) = i
         /\ exported.hard_score = HardScore(match, p)
<1> DEFINE participant == ParticipantToDict(p, i)
           exported == ParticipantRecord(match, participant)
           agent == [model |-> i.model, provider |-> i.provider]
<1>1. /\ i.kind \in {"human", "agent"} /\ i.display_name \in Nat
      /\ i.model \in Nat \cup {None} /\ i.provider \in Nat \cup {None}
      /\ i = [kind |-> i.kind, display_name |-> i.display_name, model |-> i.model,
              provider |-> i.provider]
  <2> DEFINE kinds == {"human", "agent"}
             optional == Nat \cup {None}
  <2>1. i \in [kind : kinds, display_name : Nat, model : optional, provider : optional]
    BY IdentitiesAssumption
  <2> HIDE DEF kinds, optional
  <2>2. /\ i.kind \in kinds /\ i.display_name \in Nat
        /\ i.model \in optional /\ i.provider \in optional
        /\ i = [kind |-> i.kind, display_name |-> i.display_name, model |-> i.model,
                provider |-> i.provider]
    BY <2>1
  <2> QED
    BY <2>2 DEF kinds, optional
<1>2. IF i.kind = "agent" THEN i.model # None /\ i.provider # None
                          ELSE i.model = None /\ i.provider = None
  BY IdentitiesAssumption DEF IsRatingIdentity
<1>3. i.kind = "agent" => agent # None
  <2>1. i.kind = "agent" => agent \in [model : Nat, provider : Nat]
    BY <1>1, <1>2
  <2> QED
    BY <2>1, NoneIsNoRecord
<1>4. /\ participant.participant_id = p /\ participant.kind = i.kind
      /\ participant.display_name = i.display_name
      /\ participant.agent_identity = IF i.kind = "agent" THEN agent ELSE None
  BY DEF ParticipantToDict
<1> HIDE DEF participant
<1>5. FromParticipant(participant) =
        [kind |-> i.kind, display_name |-> i.display_name, model |-> i.model,
         provider |-> i.provider]
  <2>1. CASE i.kind = "agent"
    <3>1. participant.agent_identity = agent /\ agent # None
      BY <1>3, <1>4, <2>1
    <3>2. /\ participant.agent_identity.model = i.model
          /\ participant.agent_identity.provider = i.provider
      BY <3>1
    <3> QED
      BY <1>4, <3>1, <3>2 DEF FromParticipant
  <2>2. CASE i.kind # "agent"
    BY <1>2, <1>4, <2>2 DEF FromParticipant
  <2> QED
    BY <2>1, <2>2
<1>6. /\ exported.kind = i.kind /\ exported.display_name = i.display_name
      /\ exported.model = i.model /\ exported.provider = i.provider
      /\ exported.hard_score = HardScore(match, p)
  <2> DEFINE getters ==
        [participant_id |-> participant.participant_id, kind |-> participant.kind,
         display_name |-> participant.display_name,
         model |-> IF participant.kind = "agent" THEN participant.agent_identity.model ELSE None,
         provider |-> IF participant.kind = "agent" THEN participant.agent_identity.provider
                                                   ELSE None,
         hard_score |-> HardScore(match, participant.participant_id)]
  <2>1. exported = Allowed(getters, ParticipantFields)
    BY DEF ParticipantRecord
  <2>2. DOMAIN getters \cap ParticipantFields =
          {"participant_id", "kind", "display_name", "model", "provider", "hard_score"}
    BY DEF ParticipantFields
  <2>3. /\ getters.kind = i.kind /\ getters.display_name = i.display_name
        /\ getters.hard_score = HardScore(match, p)
    BY <1>4
  <2>4. getters.model = i.model /\ getters.provider = i.provider
    <3>1. CASE i.kind = "agent"
      <4>1. participant.agent_identity.model = i.model
            /\ participant.agent_identity.provider = i.provider
        BY <1>4, <3>1
      <4> QED
        BY <1>4, <3>1, <4>1
    <3>2. CASE i.kind # "agent"
      BY <1>2, <1>4, <3>2
    <3> QED
      BY <3>1, <3>2
  <2> HIDE DEF getters
  <2>5. \A f \in {"kind", "display_name", "model", "provider", "hard_score"} :
          exported[f] = getters[f]
    BY <2>1, <2>2 DEF Allowed
  <2> QED
    BY <2>3, <2>4, <2>5
<1> HIDE DEF exported
<1>7. IdentityIn(exported) = i
  BY <1>1, <1>6 DEF IdentityIn
<1> QED
  BY <1>1, <1>4, <1>5, <1>6, <1>7 DEF participant, exported

\* When everybody was scored, nobody is filtered out.
LEMMA AllScored ==
  ASSUME NEW line, NEW n \in Nat, DOMAIN line.participants = 1..n,
         \A k \in 1..n : line.participants[k].hard_score # None
  PROVE  OutcomeIn(line) =
           [k \in 1..n |-> [identity |-> IdentityIn(line.participants[k]),
                            score |-> line.participants[k].hard_score]]
<1> DEFINE scored == {k \in DOMAIN line.participants : line.participants[k].hard_score # None}
           Nth(j) == line.participants[CHOOSE k \in scored : Cardinality(scored \cap (1..k)) = j]
<1>1. scored = 1..n
  OBVIOUS
<1>0. \A k \in Nat : Cardinality(1..k) = k
  BY FS_Interval
<1>2. Cardinality(scored) = n
  BY <1>0, <1>1
<1>3. ASSUME NEW j \in 1..n PROVE Nth(j) = line.participants[j]
  <2> DEFINE c == CHOOSE k \in scored : Cardinality(scored \cap (1..k)) = j
  <2>1. ASSUME NEW k \in scored PROVE Cardinality(scored \cap (1..k)) = k
    <3>1. scored \cap (1..k) = 1..k /\ k \in Nat /\ k >= 1
      BY <1>1, <2>1
    <3> QED
      BY <1>0, <3>1
  <2>2. c \in scored /\ Cardinality(scored \cap (1..c)) = j
    BY <1>1, <2>1
  <2>3. c = j
    BY <2>1, <2>2
  <2> QED
    BY <2>3
<1>4. OutcomeIn(line) = [j \in 1..Cardinality(scored) |->
                          [identity |-> IdentityIn(Nth(j)), score |-> Nth(j).hard_score]]
  BY DEF OutcomeIn
<1> HIDE DEF scored, Nth
<1> QED
  BY <1>2, <1>3, <1>4

\* The line that the dataset has of match m, saved as id.
LineOf(id, m) == ExportedMatch(LoadedMatch(SavedItem(id, m, IdentityOf)))
Line(id) == LineOf(id, table[id])

\* Reading a line of the dataset gives the very outcome that outcome_from_match
\* made of the match: nothing is lost on the way through the item, _dynamo_numbers,
\* _plain_numbers and the allowlist of schema.py.
THEOREM LineTellsOutcome ==
  ASSUME NEW id, NEW m, IsMatch(m), m.status = "completed"
  PROVE  OutcomeIn(LineOf(id, m)) = OutcomeOf(m)
<1> DEFINE match == LoadedMatch(SavedItem(id, m, IdentityOf))
           line == LineOf(id, m)
           P(k) == ParticipantToDict(m.seats[k], IdentityOf[m.seats[k]])
<1>1. /\ match.participants =
          [k \in DOMAIN m.seats |-> ParticipantToDict(m.seats[k], IdentityOf[m.seats[k]])]
      /\ match.result # None
      /\ match.result.scores = [p \in Seated(m.seats) |-> Number("int", m.result.scores[p])]
  BY LoadedFinished
<1>2. /\ m.seats \in Seatings /\ m.result.scores \in [Seated(m.seats) -> Nat]
      /\ DOMAIN m.seats = 1..Len(m.seats) /\ Len(m.seats) \in Nat
      /\ \A k \in DOMAIN m.seats : m.seats[k] \in Callers /\ m.seats[k] \in Seated(m.seats)
  BY SeatsOK DEF IsMatch, Result
<1>3. line.participants = [k \in DOMAIN match.participants |->
                             ParticipantRecord(match, match.participants[k])]
  <2> DEFINE getters ==
        [match_id |-> match.match_id, turn_count |-> Len(match.turns),
         participants |-> [k \in DOMAIN match.participants |->
                             ParticipantRecord(match, match.participants[k])],
         result |-> ResultRecord(match), game_state |-> match.game]
  <2>1. line = Allowed(getters, MatchFields)
    BY DEF ExportedMatch, LineOf
  <2>2. "participants" \in DOMAIN getters \cap MatchFields
    BY DEF MatchFields
  <2>3. getters.participants = [k \in DOMAIN match.participants |->
                                  ParticipantRecord(match, match.participants[k])]
    OBVIOUS
  <2> HIDE DEF getters
  <2> QED
    BY <2>1, <2>2, <2>3 DEF Allowed
<1> HIDE DEF line, match
<1>4. \A p \in Seated(m.seats) : HardScore(match, p) = m.result.scores[p]
  BY <1>1 DEF HardScore, Number
<1>5. DOMAIN line.participants = DOMAIN m.seats
  BY <1>1, <1>3
<1>6. ASSUME NEW k \in DOMAIN m.seats
      PROVE  /\ line.participants[k].hard_score = m.result.scores[m.seats[k]]
             /\ line.participants[k].hard_score # None
             /\ IdentityIn(line.participants[k]) = IdentityOf[m.seats[k]]
  <2>1. m.seats[k] \in Seated(m.seats) /\ IdentityOf[m.seats[k]] \in Identities
    BY <1>2, ServiceAssumption
  <2>2. line.participants[k] = ParticipantRecord(match, P(k))
    BY <1>1, <1>3
  <2>3. /\ IdentityIn(ParticipantRecord(match, P(k))) = IdentityOf[m.seats[k]]
        /\ ParticipantRecord(match, P(k)).hard_score = HardScore(match, m.seats[k])
    BY <2>1, IdentityBack
  <2>4. m.result.scores[m.seats[k]] \in Nat
    BY <1>2, <2>1
  <2> HIDE DEF P
  <2> QED
    BY <1>4, <2>1, <2>2, <2>3, <2>4, NoneAssumption
<1>7. OutcomeIn(line) = [k \in 1..Len(m.seats) |->
                          [identity |-> IdentityIn(line.participants[k]),
                           score |-> line.participants[k].hard_score]]
  BY <1>2, <1>5, <1>6, AllScored
<1>8. OutcomeIn(line) = OutcomeOf(m)
  BY <1>2, <1>6, <1>7 DEF OutcomeOf
<1> QED
  BY <1>8 DEF line

-----------------------------------------------------------------------------
(* Rating a dataset line by line *)

\* The standings that the first N lines lead through.
Standings(lines, N, g) ==
  g = [n \in 0..N |-> IF n = 0 THEN Unrated ELSE Rerate(g[n - 1], OutcomeIn(lines[n]))]

LEMMA StandingsExtend ==
  ASSUME NEW lines, NEW N \in Nat, NEW g, Standings(lines, N, g),
         NEW more, \A n \in 1..N : more[n] = lines[n]
  PROVE  \E h : /\ Standings(more, N + 1, h)
                /\ h[N + 1] = Rerate(g[N], OutcomeIn(more[N + 1]))
<1> DEFINE next == Rerate(g[N], OutcomeIn(more[N + 1]))
           h == [n \in 0..(N + 1) |-> IF n = N + 1 THEN next ELSE g[n]]
<1>1. \A n \in 0..N : h[n] = g[n]
  OBVIOUS
<1>2. h[N + 1] = next
  OBVIOUS
<1>3. ASSUME NEW n \in 0..(N + 1)
      PROVE  h[n] = IF n = 0 THEN Unrated ELSE Rerate(h[n - 1], OutcomeIn(more[n]))
  <2>1. CASE n = N + 1
    <3>1. h[n - 1] = g[N] /\ n # 0
      BY <1>1, <2>1
    <3> QED
      BY <1>2, <2>1, <3>1
  <2>2. CASE n \in 1..N
    <3>1. h[n - 1] = g[n - 1] /\ h[n] = g[n] /\ more[n] = lines[n]
      BY <1>1, <2>2
    <3>2. g[n] = Rerate(g[n - 1], OutcomeIn(lines[n]))
      BY <2>2 DEF Standings
    <3> QED
      BY <2>2, <3>1, <3>2
  <2>3. CASE n = 0
    BY <1>1, <2>3 DEF Standings
  <2> QED
    BY <2>1, <2>2, <2>3
<1>4. h = [n \in 0..(N + 1) |-> h[n]]
  OBVIOUS
<1> HIDE DEF h, next
<1>5. Standings(more, N + 1, h)
  BY <1>3, <1>4 DEF Standings
<1> QED
  BY <1>2, <1>5 DEF next

LEMMA StandingsExist ==
  ASSUME NEW lines, NEW N \in Nat
  PROVE  \E g : Standings(lines, N, g)
<1> DEFINE Without == {n \in Nat : ~ \E g : Standings(lines, n, g)}
<1>1. Without \in SUBSET Nat
  OBVIOUS
<1>2. ASSUME Without # {} PROVE FALSE
  <2> HIDE DEF Without
  <2>1. PICK n \in Without : \A m \in Without : n <= m
    BY <1>1, <1>2, LeastElement
  <2> USE DEF Without
  <2>2. n # 0
    <3>1. Standings(lines, 0, [k \in 0..0 |-> Unrated])
      BY DEF Standings
    <3> QED
      BY <2>1, <3>1
  <2>3. n - 1 \in Nat /\ n - 1 \notin Without
    BY <2>1, <2>2
  <2>4. PICK g : Standings(lines, n - 1, g)
    BY <2>3
  <2>5. \E h : Standings(lines, (n - 1) + 1, h)
    BY <2>3, <2>4, StandingsExtend
  <2>6. (n - 1) + 1 = n
    BY <2>3
  <2> QED
    BY <2>1, <2>5, <2>6
<1> QED
  BY <1>2

LEMMA StandingsUnique ==
  ASSUME NEW lines, NEW N \in Nat, NEW g, NEW h, Standings(lines, N, g), Standings(lines, N, h)
  PROVE  g[N] = h[N]
<1> DEFINE Apart == {n \in 0..N : g[n] # h[n]}
<1>1. Apart \in SUBSET Nat
  OBVIOUS
<1>2. ASSUME Apart # {} PROVE FALSE
  <2> HIDE DEF Apart
  <2>1. PICK n \in Apart : \A m \in Apart : n <= m
    BY <1>1, <1>2, LeastElement
  <2> USE DEF Apart
  <2>2. n # 0
    BY <2>1 DEF Standings
  <2>3. n - 1 \in 0..N /\ g[n - 1] = h[n - 1]
    BY <2>1, <2>2
  <2>4. /\ g[n] = Rerate(g[n - 1], OutcomeIn(lines[n]))
        /\ h[n] = Rerate(h[n - 1], OutcomeIn(lines[n]))
    BY <2>1, <2>2 DEF Standings
  <2> QED
    BY <2>1, <2>3, <2>4
<1> QED
  BY <1>2

LEMMA ReratedIsLast ==
  ASSUME NEW lines, Len(lines) \in Nat, NEW g, Standings(lines, Len(lines), g)
  PROVE  Rerated(lines) = g[Len(lines)]
<1> DEFINE r == CHOOSE f : Standings(lines, Len(lines), f)
<1>1. Standings(lines, Len(lines), r)
  OBVIOUS
<1>2. Rerated(lines) = r[Len(lines)]
  BY Zenon DEF Rerated, Standings
<1> QED
  BY <1>1, <1>2, StandingsUnique

LEMMA ReratedNothing ==
  Rerated(<< >>) = Unrated
<1>1. Len(<< >>) = 0
  OBVIOUS
<1>2. PICK g : Standings(<< >>, 0, g)
  BY StandingsExist
<1>3. g[0] = Unrated
  BY <1>2 DEF Standings
<1> QED
  BY <1>1, <1>2, <1>3, ReratedIsLast

\* One more line is rated after all before it.
LEMMA ReratedOneMore ==
  ASSUME NEW N \in Nat, NEW lines, Len(lines) = N, NEW more, Len(more) = N + 1,
         \A n \in 1..N : more[n] = lines[n]
  PROVE  Rerated(more) = Rerate(Rerated(lines), OutcomeIn(more[N + 1]))
<1>1. PICK g : Standings(lines, N, g)
  BY StandingsExist
<1>2. PICK h : /\ Standings(more, N + 1, h)
               /\ h[N + 1] = Rerate(g[N], OutcomeIn(more[N + 1]))
  BY <1>1, StandingsExtend
<1>3. Rerated(lines) = g[N]
  BY <1>1, ReratedIsLast
<1>4. Rerated(more) = h[N + 1]
  BY <1>2, ReratedIsLast
<1> QED
  BY <1>2, <1>3, <1>4

-----------------------------------------------------------------------------
(* The order of the leaderboard *)

Keys == Nat \X Nat \X Nat \X Nat

LEMMA PrecedesIs ==
  ASSUME NEW a \in Keys, NEW b \in Keys
  PROVE  Precedes(a, b) <=>
           \/ a[1] < b[1]
           \/ a[1] = b[1] /\ a[2] < b[2]
           \/ a[1] = b[1] /\ a[2] = b[2] /\ a[3] < b[3]
           \/ a[1] = b[1] /\ a[2] = b[2] /\ a[3] = b[3] /\ a[4] < b[4]
<1> DEFINE At4(n) == a[n] < b[n] /\ \A k \in 1..(n - 1) : a[k] = b[k]
<1>1. Precedes(a, b) <=> At4(1) \/ At4(2) \/ At4(3) \/ At4(4)
  <2>1. DOMAIN a = {1, 2, 3, 4}
    BY DEF Keys
  <2>2. Precedes(a, b) <=> \E n \in {1, 2, 3, 4} : At4(n)
    BY <2>1 DEF Precedes
  <2> HIDE DEF At4
  <2> QED
    BY <2>2
<1>2. 1..(1 - 1) = {} /\ 1..(2 - 1) = {1} /\ 1..(3 - 1) = {1, 2} /\ 1..(4 - 1) = {1, 2, 3}
  OBVIOUS
<1>3. /\ At4(1) <=> a[1] < b[1]
      /\ At4(2) <=> a[1] = b[1] /\ a[2] < b[2]
  BY <1>2
<1>4. At4(3) <=> a[1] = b[1] /\ a[2] = b[2] /\ a[3] < b[3]
  BY <1>2
<1>5. At4(4) <=> a[1] = b[1] /\ a[2] = b[2] /\ a[3] = b[3] /\ a[4] < b[4]
  BY <1>2
<1> HIDE DEF At4
<1> QED
  BY <1>1, <1>3, <1>4, <1>5

\* The four fields of an identity, as they are compared, tell it from all others.
LEMMA FieldsTellApart ==
  ASSUME NEW i \in Identities, NEW j \in Identities
  PROVE  /\ SortKey(i) \in Keys
         /\ SortKey(i) = SortKey(j) => i = j
         /\ IdentitySlug(i) = IdentitySlug(j) => i = j
<1> DEFINE Fields(x) ==
             /\ x.kind \in {"human", "agent"} /\ x.display_name \in Nat
             /\ x.model \in Nat \cup {None} /\ x.provider \in Nat \cup {None}
             /\ x = [kind |-> x.kind, display_name |-> x.display_name, model |-> x.model,
                     provider |-> x.provider]
<1>1. ASSUME NEW x \in Identities PROVE Fields(x)
  <2> DEFINE kinds == {"human", "agent"}
             optional == Nat \cup {None}
  <2>1. x \in [kind : kinds, display_name : Nat, model : optional, provider : optional]
    BY IdentitiesAssumption
  <2> HIDE DEF kinds, optional
  <2>2. /\ x.kind \in kinds /\ x.display_name \in Nat
        /\ x.model \in optional /\ x.provider \in optional
        /\ x = [kind |-> x.kind, display_name |-> x.display_name, model |-> x.model,
                provider |-> x.provider]
    BY <2>1
  <2> QED
    BY <2>2 DEF kinds, optional
<1>2. Fields(i) /\ Fields(j)
  BY <1>1
<1>3. ASSUME NEW x \in Nat \cup {None}
      PROVE  Blank(x) \in Nat /\ (x # None => Blank(x) = x)
  BY NoneAssumption DEF Blank
<1>4. ASSUME i.kind = j.kind
      PROVE  /\ Blank(i.model) = Blank(j.model) => i.model = j.model
             /\ Blank(i.provider) = Blank(j.provider) => i.provider = j.provider
  <2>1. \A x \in {i, j} :
          IF x.kind = "agent" THEN x.model # None /\ x.provider # None
                              ELSE x.model = None /\ x.provider = None
    BY IdentitiesAssumption DEF IsRatingIdentity
  <2> QED
    BY <1>2, <1>3, <1>4, <2>1
<1>5. i.kind = j.kind /\ i.display_name = j.display_name /\ i.model = j.model
        /\ i.provider = j.provider => i = j
  BY <1>2
<1>6. SortKey(i) \in Keys
  BY <1>2, <1>3 DEF SortKey, Keys
<1>7. SortKey(i) = SortKey(j) => i = j
  <2> SUFFICES ASSUME SortKey(i) = SortKey(j) PROVE i = j
    OBVIOUS
  <2> DEFINE K(x) == IF x.kind = "agent" THEN 0 ELSE 1
  <2>1. K(i) = K(j) /\ i.display_name = j.display_name /\ Blank(i.model) = Blank(j.model)
        /\ Blank(i.provider) = Blank(j.provider)
    BY DEF SortKey
  <2>2. i.kind = j.kind
    BY <1>2, <2>1
  <2> QED
    BY <1>4, <1>5, <2>1, <2>2
<1>8. IdentitySlug(i) = IdentitySlug(j) => i = j
  BY <1>4, <1>5 DEF IdentitySlug
<1> QED
  BY <1>6, <1>7, <1>8

Rankable(standing) == \A i \in Identities : standing[i].rating \in Int

\* The order is total and strict: the tie-break needs no fallback (leaderboard.py).
LEMMA OutranksOrders ==
  ASSUME NEW s, Rankable(s), NEW i \in Identities, NEW j \in Identities, NEW k \in Identities
  PROVE  /\ ~Outranks(s, i, i)
         /\ i # j => Outranks(s, i, j) \/ Outranks(s, j, i)
         /\ Outranks(s, i, j) /\ Outranks(s, j, k) => Outranks(s, i, k)
<1> DEFINE a == SortKey(i)
           b == SortKey(j)
           c == SortKey(k)
<1>1. a \in Keys /\ b \in Keys /\ c \in Keys /\ (a = b => i = j)
  BY FieldsTellApart
<1>2. s[i].rating \in Int /\ s[j].rating \in Int /\ s[k].rating \in Int
  BY DEF Rankable
<1> HIDE DEF a, b, c
<1>3. /\ \A n \in 1..4 : a[n] \in Nat /\ b[n] \in Nat /\ c[n] \in Nat
      /\ a[1] = b[1] /\ a[2] = b[2] /\ a[3] = b[3] /\ a[4] = b[4] => a = b
  BY <1>1 DEF Keys
<1>4. ~Precedes(a, a)
  BY <1>1, <1>3, PrecedesIs
<1>5. a # b => Precedes(a, b) \/ Precedes(b, a)
  BY <1>1, <1>3, PrecedesIs
<1>6. Precedes(a, b) /\ Precedes(b, c) => Precedes(a, c)
  <2>1. /\ a[1] \in Nat /\ a[2] \in Nat /\ a[3] \in Nat /\ a[4] \in Nat
        /\ b[1] \in Nat /\ b[2] \in Nat /\ b[3] \in Nat /\ b[4] \in Nat
        /\ c[1] \in Nat /\ c[2] \in Nat /\ c[3] \in Nat /\ c[4] \in Nat
    BY <1>3
  <2> QED
    BY <1>1, <2>1, PrecedesIs
<1>7. ~Outranks(s, i, i)
  BY <1>2, <1>4 DEF Outranks, a
<1>8. i # j => Outranks(s, i, j) \/ Outranks(s, j, i)
  BY <1>1, <1>2, <1>5 DEF Outranks, a, b
<1>9. Outranks(s, i, j) /\ Outranks(s, j, k) => Outranks(s, i, k)
  BY <1>2, <1>6 DEF Outranks, a, b, c
<1> QED
  BY <1>7, <1>8, <1>9

\* A list without gaps or repetitions, as all_identities returns it.
Listing(listed) ==
  /\ \E n \in Nat : DOMAIN listed = 1..n
  /\ \A k \in DOMAIN listed : listed[k] \in Identities
  /\ \A n, k \in DOMAIN listed : listed[n] = listed[k] => n = k

Upto(s, S, i) == {j \in S : j = i \/ Outranks(s, j, i)}

\* The place of i among S, which no listing has a say in.
PlaceOf(s, S, i) == Cardinality(Upto(s, S, i))

LEMMA ListingCounted ==
  ASSUME NEW listed, Listing(listed)
  PROVE  /\ ToSet(listed) \subseteq Identities /\ IsFiniteSet(ToSet(listed))
         /\ Cardinality(ToSet(listed)) \in Nat
         /\ DOMAIN listed = 1..Cardinality(ToSet(listed))
<1>1. PICK n \in Nat : DOMAIN listed = 1..n
  BY DEF Listing
<1>2. IsFiniteSet(1..n) /\ Cardinality(1..n) = n
  BY FS_Interval
<1> DEFINE f == [k \in 1..n |-> listed[k]]
<1>3. f \in Bijection(1..n, ToSet(listed))
  BY <1>1 DEF Bijection, Injection, Surjection, IsInjective, Listing, ToSet
<1>4. ExistsBijection(1..n, ToSet(listed))
  BY <1>3 DEF ExistsBijection
<1>5. IsFiniteSet(ToSet(listed)) /\ Cardinality(ToSet(listed)) = n
  BY <1>2, <1>4, FS_Bijection
<1> QED
  BY <1>1, <1>5 DEF Listing, ToSet

\* In a list without repetitions the stable sort has no ties to keep.
LEMMA PlaceIsOfIdentity ==
  ASSUME NEW s, Rankable(s), NEW listed, Listing(listed), NEW k \in DOMAIN listed
  PROVE  Place(s, listed, k) = PlaceOf(s, ToSet(listed), listed[k])
<1> DEFINE A == {j \in DOMAIN listed :
                   \/ Outranks(s, listed[j], listed[k])
                   \/ j <= k /\ ~Outranks(s, listed[k], listed[j])}
           B == Upto(s, ToSet(listed), listed[k])
           f == [j \in A |-> listed[j]]
<1>1. PICK n \in Nat : DOMAIN listed = 1..n
  BY DEF Listing
<1>2. \A j \in DOMAIN listed : listed[j] \in Identities /\ j \in Nat
  BY <1>1 DEF Listing
<1>3. ASSUME NEW j \in DOMAIN listed
      PROVE  j \in A <=> j = k \/ Outranks(s, listed[j], listed[k])
  <2>1. CASE j = k
    <3>1. ~Outranks(s, listed[k], listed[k])
      BY <1>2, OutranksOrders
    <3> QED
      BY <1>2, <2>1, <3>1
  <2>2. CASE j # k
    <3>1. listed[j] # listed[k]
      BY <2>2 DEF Listing
    <3>2. Outranks(s, listed[j], listed[k]) \/ Outranks(s, listed[k], listed[j])
      BY <1>2, <3>1, OutranksOrders
    <3> QED
      BY <2>2, <3>2
  <2> QED
    BY <2>1, <2>2
<1>4. f \in [A -> B]
  BY <1>3 DEF Upto, ToSet
<1>5. \A a, b \in A : f[a] = f[b] => a = b
  BY DEF Listing
<1>6. ASSUME NEW i \in B PROVE \E a \in A : f[a] = i
  <2>1. PICK j \in DOMAIN listed : i = listed[j]
    BY DEF Upto, ToSet
  <2>2. j = k \/ Outranks(s, listed[j], listed[k])
    BY <2>1 DEF Upto, Listing
  <2>3. j \in A
    BY <1>3, <2>2
  <2> QED
    BY <2>1, <2>3
<1>7. IsFiniteSet(A)
  <2>1. IsFiniteSet(1..n) /\ A \in SUBSET (1..n)
    BY <1>1, FS_Interval
  <2> QED
    BY <2>1, FS_Subset
<1> HIDE DEF A, B, f
<1>8. f \in Bijection(A, B)
  <2>1. f \in Injection(A, B)
    BY <1>4, <1>5 DEF Injection, IsInjective
  <2>2. f \in Surjection(A, B)
    BY <1>4, <1>6 DEF Surjection
  <2> QED
    BY <2>1, <2>2 DEF Bijection
<1>9. Cardinality(A) = Cardinality(B)
  BY <1>7, <1>8, FS_Bijection DEF ExistsBijection
<1> QED
  BY <1>9 DEF A, B, Place, PlaceOf

\* No two share a place, and no place is beyond the last.
LEMMA PlacesDiffer ==
  ASSUME NEW s, Rankable(s), NEW S, S \subseteq Identities, IsFiniteSet(S), NEW i \in S, NEW j \in S
  PROVE  /\ PlaceOf(s, S, i) \in 1..Cardinality(S)
         /\ PlaceOf(s, S, i) = PlaceOf(s, S, j) => i = j
<1>1. ASSUME NEW a \in S
      PROVE  /\ IsFiniteSet(Upto(s, S, a)) /\ a \in Upto(s, S, a)
             /\ PlaceOf(s, S, a) \in Nat /\ PlaceOf(s, S, a) <= Cardinality(S)
             /\ PlaceOf(s, S, a) # 0
  <2>1. Upto(s, S, a) \in SUBSET S /\ a \in Upto(s, S, a)
    BY DEF Upto
  <2>2. /\ IsFiniteSet(Upto(s, S, a))
        /\ Cardinality(Upto(s, S, a)) <= Cardinality(S)
    BY <2>1, FS_Subset
  <2>3. /\ Cardinality(Upto(s, S, a)) \in Nat
        /\ Cardinality(Upto(s, S, a)) = 0 <=> Upto(s, S, a) = {}
    BY <2>2, FS_CardinalityType, FS_EmptySet
  <2> QED
    BY <2>1, <2>2, <2>3 DEF PlaceOf
<1>2. ASSUME NEW a \in S, NEW b \in S, Outranks(s, a, b)
      PROVE  PlaceOf(s, S, a) # PlaceOf(s, S, b)
  <2>1. Upto(s, S, a) \subseteq Upto(s, S, b)
    BY <1>2, OutranksOrders DEF Upto
  <2>2. b \notin Upto(s, S, a)
    <3>1. a # b /\ ~Outranks(s, b, a)
      BY <1>2, OutranksOrders
    <3> QED
      BY <3>1 DEF Upto
  <2>3. Upto(s, S, a) \in SUBSET Upto(s, S, b) /\ Upto(s, S, a) # Upto(s, S, b)
    BY <1>1, <2>1, <2>2
  <2>4. Cardinality(Upto(s, S, b)) # Cardinality(Upto(s, S, a))
    BY <1>1, <2>3, FS_Subset
  <2> QED
    BY <2>4 DEF PlaceOf
<1>3. i # j => PlaceOf(s, S, i) # PlaceOf(s, S, j)
  <2>1. i # j => Outranks(s, i, j) \/ Outranks(s, j, i)
    BY OutranksOrders
  <2> QED
    BY <1>2, <2>1
<1>4. Cardinality(S) \in Nat
  BY FS_CardinalityType
<1> QED
  BY <1>1, <1>3, <1>4

\* Every place is taken.
LEMMA PlacesTaken ==
  ASSUME NEW s, Rankable(s), NEW S, S \subseteq Identities, IsFiniteSet(S),
         NEW rank \in 1..Cardinality(S)
  PROVE  \E i \in S : PlaceOf(s, S, i) = rank
<1> DEFINE T == 1..Cardinality(S)
           f == [i \in S |-> PlaceOf(s, S, i)]
<1>1. f \in Injection(S, T)
  <2>1. \A i \in S : PlaceOf(s, S, i) \in T
    BY PlacesDiffer
  <2>2. \A a, b \in S : f[a] = f[b] => a = b
    BY PlacesDiffer
  <2> HIDE DEF T
  <2>3. f \in [S -> T]
    BY <2>1
  <2> HIDE DEF f
  <2> QED
    BY <2>2, <2>3 DEF Injection, IsInjective
<1>2. Cardinality(S) \in Nat
  BY FS_CardinalityType
<1>3. IsFiniteSet(T) /\ Cardinality(T) = Cardinality(S)
  BY <1>2, FS_Interval
<1> HIDE DEF f
<1>4. f \in Surjection(S, T)
  BY <1>1, <1>3, FS_Injection
<1>5. \E i \in S : f[i] = rank
  BY <1>4 DEF Surjection
<1> QED
  BY <1>5 DEF f

\* The row at a rank is the identity with that place.
LEMMA RankedByPlace ==
  ASSUME NEW s, Rankable(s), NEW listed, Listing(listed), NEW rank \in DOMAIN listed
  PROVE  /\ DOMAIN Ranked(s, listed) = DOMAIN listed
         /\ Ranked(s, listed)[rank] \in ToSet(listed)
         /\ PlaceOf(s, ToSet(listed), Ranked(s, listed)[rank]) = rank
<1> DEFINE S == ToSet(listed)
           c == CHOOSE k \in DOMAIN listed : Place(s, listed, k) = rank
<1>1. /\ S \subseteq Identities /\ IsFiniteSet(S) /\ DOMAIN listed = 1..Cardinality(S)
  BY ListingCounted
<1>2. PICK i \in S : PlaceOf(s, S, i) = rank
  BY <1>1, PlacesTaken
<1>3. PICK k \in DOMAIN listed : listed[k] = i
  BY <1>2 DEF ToSet
<1>4. Place(s, listed, k) = rank
  BY <1>2, <1>3, PlaceIsOfIdentity
<1>5. c \in DOMAIN listed /\ Place(s, listed, c) = rank
  BY <1>4
<1>6. PlaceOf(s, S, listed[c]) = rank /\ listed[c] \in S
  BY <1>5, PlaceIsOfIdentity DEF ToSet
<1>7. Ranked(s, listed)[rank] = listed[c] /\ DOMAIN Ranked(s, listed) = DOMAIN listed
  BY DEF Ranked
<1> QED
  BY <1>6, <1>7

\* Whatever order the ledger lists the same identities in, the rows are the same
\* (leaderboard.py: "the ordering never depends on store's internal iteration order").
THEOREM RowsIgnoreOrder ==
  ASSUME NEW s, Rankable(s), NEW listed, Listing(listed), NEW other, Listing(other),
         ToSet(listed) = ToSet(other)
  PROVE  Leaderboard(s, listed) = Leaderboard(s, other)
<1>1. DOMAIN listed = DOMAIN other
  BY ListingCounted
<1>2. ASSUME NEW rank \in DOMAIN listed PROVE Ranked(s, listed)[rank] = Ranked(s, other)[rank]
  <2>1. /\ Ranked(s, listed)[rank] \in ToSet(listed) /\ Ranked(s, other)[rank] \in ToSet(listed)
        /\ PlaceOf(s, ToSet(listed), Ranked(s, listed)[rank]) = rank
        /\ PlaceOf(s, ToSet(listed), Ranked(s, other)[rank]) = rank
    BY <1>1, RankedByPlace
  <2>2. ToSet(listed) \subseteq Identities /\ IsFiniteSet(ToSet(listed))
    BY ListingCounted
  <2> QED
    BY <2>1, <2>2, PlacesDiffer
<1>3. Ranked(s, listed) = Ranked(s, other)
  BY <1>1, <1>2 DEF Ranked
<1> QED
  BY <1>3 DEF Leaderboard

LEMMA ReverseLists ==
  ASSUME NEW listed, Listing(listed)
  PROVE  Listing(Reverse(listed)) /\ ToSet(Reverse(listed)) = ToSet(listed)
<1>1. PICK n \in Nat : DOMAIN listed = 1..n
  BY DEF Listing
<1>2. Len(listed) = n
  BY <1>1
<1>3. Reverse(listed) = [k \in 1..n |-> listed[(n - k) + 1]]
  BY <1>2 DEF Reverse
<1>4. \A k \in 1..n : (n - k) + 1 \in 1..n /\ (n - ((n - k) + 1)) + 1 = k
  OBVIOUS
<1>5. Listing(Reverse(listed))
  BY <1>1, <1>3, <1>4 DEF Listing
<1>6. ToSet(Reverse(listed)) = ToSet(listed)
  <2> DEFINE r == Reverse(listed)
  <2>1. \A k \in 1..n : r[(n - k) + 1] = listed[k] /\ r[k] = listed[(n - k) + 1]
    BY <1>3, <1>4
  <2>2. DOMAIN r = 1..n
    BY <1>3
  <2> HIDE DEF r
  <2>3. \A k \in 1..n : \E j \in 1..n : r[j] = listed[k]
    BY <1>4, <2>1
  <2>4. \A k \in 1..n : \E j \in 1..n : listed[j] = r[k]
    BY <1>4, <2>1
  <2>5. {r[k] : k \in 1..n} = {listed[k] : k \in 1..n}
    BY <2>3, <2>4
  <2> QED
    BY <1>1, <2>2, <2>5 DEF r, ToSet
<1> QED
  BY <1>5, <1>6

-----------------------------------------------------------------------------
(* The links *)

\* The slug index takes every listed identity's slug back to it.
LEMMA SlugLeadsBack ==
  ASSUME NEW listed, ToSet(listed) \subseteq Identities, NEW i \in ToSet(listed)
  PROVE  /\ IdentitySlug(i) \in DOMAIN SlugIndex(listed)
         /\ SlugIndex(listed)[IdentitySlug(i)] = i
<1> DEFINE c == CHOOSE j \in ToSet(listed) : IdentitySlug(j) = IdentitySlug(i)
<1>1. c \in ToSet(listed) /\ IdentitySlug(c) = IdentitySlug(i)
  OBVIOUS
<1>2. c = i
  BY <1>1, FieldsTellApart
<1> QED
  BY <1>2 DEF SlugIndex

\* Every row's link leads to the profile with that row's rank.
LEMMA LinksKeepRanks ==
  ASSUME NEW s, Rankable(s), NEW listed, Listing(listed)
  PROVE  LET rows == Leaderboard(s, listed) IN
         \A rank \in DOMAIN rows : RankOf(rows, SlugIndex(listed)[rows[rank].profile]) = rank
<1> DEFINE rows == Leaderboard(s, listed)
<1> SUFFICES ASSUME NEW rank \in DOMAIN rows
             PROVE  RankOf(rows, SlugIndex(listed)[rows[rank].profile]) = rank
  OBVIOUS
<1>1. DOMAIN rows = DOMAIN listed
      /\ \A k \in DOMAIN rows : /\ rows[k].identity = Ranked(s, listed)[k]
                                /\ rows[k].profile = IdentitySlug(Ranked(s, listed)[k])
  BY DEF Leaderboard, Ranked
<1> HIDE DEF rows
<1>2. \A k \in DOMAIN rows : /\ rows[k].identity \in ToSet(listed)
                             /\ PlaceOf(s, ToSet(listed), rows[k].identity) = k
  BY <1>1, RankedByPlace
<1>3. ToSet(listed) \subseteq Identities
  BY ListingCounted
<1>4. SlugIndex(listed)[rows[rank].profile] = rows[rank].identity
  BY <1>1, <1>2, <1>3, SlugLeadsBack
<1> DEFINE c == CHOOSE k \in DOMAIN rows : rows[k].identity = rows[rank].identity
<1>5. c \in DOMAIN rows /\ rows[c].identity = rows[rank].identity
  OBVIOUS
<1>6. c = rank
  BY <1>2, <1>5
<1> QED
  BY <1>4, <1>6 DEF RankOf, rows

-----------------------------------------------------------------------------
(* The standing that the dataset explains *)

\* The match that is being rated or about to be saved has its entry of i already.
InProgress(i) == \E w \in Writers : Ahead(w, i, request[w].id)

\* How much of a history the table has caught up with.
Settled(i) == IF InProgress(i) THEN Len(entries[i]) - 1 ELSE Len(entries[i])

SettledStanding ==
  [i \in Identities |-> [rating |-> RatingAt(entries[i], Settled(i)), match_count |-> Settled(i)]]

\* In some order, the lines of the finished matches lead to the settled standing.
Chronicle ==
  \E ids \in SetToSeqs(Finished) : Rerated([k \in DOMAIN ids |-> Line(ids[k])]) = SettledStanding

\* w has read the prior of i.
HasRead(w, i) ==
  \E k \in FirstSeen(writer[w].outcome) :
    At(w, k) = i /\ (writer[w].stage = "reading" => k \notin writer[w].todo)

PriorsRight(w) ==
  request[w].stage = "rating" =>
    \A i \in Identities :
      writer[w].priors[i].rating =
        IF HasRead(w, i) THEN SettledStanding[i].rating ELSE InitialRating

\* The entries ahead of the table are what rating the match in hand makes of the
\* settled standing.
LastRight(w) ==
  \A i \in Identities :
    Ahead(w, i, request[w].id) =>
      /\ entries[i] # << >>
      /\ entries[i][Len(entries[i])].rating =
           Rerate(SettledStanding, OutcomeOf(request[w].match))[i].rating

Explained == Chronicle /\ \A w \in Writers : PriorsRight(w) /\ LastRight(w)

ExplainedInv == ~died => Explained

\* One outcome rated: everyone involved moves by the delta, nobody else does.
LEMMA RerateInvolved ==
  ASSUME NEW s, DOMAIN s = Identities, NEW m, IsMatch(m), Rated(m)
  PROVE  LET out == OutcomeOf(m)
             deltas == ComputeDeltas(
                         [i \in Identities |-> IF i \in RatedIdentities(m) THEN s[i].rating
                                                                        ELSE InitialRating], out)
         IN  Rerate(s, out) =
               [i \in Identities |-> IF i \in RatedIdentities(m)
                                       THEN [rating |-> s[i].rating + deltas[i],
                                             match_count |-> s[i].match_count + 1]
                                       ELSE s[i]]
<1> DEFINE out == OutcomeOf(m)
           rated  == {out[k].identity : k \in DOMAIN out}
           known  == DOMAIN s \cup rated
           before == [i \in known |-> IF i \in DOMAIN s THEN s[i] ELSE NewStanding]
           deltas == ComputeDeltas(
                       [i \in known |-> IF i \in rated THEN before[i].rating ELSE InitialRating],
                       out)
<1>1. Len(out) = 2
  <2>1. out \in RatedOutcome /\ Len(out) \in {1, 2}
    BY OutcomeOK, OutcomeLength DEF Rated
  <2> QED
    BY <2>1 DEF RatedOutcome
<1>2. rated = RatedIdentities(m)
  BY OutcomeOK DEF RatedIdentities, Rated
<1>3. known = Identities
  BY <1>2, RatedAreIdentities
<1>4. before = [i \in Identities |-> s[i]]
  BY <1>3
<1>5. [i \in known |-> IF i \in rated THEN before[i].rating ELSE InitialRating]
        = [i \in Identities |-> IF i \in RatedIdentities(m) THEN s[i].rating ELSE InitialRating]
  BY <1>2, <1>3, <1>4
<1>6. Rerate(s, out) =
        IF Len(out) < 2 THEN s
        ELSE [i \in known |-> IF i \in rated THEN [rating |-> before[i].rating + deltas[i],
                                                   match_count |-> before[i].match_count + 1]
                              ELSE before[i]]
  BY DEF Rerate
<1> HIDE DEF out, rated, known, before, deltas
<1>7. Rerate(s, out) =
        [i \in Identities |-> IF i \in RatedIdentities(m)
                                THEN [rating |-> s[i].rating + deltas[i],
                                      match_count |-> s[i].match_count + 1]
                                ELSE s[i]]
  BY <1>1, <1>2, <1>3, <1>4, <1>6
<1> QED
  BY <1>5, <1>7 DEF out, deltas

\* A practice match rates nobody.
LEMMA RerateNobody ==
  ASSUME NEW s, NEW m, IsMatch(m), m.status = "completed", ~Rated(m)
  PROVE  Rerate(s, OutcomeOf(m)) = s
<1> DEFINE n == Len(OutcomeOf(m))
<1>1. Len(m.seats) = 1
  BY SeatsOK DEF IsMatch, Rated
<1>2. n \in {1, 2} /\ DOMAIN OutcomeOf(m) = DOMAIN m.seats /\ OutcomeOf(m) \in Outcome
  BY OutcomeOK, OutcomeLength
<1>3. DOMAIN OutcomeOf(m) = 1..n /\ DOMAIN m.seats = 1..1
  BY <1>1, <1>2, SeatsOK DEF IsMatch, Outcome
<1> HIDE DEF n
<1>4. n = 1
  <2>1. n \in {1, 2} /\ 1..n = 1..1
    BY <1>2, <1>3
  <2>2. 2 \in 1..2 /\ 2 \notin 1..1
    OBVIOUS
  <2> QED
    BY <2>1, <2>2
<1>5. Len(OutcomeOf(m)) < 2
  BY <1>4 DEF n
<1> QED
  BY <1>5 DEF Rerate

LEMMA ExplainedStarts ==
  Init => Explained
<1> SUFFICES ASSUME Init PROVE Explained
  OBVIOUS
<1>1. /\ \A w \in Writers : request[w] = NoRequest
      /\ \A i \in Identities : entries[i] = << >>
      /\ \A id \in MatchIds : table[id] = None
  BY DEF Init, LedgerInit
<1>2. \A w \in Writers : \A i, id : ~Ahead(w, i, id)
  BY <1>1, NoRequestOK DEF Ahead
<1>3. \A i \in Identities : Settled(i) = 0
  BY <1>1, <1>2 DEF Settled, InProgress
<1>4. SettledStanding = Unrated
  BY <1>3 DEF SettledStanding, Unrated, NewStanding, RatingAt
<1>5. Finished = {}
  BY <1>1 DEF Finished
<1>6. << >> \in SetToSeqs(Finished)
  BY <1>5, FS_EmptySet DEF SetToSeqs
<1>7. [k \in DOMAIN << >> |-> Line(<< >>[k])] = << >>
  OBVIOUS
<1>8. Chronicle
  BY <1>4, <1>6, <1>7, ReratedNothing DEF Chronicle
<1>9. \A w \in Writers : PriorsRight(w) /\ LastRight(w)
  BY <1>1, <1>2, NoRequestOK DEF PriorsRight, LastRight
<1> QED
  BY <1>8, <1>9 DEF Explained

LEMMA SettledStays ==
  ASSUME UNCHANGED entries, \A i \in Identities : InProgress(i)' <=> InProgress(i)
  PROVE  SettledStanding' = SettledStanding
<1>1. \A i \in Identities : Settled(i)' = Settled(i)
  BY DEF Settled
<1> QED
  BY <1>1 DEF SettledStanding

LEMMA ChronicleStays ==
  ASSUME Chronicle, UNCHANGED table, SettledStanding' = SettledStanding
  PROVE  Chronicle'
<1>1. Finished' = Finished /\ \A id : Line(id)' = Line(id)
  BY DEF Finished, Line
<1> QED
  BY <1>1 DEF Chronicle

\* A step before and after which the ledger is not ahead of the table.
LEMMA ExplainedLevel ==
  ASSUME Explained, NEW w, Writers = {w}, UNCHANGED <<entries, table>>,
         \A i, id : ~Ahead(w, i, id) /\ ~Ahead(w, i, id)',
         SettledStanding' = SettledStanding => PriorsRight(w)'
  PROVE  Explained'
<1>1. \A i \in Identities : InProgress(i)' <=> InProgress(i)
  BY DEF InProgress
<1>2. SettledStanding' = SettledStanding
  BY <1>1, SettledStays
<1>3. Chronicle'
  BY <1>2, ChronicleStays DEF Explained
<1>4. LastRight(w)'
  BY DEF LastRight
<1> QED
  BY <1>2, <1>3, <1>4 DEF Explained

LEMMA QuietExplained ==
  ASSUME Explained, NEW w, Writers = {w}, Quiet(w)
  PROVE  Explained'
<1>1. PriorsRight(w)'
  BY DEF Quiet, PriorsRight
<1> QED
  BY <1>1, QuietIsNotAhead, ExplainedLevel DEF Quiet

LEMMA BeginsExplained ==
  ASSUME Explained, NEW w, Writers = {w}, Begins(w)
  PROVE  Explained'
<1>1. \A i : ~HasRead(w, i)'
  BY DEF Begins, HasRead
<1>2. PriorsRight(w)'
  BY <1>1, IdleWriterOK DEF Begins, PriorsRight
<1> QED
  BY <1>2, BeginsIsNotAhead, ExplainedLevel DEF Begins

\* Reading a prior.
LEMMA ReadPriorExplained ==
  ASSUME ServiceInv, Explained, ~LaggingReads, NEW w, Writers = {w}, request[w].stage = "rating",
         ReadPrior(w), UNCHANGED serviceVars
  PROVE  Explained'
<1>1. PICK k \in writer[w].todo :
        LET left == writer[w].todo \ {k} IN
        /\ writer' = [writer EXCEPT
             ![w].priors[At(w, k)] = [count |-> Len(entries[At(w, k)]),
                                      rating |-> RatingAt(entries[At(w, k)], Len(entries[At(w, k)]))],
             ![w].todo = IF left = {} THEN FirstSeen(writer[w].outcome) ELSE left,
             ![w].stage = AfterReading(left)]
  BY DEF ReadPrior
<1> DEFINE i == At(w, k)
           left == writer[w].todo \ {k}
           out == writer[w].outcome
           now == RatingAt(entries[i], Len(entries[i]))
           prior == [count |-> Len(entries[i]), rating |-> now]
<1>2. /\ writer \in [Writers -> Writer] /\ writer[w] \in Writer /\ out \in Outcome
      /\ writer[w].todo \subseteq FirstSeen(out)
  BY DEF ServiceInv, LedgerInv, LedgerTypeOK, Writer
<1>3. /\ writer'[w].outcome = out
      /\ writer'[w].todo = IF left = {} THEN FirstSeen(out) ELSE left
      /\ writer'[w].stage = AfterReading(left)
      /\ writer'[w].priors = [writer[w].priors EXCEPT ![i] = prior]
  BY <1>1, <1>2 DEF Writer
<1>4. i \in Identities /\ writer[w].priors \in [Identities -> Prior]
  BY <1>2, OutcomePositions DEF At, Writer
<1>5. UNCHANGED <<entries, table, request>> /\ writer[w].stage = "reading"
  BY DEF ReadPrior, serviceVars
<1>6. \A a, id : ~Ahead(w, a, id) /\ ~Ahead(w, a, id)'
  <2>1. \A a : ~Handled(w, a)
    BY <1>5 DEF Handled, Past
  <2>2. \A a : ~Handled(w, a)'
    BY <1>3 DEF Handled, Past, AfterReading
  <2> QED
    BY <1>5, <2>1, <2>2 DEF Ahead
<1>7. \A a \in Identities : HasRead(w, a)' <=> HasRead(w, a) \/ a = i
  <2>1. \A j \in FirstSeen(out) : At(w, j)' = At(w, j) /\ (At(w, j) = i => j = k)
    BY <1>2, <1>3, FirstSeenOnce DEF At
  <2>2. \A j \in FirstSeen(out) :
          (writer'[w].stage = "reading" => j \notin writer'[w].todo) <=> j \notin left
    BY <1>3 DEF AfterReading
  <2>3. \A j \in FirstSeen(out) : j \notin left <=> j \notin writer[w].todo \/ j = k
    OBVIOUS
  <2>4. k \in FirstSeen(out)
    BY <1>2
  <2> QED
    BY <1>3, <1>5, <2>1, <2>2, <2>3, <2>4 DEF HasRead
<1>8. SettledStanding[i].rating = now
  BY <1>4, <1>6 DEF SettledStanding, Settled, InProgress
<1>9. writer'[w].priors[i].rating = now
      /\ \A a \in Identities : a # i => writer'[w].priors[a] = writer[w].priors[a]
  BY <1>3, <1>4
<1> HIDE DEF i, now
<1>10. ASSUME SettledStanding' = SettledStanding PROVE PriorsRight(w)'
  <2> SUFFICES ASSUME NEW a \in Identities
               PROVE  writer'[w].priors[a].rating =
                        IF HasRead(w, a)' THEN SettledStanding[a].rating ELSE InitialRating
    BY <1>10 DEF PriorsRight
  <2>1. writer[w].priors[a].rating =
          IF HasRead(w, a) THEN SettledStanding[a].rating ELSE InitialRating
    BY DEF Explained, PriorsRight
  <2>2. CASE a = i
    BY <1>7, <1>8, <1>9, <2>2
  <2>3. CASE a # i
    BY <1>7, <1>9, <2>1, <2>3
  <2> QED
    BY <2>2, <2>3
<1> QED
  BY <1>5, <1>6, <1>10, ExplainedLevel

\* A step that leaves the entries and the table alone, and the ledger as far
\* ahead of the table as it is.
LEMMA ExplainedStays ==
  ASSUME Explained, NEW w, Writers = {w}, UNCHANGED <<entries, table>>,
         \A i, id : Ahead(w, i, id)' <=> Ahead(w, i, id),
         request'[w].id = request[w].id, request'[w].match = request[w].match,
         SettledStanding' = SettledStanding => PriorsRight(w)'
  PROVE  Explained'
<1>1. \A i \in Identities : InProgress(i)' <=> InProgress(i)
  BY DEF InProgress
<1>2. SettledStanding' = SettledStanding
  BY <1>1, SettledStays
<1>3. Chronicle'
  BY <1>2, ChronicleStays DEF Explained
<1>4. OutcomeOf(request'[w].match) = OutcomeOf(request[w].match)
  OBVIOUS
<1>5. LastRight(w)'
  BY <1>2, <1>4 DEF Explained, LastRight
<1> QED
  BY <1>2, <1>3, <1>5 DEF Explained

LEMMA RegisterExplained ==
  ASSUME ServiceInv, Explained, NEW w, Writers = {w}, request[w].stage = "rating",
         TakeOrder(w) \/ PutMarker(w), UNCHANGED serviceVars
  PROVE  Explained'
<1>1. writer \in [Writers -> Writer]
  BY DEF ServiceInv, LedgerInv, LedgerTypeOK
<1>2. /\ writer'[w].outcome = writer[w].outcome /\ writer'[w].todo = writer[w].todo
      /\ writer'[w].priors = writer[w].priors
      /\ writer[w].stage \in Past /\ writer'[w].stage \in Past
      /\ UNCHANGED <<entries, table, request>>
  BY <1>1 DEF TakeOrder, PutMarker, Writer, Past, AfterPutting, serviceVars
<1>3. \A i : Handled(w, i)' <=> Handled(w, i)
  BY <1>2 DEF Handled, At
<1>4. \A i, id : Ahead(w, i, id)' <=> Ahead(w, i, id)
  BY <1>2, <1>3 DEF Ahead, RatedIdentities
<1>5. \A i : HasRead(w, i)' <=> HasRead(w, i)
  BY <1>2 DEF HasRead, At, Past
<1>6. SettledStanding' = SettledStanding => PriorsRight(w)'
  BY <1>2, <1>5 DEF Explained, PriorsRight
<1> QED
  BY <1>2, <1>4, <1>6, ExplainedStays

\* The put of an entry: the ledger gets ahead of the table by what rating the
\* match makes of the settled standing.
LEMMA PutEntryExplained ==
  ASSUME DeltasAreIntegers, ServiceInv, Counts, Explained, NEW w, Writers = {w},
         request[w].stage = "rating", PutEntry(w), UNCHANGED serviceVars
  PROVE  Explained'
<1>1. PICK k \in writer[w].todo :
        LET i == At(w, k)
            n == Len(entries[i]) IN
        /\ i \in Identities
        /\ entries' = [entries EXCEPT ![i] = WithItem(@, n + 1, NewEntry(w, i))]
        /\ entries'[i] \in Seq(Entry)
        /\ Len(entries'[i]) = n + 1
        /\ \A j \in 1..n : entries'[i][j] = entries[i][j]
        /\ entries'[i][n + 1] = NewEntry(w, i)
        /\ writer' = [writer EXCEPT
             ![w].todo = writer[w].todo \ {k}, ![w].at = k,
             ![w].stage = IF n = 0 THEN "counting"
                          ELSE AfterPutting(writer[w].todo \ {k})]
  <2>1. LedgerInv
    BY DEF ServiceInv
  <2> QED
    BY <2>1, PutAppends
<1> DEFINE i == At(w, k)
           n == Len(entries[i])
           left == writer[w].todo \ {k}
           out == writer[w].outcome
           m == request[w].match
<1>2. /\ writer \in [Writers -> Writer] /\ out \in Outcome
      /\ writer[w].todo \subseteq FirstSeen(out) /\ entries \in [Identities -> Seq(Entry)]
  BY DEF ServiceInv, LedgerInv, LedgerTypeOK, Writer
<1>3. /\ writer'[w].outcome = out /\ writer'[w].todo = left
      /\ writer'[w].priors = writer[w].priors
      /\ writer'[w].stage \in Past /\ writer[w].stage \in Past
  BY <1>1, <1>2 DEF Writer, Past, AfterPutting, PutEntry
<1>4. UNCHANGED <<table, request>>
  BY DEF serviceVars
<1>5. IsMatch(m) /\ Rated(m) /\ out = OutcomeOf(m)
  BY DEF ServiceInv, ServiceTypeOK, RequestOK, InHand, Counts, RatesFresh
<1>6. \A j \in FirstSeen(out) : At(w, j)' = At(w, j) /\ (At(w, j) = i => j = k)
  BY <1>2, <1>3, FirstSeenOnce DEF At
<1>7. /\ n \in Nat /\ i \in Identities /\ Len(entries'[i]) = n + 1 /\ Len(entries[i]) = n
      /\ entries'[i] # << >>
      /\ \A j \in 1..n : entries'[i][j] = entries[i][j]
      /\ entries'[i][n + 1] = NewEntry(w, i)
      /\ \A j \in Identities : j # i => entries'[j] = entries[j]
  <2>1. i \in Identities /\ entries[i] \in Seq(Entry) /\ Len(entries'[i]) = n + 1
    BY <1>1, <1>2
  <2>2. n \in Nat
    BY <2>1
  <2>3. entries'[i] # << >>
    BY <2>1, <2>2
  <2> QED
    BY <1>1, <1>2, <2>1, <2>2, <2>3
<1>8. /\ ~Handled(w, i)
      /\ \A a : Handled(w, a)' <=> Handled(w, a) \/ a = i
  BY <1>2, <1>3, <1>6 DEF Handled, i
<1>9. /\ \A a : Ahead(w, a, request[w].id) <=> Handled(w, a)
      /\ \A a : Ahead(w, a, request[w].id)' <=> Handled(w, a)'
      /\ \A a : InProgress(a) <=> Handled(w, a)
      /\ \A a : InProgress(a)' <=> Handled(w, a)'
  BY <1>4 DEF Ahead, InProgress
<1> HIDE DEF i, n, out, left, m
<1>10. SettledStanding' = SettledStanding
  <2> SUFFICES ASSUME NEW a \in Identities
               PROVE  Settled(a)' = Settled(a)
                      /\ RatingAt(entries'[a], Settled(a)) = RatingAt(entries[a], Settled(a))
    BY DEF SettledStanding
  <2>1. CASE a = i
    <3>1. Settled(a) = n
      BY <1>7, <1>8, <1>9, <2>1 DEF Settled
    <3>2. Settled(a)' = n
      BY <1>7, <1>8, <1>9, <2>1 DEF Settled
    <3>3. n # 0 => entries'[i][n] = entries[i][n]
      BY <1>7
    <3> QED
      BY <2>1, <3>1, <3>2, <3>3 DEF RatingAt
  <2>2. CASE a # i
    BY <1>7, <1>8, <1>9, <2>2 DEF Settled
  <2> QED
    BY <2>1, <2>2
<1>11. \A a : HasRead(w, a) <=> a \in RatedIdentities(m)
  <2>1. \A a : HasRead(w, a) <=> \E j \in FirstSeen(OutcomeOf(m)) : OutcomeOf(m)[j].identity = a
    BY <1>3, <1>5 DEF HasRead, At, Past, out
  <2> QED
    BY <1>5, <2>1, RatedByOutcome
<1>12. PriorsRight(w)'
  <2>1. \A a : HasRead(w, a)' <=> HasRead(w, a)
    BY <1>3 DEF HasRead, At, Past, out
  <2> QED
    BY <1>3, <1>4, <1>10, <2>1 DEF Explained, PriorsRight
<1> DEFINE S == SettledStanding
           again == Rerate(S, OutcomeOf(m))
           priors == [a \in Identities |-> writer[w].priors[a].rating]
<1>13. NewEntry(w, i).rating = again[i].rating
  <2> DEFINE ratings == [a \in Identities |-> IF a \in RatedIdentities(m) THEN S[a].rating
                                                                       ELSE InitialRating]
             delta == ComputeDeltas(ratings, OutcomeOf(m))[i]
  <2>1. \A a \in Identities : writer[w].priors[a].rating =
                                IF a \in RatedIdentities(m) THEN S[a].rating ELSE InitialRating
    BY <1>11 DEF Explained, PriorsRight
  <2>2. priors = ratings
    BY <2>1
  <2>3. i \in RatedIdentities(m)
    <3>1. k \in FirstSeen(OutcomeOf(m)) /\ OutcomeOf(m)[k].identity = i
      BY <1>2, <1>5 DEF At, out, i
    <3> QED
      BY <1>5, <3>1, RatedByOutcome
  <2>4. NewEntry(w, i).rating = writer[w].priors[i].rating + ComputeDeltas(priors, OutcomeOf(m))[i]
    BY <1>5 DEF NewEntry, Deltas, out
  <2>5. writer[w].priors[i].rating = S[i].rating
    BY <1>7, <2>1, <2>3
  <2>6. DOMAIN S = Identities
    BY DEF SettledStanding
  <2>7. again = [a \in Identities |->
                   IF a \in RatedIdentities(m)
                     THEN [rating |-> S[a].rating + ComputeDeltas(ratings, OutcomeOf(m))[a],
                           match_count |-> S[a].match_count + 1]
                     ELSE S[a]]
    <3> HIDE DEF S
    <3> QED
      BY <1>5, <2>6, RerateInvolved
  <2> HIDE DEF S, again, priors, ratings
  <2>8. again[i] = [rating |-> S[i].rating + delta, match_count |-> S[i].match_count + 1]
    BY <1>7, <2>3, <2>7
  <2> QED
    BY <2>2, <2>4, <2>5, <2>8
<1>14. LastRight(w)'
  <2> SUFFICES ASSUME NEW a \in Identities, Handled(w, a)'
               PROVE  /\ entries'[a] # << >>
                      /\ entries'[a][Len(entries'[a])].rating = again[a].rating
    BY <1>4, <1>9, <1>10 DEF LastRight, m
  <2>1. CASE a = i
    BY <1>7, <1>13, <2>1
  <2>2. CASE a # i
    <3>1. Ahead(w, a, request[w].id)
      BY <1>8, <1>9, <2>2
    <3>2. /\ entries[a] # << >>
          /\ entries[a][Len(entries[a])].rating = again[a].rating
      BY <3>1 DEF Explained, LastRight, m
    <3>3. entries'[a] = entries[a]
      BY <1>7, <2>2
    <3> QED
      BY <3>2, <3>3
  <2> QED
    BY <2>1, <2>2
<1>15. Chronicle'
  BY <1>4, <1>10, ChronicleStays DEF Explained
<1> QED
  BY <1>12, <1>14, <1>15 DEF Explained

LEMMA RateDoneExplained ==
  ASSUME ServiceInv, Counts, Explained, NEW w, Writers = {w}, RateDone(w)
  PROVE  Explained'
<1>1. PriorsRight(w)'
  <2>1. request'[w].stage = "saving"
    BY RateDoneKeepsAhead
  <2> QED
    BY <2>1 DEF PriorsRight
<1> QED
  BY <1>1, RateDoneKeepsAhead, ExplainedStays

\* The sequence more is ids, n long and in S, with id at its end.
OneMore(more, ids, S, id, n) ==
  /\ n \in Nat /\ DOMAIN ids = 1..n /\ DOMAIN more = 1..(n + 1)
  /\ \A k \in 1..n : more[k] = ids[k] /\ ids[k] \in S
  /\ more[n + 1] = id

LEMMA OneMoreMatch ==
  ASSUME NEW S, IsFiniteSet(S), NEW ids \in SetToSeqs(S), NEW id, id \notin S
  PROVE  \E more \in SetToSeqs(S \cup {id}) : OneMore(more, ids, S, id, Cardinality(S))
<1> DEFINE N == Cardinality(S)
           more == [k \in 1..(N + 1) |-> IF k = N + 1 THEN id ELSE ids[k]]
<1>1. N \in Nat /\ Cardinality(S \cup {id}) = N + 1
  BY FS_CardinalityType, FS_AddElement
<1>2. /\ DOMAIN ids = 1..N /\ \A k \in 1..N : ids[k] \in S
      /\ \A j, k \in 1..N : j # k => ids[j] # ids[k]
  BY DEF SetToSeqs
<1> HIDE DEF N
<1>3. more[N + 1] = id /\ DOMAIN more = 1..(N + 1) /\ \A k \in 1..N : more[k] = ids[k]
  BY <1>1
<1>4. \A k \in 1..(N + 1) : k = N + 1 \/ k \in 1..N
  BY <1>1
<1>5. more \in [1..(N + 1) -> S \cup {id}]
  BY <1>2, <1>3, <1>4
<1> HIDE DEF more
<1>6. \A j, k \in 1..(N + 1) : j # k => more[j] # more[k]
  BY <1>2, <1>3, <1>4
<1>7. more \in SetToSeqs(S \cup {id})
  BY <1>1, <1>5, <1>6 DEF SetToSeqs, N
<1> QED
  BY <1>1, <1>2, <1>3, <1>7 DEF N, OneMore

\* The save of a match: the table catches up, and the dataset gets its line.
LEMMA SaveExplained ==
  ASSUME ServiceInv, SerialInv, Explained, NEW w, Writers = {w}, Save(w)
  PROVE  Explained'
<1>0. PICK id, m : id = request[w].id /\ m = request[w].match
  OBVIOUS
<1> DEFINE S == SettledStanding
<1>1. /\ request[w].stage = "saving" /\ table' = [table EXCEPT ![id] = m]
      /\ request' = [request EXCEPT ![w] = NoRequest] /\ UNCHANGED entries
      /\ DOMAIN table = MatchIds /\ DOMAIN request = Writers /\ id \in MatchIds /\ IsMatch(m)
  BY <1>0 DEF Save, Goes, ServiceInv, ServiceTypeOK, RequestOK, ledgerVars
<1>2. id \notin Finished
  <2>1. NewMatch(id, m) \/ NextMatch(id, m)
    BY <1>0, <1>1 DEF SerialInv, Informed
  <2> QED
    BY <2>1 DEF NextMatch, NewMatch, CanTakeTurn, CanPause, CanResume, Finished
<1>3. request'[w] = NoRequest /\ table'[id] = m
      /\ \A j \in MatchIds : j # id => table'[j] = table[j]
  BY <1>1
<1>4. m # None
  BY <1>1, NoneIsNoMatch DEF IsMatch
<1>5. \A i, j : ~Ahead(w, i, j)'
  BY <1>3, NoRequestOK DEF Ahead
<1>6. \A i : InProgress(i) <=> i \in RatedIdentities(m)
  BY <1>0, <1>1 DEF Ahead, InProgress
<1>7. \A i : ~InProgress(i)'
  BY <1>5 DEF InProgress
<1>8. \A i \in Identities : Len(entries[i]) \in Nat /\ (entries[i] # << >> => Len(entries[i]) # 0)
  BY DEF ServiceInv, LedgerInv, LedgerTypeOK
<1>9. SettledStanding' = [i \in Identities |->
                            [rating |-> RatingAt(entries[i], Len(entries[i])),
                             match_count |-> Len(entries[i])]]
  BY <1>1, <1>7 DEF SettledStanding, Settled
<1>10. \A i \in Identities : i \notin RatedIdentities(m) =>
         S[i] = [rating |-> RatingAt(entries[i], Len(entries[i])), match_count |-> Len(entries[i])]
  BY <1>6 DEF SettledStanding, Settled
<1>11. DOMAIN S = Identities
  BY DEF SettledStanding
<1>12. ~Rated(m) => SettledStanding' = S
  <2> SUFFICES ASSUME ~Rated(m) PROVE SettledStanding' = S
    OBVIOUS
  <2>1. RatedIdentities(m) = {}
    BY DEF RatedIdentities
  <2>2. S = [i \in Identities |-> S[i]]
    BY DEF SettledStanding
  <2> HIDE DEF S
  <2> QED
    BY <1>9, <1>10, <2>1, <2>2
<1>13. Rated(m) => SettledStanding' = Rerate(S, OutcomeOf(m))
  <2> SUFFICES ASSUME Rated(m) PROVE SettledStanding' = Rerate(S, OutcomeOf(m))
    OBVIOUS
  <2> DEFINE again == Rerate(S, OutcomeOf(m))
             deltas == ComputeDeltas(
                         [i \in Identities |-> IF i \in RatedIdentities(m) THEN S[i].rating
                                                                        ELSE InitialRating],
                         OutcomeOf(m))
  <2>1. again = [i \in Identities |-> IF i \in RatedIdentities(m)
                                        THEN [rating |-> S[i].rating + deltas[i],
                                              match_count |-> S[i].match_count + 1]
                                        ELSE S[i]]
    <3> HIDE DEF S
    <3> QED
      BY <1>1, <1>11, RerateInvolved
  <2>2. ASSUME NEW i \in RatedIdentities(m), i \in Identities
        PROVE  /\ S[i].match_count + 1 = Len(entries[i])
               /\ again[i].rating = RatingAt(entries[i], Len(entries[i]))
    <3>1. Ahead(w, i, request[w].id)
      BY <1>0, <1>1 DEF Ahead
    <3>2. /\ entries[i] # << >>
          /\ entries[i][Len(entries[i])].rating = again[i].rating
      BY <1>0, <2>2, <3>1 DEF Explained, LastRight
    <3>3. S[i].match_count = Len(entries[i]) - 1
      BY <1>6, <2>2 DEF SettledStanding, Settled
    <3> HIDE DEF S, again
    <3> QED
      BY <1>8, <2>2, <3>2, <3>3 DEF RatingAt
  <2> HIDE DEF S, again, deltas
  <2>3. ASSUME NEW i \in Identities
        PROVE  again[i] = [rating |-> RatingAt(entries[i], Len(entries[i])),
                           match_count |-> Len(entries[i])]
    <3>1. CASE i \in RatedIdentities(m)
      <4>1. again[i] = [rating |-> S[i].rating + deltas[i], match_count |-> S[i].match_count + 1]
        BY <2>1, <3>1
      <4>2. again[i].rating = S[i].rating + deltas[i]
        BY <4>1
      <4> QED
        BY <2>2, <3>1, <4>1, <4>2
    <3>2. CASE i \notin RatedIdentities(m)
      BY <1>10, <2>1, <3>2
    <3> QED
      BY <3>1, <3>2
  <2>4. again = [i \in Identities |-> again[i]]
    BY <2>1
  <2> QED
    BY <1>9, <2>3, <2>4 DEF again
<1>14. PICK ids \in SetToSeqs(Finished) : Rerated([k \in DOMAIN ids |-> Line(ids[k])]) = S
  BY DEF Explained, Chronicle
<1>15. IsFiniteSet(Finished)
  BY FiniteMatches DEF Finished
<1>16. \A j \in Finished : Line(j)' = Line(j)
  BY <1>2, <1>3 DEF Finished, Line
<1> HIDE DEF S
<1>18. CASE m.status # "completed"
  <2>1. Finished' = Finished
    BY <1>2, <1>3, <1>18 DEF Finished
  <2>2. \A k \in DOMAIN ids : ids[k] \in Finished
    BY DEF SetToSeqs
  <2>3. [k \in DOMAIN ids |-> Line(ids[k])'] = [k \in DOMAIN ids |-> Line(ids[k])]
    BY <1>16, <2>2
  <2>4. SettledStanding' = S
    BY <1>12, <1>18 DEF Rated
  <2>5. Rerated([k \in DOMAIN ids |-> Line(ids[k])']) = SettledStanding'
    BY <1>14, <2>3, <2>4
  <2>6. Chronicle'
    BY <2>1, <2>5 DEF Chronicle
  <2>7. \A v \in Writers : PriorsRight(v)' /\ LastRight(v)'
    BY <1>3, <1>5, NoRequestOK DEF PriorsRight, LastRight
  <2> QED
    BY <2>6, <2>7 DEF Explained
<1>19. CASE m.status = "completed"
  <2>1. Finished' = Finished \cup {id}
    BY <1>1, <1>3, <1>4, <1>19 DEF Finished
  <2>20. PICK N : \E more \in SetToSeqs(Finished \cup {id}) : OneMore(more, ids, Finished, id, N)
    BY <1>2, <1>14, <1>15, OneMoreMatch
  <2>21. PICK more \in SetToSeqs(Finished \cup {id}) : OneMore(more, ids, Finished, id, N)
    BY <2>20
  <2>2. /\ DOMAIN ids = 1..N /\ DOMAIN more = 1..(N + 1) /\ N \in Nat
        /\ \A k \in 1..N : more[k] = ids[k] /\ ids[k] \in Finished
        /\ more[N + 1] = id
    BY <2>21 DEF OneMore
  <2> DEFINE lines == [k \in DOMAIN ids |-> Line(ids[k])]
             extended == [k \in DOMAIN more |-> Line(more[k])']
  <2>3. Len(lines) = N /\ Len(extended) = N + 1
    BY <2>2
  <2>4. /\ \A n \in 1..N : extended[n] = lines[n]
        /\ extended[N + 1] = LineOf(id, m)
    <3>1. N + 1 \in 1..(N + 1) /\ \A n \in 1..N : n \in 1..(N + 1)
      BY <2>2
    <3>2. \A n \in 1..(N + 1) : extended[n] = Line(more[n])'
      BY <2>2
    <3>3. \A n \in 1..N : Line(more[n])' = Line(ids[n])
      BY <1>16, <2>2
    <3>4. \A n \in 1..N : lines[n] = Line(ids[n])
      BY <2>2
    <3>5. Line(more[N + 1])' = LineOf(id, m)
      BY <1>3, <2>2 DEF Line
    <3> HIDE DEF lines, extended
    <3>6. extended[N + 1] = LineOf(id, m)
      BY <3>1, <3>2, <3>5
    <3>7. ASSUME NEW n \in 1..N PROVE extended[n] = lines[n]
      <4>1. extended[n] = Line(more[n])' /\ Line(more[n])' = Line(ids[n]) /\ lines[n] = Line(ids[n])
        BY <3>1, <3>2, <3>3, <3>4
      <4> QED
        BY <4>1
    <3> QED
      BY <3>6, <3>7
  <2> HIDE DEF lines, extended
  <2>5. Rerated(extended) = Rerate(Rerated(lines), OutcomeIn(extended[N + 1]))
    BY <2>2, <2>3, <2>4, ReratedOneMore
  <2>6. OutcomeIn(extended[N + 1]) = OutcomeOf(m)
    BY <1>1, <1>19, <2>4, LineTellsOutcome
  <2>7. Rerated(lines) = S
    BY <1>14 DEF lines
  <2>8. Rerate(S, OutcomeOf(m)) = SettledStanding'
    <3>1. CASE Rated(m)
      BY <1>13, <3>1
    <3>2. CASE ~Rated(m)
      BY <1>1, <1>12, <1>19, <3>2, RerateNobody
    <3> QED
      BY <3>1, <3>2
  <2>9. Chronicle'
    BY <2>1, <2>5, <2>6, <2>7, <2>8 DEF Chronicle, extended
  <2>10. \A v \in Writers : PriorsRight(v)' /\ LastRight(v)'
    BY <1>3, <1>5, NoRequestOK DEF PriorsRight, LastRight
  <2> QED
    BY <2>9, <2>10 DEF Explained
<1> QED
  BY <1>18, <1>19

LEMMA ExplainedStep ==
  ASSUME DeltasAreIntegers, OneAtATime, ServiceInv, SerialInv, CountsInv, ExplainedInv,
         [WatchedNext]_<<vars, died>>
  PROVE  ExplainedInv'
<1> SUFFICES ASSUME ~died' PROVE Explained'
  BY DEF ExplainedInv
<1>1. PICK w : Writers = {w}
  BY DEF OneAtATime
<1>2. ~LaggingReads /\ ~died
  <2>1. ~LaggingReads
    BY DEF OneAtATime
  <2>2. CASE WatchedNext
    BY <2>1, <2>2 DEF WatchedNext
  <2>3. CASE UNCHANGED <<vars, died>>
    BY <2>1, <2>3
  <2> QED
    BY <2>2, <2>3
<1>3. Counts /\ Explained
  BY <1>2 DEF CountsInv, ExplainedInv
<1>4. CASE Step(w) /\ ~Die(w)
  <2>1. CASE \/ ListIds(w) \/ CountOne(w) \/ CountFails(w)
             \/ Admit(w) \/ Refuse(w) \/ RejectBody(w)
    BY <1>1, <1>3, <2>1, CreateIsQuiet, QuietExplained
  <2>2. CASE \E id \in MatchIds, by \in Callers, points \in Points : TakeTurn(w, id, by, points)
    BY <1>1, <1>3, <2>2, TakeTurnBegins, QuietExplained, BeginsExplained
  <2>3. CASE \E id \in MatchIds, by \in Callers : Pause(w, id, by) \/ Resume(w, id, by)
    BY <1>1, <1>3, <2>3, PauseResumeIsQuiet, QuietExplained
  <2>4. CASE Rate(w)
    BY <1>1, <1>2, <1>3, <2>4, ReadPriorExplained, PutEntryExplained, RegisterExplained DEF Rate
  <2>5. CASE RateDone(w)
    BY <1>1, <1>3, <2>5, RateDoneExplained
  <2>6. CASE RateFails(w)
    BY <1>1, <1>3, <2>6, NeverRefused DEF RateFails
  <2>7. CASE Save(w)
    BY <1>1, <1>3, <2>7, SaveExplained
  <2> QED
    BY <1>4, <2>1, <2>2, <2>3, <2>4, <2>5, <2>6, <2>7 DEF Step
<1>5. CASE UNCHANGED <<ledgerVars, table, request>>
  <2>1. \A i, id : Ahead(w, i, id)' <=> Ahead(w, i, id)
    BY <1>5 DEF Ahead, Handled, At, RatedIdentities, ledgerVars
  <2>2. \A i : HasRead(w, i)' <=> HasRead(w, i)
    BY <1>5 DEF HasRead, At, ledgerVars
  <2>3. SettledStanding' = SettledStanding => PriorsRight(w)'
    BY <1>1, <1>3, <1>5, <2>2 DEF Explained, PriorsRight, ledgerVars
  <2> QED
    BY <1>1, <1>3, <1>5, <2>1, <2>3, ExplainedStays DEF ledgerVars
<1>6. CASE \E id \in MatchIds : Replicate(id)
  BY <1>5, <1>6 DEF Replicate
<1>7. CASE UNCHANGED <<vars, died>>
  BY <1>5, <1>7 DEF vars, serviceVars
<1> QED
  BY <1>1, <1>4, <1>6, <1>7 DEF WatchedNext, Next

-----------------------------------------------------------------------------
(* What is at rest when no request is *)

LEMMA OneWriterMoves ==
  ASSUME LedgerInv, NEW w \in Writers,
         ReadPrior(w) \/ PutEntry(w) \/ TakeOrder(w) \/ PutMarker(w)
  PROVE  \E x : writer' = [writer EXCEPT ![w] = x]
<1>1. writer \in [Writers -> Writer]
  BY DEF LedgerInv, LedgerTypeOK
<1>2. CASE ReadPrior(w)
  <2>1. PICK priors, todo, stage :
          /\ writer' = [writer EXCEPT ![w].priors = priors, ![w].todo = todo,
                                      ![w].stage = stage]
          /\ stage \in {"reading", "putting"}
          /\ stage = "putting" => todo = FirstSeen(writer[w].outcome)
    BY <1>2, ReadPriorMoves
  <2>2. writer' = [writer EXCEPT ![w] = [writer[w] EXCEPT !.priors = priors, !.todo = todo,
                                                          !.stage = stage]]
    BY <1>1, <2>1
  <2> QED
    BY <2>2
<1>3. CASE PutEntry(w)
  <2>1. PICK k \in writer[w].todo :
          LET n    == writer[w].priors[At(w, k)].count
              left == writer[w].todo \ {k}
          IN  writer' = [writer EXCEPT
                ![w].todo = left, ![w].at = k,
                ![w].stage = IF n = 0 THEN "counting" ELSE AfterPutting(left)]
    BY <1>3 DEF PutEntry
  <2> DEFINE left == writer[w].todo \ {k}
             stage == IF writer[w].priors[At(w, k)].count = 0 THEN "counting"
                      ELSE AfterPutting(left)
  <2>2. writer' = [writer EXCEPT ![w].todo = left, ![w].at = k, ![w].stage = stage]
    BY <2>1
  <2> HIDE DEF left, stage
  <2>3. writer' = [writer EXCEPT ![w] = [writer[w] EXCEPT !.todo = left, !.at = k,
                                                          !.stage = stage]]
    BY <1>1, <2>2
  <2> QED
    BY <2>3
<1>4. CASE TakeOrder(w)
  <2>1. writer' = [writer EXCEPT ![w] = [writer[w] EXCEPT !.stage = "marking",
                                                          !.order = counter + 1]]
    BY <1>1, <1>4 DEF TakeOrder
  <2> QED
    BY <2>1
<1>5. CASE PutMarker(w)
  <2>1. writer' = [writer EXCEPT ![w] = [writer[w] EXCEPT !.stage = AfterPutting(writer[w].todo)]]
    BY <1>1, <1>5 DEF PutMarker
  <2> QED
    BY <2>1
<1> QED
  BY <1>2, <1>3, <1>4, <1>5

\* An invocation that rates nothing has no writer at work.
Rests == \A w \in Writers : request[w].stage # "rating" => writer[w].stage = "idle"

LEMMA RestsStep ==
  ASSUME ServiceInv, Rests, [Next]_vars
  PROVE  Rests'
<1>1. DOMAIN request = Writers /\ writer \in [Writers -> Writer] /\ IdleWriter.stage = "idle"
  BY IdleWriterOK DEF ServiceInv, ServiceTypeOK, LedgerInv, LedgerTypeOK
<1>2. ASSUME NEW w \in Writers, NEW r, request' = [request EXCEPT ![w] = r],
             \/ UNCHANGED writer /\ request[w].stage # "rating"
             \/ writer' = [writer EXCEPT ![w] = IdleWriter]
             \/ r.stage = "rating" /\ \E x : writer' = [writer EXCEPT ![w] = x]
      PROVE  Rests'
  BY <1>1, <1>2 DEF Rests
<1>3. ASSUME NEW w \in Writers, Step(w) PROVE Rests'
  <2>1. CASE ListIds(w)
    BY <1>2, <2>1 DEF ListIds, Goes, Idle, ledgerVars
  <2>2. CASE CountOne(w)
    BY <1>2, <2>2 DEF CountOne, Goes, ledgerVars
  <2>3. CASE CountFails(w) \/ Admit(w) \/ Refuse(w) \/ RejectBody(w)
    BY <1>2, <2>3 DEF CountFails, Admit, Refuse, RejectBody, Goes, ledgerVars
  <2>4. CASE \E id \in MatchIds, by \in Callers, points \in Points : TakeTurn(w, id, by, points)
    <3>1. PICK id, after :
            /\ Idle(w)
            /\ \/ Carries(w, "rating", id, after) /\ BeginRecord(w, id, OutcomeOf(after))
               \/ Carries(w, "saving", id, after) /\ UNCHANGED ledgerVars
      BY <2>4 DEF TakeTurn
    <3> DEFINE r(stage) == [NoRequest EXCEPT !.stage = stage, !.id = id, !.match = after]
    <3>2. r("rating").stage = "rating"
      BY DEF NoRequest
    <3>3. Carries(w, "rating", id, after) => request' = [request EXCEPT ![w] = r("rating")]
      BY DEF Carries, Goes
    <3>4. Carries(w, "saving", id, after) => request' = [request EXCEPT ![w] = r("saving")]
      BY DEF Carries, Goes
    <3>5. BeginRecord(w, id, OutcomeOf(after)) => \E x : writer' = [writer EXCEPT ![w] = x]
      BY DEF BeginRecord
    <3> HIDE DEF r
    <3> QED
      BY <1>2, <3>1, <3>2, <3>3, <3>4, <3>5 DEF Idle, ledgerVars
  <2>5. CASE \E id \in MatchIds, by \in Callers : Pause(w, id, by) \/ Resume(w, id, by)
    <3>1. /\ Idle(w) /\ UNCHANGED ledgerVars
          /\ \E id, m : Carries(w, "saving", id, m)
      BY <2>5 DEF Pause, Resume
    <3>2. \E r : request' = [request EXCEPT ![w] = r]
      BY <3>1 DEF Carries, Goes
    <3> QED
      BY <1>2, <3>1, <3>2 DEF Idle, ledgerVars
  <2>6. CASE Rate(w)
    <3>1. \E x : writer' = [writer EXCEPT ![w] = x]
      BY <2>6, OneWriterMoves DEF Rate, ServiceInv
    <3>2. UNCHANGED request /\ request[w].stage = "rating"
      BY <2>6 DEF Rate, serviceVars
    <3>3. \A v \in Writers : v # w => writer'[v] = writer[v]
      BY <3>1
    <3> QED
      BY <3>2, <3>3 DEF Rests
  <2>7. CASE RateDone(w) \/ RateFails(w) \/ Die(w)
    BY <1>2, <2>7 DEF RateDone, RateFails, Die, EndRecord, EntryRefused, Abandon, Goes
  <2>8. CASE Save(w)
    BY <1>2, <2>8 DEF Save, Goes, ledgerVars
  <2> QED
    BY <1>3, <2>1, <2>2, <2>3, <2>4, <2>5, <2>6, <2>7, <2>8 DEF Step
<1>4. ASSUME UNCHANGED <<writer, request>> PROVE Rests'
  BY <1>4 DEF Rests
<1>5. CASE \E id \in MatchIds : Replicate(id)
  BY <1>4, <1>5 DEF Replicate, ledgerVars
<1>6. CASE UNCHANGED vars
  BY <1>4, <1>6 DEF vars, serviceVars, ledgerVars
<1> QED
  BY <1>3, <1>5, <1>6 DEF Next

\* No order up to the counter is lost: it is written, or about to be.
OrdersUsed == 1..counter \subseteq DOMAIN markers \cup {writer[w].order : w \in Marking}

OrdersInv == ~died => OrdersUsed

\* A step of a writer that is not in the middle of marking an identity.
LEMMA OrdersStay ==
  ASSUME LedgerInv, OrdersUsed, NEW w \in Writers, w \notin Marking, NEW r,
         writer' = [writer EXCEPT ![w] = r], UNCHANGED <<markers, counter>>
  PROVE  OrdersUsed'
<1>1. \A v \in Marking : writer'[v] = writer[v] /\ v \in Marking'
  BY DEF LedgerInv, LedgerTypeOK, Marking
<1> QED
  BY <1>1 DEF OrdersUsed

LEMMA RegistrationUsesOrders ==
  ASSUME LedgerInv, OrdersUsed, NEW w \in Writers, TakeOrder(w) \/ PutMarker(w)
  PROVE  OrdersUsed'
<1>1. writer \in [Writers -> Writer] /\ counter \in Nat
  BY DEF LedgerInv, LedgerTypeOK
<1>2. \A v \in Writers : v # w => writer'[v] = writer[v]
  BY <1>1 DEF TakeOrder, PutMarker
<1>3. \A v \in Marking \ {w} : writer'[v] = writer[v] /\ v \in Marking'
  BY <1>2 DEF Marking
<1>4. CASE TakeOrder(w)
  <2>1. w \in Marking' /\ writer'[w].order = counter + 1 /\ w \notin Marking
    BY <1>1, <1>4 DEF TakeOrder, Writer, Marking
  <2>2. counter' = counter + 1 /\ UNCHANGED markers
    BY <1>4 DEF TakeOrder
  <2>3. \A n \in 1..counter' : n \in 1..counter \/ n = counter + 1
    BY <1>1, <2>2
  <2> QED
    BY <1>3, <2>1, <2>2, <2>3 DEF OrdersUsed
<1>5. CASE PutMarker(w)
  <2>1. DOMAIN markers' = DOMAIN markers \cup {writer[w].order} /\ UNCHANGED counter
    BY <1>5 DEF PutMarker, WithItem
  <2> QED
    BY <1>3, <2>1 DEF OrdersUsed
<1> QED
  BY <1>4, <1>5

LEMMA OrdersStep ==
  ASSUME DeltasAreIntegers, ServiceInv, OrdersInv, [WatchedNext]_<<vars, died>>
  PROVE  OrdersInv'
<1> SUFFICES ASSUME ~died' PROVE OrdersUsed'
  BY DEF OrdersInv
<1>1. ~died /\ OrdersUsed /\ [Next]_vars /\ ~\E w \in Writers : Die(w)
  <2>1. CASE WatchedNext
    BY <2>1 DEF WatchedNext, OrdersInv
  <2>2. CASE UNCHANGED <<vars, died>>
    <3>1. ~\E w \in Writers : Die(w)
      BY <2>2, NoRequestOK DEF vars, serviceVars, Die, Idle, Goes, ServiceInv, ServiceTypeOK
    <3> QED
      BY <2>2, <3>1 DEF OrdersInv
  <2> QED
    BY <2>1, <2>2
<1>2. LedgerInv /\ writer \in [Writers -> Writer]
  BY DEF ServiceInv, LedgerInv, LedgerTypeOK
<1>3. CASE \E w \in Writers : LedgerStep(w)
  <2>1. PICK w \in Writers : LedgerStep(w)
    BY <1>3
  <2>2. CASE ReadPrior(w) \/ PutEntry(w)
    <3>1. \E x : writer' = [writer EXCEPT ![w] = x]
      BY <1>2, <2>2, OneWriterMoves
    <3>2. UNCHANGED <<markers, counter>> /\ w \notin Marking
      BY <2>2 DEF ReadPrior, PutEntry, Marking
    <3> QED
      BY <1>1, <1>2, <3>1, <3>2, OrdersStay
  <2>3. CASE EntryRefused(w)
    BY <1>1, <1>2, <2>3, OrdersStay DEF EntryRefused, Abandon, Marking
  <2> QED
    BY <1>1, <1>2, <2>1, <2>2, <2>3, RegistrationUsesOrders DEF LedgerStep
<1>4. CASE \E w \in Writers : EndRecord(w)
  BY <1>1, <1>2, <1>4, OrdersStay DEF EndRecord, Abandon, Marking
<1>5. CASE \E w \in Writers, m \in MatchIds, outcome \in RatedOutcome : BeginRecord(w, m, outcome)
  <2>1. PICK w \in Writers, m \in MatchIds, outcome \in RatedOutcome : BeginRecord(w, m, outcome)
    BY <1>5
  <2> DEFINE r == [IdleWriter EXCEPT !.stage = "reading", !.match = m, !.outcome = outcome,
                                     !.todo = FirstSeen(outcome)]
  <2>2. writer' = [writer EXCEPT ![w] = r] /\ UNCHANGED <<markers, counter>> /\ w \notin Marking
    BY <2>1 DEF BeginRecord, Marking
  <2> HIDE DEF r
  <2> QED
    BY <1>1, <1>2, <2>2, OrdersStay
<1>6. CASE UNCHANGED ledgerVars
  BY <1>1, <1>6 DEF ledgerVars, OrdersUsed, Marking
<1> QED
  BY <1>1, <1>3, <1>4, <1>5, <1>6, ServiceServesLedger DEF LedgerServed

-----------------------------------------------------------------------------
(* The leaderboard, the dataset and the pages *)

\* What the league publishes agrees once no invocation is at work.
LEMMA PublishedAgrees ==
  ASSUME ServiceInv, RegistrationInv, Enlisted, OrdersUsed, Rests, Explained,
         \A w \in Writers : Idle(w)
  PROVE  /\ \A id \in Finished : Storable(Item(id))
         /\ ExportGivesRows
         /\ RowsLeadToProfiles
         /\ PagesLeadToProfiles
<1>1. Registering = {} /\ Marking = {} /\ \A w \in Writers : \A i, id : ~Ahead(w, i, id)
  BY DEF Rests, Idle, Registering, Marking, Ahead
<1>2. /\ entries \in [Identities -> Seq(Entry)] /\ counter \in Nat
      /\ DOMAIN markers \subseteq 1..counter
      /\ \A n \in DOMAIN markers : markers[n] \in Identities
  BY DEF ServiceInv, LedgerInv, LedgerTypeOK
<1>3. Listing(markers) /\ ToSet(markers) = {i \in Identities : entries[i] # << >>}
  <2>1. DOMAIN markers = 1..counter
    BY <1>1, <1>2 DEF OrdersUsed
  <2>2. Listing(markers)
    BY <1>2, <2>1 DEF Listing, RegistrationInv, OneMarkerPerIdentity
  <2>3. ToSet(markers) = Listed
    BY DEF ToSet, Listed
  <2>4. Listed = {i \in Identities : entries[i] # << >>}
    <3>1. Listed \subseteq Identities
      BY <1>2 DEF Listed
    <3> QED
      BY <1>1, <3>1 DEF Enlisted, RegistrationInv
  <2> QED
    BY <2>2, <2>3, <2>4
<1>4. LedgerStanding = SettledStanding
  <2>1. \A i \in Identities : Settled(i) = Len(entries[i])
    BY <1>1 DEF Settled, InProgress
  <2> QED
    BY <2>1 DEF LedgerStanding, SettledStanding
<1>5. Rankable(LedgerStanding)
  <2> SUFFICES ASSUME NEW i \in Identities PROVE RatingAt(entries[i], Len(entries[i])) \in Int
    BY DEF Rankable, LedgerStanding
  <2>1. entries[i] \in Seq(Entry)
    BY <1>2
  <2>2. Len(entries[i]) # 0 => entries[i][Len(entries[i])] \in Entry
    BY <2>1
  <2> QED
    BY <2>2, LedgerAssumption DEF RatingAt, Entry
<1>6. ASSUME NEW id \in Finished
      PROVE  /\ IsMatch(table[id]) /\ table[id].status = "completed"
             /\ Storable(Item(id)) /\ LoadedMatch(Item(id)).status = "completed"
             /\ LoadedMatch(Item(id)).participants =
                  [k \in DOMAIN table[id].seats |->
                     ParticipantToDict(table[id].seats[k], IdentityOf[table[id].seats[k]])]
  <2> DEFINE m == table[id]
  <2>1. IsMatch(m) /\ m.status = "completed"
    BY DEF Finished, ServiceInv, ServiceTypeOK
  <2>2. Item(id) = SavedItem(id, m, IdentityOf)
    BY DEF Item
  <2> HIDE DEF m
  <2> DEFINE item == SavedItem(id, m, IdentityOf)
             match == LoadedMatch(item)
  <2>3. /\ Storable(item)
        /\ match.status = "completed"
        /\ match.participants =
             [k \in DOMAIN m.seats |-> ParticipantToDict(m.seats[k], IdentityOf[m.seats[k]])]
        /\ match.result # None
        /\ match.result.scores = [p \in Seated(m.seats) |-> Number("int", m.result.scores[p])]
    BY <2>1, LoadedFinished
  <2>4. item = Item(id) /\ match = LoadedMatch(Item(id))
    BY <2>2
  <2> HIDE DEF item, match
  <2> QED
    BY <2>1, <2>3, <2>4 DEF m
<1>7. ExportGivesRows
  <2>1. PICK ids \in SetToSeqs(Finished) :
          Rerated([k \in DOMAIN ids |-> Line(ids[k])]) = SettledStanding
    BY DEF Explained, Chronicle
  <2>2. \A k \in DOMAIN ids : ids[k] \in Finished
    BY DEF SetToSeqs
  <2> DEFINE matches == [k \in DOMAIN ids |-> LoadedMatch(Item(ids[k]))]
  <2>3. \A k \in DOMAIN matches : matches[k].status = "completed"
    BY <1>6, <2>2
  <2>4. [k \in DOMAIN matches |-> ExportedMatch(matches[k])] = [k \in DOMAIN ids |-> Line(ids[k])]
    BY DEF Line, LineOf, Item
  <2>5. ExportOf(ids) = ExportMatches(matches)
    BY DEF ExportOf
  <2> HIDE DEF matches
  <2>6. ExportOf(ids) = [written |-> TRUE, lines |-> [k \in DOMAIN ids |-> Line(ids[k])]]
    BY <2>3, <2>4, <2>5 DEF ExportMatches
  <2>7. ExportOf(ids).written /\ Rerated(ExportOf(ids).lines) = LedgerStanding
    BY <1>4, <2>1, <2>6
  <2>8. Leaderboard(LedgerStanding, Reverse(markers)) = Rows
    BY <1>3, <1>5, ReverseLists, RowsIgnoreOrder DEF Rows
  <2> QED
    BY <2>7, <2>8 DEF ExportGivesRows
<1>8. RowsLeadToProfiles
  BY <1>3, <1>5, LinksKeepRanks DEF RowsLeadToProfiles, Rows
<1>9. PagesLeadToProfiles
  <2> SUFFICES ASSUME NEW id \in Finished,
                      Len(PageModel(LoadedMatch(Item(id)), LedgerStanding).participants) > 1,
                      NEW view \in
                        ToSet(PageModel(LoadedMatch(Item(id)), LedgerStanding).participants)
               PROVE  /\ view.profile \in DOMAIN SlugIndex(markers)
                      /\ SlugIndex(markers)[view.profile] = IdentityOf[view.participant_id]
    BY DEF PagesLeadToProfiles
  <2> DEFINE m == table[id]
             match == LoadedMatch(Item(id))
             shown == PageModel(match, LedgerStanding).participants
             participant(k) == ParticipantToDict(m.seats[k], IdentityOf[m.seats[k]])
  <2>1. /\ IsMatch(m) /\ m.status = "completed" /\ match.status = "completed"
        /\ match.participants = [k \in DOMAIN m.seats |-> participant(k)]
    BY <1>6
  <2>2. /\ Len(m.seats) \in {1, 2} /\ DOMAIN m.seats = 1..Len(m.seats)
        /\ \A k \in DOMAIN m.seats : IdentityOf[m.seats[k]] \in Identities
    BY <2>1, SeatsOK, ServiceAssumption DEF IsMatch
  <2> HIDE DEF match, m, participant
  <2>3. shown = [k \in DOMAIN m.seats |-> ParticipantView(match, participant(k), LedgerStanding)]
    BY <2>1 DEF PageModel
  <2>4. Len(shown) > 1 /\ view \in ToSet(shown)
    BY DEF match
  <2> HIDE DEF shown
  <2>5. Len(shown) = Len(m.seats)
    BY <2>2, <2>3
  <2>6. Rated(m)
    BY <2>1, <2>2, <2>4, <2>5 DEF Rated
  <2>7. PICK k \in DOMAIN m.seats : view = ParticipantView(match, participant(k), LedgerStanding)
    BY <2>3, <2>4 DEF ToSet
  <2> DEFINE i == IdentityOf[m.seats[k]]
  <2>8. i \in Identities
    BY <2>2
  <2>9. participant(k).participant_id = m.seats[k] /\ FromParticipant(participant(k)) = i
    BY <2>8, IdentityBack DEF participant
  <2>10. view.participant_id = m.seats[k] /\ view.profile = IdentitySlug(i)
    BY <2>1, <2>7, <2>9 DEF ParticipantView
  <2>11. i \in ToSet(markers)
    <3>1. HasEntry(i, id)
      <4>1. i \in RatedIdentities(m)
        BY <2>6 DEF RatedIdentities
      <4> QED
        BY <4>1 DEF ServiceInv, Backed, Finished, m
    <3>2. entries[i] # << >>
      BY <3>1 DEF HasEntry
    <3> QED
      BY <1>3, <2>8, <3>2
  <2>12. ToSet(markers) \subseteq Identities
    BY <1>3
  <2> HIDE DEF i
  <2>13. IdentityOf[view.participant_id] = i
    BY <2>10 DEF i
  <2> QED
    BY <2>10, <2>11, <2>12, <2>13, SlugLeadsBack
<1> QED
  BY <1>6, <1>7, <1>8, <1>9

\* While requests run one at a time and none has died, the ledger, the dataset
\* and the pages tell one story: the exported matches, rated in the order in which
\* they were recorded, give the leaderboard, whatever the rating system, and every
\* link leads to the profile it is meant to.
THEOREM LeaderboardWhileAlive ==
  ASSUME DeltasAreIntegers, OneAtATime
  PROVE  WatchedSpec => []LeaderboardFollowsDataset
<1>1. WatchedInit => Init /\ CountsInv /\ ListedInv /\ OrdersInv /\ ExplainedInv
  <2>1. Init => Enlisted /\ OrdersUsed
    BY DEF Init, LedgerInit, Enlisted, OrdersUsed
  <2> QED
    BY <2>1, CountsStarts, ExplainedStarts
       DEF WatchedInit, CountsInv, ListedInv, OrdersInv, ExplainedInv
<1>2. Init => Rests
  BY IdleWriterOK DEF Init, LedgerInit, Rests
<1>3. [WatchedNext]_<<vars, died>> => [Next]_vars
  BY DEF WatchedNext
<1>4. ServiceInv /\ RegistrationInv /\ [Next]_vars => RegistrationInv'
  BY ServiceServesLedger, ServedRegistration DEF ServiceInv
<1>5. ServiceInv /\ SerialInv /\ [Next]_vars => SerialInv'
  BY SerialSteps
<1>6. ServiceInv /\ Rests /\ [Next]_vars => Rests'
  BY RestsStep
<1>7. ServiceInv /\ ListedInv /\ [WatchedNext]_<<vars, died>> => ListedInv'
  BY ListedStep
<1>8. ServiceInv /\ OrdersInv /\ [WatchedNext]_<<vars, died>> => OrdersInv'
  BY OrdersStep
<1>9. ServiceInv /\ SerialInv /\ CountsInv /\ [WatchedNext]_<<vars, died>> => CountsInv'
  BY CountsStep
<1>10. ServiceInv /\ SerialInv /\ CountsInv /\ ExplainedInv /\ [WatchedNext]_<<vars, died>>
         => ExplainedInv'
  BY ExplainedStep
<1>11. ServiceInv /\ RegistrationInv /\ ListedInv /\ OrdersInv /\ Rests /\ ExplainedInv
         => LeaderboardFollowsDataset
  BY PublishedAgrees DEF ListedInv, OrdersInv, ExplainedInv, LeaderboardFollowsDataset
<1>12. WatchedSpec => Spec
  BY <1>1, <1>3, PTL DEF WatchedSpec, Spec
<1> QED
  BY <1>1, <1>2, <1>3, <1>4, <1>5, <1>6, <1>7, <1>8, <1>9, <1>10, <1>11, <1>12,
     SerialStarts, RegistrationStarts, ServiceInvariant, PTL DEF WatchedSpec, Spec
=============================================================================
