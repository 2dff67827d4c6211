---------------------------- MODULE AppendLedger ----------------------------
(***************************************************************************)
(* What league_site.ratings.ledger.RatingLedgerStore promises of any       *)
(* store behind it: one history per identity, to which recording a match   *)
(* appends, and in which every entry carries the rating that results from  *)
(* the entry before it.  Nothing is ever rewritten, removed or skipped.    *)
(***************************************************************************)
EXTENDS Integers, Sequences

CONSTANTS Identities,     \* who can be rated
          MatchIds,       \* the matches that can be recorded
          InitialRating   \* the rating of an identity without history

VARIABLE history          \* history[i]: the entries of identity i, oldest first

Entry == [match : MatchIds, delta : Int, rating : Int]

\* The rating after the first n entries of h.
RatingAt(h, n) == IF n = 0 THEN InitialRating ELSE h[n].rating

Init == history = [i \in Identities |-> << >>]

\* Identity i gets one more entry, for match m, chained to its last one.
Appended(i, m) ==
  LET n == Len(history[i]) IN
  /\ history'[i] \in Seq(Entry)
  /\ Len(history'[i]) = n + 1
  /\ \A k \in 1..n : history'[i][k] = history[i][k]
  /\ history'[i][n + 1].match = m
  /\ history'[i][n + 1].rating = RatingAt(history[i], n) + history'[i][n + 1].delta

\* One match is recorded for the identities in S.
Record(S, m) ==
  /\ S # {}
  /\ history' \in [Identities -> Seq(Entry)]
  /\ \A i \in S : Appended(i, m)
  /\ \A i \in Identities \ S : history'[i] = history[i]

Next == \E S \in SUBSET Identities, m \in MatchIds : Record(S, m)

Spec == Init /\ [][Next]_history
=============================================================================
