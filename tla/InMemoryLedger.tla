--------------------------- MODULE InMemoryLedger ---------------------------
(***************************************************************************)
(* league_site.ratings.ledger.InMemoryRatingLedgerStore rated by           *)
(* IntegerEloRatingSystem: the reference store, in which recording a match *)
(* is one step.  A behaviour is a season: one completed match after        *)
(* another, between any of the identities.                                 *)
(***************************************************************************)
EXTENDS EloRating, SequencesExt

CONSTANTS Identities,      \* the rated identities
          Scores,          \* the hard scores an engine may give
          MaxParticipants, \* bound: participants of a match
          MaxMatches       \* bound: matches in the season

ASSUME BoundsAssumption == MaxParticipants >= 2 /\ MaxMatches \in Nat

VARIABLES history,      \* history[i]: the entries of identity i, oldest first
          listed,       \* the identities with history, in insertion order
          played        \* matches recorded so far; the next match's id

vars == <<history, listed, played>>

MatchIds == 0..MaxMatches

\* What a completed match can bring: two or more scored participants.
Outcomes ==
  UNION {[1..n -> [identity : Identities, score : Scores]] : n \in 2..MaxParticipants}

Rating(i) ==
  IF history[i] = << >> THEN EloInitialRating ELSE Last(history[i]).rating

Ratings == [i \in Identities |-> Rating(i)]

Init ==
  /\ history = [i \in Identities |-> << >>]
  /\ listed = << >>
  /\ played = 0

\* Faulty variant: the new rating is computed from the initial rating.
RecordMatchFromScratch(outcome) ==
  LET deltas == EloDeltas(Ratings, outcome) IN
  /\ history' = [i \in Identities |->
       IF i \in OutcomeIdentities(outcome)
         THEN Append(history[i], [match |-> played, delta |-> deltas[i],
                                  rating |-> EloInitialRating + deltas[i]])
         ELSE history[i]]
  /\ listed' = listed \o SelectSeq(SetToSeq(OutcomeIdentities(outcome)),
                                   LAMBDA i : history[i] = << >>)
  /\ played' = played + 1

\* record_match: rate the outcome against the current standings and append
\* one entry per distinct identity.
RecordMatch(outcome) ==
  LET deltas == EloDeltas(Ratings, outcome)
      FirstSeen(k) == \A j \in 1..(k - 1) : outcome[j].identity # outcome[k].identity
      involved == SelectSeq([k \in DOMAIN outcome |-> k], FirstSeen)
      newcomers == SelectSeq([k \in DOMAIN involved |-> outcome[involved[k]].identity],
                             LAMBDA i : history[i] = << >>)
  IN
  /\ history' = [i \in Identities |->
       IF i \in OutcomeIdentities(outcome)
         THEN Append(history[i], [match |-> played, delta |-> deltas[i],
                                  rating |-> Rating(i) + deltas[i]])
         ELSE history[i]]
  /\ listed' = listed \o newcomers
  /\ played' = played + 1

Next == played < MaxMatches /\ \E outcome \in Outcomes : RecordMatch(outcome)

Spec == Init /\ [][Next]_vars

-----------------------------------------------------------------------------
(* Properties *)

\* How far the league's total has moved from where it started.
TotalDrift ==
  MapThenSumSet(Rating, Identities) - EloInitialRating * Cardinality(Identities)

\* The type of a season, and all_identities' contract: exactly the identities
\* with at least one recorded match are listed, each once.
TypeOK ==
  /\ \A i \in Identities : \A k \in DOMAIN history[i] :
       /\ history[i][k].match \in 0..(played - 1)
       /\ history[i][k].delta \in -KFactor..KFactor
  /\ IsInjective(listed)
  /\ ToSet(listed) = {i \in Identities : history[i] # << >>}

\* However unequal the opponents, rounding and interpolation move the total of
\* all ratings by at most one point per recorded match, in either direction:
\* no sequence of matches pumps rating points into the league faster.
DriftAtMostOnePerMatch ==
  TotalDrift \in -played..played

\* The store keeps the contract of RatingLedgerStore.
Contract == INSTANCE AppendLedger WITH InitialRating <- EloInitialRating
KeepsLedgerContract == Contract!Spec
=============================================================================
