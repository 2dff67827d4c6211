------------------------------ MODULE EloRating ------------------------------
(***************************************************************************)
(* The integer Elo system of league_site/ratings/system.py.  Everything    *)
(* here is a pure operator: a rating difference goes to an expected score, *)
(* a match outcome goes to one integer delta per identity.                 *)
(*                                                                         *)
(* An outcome is a sequence of [identity, score] records, one per scored   *)
(* participant; two participants may carry the same identity.              *)
(***************************************************************************)
EXTENDS Integers, Sequences, FiniteSetsExt

EloInitialRating == 1500
KFactor == 32
AnchorStep == 25
AnchorMax == 400

\* Expected score in millipoints, sampled every AnchorStep rating points.
ExpectedScoreTable ==
  << 91, 104, 118, 133, 151, 170, 192, 215, 240, 267, 297, 327, 360, 394,
     429, 464, 500, 536, 571, 606, 640, 673, 703, 733, 760, 785, 808, 830,
     849, 867, 882, 896, 909 >>

Clamped(diff) ==
  CASE diff > AnchorMax  -> AnchorMax
    [] diff < -AnchorMax -> -AnchorMax
    [] OTHER             -> diff

\* Faulty variant: the interpolation weight is the distance to the next anchor.
ExpectedMillipointsBackwards(diff) ==
  LET shifted   == Clamped(diff) + AnchorMax
      index     == shifted \div AnchorStep + 1
      remainder == shifted % AnchorStep
      low       == ExpectedScoreTable[index]
  IN  IF remainder = 0
        THEN low
        ELSE low + ((ExpectedScoreTable[index + 1] - low) * (AnchorStep - remainder))
                      \div AnchorStep

ExpectedMillipoints(diff) ==
  LET shifted   == Clamped(diff) + AnchorMax
      index     == shifted \div AnchorStep + 1
      remainder == shifted % AnchorStep
      low       == ExpectedScoreTable[index]
  IN  IF remainder = 0
        THEN low
        ELSE low + ((ExpectedScoreTable[index + 1] - low) * remainder) \div AnchorStep

\* Faulty variant: plain floor division.
RoundDown(numerator, denominator) == numerator \div denominator

RoundHalfAwayFromZero(numerator, denominator) ==
  IF numerator >= 0
    THEN (numerator + denominator \div 2) \div denominator
    ELSE -((-numerator + denominator \div 2) \div denominator)

\* Faulty variant: a drawn pair is scored as a win for both.
ActualGenerous(mine, theirs) == IF mine >= theirs THEN 1000 ELSE 0

ActualMillipoints(mine, theirs) ==
  CASE mine > theirs -> 1000
    [] mine < theirs -> 0
    [] OTHER         -> 500

\* What one participant takes from its comparison with one opponent.
PairNumerator(ratings, mine, theirs) ==
  KFactor * (ActualMillipoints(mine.score, theirs.score)
             - ExpectedMillipoints(ratings[mine.identity] - ratings[theirs.identity]))

OutcomeIdentities(outcome) == {outcome[k].identity : k \in DOMAIN outcome}

\* compute_deltas for an outcome of two or more entries.  ratings gives every
\* identity its rating, EloInitialRating when it has none yet.
EloDeltas(ratings, outcome) ==
  LET n          == Len(outcome)
      Pairs(i)   == {p \in (1..n) \X (1..n) : p[1] # p[2] /\ outcome[p[1]].identity = i}
      Numerator(i) ==
        MapThenSumSet(LAMBDA p : PairNumerator(ratings, outcome[p[1]], outcome[p[2]]), Pairs(i))
  IN  [i \in OutcomeIdentities(outcome) |->
         RoundHalfAwayFromZero(Numerator(i), 1000 * (n - 1))]
=============================================================================
