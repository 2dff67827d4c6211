------------------------------- MODULE MCElo -------------------------------
(***************************************************************************)
(* The Elo system for TLC: first diff walks over every rating difference   *)
(* there is to tell apart, from beyond one clamp to beyond the other, and  *)
(* the formula is checked at each; then a season is played.                *)
(***************************************************************************)
EXTENDS InMemoryLedger

CONSTANT MaxDiff   \* bound: the largest rating difference tried

VARIABLE diff      \* the first player's rating minus the second's

MCInit == Init /\ diff = -MaxDiff

Walk == diff < MaxDiff /\ diff' = diff + 1 /\ UNCHANGED vars
PlaySeason == diff = MaxDiff /\ Next /\ UNCHANGED diff

MCSpec == MCInit /\ [][Walk \/ PlaySeason]_<<vars, diff>>

\* The deltas of a duel at this difference, for hard scores x and y.
Duel(x, y) ==
  EloDeltas([p \in {"first", "second"} |->
                   IF p = "first" THEN EloInitialRating + diff ELSE EloInitialRating],
                << [identity |-> "first", score |-> x],
                   [identity |-> "second", score |-> y] >>)

\* The expected score never falls as the advantage grows, and stays strictly
\* between a certain loss and a certain win: a win always pays something.
ExpectationMonotone ==
  /\ ExpectedMillipoints(diff) \in 91..909
  /\ ExpectedMillipoints(diff) <= ExpectedMillipoints(diff + 1)

\* A win pays 3 to 29 points and a loss costs 3 to 29, and the lower-rated side
\* never loses by a draw.  An upset pays the winner at least what the favourite's
\* win would have paid the favourite.
WinnerGainsLoserPays ==
  /\ Duel(1, 0)["first"] \in 3..29
  /\ Duel(0, 1)["first"] \in -29..-3
  /\ diff <= 0 => /\ Duel(1, 1)["first"] >= 0 /\ Duel(1, 1)["second"] <= 0
                  /\ Duel(1, 0)["first"] >= Duel(0, 1)["second"]

=============================================================================
