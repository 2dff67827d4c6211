--------------------------- MODULE MCMatchService ---------------------------
(***************************************************************************)
(* The match API rated by the integer Elo system, for TLC.                 *)
(***************************************************************************)
EXTENDS MatchService, TLC

CONSTANTS p1, p2,      \* participant ids
          ann, bot     \* their identities

Elo == INSTANCE EloRating

MCComputeDeltas(ratings, outcome) == Elo!EloDeltas(ratings, outcome)
MCInitialRating == Elo!EloInitialRating
MCIdentityOf == p1 :> ann @@ p2 :> bot
MCSoloIdentityOf == p1 :> ann
MCOutcomes == {}

\* Writers and match ids are interchangeable, and so are the two players, each with its
\* identity: Elo treats the seats alike and nothing compares names.
Same == p1 :> p1 @@ p2 :> p2 @@ ann :> ann @@ bot :> bot
Swapped == p1 :> p2 @@ p2 :> p1 @@ ann :> bot @@ bot :> ann
FullSymmetry ==
  {writers @@ ids @@ players : writers \in Permutations(Writers),
                               ids \in Permutations(MatchIds),
                               players \in {Same, Swapped}}
=============================================================================
