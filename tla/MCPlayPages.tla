---------------------------- MODULE MCPlayPages ----------------------------
(***************************************************************************)
(* The play pages on a small game, for TLC: teams may advance in every     *)
(* second turn, the house does, and every advance is worth a point.        *)
(***************************************************************************)
EXTENDS PlayPages, TLC

CONSTANT advance

MCLegal(log, t) == IF Len(log) % 2 = 1 THEN {Hold, advance} ELSE {Hold}

MCHouseOrders(log, t) == IF advance \in MCLegal(log, t) THEN advance ELSE Hold

MCScore(log, t) ==
  Cardinality({n \in DOMAIN log : t \in DOMAIN log[n] /\ log[n][t].orders = advance})

\* Team against team needs two stagings a turn.
MCTurnLimit(mode) == IF mode = TeamVsTeam THEN 1 ELSE 2

Symmetry == {f @@ g : f \in Permutations(Writers), g \in Permutations(Players)}
=============================================================================
