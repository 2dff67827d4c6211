---------------------------- MODULE MCHostedTurn ----------------------------
(***************************************************************************)
(* A small instance of HostedTurn: one unit with one legal action of two,  *)
(* and one unit nobody knows.                                              *)
(***************************************************************************)
EXTENDS HostedTurn, TLC

CONSTANTS u1, hold, advance

MCLegalActions == {<<u1, hold>>}

Symmetry ==
  {f @@ g @@ k : f \in Permutations(Callers), g \in Permutations(Handles), k \in Permutations(Secrets)}
=============================================================================
