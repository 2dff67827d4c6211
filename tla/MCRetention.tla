----------------------------- MODULE MCRetention -----------------------------
(***************************************************************************)
(* The sweep, for TLC.                                                     *)
(***************************************************************************)
EXTENDS Retention, TLC

\* Match ids are interchangeable, and so are workers.  Not for liveness.
IdSymmetry == Permutations(MatchIds)
Symmetry == Permutations(MatchIds) \cup Permutations(Workers)
=============================================================================
