---------------------------- MODULE MCPublicPages ----------------------------
(***************************************************************************)
(* The public pages, for TLC.                                              *)
(***************************************************************************)
EXTENDS PublicPages

IdSymmetry == Permutations(MatchIds)
=============================================================================
