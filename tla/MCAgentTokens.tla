---------------------------- MODULE MCAgentTokens ----------------------------
(***************************************************************************)
(* A small instance of AgentTokens.  Everything but the legacy tokens is   *)
(* interchangeable with its kind.                                          *)
(***************************************************************************)
EXTENDS AgentTokens, TLC

Symmetry ==
  Permutations(TokenIds \ Legacy) \cup Permutations(Callers)
    \cup Permutations(Accounts) \cup Permutations(Names)
=============================================================================
