------------------------------ MODULE MCSignIn ------------------------------
(***************************************************************************)
(* A small instance of SignIn: one person, who has proved to hold one of   *)
(* two addresses.                                                          *)
(***************************************************************************)
EXTENDS SignIn

CONSTANTS ann, mine, other

MCOwn == [s \in {ann} |-> {mine}]
=============================================================================
