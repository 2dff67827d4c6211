-------------------------- MODULE MCSerialService --------------------------
(***************************************************************************)
(* The match API with one invocation at a time, as the wsgiref server of   *)
(* `league-site` runs it, for TLC.  Two namesakes play, a human and an     *)
(* agent.                                                                  *)
(***************************************************************************)
EXTENDS MCMatchService, SerialService

SerialHuman == [kind |-> "human", display_name |-> 1, model |-> None, provider |-> None]
SerialAgent == [kind |-> "agent", display_name |-> 1, model |-> 1, provider |-> 1]
SerialIdentities == {SerialHuman, SerialAgent}
=============================================================================
