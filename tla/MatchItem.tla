------------------------------- MODULE MatchItem -------------------------------
(***************************************************************************)
(* What the match table holds of a match, and what comes back:             *)
(* league_site.matches.serialization and the number conversions of         *)
(* league_site.matches.aws.                                                *)
(*                                                                         *)
(* A match of module MatchRecord knows its participants by id; identityOf  *)
(* has the rest of them.  Names and timestamps keep their value through    *)
(* the item.  Numbers do not keep their type: the scores of a result are   *)
(* the only floats a duel has, so they alone are [type, value] here.       *)
(***************************************************************************)
EXTENDS MatchRecord

Number(type, value) == [type |-> type, value |-> value]

-----------------------------------------------------------------------------
(* to_item *)

ParticipantToDict(p, i) ==
  [participant_id |-> p, display_name |-> i.display_name, kind |-> i.kind,
   agent_identity |->
     IF i.kind = "agent" THEN [model |-> i.model, provider |-> i.provider] ELSE None]

TurnToDict(turn) ==
  [turn_number |-> turn.number, participant_id |-> turn.by, action |-> [points |-> turn.points]]

\* The engine scores in floats.
ResultToDict(result) ==
  IF result = None THEN None
  ELSE [winner_participant_id |-> result.winner,
        scores |-> [p \in DOMAIN result.scores |-> Number("float", result.scores[p])]]

ToItem(id, match, identityOf) ==
  [PK |-> <<"MATCH", id>>, match_id |-> id, status |-> match.status,
   participants |-> [k \in DOMAIN match.seats |->
                       ParticipantToDict(match.seats[k], identityOf[match.seats[k]])],
   turns |-> [k \in DOMAIN match.turns |-> TurnToDict(match.turns[k])],
   result |-> ResultToDict(match.result), game_state |-> match.game]

-----------------------------------------------------------------------------
(* Through DynamoDB *)

\* _dynamo_numbers: boto3 refuses a float, so it gets a Decimal.
DynamoNumbers(item) ==
  IF item.result = None THEN item
  ELSE [item EXCEPT !.result.scores =
          [p \in DOMAIN @ |-> IF @[p].type = "float" THEN Number("Decimal", @[p].value) ELSE @[p]]]

Storable(item) ==
  item.result # None => \A p \in DOMAIN item.result.scores : item.result.scores[p].type # "float"

\* get_item: boto3 reads every number as a Decimal.
GotItem(item) ==
  IF item.result = None THEN item
  ELSE [item EXCEPT !.result.scores = [p \in DOMAIN @ |-> Number("Decimal", @[p].value)]]

\* _plain_numbers: every number of a duel is whole, so its Decimal becomes an int.
PlainNumbers(item) ==
  IF item.result = None THEN item
  ELSE [item EXCEPT !.result.scores =
          [p \in DOMAIN @ |-> IF @[p].type = "Decimal" THEN Number("int", @[p].value) ELSE @[p]]]

-----------------------------------------------------------------------------
(* from_item *)

ParticipantFromDict(data) ==
  [participant_id |-> data.participant_id, display_name |-> data.display_name,
   kind |-> data.kind, agent_identity |-> data.agent_identity]

TurnFromDict(data) ==
  [number |-> data.turn_number, by |-> data.participant_id, points |-> data.action.points]

ResultFromDict(data) ==
  IF data = None THEN None ELSE [winner |-> data.winner_participant_id, scores |-> data.scores]

FromItem(item) ==
  [match_id |-> item.match_id, status |-> item.status, game |-> item.game_state,
   participants |-> [k \in DOMAIN item.participants |-> ParticipantFromDict(item.participants[k])],
   turns |-> [k \in DOMAIN item.turns |-> TurnFromDict(item.turns[k])],
   result |-> ResultFromDict(item.result)]

\* save, as far as the item put_item is given; and load of what it put.
SavedItem(id, match, identityOf) == DynamoNumbers(ToItem(id, match, identityOf))

LoadedMatch(item) == FromItem(PlainNumbers(GotItem(item)))
=============================================================================
