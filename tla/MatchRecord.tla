----------------------------- MODULE MatchRecord -----------------------------
(***************************************************************************)
(* The value of one match: league_site.matches.match.Match, played on the  *)
(* built-in StubDuelEngine of league_site/api/engines.py.  Each transition *)
(* of Match is a pair: the condition under which the method does not raise *)
(* and the match it leaves.                                                *)
(***************************************************************************)
EXTENDS Integers, Sequences

CONSTANTS Callers,    \* participant ids
          Points,     \* LEGAL_POINTS
          Target,     \* the engine's target score
          MaxTurns,   \* the engine's max_turns
          None        \* Python's None

ASSUME EngineAssumption ==
  /\ Points \subseteq Nat \ {0}
  /\ Target \in Nat \ {0} /\ MaxTurns \in Nat \ {0}
  /\ None \notin Callers

\* A practice match has one participant, a duel two different ones.
Seatings == {<<p>> : p \in Callers} \cup
            {s \in Callers \X Callers : s[1] # s[2]}

Seated(seats) == {seats[k] : k \in DOMAIN seats}

-----------------------------------------------------------------------------
(* StubDuelEngine.  taken stands for turn_index and turns_taken, which      *)
(* apply_turn always moves together.                                        *)

InitialState(seats) ==
  [order |-> seats, scores |-> [p \in Seated(seats) |-> 0], taken |-> 0]

OnTurn(game) == game.order[(game.taken % Len(game.order)) + 1]

LegalTurn(game, by, points) == by = OnTurn(game) /\ points \in Points

ApplyTurn(game, by, points) ==
  [game EXCEPT !.scores[by] = @ + points, !.taken = @ + 1]

IsOver(game) ==
  game.taken >= MaxTurns \/ \E p \in DOMAIN game.scores : game.scores[p] >= Target

-----------------------------------------------------------------------------
(* Match *)

\* _sole_leader: the participant ahead of all others, None on a tie.
Leads(p, scores) == \A q \in DOMAIN scores \ {p} : scores[p] > scores[q]

SoleLeader(scores) ==
  IF \E p \in DOMAIN scores : Leads(p, scores)
    THEN CHOOSE p \in DOMAIN scores : Leads(p, scores)
    ELSE None

Created(seats) ==
  [seats |-> seats, status |-> "created", game |-> None, turns |-> << >>, result |-> None]

\* start, on a match just created.
Started(match) == [match EXCEPT !.status = "active", !.game = InitialState(match.seats)]

CanTakeTurn(match, by, points) ==
  match.status = "active" /\ LegalTurn(match.game, by, points)

Turned(match, by, points) ==
  [match EXCEPT !.game = ApplyTurn(@, by, points),
                !.turns = Append(@, [number |-> Len(@) + 1, by |-> by, points |-> points])]

CanPause(match) == match.status = "active"
Paused(match) == [match EXCEPT !.status = "paused"]

CanResume(match) == match.status = "paused"
Resumed(match) == [match EXCEPT !.status = "active"]

Completed(match) ==
  [match EXCEPT !.status = "completed",
                !.result = [winner |-> SoleLeader(match.game.scores),
                            scores |-> match.game.scores]]

\* Faulty variant: a finished game is not completed.
AfterTurnNeverComplete(match, by, points) == Turned(match, by, points)

\* matchops.take_turn: one turn, and completion the instant the game is over.
AfterTurn(match, by, points) ==
  LET turned == Turned(match, by, points)
  IN  IF IsOver(turned.game) THEN Completed(turned) ELSE turned
=============================================================================
