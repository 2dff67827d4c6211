------------------------------ MODULE GridLane ------------------------------
(***************************************************************************)
(* league_site.game.adapter.GridLaneEngine: the grid-lane game behind the  *)
(* GameEngine interface.  The game itself is the external `league` program,*)
(* run in a fresh directory on the snapshot that the match state carries:  *)
(* each team stages its orders for the turn, and the turn is resolved the  *)
(* moment every team has.  Who controls which team, and which teams the    *)
(* house plays, is the data of a launch mode.                              *)
(*                                                                         *)
(* A game is [staged, log]: staged[t] is what team t has staged for the    *)
(* turn at hand, log[n] the plays of all teams that made turn n.  The log  *)
(* stands for the snapshot and for the board projected from it; turn       *)
(* numbers count from 0, so the turn at hand is Len(log).                  *)
(***************************************************************************)
EXTENDS Integers, Sequences, FiniteSets

CONSTANTS Players,         \* participant ids
          Orders,          \* what the orders of one team for one turn come to
          Hold,            \* every unit of the team holds
          Legal(_, _),     \* Legal(log, t): the legal orders of team t
          HouseOrders(_, _), \* HouseOrders(log, t): those of the bot policy
          Score(_, _),     \* Score(log, t): outcome.total of team t
          TurnLimit(_),    \* TurnLimit(mode): turn_limit of the mode's scenario
          None

ASSUME GameAssumption ==
  /\ Hold \in Orders
  /\ None \notin Players /\ None \notin Orders

-----------------------------------------------------------------------------
(* modes.py *)

SoloVsBot  == [teams |-> <<"solo", "house">>, bots |-> {"house"}, participants |-> 1]
TeamVsTeam == [teams |-> <<"blue", "red">>, bots |-> {}, participants |-> 2]
Coop2      == [teams |-> <<"coop">>, bots |-> {}, participants |-> 2]

Modes == {SoloVsBot, TeamVsTeam, Coop2}

ASSUME TurnLimitAssumption == \A mode \in Modes : TurnLimit(mode) \in Nat \ {0}

TeamIds(mode) == {mode.teams[k] : k \in DOMAIN mode.teams}

\* The k-th team that is not a bot's.
PlayerTeam(mode, k) ==
  mode.teams[CHOOSE n \in DOMAIN mode.teams :
               /\ mode.teams[n] \notin mode.bots
               /\ Cardinality({i \in 1..n : mode.teams[i] \notin mode.bots}) = k]

Seated(seats) == {seats[k] : k \in DOMAIN seats}

\* The seatings that assign_participants accepts.
Seatings(mode) ==
  {s \in [1..mode.participants -> Players] : Cardinality(Seated(s)) = mode.participants}

\* Everybody on the one player team, or one participant per player team.
TeamOf(mode, seats, p) ==
  LET own == TeamIds(mode) \ mode.bots
  IN  IF \E t \in own : own = {t} THEN CHOOSE t \in own : TRUE
      ELSE PlayerTeam(mode, CHOOSE k \in DOMAIN seats : seats[k] = p)

-----------------------------------------------------------------------------
(* The league program, as the adapter uses it *)

\* What one team does in one turn.  by: the participant, None for the house.
\* made: the turn shown on the page the orders were chosen on, None for an API
\* client, which names no turn.
Play(by, orders, made) == [by |-> by, orders |-> orders, made |-> made]

NobodyStaged(mode) == [t \in TeamIds(mode) |-> None]

NewGame(mode) == [staged |-> NobodyStaged(mode), log |-> << >>]

\* An illegal order is rejected and its unit holds.
Executed(log, t, play) ==
  IF play.orders \in Legal(log, t) THEN play ELSE [play EXCEPT !.orders = Hold]

Resolved(mode, game) ==
  [staged |-> NobodyStaged(mode),
   log |-> Append(game.log, [t \in TeamIds(mode) |-> Executed(game.log, t, game.staged[t])])]

\* Once every team has staged, the turn is resolved.
AutoResolved(mode, game) ==
  IF \A t \in TeamIds(mode) : game.staged[t] # None THEN Resolved(mode, game) ELSE game

\* `match act`.
Acted(mode, game, t, play) == AutoResolved(mode, [game EXCEPT !.staged[t] = play])

-----------------------------------------------------------------------------
(* adapter.py *)

\* Faulty variant: the house never stages; the turn is forced with `match tick`.
BotsIdle(mode, game) ==
  Resolved(mode, [game EXCEPT !.staged =
    [t \in TeamIds(mode) |-> IF @[t] = None THEN Play(None, Hold, None) ELSE @[t]]])

\* `harness run`: the house stages what its policy says for this turn.
BotsDriven(mode, game) ==
  AutoResolved(mode, [game EXCEPT !.staged =
    [t \in TeamIds(mode) |->
       IF t \in mode.bots THEN Play(None, HouseOrders(game.log, t), None) ELSE @[t]]])

\* Faulty variant: the house is driven for whoever has not staged.
ApplyTurnForAll(mode, seats, game, play) ==
  LET acted == Acted(mode, game, TeamOf(mode, seats, play.by), play)
  IN  IF Len(acted.log) > Len(game.log) THEN acted ELSE BotsIdle(mode, acted)

\* Faulty variant: the snapshot does not carry what has been staged.
ApplyTurnUnstaged(mode, seats, game, play) ==
  Acted(mode, [game EXCEPT !.staged = NobodyStaged(mode)], TeamOf(mode, seats, play.by), play)

\* The bots are driven unless the staging has resolved the turn.
ApplyTurn(mode, seats, game, play) ==
  LET acted == Acted(mode, game, TeamOf(mode, seats, play.by), play)
  IN  IF Len(acted.log) > Len(game.log) \/ mode.bots = {} THEN acted
      ELSE BotsDriven(mode, acted)

IsOver(mode, game) == Len(game.log) >= TurnLimit(mode)

\* Every participant scores for its team; the teams of no participant score
\* under their own name.
Scores(mode, seats, game) ==
  LET covered == {TeamOf(mode, seats, p) : p \in Seated(seats)}
  IN  [s \in Seated(seats) \cup (TeamIds(mode) \ covered) |->
         Score(game.log, IF s \in Seated(seats) THEN TeamOf(mode, seats, s) ELSE s)]
=============================================================================
