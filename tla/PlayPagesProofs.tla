--------------------------- MODULE PlayPagesProofs ---------------------------
(***************************************************************************)
(* That the orders of a page are only ever played in the turn the page     *)
(* showed, and that a match against the house is never rated, for any game *)
(* behind the adapter, any turn limit and any number of requests, however  *)
(* they race and die.                                                      *)
(*                                                                         *)
(* The argument: every copy of the match in hand is a match that play can  *)
(* reach by itself, so what is staged in it was made for its turn at hand; *)
(* a form is only compared with, and only added to, one and the same copy. *)
(* And copies never change the mode or the seats, while a rating needs two *)
(* seats, which a mode with bots does not have.  And every copy is made by *)
(* whole operations from one that is whole and replays.                    *)
(*                                                                         *)
(* And, if the policy of the house always answers with orders, that a turn *)
(* resolves once every human team has staged: as long as no two requests   *)
(* have raced, the copy a request carries is the stored one, and the house *)
(* is driven before it is saved.                                           *)
(***************************************************************************)
EXTENDS PlayPages, FiniteSetTheorems, WellFoundedInduction, TLAPS

IsPlay(play) == play = [by |-> play.by, orders |-> play.orders, made |-> play.made]

\* A log of the mode in which every play was made for its own turn.
LogFits(mode, log) ==
  /\ log \in Seq({log[n] : n \in DOMAIN log})
  /\ \A n \in DOMAIN log : \A t \in TeamIds(mode) : log[n][t].made \in {None, n - 1}

\* What is staged for the turn n.
StagedFits(mode, staged, n) ==
  /\ DOMAIN staged = TeamIds(mode)
  /\ \A t \in TeamIds(mode) : staged[t] # None =>
       IsPlay(staged[t]) /\ staged[t].made \in {None, n}

GameFits(mode, game) ==
  /\ game = [staged |-> game.staged, log |-> game.log]
  /\ LogFits(mode, game.log)
  /\ game.staged = [t \in TeamIds(mode) |-> game.staged[t]]
  /\ StagedFits(mode, game.staged, Len(game.log))

\* What team t plays on the board of log: the house by its policy, the others by a
\* participant of theirs.
PlayOf(mode, seats, log, t, play) ==
  IF t \in mode.bots THEN play = Play(None, HouseOrders(log, t), None)
  ELSE play.by \in Seated(seats) /\ TeamOf(mode, seats, play.by) = t

TurnOf(mode, seats, log, turn) ==
  \A t \in TeamIds(mode) :
    IF t \in mode.bots
      THEN turn[t] = Executed(log, t, Play(None, HouseOrders(log, t), None))
      ELSE turn[t].by \in Seated(seats) /\ TeamOf(mode, seats, turn[t].by) = t

LogIsWhole(mode, seats, log) ==
  \A n \in DOMAIN log : TurnOf(mode, seats, SubSeq(log, 1, n - 1), log[n])

StagedIsWhole(mode, seats, game) ==
  \A t \in TeamIds(mode) : game.staged[t] # None =>
    PlayOf(mode, seats, game.log, t, game.staged[t])

GameIsWhole(mode, seats, game) ==
  LogIsWhole(mode, seats, game.log) /\ StagedIsWhole(mode, seats, game)

Fields == {"mode", "seats", "status", "game", "turns", "result"}

IsRecord(m) == m = [k \in Fields |-> m[k]]

MatchFits(m) ==
  /\ IsRecord(m)
  /\ m.mode \in Modes
  /\ m.seats \in Seatings(m.mode)
  /\ m.status \in {"active", "completed"}
  /\ GameFits(m.mode, m.game)
  /\ GameIsWhole(m.mode, m.seats, m.game)
  /\ m.turns \in Seq({m.turns[n] : n \in DOMAIN m.turns})
  /\ Replays(m)

\* w's copy is one of this match, and is rated against people only.
CopyFits(w) ==
  /\ request[w] = [stage |-> request[w].stage, by |-> request[w].by,
                   turn |-> request[w].turn, match |-> request[w].match]
  /\ ~Idle(w) => /\ match # NoMatch
                 /\ MatchFits(request[w].match)
                 /\ request[w].match.mode = match.mode
  /\ request[w].stage = "rating" => match.mode.bots = {}

PagesInv ==
  /\ match # NoMatch => MatchFits(match)
  /\ request = [w \in Writers |-> request[w]]
  /\ \A w \in Writers : CopyFits(w)
  /\ rated => match # NoMatch /\ match.mode.bots = {}

-----------------------------------------------------------------------------
(* The game *)

LEMMA AppendFits ==
  ASSUME NEW mode, NEW log, LogFits(mode, log), NEW turn,
         \A t \in TeamIds(mode) : turn[t].made \in {None, Len(log)}
  PROVE  LogFits(mode, Append(log, turn)) /\ Len(Append(log, turn)) = Len(log) + 1
<1> DEFINE all == {log[n] : n \in DOMAIN log} \cup {turn}
           longer == Append(log, turn)
<1>1. log \in Seq(all) /\ turn \in all
  BY DEF LogFits
<1> HIDE DEF all
<1>2. /\ longer \in Seq(all) /\ Len(longer) = Len(log) + 1 /\ Len(log) \in Nat
      /\ DOMAIN longer = 1..(Len(log) + 1) /\ DOMAIN log = 1..Len(log)
      /\ longer[Len(log) + 1] = turn
      /\ \A n \in 1..Len(log) : longer[n] = log[n]
  BY <1>1
<1> HIDE DEF longer
<1>3. longer \in Seq({longer[n] : n \in DOMAIN longer})
  BY <1>2
<1>4. ASSUME NEW n \in DOMAIN longer, NEW t \in TeamIds(mode)
      PROVE  longer[n][t].made \in {None, n - 1}
  <2>1. CASE n = Len(log) + 1
    BY <1>2, <2>1
  <2>2. CASE n \in 1..Len(log)
    BY <1>2, <2>2 DEF LogFits
  <2> QED
    BY <1>2, <1>4, <2>1, <2>2
<1> QED
  BY <1>2, <1>3, <1>4 DEF LogFits, longer

LEMMA NobodyFits ==
  ASSUME NEW mode, NEW n
  PROVE  /\ NobodyStaged(mode) = [t \in TeamIds(mode) |-> NobodyStaged(mode)[t]]
         /\ StagedFits(mode, NobodyStaged(mode), n)
BY DEF NobodyStaged, StagedFits

LEMMA NewGameFits ==
  ASSUME NEW mode
  PROVE  GameFits(mode, NewGame(mode))
<1>1. LogFits(mode, << >>)
  BY DEF LogFits
<1> QED
  BY <1>1, NobodyFits DEF GameFits, NewGame

LEMMA ExecutedKeepsMade ==
  ASSUME NEW log, NEW t, NEW play, IsPlay(play)
  PROVE  Executed(log, t, play).made = play.made
<1>1. [play EXCEPT !.orders = Hold].made = play.made
  BY DEF IsPlay
<1> QED
  BY <1>1 DEF Executed

LEMMA AutoResolvedFits ==
  ASSUME NEW mode, NEW game, GameFits(mode, game)
  PROVE  GameFits(mode, AutoResolved(mode, game))
<1> DEFINE turn == [t \in TeamIds(mode) |-> Executed(game.log, t, game.staged[t])]
<1>1. CASE \E t \in TeamIds(mode) : game.staged[t] = None
  BY <1>1 DEF AutoResolved
<1>2. CASE \A t \in TeamIds(mode) : game.staged[t] # None
  <2>1. \A t \in TeamIds(mode) : turn[t].made \in {None, Len(game.log)}
    <3> SUFFICES ASSUME NEW t \in TeamIds(mode)
                 PROVE  turn[t].made \in {None, Len(game.log)}
      OBVIOUS
    <3>1. /\ IsPlay(game.staged[t]) /\ game.staged[t].made \in {None, Len(game.log)}
          /\ turn[t] = Executed(game.log, t, game.staged[t])
      BY <1>2 DEF GameFits, StagedFits
    <3>2. Executed(game.log, t, game.staged[t]).made = game.staged[t].made
      BY <3>1, ExecutedKeepsMade
    <3> QED
      BY <3>1, <3>2
  <2> HIDE DEF turn
  <2>2. LogFits(mode, Append(game.log, turn))
    BY <2>1, AppendFits DEF GameFits
  <2>3. AutoResolved(mode, game) = [staged |-> NobodyStaged(mode), log |-> Append(game.log, turn)]
    BY <1>2 DEF AutoResolved, Resolved, turn
  <2> QED
    BY <2>2, <2>3, NobodyFits DEF GameFits
<1> QED
  BY <1>1, <1>2

LEMMA ApplyTurnFits ==
  ASSUME NEW mode, NEW seats, NEW game, GameFits(mode, game),
         NEW play, IsPlay(play), play.made \in {None, Len(game.log)}
  PROVE  GameFits(mode, ApplyTurn(mode, seats, game, play))
<1> DEFINE team == TeamOf(mode, seats, play.by)
           staging == [game EXCEPT !.staged[team] = play]
           acted == Acted(mode, game, team, play)
           house == [t \in TeamIds(mode) |->
                      IF t \in mode.bots THEN Play(None, HouseOrders(acted.log, t), None)
                      ELSE acted.staged[t]]
<1> HIDE DEF team
<1>1. GameFits(mode, staging)
  <2>1. /\ staging.log = game.log
        /\ staging.staged = [game.staged EXCEPT ![team] = play]
        /\ staging = [staged |-> staging.staged, log |-> staging.log]
    BY DEF GameFits
  <2> HIDE DEF staging
  <2>2. /\ staging.staged = [t \in TeamIds(mode) |-> staging.staged[t]]
        /\ StagedFits(mode, staging.staged, Len(game.log))
    BY <2>1 DEF GameFits, StagedFits
  <2> QED
    BY <2>1, <2>2 DEF GameFits
<1>2. GameFits(mode, acted)
  BY <1>1, AutoResolvedFits DEF Acted
<1> HIDE DEF acted, staging
<1>3. GameFits(mode, [acted EXCEPT !.staged = house])
  <2>1. \A t \in TeamIds(mode) : house[t] # None =>
          IsPlay(house[t]) /\ house[t].made \in {None, Len(acted.log)}
    BY <1>2 DEF GameFits, StagedFits, IsPlay, Play
  <2> QED
    BY <1>2, <2>1 DEF GameFits, StagedFits
<1>4. BotsDriven(mode, acted) = AutoResolved(mode, [acted EXCEPT !.staged = house])
  <2>1. [acted EXCEPT !.staged = house] =
          [acted EXCEPT !.staged = [t \in TeamIds(mode) |->
             IF t \in mode.bots THEN Play(None, HouseOrders(acted.log, t), None) ELSE @[t]]]
    BY <1>2 DEF GameFits
  <2> QED
    BY <2>1 DEF BotsDriven
<1> HIDE DEF house
<1>5. GameFits(mode, BotsDriven(mode, acted))
  BY <1>3, <1>4, AutoResolvedFits
<1>6. ApplyTurn(mode, seats, game, play) \in {acted, BotsDriven(mode, acted)}
  BY DEF ApplyTurn, acted, team
<1> QED
  BY <1>2, <1>5, <1>6

-----------------------------------------------------------------------------
(* Whose plays make a turn *)

LEMMA ExecutedKeepsBy ==
  ASSUME NEW log, NEW t, NEW play, IsPlay(play)
  PROVE  Executed(log, t, play).by = play.by
<1>1. [play EXCEPT !.orders = Hold].by = play.by
  BY DEF IsPlay
<1> QED
  BY <1>1 DEF Executed

LEMMA AppendIsWhole ==
  ASSUME NEW mode, NEW seats, NEW log, LogFits(mode, log), LogIsWhole(mode, seats, log),
         NEW turn, TurnOf(mode, seats, log, turn)
  PROVE  LogIsWhole(mode, seats, Append(log, turn))
<1> DEFINE all == {log[n] : n \in DOMAIN log} \cup {turn}
           longer == Append(log, turn)
<1>1. log \in Seq(all) /\ turn \in all
  BY DEF LogFits
<1> HIDE DEF all
<1>2. /\ DOMAIN longer = 1..(Len(log) + 1) /\ DOMAIN log = 1..Len(log) /\ Len(log) \in Nat
      /\ longer[Len(log) + 1] = turn
      /\ \A n \in 1..Len(log) : longer[n] = log[n]
  BY <1>1
<1>3. /\ \A n \in 1..Len(log) : SubSeq(longer, 1, n - 1) = SubSeq(log, 1, n - 1)
      /\ SubSeq(longer, 1, (Len(log) + 1) - 1) = log
  BY <1>1
<1> HIDE DEF longer
<1>4. ASSUME NEW n \in DOMAIN longer
      PROVE  TurnOf(mode, seats, SubSeq(longer, 1, n - 1), longer[n])
  <2>1. CASE n = Len(log) + 1
    BY <1>2, <1>3, <2>1
  <2>2. CASE n \in 1..Len(log)
    BY <1>2, <1>3, <2>2 DEF LogIsWhole
  <2> QED
    BY <1>2, <1>4, <2>1, <2>2
<1> QED
  BY <1>4 DEF LogIsWhole, longer

LEMMA AutoResolvedIsWhole ==
  ASSUME NEW mode, NEW seats, NEW game, GameFits(mode, game), GameIsWhole(mode, seats, game)
  PROVE  GameIsWhole(mode, seats, AutoResolved(mode, game))
<1> DEFINE turn == [t \in TeamIds(mode) |-> Executed(game.log, t, game.staged[t])]
<1>1. CASE \E t \in TeamIds(mode) : game.staged[t] = None
  BY <1>1 DEF AutoResolved
<1>2. CASE \A t \in TeamIds(mode) : game.staged[t] # None
  <2>1. ASSUME NEW t \in TeamIds(mode)
        PROVE  IF t \in mode.bots
                 THEN turn[t] = Executed(game.log, t, Play(None, HouseOrders(game.log, t), None))
                 ELSE turn[t].by \in Seated(seats) /\ TeamOf(mode, seats, turn[t].by) = t
    <3>1. /\ PlayOf(mode, seats, game.log, t, game.staged[t])
          /\ IsPlay(game.staged[t])
          /\ turn[t] = Executed(game.log, t, game.staged[t])
      BY <1>2 DEF GameFits, StagedFits, GameIsWhole, StagedIsWhole
    <3>2. turn[t].by = game.staged[t].by
      BY <3>1, ExecutedKeepsBy
    <3> HIDE DEF turn
    <3> QED
      BY <3>1, <3>2 DEF PlayOf
  <2> HIDE DEF turn
  <2>2. TurnOf(mode, seats, game.log, turn)
    BY <2>1 DEF TurnOf
  <2>3. LogIsWhole(mode, seats, Append(game.log, turn))
    BY <2>2, AppendIsWhole DEF GameFits, GameIsWhole
  <2>4. AutoResolved(mode, game) = [staged |-> NobodyStaged(mode), log |-> Append(game.log, turn)]
    BY <1>2 DEF AutoResolved, Resolved, turn
  <2> QED
    BY <2>3, <2>4 DEF GameIsWhole, StagedIsWhole, NobodyStaged
<1> QED
  BY <1>1, <1>2

\* A participant's team is not the house's.
LEMMA TeamIsNoBot ==
  ASSUME NEW mode \in Modes, NEW seats, NEW p
  PROVE  TeamOf(mode, seats, p) \notin mode.bots
<1>1. CASE mode.bots = {}
  BY <1>1
<1>2. CASE mode = SoloVsBot
  <2>1. TeamIds(mode) \ mode.bots = {"solo"}
    BY <1>2 DEF SoloVsBot, TeamIds
  <2>2. TeamOf(mode, seats, p) = "solo"
    BY <2>1 DEF TeamOf
  <2> QED
    BY <1>2, <2>2 DEF SoloVsBot
<1> QED
  BY <1>1, <1>2 DEF Modes, TeamVsTeam, Coop2

LEMMA ApplyTurnIsWhole ==
  ASSUME NEW mode \in Modes, NEW seats, NEW game, GameFits(mode, game),
         GameIsWhole(mode, seats, game),
         NEW play, IsPlay(play), play.made \in {None, Len(game.log)}, play.by \in Seated(seats)
  PROVE  GameIsWhole(mode, seats, ApplyTurn(mode, seats, game, play))
<1> DEFINE team == TeamOf(mode, seats, play.by)
           staging == [game EXCEPT !.staged[team] = play]
           acted == Acted(mode, game, team, play)
           house == [t \in TeamIds(mode) |->
                      IF t \in mode.bots THEN Play(None, HouseOrders(acted.log, t), None)
                      ELSE acted.staged[t]]
           driven == [acted EXCEPT !.staged = house]
<1>1. team \notin mode.bots /\ team = TeamOf(mode, seats, play.by)
  BY TeamIsNoBot
<1> HIDE DEF team
<1>2. GameFits(mode, staging) /\ GameIsWhole(mode, seats, staging)
  <2>1. /\ staging.log = game.log
        /\ staging.staged = [game.staged EXCEPT ![team] = play]
        /\ staging = [staged |-> staging.staged, log |-> staging.log]
    BY DEF GameFits
  <2>2. GameFits(mode, staging)
    <3> HIDE DEF staging
    <3>1. /\ staging.staged = [t \in TeamIds(mode) |-> staging.staged[t]]
          /\ StagedFits(mode, staging.staged, Len(game.log))
      BY <2>1 DEF GameFits, StagedFits
    <3> QED
      BY <2>1, <3>1 DEF GameFits
  <2> HIDE DEF staging
  <2>3. ASSUME NEW t \in TeamIds(mode), staging.staged[t] # None
        PROVE  PlayOf(mode, seats, game.log, t, staging.staged[t])
    <3>1. CASE t = team
      <4>1. staging.staged[t] = play
        BY <2>1, <3>1 DEF GameFits
      <4> QED
        BY <1>1, <3>1, <4>1 DEF PlayOf
    <3>2. CASE t # team
      <4>1. staging.staged[t] = game.staged[t]
        BY <2>1, <3>2 DEF GameFits
      <4> QED
        BY <2>3, <4>1 DEF GameIsWhole, StagedIsWhole
    <3> QED
      BY <3>1, <3>2
  <2> QED
    BY <2>1, <2>2, <2>3 DEF GameIsWhole, StagedIsWhole
<1>3. GameFits(mode, acted) /\ GameIsWhole(mode, seats, acted)
  BY <1>2, AutoResolvedFits, AutoResolvedIsWhole DEF Acted
<1> HIDE DEF acted, staging
<1>4. GameFits(mode, driven) /\ GameIsWhole(mode, seats, driven)
  <2>1. driven.staged = house /\ driven.log = acted.log
        /\ driven = [staged |-> driven.staged, log |-> driven.log]
    BY <1>3 DEF GameFits
  <2>2. \A t \in TeamIds(mode) : house[t] # None =>
          /\ IsPlay(house[t]) /\ house[t].made \in {None, Len(acted.log)}
    BY <1>3 DEF GameFits, StagedFits, IsPlay, Play
  <2>3. \A t \in TeamIds(mode) : house[t] # None => PlayOf(mode, seats, acted.log, t, house[t])
    BY <1>3 DEF GameIsWhole, StagedIsWhole, PlayOf
  <2>4. house = [t \in TeamIds(mode) |-> house[t]]
    OBVIOUS
  <2> HIDE DEF house, driven
  <2> QED
    BY <1>3, <2>1, <2>2, <2>3, <2>4 DEF GameFits, StagedFits, GameIsWhole, StagedIsWhole
<1>5. BotsDriven(mode, acted) = AutoResolved(mode, driven)
  <2>1. driven =
          [acted EXCEPT !.staged = [t \in TeamIds(mode) |->
             IF t \in mode.bots THEN Play(None, HouseOrders(acted.log, t), None) ELSE @[t]]]
    BY <1>3 DEF GameFits
  <2> QED
    BY <2>1 DEF BotsDriven
<1> HIDE DEF driven
<1>6. GameIsWhole(mode, seats, BotsDriven(mode, acted))
  BY <1>4, <1>5, AutoResolvedIsWhole
<1>7. ApplyTurn(mode, seats, game, play) \in {acted, BotsDriven(mode, acted)}
  BY DEF ApplyTurn, acted, team
<1> QED
  BY <1>3, <1>6, <1>7

-----------------------------------------------------------------------------
(* Replaying a log.  That a longer log replays one turn further rests on the *)
(* least turn at which two replays of a log would differ.                    *)

LEMMA LeastElement ==
  ASSUME NEW S \in SUBSET Nat, S # {}
  PROVE  \E k \in S : \A j \in S : k <= j
<1>1. PICK k \in S : \A j \in S : <<j, k>> \notin OpToRel(<, Nat)
  BY NatLessThanWellFounded, WFMin
<1>2. ASSUME NEW j \in S, j < k PROVE FALSE
  <2>1. <<j, k>> \in Nat \X Nat /\ <<j, k>>[1] < <<j, k>>[2] BY <1>2
  <2>2. <<j, k>> \in {p \in Nat \X Nat : p[1] < p[2]} BY <2>1, Zenon
  <2>. QED BY <1>1, <2>2, Zenon DEF OpToRel
<1>. QED BY <1>2

\* The games that the first N turns lead through.
Games(mode, seats, turns, N, g) ==
  g = [n \in 0..N |-> IF n = 0 THEN NewGame(mode)
                      ELSE ApplyTurn(mode, seats, g[n - 1], turns[n])]

\* The games of one turn more.
LEMMA GamesExtend ==
  ASSUME NEW mode, NEW seats, NEW turns, NEW N \in Nat, NEW g, Games(mode, seats, turns, N, g),
         NEW more, \A n \in 1..N : more[n] = turns[n]
  PROVE  \E h : /\ Games(mode, seats, more, N + 1, h)
                /\ h[N + 1] = ApplyTurn(mode, seats, g[N], more[N + 1])
<1>. DEFINE next == ApplyTurn(mode, seats, g[N], more[N + 1])
            h == [n \in 0..(N + 1) |-> IF n = N + 1 THEN next ELSE g[n]]
<1>1. \A n \in 0..N : h[n] = g[n] OBVIOUS
<1>2. h[N + 1] = next OBVIOUS
<1>3. ASSUME NEW n \in 0..(N + 1)
      PROVE  h[n] = IF n = 0 THEN NewGame(mode)
                    ELSE ApplyTurn(mode, seats, h[n - 1], more[n])
  <2>1. CASE n = N + 1
    <3>1. h[n - 1] = g[N] /\ n # 0 BY <1>1, <2>1
    <3>. QED BY <1>2, <2>1, <3>1
  <2>2. CASE n \in 1..N
    <3>1. h[n - 1] = g[n - 1] /\ h[n] = g[n] /\ more[n] = turns[n] BY <1>1, <2>2
    <3>2. g[n] = ApplyTurn(mode, seats, g[n - 1], turns[n]) BY <2>2 DEF Games
    <3>. QED BY <2>2, <3>1, <3>2
  <2>3. CASE n = 0 BY <1>1, <2>3 DEF Games
  <2>. QED BY <2>1, <2>2, <2>3
<1>4. h = [n \in 0..(N + 1) |-> h[n]] OBVIOUS
<1>. HIDE DEF h, next
<1>5. Games(mode, seats, more, N + 1, h) BY <1>3, <1>4 DEF Games
<1>. QED BY <1>2, <1>5 DEF next

LEMMA GamesExist ==
  ASSUME NEW mode, NEW seats, NEW turns, NEW N \in Nat
  PROVE  \E g : Games(mode, seats, turns, N, g)
<1>. DEFINE Without == {n \in Nat : ~ \E g : Games(mode, seats, turns, n, g)}
<1>1. Without \in SUBSET Nat OBVIOUS
<1>2. ASSUME Without # {} PROVE FALSE
  <2>. HIDE DEF Without
  <2>1. PICK n \in Without : \A m \in Without : n <= m BY <1>1, <1>2, LeastElement
  <2>. USE DEF Without
  <2>2. n # 0
    <3>1. Games(mode, seats, turns, 0, [k \in 0..0 |-> NewGame(mode)]) BY DEF Games
    <3>. QED BY <2>1, <3>1
  <2>3. n - 1 \in Nat /\ n - 1 \notin Without BY <2>1, <2>2
  <2>4. PICK g : Games(mode, seats, turns, n - 1, g) BY <2>3
  <2>5. \E h : Games(mode, seats, turns, (n - 1) + 1, h) BY <2>3, <2>4, GamesExtend
  <2>6. (n - 1) + 1 = n BY <2>3
  <2>. QED BY <2>1, <2>5, <2>6
<1>. QED BY <1>2

LEMMA GamesUnique ==
  ASSUME NEW mode, NEW seats, NEW turns, NEW N \in Nat, NEW g, NEW h,
         Games(mode, seats, turns, N, g), Games(mode, seats, turns, N, h)
  PROVE  g[N] = h[N]
<1>. DEFINE Apart == {n \in 0..N : g[n] # h[n]}
<1>1. Apart \in SUBSET Nat OBVIOUS
<1>2. ASSUME Apart # {} PROVE FALSE
  <2>. HIDE DEF Apart
  <2>1. PICK n \in Apart : \A m \in Apart : n <= m BY <1>1, <1>2, LeastElement
  <2>. USE DEF Apart
  <2>2. n # 0 BY <2>1 DEF Games
  <2>3. n - 1 \in 0..N /\ g[n - 1] = h[n - 1] BY <2>1, <2>2
  <2>4. /\ g[n] = ApplyTurn(mode, seats, g[n - 1], turns[n])
        /\ h[n] = ApplyTurn(mode, seats, h[n - 1], turns[n])
    BY <2>1, <2>2 DEF Games
  <2>. QED BY <2>1, <2>3, <2>4
<1>. QED BY <1>2

\* Replay is the last of the games.
LEMMA ReplayIsLast ==
  ASSUME NEW mode, NEW seats, NEW turns, Len(turns) \in Nat, NEW g, Games(mode, seats, turns, Len(turns), g)
  PROVE  Replay(mode, seats, turns) = g[Len(turns)]
<1>. DEFINE r == CHOOSE f : Games(mode, seats, turns, Len(turns), f)
<1>1. Games(mode, seats, turns, Len(turns), r) OBVIOUS
<1>2. Replay(mode, seats, turns) = r[Len(turns)] BY Zenon DEF Replay, Games
<1>. QED BY <1>1, <1>2, GamesUnique

LEMMA ReplayStart == ASSUME NEW mode, NEW seats PROVE Replay(mode, seats, << >>) = NewGame(mode)
<1>1. Len(<< >>) = 0 OBVIOUS
<1>2. PICK g : Games(mode, seats, << >>, 0, g) BY GamesExist
<1>3. g[0] = NewGame(mode) BY <1>2 DEF Games
<1>. QED BY <1>1, <1>2, <1>3, ReplayIsLast

LEMMA ReplayAppend ==
  ASSUME NEW mode, NEW seats, NEW T, NEW turns \in Seq(T), NEW turn \in T
  PROVE  Replay(mode, seats, Append(turns, turn)) = ApplyTurn(mode, seats, Replay(mode, seats, turns), turn)
<1>. DEFINE N == Len(turns)
            more == Append(turns, turn)
<1>1. N \in Nat /\ Len(more) = N + 1 /\ more[N + 1] = turn /\ \A n \in 1..N : more[n] = turns[n]
  OBVIOUS
<1>. HIDE DEF more
<1>2. PICK g : Games(mode, seats, turns, N, g) BY <1>1, GamesExist
<1>3. PICK h : /\ Games(mode, seats, more, N + 1, h)
               /\ h[N + 1] = ApplyTurn(mode, seats, g[N], more[N + 1])
  BY <1>1, <1>2, GamesExtend
<1>4. Replay(mode, seats, turns) = g[N] BY <1>1, <1>2, ReplayIsLast
<1>5. Replay(mode, seats, more) = h[N + 1] BY <1>1, <1>3, ReplayIsLast
<1>. QED BY <1>1, <1>3, <1>4, <1>5 DEF more

-----------------------------------------------------------------------------
(* The match *)

LEMMA MatchIsStored ==
  ASSUME NEW m, MatchFits(m)
  PROVE  m # NoMatch
BY DEF MatchFits, NoMatch

LEMMA StartedFits ==
  ASSUME NEW mode \in Modes, NEW seats \in Seatings(mode)
  PROVE  MatchFits(Started(mode, seats))
<1> DEFINE m == Started(mode, seats)
<1>1. GameFits(mode, NewGame(mode))
  BY NewGameFits
<1>2. GameIsWhole(mode, seats, NewGame(mode))
  BY DEF NewGame, GameIsWhole, LogIsWhole, StagedIsWhole, NobodyStaged
<1>3. /\ IsRecord(m) /\ m.mode = mode /\ m.seats = seats /\ m.status = "active"
      /\ m.game = NewGame(mode) /\ m.turns = << >>
  BY DEF IsRecord, Fields, Started
<1> HIDE DEF m
<1>4. m.turns \in Seq({m.turns[n] : n \in DOMAIN m.turns})
  BY <1>3
<1>5. ~IsOver(mode, NewGame(mode))
  BY TurnLimitAssumption DEF IsOver, NewGame
<1>6. Replays(m)
  BY <1>3, <1>5, ReplayStart DEF Replays
<1>7. MatchFits(m)
  BY <1>1, <1>2, <1>3, <1>4, <1>6 DEF MatchFits
<1> QED
  BY <1>7 DEF m

LEMMA AfterTurnFits ==
  ASSUME NEW m, MatchFits(m), m.status = "active", NEW play, IsPlay(play),
         play.made \in {None, Len(m.game.log)}, play.by \in Seated(m.seats)
  PROVE  /\ MatchFits(AfterTurn(m, play))
         /\ AfterTurn(m, play).mode = m.mode /\ AfterTurn(m, play).seats = m.seats
         /\ AfterTurn(m, play).game = ApplyTurn(m.mode, m.seats, m.game, play)
<1> DEFINE game == ApplyTurn(m.mode, m.seats, m.game, play)
           more == Append(m.turns, play)
           turned == Turned(m, play)
           completed == Completed(turned)
           scores == Scores(m.mode, m.seats, game)
<1>1. GameFits(m.mode, game) /\ GameIsWhole(m.mode, m.seats, game)
  BY ApplyTurnFits, ApplyTurnIsWhole DEF MatchFits
<1>2. more \in Seq({more[n] : n \in DOMAIN more}) /\ game = Replay(m.mode, m.seats, more)
  <2> DEFINE all == {m.turns[n] : n \in DOMAIN m.turns} \cup {play}
  <2>1. m.turns \in Seq(all) /\ play \in all
    BY DEF MatchFits
  <2>2. m.game = Replay(m.mode, m.seats, m.turns)
    BY DEF MatchFits, Replays
  <2> HIDE DEF all
  <2>3. game = Replay(m.mode, m.seats, more)
    BY <2>1, <2>2, ReplayAppend
  <2>4. more \in Seq(all)
    BY <2>1
  <2> HIDE DEF more
  <2> QED
    BY <2>3, <2>4
<1>3. /\ turned.mode = m.mode /\ turned.seats = m.seats /\ turned.status = "active"
      /\ turned.game = game /\ turned.turns = more
      /\ IsRecord(turned)
  <2>1. turned = [m EXCEPT !.game = game, !.turns = more]
    BY DEF Turned
  <2> HIDE DEF turned, game, more
  <2> QED
    BY <2>1 DEF MatchFits, IsRecord, Fields
<1>4. /\ completed.mode = m.mode /\ completed.seats = m.seats
      /\ completed.status = "completed" /\ completed.result.scores = scores
      /\ completed.game = game /\ completed.turns = more
      /\ IsRecord(completed)
  <2> DEFINE result == [winner |-> SoleLeader(scores), scores |-> scores]
  <2> HIDE DEF turned, game, more, scores
  <2>1. completed = [turned EXCEPT !.status = "completed", !.result = result]
    BY <1>3 DEF Completed, scores
  <2>2. result.scores = scores
    OBVIOUS
  <2> HIDE DEF completed, result
  <2> QED
    BY <1>3, <2>1, <2>2 DEF IsRecord, Fields
<1> HIDE DEF turned, completed, game, more, scores
<1>5. ~IsOver(m.mode, game) => MatchFits(turned)
  BY <1>1, <1>2, <1>3 DEF MatchFits, Replays
<1>6. IsOver(m.mode, game) => MatchFits(completed)
  BY <1>1, <1>2, <1>4 DEF MatchFits, Replays, scores
<1>7. AfterTurn(m, play) = IF IsOver(m.mode, game) THEN completed ELSE turned
  BY <1>3 DEF AfterTurn, turned, completed
<1> QED
  BY <1>3, <1>4, <1>5, <1>6, <1>7 DEF game

\* A seating of one is not rated, whoever else has a score.
LEMMA RatedHasNoHouse ==
  ASSUME NEW m, MatchFits(m), Rated(m)
  PROVE  m.mode.bots = {}
<1> SUFFICES ASSUME m.mode = SoloVsBot
             PROVE  FALSE
  BY DEF MatchFits, Modes, TeamVsTeam, Coop2
<1> DEFINE scored == DOMAIN m.result.scores \cap Seated(m.seats)
<1>1. PICK p : Seated(m.seats) = {p}
  <2>1. m.seats \in [1..1 -> Players]
    BY DEF MatchFits, Seatings, SoloVsBot
  <2> QED
    BY <2>1 DEF Seated
<1>2. scored = {} \/ scored = {p}
  BY <1>1
<1>3. Cardinality(scored) \in {0, 1}
  BY <1>2, FS_EmptySet, FS_Singleton
<1> HIDE DEF scored
<1> QED
  BY <1>3 DEF Rated, scored

-----------------------------------------------------------------------------
(* The steps *)

LEMMA PagesInit == Init => PagesInv
BY DEF Init, PagesInv, CopyFits, Idle, NoRequest

\* A turn that begins on the stored match.
LEMMA TakeTurnStep ==
  ASSUME PagesInv, NEW w \in Writers, NEW p, MayPlay(match, p), NEW play, IsPlay(play),
         play.by = p, play.made \in {None, Len(match.game.log)}, TakeTurn(w, match, play)
  PROVE  PagesInv'
<1> DEFINE after == AfterTurn(match, play)
           stage == IF Rated(after) THEN "rating" ELSE "saving"
<1>0. match # NoMatch /\ match.status = "active" /\ play.by \in Seated(match.seats)
  BY DEF MayPlay, NoMatch
<1>1. MatchFits(after) /\ after.mode = match.mode
  BY <1>0, AfterTurnFits DEF PagesInv
<1>2. stage = "rating" => match.mode.bots = {}
  BY <1>1, RatedHasNoHouse
<1>3. /\ request' = [request EXCEPT ![w] = [stage |-> stage, by |-> play.by,
                       turn |-> Len(match.game.log), match |-> after]]
      /\ UNCHANGED <<match, rated>>
  BY DEF TakeTurn, Begins
<1> HIDE DEF after, stage
<1>4. ASSUME NEW v \in Writers
      PROVE  CopyFits(v)'
  <2>1. CASE v = w
    BY <1>0, <1>1, <1>2, <1>3, <2>1 DEF PagesInv, CopyFits, Idle
  <2>2. CASE v # w
    <3>1. request'[v] = request[v]
      BY <1>3, <2>2 DEF PagesInv
    <3> QED
      BY <1>3, <3>1 DEF PagesInv, CopyFits, Idle
  <2> QED
    BY <2>1, <2>2
<1> QED
  BY <1>3, <1>4 DEF PagesInv

\* A request that goes on or ends, and leaves the mode of the match.
LEMMA RequestStep ==
  ASSUME PagesInv, NEW w \in Writers, ~Idle(w),
         match' # NoMatch, MatchFits(match'), match'.mode = match.mode,
         rated' => match.mode.bots = {},
         \/ request' = [request EXCEPT ![w] = NoRequest]
         \/ request' = [request EXCEPT ![w].stage = "saving"]
  PROVE  PagesInv'
<1>1. ASSUME NEW v \in Writers
      PROVE  CopyFits(v)'
  <2>0. CopyFits(v)
    BY DEF PagesInv
  <2>1. CASE v # w
    <3>1. request'[v] = request[v]
      BY <2>1 DEF PagesInv
    <3> QED
      BY <2>0, <3>1 DEF CopyFits, Idle
  <2>2. CASE v = w /\ request' = [request EXCEPT ![w] = NoRequest]
    <3>1. request'[v] = NoRequest
      BY <2>2 DEF PagesInv
    <3> QED
      BY <3>1 DEF CopyFits, Idle, NoRequest
  <2>3. CASE v = w /\ request' = [request EXCEPT ![w].stage = "saving"]
    <3>1. request'[v] = [request[v] EXCEPT !.stage = "saving"]
      BY <2>3 DEF PagesInv
    <3>2. request'[v] = [stage |-> "saving", by |-> request[v].by,
                         turn |-> request[v].turn, match |-> request[v].match]
      BY <2>0, <3>1 DEF CopyFits
    <3> QED
      BY <2>0, <2>3, <3>2 DEF CopyFits, Idle
  <2> QED
    BY <2>1, <2>2, <2>3
<1>2. request' = [v \in Writers |-> request'[v]]
  BY DEF PagesInv
<1> QED
  BY <1>1, <1>2 DEF PagesInv

LEMMA PagesNext == PagesInv /\ [Next]_vars => PagesInv'
<1> SUFFICES ASSUME PagesInv, [Next]_vars
             PROVE  PagesInv'
  OBVIOUS
<1>1. ASSUME NEW mode \in Modes, NEW seats \in Seatings(mode), Create(mode, seats)
      PROVE  PagesInv'
  <2>1. MatchFits(match')
    BY <1>1, StartedFits DEF Create
  <2>2. UNCHANGED <<request, rated>> /\ ~rated /\ \A w \in Writers : Idle(w)
    BY <1>1 DEF Create, PagesInv, CopyFits
  <2>3. ASSUME NEW w \in Writers
        PROVE  CopyFits(w)'
    BY <2>2 DEF PagesInv, CopyFits, Idle
  <2> QED
    BY <2>1, <2>2, <2>3 DEF PagesInv
<1>2. ASSUME NEW p \in Players, OpenPage(p)
      PROVE  PagesInv'
  <2>1. UNCHANGED <<match, request, rated>>
    BY <1>2 DEF OpenPage
  <2> QED
    BY <2>1 DEF PagesInv, CopyFits, Idle
<1>3. ASSUME NEW w \in Writers, NEW p \in Players, NEW orders \in Orders, CallTurn(w, p, orders)
      PROVE  PagesInv'
  <2>1. MayPlay(match, p)
    BY <1>3 DEF CallTurn
  <2>2. /\ IsPlay(Play(p, orders, None)) /\ Play(p, orders, None).by = p
        /\ Play(p, orders, None).made = None
    BY DEF IsPlay, Play
  <2> QED
    BY <1>3, <2>1, <2>2, TakeTurnStep DEF CallTurn
<1>4. ASSUME NEW w \in Writers, NEW p \in Players, NEW orders \in Orders, PostForm(w, p, orders)
      PROVE  PagesInv'
  <2>1. MayPlay(match, p) /\ Len(page[p]) = Len(match.game.log)
    BY <1>4 DEF PostForm
  <2>2. /\ IsPlay(Play(p, orders, Len(page[p])))
        /\ Play(p, orders, Len(page[p])).by = p
        /\ Play(p, orders, Len(page[p])).made = Len(match.game.log)
    BY <2>1 DEF IsPlay, Play
  <2> QED
    BY <1>4, <2>1, <2>2, TakeTurnStep DEF PostForm
<1>5. ASSUME NEW w \in Writers, Rate(w)
      PROVE  PagesInv'
  <2>1. ~Idle(w) /\ match.mode.bots = {}
    BY <1>5 DEF Rate, PagesInv, CopyFits, Idle
  <2>2. match # NoMatch /\ MatchFits(match)
    BY <2>1 DEF PagesInv, CopyFits
  <2> QED
    BY <1>5, <2>1, <2>2, RequestStep DEF Rate
<1>6. ASSUME NEW w \in Writers, Save(w)
      PROVE  PagesInv'
  <2>1. ~Idle(w)
    BY <1>6 DEF Save, Idle
  <2>2. MatchFits(match') /\ match'.mode = match.mode /\ match' # NoMatch
    BY <1>6, <2>1, MatchIsStored DEF Save, PagesInv, CopyFits
  <2>3. rated' => match.mode.bots = {}
    BY <1>6 DEF Save, PagesInv
  <2> QED
    BY <1>6, <2>1, <2>2, <2>3, RequestStep DEF Save
<1>7. ASSUME NEW w \in Writers, Die(w)
      PROVE  PagesInv'
  <2>1. ~Idle(w) /\ match' = match /\ match # NoMatch /\ MatchFits(match)
    BY <1>7 DEF Die, PagesInv, CopyFits
  <2>2. rated' => match.mode.bots = {}
    BY <1>7 DEF Die, PagesInv
  <2> QED
    BY <1>7, <2>1, <2>2, RequestStep DEF Die
<1>8. CASE UNCHANGED vars
  BY <1>8 DEF vars, PagesInv, CopyFits, Idle
<1> QED
  BY <1>1, <1>2, <1>3, <1>4, <1>5, <1>6, <1>7, <1>8 DEF Next, Step

-----------------------------------------------------------------------------

\* The turn guard of _submit_plan: however late, often and concurrently forms are
\* posted, no plan of a page is in a turn other than the one the page showed.
THEOREM FormsKeepTheirTurn == Spec => []FormsPlayTheirTurn
<1>1. Init => PagesInv
  BY PagesInit
<1>2. PagesInv /\ [Next]_vars => PagesInv'
  BY PagesNext
<1>3. PagesInv => FormsPlayTheirTurn
  BY DEF PagesInv, MatchFits, GameFits, LogFits, FormsPlayTheirTurn
<1> QED
  BY <1>1, <1>2, <1>3, PTL DEF Spec

\* record_rating: a match with a house team is never rated, though the house has
\* a score in its result.
THEOREM HouseStaysUnrated == Spec => []HouseNeverRated
<1>1. Init => PagesInv
  BY PagesInit
<1>2. PagesInv /\ [Next]_vars => PagesInv'
  BY PagesNext
<1>3. PagesInv => HouseNeverRated
  BY DEF PagesInv, HouseNeverRated
<1> QED
  BY <1>1, <1>2, <1>3, PTL DEF Spec

\* adapter.py, apply_turn: however requests race, overwrite each other and die, every
\* turn in a stored log was played by every team, the house by its policy on the
\* very board of that turn, the others by a participant of theirs.
THEOREM EveryTurnIsWhole == Spec => []TurnsAreWhole
<1>1. PagesInv => TurnsAreWhole
  BY DEF PagesInv, MatchFits, GameIsWhole, LogIsWhole, TurnOf, TurnsAreWhole, Board
<1> QED
  BY <1>1, PagesInit, PagesNext, PTL DEF Spec

\* match.py, take_turn: the turn log of a stored match replays to its game, and the
\* match is completed, with the game's scores, exactly when that game is over.
THEOREM EveryMatchReplays == Spec => []StoredMatchReplays
<1>1. PagesInv => StoredMatchReplays
  BY DEF PagesInv, MatchFits, StoredMatchReplays
<1> QED
  BY <1>1, PagesInit, PagesNext, PTL DEF Spec

-----------------------------------------------------------------------------
(* That a turn resolves once everybody's orders are in *)

\* The policy of the house answers with orders.
HouseHasOrders == \A log, t : HouseOrders(log, t) \in Orders

Unstaged(mode, game) == \E t \in TeamIds(mode) \ mode.bots : game.staged[t] = None

\* Of the orders that are in, those for the turn at hand are staged; and somebody
\* of a match that goes on has still to move.
AllIn(m, in) ==
  /\ in \subseteq Seated(m.seats) \X Nat
  /\ \A p \in Seated(m.seats), n \in Nat : <<p, n>> \in in =>
       /\ n <= Len(m.game.log)
       /\ n = Len(m.game.log) => m.game.staged[TeamOf(m.mode, m.seats, p)] # None
  /\ m.status = "active" => Unstaged(m.mode, m.game)

\* A request in hand counts its own orders.
RoundsOK ==
  ~raced =>
    /\ \A v, w \in Writers : ~Idle(v) /\ ~Idle(w) => v = w
    /\ match = NoMatch => accepted = {}
    /\ match # NoMatch => AllIn(match, accepted)
    /\ \A w \in Writers : ~Idle(w) =>
         AllIn(request[w].match, accepted \cup {<<request[w].by, request[w].turn>>})

RoundsInv == PagesInv /\ RoundsOK /\ raced \in BOOLEAN

\* Every team that is not a bot's has a participant, and every participant one of them.
LEMMA TeamsTaken ==
  ASSUME NEW mode \in Modes, NEW seats \in Seatings(mode)
  PROVE  /\ \A p \in Seated(seats) : TeamOf(mode, seats, p) \in TeamIds(mode) \ mode.bots
         /\ \A t \in TeamIds(mode) \ mode.bots : \E p \in Seated(seats) :
              TeamOf(mode, seats, p) = t
<1>. DEFINE own == TeamIds(mode) \ mode.bots
<1>1. ASSUME NEW only, own = {only}
      PROVE  \A p : TeamOf(mode, seats, p) = only
  BY <1>1 DEF TeamOf
<1>2. Seated(seats) # {}
  <2>1. seats \in [1..mode.participants -> Players] /\ mode.participants \in {1, 2}
    BY DEF Seatings, Modes, SoloVsBot, TeamVsTeam, Coop2
  <2>2. 1 \in 1..mode.participants BY <2>1
  <2>. QED BY <2>1, <2>2 DEF Seated
<1>3. CASE mode = SoloVsBot
  <2>1. own = {"solo"} BY <1>3 DEF SoloVsBot, TeamIds
  <2>. QED BY <1>1, <1>2, <2>1
<1>4. CASE mode = Coop2
  <2>1. own = {"coop"} BY <1>4 DEF Coop2, TeamIds
  <2>. QED BY <1>1, <1>2, <2>1
<1>5. CASE mode = TeamVsTeam
  <2>1. mode.teams = <<"blue", "red">> /\ mode.bots = {} /\ mode.participants = 2
    BY <1>5 DEF TeamVsTeam
  <2>2. own = {"blue", "red"} BY <2>1 DEF TeamIds
  <2>3. seats \in [1..2 -> Players] /\ Cardinality(Seated(seats)) = 2
    BY <2>1 DEF Seatings
  <2>4. Seated(seats) = {seats[1], seats[2]} BY <2>3 DEF Seated
  <2>5. seats[1] # seats[2]
    <3>1. Cardinality({seats[1]}) = 1 BY FS_Singleton
    <3>. QED BY <2>3, <2>4, <3>1
  <2>. DEFINE Passed(n) == {i \in 1..n : mode.teams[i] \notin mode.bots}
  <2>6. Cardinality(Passed(1)) = 1 /\ Cardinality(Passed(2)) = 2
    <3>1. Passed(1) = {1} /\ Passed(2) = {1} \cup {2} BY <2>1
    <3>2. Cardinality({1}) = 1 /\ IsFiniteSet({1}) BY FS_Singleton
    <3>3. Cardinality({1} \cup {2}) = 2
      <4>1. 2 \notin {1} OBVIOUS
      <4>2. Cardinality({1} \cup {2}) = Cardinality({1}) + 1
        BY <3>2, <4>1, FS_AddElement, Zenon
      <4>. QED BY <3>2, <4>2
    <3>. QED BY <3>1, <3>2, <3>3
  <2>7. \A k \in 1..2 : PlayerTeam(mode, k) = mode.teams[k]
    <3>1. ASSUME NEW k \in 1..2
          PROVE  \A n \in DOMAIN mode.teams :
                   mode.teams[n] \notin mode.bots /\ Cardinality(Passed(n)) = k <=> n = k
      <4>1. DOMAIN mode.teams = {1, 2} BY <2>1
      <4>. HIDE DEF Passed
      <4>. QED BY <2>1, <2>6, <4>1
    <3>2. ASSUME NEW k \in 1..2
          PROVE  (CHOOSE n \in DOMAIN mode.teams :
                    mode.teams[n] \notin mode.bots /\ Cardinality(Passed(n)) = k) = k
      <4>1. k \in DOMAIN mode.teams BY <2>1
      <4>. HIDE DEF Passed
      <4>. QED BY <3>1, <4>1
    <3>. QED BY <3>2 DEF PlayerTeam
  <2>8. \A k \in 1..2 : (CHOOSE i \in DOMAIN seats : seats[i] = seats[k]) = k
    BY <2>3, <2>5
  <2>9. ~\E t \in own : own = {t} BY <2>2
  <2>10. \A k \in 1..2 : TeamOf(mode, seats, seats[k]) = mode.teams[k]
    BY <2>7, <2>8, <2>9 DEF TeamOf
  <2>11. TeamOf(mode, seats, seats[1]) = "blue" /\ TeamOf(mode, seats, seats[2]) = "red"
    BY <2>1, <2>10
  <2>. QED BY <2>2, <2>4, <2>11
<1>. QED BY <1>3, <1>4, <1>5 DEF Modes

\* A turn is resolved when nobody is left to stage, and only then.
LEMMA AutoResolvedMoves ==
  ASSUME NEW mode, NEW game, GameFits(mode, game)
  PROVE  \/ /\ \E t \in TeamIds(mode) : game.staged[t] = None
            /\ AutoResolved(mode, game) = game
         \/ /\ \A t \in TeamIds(mode) : game.staged[t] # None
            /\ Len(AutoResolved(mode, game).log) = Len(game.log) + 1
            /\ \A t \in TeamIds(mode) : AutoResolved(mode, game).staged[t] = None
<1>1. Len(game.log) \in Nat /\ \A turn : Len(Append(game.log, turn)) = Len(game.log) + 1
  <2>1. LogFits(mode, game.log) BY DEF GameFits
  <2>2. PICK S : game.log \in Seq(S) BY <2>1 DEF LogFits
  <2>3. ASSUME NEW turn PROVE Len(Append(game.log, turn)) = Len(game.log) + 1
    <3>1. game.log \in Seq(S \cup {turn}) BY <2>2
    <3>. QED BY <3>1
  <2>. QED BY <2>2, <2>3
<1>. QED BY <1>1 DEF AutoResolved, Resolved, NobodyStaged

\* One turn taken: the orders are staged and somebody is left to move, or the next
\* turn begins, with nothing staged.
LEMMA ApplyTurnMoves ==
  ASSUME HouseHasOrders, NEW mode \in Modes, NEW seats \in Seatings(mode), NEW game,
         GameFits(mode, game), NEW play \in PlaySet, IsPlay(play),
         play.made \in {None, Len(game.log)}, play.by \in Seated(seats)
  PROVE  LET next == ApplyTurn(mode, seats, game, play)
             team == TeamOf(mode, seats, play.by)
         IN  \/ /\ Len(next.log) = Len(game.log) + 1
                /\ \A t \in TeamIds(mode) : next.staged[t] = None
             \/ /\ Len(next.log) = Len(game.log)
                /\ next.staged = [game.staged EXCEPT ![team] = play]
                /\ \E t \in TeamIds(mode) \ mode.bots : next.staged[t] = None
<1>. DEFINE team == TeamOf(mode, seats, play.by)
            staging == [game EXCEPT !.staged[team] = play]
            acted == Acted(mode, game, team, play)
            next == ApplyTurn(mode, seats, game, play)
<1>1. team \in TeamIds(mode) \ mode.bots BY TeamsTaken
<1>2. play # None BY NoneIsNoPlay
<1>. HIDE DEF team
<1>3. GameFits(mode, staging) /\ staging.log = game.log
      /\ staging.staged = [game.staged EXCEPT ![team] = play]
  <2>1. /\ staging.log = game.log
        /\ staging.staged = [game.staged EXCEPT ![team] = play]
        /\ staging = [staged |-> staging.staged, log |-> staging.log]
    BY DEF GameFits
  <2>. HIDE DEF staging
  <2>2. /\ staging.staged = [t \in TeamIds(mode) |-> staging.staged[t]]
        /\ StagedFits(mode, staging.staged, Len(game.log))
    BY <2>1 DEF GameFits, StagedFits
  <2>. QED BY <2>1, <2>2 DEF GameFits
<1>4. acted = AutoResolved(mode, staging) BY DEF Acted
<1>5. next = IF Len(acted.log) > Len(game.log) \/ mode.bots = {} THEN acted
             ELSE BotsDriven(mode, acted)
  BY DEF ApplyTurn, team
<1>6. DOMAIN game.staged = TeamIds(mode) /\ Len(game.log) \in Nat
  BY DEF GameFits, StagedFits, LogFits
<1>. HIDE DEF staging, acted, next
<1>10. \/ /\ \E t \in TeamIds(mode) : staging.staged[t] = None
          /\ acted = staging
       \/ /\ \A t \in TeamIds(mode) : staging.staged[t] # None
          /\ Len(acted.log) = Len(staging.log) + 1
          /\ \A t \in TeamIds(mode) : acted.staged[t] = None
  <2>1. GameFits(mode, staging) BY <1>3
  <2>. QED BY <1>4, <2>1, AutoResolvedMoves
<1>7. CASE \A t \in TeamIds(mode) : staging.staged[t] # None
  <2>1. /\ Len(acted.log) = Len(game.log) + 1
        /\ \A t \in TeamIds(mode) : acted.staged[t] = None
    BY <1>3, <1>7, <1>10
  <2>2. next = acted BY <1>5, <1>6, <2>1
  <2>. QED BY <2>1, <2>2 DEF next, team
<1>8. CASE mode.bots = {} /\ \E t \in TeamIds(mode) : staging.staged[t] = None
  <2>1. acted = staging BY <1>8, <1>10
  <2>2. next = staging BY <1>5, <1>8, <2>1
  <2>. QED BY <1>3, <1>8, <2>2 DEF next, team
<1>9. CASE mode.bots # {} /\ \E t \in TeamIds(mode) : staging.staged[t] = None
  <2>1. mode = SoloVsBot BY <1>9 DEF Modes, TeamVsTeam, Coop2
  <2>2. mode.bots = {"house"} /\ TeamIds(mode) \ mode.bots = {"solo"}
    BY <2>1 DEF SoloVsBot, TeamIds
  <2>3. acted = staging BY <1>9, <1>10
  <2>. DEFINE house == [t \in TeamIds(mode) |->
                 IF t \in mode.bots THEN Play(None, HouseOrders(acted.log, t), None)
                 ELSE acted.staged[t]]
              ready == [acted EXCEPT !.staged = house]
  <2>4. next = BotsDriven(mode, acted) BY <1>3, <1>5, <1>6, <1>9, <2>3
  <2>5. BotsDriven(mode, acted) = AutoResolved(mode, ready)
    <3>1. ready = [acted EXCEPT !.staged = [t \in TeamIds(mode) |->
             IF t \in mode.bots THEN Play(None, HouseOrders(acted.log, t), None) ELSE @[t]]]
      BY <1>3, <2>3 DEF GameFits
    <3>. QED BY <3>1 DEF BotsDriven
  <2>6. \A t \in TeamIds(mode) : house[t] # None
    <3>1. house["solo"] = play
      <4>1. team = "solo" BY <1>1, <2>2
      <4>. QED BY <1>1, <1>3, <1>6, <2>2, <2>3, <4>1
    <3>2. ASSUME NEW t \in mode.bots, t \in TeamIds(mode) PROVE house[t] # None
      <4>1. HouseOrders(acted.log, t) \in Orders BY DEF HouseHasOrders
      <4>2. Play(None, HouseOrders(acted.log, t), None) \in PlaySet
        BY <4>1 DEF Play, PlaySet
      <4>. QED BY <3>2, <4>2, NoneIsNoPlay
    <3>. HIDE DEF house
    <3>3. \A t \in TeamIds(mode) : t = "solo" \/ t \in mode.bots BY <2>2
    <3>. QED BY <1>2, <3>1, <3>2, <3>3
  <2>7. ready.staged = house /\ ready.log = game.log /\ GameFits(mode, ready)
    <3>1. \A t \in TeamIds(mode) : house[t] # None =>
            IsPlay(house[t]) /\ house[t].made \in {None, Len(acted.log)}
      BY <1>3, <2>3 DEF GameFits, StagedFits, IsPlay, Play
    <3>2. house = [t \in TeamIds(mode) |-> house[t]] /\ DOMAIN house = TeamIds(mode) OBVIOUS
    <3>. HIDE DEF house
    <3>. QED BY <1>3, <2>3, <3>1, <3>2 DEF GameFits, StagedFits
  <2>. HIDE DEF house, ready
  <2>8. /\ Len(AutoResolved(mode, ready).log) = Len(ready.log) + 1
        /\ \A t \in TeamIds(mode) : AutoResolved(mode, ready).staged[t] = None
    BY <2>6, <2>7, AutoResolvedMoves
  <2>. QED BY <2>4, <2>5, <2>7, <2>8 DEF next, team
<1>. QED BY <1>7, <1>8, <1>9

\* A turn that goes through puts its orders in.
LEMMA AfterTurnAllIn ==
  ASSUME HouseHasOrders, NEW m, MatchFits(m), m.status = "active", NEW in, AllIn(m, in),
         NEW play \in PlaySet, IsPlay(play), play.made \in {None, Len(m.game.log)},
         play.by \in Seated(m.seats)
  PROVE  AllIn(AfterTurn(m, play), in \cup {<<play.by, Len(m.game.log)>>})
<1>. DEFINE after == AfterTurn(m, play)
            mode == m.mode
            seats == m.seats
            next == ApplyTurn(mode, seats, m.game, play)
            team == TeamOf(mode, seats, play.by)
            turn == Len(m.game.log)
<1>1. after.mode = mode /\ after.seats = seats /\ after.game = next BY AfterTurnFits
<1>2. /\ mode \in Modes /\ seats \in Seatings(mode) /\ GameFits(mode, m.game)
      /\ turn \in Nat /\ DOMAIN m.game.staged = TeamIds(mode)
  BY DEF MatchFits, GameFits, StagedFits, LogFits
<1>3. \/ /\ Len(next.log) = turn + 1
         /\ \A t \in TeamIds(mode) : next.staged[t] = None
      \/ /\ Len(next.log) = turn
         /\ next.staged = [m.game.staged EXCEPT ![team] = play]
         /\ \E t \in TeamIds(mode) \ mode.bots : next.staged[t] = None
  BY <1>2, ApplyTurnMoves
<1>4. play # None BY NoneIsNoPlay
<1>5. \A p \in Seated(seats) : TeamOf(mode, seats, p) \in TeamIds(mode) \ mode.bots
  BY <1>2, TeamsTaken
<1>6. TeamIds(mode) \ mode.bots # {}
  BY <1>5
<1>7. AllIn(m, in) OBVIOUS
<1>. HIDE DEF after, next, turn
<1>8. Unstaged(after.mode, after.game) BY <1>1, <1>3, <1>6 DEF Unstaged
<1>9. in \cup {<<play.by, turn>>} \subseteq Seated(seats) \X Nat
  BY <1>2, <1>7 DEF AllIn
<1>10. ASSUME NEW p \in Seated(seats), NEW n \in Nat, <<p, n>> \in in \cup {<<play.by, turn>>}
       PROVE  /\ n <= Len(next.log)
              /\ n = Len(next.log) => next.staged[TeamOf(mode, seats, p)] # None
  <2>1. n <= turn
    BY <1>2, <1>7, <1>10 DEF AllIn, turn
  <2>2. CASE Len(next.log) = turn + 1 BY <1>2, <2>1, <2>2
  <2>3. CASE /\ Len(next.log) = turn
             /\ next.staged = [m.game.staged EXCEPT ![team] = play]
    <3>1. CASE <<p, n>> \in in
      <4>1. n = turn => m.game.staged[TeamOf(mode, seats, p)] # None
        BY <1>7, <3>1 DEF AllIn, turn
      <4>. QED BY <1>2, <1>4, <1>5, <2>1, <2>3, <4>1
    <3>2. CASE p = play.by BY <1>2, <1>4, <1>5, <2>1, <2>3, <3>2
    <3>. QED BY <1>10, <3>1, <3>2
  <2>. QED BY <1>3, <2>2, <2>3
<1>11. AllIn(after, in \cup {<<play.by, turn>>})
  BY <1>1, <1>8, <1>9, <1>10 DEF AllIn
<1>. QED BY <1>11 DEF after, turn

LEMMA RoundsTurn ==
  ASSUME HouseHasOrders, RoundsInv, NEW w \in Writers, NEW p, Idle(w), MayPlay(match, p),
         NEW play \in PlaySet, IsPlay(play), play.by = p,
         play.made \in {None, Len(match.game.log)}, TakeTurn(w, match, play)
  PROVE  RoundsOK'
<1>. SUFFICES ASSUME ~raced' PROVE RoundsOK' BY DEF RoundsOK
<1>. DEFINE after == AfterTurn(match, play)
            turn == Len(match.game.log)
<1>1. PICK stage :
        request' = [request EXCEPT ![w] = [stage |-> stage, by |-> p, turn |-> turn, match |-> after]]
  BY DEF TakeTurn, Begins
<1>2. /\ ~raced /\ \A v \in Writers : Idle(v)
      /\ match' = match /\ accepted' = accepted
  BY DEF TakeTurn, Begins
<1>3. /\ match # NoMatch /\ match.status = "active" /\ p \in Seated(match.seats)
      /\ MatchFits(match) /\ AllIn(match, accepted)
  BY <1>2 DEF MayPlay, NoMatch, RoundsInv, PagesInv, RoundsOK
<1>4. AllIn(after, accepted \cup {<<p, turn>>}) BY <1>3, AfterTurnAllIn
<1>. HIDE DEF after, turn
<1>5. /\ request'[w].match = after /\ request'[w].by = p /\ request'[w].turn = turn
      /\ \A v \in Writers \ {w} : request'[v] = request[v]
  BY <1>1 DEF RoundsInv, PagesInv
<1>6. \A v \in Writers \ {w} : Idle(v)'
  BY <1>2, <1>5 DEF Idle
<1>. QED BY <1>2, <1>3, <1>4, <1>5, <1>6 DEF RoundsOK

\* A request that goes on or ends.
LEMMA RoundsRequest ==
  ASSUME RoundsInv, NEW w \in Writers, ~Idle(w), raced' = raced,
         \/ request' = [request EXCEPT ![w] = NoRequest] /\
              (\/ match' = match /\ accepted' = accepted
               \/ /\ match' = request[w].match
                  /\ accepted' = accepted \cup {<<request[w].by, request[w].turn>>})
         \/ /\ request' = [request EXCEPT ![w].stage = "saving"]
            /\ match' = match /\ accepted' = accepted
  PROVE  RoundsOK'
<1>. SUFFICES ASSUME ~raced' PROVE RoundsOK' BY DEF RoundsOK
<1>1. /\ \A v \in Writers \ {w} : Idle(v)
      /\ AllIn(request[w].match, accepted \cup {<<request[w].by, request[w].turn>>})
      /\ match # NoMatch /\ AllIn(match, accepted)
  BY DEF RoundsInv, PagesInv, CopyFits, RoundsOK
<1>2. request[w].match # NoMatch BY MatchIsStored DEF RoundsInv, PagesInv, CopyFits
<1>3. /\ request = [v \in Writers |-> request[v]]
      /\ request[w] = [stage |-> request[w].stage, by |-> request[w].by,
                       turn |-> request[w].turn, match |-> request[w].match]
  BY DEF RoundsInv, PagesInv, CopyFits
<1>4. \A v \in Writers \ {w} : Idle(v)'
  <2>1. \A v \in Writers \ {w} : request'[v] = request[v] BY <1>3
  <2>. QED BY <1>1, <2>1 DEF Idle
<1>5. CASE request' = [request EXCEPT ![w] = NoRequest]
  <2>1. Idle(w)'
    <3>1. request'[w] = NoRequest BY <1>3, <1>5
    <3>. QED BY <3>1 DEF Idle, NoRequest
  <2>2. match' # NoMatch /\ AllIn(match, accepted)' BY <1>1, <1>2
  <2>. QED BY <1>4, <2>1, <2>2 DEF RoundsOK
<1>6. CASE request' = [request EXCEPT ![w].stage = "saving"]
  <2>1. request'[w] = [request[w] EXCEPT !.stage = "saving"] BY <1>3, <1>6
  <2>2. /\ request'[w].by = request[w].by /\ request'[w].turn = request[w].turn
        /\ request'[w].match = request[w].match
    BY <1>3, <2>1
  <2>3. match' = match /\ accepted' = accepted
    <3>1. request'[w].stage = "saving" BY <1>3, <2>1
    <3>2. request' # [request EXCEPT ![w] = NoRequest]
      BY <1>3, <3>1 DEF NoRequest
    <3>. QED BY <3>2
  <2>. QED BY <1>1, <1>4, <2>2, <2>3 DEF RoundsOK
<1>. QED BY <1>5, <1>6

LEMMA RoundsNext ==
  ASSUME HouseHasOrders, RoundsInv, [Next]_vars
  PROVE  RoundsInv'
<1>1. PagesInv' BY PagesNext DEF RoundsInv
<1>2. raced' \in BOOLEAN
  BY DEF RoundsInv, Next, Step, Create, OpenPage, CallTurn, PostForm, TakeTurn, Begins,
         Rate, Save, Die, vars
<1>3. ASSUME NEW mode \in Modes, NEW seats \in Seatings(mode), Create(mode, seats)
      PROVE  RoundsOK'
  <2>. SUFFICES ASSUME ~raced' PROVE RoundsOK' BY DEF RoundsOK
  <2>1. /\ match = NoMatch /\ accepted = {} /\ match' = Started(mode, seats)
        /\ UNCHANGED <<request, accepted>> /\ \A w \in Writers : Idle(w)
    BY <1>3 DEF Create, RoundsInv, RoundsOK, PagesInv, CopyFits
  <2>2. match' # NoMatch BY <2>1, StartedFits, MatchIsStored
  <2>3. AllIn(Started(mode, seats), {})
    <3>1. TeamIds(mode) \ mode.bots # {}
      BY DEF Modes, SoloVsBot, TeamVsTeam, Coop2, TeamIds
    <3>. QED BY <3>1 DEF AllIn, Unstaged, Started, NewGame, NobodyStaged
  <2>4. \A w \in Writers : Idle(w)' BY <2>1 DEF Idle
  <2>. QED BY <2>1, <2>2, <2>3, <2>4 DEF RoundsOK
<1>4. ASSUME UNCHANGED <<match, request, accepted, raced>> PROVE RoundsOK'
  BY <1>4 DEF RoundsInv, RoundsOK, Idle
<1>5. ASSUME NEW p \in Players, OpenPage(p) PROVE RoundsOK'
  BY <1>4, <1>5 DEF OpenPage
<1>6. ASSUME NEW w \in Writers, NEW p \in Players, NEW orders \in Orders, CallTurn(w, p, orders)
      PROVE  RoundsOK'
  <2>1. /\ Idle(w) /\ MayPlay(match, p) /\ TakeTurn(w, match, Play(p, orders, None))
    BY <1>6 DEF CallTurn
  <2>2. /\ IsPlay(Play(p, orders, None)) /\ Play(p, orders, None).by = p
        /\ Play(p, orders, None).made = None /\ Play(p, orders, None) \in PlaySet
    BY DEF IsPlay, Play, PlaySet
  <2>. QED BY <2>1, <2>2, RoundsTurn
<1>7. ASSUME NEW w \in Writers, NEW p \in Players, NEW orders \in Orders, PostForm(w, p, orders)
      PROVE  RoundsOK'
  <2>1. /\ Idle(w) /\ MayPlay(match, p) /\ Len(page[p]) = Len(match.game.log)
        /\ TakeTurn(w, match, Play(p, orders, Len(page[p])))
    BY <1>7 DEF PostForm
  <2>2. Len(match.game.log) \in Nat
    <3>1. match # NoMatch BY <2>1 DEF MayPlay, NoMatch
    <3>. QED BY <3>1 DEF RoundsInv, PagesInv, MatchFits, GameFits, LogFits
  <2>3. /\ IsPlay(Play(p, orders, Len(page[p])))
        /\ Play(p, orders, Len(page[p])).by = p
        /\ Play(p, orders, Len(page[p])).made = Len(match.game.log)
        /\ Play(p, orders, Len(page[p])) \in PlaySet
    BY <2>1, <2>2 DEF IsPlay, Play, PlaySet
  <2>. QED BY <2>1, <2>3, RoundsTurn
<1>8. ASSUME NEW w \in Writers, Rate(w) PROVE RoundsOK'
  BY <1>8, RoundsRequest DEF Rate, Idle
<1>9. ASSUME NEW w \in Writers, Save(w) PROVE RoundsOK'
  BY <1>9, RoundsRequest DEF Save, Idle
<1>10. ASSUME NEW w \in Writers, Die(w) PROVE RoundsOK'
  BY <1>10, RoundsRequest DEF Die
<1>11. ASSUME UNCHANGED vars PROVE RoundsOK' BY <1>4, <1>11 DEF vars
<1>12. RoundsOK'
  BY <1>3, <1>5, <1>6, <1>7, <1>8, <1>9, <1>10, <1>11 DEF Next, Step
<1>. QED BY <1>1, <1>2, <1>12 DEF RoundsInv

\* modes.py, apply_turn: while requests run one at a time, a turn is resolved by the
\* request that brings in the last orders: when nobody is at work on a match that
\* goes on, some participant's orders are not in.  Whatever dies, for any game
\* behind the adapter whose house policy answers with orders.
THEOREM TurnsResolve == HouseHasOrders => (Spec => []ResolvesUnlessRaced)
<1>. SUFFICES ASSUME HouseHasOrders PROVE Spec => []ResolvesUnlessRaced OBVIOUS
<1>1. Init => RoundsInv
  <2>1. ASSUME Init PROVE RoundsOK /\ raced \in BOOLEAN
    BY <2>1 DEF Init, RoundsOK, Idle, NoRequest
  <2>. QED BY <2>1, PagesInit DEF RoundsInv
<1>2. RoundsInv /\ [Next]_vars => RoundsInv' BY RoundsNext
<1>3. RoundsInv => ResolvesUnlessRaced
  <2>. SUFFICES ASSUME RoundsInv, ~raced, match.status = "active", \A w \in Writers : Idle(w)
                PROVE  \E p \in Seated(match.seats) : <<p, Len(match.game.log)>> \notin accepted
    BY DEF ResolvesUnlessRaced, ResolvesOnceAllStaged
  <2>1. match # NoMatch BY DEF NoMatch
  <2>2. MatchFits(match) /\ AllIn(match, accepted) BY <2>1 DEF RoundsInv, PagesInv, RoundsOK
  <2>3. /\ match.mode \in Modes /\ match.seats \in Seatings(match.mode)
        /\ Len(match.game.log) \in Nat
    BY <2>2 DEF MatchFits, GameFits, LogFits
  <2>4. PICK t \in TeamIds(match.mode) \ match.mode.bots : match.game.staged[t] = None
    BY <2>2 DEF AllIn, Unstaged
  <2>5. PICK p \in Seated(match.seats) : TeamOf(match.mode, match.seats, p) = t
    BY <2>3, TeamsTaken
  <2>. QED BY <2>2, <2>3, <2>4, <2>5 DEF AllIn
<1>. QED BY <1>1, <1>2, <1>3, PTL DEF Spec
=============================================================================
