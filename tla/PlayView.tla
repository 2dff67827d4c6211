------------------------------- MODULE PlayView -------------------------------
(***************************************************************************)
(* The play page of a grid-lane match: what _play_view of play/wsgi.py     *)
(* puts together from the stored match and the plan of the URL, for the    *)
(* human of team "us".  Words are left out, except for which team a line   *)
(* is about; so are refused orders, missions, and the rival's stock.       *)
(***************************************************************************)
EXTENDS BoardPlan, FiniteSets

\* _team_labels.  solo: the other team is the house's and has no participants.
Label(match, team) ==
  IF team = "us" THEN "You"
  ELSE IF match.mode = "solo" THEN "House bot" ELSE "rival"

-----------------------------------------------------------------------------
(* _resolve_turn_state: one answer for everything on the page *)

Waiting(match) == match.status = "active" /\ "us" \in match.staged

Planning(match, legal) ==
  match.status = "active" /\ UnitOrders(legal) # {} /\ ~Waiting(match)

\* The panel under the board.  A team without a unit that can be ordered about has
\* no orders, like a game that lists none: it is sent to the API.
Panel(match, legal) ==
  CASE Planning(match, legal)     -> "plan"
    [] match.status = "completed" -> "final score"
    [] match.status = "paused"    -> "paused"
    [] Waiting(match)             -> "waiting"
    [] OTHER                      -> "through the API"

\* A page with a plan on it holds still, and so does one that is final.
Refreshes(match, legal) == match.status # "completed" /\ ~Planning(match, legal)

\* The instructions unfold on the first turn.
HowTo(match, legal) ==
  IF ~Planning(match, legal) /\ ~Waiting(match) THEN "none"
  ELSE IF match.turn = 0 THEN "open" ELSE "folded"

-----------------------------------------------------------------------------
(* The parts of the page *)

\* render_board_lead, over the counts that _board_section hands it.
Lead(page, legal) ==
  LET staged    == Cardinality(Planned(page.plan))
      plannable == Cardinality(Unstaged(page.plan, legal)) + staged
  IN  IF page.unit # None THEN <<"tap its square", page.unit>>
      ELSE IF staged = 0 THEN <<"tap a unit">>
      ELSE IF staged >= plannable THEN <<"end turn">>
      ELSE <<"planned", staged, plannable>>

\* _status_strip: the posts each team holds, and what ours has banked.
StatusStrip(match) ==
  [posts  |-> [team \in {"us", "them"} |-> IF match.board.owner = team THEN 1 ELSE 0],
   banked |-> match.board.bank, turn |-> match.turn]

\* _describe_event: units and nodes go by their ids, teams by their labels.
Sentence(match, event) ==
  IF event[1] \in {"captured", "lost"} THEN <<event[1], Label(match, event[2])>> ELSE event

DescribeEvents(match) == {Sentence(match, event) : event \in match.news}

View(match, url, legal) ==
  LET page == PageAt(url, legal)
  IN  [panel |-> Panel(match, legal), refreshes |-> Refreshes(match, legal),
       how_to |-> HowTo(match, legal), strip |-> StatusStrip(match),
       events |-> DescribeEvents(match),
       lead |-> IF Planning(match, legal) THEN Lead(page, legal) ELSE << >>]
=============================================================================
