------------------------------- MODULE BoardPlan -------------------------------
(***************************************************************************)
(* The plan of a turn in the browser: league_site.play (actions, board,    *)
(* the panels of render), the board they are laid over (viewer.board), and *)
(* the feed of what the last turn did (game.events).                       *)
(*                                                                         *)
(* The server keeps no plan.  The page of the play view is a function of   *)
(* its URL, [staged, unit], and of the stored state: the staged orders are *)
(* checked against the legal orders of the moment, and every link of the   *)
(* page carries the plan on.  Units stand for their ids, in sorting order; *)
(* a verb stands for an order to a unit, a move with its cell included.    *)
(***************************************************************************)
EXTENDS Naturals, Sequences, SequencesExt

CONSTANTS Units,  \* the units of the human's team
          Verbs,  \* the orders a unit can be given
          None

ASSUME PlanAssumption ==
  /\ Units \subseteq Nat /\ IsFiniteSet(Units)
  /\ None \notin Units /\ None \notin {"us", "them"}

Order == [unit : Units, verb : Verbs]

Urls(length) == [staged : BoundedSeq(Order, length), unit : Units \cup {None}]

Url(plan, unit) == [staged |-> plan, unit |-> unit]

-----------------------------------------------------------------------------
(* actions.py, and _staged_orders of wsgi.py *)

\* unit_orders: legal[u] is what the game lists for u, nothing for a fallen unit.
UnitOrders(legal) == {order \in Order : order.verb \in legal[order.unit]}

\* match_order: what comes from a URL or a form must be one of these.
MatchOrder(legal, order) == order \in UnitOrders(legal)

Planned(plan) == {plan[k].unit : k \in DOMAIN plan}

\* What is legal now, and the first order of each unit, is kept.
Staged(plan, order, legal) ==
  IF MatchOrder(legal, order) /\ order.unit \notin Planned(plan)
    THEN Append(plan, order) ELSE plan

\* The loop of _staged_orders.
StagedOrders(staged, legal) ==
  LET plan[n \in 0..Len(staged)] ==
        IF n = 0 THEN << >> ELSE Staged(plan[n - 1], staged[n], legal)
  IN  plan[Len(staged)]

\* _submit_plan asks the same of the orders of a form, but drops none.
PlayablePlan(plan, legal) == plan # << >> /\ StagedOrders(plan, legal) = plan

\* compose_turn: one {"actions": [...]} for all units.
ComposeTurn(plan) == ToSet(plan)

-----------------------------------------------------------------------------
(* build_overlay: the links on the board *)

Unstaged(plan, legal) == {u \in Units : legal[u] # {}} \ Planned(plan)

\* A selection counts while the unit still needs an order.
Selected(unit, plan, legal) == IF unit \in Unstaged(plan, legal) THEN unit ELSE None

\* The page of a URL.
PageAt(url, legal) ==
  LET plan == StagedOrders(url.staged, legal)
  IN  [plan |-> plan, unit |-> Selected(url.unit, plan, legal)]

\* A plan has one order of a unit at most.
Without(plan, u) == RemoveAt(plan, CHOOSE k \in DOMAIN plan : plan[k].unit = u)

Least(units) == CHOOSE u \in units : \A v \in units : u <= v

\* Faulty variant: the unit that has just got its order is offered again.
NextUnstagedAgain(unstaged, unit) == Least(unstaged)

\* The unit to select once this one has its order.
NextUnstaged(unstaged, unit) ==
  IF unstaged \subseteq {unit} THEN None ELSE Least(unstaged \ {unit})

SelectLinks(page, legal) == {Url(page.plan, u) : u \in Unstaged(page.plan, legal)}

RestageLinks(page) == {Url(Without(page.plan, u), u) : u \in Planned(page.plan)}

\* The orders of the selected unit, each on its cell.
Controls(page, legal) ==
  IF page.unit = None THEN {}
  ELSE {Url(Append(page.plan, [unit |-> page.unit, verb |-> verb]),
            NextUnstaged(Unstaged(page.plan, legal), page.unit)) : verb \in legal[page.unit]}

-----------------------------------------------------------------------------
(* The panels beside the board *)

\* Remove an order, clear the plan, pick a different unit, or add from the list.
PanelLinks(page, legal) ==
  {Url(Without(page.plan, u), None) : u \in Planned(page.plan)}
    \cup {Url(<< >>, None), Url(page.plan, None)}
    \cup {Url(Append(page.plan, order), None) :
            order \in {o \in UnitOrders(legal) : o.unit \notin Planned(page.plan)}}

Links(page, legal) ==
  SelectLinks(page, legal) \cup RestageLinks(page) \cup Controls(page, legal)
    \cup PanelLinks(page, legal)

-----------------------------------------------------------------------------
(* events.py: what changed between two boards *)

\* owner: who holds the post.  bank: the stock of the team.  node: what the
\* resource has left.  Units carry one piece at most.
Board == [owner : {"us", "them", None}, bank : Nat, node : Nat,
          alive : [Units -> BOOLEAN], carrying : [Units -> {0, 1}]]

PostEvents(before, after) ==
  IF after.owner = before.owner THEN {}
  ELSE IF after.owner # None THEN {<<"captured", after.owner>>}
  ELSE {<<"lost", before.owner>>}

GatherEvents(before, after) ==
  {<<"gathered", u>> : u \in {v \in Units : after.carrying[v] > before.carrying[v]}}

DeliverEvents(before, after) ==
  IF after.bank > before.bank THEN {<<"delivered", after.bank - before.bank>>} ELSE {}

NodeEvents(before, after) ==
  IF after.node = 0 /\ before.node > 0 THEN {<<"exhausted">>} ELSE {}

FallenEvents(before, after) ==
  {<<"fell", u>> : u \in {v \in Units : before.alive[v] /\ ~after.alive[v]}}

DiffTurnEvents(before, after) ==
  PostEvents(before, after) \cup GatherEvents(before, after) \cup DeliverEvents(before, after)
    \cup NodeEvents(before, after) \cup FallenEvents(before, after)
=============================================================================
