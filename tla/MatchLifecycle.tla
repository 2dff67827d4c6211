--------------------------- MODULE MatchLifecycle ---------------------------
(***************************************************************************)
(* What a player sees of the platform: every match is an atomic state      *)
(* machine (the diagram at the top of league_site/matches/match.py).  A    *)
(* match is created running; its turns are only ever added to, one legal   *)
(* turn at a time; pausing and resuming change nothing else; a completed   *)
(* match stays as it is.                                                   *)
(***************************************************************************)
EXTENDS MatchRecord

CONSTANT MatchIds

VARIABLE matches      \* matches[id]: the match, or None while there is none

Init == matches = [id \in MatchIds |-> None]

Becomes(id, match) == matches' = [matches EXCEPT ![id] = match]

Create(id) ==
  /\ matches[id] = None
  /\ \E seats \in Seatings : Becomes(id, Started(Created(seats)))

TakeTurn(id) ==
  /\ matches[id] # None
  /\ \E by \in Callers, points \in Points :
       /\ CanTakeTurn(matches[id], by, points)
       /\ Becomes(id, AfterTurn(matches[id], by, points))

Pause(id) ==
  /\ matches[id] # None
  /\ CanPause(matches[id])
  /\ Becomes(id, Paused(matches[id]))

Resume(id) ==
  /\ matches[id] # None
  /\ CanResume(matches[id])
  /\ Becomes(id, Resumed(matches[id]))

Next == \E id \in MatchIds : Create(id) \/ TakeTurn(id) \/ Pause(id) \/ Resume(id)

Spec == Init /\ [][Next]_matches
=============================================================================
