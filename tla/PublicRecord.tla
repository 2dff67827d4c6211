----------------------------- MODULE PublicRecord -----------------------------
(***************************************************************************)
(* What the league publishes about matches, as pure operators: the open    *)
(* dataset (league_site.datasets), the leaderboard and the pages of        *)
(* matches, with their links to profiles (ratings.leaderboard, viewer,     *)
(* profiles).                                                              *)
(*                                                                         *)
(* A match is one that was loaded from the table (module MatchItem).  An   *)
(* identity is [kind, display_name, model, provider]; names are numbers,   *)
(* in the order in which the strings would sort: 0 is the empty string.    *)
(***************************************************************************)
EXTENDS MatchItem, SequencesExt

ASSUME NoneAssumption == None \notin Nat

-----------------------------------------------------------------------------
(* RatingIdentity *)

\* from_participant refuses agents without a model and humans with one.
IsRatingIdentity(i) ==
  IF i.kind = "agent" THEN i.model # None /\ i.provider # None
                      ELSE i.model = None /\ i.provider = None

FromParticipant(p) ==
  [kind |-> p.kind, display_name |-> p.display_name,
   model |-> IF p.agent_identity = None THEN None ELSE p.agent_identity.model,
   provider |-> IF p.agent_identity = None THEN None ELSE p.agent_identity.provider]

\* None compares as "", which sorts before every other name.
Blank(name) == IF name = None THEN 0 ELSE name

SortKey(i) ==
  <<IF i.kind = "agent" THEN 0 ELSE 1, i.display_name, Blank(i.model), Blank(i.provider)>>

Precedes(key, other) ==
  \E n \in DOMAIN key : key[n] < other[n] /\ \A k \in 1..(n - 1) : key[k] = other[k]

\* The hash in a slug is of these four, joined by a separator; the rest is for show.
IdentitySlug(i) == <<i.kind, i.display_name, Blank(i.model), Blank(i.provider)>>

-----------------------------------------------------------------------------
(* schema.py and export.py *)

\* The allowlist, without what is no part of these matches (versions, quality axes,
\* timestamps) or the same for all of them (the game, the completed flag, the summary).
MatchFields == {"match_id", "turn_count", "participants", "result"}
ParticipantFields ==
  {"participant_id", "kind", "display_name", "model", "provider", "hard_score"}
ResultFields == {"winner_participant_id"}

\* Of all that could be read off a match, only what the schema names is.
Allowed(getters, fields) == [name \in DOMAIN getters \cap fields |-> getters[name]]

\* A match without a result has no scores.
HardScore(match, id) ==
  IF match.result # None /\ id \in DOMAIN match.result.scores
    THEN match.result.scores[id].value ELSE None

\* Faulty variant: agents are exported by their name alone.
ParticipantRecordUnattributed(match, p) ==
  Allowed([participant_id |-> p.participant_id, kind |-> p.kind,
           display_name |-> p.display_name, model |-> None, provider |-> None,
           hard_score |-> HardScore(match, p.participant_id)],
          ParticipantFields)

ParticipantRecord(match, p) ==
  Allowed([participant_id |-> p.participant_id, kind |-> p.kind, display_name |-> p.display_name,
           model |-> IF p.kind = "agent" THEN p.agent_identity.model ELSE None,
           provider |-> IF p.kind = "agent" THEN p.agent_identity.provider ELSE None,
           hard_score |-> HardScore(match, p.participant_id)],
          ParticipantFields)

ResultRecord(match) == Allowed([winner_participant_id |-> match.result.winner], ResultFields)

ExportedMatch(match) ==
  Allowed([match_id |-> match.match_id, turn_count |-> Len(match.turns),
           participants |-> [k \in DOMAIN match.participants |->
                               ParticipantRecord(match, match.participants[k])],
           result |-> ResultRecord(match), game_state |-> match.game],
          MatchFields)

\* export_matches refuses the whole batch for one match that is not completed.
\* The scrub check has nothing to say here: no field of these matches has a name
\* that it looks for.
ExportMatches(matches) ==
  IF \E k \in DOMAIN matches : matches[k].status # "completed"
    THEN [written |-> FALSE, lines |-> << >>]
    ELSE [written |-> TRUE,
          lines |-> [k \in DOMAIN matches |-> ExportedMatch(matches[k])]]

-----------------------------------------------------------------------------
(* leaderboard *)

\* standing[i]: the rating and the match count of i.
Outranks(standing, i, j) ==
  \/ standing[i].rating > standing[j].rating
  \/ standing[i].rating = standing[j].rating /\ Precedes(SortKey(i), SortKey(j))

\* The place of position k of the list once it is sorted: sorted is stable, so of
\* two that do not outrank each other the one listed first stays ahead.
Place(standing, listed, k) ==
  Cardinality({j \in DOMAIN listed :
                 \/ Outranks(standing, listed[j], listed[k])
                 \/ j <= k /\ ~Outranks(standing, listed[k], listed[j])})

Ranked(standing, listed) ==
  [rank \in DOMAIN listed |->
     listed[CHOOSE k \in DOMAIN listed : Place(standing, listed, k) = rank]]

\* The rows of the identities in listed, whatever order the ledger lists them in;
\* a row's rank is its position.
Leaderboard(standing, listed) ==
  LET ranked == Ranked(standing, listed)
  IN  [rank \in DOMAIN ranked |->
         [identity |-> ranked[rank], rating |-> standing[ranked[rank]].rating,
          match_count |-> standing[ranked[rank]].match_count,
          profile |-> IdentitySlug(ranked[rank])]]

\* slug_index: whose profile a link leads to.
SlugIndex(listed) ==
  LET slugs == {IdentitySlug(i) : i \in ToSet(listed)}
  IN  [slug \in slugs |-> CHOOSE i \in ToSet(listed) : IdentitySlug(i) = slug]

RankOf(rows, i) ==
  IF \E k \in DOMAIN rows : rows[k].identity = i
    THEN CHOOSE k \in DOMAIN rows : rows[k].identity = i ELSE None

-----------------------------------------------------------------------------
(* viewer/render.py: the page of one match *)

\* Finished matches link their participants to their profiles.
ParticipantView(match, p, standing) ==
  LET i == FromParticipant(p)
  IN  [participant_id |-> p.participant_id, kind |-> i.kind, display_name |-> i.display_name,
       model |-> i.model, provider |-> i.provider, rating |-> standing[i].rating,
       score |-> HardScore(match, p.participant_id),
       is_winner |-> match.result # None /\ match.result.winner = p.participant_id,
       profile |-> IF match.status = "completed" THEN IdentitySlug(i) ELSE None]

TurnView(match, turn) ==
  LET player == CHOOSE p \in ToSet(match.participants) : p.participant_id = turn.by
  IN  [turn_number |-> turn.number, participant_name |-> player.display_name]

PageModel(match, standing) ==
  [match_id |-> match.match_id, status |-> match.status, is_live |-> match.status # "completed",
   participants |-> [k \in DOMAIN match.participants |->
                       ParticipantView(match, match.participants[k], standing)],
   turns |-> [k \in DOMAIN match.turns |-> TurnView(match, match.turns[k])]]
=============================================================================
