----------------------------- MODULE HostedTurn -----------------------------
(***************************************************************************)
(* league_site.byok.runner.run_turn over the key vault, and the provider   *)
(* registry of league_site.byok.providers behind it.  A hosted turn gets   *)
(* the player's key from the vault, asks the player's provider with it and *)
(* keeps what is legal of the reply.  The answer may take up to a minute,  *)
(* in which the key may be revoked; no lock is held.                       *)
(*                                                                         *)
(* The text of a reply is the sequence of what begins at its opening       *)
(* braces: an object, or something that does not parse.                    *)
(***************************************************************************)
EXTENDS KeyVault, Naturals, Sequences

CONSTANTS Units,      \* the units legal_actions names
          Actions,    \* actions
          LegalActions, \* the <<unit, action>> pairs of the view's legal_actions
          Strangers,  \* units legal_actions does not name
          MaxOrders,  \* bound: orders of one reply
          BaseUrls    \* what a caller may pass as base_url, None for nothing

ASSUME TurnAssumption ==
  /\ LegalActions \subseteq Units \X Actions
  /\ Units \cap Strangers = {}
  /\ MaxOrders \in Nat

VARIABLE turn  \* turn[c]: the request c has sent, or the decision it has taken

vars == <<table, replica, call, turn>>

NoTurn == [at |-> "none"]

-----------------------------------------------------------------------------
(* providers.py *)

Served(family, default) == [family |-> family, default |-> default]

\* PROVIDERS: the wire format of each registered provider, and the address it
\* has without base_url.
Registry ==
  [name \in {"anthropic", "bedrock", "openai", "openai-compatible",
             "hf-inference", "nvidia-nim"} |->
     CASE name = "anthropic"         -> Served("messages", "api.anthropic.com")
       [] name = "bedrock"           -> Served("messages", "bedrock-runtime")
       [] name = "openai"            -> Served("chat", "api.openai.com")
       [] name = "openai-compatible" -> Served("chat", None)
       [] name = "hf-inference"      -> Served("chat", "router.huggingface.co")
       [] name = "nvidia-nim"        -> Served("chat", "integrate.api.nvidia.com")]

\* Bedrock takes its address from the region of the key, whatever base_url is.
Address(provider, baseUrl) ==
  IF baseUrl = None \/ provider = "bedrock" THEN Registry[provider].default ELSE baseUrl

\* UnknownProviderError; ValueError for a provider without an address.
CanBuild(provider, baseUrl) ==
  provider \in DOMAIN Registry /\ Address(provider, baseUrl) # None

\* build_request: the messages format takes the system prompt out of the list.
BuildRequest(provider, baseUrl, key) ==
  [at |-> "asking", url |-> Address(provider, baseUrl), family |-> Registry[provider].family,
   provider |-> provider, key |-> key]

\* A service answers in the format it was asked in.
Body(request, reply) == [family |-> request.family, text |-> reply]

NoText == << >>

\* parse_response: a parser finds no text in a body of the other format.
ParseResponse(provider, body) ==
  IF body.family = Registry[provider].family THEN body.text ELSE NoText

-----------------------------------------------------------------------------
(* runner.py *)

\* What a model may propose: well-formed orders, and anything else.
Malformed == [unit |-> None, action |-> None]
Proposals == [unit : Units \cup Strangers, action : Actions] \cup {Malformed}

\* Objects with orders, one without, and what does not parse: a stray brace, or an
\* object that was cut off, whose own first object comes next.
Object(orders) == [parses |-> TRUE, orders |-> orders]
Objects == {Object(orders) : orders \in UNION {[1..n -> Proposals] : n \in 0..MaxOrders}}
Bare    == Object(None)
Broken  == [parses |-> FALSE, orders |-> None]

\* Bound: what stands before an object is one thing, and then the object is short.
Replies ==
  {<< >>, <<Bare>>, <<Broken>>, <<Broken, Bare>>} \cup {<<object>> : object \in Objects}
    \cup {<<before, object>> : before \in {Bare, Broken},
                               object \in {o \in Objects : Len(o.orders) <= 1}}

\* The first that parses: what stands before is not looked at any more, and what
\* follows never.
ExtractFirstObject(text) ==
  LET found == {k \in DOMAIN text : text[k].parses}
  IN  IF found = {} THEN Bare ELSE text[CHOOSE k \in found : \A j \in found : k <= j]

\* Faulty variant: only the unit is looked up.
KeepsKnownUnits(order) == \E pair \in LegalActions : pair[1] = order.unit

\* An order is kept if it is, as a whole, one of the legal actions.
Keeps(order) == <<order.unit, order.action>> \in LegalActions

Reason(order) ==
  IF order = Malformed THEN "malformed"
  ELSE IF \A pair \in LegalActions : pair[1] # order.unit THEN "unknown unit"
  ELSE "not legal"

\* Without an object, or without a list of orders in it, nothing is proposed.
Proposed(object) == IF object.orders = None THEN << >> ELSE object.orders

Validated(decision, order) ==
  IF Keeps(order) THEN [decision EXCEPT !.orders = Append(@, order)]
  ELSE [decision EXCEPT !.dropped = Append(@, [order |-> order, reason |-> Reason(order)])]

\* _validate_orders: its loop.
Decide(object) ==
  LET proposed == Proposed(object)
      decision[n \in 0..Len(proposed)] ==
        IF n = 0 THEN [orders |-> << >>, dropped |-> << >>]
        ELSE Validated(decision[n - 1], proposed[n])
  IN  decision[Len(proposed)]

\* run_turn without a handle raises NoVaultKeyError: it has no other way to a key.
\* With one, vault.get comes first, and then the provider is looked up.
Ask(c, provider, baseUrl) ==
  /\ call[c].step = "keyed"
  /\ turn[c] = NoTurn
  /\ CanBuild(provider, baseUrl)
  /\ turn' = [turn EXCEPT ![c] = BuildRequest(provider, baseUrl, KeyHeld(c))]
  /\ UNCHANGED <<table, replica, call>>

\* UnknownProviderError, ValueError, ProviderError or a timeout ends the turn.
FailTurn(c) ==
  /\ call[c].step = "keyed"
  /\ turn[c].at \in {"none", "asking"}
  /\ turn' = [turn EXCEPT ![c] = NoTurn]
  /\ Goes(c, NoCall)
  /\ UNCHANGED <<table, replica>>

Answer(c, reply) ==
  /\ turn[c].at = "asking"
  /\ LET text == ParseResponse(turn[c].provider, Body(turn[c], reply))
     IN  turn' = [turn EXCEPT
           ![c] = [at |-> "decided", reply |-> ExtractFirstObject(reply),
                   decision |-> Decide(ExtractFirstObject(text))]]
  /\ UNCHANGED <<table, replica, call>>

EndTurn(c) ==
  /\ turn[c].at = "decided"
  /\ turn' = [turn EXCEPT ![c] = NoTurn]
  /\ Goes(c, NoCall)
  /\ UNCHANGED <<table, replica>>

\* The caller's process ends, with the key if it held one.
Abort(c) ==
  /\ Die(c)
  /\ turn' = [turn EXCEPT ![c] = NoTurn]

TurnStep(c) ==
  \/ \E h \in Handles : LoadKey(c, h) /\ UNCHANGED turn
  \/ DecryptKey(c) /\ UNCHANGED turn
  \/ \E provider \in Providers, baseUrl \in BaseUrls : Ask(c, provider, baseUrl)
  \/ \E reply \in Replies : Answer(c, reply)
  \/ FailTurn(c)
  \/ EndTurn(c)

Next ==
  \/ \E c \in Callers : VaultStep(c) /\ UNCHANGED turn
  \/ \E c \in Callers : TurnStep(c) \/ Abort(c)
  \/ \E h \in Handles : Replicate(h) /\ UNCHANGED turn

TurnInit == Init /\ turn = [c \in Callers |-> NoTurn]

Spec == TurnInit /\ [][Next]_vars

-----------------------------------------------------------------------------
(* Properties *)

\* The types of the vault and of the turns; a turn holds a key only between its
\* decryption and its end.
TurnOK(k, t) ==
  /\ t.at \in {"none", "asking", "decided"}
  /\ t.at # "none" => k.step = "keyed"
  /\ t.at = "asking" => t.key \in Secrets /\ t.url # None

TypeOK ==
  /\ VaultTypeOK
  /\ DOMAIN turn = Callers
  /\ \A c \in Callers : TurnOK(call[c], turn[c])

\* vault.py: revocation is permanent, and future get calls raise.  No turn that
\* began after the revocation had reached every replica gets the key, and nobody
\* is told any more that it is usable.  (Before that an eventually consistent
\* get still hands it out, although revoke has returned.)
RevokedKeyUnused ==
  \A c \in Callers : call[c].settled =>
    /\ call[c].step \notin {"decrypting", "keyed"}
    /\ call[c].step = "described" => call[c].item.revoked

\* runner.py: anything that does not match a legal action exactly is dropped and
\* does not count as a move.  The proposals of the first object are split in two
\* parts in their order: those kept, all legal, and those dropped; none is lost or
\* played twice, and orders that are all legal pass untouched, whatever provider
\* carried the reply.
DecisionSplitsReply ==
  \A c \in Callers : turn[c].at = "decided" =>
    LET proposed == Proposed(turn[c].reply)
        kept     == turn[c].decision.orders
        dropped  == turn[c].decision.dropped
        Rising(part) == {place \in [DOMAIN part -> DOMAIN proposed] :
                           \A j, k \in DOMAIN part : j < k => place[j] < place[k]}
    IN  /\ \E place \in Rising(kept) : \A k \in DOMAIN kept :
             kept[k] = proposed[place[k]] /\ <<kept[k].unit, kept[k].action>> \in LegalActions
        /\ \E place \in Rising(dropped) : \A k \in DOMAIN dropped :
             /\ dropped[k].order = proposed[place[k]]
             /\ <<dropped[k].order.unit, dropped[k].order.action>> \notin LegalActions
        /\ Len(kept) + Len(dropped) = Len(proposed)
=============================================================================
