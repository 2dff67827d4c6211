--------------------------- MODULE HostedTurnProofs ---------------------------
(***************************************************************************)
(* The key vault under concurrent callers, for any handles, owners, keys   *)
(* and callers, with lagging reads and deaths: its types, the promise of   *)
(* InMemoryKeyVault, and that a revoked key is not used.                   *)
(*                                                                         *)
(* revoke puts back a whole item it read, perhaps from a lagging replica.  *)
(* That this undoes nothing rests on EveryCopyIsEarlier: any copy in a     *)
(* replica or in a call differs from the stored item in the flag at most,  *)
(* and then the copy is the one that is not revoked.                       *)
(*                                                                         *)
(* And that the reply of a model is split whole: by the least number of    *)
(* orders after which the loop over them would have lost, added or moved   *)
(* one.                                                                    *)
(***************************************************************************)
EXTENDS HostedTurn, WellFoundedInduction, TLAPS

\* What is about to be stored is in use, and what was loaded after a revocation had
\* settled is revoked.
FlagsAreRight ==
  \A c \in Callers :
    /\ call[c].step = "storing" => ~call[c].item.revoked
    /\ call[c].settled => call[c].step \in {"revoking", "described"} /\ call[c].item.revoked

VaultInv == VaultTypeOK /\ EveryCopyIsEarlier /\ FlagsAreRight

-----------------------------------------------------------------------------
(* The steps of the system, as far as the vault is concerned. *)

\* A call that ends, for whatever reason.
Ends(c) == Goes(c, NoCall) /\ UNCHANGED <<table, replica>>

\* A get, revoke or describe that has read the item of h.
Reads(c, h, step) ==
  /\ \E item \in Loaded(h) \ {None} :
       /\ step = "decrypting" => ~item.revoked
       /\ Goes(c, Begun(step, h, item))
  /\ UNCHANGED <<table, replica>>

ReadSteps == {"decrypting", "revoking", "described"}

CallerSteps(c) ==
  \/ \E owner \in Owners, provider \in Providers, material \in Secrets :
       BeginPut(c, owner, provider, material)
  \/ \E h \in Handles : StoreKey(c, h)
  \/ \E h \in Handles, step \in ReadSteps : Reads(c, h, step)
  \/ DecryptKey(c)
  \/ SaveRevoked(c)
  \/ Ends(c)

\* What a turn does beyond the vault ends a call of it, or leaves it alone.
LEMMA StepsOfVault ==
  ASSUME Next
  PROVE  \/ \E c \in Callers : CallerSteps(c)
         \/ \E h \in Handles : Replicate(h)
         \/ UNCHANGED vaultVars
<1>1. ASSUME NEW c \in Callers, VaultStep(c) PROVE CallerSteps(c)
  <2>1. ASSUME NEW h \in Handles, LoadForRevoke(c, h) PROVE Reads(c, h, "revoking")
    BY <2>1 DEF LoadForRevoke, Reads
  <2>2. ASSUME NEW h \in Handles, Describe(c, h) PROVE Reads(c, h, "described")
    BY <2>2 DEF Describe, Reads
  <2>3. ASSUME EndDescribe(c) PROVE Ends(c)
    BY <2>3 DEF EndDescribe, Ends
  <2>. QED BY <1>1, <2>1, <2>2, <2>3 DEF VaultStep, CallerSteps, ReadSteps
<1>2. ASSUME NEW c \in Callers, TurnStep(c) PROVE CallerSteps(c) \/ UNCHANGED vaultVars
  <2>1. ASSUME NEW h \in Handles, LoadKey(c, h) PROVE Reads(c, h, "decrypting")
    BY <2>1 DEF LoadKey, Reads
  <2>2. ASSUME FailTurn(c) \/ EndTurn(c) PROVE Ends(c)
    BY <2>2 DEF FailTurn, EndTurn, Ends
  <2>3. ASSUME NEW provider, NEW baseUrl, Ask(c, provider, baseUrl) PROVE UNCHANGED vaultVars
    BY <2>3 DEF Ask, vaultVars
  <2>4. ASSUME NEW reply, Answer(c, reply) PROVE UNCHANGED vaultVars
    BY <2>4 DEF Answer, vaultVars
  <2>. QED BY <1>2, <2>1, <2>2, <2>3, <2>4 DEF TurnStep, CallerSteps, ReadSteps
<1>3. ASSUME NEW c \in Callers, Abort(c) PROVE CallerSteps(c)
  BY <1>3 DEF Abort, Die, Ends, CallerSteps
<1>. QED BY <1>1, <1>2, <1>3 DEF Next

-----------------------------------------------------------------------------
(* Types. *)

LEMMA RevokedItem ==
  ASSUME NEW item \in Item
  PROVE  LET revoked == [item EXCEPT !.revoked = TRUE]
         IN  /\ revoked \in Item /\ revoked # None /\ revoked.revoked
             /\ revoked.owner = item.owner /\ revoked.provider = item.provider
             /\ revoked.ciphertext = item.ciphertext
BY VaultAssumption DEF Item

LEMMA NewItemType ==
  ASSUME NEW owner \in Owners, NEW provider \in Providers, NEW material \in Secrets
  PROVE  /\ NewItem(owner, provider, material) \in Item
         /\ ~NewItem(owner, provider, material).revoked
BY DEF NewItem, Item, Encrypt, Ciphertext

LEMMA LoadedType ==
  ASSUME VaultTypeOK, NEW h \in Handles, NEW item \in Loaded(h) \ {None}
  PROVE  item \in Item /\ (item = table[h] \/ item = replica[h])
BY DEF VaultTypeOK, Loaded

LEMMA SettledType == ASSUME VaultTypeOK, NEW h \in Handles PROVE Settled(h) \in BOOLEAN
BY DEF VaultTypeOK, Settled, IsRevoked, Item

\* A call that goes on as next is the only one that changes.
LEMMA GoesOn ==
  ASSUME VaultTypeOK, NEW c \in Callers, NEW next, Goes(c, next)
  PROVE  /\ call'[c] = next
         /\ \A d \in Callers : d # c => call'[d] = call[d]
         /\ next \in Call /\ InHand(next) =>
              call' \in [Callers -> Call] /\ \A d \in Callers : InHand(call'[d])
BY DEF VaultTypeOK, Goes

LEMMA NoCallType == NoCall \in Call /\ InHand(NoCall)
BY DEF NoCall, Call, InHand

LEMMA TypeStep == ASSUME VaultInv, Next PROVE VaultTypeOK'
<1>. USE DEF VaultInv
<1>1. ASSUME NEW c \in Callers, NEW owner \in Owners, NEW provider \in Providers,
             NEW material \in Secrets, BeginPut(c, owner, provider, material)
      PROVE  VaultTypeOK'
  <2>. DEFINE item == NewItem(owner, provider, material)
              next == [NoCall EXCEPT !.step = "storing", !.item = item]
  <2>1. item \in Item BY NewItemType
  <2>. HIDE DEF item
  <2>2. next \in Call /\ InHand(next)
    BY <2>1 DEF NoCall, Call, InHand
  <2>3. Goes(c, next) BY <1>1 DEF BeginPut, item
  <2>. HIDE DEF next
  <2>. QED BY <1>1, <2>2, <2>3, GoesOn DEF BeginPut, VaultTypeOK
<1>2. ASSUME NEW c \in Callers, NEW h \in Handles, StoreKey(c, h) PROVE VaultTypeOK'
  <2>1. call[c].item \in Item BY <1>2 DEF StoreKey, VaultTypeOK, InHand
  <2>2. Goes(c, NoCall) BY <1>2 DEF StoreKey
  <2>. QED BY <1>2, <2>1, <2>2, GoesOn, NoCallType DEF StoreKey, Writes, VaultTypeOK
<1>3. ASSUME NEW c \in Callers, NEW h \in Handles, NEW step \in ReadSteps, Reads(c, h, step)
      PROVE  VaultTypeOK'
  <2>1. PICK item \in Loaded(h) \ {None} : Goes(c, Begun(step, h, item))
    BY <1>3 DEF Reads
  <2>2. item \in Item BY LoadedType
  <2>3. Begun(step, h, item) \in Call /\ InHand(Begun(step, h, item))
    BY <2>2, SettledType DEF Begun, Call, InHand, ReadSteps
  <2>. QED BY <1>3, <2>1, <2>3, GoesOn DEF Reads, VaultTypeOK
<1>4. ASSUME NEW c \in Callers, DecryptKey(c) PROVE VaultTypeOK'
  <2>. DEFINE next == [call[c] EXCEPT !.step = "keyed"]
  <2>1. call[c] \in Call /\ InHand(call[c]) BY DEF VaultTypeOK
  <2>2. next \in Call /\ InHand(next)
    BY <1>4, <2>1 DEF DecryptKey, Call, InHand
  <2>3. Goes(c, next) BY <1>4 DEF DecryptKey
  <2>. HIDE DEF next
  <2>. QED BY <1>4, <2>2, <2>3, GoesOn DEF DecryptKey, VaultTypeOK
<1>5. ASSUME NEW c \in Callers, SaveRevoked(c) PROVE VaultTypeOK'
  <2>1. call[c].item \in Item /\ call[c].handle \in Handles
    BY <1>5 DEF SaveRevoked, VaultTypeOK, InHand
  <2>. DEFINE revoked == [call[c].item EXCEPT !.revoked = TRUE]
  <2>2. revoked \in Item BY <2>1, RevokedItem
  <2>3. Goes(c, NoCall) /\ Writes(call[c].handle, revoked) BY <1>5 DEF SaveRevoked
  <2>. HIDE DEF revoked
  <2>. QED BY <2>1, <2>2, <2>3, GoesOn, NoCallType DEF Writes, VaultTypeOK
<1>6. ASSUME NEW c \in Callers, Ends(c) PROVE VaultTypeOK'
  BY <1>6, GoesOn, NoCallType DEF Ends, VaultTypeOK
<1>7. ASSUME NEW h \in Handles, Replicate(h) PROVE VaultTypeOK'
  BY <1>7 DEF Replicate, VaultTypeOK
<1>8. ASSUME UNCHANGED vaultVars PROVE VaultTypeOK'
  BY <1>8 DEF vaultVars, VaultTypeOK
<1>. QED
  BY StepsOfVault, <1>1, <1>2, <1>3, <1>4, <1>5, <1>6, <1>7, <1>8 DEF CallerSteps

-----------------------------------------------------------------------------
(* Copies. *)

\* The stored item of h after the step is a later version of the one before.
Grows(h) ==
  table[h] # None =>
    /\ table'[h] # None
    /\ table'[h].owner = table[h].owner /\ table'[h].provider = table[h].provider
    /\ table'[h].ciphertext = table[h].ciphertext
    /\ table[h].revoked => table'[h].revoked

LEMMA TableGrows == ASSUME VaultInv, Next PROVE \A h \in Handles : Grows(h)
<1>. USE DEF VaultInv
<1>1. ASSUME UNCHANGED table PROVE \A h \in Handles : Grows(h)
  BY <1>1 DEF Grows
<1>2. ASSUME NEW c \in Callers, NEW h \in Handles, StoreKey(c, h)
      PROVE  \A g \in Handles : Grows(g)
  BY <1>2 DEF StoreKey, Writes, VaultTypeOK, Grows
<1>3. ASSUME NEW c \in Callers, SaveRevoked(c) PROVE \A g \in Handles : Grows(g)
  <2>1. /\ call[c].item \in Item /\ call[c].handle \in Handles
        /\ EarlierVersion(call[c].item, call[c].handle)
    BY <1>3 DEF SaveRevoked, VaultTypeOK, InHand, EveryCopyIsEarlier
  <2>. DEFINE revoked == [call[c].item EXCEPT !.revoked = TRUE]
  <2>2. /\ revoked # None /\ revoked.revoked /\ revoked.owner = call[c].item.owner
        /\ revoked.provider = call[c].item.provider
        /\ revoked.ciphertext = call[c].item.ciphertext
    BY <2>1, RevokedItem
  <2>3. table' = [table EXCEPT ![call[c].handle] = revoked]
    BY <1>3 DEF SaveRevoked, Writes
  <2>. HIDE DEF revoked
  <2>. QED BY <2>1, <2>2, <2>3 DEF Grows, EarlierVersion, VaultTypeOK
<1>. QED
  BY StepsOfVault, <1>1, <1>2, <1>3
  DEF CallerSteps, BeginPut, Reads, DecryptKey, Ends, Replicate, vaultVars

\* The stored item is a version of itself.
LEMMA StoredIsEarlier ==
  ASSUME NEW h \in Handles, table[h] # None PROVE EarlierVersion(table[h], h)
BY DEF EarlierVersion

\* What a replica holds after a step: what it held, or what is stored after it.
LEMMA ReplicaStep ==
  ASSUME VaultInv, Next, NEW h \in Handles
  PROVE  replica'[h] = replica[h] \/ replica'[h] = table'[h]
<1>. USE DEF VaultInv
<1>1. ASSUME NEW g \in Handles, Replicate(g) PROVE replica'[h] = replica[h] \/ replica'[h] = table'[h]
  BY <1>1 DEF Replicate, VaultTypeOK
<1>. QED
  BY StepsOfVault, <1>1
  DEF CallerSteps, BeginPut, StoreKey, SaveRevoked, Writes, Reads, DecryptKey, Ends, vaultVars

\* What a call holds of a stored item after a step is what it held, or was loaded in it.
LEMMA CallStep ==
  ASSUME VaultInv, Next, NEW c \in Callers, call'[c].step \notin {"idle", "storing"}
  PROVE  \/ /\ call[c].step \notin {"idle", "storing"}
            /\ call'[c].item = call[c].item /\ call'[c].handle = call[c].handle
         \/ /\ call'[c].handle \in Handles /\ call'[c].item # None
            /\ \/ call'[c].item = table[call'[c].handle]
               \/ call'[c].item = replica[call'[c].handle]
            /\ UNCHANGED table
<1>. USE DEF VaultInv
<1>. DEFINE Held == /\ call[c].step \notin {"idle", "storing"}
                    /\ call'[c].item = call[c].item /\ call'[c].handle = call[c].handle
            LoadedNow == /\ call'[c].handle \in Handles /\ call'[c].item # None
                         /\ \/ call'[c].item = table[call'[c].handle]
                            \/ call'[c].item = replica[call'[c].handle]
                         /\ UNCHANGED table
<1>1. ASSUME call'[c] = call[c] PROVE Held BY <1>1
<1>2. ASSUME NEW d \in Callers, NEW next, Goes(d, next), next.step \in {"idle", "storing"}
      PROVE  Held
  BY <1>1, <1>2, GoesOn
<1>3. ASSUME NEW d \in Callers, NEW h \in Handles, NEW step \in ReadSteps, Reads(d, h, step)
      PROVE  Held \/ LoadedNow
  <2>1. PICK item \in Loaded(h) \ {None} : Goes(d, Begun(step, h, item))
    BY <1>3 DEF Reads
  <2>2. item = table[h] \/ item = replica[h] BY LoadedType
  <2>. QED BY <1>1, <1>3, <2>1, <2>2, GoesOn DEF Reads, Begun
<1>4. ASSUME NEW d \in Callers, DecryptKey(d) PROVE Held
  <2>1. call[d] \in Call BY DEF VaultTypeOK
  <2>. QED BY <1>1, <1>4, <2>1, GoesOn DEF DecryptKey, Call
<1>5. ASSUME NEW d \in Callers, NEW owner \in Owners, NEW provider \in Providers,
             NEW material \in Secrets, BeginPut(d, owner, provider, material)
      PROVE  Held
  <2>. DEFINE next == [NoCall EXCEPT !.step = "storing", !.item = NewItem(owner, provider, material)]
  <2>1. next.step = "storing" BY DEF NoCall
  <2>2. Goes(d, next) BY <1>5 DEF BeginPut
  <2>. HIDE DEF next
  <2>. QED BY <1>2, <2>1, <2>2
<1>6. NoCall.step = "idle" BY DEF NoCall
<1>7. ASSUME NEW d \in Callers, Goes(d, NoCall) PROVE Held BY <1>2, <1>6, <1>7
<1>. HIDE DEF Held, LoadedNow
<1>8. Held \/ LoadedNow
  BY StepsOfVault, <1>1, <1>3, <1>4, <1>5, <1>7
  DEF CallerSteps, StoreKey, SaveRevoked, Ends, Replicate, vaultVars
<1>. QED BY <1>8 DEF Held, LoadedNow

LEMMA CopiesStep == ASSUME VaultInv, Next PROVE EveryCopyIsEarlier'
<1>. USE DEF VaultInv
<1>1. \A h \in Handles : Grows(h) BY TableGrows
<1>2. ASSUME NEW h \in Handles, (replica[h])' # None PROVE EarlierVersion(replica[h], h)'
  <2>1. CASE replica'[h] = table'[h] BY <1>2, <2>1 DEF EarlierVersion
  <2>2. CASE replica'[h] = replica[h]
    BY <1>1, <1>2, <2>2 DEF EveryCopyIsEarlier, EarlierVersion, Grows
  <2>. QED BY <2>1, <2>2, ReplicaStep
<1>3. ASSUME NEW c \in Callers, (call[c].step)' \notin {"idle", "storing"}
      PROVE  EarlierVersion(call[c].item, call[c].handle)'
  <2>1. CASE /\ call[c].step \notin {"idle", "storing"}
             /\ call'[c].item = call[c].item /\ call'[c].handle = call[c].handle
    <3>1. call[c].handle \in Handles BY <2>1 DEF VaultTypeOK, InHand
    <3>2. EarlierVersion(call[c].item, call[c].handle) BY <2>1 DEF EveryCopyIsEarlier
    <3>. QED BY <1>1, <2>1, <3>1, <3>2 DEF EarlierVersion, Grows
  <2>2. CASE /\ call'[c].handle \in Handles /\ call'[c].item # None
             /\ \/ call'[c].item = table[call'[c].handle]
                \/ call'[c].item = replica[call'[c].handle]
             /\ UNCHANGED table
    <3>1. EarlierVersion(call'[c].item, call'[c].handle)
      BY <2>2 DEF EveryCopyIsEarlier, EarlierVersion
    <3>. QED BY <2>2, <3>1 DEF EarlierVersion
  <2>. QED BY <1>3, <2>1, <2>2, CallStep
<1>. QED BY <1>2, <1>3 DEF EveryCopyIsEarlier

-----------------------------------------------------------------------------
(* Flags. *)

\* What is loaded once a revocation has settled is revoked.
LEMMA SettledIsRevoked ==
  ASSUME NEW h \in Handles, NEW item \in Loaded(h), Settled(h) PROVE item.revoked
BY DEF Settled, IsRevoked, Loaded

LEMMA FlagsStep == ASSUME VaultInv, Next PROVE FlagsAreRight'
<1>. USE DEF VaultInv
<1>. DEFINE Right(k) == /\ k.step = "storing" => ~k.item.revoked
                        /\ k.settled => k.step \in {"revoking", "described"} /\ k.item.revoked
<1>1. \A c \in Callers : Right(call[c]) BY DEF FlagsAreRight
<1>2. ASSUME NEW d \in Callers, NEW next, Goes(d, next), Right(next)
      PROVE  \A c \in Callers : Right(call'[c])
  BY <1>1, <1>2, GoesOn
<1>3. Right(NoCall) BY DEF NoCall
<1>4. ASSUME NEW d \in Callers, NEW h \in Handles, NEW step \in ReadSteps, Reads(d, h, step)
      PROVE  \A c \in Callers : Right(call'[c])
  <2>1. PICK item \in Loaded(h) \ {None} :
          /\ step = "decrypting" => ~item.revoked
          /\ Goes(d, Begun(step, h, item))
    BY <1>4 DEF Reads
  <2>2. Settled(h) => item.revoked BY SettledIsRevoked
  <2>3. Right(Begun(step, h, item)) BY <2>1, <2>2 DEF Begun, ReadSteps
  <2>. QED BY <1>2, <2>1, <2>3
<1>5. ASSUME NEW d \in Callers, DecryptKey(d) PROVE \A c \in Callers : Right(call'[c])
  <2>. DEFINE next == [call[d] EXCEPT !.step = "keyed"]
  <2>1. call[d] \in Call BY DEF VaultTypeOK
  <2>2. next.step = "keyed" /\ next.settled = call[d].settled BY <2>1 DEF Call
  <2>3. ~call[d].settled BY <1>1, <1>5 DEF DecryptKey
  <2>4. Goes(d, next) BY <1>5 DEF DecryptKey
  <2>. HIDE DEF next
  <2>. QED BY <1>2, <2>2, <2>3, <2>4
<1>6. ASSUME NEW d \in Callers, NEW owner \in Owners, NEW provider \in Providers,
             NEW material \in Secrets, BeginPut(d, owner, provider, material)
      PROVE  \A c \in Callers : Right(call'[c])
  <2>. DEFINE item == NewItem(owner, provider, material)
              next == [NoCall EXCEPT !.step = "storing", !.item = item]
  <2>1. ~item.revoked BY NewItemType
  <2>2. Goes(d, next) BY <1>6 DEF BeginPut, item
  <2>. HIDE DEF item
  <2>3. next.item = item /\ ~next.settled /\ next.step = "storing" BY DEF NoCall
  <2>. HIDE DEF next
  <2>. QED BY <1>2, <2>1, <2>2, <2>3
<1>7. ASSUME UNCHANGED call PROVE \A c \in Callers : Right(call'[c]) BY <1>1, <1>7
<1>8. ASSUME NEW d \in Callers, Goes(d, NoCall) PROVE \A c \in Callers : Right(call'[c])
  BY <1>2, <1>3, <1>8
<1>. HIDE DEF Right
<1>9. \A c \in Callers : Right(call'[c])
  BY StepsOfVault, <1>4, <1>5, <1>6, <1>7, <1>8
  DEF CallerSteps, StoreKey, SaveRevoked, Ends, Replicate, vaultVars
<1>. QED BY <1>9 DEF FlagsAreRight, Right

-----------------------------------------------------------------------------
(* Turns. *)

LEMMA IdleTurn == ASSUME NEW k PROVE TurnOK(k, NoTurn)
BY DEF TurnOK, NoTurn

\* A caller without a decrypted key has no turn: its call may go on as it likes.
LEMMA NoTurnWithoutKey ==
  ASSUME TypeOK, NEW d \in Callers, NEW next, Goes(d, next), UNCHANGED turn,
         call[d].step # "keyed"
  PROVE  DOMAIN turn' = Callers /\ \A c \in Callers : TurnOK(call'[c], turn'[c])
<1>1. /\ call'[d] = next /\ \A c \in Callers : c # d => call'[c] = call[c]
  BY GoesOn DEF TypeOK
<1>2. turn[d].at = "none" BY DEF TypeOK, TurnOK
<1>. QED BY <1>1, <1>2 DEF TypeOK, TurnOK

\* A turn that goes on, or ends with its call.
LEMMA TurnGoesOn ==
  ASSUME TypeOK, NEW d \in Callers, NEW t, turn' = [turn EXCEPT ![d] = t],
         \A c \in Callers : c # d => call'[c] = call[c], TurnOK(call'[d], t)
  PROVE  DOMAIN turn' = Callers /\ \A c \in Callers : TurnOK(call'[c], turn'[c])
<1>1. DOMAIN turn' = Callers /\ turn'[d] = t /\ \A c \in Callers : c # d => turn'[c] = turn[c]
  BY DEF TypeOK
<1>. QED BY <1>1 DEF TypeOK

LEMMA TurnsStep ==
  ASSUME VaultInv, TypeOK, Next
  PROVE  DOMAIN turn' = Callers /\ \A c \in Callers : TurnOK(call'[c], turn'[c])
<1>. DEFINE Fine == DOMAIN turn' = Callers /\ \A c \in Callers : TurnOK(call'[c], turn'[c])
<1>1. ASSUME NEW d \in Callers, VaultStep(d), UNCHANGED turn PROVE Fine
  <2>1. call[d].step # "keyed" /\ \E next : Goes(d, next)
    BY <1>1 DEF VaultStep, BeginPut, StoreKey, LoadForRevoke, Describe, SaveRevoked,
                EndDescribe, Idle
  <2>. QED BY <1>1, <2>1, NoTurnWithoutKey
<1>2. ASSUME NEW d \in Callers, DecryptKey(d) \/ \E h \in Handles : LoadKey(d, h),
             UNCHANGED turn
      PROVE  Fine
  <2>1. call[d].step # "keyed" /\ \E next : Goes(d, next)
    BY <1>2 DEF LoadKey, DecryptKey, Idle
  <2>. QED BY <1>2, <2>1, NoTurnWithoutKey
<1>3. ASSUME NEW d \in Callers, NEW provider \in Providers, NEW baseUrl \in BaseUrls,
             Ask(d, provider, baseUrl)
      PROVE  Fine
  <2>. DEFINE request == BuildRequest(provider, baseUrl, KeyHeld(d))
  <2>1. KeyHeld(d) \in Secrets
    BY <1>3 DEF Ask, KeyHeld, Decrypt, TypeOK, VaultTypeOK, InHand, Item, Ciphertext
  <2>2. TurnOK(call[d], request)
    BY <1>3, <2>1 DEF Ask, CanBuild, BuildRequest, TurnOK
  <2>3. turn' = [turn EXCEPT ![d] = request] /\ call' = call BY <1>3 DEF Ask
  <2>. HIDE DEF request
  <2>. QED BY <2>2, <2>3, TurnGoesOn
<1>4. ASSUME NEW d \in Callers, NEW reply \in Replies, Answer(d, reply) PROVE Fine
  <2>1. PICK t : t.at = "decided" /\ turn' = [turn EXCEPT ![d] = t]
    BY <1>4 DEF Answer
  <2>2. call' = call /\ turn[d].at = "asking" BY <1>4 DEF Answer
  <2>3. TurnOK(call'[d], t) BY <2>1, <2>2 DEF TypeOK, TurnOK
  <2>. QED BY <2>1, <2>2, <2>3, TurnGoesOn
<1>5. ASSUME NEW d \in Callers, Goes(d, NoCall), turn' = [turn EXCEPT ![d] = NoTurn]
      PROVE  Fine
  <2>1. \A c \in Callers : c # d => call'[c] = call[c] BY <1>5, GoesOn DEF TypeOK
  <2>. QED BY <1>5, <2>1, IdleTurn, TurnGoesOn
<1>6. ASSUME UNCHANGED <<call, turn>> PROVE Fine BY <1>6 DEF TypeOK
<1>. HIDE DEF Fine
<1>7. ASSUME NEW d \in Callers, TurnStep(d) \/ Abort(d) PROVE Fine
  BY <1>2, <1>3, <1>4, <1>5, <1>7 DEF TurnStep, FailTurn, EndTurn, Abort, Die
<1>8. Fine BY <1>1, <1>6, <1>7 DEF Next, Replicate
<1>. QED BY <1>8 DEF Fine

-----------------------------------------------------------------------------
(* What is kept of a reply. *)

LEMMA LeastElement ==
  ASSUME NEW S \in SUBSET Nat, S # {}
  PROVE  \E k \in S : \A j \in S : k <= j
<1>1. PICK k \in S : \A j \in S : ~(<<j, k>> \in OpToRel(<, Nat))
  BY NatLessThanWellFounded, WFMin
<1>2. ASSUME NEW j \in S, j < k PROVE FALSE
  <2>1. <<j, k>> \in Nat \X Nat /\ <<j, k>>[1] < <<j, k>>[2] BY <1>2
  <2>2. <<j, k>> \in {p \in Nat \X Nat : p[1] < p[2]} BY <2>1, Zenon
  <2>. QED BY <1>1, <2>2, Zenon DEF OpToRel
<1>. QED BY <1>2

\* The N elements of part are drawn from the first n of source, in their order.
Drawn(part, N, source, n) ==
  \E place \in [1..N -> 1..n] :
    /\ \A j, k \in 1..N : j < k => place[j] < place[k]
    /\ \A k \in 1..N : part[k] = source[place[k]]

LEMMA DrawnLater ==
  ASSUME NEW part, NEW N \in Nat, NEW source, NEW n \in Nat, Drawn(part, N, source, n)
  PROVE  Drawn(part, N, source, n + 1)
<1>1. PICK place \in [1..N -> 1..n] :
        /\ \A j, k \in 1..N : j < k => place[j] < place[k]
        /\ \A k \in 1..N : part[k] = source[place[k]]
  BY DEF Drawn
<1>2. place \in [1..N -> 1..(n + 1)] OBVIOUS
<1>. QED BY <1>1, <1>2 DEF Drawn

LEMMA DrawnNext ==
  ASSUME NEW part, NEW N \in Nat, NEW source, NEW n \in Nat, Drawn(part, N, source, n),
         NEW more, more[N + 1] = source[n + 1], \A k \in 1..N : more[k] = part[k]
  PROVE  Drawn(more, N + 1, source, n + 1)
<1>1. PICK place \in [1..N -> 1..n] :
        /\ \A j, k \in 1..N : j < k => place[j] < place[k]
        /\ \A k \in 1..N : part[k] = source[place[k]]
  BY DEF Drawn
<1>. DEFINE next == [k \in 1..(N + 1) |-> IF k = N + 1 THEN n + 1 ELSE place[k]]
<1>2. next \in [1..(N + 1) -> 1..(n + 1)] OBVIOUS
<1>3. /\ next[N + 1] = n + 1
      /\ \A k \in 1..N : k \in 1..(N + 1) /\ next[k] = place[k] /\ place[k] \in 1..n
  OBVIOUS
<1>. HIDE DEF next
<1>4. \A k \in 1..(N + 1) : k = N + 1 \/ k \in 1..N OBVIOUS
<1>5. ASSUME NEW j \in 1..(N + 1), NEW k \in 1..(N + 1), j < k PROVE next[j] < next[k]
  <2>1. j \in 1..N BY <1>5
  <2>2. CASE k = N + 1 BY <1>3, <2>1, <2>2
  <2>3. CASE k \in 1..N BY <1>1, <1>3, <1>5, <2>1, <2>3
  <2>. QED BY <1>4, <2>2, <2>3
<1>6. \A k \in 1..(N + 1) : more[k] = source[next[k]] BY <1>1, <1>3, <1>4
<1>. QED BY <1>2, <1>5, <1>6, Zenon DEF Drawn

Reasons == {"malformed", "unknown unit", "not legal"}
Drops == [order : Proposals, reason : Reasons]
Decision == [orders : Seq(Proposals), dropped : Seq(Drops)]

\* The orders that a list of drops tells of.
Told(dropped) == [k \in DOMAIN dropped |-> dropped[k].order]

\* The decision d is the split of the first n proposals.
Splits(proposed, n, d) ==
  /\ d \in Decision
  /\ Len(d.orders) + Len(d.dropped) = n
  /\ \A k \in 1..Len(d.orders) : Keeps(d.orders[k])
  /\ \A k \in 1..Len(d.dropped) : ~Keeps(d.dropped[k].order)
  /\ Drawn(d.orders, Len(d.orders), proposed, n)
  /\ Drawn(Told(d.dropped), Len(d.dropped), proposed, n)

LEMMA SumGrows ==
  ASSUME NEW a \in Nat, NEW b \in Nat, NEW n \in Nat, a + b = n
  PROVE  (a + 1) + b = n + 1 /\ a + (b + 1) = n + 1
OBVIOUS

LEMMA ValidatedSplits ==
  ASSUME NEW proposed, NEW n \in Nat, NEW d, Splits(proposed, n, d),
         proposed[n + 1] \in Proposals
  PROVE  Splits(proposed, n + 1, Validated(d, proposed[n + 1]))
<1>. DEFINE order == proposed[n + 1]
            drop == [order |-> order, reason |-> Reason(order)]
<1>1. /\ d \in Decision /\ d.orders \in Seq(Proposals) /\ d.dropped \in Seq(Drops)
      /\ Len(d.orders) \in Nat /\ Len(d.dropped) \in Nat
      /\ Len(d.orders) + Len(d.dropped) = n
      /\ \A k \in 1..Len(d.orders) : Keeps(d.orders[k])
      /\ \A k \in 1..Len(d.dropped) : ~Keeps(d.dropped[k].order)
      /\ Drawn(d.orders, Len(d.orders), proposed, n)
      /\ Drawn(Told(d.dropped), Len(d.dropped), proposed, n)
  BY DEF Splits, Decision
<1>2. order \in Proposals OBVIOUS
<1>3. drop \in Drops /\ drop.order = order BY <1>2 DEF Drops, Reasons, Reason
<1>. HIDE DEF order, drop
<1>4. CASE Keeps(order)
  <2>. DEFINE kept == Append(d.orders, order)
              next == [d EXCEPT !.orders = kept]
  <2>1. /\ kept \in Seq(Proposals) /\ Len(kept) = Len(d.orders) + 1
        /\ kept[Len(d.orders) + 1] = order
        /\ \A k \in 1..Len(d.orders) : kept[k] = d.orders[k]
    BY <1>1, <1>2
  <2>. HIDE DEF kept
  <2>2. next \in Decision /\ next.orders = kept /\ next.dropped = d.dropped
    BY <1>1, <2>1 DEF Decision
  <2>3. Validated(d, order) = next BY <1>4 DEF Validated, kept
  <2>. HIDE DEF next
  <2>4. Drawn(kept, Len(d.orders) + 1, proposed, n + 1)
    <3>1. kept[Len(d.orders) + 1] = proposed[n + 1] BY <2>1 DEF order
    <3>. QED BY <1>1, <2>1, <3>1, DrawnNext
  <2>5. Drawn(Told(d.dropped), Len(d.dropped), proposed, n + 1) BY <1>1, DrawnLater
  <2>6. \A k \in 1..Len(kept) : Keeps(kept[k])
    <3>1. \A k \in 1..Len(kept) : k = Len(d.orders) + 1 \/ k \in 1..Len(d.orders)
      BY <1>1, <2>1
    <3>. QED BY <1>1, <1>4, <2>1, <3>1
  <2>7. Len(next.orders) + Len(next.dropped) = n + 1
    <3>1. Len(next.orders) = Len(d.orders) + 1 BY <2>1, <2>2
    <3>2. Len(next.dropped) = Len(d.dropped) BY <2>2
    <3>3. /\ Len(d.orders) \in Nat /\ Len(d.dropped) \in Nat
          /\ Len(d.orders) + Len(d.dropped) = n
      BY <1>1
    <3>4. (Len(d.orders) + 1) + Len(d.dropped) = n + 1 BY <3>3, SumGrows
    <3>. QED BY <3>1, <3>2, <3>4, Zenon
  <2>8. Splits(proposed, n + 1, next)
    BY <1>1, <2>1, <2>2, <2>4, <2>5, <2>6, <2>7 DEF Splits
  <2>. QED BY <2>3, <2>8 DEF order
<1>5. CASE ~Keeps(order)
  <2>. DEFINE refused == Append(d.dropped, drop)
              next == [d EXCEPT !.dropped = refused]
  <2>1. /\ refused \in Seq(Drops) /\ Len(refused) = Len(d.dropped) + 1
        /\ refused[Len(d.dropped) + 1] = drop
        /\ \A k \in 1..Len(d.dropped) : refused[k] = d.dropped[k]
    BY <1>1, <1>3
  <2>2. next = [d EXCEPT !.dropped = Append(@, drop)] BY <1>1 DEF Decision
  <2>. HIDE DEF refused
  <2>3. next \in Decision /\ next.dropped = refused /\ next.orders = d.orders
    BY <1>1, <2>1 DEF Decision
  <2>4. Validated(d, order) = next BY <1>5, <2>2 DEF Validated, drop
  <2>. HIDE DEF next
  <2>5. /\ Told(refused)[Len(d.dropped) + 1] = order
        /\ \A k \in 1..Len(d.dropped) : Told(refused)[k] = Told(d.dropped)[k]
    <3>1. /\ DOMAIN refused = 1..(Len(d.dropped) + 1)
          /\ DOMAIN d.dropped = 1..Len(d.dropped)
      BY <1>1, <2>1
    <3>2. Len(d.dropped) + 1 \in DOMAIN refused
          /\ \A k \in 1..Len(d.dropped) : k \in DOMAIN refused /\ k \in DOMAIN d.dropped
      BY <1>1, <3>1
    <3>. QED BY <1>3, <2>1, <3>2 DEF Told
  <2>6. Drawn(Told(refused), Len(d.dropped) + 1, proposed, n + 1)
    <3>1. Told(refused)[Len(d.dropped) + 1] = proposed[n + 1] BY <2>5 DEF order
    <3>. QED BY <1>1, <2>5, <3>1, DrawnNext
  <2>7. Drawn(d.orders, Len(d.orders), proposed, n + 1) BY <1>1, DrawnLater
  <2>8. \A k \in 1..Len(refused) : ~Keeps(refused[k].order)
    <3>1. \A k \in 1..Len(refused) : k = Len(d.dropped) + 1 \/ k \in 1..Len(d.dropped)
      BY <1>1, <2>1
    <3>. QED BY <1>1, <1>3, <1>5, <2>1, <3>1
  <2>9. Len(next.orders) + Len(next.dropped) = n + 1
    <3>1. Len(next.dropped) = Len(d.dropped) + 1 BY <2>1, <2>3
    <3>2. Len(next.orders) = Len(d.orders) BY <2>3
    <3>3. /\ Len(d.orders) \in Nat /\ Len(d.dropped) \in Nat
          /\ Len(d.orders) + Len(d.dropped) = n
      BY <1>1
    <3>4. Len(d.orders) + (Len(d.dropped) + 1) = n + 1 BY <3>3, SumGrows
    <3>. QED BY <3>1, <3>2, <3>4, Zenon
  <2>10. Splits(proposed, n + 1, next)
    BY <1>1, <2>1, <2>3, <2>6, <2>7, <2>8, <2>9 DEF Splits
  <2>. QED BY <2>4, <2>10 DEF order
<1>. QED BY <1>4, <1>5

NoneYet == [orders |-> << >>, dropped |-> << >>]

LEMMA NothingSplits == ASSUME NEW proposed PROVE Splits(proposed, 0, NoneYet)
<1>1. NoneYet \in Decision /\ NoneYet.orders = << >> /\ NoneYet.dropped = << >>
  BY DEF NoneYet, Decision
<1>2. Len(<< >>) = 0 /\ \A k : k \notin 1..0 OBVIOUS
<1>3. ASSUME NEW part PROVE Drawn(part, 0, proposed, 0)
  <2>1. [k \in 1..0 |-> 0] \in [1..0 -> 1..0] BY <1>2, Zenon
  <2>. QED BY <1>2, <2>1, Zenon DEF Drawn
<1>4. Len(<< >>) + Len(<< >>) = 0 BY <1>2
<1>. QED BY <1>1, <1>2, <1>3, <1>4 DEF Splits

\* The passes of the loop of _validate_orders, up to the N-th.
Passes(proposed, N, s) ==
  s = [n \in 0..N |-> IF n = 0 THEN NoneYet ELSE Validated(s[n - 1], proposed[n])]

LEMMA PassesExtend ==
  ASSUME NEW proposed, NEW N \in Nat, NEW s, Passes(proposed, N, s)
  PROVE  \E t : Passes(proposed, N + 1, t)
<1>. DEFINE next == Validated(s[N], proposed[N + 1])
            t == [n \in 0..(N + 1) |-> IF n = N + 1 THEN next ELSE s[n]]
<1>1. \A n \in 0..N : t[n] = s[n] OBVIOUS
<1>2. t[N + 1] = next OBVIOUS
<1>3. ASSUME NEW n \in 0..(N + 1)
      PROVE  t[n] = IF n = 0 THEN NoneYet ELSE Validated(t[n - 1], proposed[n])
  <2>1. CASE n = N + 1
    <3>1. t[n - 1] = s[N] /\ n # 0 BY <1>1, <2>1
    <3>. QED BY <1>2, <2>1, <3>1
  <2>2. CASE n \in 1..N
    <3>1. t[n - 1] = s[n - 1] /\ t[n] = s[n] BY <1>1, <2>2
    <3>2. s[n] = Validated(s[n - 1], proposed[n]) BY <2>2 DEF Passes
    <3>. QED BY <2>2, <3>1, <3>2
  <2>3. CASE n = 0 BY <1>1, <2>3 DEF Passes
  <2>. QED BY <2>1, <2>2, <2>3
<1>4. t = [n \in 0..(N + 1) |-> t[n]] OBVIOUS
<1>. HIDE DEF t, next
<1>5. Passes(proposed, N + 1, t) BY <1>3, <1>4 DEF Passes
<1>. QED BY <1>5

LEMMA PassesExist ==
  ASSUME NEW proposed, NEW N \in Nat
  PROVE  \E s : Passes(proposed, N, s)
<1>. DEFINE Without == {n \in Nat : ~ \E s : Passes(proposed, n, s)}
<1>1. Without \in SUBSET Nat OBVIOUS
<1>2. ASSUME Without # {} PROVE FALSE
  <2>. HIDE DEF Without
  <2>1. PICK n \in Without : \A m \in Without : n <= m BY <1>1, <1>2, LeastElement
  <2>. USE DEF Without
  <2>2. n # 0
    <3>1. Passes(proposed, 0, [k \in 0..0 |-> NoneYet]) BY DEF Passes
    <3>. QED BY <2>1, <3>1
  <2>3. n - 1 \in Nat /\ n - 1 \notin Without BY <2>1, <2>2
  <2>4. PICK s : Passes(proposed, n - 1, s) BY <2>3
  <2>5. \E t : Passes(proposed, (n - 1) + 1, t) BY <2>3, <2>4, PassesExtend
  <2>6. (n - 1) + 1 = n BY <2>3
  <2>. QED BY <2>1, <2>5, <2>6
<1>. QED BY <1>2

\* The whole loop splits all proposals.
LEMMA DecideSplits ==
  ASSUME NEW object, Proposed(object) \in Seq(Proposals)
  PROVE  Splits(Proposed(object), Len(Proposed(object)), Decide(object))
<1>. DEFINE proposed == Proposed(object)
            N == Len(proposed)
            s == CHOOSE f : Passes(proposed, N, f)
<1>1. N \in Nat /\ \A n \in 1..N : proposed[n] \in Proposals OBVIOUS
<1>2. Passes(proposed, N, s) BY <1>1, PassesExist
<1>3. Decide(object) = s[N] BY Zenon DEF Decide, Passes, NoneYet
<1>. HIDE DEF proposed, N, s
<1>. DEFINE Astray == {n \in 0..N : ~Splits(proposed, n, s[n])}
<1>4. Astray \in SUBSET Nat BY <1>1
<1>5. ASSUME Astray # {} PROVE FALSE
  <2>. HIDE DEF Astray
  <2>1. PICK n \in Astray : \A m \in Astray : n <= m BY <1>4, <1>5, LeastElement
  <2>. USE DEF Astray
  <2>2. n # 0
    <3>1. s[0] = NoneYet BY <1>1, <1>2 DEF Passes
    <3>. QED BY <2>1, <3>1, NothingSplits
  <2>3. n - 1 \in 0..N /\ n - 1 \in Nat /\ Splits(proposed, n - 1, s[n - 1])
    BY <1>1, <2>1, <2>2
  <2>4. s[n] = Validated(s[n - 1], proposed[n]) BY <1>1, <1>2, <2>1, <2>2 DEF Passes
  <2>5. (n - 1) + 1 = n /\ proposed[n] \in Proposals BY <1>1, <2>1, <2>2
  <2>6. Splits(proposed, (n - 1) + 1, Validated(s[n - 1], proposed[(n - 1) + 1]))
    BY <2>3, <2>5, ValidatedSplits
  <2>. QED BY <2>1, <2>4, <2>5, <2>6
<1>6. N \in 0..N BY <1>1
<1>7. Splits(proposed, N, s[N]) BY <1>5, <1>6
<1>. QED BY <1>3, <1>7 DEF proposed, N

\* The first object of a reply has a list of proposals, or none.
LEMMA FirstObjectProposes ==
  ASSUME NEW reply \in Replies
  PROVE  Proposed(ExtractFirstObject(reply)) \in Seq(Proposals)
<1>. DEFINE Pieces == {Bare, Broken} \cup Objects
            found == {k \in DOMAIN reply : reply[k].parses}
<1>1. \A piece \in Pieces : Proposed(piece) \in Seq(Proposals)
  <2>1. Proposed(Bare) = << >> /\ Proposed(Broken) = << >>
    BY DEF Proposed, Bare, Broken, Object
  <2>2. ASSUME NEW piece \in Objects PROVE Proposed(piece) \in Seq(Proposals)
    <3>1. PICK orders \in UNION {[1..n -> Proposals] : n \in 0..MaxOrders} :
            piece = Object(orders)
      BY DEF Objects
    <3>2. PICK n \in 0..MaxOrders : orders \in [1..n -> Proposals] BY <3>1
    <3>3. n \in Nat BY TurnAssumption
    <3>4. orders \in Seq(Proposals) BY <3>2, <3>3
    <3>5. piece.orders = orders BY <3>1 DEF Object
    <3>. QED BY <3>4, <3>5 DEF Proposed
  <2>3. << >> \in Seq(Proposals) OBVIOUS
  <2>4. ASSUME NEW piece \in Pieces PROVE Proposed(piece) \in Seq(Proposals)
    <3>1. piece = Bare \/ piece = Broken \/ piece \in Objects OBVIOUS
    <3>. HIDE DEF Pieces
    <3>. QED BY <2>1, <2>2, <2>3, <3>1
  <2>. QED BY <2>4
<1>2. DOMAIN reply \subseteq {1, 2} /\ \A k \in DOMAIN reply : reply[k] \in Pieces
  BY DEF Replies
<1>. HIDE DEF Pieces
<1>3. CASE found = {}
  <2>1. ExtractFirstObject(reply) = Bare BY <1>3 DEF ExtractFirstObject
  <2>2. Bare \in Pieces BY DEF Pieces
  <2>. QED BY <1>1, <2>1, <2>2
<1>4. CASE found # {}
  <2>. DEFINE first == CHOOSE k \in found : \A j \in found : k <= j
  <2>1. found \in SUBSET Nat BY <1>2
  <2>2. \E k \in found : \A j \in found : k <= j
    <3>. HIDE DEF found
    <3>. QED BY <1>4, <2>1, LeastElement
  <2>3. first \in found
    <3>. HIDE DEF found
    <3>. QED BY <2>2
  <2>4. ExtractFirstObject(reply) = reply[first] BY <1>4 DEF ExtractFirstObject
  <2>. HIDE DEF first
  <2>. QED BY <1>1, <1>2, <2>3, <2>4
<1>. QED BY <1>3, <1>4

\* What a turn has asked for is answered in the format it was asked in, and what has
\* been decided is the split of the first object's proposals.
TurnRight(t) ==
  /\ t.at = "asking" => t.family = Registry[t.provider].family
  /\ t.at = "decided" =>
       /\ Proposed(t.reply) \in Seq(Proposals)
       /\ Splits(Proposed(t.reply), Len(Proposed(t.reply)), t.decision)

TurnsRight == DOMAIN turn = Callers /\ \A c \in Callers : TurnRight(turn[c])

LEMMA TurnsRightNext ==
  ASSUME TurnsRight, [Next]_vars
  PROVE  TurnsRight'
<1>1. ASSUME UNCHANGED turn PROVE TurnsRight' BY <1>1 DEF TurnsRight
<1>2. ASSUME NEW c \in Callers, NEW t, TurnRight(t), turn' = [turn EXCEPT ![c] = t]
      PROVE  TurnsRight'
  BY <1>2 DEF TurnsRight
<1>3. TurnRight(NoTurn) BY DEF TurnRight, NoTurn
<1>4. ASSUME NEW c \in Callers, NEW provider, NEW baseUrl, Ask(c, provider, baseUrl)
      PROVE  TurnsRight'
  <2>. DEFINE request == BuildRequest(provider, baseUrl, KeyHeld(c))
  <2>1. TurnRight(request) BY DEF TurnRight, BuildRequest
  <2>2. turn' = [turn EXCEPT ![c] = request] BY <1>4 DEF Ask
  <2>. HIDE DEF request
  <2>. QED BY <1>2, <2>1, <2>2
<1>5. ASSUME NEW c \in Callers, NEW reply \in Replies, Answer(c, reply) PROVE TurnsRight'
  <2>. DEFINE text == ParseResponse(turn[c].provider, Body(turn[c], reply))
              object == ExtractFirstObject(reply)
              t == [at |-> "decided", reply |-> object, decision |-> Decide(object)]
  <2>1. text = reply
    BY <1>5 DEF Answer, ParseResponse, Body, TurnsRight, TurnRight
  <2>2. turn' = [turn EXCEPT ![c] = [at |-> "decided", reply |-> object,
                               decision |-> Decide(ExtractFirstObject(text))]]
    BY <1>5 DEF Answer
  <2>. HIDE DEF text
  <2>3. turn' = [turn EXCEPT ![c] = t] BY <2>1, <2>2
  <2>4. Proposed(object) \in Seq(Proposals) BY FirstObjectProposes
  <2>. HIDE DEF object
  <2>5. TurnRight(t)
    <3>1. Splits(Proposed(object), Len(Proposed(object)), Decide(object)) BY <2>4, DecideSplits
    <3>2. t.at = "decided" /\ t.reply = object /\ t.decision = Decide(object) OBVIOUS
    <3>. HIDE DEF t
    <3>. QED BY <2>4, <3>1, <3>2 DEF TurnRight
  <2>. HIDE DEF t
  <2>. QED BY <1>2, <2>3, <2>5
<1>6. ASSUME NEW c \in Callers, FailTurn(c) \/ EndTurn(c) \/ Abort(c) PROVE TurnsRight'
  BY <1>2, <1>3, <1>6 DEF FailTurn, EndTurn, Abort
<1>. QED BY <1>1, <1>4, <1>5, <1>6 DEF Next, TurnStep, vars

-----------------------------------------------------------------------------
(* Theorems. *)

LEMMA VaultInitially == TurnInit => VaultInv
<1>1. ASSUME TurnInit PROVE VaultTypeOK
  BY <1>1, NoCallType DEF TurnInit, Init, VaultTypeOK
<1>2. ASSUME TurnInit PROVE EveryCopyIsEarlier /\ FlagsAreRight
  BY <1>2 DEF TurnInit, Init, NoCall, EveryCopyIsEarlier, FlagsAreRight
<1>. QED BY <1>1, <1>2 DEF VaultInv

\* A step, and a stutter.
LEMMA VaultInvStep == ASSUME VaultInv, [Next]_vars PROVE VaultInv'
<1>1. CASE Next BY <1>1, TypeStep, CopiesStep, FlagsStep DEF VaultInv
<1>2. CASE UNCHANGED vars
  BY <1>2 DEF vars, VaultInv, VaultTypeOK, EveryCopyIsEarlier, EarlierVersion, FlagsAreRight
<1>. QED BY <1>1, <1>2

THEOREM VaultInvHolds == Spec => []VaultInv
BY VaultInitially, VaultInvStep, PTL DEF Spec

\* What is stored and what a caller has in hand keep their types, whatever callers,
\* readers and deaths do (byok/aws_vault.py), and a hosted turn runs only with a key
\* it has decrypted (byok/runner.py).
THEOREM TurnTypeCorrect == Spec => []TypeOK
<1>1. TurnInit => TypeOK
  BY VaultInitially, IdleTurn DEF TurnInit, TypeOK, VaultInv
<1>2. ASSUME VaultInv, TypeOK, [Next]_vars PROVE TypeOK'
  <2>1. CASE Next BY <1>2, <2>1, TypeStep, TurnsStep DEF TypeOK
  <2>2. CASE UNCHANGED vars
    BY <1>2, <2>2 DEF vars, TypeOK, VaultTypeOK
  <2>. QED BY <1>2, <2>1, <2>2
<1>. QED BY <1>1, <1>2, VaultInvHolds, PTL DEF Spec

\* vault.py: revocation is permanent, and future get calls raise.  No hosted turn gets
\* a key whose revocation had reached every replica when it asked, and no description
\* calls it usable.
THEOREM RevokedKeysUnused == Spec => []RevokedKeyUnused
<1>1. VaultInv => RevokedKeyUnused
  BY DEF VaultInv, FlagsAreRight, RevokedKeyUnused
<1>. QED BY <1>1, VaultInvHolds, PTL

\* runner.py: anything that does not match a legal action exactly is dropped.  For any
\* legal actions and any number of proposals, the first object's orders are split in
\* two parts in their order, the legal ones to play and the others to report, whatever
\* provider carried the reply.
THEOREM RepliesAreSplit == Spec => []DecisionSplitsReply
<1>1. TurnInit => TurnsRight
  BY DEF TurnInit, TurnsRight, TurnRight, NoTurn
<1>2. TurnsRight /\ [Next]_vars => TurnsRight' BY TurnsRightNext
<1>3. ASSUME TurnsRight, NEW c \in Callers, turn[c].at = "decided"
      PROVE  LET proposed == Proposed(turn[c].reply)
                 kept     == turn[c].decision.orders
                 dropped  == turn[c].decision.dropped
                 Rising(part) == {place \in [DOMAIN part -> DOMAIN proposed] :
                                    \A j, k \in DOMAIN part : j < k => place[j] < place[k]}
             IN  /\ \E place \in Rising(kept) : \A k \in DOMAIN kept :
                      kept[k] = proposed[place[k]] /\ Keeps(kept[k])
                 /\ \E place \in Rising(dropped) : \A k \in DOMAIN dropped :
                      dropped[k].order = proposed[place[k]] /\ ~Keeps(dropped[k].order)
                 /\ Len(kept) + Len(dropped) = Len(proposed)
  <2>. DEFINE proposed == Proposed(turn[c].reply)
              kept     == turn[c].decision.orders
              dropped  == turn[c].decision.dropped
              Rising(part) == {place \in [DOMAIN part -> DOMAIN proposed] :
                                 \A j, k \in DOMAIN part : j < k => place[j] < place[k]}
  <2>1. proposed \in Seq(Proposals) /\ Splits(proposed, Len(proposed), turn[c].decision)
    BY <1>3 DEF TurnsRight, TurnRight
  <2>. HIDE DEF proposed
  <2>2. kept \in Seq(Proposals) /\ dropped \in Seq(Drops)
    BY <2>1 DEF Splits, Decision
  <2>3. /\ Len(kept) + Len(dropped) = Len(proposed)
        /\ \A k \in 1..Len(kept) : Keeps(kept[k])
        /\ \A k \in 1..Len(dropped) : ~Keeps(dropped[k].order)
        /\ Drawn(kept, Len(kept), proposed, Len(proposed))
        /\ Drawn(Told(dropped), Len(dropped), proposed, Len(proposed))
    BY <2>1 DEF Splits
  <2>. HIDE DEF kept, dropped
  <2>4. /\ DOMAIN kept = 1..Len(kept) /\ DOMAIN dropped = 1..Len(dropped)
        /\ DOMAIN proposed = 1..Len(proposed)
    BY <2>1, <2>2
  <2>5. PICK place \in [1..Len(kept) -> 1..Len(proposed)] :
          /\ \A j, k \in 1..Len(kept) : j < k => place[j] < place[k]
          /\ \A k \in 1..Len(kept) : kept[k] = proposed[place[k]]
    BY <2>3, Zenon DEF Drawn
  <2>6. PICK spot \in [1..Len(dropped) -> 1..Len(proposed)] :
          /\ \A j, k \in 1..Len(dropped) : j < k => spot[j] < spot[k]
          /\ \A k \in 1..Len(dropped) : Told(dropped)[k] = proposed[spot[k]]
    BY <2>3, Zenon DEF Drawn
  <2>7. place \in Rising(kept) /\ spot \in Rising(dropped)
    <3>1. /\ place \in [DOMAIN kept -> DOMAIN proposed]
          /\ spot \in [DOMAIN dropped -> DOMAIN proposed]
      BY <2>4
    <3>2. /\ \A j, k \in DOMAIN kept : j < k => place[j] < place[k]
          /\ \A j, k \in DOMAIN dropped : j < k => spot[j] < spot[k]
      BY <2>4, <2>5, <2>6
    <3>. QED BY <3>1, <3>2
  <2>8. \A k \in DOMAIN dropped : dropped[k].order = proposed[spot[k]]
    BY <2>4, <2>6 DEF Told
  <2>. HIDE DEF Rising
  <2>9. \E p \in Rising(kept) : \A k \in DOMAIN kept : kept[k] = proposed[p[k]] /\ Keeps(kept[k])
    BY <2>3, <2>4, <2>5, <2>7
  <2>10. \E p \in Rising(dropped) : \A k \in DOMAIN dropped :
           dropped[k].order = proposed[p[k]] /\ ~Keeps(dropped[k].order)
    BY <2>3, <2>4, <2>7, <2>8
  <2>. QED BY <2>3, <2>9, <2>10 DEF proposed, kept, dropped, Rising
<1>4. TurnsRight => DecisionSplitsReply BY <1>3 DEF DecisionSplitsReply, Keeps
<1>. QED BY <1>1, <1>2, <1>4, PTL DEF Spec

LEMMA StoredContents ==
  ASSUME VaultTypeOK, NEW h \in Handles, table[h] # None
  PROVE  /\ Contents[h] \in [owner : Owners, provider : Providers, material : Secrets,
                             revoked : BOOLEAN]
         /\ Contents[h] # None
BY VaultAssumption DEF Contents, VaultTypeOK, Item, Ciphertext, Decrypt

LEMMA RevokedEntry ==
  ASSUME NEW entry \in [owner : Owners, provider : Providers, material : Secrets,
                        revoked : BOOLEAN]
  PROVE  Vault!Revoked(entry)
           = [owner |-> entry.owner, provider |-> entry.provider,
              material |-> entry.material, revoked |-> TRUE]
<1>. DEFINE revoked == [entry EXCEPT !.revoked = TRUE]
            Fields == {"owner", "provider", "material", "revoked"}
<1>1. revoked = [k \in Fields |-> revoked[k]] OBVIOUS
<1>2. /\ revoked.owner = entry.owner /\ revoked.provider = entry.provider
      /\ revoked.material = entry.material /\ revoked.revoked = TRUE
  OBVIOUS
<1>. HIDE DEF revoked
<1>3. revoked = [owner |-> entry.owner, provider |-> entry.provider,
                 material |-> entry.material, revoked |-> TRUE]
  BY <1>1, <1>2
<1>. QED BY <1>3 DEF Vault!Revoked, revoked

\* A step of the vault is a put, a revocation or nothing to its users.
LEMMA VaultStepMaps == ASSUME VaultInv, Next PROVE [Vault!VaultNext]_Contents
<1>. USE DEF VaultInv
<1>1. ASSUME UNCHANGED table PROVE UNCHANGED Contents BY <1>1 DEF Contents
<1>2. ASSUME NEW c \in Callers, NEW h \in Handles, StoreKey(c, h) PROVE Vault!VaultNext
  <2>. DEFINE item == call[c].item
  <2>1. item \in Item /\ item # None /\ ~item.revoked
    BY <1>2, VaultAssumption DEF StoreKey, VaultTypeOK, InHand, FlagsAreRight
  <2>2. table' = [table EXCEPT ![h] = item] /\ table[h] = None
    BY <1>2 DEF StoreKey, Writes
  <2>. HIDE DEF item
  <2>3. /\ item.owner \in Owners /\ item.provider \in Providers
        /\ Decrypt(item.ciphertext) \in Secrets /\ item.revoked = FALSE
    BY <2>1 DEF Item, Ciphertext, Decrypt
  <2>4. Contents[h] = None BY <2>2 DEF Contents
  <2>5. Contents' = [Contents EXCEPT
          ![h] = Vault!NewEntry(item.owner, item.provider, Decrypt(item.ciphertext))]
    BY <2>1, <2>2, <2>3 DEF Contents, Vault!NewEntry, VaultTypeOK
  <2>6. Vault!Put(h, item.owner, item.provider, Decrypt(item.ciphertext))
    BY <2>4, <2>5 DEF Vault!Put
  <2>. QED BY <2>3, <2>6 DEF Vault!VaultNext
<1>3. ASSUME NEW c \in Callers, SaveRevoked(c) PROVE Vault!VaultNext
  <2>. DEFINE h == call[c].handle
              item == call[c].item
              revoked == [item EXCEPT !.revoked = TRUE]
  <2>1. h \in Handles /\ item \in Item /\ EarlierVersion(item, h)
    BY <1>3 DEF SaveRevoked, VaultTypeOK, InHand, EveryCopyIsEarlier
  <2>2. table' = [table EXCEPT ![h] = revoked] BY <1>3 DEF SaveRevoked, Writes
  <2>3. /\ revoked # None /\ revoked.revoked = TRUE /\ revoked.owner = item.owner
        /\ revoked.provider = item.provider /\ revoked.ciphertext = item.ciphertext
    BY <2>1, RevokedItem DEF Item
  <2>. HIDE DEF h, item, revoked
  <2>4. Contents[h] # None BY <2>1, StoredContents DEF EarlierVersion
  <2>. DEFINE flagged == [owner |-> table[h].owner, provider |-> table[h].provider,
                          material |-> Decrypt(table[h].ciphertext), revoked |-> TRUE]
  <2>5. Contents' = [Contents EXCEPT ![h] = flagged]
    BY <2>1, <2>2, <2>3 DEF Contents, EarlierVersion, VaultTypeOK
  <2>6. /\ Contents[h].owner = table[h].owner /\ Contents[h].provider = table[h].provider
        /\ Contents[h].material = Decrypt(table[h].ciphertext)
    BY <2>1 DEF Contents, EarlierVersion
  <2>7. Vault!Revoked(Contents[h]) = flagged
    <3>1. Contents[h] \in [owner : Owners, provider : Providers, material : Secrets,
                           revoked : BOOLEAN]
      BY <2>1, StoredContents DEF EarlierVersion
    <3>. QED BY <2>6, <3>1, RevokedEntry
  <2>. HIDE DEF flagged
  <2>8. Contents' = [Contents EXCEPT ![h] = Vault!Revoked(@)] BY <2>5, <2>7
  <2>. QED BY <2>1, <2>4, <2>8 DEF Vault!VaultNext, Vault!Revoke
<1>. QED
  BY StepsOfVault, <1>1, <1>2, <1>3
  DEF CallerSteps, BeginPut, Reads, DecryptKey, Ends, Replicate, vaultVars

\* The DynamoDB vault keeps the promise of InMemoryKeyVault (byok/vault.py): a handle
\* stands for one key of one owner from its put on, is usable until its revocation, and
\* never again.
THEOREM VaultKeepsContract == Spec => KeepsVaultContract
<1>1. TurnInit => Vault!VaultInit
  BY DEF TurnInit, Init, Contents, Vault!VaultInit
<1>2. VaultInv /\ [Next]_vars => [Vault!VaultNext]_Contents
  <2>1. ASSUME UNCHANGED vars PROVE UNCHANGED Contents BY <2>1 DEF vars, Contents
  <2>. QED BY <2>1, VaultStepMaps
<1>. QED
  BY <1>1, <1>2, VaultInvHolds, PTL DEF Spec, KeepsVaultContract, Vault!VaultSpec
=============================================================================
