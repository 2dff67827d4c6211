------------------------------ MODULE KeyVault ------------------------------
(***************************************************************************)
(* league_site.byok.aws_vault.KMSDynamoDBKeyVault under concurrent callers.*)
(*                                                                         *)
(*   put       encrypt with KMS, then put_item under a fresh handle        *)
(*   get       get_item, then decrypt with KMS                             *)
(*   revoke    get_item, then put_item of the whole item, flag set         *)
(*   describe  get_item                                                    *)
(*                                                                         *)
(* Other callers run between any two of these calls, a caller may die      *)
(* between them, and get_item is eventually consistent: it may return the  *)
(* item as it was before its last write.                                   *)
(***************************************************************************)
CONSTANTS Handles,      \* the handles put can return
          Owners,       \* platform identities
          Providers,    \* provider names a key can be stored for
          Secrets,      \* key materials
          Callers,      \* concurrent requests
          LaggingReads, \* TRUE: get_item may miss the last write of the item
          None

VARIABLES
  table,    \* table[h]: item BYOK#h, None when there is none
  replica,  \* replica[h]: the item a lagging get_item may still return
  call      \* call[c]: what caller c is in the middle of

vaultVars == <<table, replica, call>>

Ciphertext == [sealed : Secrets]
Encrypt(material) == [sealed |-> material]
Decrypt(blob) == blob.sealed

Item == [owner : Owners, provider : Providers, ciphertext : Ciphertext, revoked : BOOLEAN]

ASSUME VaultAssumption ==
  /\ LaggingReads \in BOOLEAN
  /\ None \notin Handles /\ None \notin Item
  /\ None \notin [owner : Owners, provider : Providers, material : Secrets, revoked : BOOLEAN]

NewItem(owner, provider, material) ==
  [owner |-> owner, provider |-> provider, ciphertext |-> Encrypt(material), revoked |-> FALSE]

\* settled: the handle's revocation had reached every replica as the call began.
NoCall == [step |-> "idle", handle |-> None, item |-> None, settled |-> FALSE]

Idle(c) == call[c].step = "idle"
Goes(c, next) == call' = [call EXCEPT ![c] = next]

Init ==
  /\ table = [h \in Handles |-> None]
  /\ replica = [h \in Handles |-> None]
  /\ call = [c \in Callers |-> NoCall]

\* _load_item: the versions of the item a get_item may return.
Loaded(h) == IF LaggingReads THEN {table[h], replica[h]} ELSE {table[h]}

Writes(h, item) ==
  /\ table' = [table EXCEPT ![h] = item]
  /\ replica' = IF LaggingReads THEN replica ELSE table'

IsRevoked(item) == item # None /\ item.revoked
Settled(h) == IsRevoked(table[h]) /\ IsRevoked(replica[h])

Begun(step, h, item) ==
  [step |-> step, handle |-> h, item |-> item, settled |-> Settled(h)]

-----------------------------------------------------------------------------

\* put, first call: the material leaves the process only to be encrypted.
BeginPut(c, owner, provider, material) ==
  /\ Idle(c)
  /\ Goes(c, [NoCall EXCEPT !.step = "storing", !.item = NewItem(owner, provider, material)])
  /\ UNCHANGED <<table, replica>>

\* put, second call, under a handle nobody has.
StoreKey(c, h) ==
  /\ call[c].step = "storing"
  /\ table[h] = None
  /\ Writes(h, call[c].item)
  /\ Goes(c, NoCall)

\* Faulty variant: a key revoked already is not told from one in use.
LoadKeyEvenRevoked(c, h) ==
  /\ Idle(c)
  /\ \E item \in Loaded(h) \ {None} : Goes(c, Begun("decrypting", h, item))
  /\ UNCHANGED <<table, replica>>

\* get, first call: an item absent or revoked, as far as the read sees it, raises
\* KeyNotFoundError and changes nothing.
LoadKey(c, h) ==
  /\ Idle(c)
  /\ \E item \in Loaded(h) \ {None} :
       /\ ~item.revoked
       /\ Goes(c, Begun("decrypting", h, item))
  /\ UNCHANGED <<table, replica>>

\* get, second call: the caller holds the key from here on.
DecryptKey(c) ==
  /\ call[c].step = "decrypting"
  /\ Goes(c, [call[c] EXCEPT !.step = "keyed"])
  /\ UNCHANGED <<table, replica>>

KeyHeld(c) == Decrypt(call[c].item.ciphertext)

\* revoke, first call; an absent item raises KeyNotFoundError.
LoadForRevoke(c, h) ==
  /\ Idle(c)
  /\ \E item \in Loaded(h) \ {None} : Goes(c, Begun("revoking", h, item))
  /\ UNCHANGED <<table, replica>>

\* Faulty variant: the flag is flipped instead of set.
SaveRevokedFlipped(c) ==
  /\ call[c].step = "revoking"
  /\ Writes(call[c].handle, [call[c].item EXCEPT !.revoked = ~@])
  /\ Goes(c, NoCall)

\* revoke, second call: an unconditional put of the item loaded.
SaveRevoked(c) ==
  /\ call[c].step = "revoking"
  /\ Writes(call[c].handle, [call[c].item EXCEPT !.revoked = TRUE])
  /\ Goes(c, NoCall)

Describe(c, h) ==
  /\ Idle(c)
  /\ \E item \in Loaded(h) \ {None} : Goes(c, Begun("described", h, item))
  /\ UNCHANGED <<table, replica>>

EndDescribe(c) ==
  /\ call[c].step = "described"
  /\ Goes(c, NoCall)
  /\ UNCHANGED <<table, replica>>

\* The caller's process ends: with the key, if it held one.
Die(c) ==
  /\ ~Idle(c)
  /\ Goes(c, NoCall)
  /\ UNCHANGED <<table, replica>>

Replicate(h) ==
  /\ replica[h] # table[h]
  /\ replica' = [replica EXCEPT ![h] = table[h]]
  /\ UNCHANGED <<table, call>>

\* The operations that hold no key.
VaultStep(c) ==
  \/ \E owner \in Owners, provider \in Providers, material \in Secrets :
       BeginPut(c, owner, provider, material)
  \/ \E h \in Handles : StoreKey(c, h) \/ LoadForRevoke(c, h) \/ Describe(c, h)
  \/ SaveRevoked(c)
  \/ EndDescribe(c)

-----------------------------------------------------------------------------
(* Properties *)

Call == [step : {"idle", "storing", "decrypting", "keyed", "revoking", "described"},
         handle : Handles \cup {None}, item : Item \cup {None}, settled : BOOLEAN]

\* A call in hand holds an item, and the handle it was loaded under.
InHand(k) ==
  /\ k.step # "idle" => k.item \in Item
  /\ k.step \notin {"idle", "storing"} => k.handle \in Handles

VaultTypeOK ==
  /\ table \in [Handles -> Item \cup {None}]
  /\ replica \in [Handles -> Item \cup {None}]
  /\ call \in [Callers -> Call] /\ \A c \in Callers : InHand(call[c])

\* The item is a version of h's, and not a later one than the stored one.
EarlierVersion(item, h) ==
  /\ table[h] # None
  /\ item.owner = table[h].owner /\ item.provider = table[h].provider
  /\ item.ciphertext = table[h].ciphertext
  /\ item.revoked => table[h].revoked

EveryCopyIsEarlier ==
  /\ \A h \in Handles : replica[h] # None => EarlierVersion(replica[h], h)
  /\ \A c \in Callers :
       call[c].step \notin {"idle", "storing"} => EarlierVersion(call[c].item, call[c].handle)

\* What is stored, as the vault's users see it.
Contents ==
  [h \in Handles |->
     IF table[h] = None THEN None
     ELSE [owner |-> table[h].owner, provider |-> table[h].provider,
           material |-> Decrypt(table[h].ciphertext), revoked |-> table[h].revoked]]

\* The vault as its abstract promise: one step of it, or none, per DynamoDB call.
Vault == INSTANCE InMemoryKeyVault WITH entries <- Contents
KeepsVaultContract == Vault!VaultSpec
=============================================================================
