-------------------------- MODULE InMemoryKeyVault --------------------------
(***************************************************************************)
(* What league_site.byok.vault.KeyVault promises, as its reference store   *)
(* keeps it: every handle stands for one key of one owner, is usable from  *)
(* its put until its revocation, and is never usable again.                *)
(***************************************************************************)
CONSTANTS Handles,   \* the handles put can return
          Owners,    \* platform identities
          Providers, \* provider names a key can be stored for
          Secrets,   \* key materials
          None

VARIABLE entries     \* entries[h]: the _Entry of handle h, None when there is none

Entry ==
  [owner : Owners, provider : Providers, material : Secrets, revoked : BOOLEAN]

NewEntry(owner, provider, material) ==
  [owner |-> owner, provider |-> provider, material |-> material, revoked |-> FALSE]

\* get: the key, or KeyNotFoundError for a handle unknown or revoked.
KeyOf(entry) == IF entry = None \/ entry.revoked THEN None ELSE entry.material

\* describe: the metadata of any handle ever put, revoked or not.
InfoOf(entry) ==
  [owner |-> entry.owner, provider |-> entry.provider, revoked |-> entry.revoked]

VaultInit == entries = [h \in Handles |-> None]

\* put: the handle is a fresh uuid.
Put(h, owner, provider, material) ==
  /\ entries[h] = None
  /\ entries' = [entries EXCEPT ![h] = NewEntry(owner, provider, material)]

Revoked(entry) == [entry EXCEPT !.revoked = TRUE]

Revoke(h) ==
  /\ entries[h] # None
  /\ entries' = [entries EXCEPT ![h] = Revoked(@)]

VaultNext ==
  \E h \in Handles :
    \/ \E owner \in Owners, provider \in Providers, material \in Secrets :
         Put(h, owner, provider, material)
    \/ Revoke(h)

VaultSpec == VaultInit /\ [][VaultNext]_entries
=============================================================================
