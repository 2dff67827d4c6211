-------------------------- MODULE AgentTokensProofs --------------------------
(***************************************************************************)
(* That what an operator has shut off stays shut off, for any number of    *)
(* accounts, tokens and callers.                                           *)
(*                                                                         *)
(* The argument: every denial in force is written in the stores, as no     *)
(* other write touches its attribute; and both reads of verify look at the *)
(* stores themselves, the token's before the request is let in and the     *)
(* owner's after.                                                          *)
(*                                                                         *)
(* And, for mints that run one at a time, that names stay unique and the   *)
(* mint rate is capped: what the mint in hand has listed is still all that *)
(* the account has when it saves, except for what was shut off or has left *)
(* the window since.                                                       *)
(***************************************************************************)
EXTENDS AgentTokens, FiniteSetTheorems, TLAPS

\* The accounts acc, the tokens tok, their replica rep and the denials den agree.
StoresOK(acc, tok, rep, den) ==
  /\ acc \in [Accounts -> {"none", "open", "blocked"}]
  /\ tok \in [TokenIds -> TokenRecord \cup {None}]
  /\ rep \in [TokenIds -> TokenRecord \cup {None}]
  /\ den \subseteq Flags \X (TokenIds \cup Accounts)
  /\ \A t \in Legacy : tok[t] # None
  /\ \A t \in TokenIds : tok[t] # None =>
       /\ tok[t].owner = None <=> t \in Legacy
       /\ tok[t].owner # None => acc[tok[t].owner] # "none"
  /\ \A t \in TokenIds :
       /\ Denial("revoke", t) \in den => tok[t] # None /\ tok[t].revoked = TRUE
       /\ Denial("block", t) \in den => tok[t] # None /\ tok[t].blocked = TRUE
  /\ \A a \in Accounts : Denial("block", a) \in den => acc[a] = "blocked"

\* What a call k relies on.
CallInv(k, acc, tok, den, time) ==
  /\ k.created <= time
  /\ k.step \in {"admitted", "saving"} =>
       k.account \in Accounts /\ k.name \in Names /\ acc[k.account] # "none"
  /\ k.step = "flagging" => k.token \in TokenIds /\ tok[k.token] # None /\ k.flag \in Flags
  /\ k.step \in {"checking", "accepted"} =>
       /\ k.token \in TokenIds /\ tok[k.token] # None
       /\ k.account \in Accounts /\ k.account = tok[k.token].owner
       /\ {Denial("revoke", k.token), Denial("block", k.token)} \cap k.held = {}
  /\ k.step = "accepted" => Denial("block", k.account) \notin k.held
  /\ k.held \subseteq den

TokensInv ==
  /\ StoresOK(account, token, replica, denied)
  /\ now \in 0..MaxTime
  /\ call \in [Callers -> Call]
  /\ \A c \in Callers : CallInv(call[c], account, token, denied, now)

-----------------------------------------------------------------------------

LEMMA NoCallOK ==
  ASSUME NEW acc, NEW tok, NEW den, NEW time \in Nat
  PROVE  NoCall \in Call /\ CallInv(NoCall, acc, tok, den, time)
BY TokenAssumption DEF NoCall, Call, CallInv

\* A call stays in order while accounts and tokens are only added and the
\* denials it holds stay in force.
LEMMA CallStays ==
  ASSUME NEW k \in Call, NEW acc, NEW tok, NEW den, NEW time \in 0..MaxTime,
         CallInv(k, acc, tok, den, time),
         NEW acc2, NEW tok2, NEW den2, NEW time2 \in 0..MaxTime, time <= time2,
         \A a \in Accounts : acc[a] # "none" => acc2[a] # "none",
         \A t \in TokenIds : tok[t] # None => tok2[t] # None /\ tok2[t].owner = tok[t].owner,
         k.held \subseteq den2
  PROVE  CallInv(k, acc2, tok2, den2, time2)
<1>1. k.created \in 0..MaxTime
  BY DEF Call
<1>2. k.created <= time2
  BY <1>1, TokenAssumption DEF CallInv
<1> QED
  BY <1>2 DEF CallInv

\* A call that holds less against its request is still in order.
LEMMA HeldLess ==
  ASSUME NEW k \in Call, NEW acc, NEW tok, NEW den, NEW time,
         CallInv(k, acc, tok, den, time), NEW h, h \subseteq k.held
  PROVE  /\ [k EXCEPT !.held = h] \in Call /\ [k EXCEPT !.held = h].held = h
         /\ CallInv([k EXCEPT !.held = h], acc, tok, den, time)
<1> DEFINE j == [k EXCEPT !.held = h]
<1>1. /\ j \in Call /\ j.held = h /\ j.step = k.step /\ j.account = k.account
      /\ j.name = k.name /\ j.token = k.token /\ j.created = k.created /\ j.flag = k.flag
  BY DEF Call
<1> HIDE DEF j
<1>2. CallInv(j, acc, tok, den, time)
  BY <1>1 DEF CallInv
<1> QED
  BY <1>1, <1>2 DEF j

\* A step that changes only the call of c, to k.
LEMMA CallOnly ==
  ASSUME TokensInv, NEW c \in Callers, NEW k \in Call, Goes(c, k),
         UNCHANGED <<account, token, replica, now, denied>>,
         CallInv(k, account, token, denied, now)
  PROVE  TokensInv'
BY DEF TokensInv, Goes

\* The steps of a call that ends it.
LEMMA CallEnds ==
  ASSUME TokensInv, NEW c \in Callers, Goes(c, NoCall),
         UNCHANGED <<account, token, replica, now, denied>>
  PROVE  TokensInv'
<1>1. NoCall \in Call /\ CallInv(NoCall, account, token, denied, now)
  BY NoCallOK, TokenAssumption DEF TokensInv
<1> QED
  BY <1>1, CallOnly

\* A step that changes the stores and ends the call of c at most.
LEMMA StoresChange ==
  ASSUME TokensInv, StoresOK(account', token', replica', denied'), now' \in 0..MaxTime,
         now <= now',
         \A a \in Accounts : account[a] # "none" => account'[a] # "none",
         \A t \in TokenIds : token[t] # None =>
           token'[t] # None /\ token'[t].owner = token[t].owner,
         call' \in [Callers -> Call],
         \A c \in Callers : \/ call'[c] = NoCall
                            \/ call'[c] = call[c] /\ call[c].held \subseteq denied'
                            \/ \E h \in SUBSET denied' :
                                 /\ h \subseteq call[c].held
                                 /\ call'[c] = [call[c] EXCEPT !.held = h]
  PROVE  TokensInv'
<1>1. ASSUME NEW c \in Callers
      PROVE  CallInv(call'[c], account', token', denied', now')
  <2>1. CASE call'[c] = NoCall
    BY <2>1, NoCallOK, TokenAssumption
  <2>2. CASE call'[c] = call[c] /\ call[c].held \subseteq denied'
    <3>1. /\ call[c] \in Call /\ CallInv(call[c], account, token, denied, now)
          /\ now \in 0..MaxTime /\ call[c].held \subseteq denied'
      BY <2>2 DEF TokensInv
    <3>2. CallInv(call[c], account', token', denied', now')
      BY <3>1, CallStays
    <3> QED
      BY <2>2, <3>2
  <2>3. CASE \E h \in SUBSET denied' :
                /\ h \subseteq call[c].held
                /\ call'[c] = [call[c] EXCEPT !.held = h]
    <3>1. PICK h \in SUBSET denied' :
            /\ h \subseteq call[c].held
            /\ call'[c] = [call[c] EXCEPT !.held = h]
      BY <2>3
    <3>2. /\ call[c] \in Call /\ CallInv(call[c], account, token, denied, now)
          /\ now \in 0..MaxTime
      BY DEF TokensInv
    <3>3. /\ call'[c] \in Call /\ CallInv(call'[c], account, token, denied, now)
          /\ call'[c].held \subseteq denied'
      <4> DEFINE j == [call[c] EXCEPT !.held = h]
      <4>1. j \in Call /\ j.held = h /\ CallInv(j, account, token, denied, now)
        BY <3>1, <3>2, HeldLess
      <4> HIDE DEF j
      <4>2. call'[c] = j /\ h \subseteq denied'
        BY <3>1 DEF j
      <4> QED
        BY <4>1, <4>2
    <3> QED
      BY <3>2, <3>3, CallStays
  <2> QED
    BY <2>1, <2>2, <2>3
<1> QED
  BY <1>1 DEF TokensInv

\* What every step can rely on.
LEMMA CallerOK ==
  ASSUME TokensInv, NEW c \in Callers
  PROVE  /\ call[c] \in Call /\ CallInv(call[c], account, token, denied, now)
         /\ now \in 0..MaxTime /\ StoresOK(account, token, replica, denied)
         /\ call[c].held \subseteq denied
BY DEF TokensInv, CallInv

-----------------------------------------------------------------------------
(* The steps *)

LEMMA SignInStep ==
  ASSUME TokensInv, NEW a \in Accounts, SignIn(a)
  PROVE  TokensInv'
<1>1. StoresOK(account, token, replica, denied) /\ now \in 0..MaxTime
  BY DEF TokensInv
<1>2. StoresOK(account', token', replica', denied')
  BY <1>1 DEF SignIn, StoresOK
<1>3. \A c \in Callers : call[c].held \subseteq denied
  BY CallerOK
<1>4. \A b \in Accounts : account[b] # "none" => account'[b] # "none"
  BY <1>1 DEF SignIn, StoresOK
<1>5. /\ \A c \in Callers : call'[c] = call[c] /\ call[c].held \subseteq denied'
      /\ call' \in [Callers -> Call] /\ now' \in 0..MaxTime /\ now <= now'
      /\ token' = token
  BY <1>1, <1>3, TokenAssumption DEF SignIn, TokensInv
<1> QED
  BY <1>2, <1>4, <1>5, StoresChange

LEMMA BeginMintStep ==
  ASSUME TokensInv, NEW c \in Callers, NEW a \in Accounts, NEW name \in Names,
         BeginMint(c, a, name)
  PROVE  TokensInv'
<1> DEFINE k == [NoCall EXCEPT !.step = "admitted", !.account = a, !.name = name]
<1>1. NoCall \in Call /\ NoCall.created = 0 /\ NoCall.held = {}
  BY NoCallOK DEF NoCall
<1>2. /\ k \in Call /\ k.step = "admitted" /\ k.account = a /\ k.name = name
      /\ k.created = 0 /\ k.held = {}
  BY <1>1 DEF Call
<1>3. /\ Goes(c, k) /\ account[a] = "open"
      /\ UNCHANGED <<account, token, replica, now, denied>>
  BY DEF BeginMint
<1> HIDE DEF k
<1>4. CallInv(k, account, token, denied, now)
  BY <1>2, <1>3, CallerOK, TokenAssumption DEF CallInv
<1> QED
  BY <1>2, <1>3, <1>4, CallOnly

LEMMA CheckMintStep ==
  ASSUME TokensInv, NEW c \in Callers, CheckMint(c)
  PROVE  TokensInv'
<1> DEFINE k == [call[c] EXCEPT !.step = "saving", !.created = now]
<1>1. /\ call[c] \in Call /\ CallInv(call[c], account, token, denied, now)
      /\ now \in 0..MaxTime
  BY CallerOK
<1>2. /\ Goes(c, NoCall) \/ Goes(c, k)
      /\ call[c].step = "admitted" /\ UNCHANGED <<account, token, replica, now, denied>>
  BY DEF CheckMint
<1>3. /\ k \in Call /\ k.step = "saving" /\ k.account = call[c].account
      /\ k.name = call[c].name /\ k.created = now /\ k.held = call[c].held
  BY <1>1 DEF Call
<1> HIDE DEF k
<1>4. CallInv(k, account, token, denied, now)
  BY <1>1, <1>2, <1>3, TokenAssumption DEF CallInv
<1>5. CASE Goes(c, k)
  BY <1>2, <1>3, <1>4, <1>5, CallOnly
<1>6. CASE Goes(c, NoCall)
  BY <1>2, <1>6, CallEnds
<1> QED
  BY <1>2, <1>5, <1>6

LEMMA SaveMintStep ==
  ASSUME TokensInv, NEW c \in Callers, NEW t \in TokenIds, SaveMint(c, t)
  PROVE  TokensInv'
<1> DEFINE record == Minted(call[c].name, call[c].account, call[c].created)
<1>1. /\ call[c] \in Call /\ CallInv(call[c], account, token, denied, now)
      /\ now \in 0..MaxTime /\ StoresOK(account, token, replica, denied)
  BY CallerOK
<1>2. /\ call[c].step = "saving" /\ token[t] = None /\ Writes(t, record)
      /\ Goes(c, NoCall) /\ UNCHANGED <<account, now, denied>> /\ t \notin Legacy
  BY <1>1 DEF SaveMint, StoresOK
<1>3. /\ record \in TokenRecord /\ record.owner = call[c].account
      /\ call[c].account \in Accounts /\ account[call[c].account] # "none"
  BY <1>1, <1>2 DEF CallInv, Call, Minted, TokenRecord
<1>4. record # None
  BY <1>3, NoneIsNoToken
<1> HIDE DEF record
<1>5. StoresOK(account', token', replica', denied')
  BY <1>1, <1>2, <1>3, <1>4, TokenAssumption DEF StoresOK, Writes
<1>6. \A u \in TokenIds : token[u] # None =>
        token'[u] # None /\ token'[u].owner = token[u].owner
  BY <1>1, <1>2 DEF StoresOK, Writes
<1>7. /\ call' \in [Callers -> Call]
      /\ \A d \in Callers : \/ call'[d] = NoCall
                            \/ call'[d] = call[d] /\ call[d].held \subseteq denied'
  <2>1. \A d \in Callers : call[d].held \subseteq denied
    BY CallerOK
  <2> QED
    BY <1>2, <2>1, NoCallOK, TokenAssumption DEF Goes, TokensInv
<1>8. now' \in 0..MaxTime /\ now <= now'
  BY <1>1, <1>2
<1>9. \A b \in Accounts : account[b] # "none" => account'[b] # "none"
  BY <1>2
<1> QED
  BY <1>5, <1>6, <1>7, <1>8, <1>9, StoresChange

LEMMA FindTokenStep ==
  ASSUME TokensInv, NEW c \in Callers, NEW t \in TokenIds, NEW flag \in Flags,
         FindToken(c, t, flag)
  PROVE  TokensInv'
<1> DEFINE k == [NoCall EXCEPT !.step = "flagging", !.token = t, !.flag = flag]
<1>1. NoCall \in Call /\ NoCall.created = 0 /\ NoCall.held = {}
  BY NoCallOK DEF NoCall
<1>2. /\ k \in Call /\ k.step = "flagging" /\ k.token = t /\ k.flag = flag
      /\ k.created = 0 /\ k.held = {}
  BY <1>1 DEF Call
<1>3. Goes(c, k) /\ token[t] # None /\ UNCHANGED <<account, token, replica, now, denied>>
  BY DEF FindToken
<1> HIDE DEF k
<1>4. CallInv(k, account, token, denied, now)
  BY <1>2, <1>3, CallerOK, TokenAssumption DEF CallInv
<1> QED
  BY <1>2, <1>3, <1>4, CallOnly

LEMMA PresentStep ==
  ASSUME TokensInv, NEW c \in Callers, NEW t \in TokenIds, Present(c, t)
  PROVE  TokensInv'
<1> DEFINE k == [NoCall EXCEPT !.step = "checking", !.token = t,
                               !.account = token[t].owner, !.held = denied]
<1>1. NoCall \in Call /\ NoCall.created = 0
  BY NoCallOK DEF NoCall
<1>2. /\ StoresOK(account, token, replica, denied) /\ now \in 0..MaxTime
      /\ Goes(c, k) /\ UNCHANGED <<account, token, replica, now, denied>>
  BY CallerOK DEF Present
<1>3. /\ token[t] # None /\ token[t].owner # None
      /\ ~token[t].revoked /\ ~token[t].blocked
  BY DEF Present, Usable
<1>4. token[t] \in TokenRecord /\ token[t].owner \in Accounts
  BY <1>2, <1>3 DEF StoresOK, TokenRecord
<1>5. Denial("revoke", t) \notin denied /\ Denial("block", t) \notin denied
  BY <1>2, <1>3 DEF StoresOK
<1>6. /\ k \in Call /\ k.step = "checking" /\ k.token = t /\ k.account = token[t].owner
      /\ k.created = 0 /\ k.held = denied
  BY <1>1, <1>2, <1>4 DEF Call, StoresOK
<1> HIDE DEF k
<1>7. CallInv(k, account, token, denied, now)
  BY <1>2, <1>3, <1>4, <1>5, <1>6, TokenAssumption DEF CallInv
<1> QED
  BY <1>2, <1>6, <1>7, CallOnly

LEMMA CheckOwnerStep ==
  ASSUME TokensInv, NEW c \in Callers, CheckOwner(c)
  PROVE  TokensInv'
<1> DEFINE k == [call[c] EXCEPT !.step = "accepted"]
<1>1. /\ call[c] \in Call /\ CallInv(call[c], account, token, denied, now)
      /\ StoresOK(account, token, replica, denied)
  BY CallerOK
<1>2. /\ call[c].step = "checking" /\ UNCHANGED <<account, token, replica, now, denied>>
      /\ Goes(c, IF account[call[c].account] = "blocked" THEN NoCall ELSE k)
  BY DEF CheckOwner
<1>3. /\ k \in Call /\ k.step = "accepted" /\ k.token = call[c].token
      /\ k.account = call[c].account /\ k.created = call[c].created
      /\ k.held = call[c].held
  BY <1>1 DEF Call
<1> HIDE DEF k
<1>4. CASE account[call[c].account] = "blocked"
  BY <1>2, <1>4, CallEnds
<1>5. CASE account[call[c].account] # "blocked"
  <2>1. Denial("block", call[c].account) \notin call[c].held
    BY <1>1, <1>2, <1>5 DEF StoresOK, CallInv
  <2>2. CallInv(k, account, token, denied, now)
    BY <1>1, <1>2, <1>3, <2>1 DEF CallInv
  <2> QED
    BY <1>2, <1>3, <1>5, <2>2, CallOnly
<1> QED
  BY <1>4, <1>5

\* An update of one flag of a token keeps everything else about it.
LEMMA FlaggedOK ==
  ASSUME NEW record \in TokenRecord, NEW flag \in Flags
  PROVE  /\ Flagged(record, flag) \in TokenRecord
         /\ Flagged(record, flag).owner = record.owner
         /\ Flagged(record, flag).name = record.name
         /\ Flagged(record, flag).created = record.created
         /\ flag = "revoke" => Flagged(record, flag).revoked = TRUE
         /\ flag # "revoke" => Flagged(record, flag).revoked = record.revoked
         /\ flag = "block" => Flagged(record, flag).blocked = TRUE
         /\ flag = "revoke" => Flagged(record, flag).blocked = record.blocked
<1>1. CASE flag = "revoke"
  BY <1>1 DEF Flagged, TokenRecord
<1>2. CASE flag = "block"
  BY <1>2 DEF Flagged, TokenRecord
<1>3. CASE flag = "unblock"
  BY <1>3 DEF Flagged, TokenRecord
<1> QED
  BY <1>1, <1>2, <1>3 DEF Flags

LEMMA SetFlagStep ==
  ASSUME TokensInv, NEW c \in Callers, SetFlag(c)
  PROVE  TokensInv'
<1> DEFINE t == call[c].token
           flag == call[c].flag
           record == Flagged(token[t], flag)
<1>1. /\ call[c] \in Call /\ CallInv(call[c], account, token, denied, now)
      /\ now \in 0..MaxTime /\ StoresOK(account, token, replica, denied)
      /\ call \in [Callers -> Call]
  BY CallerOK DEF TokensInv
<1>2. call[c].step = "flagging" /\ Writes(t, record) /\ UNCHANGED <<account, now>>
  BY DEF SetFlag
<1>3. t \in TokenIds /\ token[t] # None /\ flag \in Flags
  BY <1>1, <1>2 DEF CallInv
<1>4. token[t] \in TokenRecord
  BY <1>1, <1>3 DEF StoresOK
<1>5. IF flag = "unblock"
        THEN /\ denied' = denied \ {Denial("block", t)}
             /\ call' = [Lifted(t) EXCEPT ![c] = NoCall]
        ELSE /\ denied' = denied \cup {Denial(flag, t)}
             /\ call' = [call EXCEPT ![c] = NoCall]
  BY DEF SetFlag, Goes
<1> HIDE DEF t, flag
<1>6. /\ record \in TokenRecord /\ record.owner = token[t].owner /\ record # None
      /\ flag = "revoke" => record.revoked = TRUE /\ record.blocked = token[t].blocked
      /\ flag = "block" => record.blocked = TRUE /\ record.revoked = token[t].revoked
      /\ flag = "unblock" => record.revoked = token[t].revoked
  BY <1>3, <1>4, FlaggedOK, NoneIsNoToken
<1> HIDE DEF record
<1>7. /\ \A u \in TokenIds : token'[u] = IF u = t THEN record ELSE token[u]
      /\ token' \in [TokenIds -> TokenRecord \cup {None}]
      /\ replica' \in [TokenIds -> TokenRecord \cup {None}]
  BY <1>1, <1>2, <1>3, <1>6 DEF StoresOK, Writes
<1>8. \A u \in TokenIds : token[u] # None =>
        token'[u] # None /\ token'[u].owner = token[u].owner
  BY <1>6, <1>7
<1>9. \A d \in Callers : call[d].held \subseteq denied
  BY CallerOK
<1>10. CASE flag = "unblock"
  <2>1. /\ denied' = denied \ {Denial("block", t)} /\ account' = account
        /\ call' = [Lifted(t) EXCEPT ![c] = NoCall]
    BY <1>2, <1>5, <1>10
  <2>2. StoresOK(account', token', replica', denied')
    <3>1. denied' \subseteq denied /\ Denial("block", t) \notin denied'
      BY <2>1
    <3> QED
      BY <1>1, <1>3, <1>6, <1>7, <1>10, <2>1, <3>1, TokenAssumption DEF StoresOK
  <2>3. ASSUME NEW d \in Callers
        PROVE  /\ call'[d] \in Call
               /\ \/ call'[d] = NoCall
                  \/ \E h \in SUBSET denied' :
                       h \subseteq call[d].held /\ call'[d] = [call[d] EXCEPT !.held = h]
    <3> DEFINE h == call[d].held \ {Denial("block", t)}
               k == [call[d] EXCEPT !.held = h]
    <3>1. h \subseteq call[d].held /\ h \in SUBSET denied'
      BY <1>9, <2>1
    <3>2. call[d] \in Call /\ CallInv(call[d], account, token, denied, now)
      BY CallerOK
    <3>3. k \in Call
      BY <3>1, <3>2, HeldLess
    <3>4. call'[d] = IF d = c THEN NoCall ELSE k
      BY <2>1 DEF Lifted
    <3>5. NoCall \in Call
      BY NoCallOK, TokenAssumption
    <3> QED
      BY <3>1, <3>3, <3>4, <3>5
  <2>4. call' \in [Callers -> Call]
    <3>1. call' = [d \in Callers |-> call'[d]]
      BY <2>1 DEF Lifted
    <3> QED
      BY <2>3, <3>1
  <2>5. now' \in 0..MaxTime /\ now <= now'
    BY <1>1, <1>2
  <2>6. \A b \in Accounts : account[b] # "none" => account'[b] # "none"
    BY <2>1
  <2> QED
    BY <1>8, <2>2, <2>3, <2>4, <2>5, <2>6, StoresChange
<1>11. CASE flag # "unblock"
  <2>1. /\ denied' = denied \cup {Denial(flag, t)} /\ account' = account
        /\ call' = [call EXCEPT ![c] = NoCall] /\ flag \in {"revoke", "block"}
    BY <1>2, <1>3, <1>5, <1>11 DEF Flags
  <2>2. StoresOK(account', token', replica', denied')
    <3>1. denied' \subseteq Flags \X (TokenIds \cup Accounts)
      BY <1>1, <1>3, <2>1 DEF StoresOK, Denial
    <3>2. /\ \A u \in TokenIds \ {t} : \A g \in {"revoke", "block"} :
               Denial(g, u) \in denied' => Denial(g, u) \in denied
          /\ \A a \in Accounts : Denial("block", a) \in denied' => Denial("block", a) \in denied
      BY <1>3, <2>1, TokenAssumption DEF Denial
    <3>3. /\ Denial("revoke", t) \in denied' => Denial("revoke", t) \in denied \/ flag = "revoke"
          /\ Denial("block", t) \in denied' => Denial("block", t) \in denied \/ flag = "block"
      BY <2>1 DEF Denial
    <3> QED
      BY <1>1, <1>3, <1>6, <1>7, <2>1, <3>1, <3>2, <3>3, TokenAssumption DEF StoresOK
  <2>3. /\ call' \in [Callers -> Call]
        /\ \A d \in Callers : \/ call'[d] = NoCall
                              \/ call'[d] = call[d] /\ call[d].held \subseteq denied'
    <3>1. NoCall \in Call
      BY NoCallOK, TokenAssumption
    <3> QED
      BY <1>1, <1>9, <2>1, <3>1
  <2>4. now' \in 0..MaxTime /\ now <= now'
    BY <1>1, <1>2
  <2>5. \A b \in Accounts : account[b] # "none" => account'[b] # "none"
    BY <2>1
  <2> QED
    BY <1>8, <2>2, <2>3, <2>4, <2>5, StoresChange
<1> QED
  BY <1>10, <1>11

LEMMA BlockAccountStep ==
  ASSUME TokensInv, NEW a \in Accounts, BlockAccount(a)
  PROVE  TokensInv'
<1>1. /\ StoresOK(account, token, replica, denied) /\ now \in 0..MaxTime
      /\ call \in [Callers -> Call] /\ \A c \in Callers : call[c].held \subseteq denied
  BY CallerOK DEF TokensInv
<1>2. /\ account' = [account EXCEPT ![a] = "blocked"]
      /\ denied' = denied \cup {Denial("block", a)}
      /\ UNCHANGED <<token, replica, call, now>>
  BY DEF BlockAccount
<1>3. StoresOK(account', token', replica', denied')
  <2>1. denied' \subseteq Flags \X (TokenIds \cup Accounts)
    BY <1>1, <1>2 DEF StoresOK, Denial, Flags
  <2>2. /\ \A t \in TokenIds : \A g \in {"revoke", "block"} :
             Denial(g, t) \in denied' => Denial(g, t) \in denied
        /\ \A b \in Accounts \ {a} :
             Denial("block", b) \in denied' => Denial("block", b) \in denied
    BY <1>2, TokenAssumption DEF Denial
  <2> QED
    BY <1>1, <1>2, <2>1, <2>2 DEF StoresOK
<1>4. \A b \in Accounts : account[b] # "none" => account'[b] # "none"
  BY <1>1, <1>2 DEF StoresOK
<1>5. /\ \A c \in Callers : call'[c] = call[c] /\ call[c].held \subseteq denied'
      /\ call' \in [Callers -> Call] /\ now' \in 0..MaxTime /\ now <= now'
      /\ token' = token
  BY <1>1, <1>2, TokenAssumption
<1> QED
  BY <1>3, <1>4, <1>5, StoresChange

LEMMA UnblockAccountStep ==
  ASSUME TokensInv, NEW a \in Accounts, UnblockAccount(a)
  PROVE  TokensInv'
<1>1. /\ StoresOK(account, token, replica, denied) /\ now \in 0..MaxTime
      /\ \A c \in Callers : call[c].held \subseteq denied
  BY CallerOK DEF TokensInv
<1>2. /\ account' = [account EXCEPT ![a] = "open"]
      /\ denied' = denied \ {Denial("block", a)} /\ call' = Lifted(a)
      /\ UNCHANGED <<token, replica, now>>
  BY DEF UnblockAccount
<1>3. StoresOK(account', token', replica', denied')
  <2>1. denied' \subseteq denied /\ Denial("block", a) \notin denied'
    BY <1>2
  <2> QED
    BY <1>1, <1>2, <2>1 DEF StoresOK
<1>4. \A b \in Accounts : account[b] # "none" => account'[b] # "none"
  BY <1>1, <1>2 DEF StoresOK
<1>5. ASSUME NEW c \in Callers
      PROVE  /\ call'[c] \in Call
             /\ \E h \in SUBSET denied' :
                  h \subseteq call[c].held /\ call'[c] = [call[c] EXCEPT !.held = h]
  <2> DEFINE h == call[c].held \ {Denial("block", a)}
             k == [call[c] EXCEPT !.held = h]
  <2>1. h \subseteq call[c].held /\ h \in SUBSET denied'
    BY <1>1, <1>2
  <2>2. call[c] \in Call /\ CallInv(call[c], account, token, denied, now)
    BY CallerOK
  <2>3. k \in Call
    BY <2>1, <2>2, HeldLess
  <2>4. call'[c] = k
    BY <1>2 DEF Lifted
  <2> QED
    BY <2>1, <2>3, <2>4
<1>6. call' \in [Callers -> Call]
  <2>1. call' = [c \in Callers |-> call'[c]]
    BY <1>2 DEF Lifted
  <2> QED
    BY <1>5, <2>1
<1>7. /\ now' \in 0..MaxTime /\ now <= now' /\ token' = token
  BY <1>1, <1>2, TokenAssumption
<1> QED
  BY <1>3, <1>4, <1>5, <1>6, <1>7, StoresChange

LEMMA ReplicateStep ==
  ASSUME TokensInv, NEW t \in TokenIds, Replicate(t)
  PROVE  TokensInv'
<1>1. /\ replica' = [replica EXCEPT ![t] = token[t]]
      /\ UNCHANGED <<account, token, call, now, denied>>
  BY DEF Replicate
<1>2. StoresOK(account', token', replica', denied')
  BY <1>1 DEF TokensInv, StoresOK
<1> QED
  BY <1>1, <1>2 DEF TokensInv

LEMMA TickStep ==
  ASSUME TokensInv, Tick
  PROVE  TokensInv'
<1>1. /\ StoresOK(account, token, replica, denied) /\ now \in 0..MaxTime
      /\ call \in [Callers -> Call] /\ \A c \in Callers : call[c].held \subseteq denied
  BY CallerOK DEF TokensInv
<1>2. /\ UNCHANGED <<account, token, replica, call, denied>>
      /\ now' \in 0..MaxTime /\ now <= now'
  BY <1>1, TokenAssumption DEF Tick
<1>3. StoresOK(account', token', replica', denied')
  BY <1>1, <1>2
<1> QED
  BY <1>1, <1>2, <1>3, StoresChange

-----------------------------------------------------------------------------

LEMMA TokensInit ==
  ASSUME Init
  PROVE  TokensInv
<1>1. /\ \A c \in Callers : NoCall \in Call /\ CallInv(NoCall, account, token, denied, now)
      /\ now \in 0..MaxTime
  BY NoCallOK, TokenAssumption DEF Init
<1>2. token \in [TokenIds -> TokenRecord \cup {None}]
  <2>1. \A n \in Names : Minted(n, None, 0) \in TokenRecord
    BY TokenAssumption DEF Minted, TokenRecord
  <2> QED
    BY <2>1 DEF Init
<1>3. \A t \in TokenIds : token[t] # None => t \in Legacy /\ token[t].owner = None
  BY DEF Init, Minted
<1>4. StoresOK(account, token, replica, denied)
  BY <1>2, <1>3, TokenAssumption DEF Init, StoresOK
<1> QED
  BY <1>1, <1>4 DEF Init, TokensInv

LEMMA TokensNext ==
  ASSUME TokensInv, [Next]_vars
  PROVE  TokensInv'
<1>1. CASE UNCHANGED vars
  BY <1>1 DEF vars, TokensInv
<1>2. ASSUME NEW c \in Callers, CallStep(c)
      PROVE  TokensInv'
  <2>1. CASE EndRequest(c) \/ Die(c)
    BY <2>1, CallEnds DEF EndRequest, Die
  <2>2. CASE ~(EndRequest(c) \/ Die(c))
    BY <1>2, <2>2, BeginMintStep, CheckMintStep, SaveMintStep, FindTokenStep, SetFlagStep,
       PresentStep, CheckOwnerStep DEF CallStep
  <2> QED
    BY <2>1, <2>2
<1>3. ASSUME NEW a \in Accounts, SignIn(a) \/ BlockAccount(a) \/ UnblockAccount(a)
      PROVE  TokensInv'
  BY <1>3, SignInStep, BlockAccountStep, UnblockAccountStep
<1>4. CASE \E t \in TokenIds : Replicate(t)
  BY <1>4, ReplicateStep
<1>5. CASE Tick
  BY <1>5, TickStep
<1> QED
  BY <1>1, <1>2, <1>3, <1>4, <1>5 DEF Next

\* The stores and the calls keep their types, and no token but a legacy one is
\* without an owner who has signed in.
THEOREM TokensTypeCorrect == Spec => []TypeOK
<1>1. Init => TokensInv
  BY TokensInit
<1>2. TokensInv /\ [Next]_vars => TokensInv'
  BY TokensNext
<1>3. TokensInv => TypeOK
  BY DEF TokensInv, StoresOK, CallInv, InHand, TypeOK
<1> QED
  BY <1>1, <1>2, <1>3, PTL DEF Spec

\* An operator's block and a revocation are honoured on the very next request:
\* none goes ahead against a denial in force from before it began.
THEOREM DenialsAreHonoured == Spec => []DenialHonoured
<1>1. Init => TokensInv
  BY TokensInit
<1>2. TokensInv /\ [Next]_vars => TokensInv'
  BY TokensNext
<1>3. TokensInv => DenialHonoured
  BY DEF TokensInv, CallInv, DenialHonoured, ShutsOff
<1> QED
  BY <1>1, <1>2, <1>3, PTL DEF Spec

-----------------------------------------------------------------------------
(* Mints that run one at a time.  What a mint was allowed by stays true until *)
(* it has saved: nobody else adds a token, and a flag only takes names away.  *)

Stored == {t \in TokenIds : token[t] # None}

\* A mint that is about to save would be allowed by the table as it is.
AllowedToSave(k) ==
  /\ ~NameTaken(token, k.account, k.name)
  /\ Cardinality(InWindow(token, k.account, k.created)) < HourlyCap

MintsInv ==
  /\ OneMint
  /\ IsFiniteSet(Stored)
  /\ \A c \in Callers : call[c].step = "saving" => AllowedToSave(call[c])
  /\ NamesUnique
  /\ MintWithinCap

\* Of a token, a step other than a save only changes the flags, and lifts no
\* revocation.
LEMMA OnlyFlags ==
  ASSUME TokensInv, [Next]_vars, \A c \in Callers, t \in TokenIds : ~SaveMint(c, t),
         NEW t \in TokenIds
  PROVE  /\ token'[t] = None <=> token[t] = None
         /\ token[t] # None =>
              /\ token'[t].name = token[t].name /\ token'[t].owner = token[t].owner
              /\ token'[t].created = token[t].created
              /\ token[t].revoked => token'[t].revoked
<1>1. ASSUME NEW c \in Callers, SetFlag(c)
      PROVE  \/ token'[t] = token[t]
             \/ /\ token[t] \in TokenRecord
                /\ \E flag \in Flags : token'[t] = Flagged(token[t], flag)
  <2>1. /\ call[c].step = "flagging" /\ token \in [TokenIds -> TokenRecord \cup {None}]
        /\ token' = [token EXCEPT ![call[c].token] = Flagged(token[call[c].token], call[c].flag)]
    BY <1>1, CallerOK DEF SetFlag, Writes, StoresOK
  <2>2. call[c].token \in TokenIds /\ token[call[c].token] # None /\ call[c].flag \in Flags
    BY <2>1, CallerOK DEF CallInv
  <2> QED
    BY <2>1, <2>2
<1>2. ASSUME token[t] \in TokenRecord, NEW flag \in Flags, token'[t] = Flagged(token[t], flag)
      PROVE  /\ token'[t] # None /\ token[t] # None
             /\ token'[t].name = token[t].name /\ token'[t].owner = token[t].owner
             /\ token'[t].created = token[t].created
             /\ token[t].revoked => token'[t].revoked
  <2>1. /\ token'[t] \in TokenRecord
        /\ token'[t].name = token[t].name /\ token'[t].owner = token[t].owner
        /\ token'[t].created = token[t].created
        /\ token'[t].revoked = TRUE \/ token'[t].revoked = token[t].revoked
    <3>1. /\ Flagged(token[t], flag) \in TokenRecord
          /\ Flagged(token[t], flag).owner = token[t].owner
          /\ Flagged(token[t], flag).name = token[t].name
          /\ Flagged(token[t], flag).created = token[t].created
          /\ flag = "revoke" => Flagged(token[t], flag).revoked = TRUE
          /\ flag # "revoke" => Flagged(token[t], flag).revoked = token[t].revoked
      BY <1>2, FlaggedOK
    <3> QED
      BY <1>2, <3>1, Zenon
  <2>2. token[t].revoked => token'[t].revoked
    BY <2>1
  <2> QED
    BY <1>2, <2>1, <2>2, NoneIsNoToken
<1>3. CASE token'[t] = token[t]
  BY <1>3
<1>4. CASE \E c \in Callers : SetFlag(c)
  BY <1>1, <1>2, <1>3, <1>4
<1>5. CASE ~\E c \in Callers : SetFlag(c)
  <2>1. token' = token
    BY <1>5 DEF Next, CallStep, BeginMint, CheckMint, FindToken, Present, CheckOwner, EndRequest,
                Die, SignIn, BlockAccount, UnblockAccount, Replicate, Tick, vars
  <2> QED
    BY <2>1
<1> QED
  BY <1>4, <1>5

\* The mint of a call that saves next was checked in this step, or it stays.
LEMMA MintsGoOn ==
  ASSUME TokensInv, [Next]_vars, NEW c \in Callers, call'[c].step = "saving"
  PROVE  \/ CheckMint(c) /\ call'[c] = [call[c] EXCEPT !.step = "saving", !.created = now]
         \/ /\ call[c].step = "saving" /\ call'[c].account = call[c].account
            /\ call'[c].name = call[c].name /\ call'[c].created = call[c].created
<1>1. call[c] \in Call /\ call \in [Callers -> Call] /\ NoCall.step = "idle"
  BY DEF TokensInv, NoCall
<1>2. ASSUME NEW d \in Callers, NEW k, Goes(d, k), k.step # "saving"
      PROVE  call'[c] = call[c]
  BY <1>1, <1>2 DEF Goes
<1>3. ASSUME NEW subject, call'[c] = Lifted(subject)[c] \/ call'[c] = NoCall
      PROVE  /\ call[c].step = "saving" /\ call'[c].account = call[c].account
             /\ call'[c].name = call[c].name /\ call'[c].created = call[c].created
  <2>1. call'[c] = [call[c] EXCEPT !.held = @ \ {Denial("block", subject)}]
    BY <1>1, <1>3 DEF Lifted
  <2> QED
    BY <1>1, <2>1 DEF Call
<1>4. ASSUME NEW d \in Callers, CallStep(d), ~CheckMint(d), ~SetFlag(d)
      PROVE  call'[c] = call[c]
  <2>1. ASSUME NEW a \in Accounts, NEW name \in Names, BeginMint(d, a, name)
        PROVE  call'[c] = call[c]
    BY <1>2, <2>1 DEF BeginMint, NoCall
  <2>2. ASSUME NEW t \in TokenIds, NEW flag \in Flags, FindToken(d, t, flag)
        PROVE  call'[c] = call[c]
    BY <1>2, <2>2 DEF FindToken, NoCall
  <2>3. ASSUME NEW t \in TokenIds, SaveMint(d, t) \/ Present(d, t)
        PROVE  call'[c] = call[c]
    BY <1>2, <2>3 DEF SaveMint, Present, NoCall
  <2>4. CASE CheckOwner(d)
    <3>1. call[d] \in Call
      BY CallerOK
    <3>2. [call[d] EXCEPT !.step = "accepted"].step # "saving"
      BY <3>1 DEF Call
    <3> QED
      BY <1>1, <1>2, <2>4, <3>2 DEF CheckOwner
  <2>5. CASE EndRequest(d) \/ Die(d)
    BY <1>1, <1>2, <2>5 DEF EndRequest, Die
  <2> QED
    BY <1>4, <2>1, <2>2, <2>3, <2>4, <2>5 DEF CallStep
<1>5. ASSUME NEW d \in Callers, CheckMint(d), call'[c] # call[c]
      PROVE  CheckMint(c) /\ call'[c] = [call[c] EXCEPT !.step = "saving", !.created = now]
  <2>1. \/ Goes(d, NoCall)
        \/ Goes(d, [call[d] EXCEPT !.step = "saving", !.created = now])
    BY <1>5 DEF CheckMint
  <2>2. c = d
    BY <1>1, <1>5, <2>1 DEF Goes
  <2> QED
    BY <1>1, <1>5, <2>1, <2>2 DEF Goes
<1>6. ASSUME NEW d \in Callers, SetFlag(d)
      PROVE  \/ call'[c] = call[c] \/ call'[c] = NoCall
             \/ \E subject : call'[c] = Lifted(subject)[c]
  <2>1. \/ call' = [Lifted(call[d].token) EXCEPT ![d] = NoCall]
        \/ call' = [call EXCEPT ![d] = NoCall]
    BY <1>6 DEF SetFlag, Goes
  <2> QED
    BY <1>1, <2>1 DEF Lifted
<1>7. CASE \E d \in Callers : CallStep(d)
  BY <1>3, <1>4, <1>5, <1>6, <1>7
<1>8. CASE \E a \in Accounts : SignIn(a) \/ BlockAccount(a) \/ UnblockAccount(a)
  BY <1>3, <1>8 DEF SignIn, BlockAccount, UnblockAccount
<1>9. CASE (\E t \in TokenIds : Replicate(t)) \/ Tick \/ UNCHANGED vars
  BY <1>9 DEF Replicate, Tick, vars
<1> QED
  BY <1>7, <1>8, <1>9 DEF Next

\* A mint that lists what is stored is allowed by the table it listed.
LEMMA CheckedIsAllowed ==
  ASSUME TokensInv, IsFiniteSet(Stored), NEW c \in Callers, CheckMint(c), replica = token,
         call'[c].step = "saving"
  PROVE  /\ ~NameTaken(token, call[c].account, call[c].name)
         /\ Cardinality(InWindow(token, call[c].account, now)) < HourlyCap
<1>1. call \in [Callers -> Call] /\ token \in [TokenIds -> TokenRecord \cup {None}]
  BY DEF TokensInv, StoresOK
<1>2. PICK seen \in Scans :
        Goes(c, IF \/ NameTaken(seen, call[c].account, call[c].name)
                   \/ Cardinality(InWindow(seen, call[c].account, now)) >= HourlyCap
                  THEN NoCall
                  ELSE [call[c] EXCEPT !.step = "saving", !.created = now])
  BY DEF CheckMint
<1>3. seen = token
  BY <1>1, <1>2 DEF Scans
<1>4. NoCall.step # "saving"
  BY DEF NoCall
<1>5. ~(\/ NameTaken(token, call[c].account, call[c].name)
        \/ Cardinality(InWindow(token, call[c].account, now)) >= HourlyCap)
  BY <1>1, <1>2, <1>3, <1>4 DEF Goes
<1>6. Cardinality(InWindow(token, call[c].account, now)) \in Nat
  <2>1. InWindow(token, call[c].account, now) \in SUBSET Stored
    BY DEF InWindow, Stored
  <2> QED
    BY <2>1, FS_Subset, FS_CardinalityType
<1> QED
  BY <1>5, <1>6, TokenAssumption

\* A step that saves no mint keeps what mints that run one at a time promise.
LEMMA UnsavedMints ==
  ASSUME TokensInv, MintsInv, [Next]_vars, OneMint', ListsStored,
         \A c \in Callers, t \in TokenIds : ~SaveMint(c, t)
  PROVE  MintsInv'
<1>1. \A t \in TokenIds :
        /\ token'[t] = None <=> token[t] = None
        /\ token[t] # None =>
             /\ token'[t].name = token[t].name /\ token'[t].owner = token[t].owner
             /\ token'[t].created = token[t].created
             /\ token[t].revoked => token'[t].revoked
  BY OnlyFlags
<1>2. Stored' = Stored
  BY <1>1 DEF Stored
<1>3. \A a, name : NameTaken(token', a, name) => NameTaken(token, a, name)
  BY <1>1 DEF NameTaken
<1>4. \A a, time : InWindow(token', a, time) = InWindow(token, a, time)
  BY <1>1 DEF InWindow
<1>5. ASSUME NEW c \in Callers, call'[c].step = "saving"
      PROVE  AllowedToSave(call[c])'
  <2>1. call[c] \in Call
    BY CallerOK
  <2>2. CASE CheckMint(c) /\ call'[c] = [call[c] EXCEPT !.step = "saving", !.created = now]
    <3>1. call[c].step = "admitted" /\ c \in Minting
      BY <2>2 DEF CheckMint, Minting
    <3>2. replica = token
      BY <1>5, <3>1 DEF ListsStored
    <3>3. /\ call'[c].account = call[c].account /\ call'[c].name = call[c].name
          /\ call'[c].created = now
      BY <2>1, <2>2 DEF Call
    <3>4. /\ ~NameTaken(token, call[c].account, call[c].name)
          /\ Cardinality(InWindow(token, call[c].account, now)) < HourlyCap
      BY <1>5, <2>2, <3>2, CheckedIsAllowed DEF MintsInv
    <3> QED
      BY <1>3, <1>4, <3>3, <3>4 DEF AllowedToSave
  <2>3. CASE /\ call[c].step = "saving" /\ call'[c].account = call[c].account
             /\ call'[c].name = call[c].name /\ call'[c].created = call[c].created
    <3>1. AllowedToSave(call[c])
      BY <2>3 DEF MintsInv
    <3> QED
      BY <1>3, <1>4, <2>3, <3>1 DEF AllowedToSave
  <2> QED
    BY <1>5, <2>2, <2>3, MintsGoOn
<1>6. NamesUnique'
  BY <1>1 DEF MintsInv, NamesUnique
<1>7. MintWithinCap'
  <2>1. ASSUME NEW a \in Accounts, NEW time \in 0..MaxTime
        PROVE  {t \in TokenIds : /\ token'[t] # None /\ token'[t].owner = a
                                 /\ token'[t].created \in (time - Window + 1)..time}
                 = {t \in TokenIds : /\ token[t] # None /\ token[t].owner = a
                                     /\ token[t].created \in (time - Window + 1)..time}
    BY <1>1
  <2> QED
    BY <2>1 DEF MintsInv, MintWithinCap
<1> QED
  BY <1>2, <1>5, <1>6, <1>7 DEF MintsInv

\* A token that is saved takes the name and the room that its check had found free.
LEMMA SavedMint ==
  ASSUME TokensInv, MintsInv, OneMint', NEW c \in Callers, NEW t \in TokenIds, SaveMint(c, t)
  PROVE  MintsInv'
<1> DEFINE k == call[c]
           record == Minted(k.name, k.account, k.created)
<1>1. /\ k \in Call /\ k.step = "saving" /\ k.account \in Accounts /\ k.created \in 0..MaxTime
      /\ call \in [Callers -> Call] /\ token \in [TokenIds -> TokenRecord \cup {None}]
  BY CallerOK DEF SaveMint, CallInv, Call, TokensInv, StoresOK
<1>2. /\ token[t] = None /\ token' = [token EXCEPT ![t] = record]
      /\ call' = [call EXCEPT ![c] = NoCall]
      /\ ~NameTaken(token, k.account, k.name)
      /\ Cardinality(InWindow(token, k.account, k.created)) < HourlyCap
  BY <1>1 DEF SaveMint, Writes, Goes, MintsInv, AllowedToSave
<1>3. /\ record \in TokenRecord /\ record.name = k.name /\ record.owner = k.account
      /\ record.created = k.created /\ ~record.revoked
  <2>1. k.name \in Names
    BY <1>1, CallerOK DEF CallInv
  <2> QED
    BY <1>1, <2>1 DEF Minted, TokenRecord
<1>4. record # None
  BY <1>3, NoneIsNoToken
<1> HIDE DEF record
<1>5. /\ \A u \in TokenIds : token'[u] = IF u = t THEN record ELSE token[u]
      /\ Stored' = Stored \cup {t} /\ IsFiniteSet(Stored')
  <2>1. \A u \in TokenIds : token'[u] = IF u = t THEN record ELSE token[u]
    BY <1>1, <1>2
  <2>2. Stored' = Stored \cup {t}
    BY <1>4, <2>1 DEF Stored
  <2> QED
    BY <2>1, <2>2, FS_AddElement DEF MintsInv
<1>6. \A d \in Callers : call'[d].step # "saving"
  <2>1. \A d \in Callers \ {c} : call[d].step # "saving"
    BY <1>1 DEF MintsInv, OneMint, Minting
  <2> QED
    BY <1>1, <1>2, <2>1 DEF NoCall
<1>7. NamesUnique'
  <2>1. \A u \in TokenIds : token[u] # None /\ ~token[u].revoked => token[u].name # k.name
    BY <1>2 DEF NameTaken
  <2> QED
    BY <1>2, <1>3, <1>5, <2>1 DEF MintsInv, NamesUnique
<1>8. MintWithinCap'
  <2> DEFINE Held(a, time) == {u \in TokenIds : /\ token[u] # None /\ token[u].owner = a
                                                /\ token[u].created \in (time - Window + 1)..time}
             Holds(a, time) == {u \in TokenIds : /\ token'[u] # None /\ token'[u].owner = a
                                                 /\ token'[u].created \in (time - Window + 1)..time}
  <2>1. ASSUME NEW a \in Accounts, NEW time \in 0..MaxTime
        PROVE  Cardinality(Holds(a, time)) <= HourlyCap
    <3>1. Cardinality(Held(a, time)) <= HourlyCap
      BY DEF MintsInv, MintWithinCap
    <3>2. CASE a = k.account /\ k.created \in (time - Window + 1)..time
      <4>1. Holds(a, time) = Held(a, time) \cup {t}
        BY <1>3, <1>4, <1>5, <3>2
      <4>2. Held(a, time) \in SUBSET InWindow(token, k.account, k.created)
        <5>1. ASSUME NEW u \in Held(a, time) PROVE token[u].created > k.created - Window
          <6>1. token[u].created \in (time - Window + 1)..time /\ token[u] \in TokenRecord
            BY <1>1, <5>1
          <6>2. token[u].created \in Nat
            BY <6>1, TokenAssumption DEF TokenRecord
          <6> QED
            BY <1>1, <3>2, <6>1, <6>2, TokenAssumption
        <5> QED
          BY <3>2, <5>1 DEF InWindow
      <4>3. InWindow(token, k.account, k.created) \in SUBSET Stored
        BY DEF InWindow, Stored
      <4>4. /\ IsFiniteSet(InWindow(token, k.account, k.created))
            /\ Cardinality(InWindow(token, k.account, k.created)) \in Nat
        BY <4>3, FS_Subset, FS_CardinalityType DEF MintsInv
      <4>5. /\ IsFiniteSet(Held(a, time)) /\ Cardinality(Held(a, time)) \in Nat
            /\ Cardinality(Held(a, time)) <= Cardinality(InWindow(token, k.account, k.created))
        <5> HIDE DEF Held
        <5> QED
          BY <4>2, <4>4, FS_Subset, FS_CardinalityType
      <4>6. Cardinality(Held(a, time) \cup {t}) <= Cardinality(Held(a, time)) + 1
        <5> HIDE DEF Held
        <5> QED
          BY <4>5, FS_AddElement
      <4>7. Cardinality(Holds(a, time)) <= Cardinality(Held(a, time)) + 1
        BY <4>1, <4>6
      <4>8. Cardinality(Holds(a, time)) \in Nat
        <5>1. IsFiniteSet(Held(a, time) \cup {t})
          <6> HIDE DEF Held
          <6> QED
            BY <4>5, FS_AddElement
        <5> QED
          BY <4>1, <5>1, FS_CardinalityType
      <4> HIDE DEF Held, Holds
      <4> QED
        BY <1>2, <4>4, <4>5, <4>7, <4>8, TokenAssumption
    <3>3. CASE ~(a = k.account /\ k.created \in (time - Window + 1)..time)
      <4>1. Holds(a, time) = Held(a, time)
        BY <1>2, <1>3, <1>5, <3>3
      <4> HIDE DEF Held, Holds
      <4> QED
        BY <3>1, <4>1
    <3> QED
      BY <3>2, <3>3
  <2> QED
    BY <2>1 DEF MintWithinCap
<1> QED
  BY <1>5, <1>6, <1>7, <1>8 DEF MintsInv

LEMMA MintsInit ==
  ASSUME Init
  PROVE  MintsInv
<1>1. \A c \in Callers : call[c].step = "idle"
  BY DEF Init, NoCall
<1>2. /\ \A t \in TokenIds : token[t] # None => t \in Legacy /\ token[t].owner = None
      /\ Stored = Legacy
  BY TokenAssumption DEF Init, Minted, Stored
<1>3. MintWithinCap
  <2>1. ASSUME NEW a \in Accounts, NEW time \in 0..MaxTime
        PROVE  {t \in TokenIds : /\ token[t] # None /\ token[t].owner = a
                                 /\ token[t].created \in (time - Window + 1)..time} = {}
    BY <1>2, TokenAssumption
  <2>2. Cardinality({}) <= HourlyCap
    BY FS_EmptySet, TokenAssumption
  <2>3. ASSUME NEW a \in Accounts, NEW time \in 0..MaxTime
        PROVE  Cardinality({t \in TokenIds :
                              /\ token[t] # None /\ token[t].owner = a
                              /\ token[t].created \in (time - Window + 1)..time}) <= HourlyCap
    BY <2>1, <2>2, Zenon
  <2> QED
    BY <2>3 DEF MintWithinCap
<1>4. NamesUnique
  BY <1>2 DEF NamesUnique
<1> QED
  BY <1>1, <1>2, <1>3, <1>4, TokenAssumption DEF MintsInv, OneMint, Minting

LEMMA SerialMints == SerialSpec => [](TokensInv /\ MintsInv)
<1>1. Init => TokensInv /\ MintsInv
  BY TokensInit, MintsInit
<1>2. TokensInv /\ MintsInv /\ [Next /\ MintsAlone]_vars => (TokensInv /\ MintsInv)'
  <2>1. ASSUME TokensInv, MintsInv, Next, MintsAlone
        PROVE  TokensInv' /\ MintsInv'
    BY <2>1, TokensNext, UnsavedMints, SavedMint DEF MintsAlone
  <2>2. ASSUME TokensInv, MintsInv, UNCHANGED vars
        PROVE  TokensInv' /\ MintsInv'
    <3>1. TokensInv'
      BY <2>2, TokensNext
    <3>2. MintsInv'
      BY <2>2 DEF MintsInv, OneMint, Minting, Stored, AllowedToSave, NamesUnique, MintWithinCap, vars
    <3> QED
      BY <3>1, <3>2
  <2> QED
    BY <2>1, <2>2
<1> QED
  BY <1>1, <1>2, PTL DEF SerialSpec

\* auth/tokens.py: as long as mints run one at a time, a live token of an account
\* shares its name with no other live token, for any number of accounts, callers,
\* names and tokens, whatever operators do meanwhile.
THEOREM NamesStayUnique == SerialSpec => []NamesUnique
<1>1. MintsInv => NamesUnique
  BY DEF MintsInv
<1> QED
  BY <1>1, SerialMints, PTL

\* auth/tokens.py: as long as mints run one at a time, no window of any length
\* holds more than the cap of tokens of one account, revoked ones included.
THEOREM MintsKeepCap == SerialSpec => []MintWithinCap
<1>1. MintsInv => MintWithinCap
  BY DEF MintsInv
<1> QED
  BY <1>1, SerialMints, PTL
=============================================================================
