-------------------------- MODULE RestClientProofs --------------------------
(***************************************************************************)
(* Proofs about TokenSource and RestClient for any number of requests and   *)
(* streams, any lifetimes and any number of tokens.                         *)
(***************************************************************************)
EXTENDS RestClient, ClientCallsProofs, TLAPS

Issuing(c) == phase[c] \in {"issue", "answer"}

\* The cache: nobody issues while it is fresh, and what it says of its token is true.
CacheInv ==
  /\ mu # Nobody => ~Fresh
  /\ FreshIsLatest
  /\ token # NoToken => expiresAt <= expiry[token]

\* A call of Token: what it was granted is the newest token, and nobody else has it.
CallInv == \A c \in Callers :
  /\ Issuing(c) => issuedAt[c] <= clock /\ clock <= issuedAt[c] + Timeout
  /\ phase[c] = "answer" =>
       /\ grant[c] = own /\ token < own /\ \A u \in Callers : result[u] < own
       /\ life[c] \in Lifetimes /\ issuedAt[c] + life[c] <= expiry[own]

TokenInv == TokenTypeOK /\ CacheInv /\ CallInv

\* What was refused is older than what is being granted.
OlderRefused == \A c, u \in Callers : phase[c] = "answer" => refused[u] < own

\* A request that can be executed, still or again, has had no effect that counts.
NoEffectYet == \A r \in Requests :
  /\ retried[r] => Kind(r) # "keyless"
  /\ Kind(r) # "keyless" \/ user[r] \in {"idle", "token", "sent"} => effects[r] = 0

\* Who has sent something has a token.
SentWithToken == \A u \in Callers : user[u] \in {"sent", "tokenError"} => result[u] # NoToken

\* A request is made of a valid call only.
OnlyValid == \A r \in Requests :
  user[r] \in {"token", "sent", "tokenError"} => Valid(Asked(r))

UserInv ==
  /\ TypeOK /\ SentWithToken /\ OlderRefused /\ NoEffectYet /\ OnlyValid
  /\ NoDoubleEffect /\ RefusedNotCached /\ RetryUsesNewToken

\* A step changes nothing r knows.
Unmoved(r) ==
  UNCHANGED <<user[r], retried[r], mix, result[r], refused[r], effects[r], sentAt[r],
              firstAt[r]>>

\* Some lifetime that began at s is over by e.
Spans(s, e) == \E l \in Lifetimes : s + l <= e

\* r has been sent and is not over; when it was first sent, and with which token.
Begun(r) == user[r] \in {"sent", "tokenError"} \/ (retried[r] /\ user[r] \in {"idle", "token"})
First(r) == IF retried[r] THEN firstAt[r] ELSE sentAt[r]
Stale(r) == IF retried[r] THEN refused[r] ELSE result[r]

\* Tokens newer than the one r was first sent with were asked for after that.
NewerIsYounger(r) ==
  /\ First(r) <= clock
  /\ \A c \in Callers : Issuing(c) => First(r) <= issuedAt[c]
  /\ token > Stale(r) => Spans(First(r), expiresAt)

\* r has taken a token's lifetime less the margin.
Late(r) == Spans(First(r), clock + Margin)

\* The token of r is still the one that counts, and nobody is replacing it.
Holds(r) ==
  /\ token = result[r] /\ result[r] = issued /\ mu = Nobody
  /\ Spans(First(r), expiresAt)

Timing(r) ==
  /\ user[r] = "sent" =>
       clock <= sentAt[r] + Timeout /\ sentAt[r] + Timeout < expiry[result[r]]
  /\ Begun(r) => NewerIsYounger(r)
  /\ user[r] = "tokenError" => result[r] # issued
  /\ retried[r] /\ user[r] = "sent" => Late(r) \/ Holds(r)
  /\ retried[r] /\ user[r] = "tokenError" => Late(r)
  /\ user[r] = "refused" /\ Kind(r) # "keyless" => retried[r] /\ Late(r)

TimingInv ==
  TimingAssumption /\ others = 0 => own = issued /\ \A r \in Requests : Timing(r)

IInv == TokenInv /\ UserInv /\ TimingInv

-----------------------------------------------------------------------------
(***************************************************************************)
(* The token cache.                                                        *)
(***************************************************************************)
LEMMA TokenInitInvariant == TokenInit => TokenInv
<1> SUFFICES ASSUME TokenInit PROVE TokenInv
  OBVIOUS
<1>1. TokenTypeOK
  BY ConstantsAssumption DEF TokenInit, TokenTypeOK, NoToken, Tokens
<1>2. CacheInv /\ CallInv
  BY DEF TokenInit, CacheInv, CallInv, FreshIsLatest, Fresh, NoToken, Issuing
<1> QED
  BY <1>1, <1>2 DEF TokenInv

LEMMA TokenTypeStep ==
  ASSUME TokenTypeOK, [TokenNext]_tokenVars
  PROVE  TokenTypeOK'
<1> USE DEF NoToken, Tokens
<1>1. ASSUME NEW c \in Callers, Call(c) PROVE TokenTypeOK'
  BY <1>1 DEF Call, TokenTypeOK, cacheVars, endpointVars
<1>2. ASSUME NEW c \in Callers, Hit(c) PROVE TokenTypeOK'
  BY <1>2 DEF Hit, Return, TokenTypeOK, cacheVars, endpointVars
<1>3. ASSUME NEW c \in Callers, Miss(c) PROVE TokenTypeOK'
  BY <1>3, ConstantsAssumption DEF Miss, CanLock, TokenTypeOK, cacheVars, endpointVars
<1>4. ASSUME NEW c \in Callers, Grant(c) PROVE TokenTypeOK'
  <2>1. issued' \in 0..MaxTokens /\ own' \in 0..issued' /\ 0..issued \subseteq 0..issued'
        /\ issued + 1 \in 0..issued'
    BY <1>4, ConstantsAssumption DEF Grant, TokenTypeOK
  <2>2. expiry' \in [Tokens -> Nat] /\ life' \in [Callers -> Nat]
    BY <1>4, ConstantsAssumption DEF Grant, TokenTypeOK
  <2>3. /\ phase' \in [Callers -> {"out", "lock", "issue", "answer"}]
        /\ \A u \in Callers : phase'[u] \in {"issue", "answer"}
                              <=> phase[u] \in {"issue", "answer"}
    BY <1>4 DEF Grant, TokenTypeOK
  <2>4. grant' \in [Callers -> 0..issued'] /\ result' \in [Callers -> 0..issued']
    BY <1>4, <2>1 DEF Grant, TokenTypeOK
  <2> QED
    BY <1>4, <2>1, <2>2, <2>3, <2>4 DEF Grant, TokenTypeOK, cacheVars
<1>5. ASSUME NEW c \in Callers, Store(c) PROVE TokenTypeOK'
  <2>1. token' \in 0..issued /\ expiresAt' \in Nat
    BY <1>5 DEF Store, ExpiryOf, TokenTypeOK
  <2>2. /\ result' \in [Callers -> 0..issued] /\ grant' \in [Callers -> 0..issued]
        /\ issuedAt' \in [Callers -> Nat] /\ life' \in [Callers -> Nat]
    BY <1>5, ConstantsAssumption DEF Store, Return, TokenTypeOK
  <2>3. /\ phase' \in [Callers -> {"out", "lock", "issue", "answer"}]
        /\ mu' = Nobody /\ \A u \in Callers : ~(phase'[u] \in {"issue", "answer"})
    BY <1>5 DEF Store, Return, TokenTypeOK
  <2> QED
    BY <1>5, <2>1, <2>2, <2>3, ConstantsAssumption DEF Store, TokenTypeOK, endpointVars
<1>6. ASSUME NEW c \in Callers, IssueFails(c) PROVE TokenTypeOK'
  <2>1. /\ result' \in [Callers -> 0..issued] /\ grant' \in [Callers -> 0..issued]
        /\ issuedAt' \in [Callers -> Nat] /\ life' \in [Callers -> Nat]
    BY <1>6, ConstantsAssumption DEF IssueFails, Return, TokenTypeOK
  <2>2. /\ phase' \in [Callers -> {"out", "lock", "issue", "answer"}]
        /\ mu' = Nobody /\ \A u \in Callers : ~(phase'[u] \in {"issue", "answer"})
    BY <1>6 DEF IssueFails, Unlock, Return, TokenTypeOK
  <2> QED
    BY <1>6, <2>1, <2>2, ConstantsAssumption
    DEF IssueFails, TokenTypeOK, cacheVars, endpointVars
<1>7. ASSUME NEW t \in Nat, Invalidate(t) PROVE TokenTypeOK'
  BY <1>7 DEF Invalidate, Clears, TokenTypeOK, cacheVars, callVars, endpointVars
<1>8. ASSUME NEW c \in Callers, Forget(c) PROVE TokenTypeOK'
  BY <1>8 DEF Forget, TokenTypeOK, cacheVars, callVars, endpointVars
<1>9. CASE Tick
  BY <1>9 DEF Tick, TokenTypeOK, cacheVars, callVars, endpointVars
<1>10. CASE OtherGrant
  BY <1>10, ConstantsAssumption DEF OtherGrant, TokenTypeOK, cacheVars, callVars
<1>11. CASE UNCHANGED tokenVars
  BY <1>11 DEF tokenVars, TokenTypeOK, cacheVars, callVars, endpointVars
<1>12. \A c \in Callers : result[c] \in Nat
  BY DEF TokenTypeOK
<1> QED
  BY <1>1, <1>2, <1>3, <1>4, <1>5, <1>6, <1>7, <1>8, <1>9, <1>10, <1>11, <1>12
  DEF TokenNext, TokenStep

\* Each step keeps a fresh cache the last grant and what it says of its token true.
LEMMA CacheStep ==
  ASSUME TokenInv, [TokenNext]_tokenVars
  PROVE  CacheInv'
<1> USE DEF NoToken, Tokens, TokenInv
<1>1. ASSUME NEW c \in Callers, Call(c) PROVE CacheInv'
  BY <1>1 DEF Call, CacheInv, FreshIsLatest, Fresh, cacheVars, endpointVars
<1>2. ASSUME NEW c \in Callers, Hit(c) PROVE CacheInv'
  BY <1>2 DEF Hit, CacheInv, FreshIsLatest, Fresh, cacheVars, endpointVars
<1>3. ASSUME NEW c \in Callers, Miss(c) PROVE CacheInv'
  BY <1>3 DEF Miss, CacheInv, FreshIsLatest, Fresh, cacheVars, endpointVars
<1>4. ASSUME NEW c \in Callers, Grant(c) PROVE CacheInv'
  <2>1. mu = c /\ mu # Nobody
    BY <1>4, ConstantsAssumption DEF Grant, TokenTypeOK
  <2>2. token # issued + 1 /\ (token # 0 => token \in Tokens)
    BY ConstantsAssumption DEF TokenTypeOK
  <2> QED
    BY <1>4, <2>1, <2>2 DEF Grant, CacheInv, FreshIsLatest, Fresh, cacheVars, TokenTypeOK
<1>5. ASSUME NEW c \in Callers, Store(c) PROVE CacheInv'
  <2>1. token' = own /\ own' = own /\ mu' = Nobody /\ expiry' = expiry
    BY <1>5 DEF Store, CallInv, endpointVars
  <2>2. expiresAt' <= expiry[own]
    BY <1>5 DEF Store, ExpiryOf, CallInv
  <2> QED
    BY <2>1, <2>2 DEF CacheInv, FreshIsLatest
<1>6. ASSUME NEW c \in Callers, IssueFails(c) PROVE CacheInv'
  BY <1>6 DEF IssueFails, Unlock, CacheInv, FreshIsLatest, Fresh, cacheVars, endpointVars
<1>7. ASSUME NEW t \in Nat, Invalidate(t) PROVE CacheInv'
  BY <1>7 DEF Invalidate, CacheInv, FreshIsLatest, Fresh, cacheVars, endpointVars
<1>8. ASSUME NEW c \in Callers, Forget(c) PROVE CacheInv'
  BY <1>8 DEF Forget, CacheInv, FreshIsLatest, Fresh, cacheVars, endpointVars
<1>9. CASE Tick
  BY <1>9, ConstantsAssumption
  DEF Tick, CacheInv, FreshIsLatest, Fresh, cacheVars, endpointVars, TokenTypeOK
<1>10. CASE OtherGrant
  <2>1. token # issued + 1 /\ (token # 0 => token \in Tokens)
    BY ConstantsAssumption DEF TokenTypeOK
  <2> QED
    BY <1>10, <2>1 DEF OtherGrant, CacheInv, FreshIsLatest, Fresh, cacheVars, TokenTypeOK
<1>11. CASE UNCHANGED tokenVars
  BY <1>11 DEF tokenVars, CacheInv, FreshIsLatest, Fresh, cacheVars, endpointVars
<1>12. \A c \in Callers : result[c] \in Nat
  BY DEF TokenTypeOK
<1> QED
  BY <1>1, <1>2, <1>3, <1>4, <1>5, <1>6, <1>7, <1>8, <1>9, <1>10, <1>11, <1>12
  DEF TokenNext, TokenStep

\* Each step keeps the token of a call in "answer" the newest.
LEMMA CallStep ==
  ASSUME TokenInv, [TokenNext]_tokenVars
  PROVE  CallInv'
<1> USE DEF NoToken, Tokens, TokenInv, Issuing
<1>0. \A c \in Callers : Issuing(c) <=> mu = c
  BY DEF TokenTypeOK
<1>1. ASSUME NEW c \in Callers, Call(c) PROVE CallInv'
  BY <1>1 DEF Call, CallInv, TokenTypeOK, cacheVars, endpointVars
<1>2. ASSUME NEW c \in Callers, Hit(c) PROVE CallInv'
  <2>1. \A u \in Callers : ~Issuing(u)
    BY <1>2, <1>0, ConstantsAssumption DEF Hit, CanLock
  <2> QED
    BY <1>2, <2>1 DEF Hit, Return, CallInv, TokenTypeOK
<1>3. ASSUME NEW c \in Callers, Miss(c) PROVE CallInv'
  BY <1>3, ConstantsAssumption DEF Miss, CallInv, TokenTypeOK, cacheVars, endpointVars
<1>4. ASSUME NEW c \in Callers, Grant(c) PROVE CallInv'
  <2>1. \A u \in Callers : u # c => ~Issuing(u)
    BY <1>4, <1>0 DEF Grant
  <2>2. PICK l \in Lifetimes : /\ expiry' = [expiry EXCEPT ![issued + 1] = clock + l]
                              /\ life' = [life EXCEPT ![c] = l]
    BY <1>4 DEF Grant
  <2>3. \A u \in Callers : u # c => ~Issuing(u)'
    BY <1>4, <2>1 DEF Grant, TokenTypeOK
  <2>4. phase'[c] = "answer" /\ issuedAt' = issuedAt /\ clock' = clock /\ own' = issued + 1
        /\ grant'[c] = issued + 1 /\ life'[c] = l /\ token' = token /\ result' = result
    BY <1>4, <2>2 DEF Grant, TokenTypeOK, cacheVars
  <2>5. issued + 1 \in Tokens /\ expiry'[issued + 1] = clock + l
    BY <1>4, <2>2, ConstantsAssumption DEF Grant, TokenTypeOK
  <2>6. issuedAt[c] <= clock /\ clock <= issuedAt[c] + Timeout /\ issuedAt[c] \in Nat
        /\ clock \in Nat /\ l \in Nat
    BY <1>4, ConstantsAssumption DEF Grant, CallInv, TokenTypeOK
  <2>7. token < issued + 1 /\ \A u \in Callers : result[u] < issued + 1
    BY DEF TokenTypeOK
  <2> QED
    BY <2>3, <2>4, <2>5, <2>6, <2>7 DEF CallInv
<1>5. ASSUME NEW c \in Callers, Store(c) PROVE CallInv'
  <2>1. \A u \in Callers : ~Issuing(u)'
    BY <1>5, <1>0 DEF Store, Return, TokenTypeOK
  <2> QED
    BY <2>1 DEF CallInv
<1>6. ASSUME NEW c \in Callers, IssueFails(c) PROVE CallInv'
  <2>1. \A u \in Callers : ~Issuing(u)'
    BY <1>6, <1>0 DEF IssueFails, Return, TokenTypeOK
  <2> QED
    BY <2>1 DEF CallInv
<1>7. ASSUME NEW t \in Nat, Invalidate(t) PROVE CallInv'
  <2>1. \A u \in Callers : ~Issuing(u)
    BY <1>7, <1>0, ConstantsAssumption DEF Invalidate, CanLock
  <2> QED
    BY <1>7, <2>1 DEF Invalidate, CallInv, callVars
<1>8. ASSUME NEW c \in Callers, Forget(c) PROVE CallInv'
  <2>1. \A u \in Callers : result'[u] = result[u] \/ result'[u] = 0
    BY <1>8 DEF Forget, TokenTypeOK
  <2>2. \A u \in Callers : phase[u] = "answer" => 0 < own
    BY DEF CallInv, TokenTypeOK
  <2> QED
    BY <1>8, <2>1, <2>2 DEF Forget, CallInv, cacheVars, callVars, endpointVars
<1>9. CASE Tick
  BY <1>9, ConstantsAssumption
  DEF Tick, IssueInTime, CallInv, cacheVars, callVars, endpointVars, TokenTypeOK
<1>10. CASE OtherGrant
  <2>1. own # issued + 1
    BY DEF TokenTypeOK
  <2>2. PICK l \in Lifetimes : expiry' = [expiry EXCEPT ![issued + 1] = clock + l]
    BY <1>10 DEF OtherGrant
  <2>3. \A u \in Callers : phase[u] = "answer" => own \in Tokens
    BY ConstantsAssumption DEF CallInv, TokenTypeOK
  <2>4. \A u \in Callers : phase[u] = "answer" => expiry'[own] = expiry[own]
    BY <2>1, <2>2, <2>3 DEF TokenTypeOK
  <2> QED
    BY <1>10, <2>4 DEF OtherGrant, CallInv, cacheVars, callVars
<1>11. CASE UNCHANGED tokenVars
  BY <1>11 DEF tokenVars, CallInv, cacheVars, callVars, endpointVars
<1>12. \A c \in Callers : result[c] \in Nat
  BY DEF TokenTypeOK
<1> QED
  BY <1>1, <1>2, <1>3, <1>4, <1>5, <1>6, <1>7, <1>8, <1>9, <1>10, <1>11, <1>12
  DEF TokenNext, TokenStep

LEMMA TokenStepInvariant == TokenInv /\ [TokenNext]_tokenVars => TokenInv'
<1> SUFFICES ASSUME TokenInv, [TokenNext]_tokenVars PROVE TokenInv'
  OBVIOUS
<1>1. TokenTypeOK'
  BY TokenTypeStep DEF TokenInv
<1> QED
  BY <1>1, CacheStep, CallStep DEF TokenInv

-----------------------------------------------------------------------------
(***************************************************************************)
(* Requests and streams.                                                   *)
(***************************************************************************)
LEMMA Parts == \A r \in Requests : r \in Callers /\ r \notin Dialers
<1> QED
  BY UsersAssumption

\* A request has a call, whose kind says whether the server recognises a second execution.
LEMMA Counted ==
  ASSUME TypeOK, NEW r \in Requests
  PROVE  /\ Asked(r) \in Calls
         /\ Recognised(Rq(r)) <=> Kind(r) # "keyless"
         /\ Kind(r) \in {"get", "keyed", "keyless"}
<1>1. Asked(r) \in Calls
  BY UsersAssumption DEF TypeOK, Asked
<1>2. Recognised(RequestOf(Asked(r))) <=> KindOf(RequestOf(Asked(r))) # "keyless"
  BY <1>1, KeyIsInBody, Zenon DEF RetryIsRecognised
<1>3. Kind(r) \in {"get", "keyed", "keyless"}
  BY DEF Kind, KindOf
<1> QED
  BY <1>1, <1>2, <1>3, Zenon DEF Kind, Rq

LEMMA ExecuteIs ==
  ASSUME TypeOK, NEW r \in Requests, Execute(r)
  PROVE  /\ effects' \in [Requests -> Nat] /\ \A u \in Requests \ {r} : effects'[u] = effects[u]
         /\ effects'[r] = IF Kind(r) = "keyless" THEN effects[r] + 1 ELSE effects[r]
<1>1. effects \in [Requests -> Nat]
  BY DEF TypeOK
<1>2. effects' = [effects EXCEPT ![r] = IF Kind(r) = "keyless" THEN effects[r] + 1
                                        ELSE effects[r]]
  BY Counted, <1>1 DEF Execute
<1> QED
  BY <1>1, <1>2

\* The calls do not change.
LEMMA MixStays ==
  ASSUME [Next]_vars
  PROVE  mix' = mix
<1>1. ASSUME NEW r \in Requests, Request(r) PROVE mix' = mix
  BY <1>1 DEF Request, RefuseCall, Begin, TokenWaits, Send, NoTokenForRequest, Answered,
     ExchangeFails, Done, RefuseRequest, ReadRefusal
<1>2. ASSUME NEW d \in Dialers, Dialer(d) PROVE mix' = mix
  BY <1>2 DEF Dialer, Begin, TokenWaits, SendDial, NoTokenForDial, Handshake
<1>3. CASE TimePasses \/ ElsewhereGranted \/ UNCHANGED vars
  BY <1>3 DEF TimePasses, ElsewhereGranted, vars
<1> QED
  BY <1>1, <1>2, <1>3 DEF Next

LEMMA KindStays ==
  ASSUME mix' = mix, NEW r \in Requests
  PROVE  Kind(r)' = Kind(r) /\ Asked(r)' = Asked(r)
  BY DEF Kind, Rq, Asked

LEMMA DialerParts == \A d \in Dialers : d \in Callers /\ d \notin Requests
<1> QED
  BY UsersAssumption

\* Every step of the users is a step of the token cache or leaves it alone.
LEMMA UsesCache ==
  ASSUME SentWithToken, [Next]_vars
  PROVE  [TokenNext]_tokenVars
<1>1. ASSUME NEW u \in Callers, Begin(u) \/ TokenWaits(u) PROVE TokenNext
  BY <1>1 DEF Begin, TokenWaits, TokenNext, TokenStep
<1>2. ASSUME NEW r \in Requests, Send(r) \/ NoTokenForRequest(r) PROVE TokenNext
  BY <1>2, Parts DEF Send, NoTokenForRequest, TokenNext, TokenStep
<1>3. ASSUME NEW d \in Dialers, SendDial(d) \/ NoTokenForDial(d) PROVE TokenNext
  BY <1>3, DialerParts DEF SendDial, NoTokenForDial, TokenNext, TokenStep
<1>4. ASSUME NEW r \in Requests, Answered(r) \/ ExchangeFails(r) PROVE TokenNext
  BY <1>4, Parts DEF Answered, ExchangeFails, Done, SentWithToken, TokenNext
<1>5. ASSUME NEW r \in Requests, RefuseRequest(r) PROVE UNCHANGED tokenVars
  BY <1>5 DEF RefuseRequest
<1>6. ASSUME NEW r \in Requests, ReadRefusal(r) PROVE TokenNext
  BY <1>6, Parts DEF ReadRefusal, DropToken, SentWithToken, TokenNext
<1>7. ASSUME NEW d \in Dialers, Handshake(d) PROVE TokenNext
  BY <1>7, DialerParts DEF Handshake, SentWithToken, TokenNext
<1>8. CASE TimePasses \/ ElsewhereGranted
  BY <1>8 DEF TimePasses, ElsewhereGranted, TokenNext
<1>9. CASE UNCHANGED vars
  BY <1>9 DEF vars
<1>10. ASSUME NEW r \in Requests, RefuseCall(r) PROVE UNCHANGED tokenVars
  BY <1>10 DEF RefuseCall
<1> QED
  BY <1>1, <1>2, <1>3, <1>4, <1>5, <1>6, <1>7, <1>8, <1>9, <1>10, Parts, DialerParts
  DEF Next, Request, Dialer

\* Nothing granted is taken back.
LEMMA Monotone ==
  ASSUME TokenTypeOK, [TokenNext]_tokenVars
  PROVE  issued <= issued' /\ others <= others'
<1>1. issued \in Nat /\ others \in Nat
  BY ConstantsAssumption DEF TokenTypeOK
<1>2. CASE \E c \in Callers : TokenStep(c)
  BY <1>1, <1>2 DEF TokenStep, Call, Hit, Miss, Grant, Store, IssueFails, endpointVars
<1>3. CASE \E c \in Callers : result[c] # NoToken /\ (Invalidate(result[c]) \/ Forget(c))
  BY <1>1, <1>3 DEF Invalidate, Forget, endpointVars
<1>4. CASE Tick \/ OtherGrant
  BY <1>1, <1>4 DEF Tick, OtherGrant, endpointVars
<1>5. CASE UNCHANGED tokenVars
  BY <1>1, <1>5 DEF tokenVars, endpointVars
<1> QED
  BY <1>2, <1>3, <1>4, <1>5 DEF TokenNext

LEMMA TypeStep ==
  ASSUME TypeOK, TokenTypeOK', issued <= issued', [Next]_vars
  PROVE  TypeOK'
<1>1. 0..issued \subseteq 0..issued' /\ issued \in Nat /\ issued' \in Nat
  BY ConstantsAssumption DEF TypeOK, TokenTypeOK
<1>2. refused \in [Callers -> 0..issued']
  BY <1>1 DEF TypeOK
<1>3. \A u \in Callers : [refused EXCEPT ![u] = result[u]] \in [Callers -> 0..issued']
  BY <1>1, <1>2 DEF TypeOK, TokenTypeOK
<1>4. clock \in Nat
  BY DEF TypeOK, TokenTypeOK
<1>5. ASSUME NEW u \in Callers, Begin(u) \/ TokenWaits(u) \/ RefuseCall(u) PROVE TypeOK'
  BY <1>2, <1>5 DEF Begin, TokenWaits, RefuseCall, Goto, TypeOK, userVars, timeVars
<1>6. ASSUME NEW r \in Requests, Send(r) PROVE TypeOK'
  BY <1>2, <1>4, <1>6 DEF Send, Goto, TypeOK
<1>7. ASSUME NEW d \in Dialers, SendDial(d) PROVE TypeOK'
  <2>1. refused' \in [Callers -> 0..issued']
    <3> DEFINE v == IF result'[d] = refused[d] THEN refused[d] ELSE NoToken
    <3>1. refused' = [refused EXCEPT ![d] = v]
      BY <1>7, DialerParts DEF SendDial, TypeOK
    <3>2. v \in 0..issued'
      BY <1>1, <1>2, DialerParts DEF NoToken
    <3> HIDE DEF v
    <3> QED
      BY <1>2, <3>1, <3>2
  <2> QED
    BY <2>1, <1>7 DEF SendDial, Goto, TypeOK, timeVars
<1>8. ASSUME NEW r \in Requests, NoTokenForRequest(r) PROVE TypeOK'
  BY <1>2, <1>8 DEF NoTokenForRequest, Goto, TypeOK, timeVars
<1>9. ASSUME NEW d \in Dialers, NoTokenForDial(d) PROVE TypeOK'
  BY <1>2, <1>9 DEF NoTokenForDial, Goto, TypeOK, timeVars
<1>10. ASSUME NEW r \in Requests, Answered(r) \/ ExchangeFails(r) PROVE TypeOK'
  BY <1>2, <1>10 DEF Answered, ExchangeFails, Done, Execute, Goto, TypeOK
<1>11. ASSUME NEW r \in Requests, RefuseRequest(r) PROVE TypeOK'
  <2>1. effects' \in [Requests -> Nat]
    BY <1>11 DEF RefuseRequest, Execute, TypeOK
  <2> QED
    BY <1>2, <2>1, <1>11 DEF RefuseRequest, Goto, TypeOK, timeVars
<1>12. ASSUME NEW r \in Requests, ReadRefusal(r) PROVE TypeOK'
  <2>1. refused' \in [Callers -> 0..issued']
    BY <1>3, <1>12, Parts DEF ReadRefusal, Refused
  <2> QED
    BY <2>1, <1>12 DEF ReadRefusal, Goto, TypeOK
<1>13. ASSUME NEW d \in Dialers, Handshake(d) PROVE TypeOK'
  <2>1. refused' \in [Callers -> 0..issued']
    BY <1>2, <1>3, <1>13, DialerParts DEF Handshake, Refused
  <2> QED
    BY <2>1, <1>13 DEF Handshake, Goto, TypeOK, timeVars
<1>14. CASE TimePasses \/ ElsewhereGranted
  <2>1. UNCHANGED <<mix, user, retried, sentAt, firstAt, effects, refused>>
    BY <1>14 DEF TimePasses, ElsewhereGranted, userVars, timeVars
  <2> QED
    BY <1>2, <2>1 DEF TypeOK
<1>15. CASE UNCHANGED vars
  BY <1>2, <1>15 DEF vars, userVars, timeVars, TypeOK
<1> QED
  BY <1>5, <1>6, <1>7, <1>8, <1>9, <1>10, <1>11, <1>12, <1>13, <1>14, <1>15, Parts,
     DialerParts
  DEF Next, Request, Dialer

\* What Token returns is the cached token, the last this process was granted.
LEMMA TokenReturns ==
  ASSUME TokenInv, NEW u \in Callers, Hit(u) \/ Store(u)
  PROVE  /\ result' = [result EXCEPT ![u] = token'] /\ token' # NoToken
         /\ token' = own /\ own' = own /\ issued' = issued /\ expiry' = expiry
         /\ clock' = clock /\ others' = others /\ mu' = Nobody
         /\ \A c \in Callers : ~Issuing(c)'
<1>1. TokenTypeOK'
  BY TokenTypeStep DEF TokenInv, TokenNext, TokenStep
<1>2. \A c \in Callers : c # Nobody
  BY ConstantsAssumption
<1>3. CASE Hit(u)
  BY <1>1, <1>2, <1>3 DEF Hit, CanLock, Return, TokenInv, CacheInv, FreshIsLatest, Fresh,
     cacheVars, endpointVars, TokenTypeOK, Issuing
<1>4. CASE Store(u)
  <2>1. grant[u] = own /\ own # NoToken
    BY <1>4 DEF Store, TokenInv, CallInv, TokenTypeOK, NoToken
  <2> QED
    BY <1>1, <1>2, <1>4, <2>1 DEF Store, Return, endpointVars, TokenTypeOK, Issuing
<1> QED
  BY <1>3, <1>4

\* The cache only changes to nothing or to the token just granted.
LEMMA CacheMoves ==
  ASSUME TokenInv, [TokenNext]_tokenVars
  PROVE  \/ token' \in {token, NoToken}
         \/ token' = own /\ \E c \in Callers : phase[c] = "answer"
<1>1. ASSUME NEW c \in Callers, Store(c) PROVE token' = own /\ phase[c] = "answer"
  BY <1>1 DEF Store, TokenInv, CallInv
<1>2. ASSUME NEW c \in Callers, TokenStep(c), ~Store(c) PROVE token' = token
  BY <1>2 DEF TokenStep, Call, Hit, Miss, Grant, IssueFails, cacheVars
<1>3. ASSUME NEW t \in Nat, Invalidate(t) PROVE token' \in {token, NoToken}
  BY <1>3 DEF Invalidate, cacheVars
<1>4. ASSUME NEW c \in Callers, Forget(c) PROVE token' = token
  BY <1>4 DEF Forget, cacheVars
<1>5. CASE Tick \/ OtherGrant \/ UNCHANGED tokenVars
  BY <1>5 DEF Tick, OtherGrant, tokenVars, cacheVars
<1>6. \A c \in Callers : result[c] \in Nat
  BY DEF TokenInv, TokenTypeOK
<1> QED
  BY <1>1, <1>2, <1>3, <1>4, <1>5, <1>6 DEF TokenNext

\* A call in "answer" was there before, or has the newest token of all.
LEMMA AnswerMoves ==
  ASSUME TokenInv, [TokenNext]_tokenVars, NEW c \in Callers, phase'[c] = "answer"
  PROVE  (phase[c] = "answer" /\ own' = own) \/ own' = issued + 1
<1>1. ASSUME NEW u \in Callers, TokenStep(u), ~Grant(u)
      PROVE  phase[c] = "answer" /\ own' = own
  BY <1>1 DEF TokenStep, Call, Hit, Miss, Store, IssueFails, Return, endpointVars,
     TokenInv, TokenTypeOK
<1>2. ASSUME NEW u \in Callers, Grant(u) PROVE own' = issued + 1
  BY <1>2 DEF Grant
<1>3. CASE (\E u \in Callers : Invalidate(result[u]) \/ Forget(u))
           \/ Tick \/ OtherGrant \/ UNCHANGED tokenVars
  BY <1>3 DEF Invalidate, Forget, Tick, OtherGrant, tokenVars, callVars, endpointVars
<1> QED
  BY <1>1, <1>2, <1>3 DEF TokenNext

\* How a step changes what was refused: to what a user holds, or to nothing.
LEMMA RefusedMoves ==
  ASSUME TypeOK, [Next]_vars, NEW u \in Callers
  PROVE  /\ refused'[u] \in {refused[u], result[u], NoToken}
         /\ u \in Requests /\ refused'[u] # refused[u] =>
              ReadRefusal(u) /\ refused'[u] = result[u]
<1>1. ASSUME NEW r \in Requests, ReadRefusal(r)
      PROVE  refused' = [refused EXCEPT ![r] = result[r]]
  BY <1>1 DEF ReadRefusal, Refused
<1>2. ASSUME NEW d \in Dialers, SendDial(d)
      PROVE  \A v \in Callers : refused'[v] = refused[v] \/ (v = d /\ refused'[v] = NoToken)
  BY <1>2 DEF SendDial, TypeOK
<1>3. ASSUME NEW d \in Dialers, Handshake(d)
      PROVE  refused' = refused \/ refused' = [refused EXCEPT ![d] = result[d]]
  BY <1>3 DEF Handshake, Refused
<1>4. CASE refused' = refused
  BY <1>4
<1>5. \/ refused' = refused
      \/ \E r \in Requests : ReadRefusal(r)
      \/ \E d \in Dialers : SendDial(d) \/ Handshake(d)
  BY DEF Next, Request, Dialer, RefuseCall, Begin, TokenWaits, Send, NoTokenForRequest,
     NoTokenForDial, Answered, RefuseRequest, ExchangeFails, Done, TimePasses, ElsewhereGranted, vars,
     userVars
<1>6. ASSUME NEW r \in Requests, ReadRefusal(r)
      PROVE  refused'[u] = refused[u] \/ (u = r /\ refused'[u] = result[u])
  BY <1>1, <1>6 DEF TypeOK
<1>7. ASSUME NEW d \in Dialers, SendDial(d) \/ Handshake(d)
      PROVE  refused'[u] = refused[u] \/ (u = d /\ refused'[u] \in {result[u], NoToken})
  BY <1>2, <1>3, <1>7 DEF TypeOK
<1> QED
  BY <1>4, <1>5, <1>6, <1>7, DialerParts

LEMMA OlderRefusedStep ==
  ASSUME TokenInv, UserInv, [TokenNext]_tokenVars, [Next]_vars
  PROVE  OlderRefused'
<1> SUFFICES ASSUME NEW c \in Callers, NEW u \in Callers, phase'[c] = "answer"
             PROVE  refused'[u] < own'
  BY DEF OlderRefused
<1>1. refused'[u] \in {refused[u], result[u], NoToken}
  BY RefusedMoves DEF UserInv
<1>2. refused[u] \in 0..issued /\ result[u] \in 0..issued /\ issued \in Nat /\ own \in Nat
      /\ token \in Nat
  BY ConstantsAssumption DEF UserInv, TypeOK, TokenTypeOK
<1>3. CASE phase[c] = "answer" /\ own' = own
  <2>1. refused[u] < own /\ result[u] < own /\ token < own
    BY <1>3 DEF UserInv, OlderRefused, TokenInv, CallInv
  <2> QED
    BY <1>1, <1>2, <1>3, <2>1 DEF NoToken
<1>4. CASE own' = issued + 1
  BY <1>1, <1>2, <1>4 DEF NoToken
<1> QED
  BY <1>3, <1>4, AnswerMoves

LEMMA RefusedNotCachedStep ==
  ASSUME TokenInv, UserInv, [TokenNext]_tokenVars, [Next]_vars
  PROVE  RefusedNotCached'
<1> SUFFICES ASSUME NEW r \in Requests, refused'[r] # NoToken
             PROVE  token' # refused'[r]
  BY DEF RefusedNotCached
<1>1. r \in Callers
  BY Parts
<1>2. CASE refused'[r] # refused[r]
  <2>1. ReadRefusal(r) /\ refused'[r] = result[r]
    BY <1>1, <1>2, RefusedMoves DEF UserInv
  <2> QED
    BY <2>1 DEF ReadRefusal, DropToken, Invalidate, Clears, cacheVars
<1>3. CASE refused'[r] = refused[r]
  <2>1. CASE token' \in {token, NoToken}
    BY <1>3, <2>1 DEF UserInv, RefusedNotCached
  <2>2. CASE token' = own /\ \E c \in Callers : phase[c] = "answer"
    <3>1. refused[r] < own /\ refused[r] \in Nat /\ own \in Nat
      BY <1>1, <2>2 DEF UserInv, OlderRefused, TypeOK, TokenTypeOK
    <3> QED
      BY <1>3, <2>2, <3>1
  <2> QED
    BY <2>1, <2>2, CacheMoves
<1> QED
  BY <1>2, <1>3

\* A step that is not r's own leaves what r knows alone.
LEMMA Frame ==
  ASSUME TokenInv, TypeOK, [Next]_vars, NEW r \in Requests, ~Request(r)
  PROVE  Unmoved(r)
<1>1. r \in Callers /\ r \notin Dialers
  BY Parts
<1>2. ASSUME NEW u \in Callers, u # r, Begin(u) \/ TokenWaits(u) \/ RefuseCall(u)
      PROVE  Unmoved(r)
  BY <1>1, <1>2 DEF Begin, TokenWaits, RefuseCall, Goto, Call, Miss, Grant,
     tokenVars, userVars, timeVars, TypeOK, Unmoved
<1>3. ASSUME NEW u \in Requests, u # r, Send(u) \/ NoTokenForRequest(u) PROVE Unmoved(r)
  BY <1>1, <1>3 DEF Send, NoTokenForRequest, Goto, Hit, Store, IssueFails, Return, timeVars,
     TypeOK, TokenTypeOK, Unmoved
<1>4. ASSUME NEW u \in Dialers, SendDial(u) \/ NoTokenForDial(u) PROVE Unmoved(r)
  BY <1>1, <1>4 DEF SendDial, NoTokenForDial, Goto, Hit, Store, IssueFails, Return, timeVars,
     TypeOK, TokenTypeOK, Unmoved
<1>5. ASSUME NEW u \in Requests, u # r, Answered(u) \/ ExchangeFails(u) PROVE Unmoved(r)
  BY <1>1, <1>5 DEF Answered, ExchangeFails, Done, Execute, Goto, Forget, TypeOK,
     TokenTypeOK, Unmoved
<1>6. ASSUME NEW u \in Requests, u # r, RefuseRequest(u) \/ ReadRefusal(u) PROVE Unmoved(r)
  BY <1>1, <1>6 DEF RefuseRequest, ReadRefusal, DropToken, Invalidate, Refused, Execute,
     Goto, tokenVars, timeVars, TypeOK, TokenTypeOK, Unmoved
<1>7. ASSUME NEW u \in Dialers, Handshake(u) PROVE Unmoved(r)
  BY <1>1, <1>7 DEF Handshake, Refused, Goto, Forget, timeVars, TypeOK, TokenTypeOK, Unmoved
<1>8. CASE TimePasses \/ ElsewhereGranted \/ UNCHANGED vars
  BY <1>8 DEF TimePasses, ElsewhereGranted, Tick, OtherGrant, vars, userVars, timeVars,
     tokenVars, Unmoved
<1> QED
  BY <1>1, <1>2, <1>3, <1>4, <1>5, <1>6, <1>7, <1>8, Parts, DialerParts
  DEF Next, Request, Dialer

\* What r itself does, with all that matters to the properties below.
LEMMA OwnStep ==
  ASSUME TokenInv, TypeOK, NEW r \in Requests, Request(r)
  PROVE  \/ /\ Begin(r) /\ user[r] = "idle" /\ user'[r] = "token"
            /\ UNCHANGED <<retried[r], mix, result[r], refused[r], effects[r],
                          sentAt[r], firstAt[r]>>
         \/ user[r] = "token" /\ Unmoved(r)
         \/ Send(r)
         \/ /\ user'[r] = "returned" /\ UNCHANGED <<retried[r], mix, refused[r]>>
            /\ \/ user[r] \in {"idle", "token"} /\ UNCHANGED effects[r]
               \/ Answered(r) \/ ExchangeFails(r)
         \/ RefuseRequest(r)
         \/ ReadRefusal(r)
<1>1. r \in Callers /\ r \notin Dialers
  BY Parts
<1>2. CASE Begin(r)
  BY <1>1, <1>2 DEF Begin, Call, Goto, timeVars, TypeOK
<1>3. CASE TokenWaits(r)
  BY <1>1, <1>3 DEF TokenWaits, Miss, Grant, userVars, timeVars, Unmoved
<1>4. CASE NoTokenForRequest(r) \/ Answered(r) \/ ExchangeFails(r)
  BY <1>1, <1>4 DEF NoTokenForRequest, Answered, ExchangeFails, Done, Goto, TypeOK
<1>5. CASE RefuseCall(r)
  BY <1>1, <1>5 DEF RefuseCall, Goto, TypeOK
<1> QED
  BY <1>2, <1>3, <1>4, <1>5 DEF Request

\* A retry either takes what is in the cache, where nothing refused is, or something newer.
LEMMA RetryStep ==
  ASSUME TokenInv, UserInv, RefusedNotCached', [Next]_vars
  PROVE  RetryUsesNewToken'
<1> SUFFICES ASSUME NEW r \in Requests, user'[r] = "sent", retried'[r]
             PROVE  result'[r] # refused'[r]
  BY DEF RetryUsesNewToken
<1>1. r \in Callers
  BY Parts
<1>2. CASE Send(r)
  <2>1. result'[r] = token' /\ token' # NoToken
    BY <1>1, <1>2, TokenReturns DEF Send, TokenInv, TokenTypeOK
  <2> QED
    BY <2>1 DEF RefusedNotCached
<1>3. CASE Unmoved(r)
  BY <1>3 DEF UserInv, RetryUsesNewToken, Unmoved
<1>4. ~RefuseRequest(r) /\ ~ReadRefusal(r)
  BY <1>1 DEF RefuseRequest, ReadRefusal, Goto, UserInv, TypeOK
<1> QED
  BY <1>2, <1>3, <1>4, OwnStep, Frame DEF UserInv

LEMMA SentWithTokenStep ==
  ASSUME TokenInv, UserInv, [Next]_vars
  PROVE  SentWithToken'
<1>1. ASSUME NEW r \in Requests, user'[r] \in {"sent", "tokenError"}
      PROVE  result'[r] # NoToken
  <2>1. r \in Callers
    BY Parts
  <2>2. CASE Send(r)
    BY <2>1, <2>2, TokenReturns DEF Send, TokenInv, TokenTypeOK
  <2>3. CASE Unmoved(r)
    BY <2>1, <2>3, <1>1 DEF UserInv, SentWithToken, Unmoved
  <2>4. CASE RefuseRequest(r)
    BY <2>1, <2>4 DEF RefuseRequest, tokenVars, UserInv, SentWithToken
  <2>5. ~ReadRefusal(r)
    BY <1>1, <2>1 DEF ReadRefusal, Goto, UserInv, TypeOK
  <2> QED
    BY <1>1, <2>2, <2>3, <2>4, <2>5, OwnStep, Frame DEF UserInv
<1>2. ASSUME NEW d \in Dialers, user'[d] \in {"sent", "tokenError"}
      PROVE  result'[d] # NoToken
  <2>1. d \in Callers /\ d \notin Requests
    BY DialerParts
  <2>2. CASE SendDial(d)
    BY <2>1, <2>2, TokenReturns DEF SendDial, TokenInv, TokenTypeOK
  <2>3. CASE user'[d] = user[d] /\ result'[d] = result[d]
    BY <2>1, <2>3, <1>2 DEF UserInv, SentWithToken
  <2>4. ASSUME NEW u \in Callers, Begin(u) \/ TokenWaits(u) \/ (u # d /\ RefuseCall(u))
        PROVE  user'[d] = user[d] /\ result'[d] = result[d]
    BY <1>2, <2>1, <2>4 DEF Begin, TokenWaits, RefuseCall, Goto, Call, Miss, Grant,
       tokenVars, userVars, UserInv, TypeOK
  <2>5. ASSUME NEW r \in Requests, Request(r)
        PROVE  user'[d] = user[d] /\ result'[d] = result[d]
    <3>1. r # d /\ r \in Callers
      BY <2>1, Parts
    <3>2. CASE Begin(r) \/ TokenWaits(r) \/ RefuseCall(r)
      BY <2>4, <3>1, <3>2
    <3>3. CASE Send(r) \/ NoTokenForRequest(r)
      BY <2>1, <3>1, <3>3 DEF Send, NoTokenForRequest, Goto, Hit, Store, IssueFails, Return,
         UserInv, TypeOK, TokenTypeOK
    <3>4. CASE Answered(r) \/ ExchangeFails(r)
      BY <2>1, <3>1, <3>4 DEF Answered, ExchangeFails, Done, Goto, Forget, UserInv, TypeOK,
         TokenTypeOK
    <3>5. CASE RefuseRequest(r) \/ ReadRefusal(r)
      BY <2>1, <3>1, <3>5 DEF RefuseRequest, ReadRefusal, DropToken, Invalidate, Goto,
         tokenVars, callVars, UserInv, TypeOK, TokenTypeOK
    <3> QED
      BY <2>5, <3>2, <3>3, <3>4, <3>5 DEF Request
  <2>6. ASSUME NEW e \in Dialers, Dialer(e), ~SendDial(d)
        PROVE  user'[d] = user[d] /\ result'[d] = result[d]
    <3>1. e \in Callers
      BY DialerParts
    <3>2. CASE Begin(e) \/ TokenWaits(e)
      BY <2>4, <3>1, <3>2
    <3>3. CASE e # d /\ SendDial(e)
      BY <2>1, <3>1, <3>3 DEF SendDial, Goto, Hit, Store, Return, UserInv, TypeOK, TokenTypeOK
    <3>4. CASE NoTokenForDial(e)
      BY <1>2, <2>1, <3>1, <3>4 DEF NoTokenForDial, Goto, IssueFails, Return, UserInv, TypeOK,
         TokenTypeOK
    <3>5. CASE Handshake(e)
      BY <1>2, <2>1, <3>1, <3>5 DEF Handshake, Goto, Forget, UserInv, TypeOK, TokenTypeOK
    <3> QED
      BY <2>6, <3>2, <3>3, <3>4, <3>5 DEF Dialer
  <2>7. ASSUME TimePasses \/ ElsewhereGranted \/ UNCHANGED vars
        PROVE  user'[d] = user[d] /\ result'[d] = result[d]
    BY <2>7 DEF TimePasses, ElsewhereGranted, Tick, OtherGrant, vars, userVars, tokenVars
  <2>8. SendDial(d) \/ (user'[d] = user[d] /\ result'[d] = result[d])
    BY <2>5, <2>6, <2>7 DEF Next
  <2> QED
    BY <2>2, <2>3, <2>8
<1> QED
  BY <1>1, <1>2, UsersAssumption DEF SentWithToken

\* An execution that counts happens to a request sent without a key, and that one is not
\* sent again.
LEMMA EffectStep ==
  ASSUME TokenInv, UserInv, [Next]_vars
  PROVE  NoEffectYet' /\ NoDoubleEffect'
<1> SUFFICES ASSUME NEW r \in Requests
             PROVE  /\ retried'[r] => Kind(r)' # "keyless"
                    /\ Kind(r)' # "keyless" \/ user'[r] \in {"idle", "token", "sent"}
                         => effects'[r] = 0
                    /\ effects'[r] <= 1
  BY DEF NoEffectYet, NoDoubleEffect
<1>1. r \in Callers
  BY Parts
<1>2. /\ retried[r] => Kind(r) # "keyless"
      /\ Kind(r) # "keyless" \/ user[r] \in {"idle", "token", "sent"} => effects[r] = 0
      /\ effects[r] <= 1 /\ effects[r] \in Nat
  BY DEF UserInv, NoEffectYet, NoDoubleEffect, TypeOK
<1>3. Kind(r)' = Kind(r)
  BY MixStays, KindStays
<1>4. Execute(r) =>
        effects'[r] = IF Kind(r) = "keyless" THEN effects[r] + 1 ELSE effects[r]
  BY ExecuteIs DEF UserInv
<1>5. CASE Unmoved(r)
  BY <1>2, <1>3, <1>5 DEF Unmoved
<1>6. CASE Send(r)
  BY <1>1, <1>2, <1>3, <1>6 DEF Send, Goto, UserInv, TypeOK
<1>7. CASE Answered(r) \/ ExchangeFails(r)
  BY <1>1, <1>2, <1>7, <1>3, <1>4 DEF Answered, ExchangeFails, Done, Goto, UserInv, TypeOK
<1>8. CASE RefuseRequest(r)
  BY <1>1, <1>2, <1>8, <1>3, <1>4 DEF RefuseRequest, Goto, UserInv, TypeOK
<1>9. CASE ReadRefusal(r)
  BY <1>1, <1>2, <1>3, <1>9 DEF ReadRefusal, SendsAgain, CanRetry, Goto, UserInv, TypeOK
<1> QED
  BY <1>2, <1>3, <1>5, <1>6, <1>7, <1>8, <1>9, OwnStep, Frame DEF UserInv

\* What begins is valid, and stays so.
LEMMA ValidStep ==
  ASSUME TokenInv, UserInv, [Next]_vars
  PROVE  OnlyValid'
<1> SUFFICES ASSUME NEW r \in Requests, user'[r] \in {"token", "sent", "tokenError"}
             PROVE  Valid(Asked(r))'
  BY DEF OnlyValid
<1>1. r \in Callers /\ Asked(r)' = Asked(r)
  BY Parts, MixStays, KindStays
<1>2. Valid(Asked(r))
  <2>1. CASE Unmoved(r)
    BY <2>1 DEF Unmoved, UserInv, OnlyValid
  <2>2. CASE Request(r)
    <3>1. CASE user[r] = "idle"
      BY <2>2, <3>1, <1>1 DEF Request, RefuseCall, Goto, TokenWaits, Send, NoTokenForRequest,
         Answered, RefuseRequest, ExchangeFails, ReadRefusal, UserInv, TypeOK
    <3>2. CASE user[r] # "idle"
      <4>1. user[r] \in {"token", "sent", "tokenError"}
        BY <2>2, <3>2 DEF Request, RefuseCall, Begin, TokenWaits, Send, NoTokenForRequest,
           Answered, RefuseRequest, ExchangeFails, ReadRefusal
      <4> QED
        BY <4>1 DEF UserInv, OnlyValid
    <3> QED
      BY <3>1, <3>2
  <2> QED
    BY <2>1, <2>2, Frame DEF UserInv
<1>3. Valid(Asked(r))' <=> Valid(Asked(r)')
  OBVIOUS
<1> QED
  BY <1>1, <1>2, <1>3

-----------------------------------------------------------------------------
(***************************************************************************)
(* Time.                                                                   *)
(***************************************************************************)
LEMMA LifetimesAreNat == Lifetimes \subseteq Nat /\ Margin \in Nat /\ Timeout \in Nat
<1> QED
  BY ConstantsAssumption

\* What a step may do to the clock, the endpoint, the calls and the cache.
TokenMoves ==
  /\ clock <= clock'
  /\ \A t \in 1..issued : expiry'[t] = expiry[t]
  /\ \A c \in Callers : Issuing(c)' =>
       (Issuing(c) /\ issuedAt'[c] = issuedAt[c]) \/ issuedAt'[c] = clock
  /\ \/ token' = token /\ expiresAt' = expiresAt
     \/ token' = NoToken
     \/ \E c \in Callers : phase[c] = "answer" /\ expiresAt' = issuedAt[c] + life[c]
  /\ mu' = mu \/ mu' = Nobody \/ ~Fresh
  /\ \/ issued' = issued /\ own' = own
     \/ issued' = issued + 1 /\ others' = others + 1
     \/ issued' = issued + 1 /\ own' = issued' /\ mu # Nobody

LEMMA TokenMovesStep ==
  ASSUME TokenInv, [TokenNext]_tokenVars
  PROVE  TokenMoves
<1>0. clock \in Nat /\ issued \in Nat /\ (\A c \in Callers : Issuing(c) => mu = c)
      /\ (\A c \in Callers : c # Nobody) /\ \A c \in Callers : result[c] \in Nat
  BY ConstantsAssumption DEF TokenInv, TokenTypeOK, Issuing
<1>1. ASSUME NEW c \in Callers, Call(c) PROVE TokenMoves
  BY <1>0, <1>1 DEF Call, TokenMoves, Issuing, TokenInv, TokenTypeOK, cacheVars, endpointVars
<1>2. ASSUME NEW c \in Callers, Hit(c) PROVE TokenMoves
  BY <1>0, <1>2 DEF Hit, Return, TokenMoves, Issuing, TokenInv, TokenTypeOK, cacheVars,
     endpointVars
<1>3. ASSUME NEW c \in Callers, Miss(c) PROVE TokenMoves
  BY <1>0, <1>3 DEF Miss, TokenMoves, Issuing, TokenInv, TokenTypeOK, cacheVars, endpointVars
<1>4. ASSUME NEW c \in Callers, Grant(c) PROVE TokenMoves
  <2>1. \A t \in 1..issued : expiry'[t] = expiry[t]
    BY <1>0, <1>4 DEF Grant, TokenInv, TokenTypeOK, Tokens
  <2>2. \A u \in Callers : Issuing(u)' => Issuing(u) /\ issuedAt'[u] = issuedAt[u]
    BY <1>4 DEF Grant, Issuing, TokenInv, TokenTypeOK
  <2>3. clock' = clock /\ token' = token /\ expiresAt' = expiresAt /\ mu' = mu
        /\ issued' = issued + 1 /\ own' = issued + 1 /\ mu # Nobody
    BY <1>0, <1>4 DEF Grant, cacheVars, Issuing
  <2> QED
    BY <1>0, <2>1, <2>2, <2>3 DEF TokenMoves
<1>5. ASSUME NEW c \in Callers, Store(c) PROVE TokenMoves
  <2>1. \A u \in Callers : Issuing(u)' => Issuing(u) /\ issuedAt'[u] = issuedAt[u]
    BY <1>5 DEF Store, Return, Issuing, TokenInv, TokenTypeOK
  <2> QED
    BY <1>0, <1>5, <2>1 DEF Store, ExpiryOf, TokenMoves, endpointVars
<1>6. ASSUME NEW c \in Callers, IssueFails(c) PROVE TokenMoves
  BY <1>0, <1>6 DEF IssueFails, Unlock, Return, TokenMoves, Issuing, TokenInv, TokenTypeOK,
     cacheVars, endpointVars
<1>7. ASSUME NEW t \in Nat, Invalidate(t) PROVE TokenMoves
  BY <1>0, <1>7 DEF Invalidate, TokenMoves, Issuing, cacheVars, callVars, endpointVars
<1>8. ASSUME NEW c \in Callers, Forget(c) PROVE TokenMoves
  BY <1>0, <1>8 DEF Forget, TokenMoves, Issuing, cacheVars, callVars, endpointVars
<1>9. CASE Tick
  BY <1>0, <1>9 DEF Tick, TokenMoves, Issuing, cacheVars, callVars, endpointVars
<1>10. CASE OtherGrant
  <2>1. \A t \in 1..issued : expiry'[t] = expiry[t]
    BY <1>0, <1>10 DEF OtherGrant, TokenInv, TokenTypeOK, Tokens
  <2> QED
    BY <1>0, <1>10, <2>1 DEF OtherGrant, TokenMoves, Issuing, cacheVars, callVars
<1>11. CASE UNCHANGED tokenVars
  BY <1>0, <1>11 DEF tokenVars, TokenMoves, Issuing, cacheVars, callVars, endpointVars
<1> QED
  BY <1>0, <1>1, <1>2, <1>3, <1>4, <1>5, <1>6, <1>7, <1>8, <1>9, <1>10, <1>11
  DEF TokenNext, TokenStep

\* The cache is only cleared by a request, of the token it was refused.
LEMMA CacheClears ==
  ASSUME TokenInv, [Next]_vars, token # NoToken, token' = NoToken
  PROVE  \E r \in Requests : ReadRefusal(r) /\ result[r] = token
<1>1. ASSUME NEW u \in Callers, Call(u) \/ Miss(u) \/ Grant(u) \/ Hit(u) \/ IssueFails(u)
                                \/ Store(u) \/ Forget(u)
      PROVE  FALSE
  <2>1. CASE Store(u)
    BY <2>1 DEF Store, TokenInv, TokenTypeOK, CallInv, NoToken
  <2> QED
    BY <1>1, <2>1 DEF Call, Miss, Grant, Hit, IssueFails, Forget, cacheVars
<1>2. ASSUME NEW r \in Requests, ReadRefusal(r) PROVE result[r] = token
  BY <1>2 DEF ReadRefusal, DropToken, Invalidate, Clears, cacheVars
<1>3. ASSUME NEW r \in Requests, RefuseRequest(r) PROVE FALSE
  BY <1>3 DEF RefuseRequest, tokenVars, cacheVars
<1>4. ~TimePasses /\ ~ElsewhereGranted /\ ~UNCHANGED vars
  BY DEF TimePasses, Tick, ElsewhereGranted, OtherGrant, vars, tokenVars, cacheVars
<1>5. ASSUME NEW u \in Callers, Begin(u) \/ TokenWaits(u) \/ RefuseCall(u) PROVE FALSE
  BY <1>1, <1>5 DEF Begin, TokenWaits, RefuseCall, tokenVars, cacheVars
<1>6. ASSUME NEW r \in Requests, Request(r), ~ReadRefusal(r) PROVE FALSE
  BY <1>1, <1>3, <1>5, <1>6, Parts
  DEF Request, Send, NoTokenForRequest, Answered, ExchangeFails, Done
<1>7. ASSUME NEW d \in Dialers, Dialer(d) PROVE FALSE
  BY <1>1, <1>5, <1>7, DialerParts DEF Dialer, SendDial, NoTokenForDial, Handshake
<1> QED
  BY <1>2, <1>4, <1>6, <1>7 DEF Next

\* No exchange outlasts Timeout.
LEMMA ClockMoves ==
  ASSUME TypeOK, [Next]_vars, NEW r \in Requests, user[r] = "sent",
         clock <= sentAt[r] + Timeout
  PROVE  clock' <= sentAt[r] + Timeout
<1>1. clock \in Nat /\ sentAt[r] \in Nat /\ Timeout \in Nat
  BY LifetimesAreNat DEF TypeOK, TokenTypeOK
<1>2. CASE TimePasses
  BY <1>1, <1>2 DEF TimePasses, Tick, SentInTime
<1>3. CASE clock' = clock
  BY <1>3
<1>4. clock' = clock \/ TimePasses
  BY DEF Next, Request, Dialer, RefuseCall, Begin, TokenWaits, Send, SendDial, NoTokenForRequest,
     NoTokenForDial, Answered, ExchangeFails, Done, RefuseRequest, ReadRefusal, DropToken,
     Handshake, ElsewhereGranted, Call, Hit, Miss, Grant, Store, IssueFails, Invalidate,
     Forget, OtherGrant, vars, tokenVars
<1> QED
  BY <1>2, <1>3, <1>4

LEMMA LaterToo == \A a, b, m, e \in Nat : a <= b /\ ~(a + m < e) => e <= b + m
<1> QED
  OBVIOUS

LEMMA SumIsNat == \A a, b \in Nat : a + b \in Nat
<1> QED
  OBVIOUS

LEMMA SpansLater ==
  ASSUME NEW s \in Nat, NEW e \in Nat, NEW f \in Nat, Spans(s, e), e <= f
  PROVE  Spans(s, f)
<1> QED
  BY LifetimesAreNat DEF Spans

\* A token that counts goes on counting, or its lifetime is nearly over.
LEMMA HoldsStep ==
  ASSUME TokenInv, UserInv, TokenInv', [Next]_vars, TokenMoves, others' = 0, others = 0,
         own = issued, \A u \in Requests : Timing(u),
         NEW r \in Requests, Unmoved(r), user[r] = "sent", retried[r], Holds(r)
  PROVE  Late(r)' \/ Holds(r)'
<1>1. First(r)' = First(r) /\ First(r) \in Nat /\ result'[r] = result[r]
  BY DEF Unmoved, First, UserInv, TypeOK
<1>2. clock \in Nat /\ clock' \in Nat /\ Margin \in Nat /\ expiresAt \in Nat
  BY LifetimesAreNat DEF TokenInv, TokenTypeOK
<1>3. token # NoToken
  BY Parts DEF Holds, UserInv, SentWithToken
<1>4. CASE ~Fresh
  <2>1. expiresAt <= clock' + Margin
    <3>1. ~(clock + Margin < expiresAt) /\ clock <= clock'
      BY <1>3, <1>4, Zenon DEF Fresh, TokenMoves
    <3> QED
      BY <1>2, <3>1, LaterToo
  <2>2. clock' + Margin \in Nat
    BY <1>2, SumIsNat
  <2>3. Spans(First(r), clock' + Margin)
    BY <1>1, <1>2, <2>1, <2>2, SpansLater DEF Holds
  <2> QED
    BY <1>1, <2>3 DEF Late
<1>5. CASE Fresh
  <2>1. mu = Nobody /\ \A c \in Callers : ~Issuing(c)
    BY ConstantsAssumption DEF Holds, TokenInv, TokenTypeOK, Issuing
  <2>2. mu' = Nobody
    BY <1>5, <2>1 DEF TokenMoves
  <2>3. token' # NoToken
    <3> SUFFICES ASSUME token' = NoToken PROVE FALSE
      OBVIOUS
    <3>1. PICK u \in Requests : ReadRefusal(u) /\ result[u] = token
      BY <1>3, CacheClears
    <3>2. user[u] = "tokenError"
      BY <3>1 DEF ReadRefusal
    <3> QED
      BY <3>1, <3>2 DEF Timing, Holds
  <2>4. token' = token /\ expiresAt' = expiresAt
    BY <2>1, <2>3 DEF TokenMoves, Issuing
  <2>5. issued' = issued
    BY <2>1 DEF TokenMoves, TokenInv, TokenTypeOK
  <2> QED
    BY <1>1, <2>2, <2>4, <2>5 DEF Holds
<1> QED
  BY <1>4, <1>5

\* Time goes on and others act; r does not, or only asks for a token.
LEMMA TimingFrame ==
  ASSUME TokenInv, UserInv, TokenInv', [Next]_vars, TokenMoves, TimingAssumption,
         others' = 0, others = 0, own = issued, \A u \in Requests : Timing(u),
         NEW r \in Requests, Unmoved(r)
  PROVE  Timing(r)'
<1>1. /\ First(r)' = First(r) /\ First(r) \in Nat /\ Stale(r)' = Stale(r)
      /\ user'[r] = user[r] /\ retried'[r] = retried[r] /\ result'[r] = result[r]
      /\ sentAt'[r] = sentAt[r] /\ Kind(r)' = Kind(r) /\ (Begun(r)' <=> Begun(r))
  BY MixStays, KindStays DEF Unmoved, First, Stale, Begun, UserInv, TypeOK
<1>2. clock \in Nat /\ clock' \in Nat /\ Margin \in Nat /\ clock <= clock'
  BY LifetimesAreNat DEF TokenInv, TokenTypeOK, TokenMoves
<1>3. Timing(r) /\ r \in Callers
  BY Parts
<1>4. result[r] \in 0..issued /\ issued \in Nat /\ (issued' = issued \/ issued' = issued + 1)
  BY <1>3, ConstantsAssumption DEF TokenInv, TokenTypeOK, TokenMoves
<1>5. ASSUME user[r] = "sent"
      PROVE  clock' <= sentAt[r] + Timeout /\ sentAt[r] + Timeout < expiry'[result[r]]
  <2>1. result[r] \in 1..issued
    BY <1>3, <1>4, <1>5 DEF UserInv, SentWithToken, NoToken
  <2>2. expiry'[result[r]] = expiry[result[r]]
    BY <2>1 DEF TokenMoves
  <2> QED
    BY <1>3, <1>5, <2>2, ClockMoves DEF Timing, UserInv
<1>6. ASSUME Begun(r) PROVE NewerIsYounger(r)'
  <2>1. NewerIsYounger(r)
    BY <1>3, <1>6 DEF Timing
  <2>2. First(r) <= clock'
    BY <1>1, <1>2, <2>1 DEF NewerIsYounger
  <2>3. ASSUME NEW c \in Callers, Issuing(c)' PROVE First(r) <= issuedAt'[c]
    BY <2>1, <2>3 DEF NewerIsYounger, TokenMoves
  <2>4. ASSUME token' > Stale(r) PROVE Spans(First(r), expiresAt')
    <3>1. CASE token' = token /\ expiresAt' = expiresAt
      BY <2>1, <2>4, <3>1 DEF NewerIsYounger
    <3>2. CASE token' = NoToken
      <4>1. Stale(r) \in Nat
        BY <1>3, <1>4 DEF Stale, UserInv, TypeOK
      <4> QED
        BY <2>4, <3>2, <4>1 DEF NoToken
    <3>3. ASSUME NEW c \in Callers, phase[c] = "answer", expiresAt' = issuedAt[c] + life[c]
          PROVE  Spans(First(r), expiresAt')
      <4>1. First(r) <= issuedAt[c] /\ life[c] \in Lifetimes
        BY <2>1, <3>3 DEF NewerIsYounger, Issuing, TokenInv, CallInv
      <4>2. issuedAt[c] \in Nat /\ life[c] \in Nat
        BY <4>1, LifetimesAreNat DEF TokenInv, TokenTypeOK
      <4> QED
        BY <1>1, <3>3, <4>1, <4>2 DEF Spans
    <3> QED
      BY <3>1, <3>2, <3>3 DEF TokenMoves
  <2> QED
    BY <1>1, <2>2, <2>3, <2>4 DEF NewerIsYounger
<1>7. user[r] = "tokenError" => result[r] # issued'
  BY <1>3, <1>4 DEF Timing
<1>8. Late(r) => Late(r)'
  BY <1>1, <1>2, SpansLater DEF Late
<1>9. retried[r] /\ user[r] = "sent" => Late(r)' \/ Holds(r)'
  BY <1>3, <1>8, HoldsStep DEF Timing
<1> QED
  BY <1>1, <1>3, <1>5, <1>6, <1>7, <1>8, <1>9 DEF Timing

\* The token r is sent with outlives the exchange; if r is a retry, it is a token asked
\* for after r was first sent.
LEMMA TimingSend ==
  ASSUME TokenInv, UserInv, TokenInv', RefusedNotCached', TimingAssumption, own = issued,
         NEW r \in Requests, Timing(r), Send(r)
  PROVE  Timing(r)'
<1>1. r \in Callers /\ result \in [Callers -> 0..issued] /\ issued \in Nat
  BY Parts, ConstantsAssumption DEF TokenInv, TokenTypeOK
<1>2. /\ token' = issued /\ token' # NoToken /\ issued' = issued /\ expiry' = expiry
      /\ clock' = clock /\ mu' = Nobody /\ result'[r] = token'
      /\ \A c \in Callers : ~Issuing(c)'
  BY <1>1, TokenReturns DEF Send
<1>3. /\ user[r] = "token" /\ user'[r] = "sent" /\ retried'[r] = retried[r]
      /\ sentAt'[r] = clock /\ firstAt'[r] = firstAt[r] /\ refused'[r] = refused[r]
  BY <1>1 DEF Send, Goto, UserInv, TypeOK
<1>4. clock \in Nat /\ Timeout \in Nat /\ Margin \in Nat /\ Timeout <= Margin
  BY LifetimesAreNat DEF TokenInv, TokenTypeOK, TimingAssumption
<1>5. clock + Timeout < expiry[issued]
  <2>1. expiry[issued] \in Nat
    BY <1>1, <1>2, ConstantsAssumption DEF TokenInv, TokenTypeOK, Tokens, NoToken
  <2>2. CASE Hit(r)
    <3>1. clock + Margin < expiresAt /\ expiresAt <= expiry[issued]
      BY <1>2, <2>2 DEF Hit, Fresh, cacheVars, TokenInv, CacheInv
    <3> QED
      BY <1>4, <2>1, <3>1 DEF TokenInv, TokenTypeOK
  <2>3. CASE Store(r)
    <3>1. phase[r] = "answer"
      BY <2>3 DEF Store
    <3>2. /\ clock <= issuedAt[r] + Timeout /\ life[r] \in Lifetimes
          /\ issuedAt[r] + life[r] <= expiry[issued] /\ issuedAt[r] \in Nat
      BY <1>1, <3>1 DEF TokenInv, CallInv, TokenTypeOK, Issuing
    <3>3. 2 * Timeout < life[r] /\ life[r] \in Nat
      BY <3>2, LifetimesAreNat DEF TimingAssumption
    <3> QED
      BY <1>4, <2>1, <3>2, <3>3
  <2> QED
    BY <2>2, <2>3 DEF Send
<1>6. ASSUME retried[r]
      PROVE  firstAt[r] <= clock /\ (token' > refused[r] => Spans(firstAt[r], expiresAt'))
  <2>1. NewerIsYounger(r) /\ First(r) = firstAt[r] /\ Stale(r) = refused[r]
    BY <1>3, <1>6 DEF Timing, Begun, First, Stale
  <2>2. CASE Hit(r)
    BY <2>1, <2>2 DEF Hit, cacheVars, NewerIsYounger
  <2>3. CASE Store(r)
    <3>1. phase[r] = "answer" /\ expiresAt' = issuedAt[r] + life[r]
      BY <2>3 DEF Store, ExpiryOf
    <3>2. firstAt[r] <= issuedAt[r] /\ life[r] \in Lifetimes
      BY <1>1, <2>1, <3>1 DEF NewerIsYounger, Issuing, TokenInv, CallInv
    <3>3. firstAt[r] \in Nat /\ issuedAt[r] \in Nat /\ life[r] \in Nat
      BY <1>1, <3>2, LifetimesAreNat DEF UserInv, TypeOK, TokenInv, TokenTypeOK
    <3>4. Spans(firstAt[r], expiresAt')
      BY <3>1, <3>2, <3>3 DEF Spans
    <3> QED
      BY <2>1, <3>4 DEF NewerIsYounger
  <2> QED
    BY <2>2, <2>3 DEF Send
<1>7. NewerIsYounger(r)'
  <2>1. First(r)' = IF retried[r] THEN firstAt[r] ELSE clock
    BY <1>3 DEF First
  <2>2. Stale(r)' = IF retried[r] THEN refused[r] ELSE token'
    BY <1>2, <1>3 DEF Stale
  <2> QED
    BY <1>1, <1>2, <1>4, <1>6, <2>1, <2>2 DEF NewerIsYounger
<1>8. ASSUME retried[r] PROVE Holds(r)'
  <2>1. refused[r] \in 0..issued /\ (refused[r] # NoToken => token' # refused[r])
    BY <1>1, <1>3 DEF UserInv, TypeOK, RefusedNotCached
  <2>2. token' > refused[r]
    BY <1>1, <1>2, <2>1 DEF NoToken
  <2>3. First(r)' = firstAt[r]
    BY <1>3, <1>8 DEF First
  <2> QED
    BY <1>2, <1>6, <1>8, <2>2, <2>3 DEF Holds
<1> QED
  BY <1>2, <1>3, <1>4, <1>5, <1>7, <1>8 DEF Timing

\* The server refuses a token only because there is a newer one: it has not expired.
LEMMA TimingRefused ==
  ASSUME TokenInv, UserInv, NEW r \in Requests, Timing(r), RefuseRequest(r)
  PROVE  Timing(r)'
<1>1. r \in Callers
  BY Parts
<1>2. /\ user[r] = "sent" /\ user'[r] = "tokenError" /\ retried'[r] = retried[r]
      /\ sentAt' = sentAt /\ firstAt' = firstAt /\ refused' = refused /\ result' = result
      /\ clock' = clock /\ issued' = issued /\ token' = token /\ expiresAt' = expiresAt
      /\ phase' = phase /\ issuedAt' = issuedAt
  BY <1>1 DEF RefuseRequest, Goto, tokenVars, cacheVars, callVars, endpointVars, timeVars,
     UserInv, TypeOK
<1>3. result[r] # issued
  <2> SUFFICES ASSUME result[r] = issued PROVE FALSE
    OBVIOUS
  <2>1. clock <= sentAt[r] + Timeout /\ sentAt[r] + Timeout < expiry[result[r]]
    BY <1>2 DEF Timing
  <2>2. ~(clock < expiry[result[r]])
    BY <1>2 DEF RefuseRequest, Accepted
  <2>3. result[r] \in Tokens
    BY <1>1, <1>2, ConstantsAssumption
    DEF Tokens, NoToken, UserInv, SentWithToken, TokenInv, TokenTypeOK
  <2>4. expiry[result[r]] \in Nat /\ sentAt[r] + Timeout \in Nat /\ clock \in Nat
    BY <2>3, SumIsNat, LifetimesAreNat DEF TokenInv, TokenTypeOK, UserInv, TypeOK
  <2> QED
    BY <2>1, <2>2, <2>4
<1>4. First(r)' = First(r) /\ Stale(r)' = Stale(r)
  BY <1>2 DEF First, Stale
<1>5. NewerIsYounger(r)'
  BY <1>2, <1>4 DEF Timing, Begun, NewerIsYounger, Issuing
<1>6. retried[r] => Late(r)'
  BY <1>2, <1>3, <1>4 DEF Timing, Holds, Late
<1> QED
  BY <1>2, <1>3, <1>5, <1>6 DEF Timing

\* A refusal that ends a request came after a token's lifetime less the margin.
LEMMA TimingRefusal ==
  ASSUME TokenInv, UserInv, TokenInv', NEW r \in Requests, Timing(r), ReadRefusal(r)
  PROVE  Timing(r)'
<1>1. r \in Callers
  BY Parts
<1>2. /\ user[r] = "tokenError" /\ refused'[r] = result[r] /\ result' = result
      /\ firstAt'[r] = First(r) /\ clock' = clock /\ issued' = issued /\ mix' = mix
      /\ phase' = phase /\ issuedAt' = issuedAt
      /\ (token' = token /\ expiresAt' = expiresAt) \/ token' = NoToken
  BY <1>1 DEF ReadRefusal, DropToken, Invalidate, Refused, First, cacheVars, callVars,
     endpointVars, UserInv, TypeOK
<1>3. CASE SendsAgain(r)
  <2>1. user'[r] = "idle" /\ retried'[r] /\ ~retried[r]
    BY <1>1, <1>3 DEF ReadRefusal, SendsAgain, Goto, UserInv, TypeOK
  <2>2. First(r)' = First(r) /\ Stale(r)' = Stale(r) /\ Stale(r) = result[r]
    BY <1>2, <2>1 DEF First, Stale
  <2>3. NewerIsYounger(r)
    BY <1>2 DEF Timing, Begun
  <2>4. token' > Stale(r) => Spans(First(r), expiresAt')
    <3>1. ~(NoToken > Stale(r))
      BY <1>1, <2>2 DEF NoToken, TokenInv, TokenTypeOK
    <3> QED
      BY <1>2, <2>3, <3>1 DEF NewerIsYounger
  <2>5. NewerIsYounger(r)'
    BY <1>2, <2>2, <2>3, <2>4 DEF NewerIsYounger, Issuing
  <2> QED
    BY <2>1, <2>5 DEF Timing
<1>4. CASE ~SendsAgain(r)
  <2>1. user'[r] = "refused" /\ retried'[r] = retried[r]
    BY <1>1, <1>4 DEF ReadRefusal, Goto, UserInv, TypeOK
  <2>2. ASSUME Kind(r) # "keyless" PROVE retried[r] /\ Late(r)
    <3>1. Kind(r) \in {"get", "keyed"}
      BY <1>2, <2>2, Counted DEF UserInv
    <3>2. retried[r]
      BY <1>4, <3>1 DEF SendsAgain, CanRetry
    <3> QED
      BY <1>2, <3>2 DEF Timing
  <2>3. retried[r] => First(r)' = First(r)
    BY <1>2, <2>1 DEF First
  <2>4. ~Begun(r)'
    BY <2>1 DEF Begun
  <2>5. retried[r] /\ Late(r) => Late(r)'
    BY <1>2, <2>3 DEF Late
  <2>6. Kind(r)' = Kind(r)
    BY <1>2, KindStays
  <2> QED
    BY <1>2, <2>1, <2>2, <2>4, <2>5, <2>6 DEF Timing
<1> QED
  BY <1>3, <1>4

LEMMA TimingStep ==
  ASSUME IInv, TokenInv', RefusedNotCached', [Next]_vars, [TokenNext]_tokenVars
  PROVE  TimingInv'
<1> SUFFICES ASSUME TimingAssumption, others' = 0
             PROVE  own' = issued' /\ \A r \in Requests : Timing(r)'
  BY DEF TimingInv, TimingAssumption
<1>1. TokenInv /\ UserInv /\ TypeOK /\ TokenTypeOK
  BY DEF IInv, TokenInv, UserInv
<1>2. TokenMoves
  BY <1>1, TokenMovesStep
<1>3. others = 0 /\ own = issued /\ \A r \in Requests : Timing(r)
  <2>1. others \in Nat /\ others <= others'
    BY <1>1, Monotone DEF TokenTypeOK
  <2> QED
    BY <2>1 DEF IInv, TimingInv
<1>4. own' = issued'
  BY <1>2, <1>3 DEF TokenMoves
<1>5. ASSUME NEW r \in Requests PROVE Timing(r)'
  <2>1. CASE Unmoved(r)
    BY <1>1, <1>2, <1>3, <2>1, TimingFrame
  <2>2. CASE Send(r)
    BY <1>1, <1>3, <2>2, TimingSend
  <2>3. CASE RefuseRequest(r)
    BY <1>1, <1>3, <2>3, TimingRefused
  <2>4. CASE ReadRefusal(r)
    BY <1>1, <1>3, <2>4, TimingRefusal
  <2>5. CASE user'[r] = "returned"
    BY <2>5 DEF Timing, Begun
  <2>6. CASE /\ Begin(r) /\ user[r] = "idle" /\ user'[r] = "token"
             /\ UNCHANGED <<retried[r], mix, result[r], refused[r], effects[r],
                           sentAt[r], firstAt[r]>>
    <3>1. First(r)' = First(r) /\ Stale(r)' = Stale(r) /\ (Begun(r)' => Begun(r))
      BY <2>6 DEF First, Stale, Begun
    <3>2. Begun(r) => NewerIsYounger(r)
      BY <1>3 DEF Timing
    <3>3. NewerIsYounger(r) => NewerIsYounger(r)'
      BY <1>1, <2>6, <3>1 DEF Begin, Call, NewerIsYounger, Issuing, cacheVars, TokenTypeOK
    <3> QED
      BY <2>6, <3>1, <3>2, <3>3 DEF Timing
  <2> QED
    BY <1>1, <2>1, <2>2, <2>3, <2>4, <2>5, <2>6, OwnStep, Frame
<1> QED
  BY <1>4, <1>5

-----------------------------------------------------------------------------
(***************************************************************************)
(* The invariant, and what follows from it.                                *)
(***************************************************************************)
LEMMA InitInvariant == Init => IInv
<1> SUFFICES ASSUME Init PROVE IInv
  OBVIOUS
<1>1. TokenInv
  BY TokenInitInvariant DEF Init
<1>2. TypeOK
  <2>1. mix \in DOMAIN Mixes
    BY DEF Init
  <2> QED
    BY <1>1, <2>1 DEF Init, TypeOK, TokenInv, TokenTypeOK, NoToken
<1>3. SentWithToken /\ OlderRefused /\ NoEffectYet /\ OnlyValid /\ NoDoubleEffect
      /\ RefusedNotCached /\ RetryUsesNewToken
  BY Parts DEF Init, TokenInit, SentWithToken, OlderRefused, NoEffectYet, OnlyValid,
     NoDoubleEffect, RefusedNotCached, RetryUsesNewToken
<1>4. TimingInv
  BY Parts DEF Init, TokenInit, TimingInv, Timing, Begun, NoToken
<1> QED
  BY <1>1, <1>2, <1>3, <1>4 DEF IInv, UserInv

LEMMA StepInvariant == IInv /\ [Next]_vars => IInv'
<1> SUFFICES ASSUME IInv, [Next]_vars PROVE IInv'
  OBVIOUS
<1>1. TokenInv /\ UserInv /\ TypeOK /\ TokenTypeOK
  BY DEF IInv, TokenInv, UserInv
<1>2. [TokenNext]_tokenVars
  BY <1>1, UsesCache DEF UserInv
<1>3. TokenInv' /\ TokenTypeOK'
  BY <1>1, <1>2, TokenStepInvariant DEF TokenInv
<1>4. TypeOK'
  BY <1>1, <1>2, <1>3, Monotone, TypeStep
<1>5. OlderRefused' /\ RefusedNotCached'
  BY <1>1, <1>2, OlderRefusedStep, RefusedNotCachedStep
<1>6. RetryUsesNewToken' /\ SentWithToken' /\ NoEffectYet' /\ NoDoubleEffect' /\ OnlyValid'
  BY <1>1, <1>5, RetryStep, SentWithTokenStep, EffectStep, ValidStep
<1>7. TimingInv'
  BY <1>2, <1>3, <1>5, TimingStep
<1> QED
  BY <1>3, <1>4, <1>5, <1>6, <1>7 DEF IInv, UserInv

LEMMA Invariance == Spec => []IInv
<1> QED
  BY InitInvariant, StepInvariant, PTL DEF Spec

\* The variables keep their types; the mutex names the call that is issuing.
THEOREM TypeCorrect == Spec => []TypeOK
<1>1. IInv => TypeOK
  BY DEF IInv, UserInv
<1> QED
  BY <1>1, Invariance, PTL

\* However many requests and streams use the cache, they use it as TokenSource describes:
\* only tokens that were handed out are invalidated.
THEOREM UsersKeepTokenSpec == Spec => TokenSpec
<1>1. Init => TokenInit
  BY DEF Init
<1>2. IInv /\ [Next]_vars => [TokenNext]_tokenVars
  BY UsesCache DEF IInv, UserInv
<1> QED
  BY <1>1, <1>2, Invariance, PTL DEF Spec, TokenSpec

\* A token handed out from the cache is the last this process was granted
\* (TokenSource.Token holds the mutex from its check to its store).
THEOREM CacheIsLatest == Spec => []FreshIsLatest
<1>1. IInv => FreshIsLatest
  BY DEF IInv, TokenInv, CacheInv
<1> QED
  BY <1>1, Invariance, PTL

\* ... and it lives for longer than refreshMargin, since its lifetime counts from before
\* it was asked for.
THEOREM CacheIsAlive == Spec => []FreshIsAlive
<1>1. IInv => FreshIsAlive
  <2> SUFFICES ASSUME IInv, Fresh PROVE clock + Margin < expiry[token]
    BY DEF FreshIsAlive
  <2>1. token \in Tokens /\ expiresAt <= expiry[token] /\ clock + Margin < expiresAt
    BY ConstantsAssumption
    DEF IInv, TokenInv, TokenTypeOK, CacheInv, Fresh, Tokens, NoToken
  <2>2. expiry[token] \in Nat /\ expiresAt \in Nat /\ clock + Margin \in Nat
    BY <2>1, SumIsNat, LifetimesAreNat DEF IInv, TokenInv, TokenTypeOK
  <2> QED
    BY <2>1, <2>2
<1> QED
  BY <1>1, Invariance, PTL

\* The retry of do executes no write twice: what has no key is not sent again.
THEOREM WritesAtMostOnce == Spec => []NoDoubleEffect
<1>1. IInv => NoDoubleEffect
  BY DEF IInv, UserInv
<1> QED
  BY <1>1, Invariance, PTL

\* Whatever calls are made together, what reaches the server is what was asked for, and is
\* allowed by docs/api (the validations at the top of every method of the client).
THEOREM SendsWhatIsAsked == Spec => []SentAsAsked
<1>1. IInv => SentAsAsked
  <2> SUFFICES ASSUME IInv, NEW r \in Requests, user[r] \in {"sent", "tokenError"}
               PROVE  AsAsked(Asked(r))
    BY DEF SentAsAsked
  <2>1. Valid(Asked(r)) /\ Asked(r) \in Calls
    BY Counted DEF IInv, UserInv, OnlyValid
  <2> QED
    BY <2>1, CallsConform
<1> QED
  BY <1>1, Invariance, PTL

\* No token that do has read a refusal of is in the cache again.
THEOREM RefusedStaysOut == Spec => []RefusedNotCached
<1>1. IInv => RefusedNotCached
  BY DEF IInv, UserInv
<1> QED
  BY <1>1, Invariance, PTL

\* The retry of do is sent with another token than the attempt before it.
THEOREM RetryIsFresh == Spec => []RetryUsesNewToken
<1>1. IInv => RetryUsesNewToken
  BY DEF IInv, UserInv
<1> QED
  BY <1>1, Invariance, PTL

\* do's single retry is enough for a request that takes less than a token's lifetime
\* less refreshMargin, if only this process is granted tokens.
THEOREM OneRetrySuffices == Spec => []RetrySuffices
<1>1. IInv => RetrySuffices
  <2> SUFFICES ASSUME IInv, TimingAssumption, others = 0, NEW r \in Requests,
                      user[r] = "refused", Kind(r) # "keyless"
               PROVE  \E l \in Lifetimes : firstAt[r] + l <= clock + Margin
    BY DEF RetrySuffices
  <2>1. retried[r] /\ Late(r)
    BY DEF IInv, TimingInv, Timing
  <2> QED
    BY <2>1 DEF Late, Spans, First
<1> QED
  BY <1>1, Invariance, PTL

\* Invalidate never clears a token but one the server has refused to a request.
THEOREM OnlyRefusedIsCleared == Spec => KeepsFresher
<1>1. IInv /\ [Next]_vars =>
        [token # NoToken /\ token' = NoToken => \E r \in Requests : refused'[r] = token]_vars
  <2> SUFFICES ASSUME IInv, [Next]_vars, token # NoToken, token' = NoToken
               PROVE  \E r \in Requests : refused'[r] = token
    OBVIOUS
  <2>1. PICK r \in Requests : ReadRefusal(r) /\ result[r] = token
    BY CacheClears DEF IInv
  <2>2. refused'[r] = result[r]
    BY <2>1, Parts DEF ReadRefusal, Refused, IInv, UserInv, TypeOK
  <2> QED
    BY <2>1, <2>2
<1> QED
  BY <1>1, Invariance, PTL DEF Spec, KeepsFresher
=============================================================================
