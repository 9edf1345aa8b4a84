---------------------------- MODULE TokenSource ----------------------------
(***************************************************************************)
(* The token cache of a client (internal/auth/token.go).  Token answers     *)
(* from the cache or issues a new token while it holds the mutex;           *)
(* Invalidate clears the cache after the API refused a token.  The token    *)
(* endpoint keeps one valid token per client_id: a grant, to this process   *)
(* or to another one with the same client_id, ends the token before it.     *)
(* Tokens are numbered in the order they are granted; 0 is the empty token. *)
(***************************************************************************)
EXTENDS Naturals

CONSTANTS
  Callers,    \* goroutines that ask for tokens
  Nobody,     \* the owner of a free mutex
  Lifetimes,  \* the expires_in the endpoint answers with
  Margin,     \* refreshMargin
  Timeout,    \* the longest an HTTP exchange takes (http.Client.Timeout)
  MaxTokens,  \* bound: tokens granted in all
  MaxOthers,  \* bound: tokens granted to other processes
  MaxTime     \* bound: the clock stops there

ASSUME ConstantsAssumption ==
  /\ Nobody \notin Callers
  /\ Lifetimes \subseteq Nat \ {0} /\ Margin \in Nat /\ Timeout \in Nat
  /\ MaxTokens \in Nat /\ MaxOthers \in Nat /\ MaxTime \in Nat

NoToken == 0
Tokens == 1..MaxTokens

VARIABLES
  clock,             \* s.now()
  token, expiresAt,  \* the cache
  mu,                \* the holder of s.mu: who is issuing, or Nobody
  phase,             \* of each Token call
  issuedAt, life,    \* of each Token call: its issuedAt, the expires_in received
  grant,             \* of each Token call: the token received
  result,            \* the token each caller was last given, NoToken for an error
  \* the endpoint: tokens granted so far, when each expires, to others how many
  issued, expiry, others,
  own                \* history: the last token granted to this process

cacheVars    == <<token, expiresAt>>
callVars     == <<phase, issuedAt, life, grant>>
endpointVars == <<issued, expiry, others, own>>
tokenVars == <<clock, cacheVars, mu, callVars, result, endpointVars>>
-----------------------------------------------------------------------------
\* the cached token may be used: it is neither empty nor about to expire
Fresh == token # NoToken /\ clock + Margin < expiresAt

\* Mutant: the cache is checked and filled without the mutex.
LockAlways == TRUE

\* s.mu.Lock(): held from the check of the cache until the new token is stored
CanLock == mu = Nobody

\* Mutant: a failed issue returns without unlocking.
KeepLock == UNCHANGED mu

\* defer s.mu.Unlock()
Unlock == mu' = Nobody

\* Mutant: the lifetime counts from the arrival of the answer.
ExpiryFromNow(c) == clock + life[c]

\* the lifetime counts from before the request was sent
ExpiryOf(c) == issuedAt[c] + life[c]

\* Mutant: a refused token clears whatever is cached.
ClearsAny(stale) == TRUE

\* Invalidate clears the cache only if it still holds the refused token
Clears(stale) == token = stale

TokenInit ==
  /\ clock = 0
  /\ token = NoToken /\ expiresAt = 0
  /\ mu = Nobody
  /\ phase = [c \in Callers |-> "out"]
  /\ issuedAt = [c \in Callers |-> 0] /\ life = [c \in Callers |-> 0]
  /\ grant = [c \in Callers |-> NoToken]
  /\ result = [c \in Callers |-> NoToken]
  /\ issued = 0 /\ expiry = [t \in Tokens |-> 0] /\ others = 0
  /\ own = NoToken

(***************************************************************************)
(* Token, called by c.                                                     *)
(***************************************************************************)
\* the call ends, and its locals with it
Return(c, t) ==
  /\ result' = [result EXCEPT ![c] = t]
  /\ phase' = [phase EXCEPT ![c] = "out"]
  /\ issuedAt' = [issuedAt EXCEPT ![c] = 0] /\ life' = [life EXCEPT ![c] = 0]
  /\ grant' = [grant EXCEPT ![c] = NoToken]

Call(c) ==
  /\ phase[c] = "out"
  /\ phase' = [phase EXCEPT ![c] = "lock"]
  /\ UNCHANGED <<clock, cacheVars, mu, issuedAt, life, grant, result, endpointVars>>

\* the mutex is free and the cached token fresh
Hit(c) ==
  /\ phase[c] = "lock" /\ CanLock /\ Fresh
  /\ Return(c, token)
  /\ UNCHANGED <<clock, cacheVars, mu, endpointVars>>

\* the mutex is free and there is no fresh token: c sends a request
Miss(c) ==
  /\ phase[c] = "lock" /\ CanLock /\ ~Fresh
  /\ phase' = [phase EXCEPT ![c] = "issue"]
  /\ mu' = c
  /\ issuedAt' = [issuedAt EXCEPT ![c] = clock]
  /\ UNCHANGED <<clock, cacheVars, life, grant, result, endpointVars>>

\* the endpoint grants a token to c
Grant(c) ==
  /\ phase[c] = "issue" /\ issued < MaxTokens
  /\ phase' = [phase EXCEPT ![c] = "answer"]
  /\ issued' = issued + 1 /\ own' = issued + 1
  /\ \E l \in Lifetimes :
       /\ expiry' = [expiry EXCEPT ![issued + 1] = clock + l]
       /\ life' = [life EXCEPT ![c] = l]
  /\ grant' = [grant EXCEPT ![c] = issued + 1]
  /\ UNCHANGED <<clock, cacheVars, mu, issuedAt, result, others>>

Store(c) ==
  /\ phase[c] = "answer"
  /\ token' = grant[c] /\ expiresAt' = ExpiryOf(c)
  /\ Return(c, grant[c]) /\ mu' = Nobody
  /\ UNCHANGED <<clock, endpointVars>>

\* no answer, an error or an answer without a usable token: the cache stays
IssueFails(c) ==
  /\ phase[c] \in {"issue", "answer"}
  /\ Return(c, NoToken) /\ Unlock
  /\ UNCHANGED <<clock, cacheVars, endpointVars>>

(***************************************************************************)
(* Invalidate, the passing of time and other processes.                    *)
(***************************************************************************)
Invalidate(stale) ==
  /\ CanLock
  /\ IF Clears(stale) THEN token' = NoToken /\ expiresAt' = 0 ELSE UNCHANGED cacheVars
  /\ UNCHANGED <<clock, mu, callVars, result, endpointVars>>

\* c has no more use for the token it was given
Forget(c) ==
  /\ result' = [result EXCEPT ![c] = NoToken]
  /\ UNCHANGED <<clock, cacheVars, mu, callVars, endpointVars>>

\* a token request is over before Timeout
IssueInTime == \A c \in Callers :
  phase[c] \in {"issue", "answer"} => clock < issuedAt[c] + Timeout

Tick ==
  /\ clock < MaxTime /\ IssueInTime
  /\ clock' = clock + 1
  /\ UNCHANGED <<cacheVars, mu, callVars, result, endpointVars>>

\* a grant this process does not hear of: to another process, or to a request
\* of this one that was given up before it reached the endpoint
OtherGrant ==
  /\ issued < MaxTokens /\ others < MaxOthers
  /\ issued' = issued + 1 /\ others' = others + 1
  /\ \E l \in Lifetimes : expiry' = [expiry EXCEPT ![issued + 1] = clock + l]
  /\ UNCHANGED <<clock, cacheVars, mu, callVars, result, own>>
-----------------------------------------------------------------------------
TokenStep(c) == Call(c) \/ Hit(c) \/ Miss(c) \/ Grant(c) \/ Store(c) \/ IssueFails(c)

\* any caller may invalidate the token it was given
TokenNext ==
  \/ \E c \in Callers : TokenStep(c)
  \/ \E c \in Callers : result[c] # NoToken /\ (Invalidate(result[c]) \/ Forget(c))
  \/ Tick \/ OtherGrant

TokenSpec == TokenInit /\ [][TokenNext]_tokenVars
-----------------------------------------------------------------------------
\* Type invariant.  The mutex names the call that is issuing.
TokenTypeOK ==
  /\ clock \in Nat
  /\ token \in 0..issued /\ expiresAt \in Nat
  /\ mu \in Callers \cup {Nobody}
  /\ phase \in [Callers -> {"out", "lock", "issue", "answer"}]
  /\ \A c \in Callers : phase[c] \in {"issue", "answer"} <=> mu = c
  /\ issuedAt \in [Callers -> Nat] /\ life \in [Callers -> Nat]
  /\ grant \in [Callers -> 0..issued]
  /\ result \in [Callers -> 0..issued]
  /\ issued \in 0..MaxTokens /\ expiry \in [Tokens -> Nat]
  /\ others \in Nat /\ own \in 0..issued

\* A cached token that Token would hand out is the last one this process was
\* granted: however many goroutines ask at once, none of them has a token issued
\* that ends the one another is about to be given.
FreshIsLatest == Fresh => token = own

\* A token handed out from the cache is alive for longer than refreshMargin,
\* however long its answer was on the way.
FreshIsAlive == Fresh => clock + Margin < expiry[token]
=============================================================================
