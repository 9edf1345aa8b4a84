----------------------------- MODULE RestClient -----------------------------
(***************************************************************************)
(* The users of the token cache: the calls of a client, whose requests      *)
(* internal/httpclient makes, and the dials of a stream (stream/conn.go).   *)
(* A request refused with a token error invalidates its token and is sent   *)
(* once more if that is safe; a dial refused that way is an error like any  *)
(* other.                                                                   *)
(***************************************************************************)
EXTENDS TokenSource, ClientCalls

CONSTANTS
  Requests,  \* goroutines that call a method of the client
  Dialers,   \* streams that dial and dial again
  Mixes      \* the calls considered together, each mix under a number

ASSUME UsersAssumption ==
  /\ Callers = Requests \cup Dialers /\ Requests \cap Dialers = {}
  /\ Mixes \in [DOMAIN Mixes -> [Requests -> Calls]]

VARIABLES
  mix,      \* which calls are made
  user,     \* control point of each request and dial; at "refused" Do has returned a
            \* token error, at "returned" anything else
  retried,  \* the parameter retried of do
  sentAt,   \* when each request on its way to the server was sent
  \* history
  firstAt,  \* when each request that was refused had first been sent
  effects,  \* how often the server has executed each request without a key
  refused   \* the token last refused to each request, and to each stream until it
            \* dials with another one

timeVars == <<sentAt, firstAt>>
userVars == <<user, retried, timeVars, effects, refused>>
vars == <<tokenVars, mix, userVars>>
-----------------------------------------------------------------------------
\* the call of r, its httpclient.Request, and how canRetry sees that
Asked(r) == Mixes[mix][r]
Rq(r) == RequestOf(Asked(r))
Kind(r) == KindOf(Rq(r))

\* Mutant: only a GET is sent again.
RetryGets(r) == Kind(r) = "get"

\* canRetry: a GET, or a write whose key lets the server recognise it
CanRetry(r) == Kind(r) \in {"get", "keyed"}

\* the request is sent once more, never twice
SendsAgain(r) == ~retried[r] /\ CanRetry(r)

\* Mutant: only a request that is sent again invalidates its token.
InvalidateToRetry(r) == IF SendsAgain(r) THEN Invalidate(result[r]) ELSE UNCHANGED tokenVars

\* Mutant: the refused token stays in the cache.
KeepToken(r) == UNCHANGED tokenVars

\* a token error invalidates the token, whether or not a retry follows
DropToken(r) == Invalidate(result[r])

Init ==
  /\ TokenInit
  /\ mix \in DOMAIN Mixes
  /\ user = [u \in Callers |-> "idle"]
  /\ retried = [r \in Requests |-> FALSE]
  /\ sentAt = [r \in Requests |-> 0] /\ firstAt = [r \in Requests |-> 0]
  /\ effects = [r \in Requests |-> 0]
  /\ refused = [u \in Callers |-> NoToken]

Goto(u, where) == user' = [user EXCEPT ![u] = where]

\* the call fails its validation: no request is made
RefuseCall(r) ==
  /\ user[r] = "idle" /\ ~Valid(Asked(r))
  /\ Goto(r, "returned")
  /\ UNCHANGED <<tokenVars, mix, retried, timeVars, effects, refused>>

\* a caller asks for a token: the first thing do and dial do
Begin(u) ==
  /\ user[u] = "idle"
  /\ Call(u)
  /\ Goto(u, "token")
  /\ UNCHANGED <<mix, retried, timeVars, effects, refused>>

\* Token goes on without returning
TokenWaits(u) ==
  /\ user[u] = "token" /\ (Miss(u) \/ Grant(u))
  /\ UNCHANGED <<mix, userVars>>

\* Token returns a token: the handshake is sent with it
SendDial(d) ==
  /\ user[d] = "token" /\ (Hit(d) \/ Store(d))
  /\ Goto(d, "sent")
  /\ refused' = [refused EXCEPT ![d] = IF result'[d] = @ THEN @ ELSE NoToken]
  /\ UNCHANGED <<mix, retried, timeVars, effects>>

\* Token returns a token: the request is sent with it
Send(r) ==
  /\ user[r] = "token" /\ (Hit(r) \/ Store(r))
  /\ Goto(r, "sent")
  /\ sentAt' = [sentAt EXCEPT ![r] = clock]
  /\ UNCHANGED <<mix, retried, firstAt, effects, refused>>

\* Token returns an error: a request returns it, a dial is tried again later
NoTokenForRequest(r) ==
  /\ user[r] = "token" /\ IssueFails(r)
  /\ Goto(r, "returned")
  /\ UNCHANGED <<mix, retried, timeVars, effects, refused>>

NoTokenForDial(d) ==
  /\ user[d] = "token" /\ IssueFails(d)
  /\ Goto(d, "idle")
  /\ UNCHANGED <<mix, retried, timeVars, effects, refused>>

(***************************************************************************)
(* The server.  It knows one token, the last granted, until that expires.  *)
(***************************************************************************)
Accepted(t) == t = issued /\ clock < expiry[t]

\* only the executions that change something each time count
Execute(r) == effects' = [effects EXCEPT ![r] = IF Recognised(Rq(r)) THEN @ ELSE @ + 1]

Done(r) ==
  /\ Goto(r, "returned") /\ Forget(r)
  /\ sentAt' = [sentAt EXCEPT ![r] = 0] /\ firstAt' = [firstAt EXCEPT ![r] = 0]
  /\ UNCHANGED <<mix, retried, refused>>

\* the token is accepted, and the request is executed or not; Do returns the answer, or
\* an error if that is lost or cannot be decoded
Answered(r) ==
  /\ user[r] = "sent" /\ Accepted(result[r])
  /\ Done(r)
  /\ Execute(r) \/ UNCHANGED effects

\* the token is refused; the server may have accepted the request by then
RefuseRequest(r) ==
  /\ user[r] = "sent" /\ ~Accepted(result[r])
  /\ Goto(r, "tokenError")
  /\ Execute(r) \/ UNCHANGED effects
  /\ UNCHANGED <<tokenVars, mix, retried, timeVars, refused>>

\* the request does not reach the server, or the token error does not arrive
ExchangeFails(r) ==
  /\ user[r] \in {"sent", "tokenError"}
  /\ Done(r) /\ UNCHANGED effects

Refused(u) == refused' = [refused EXCEPT ![u] = result[u]]

\* the call of Invalidate waits for the mutex; then the request is sent again,
\* from the beginning of do, or the error is returned
ReadRefusal(r) ==
  /\ user[r] = "tokenError"
  /\ DropToken(r) /\ Refused(r)
  /\ IF SendsAgain(r)
     THEN Goto(r, "idle") /\ retried' = [retried EXCEPT ![r] = TRUE]
     ELSE Goto(r, "refused") /\ UNCHANGED retried
  /\ sentAt' = [sentAt EXCEPT ![r] = 0]
  /\ firstAt' = [firstAt EXCEPT ![r] = IF retried[r] THEN @ ELSE sentAt[r]]
  /\ UNCHANGED <<mix, effects>>

\* dial returns: the connection is up, and ends some time later, or there is an error,
\* which is only reported; in both cases the stream dials again
Handshake(d) ==
  /\ user[d] = "sent"
  /\ Goto(d, "idle") /\ Forget(d)
  /\ UNCHANGED refused \/ (~Accepted(result[d]) /\ Refused(d))
  /\ UNCHANGED <<mix, retried, timeVars, effects>>

\* a request reaches the server within Timeout, or fails
SentInTime == \A r \in Requests : user[r] = "sent" => clock < sentAt[r] + Timeout

TimePasses ==
  /\ Tick /\ SentInTime
  /\ UNCHANGED <<mix, userVars>>

ElsewhereGranted == OtherGrant /\ UNCHANGED <<mix, userVars>>
-----------------------------------------------------------------------------
Request(r) ==
  \/ RefuseCall(r) \/ (Valid(Asked(r)) /\ Begin(r))
  \/ TokenWaits(r) \/ Send(r) \/ NoTokenForRequest(r)
  \/ Answered(r) \/ RefuseRequest(r) \/ ExchangeFails(r) \/ ReadRefusal(r)

Dialer(d) ==
  \/ Begin(d) \/ TokenWaits(d) \/ SendDial(d) \/ NoTokenForDial(d)
  \/ Handshake(d)

Next ==
  \/ \E r \in Requests : Request(r)
  \/ \E d \in Dialers : Dialer(d)
  \/ TimePasses \/ ElsewhereGranted

Spec == Init /\ [][Next]_vars

\* the call has begun and not returned
UnderWay(r) == user[r] \in {"token", "sent", "tokenError"} \/ (user[r] = "idle" /\ retried[r])

\* A goroutine runs on, an exchange ends (the HTTP client has a timeout) and a
\* request blocked on the mutex gets it sooner or later (sync.Mutex hands over to
\* a waiter of a millisecond), so SF.  A stream's dial ends its exchanges, but nothing
\* forces it, or a request, to be made.
Fairness ==
  /\ \A r \in Requests : SF_vars(UnderWay(r) /\ Request(r))
  /\ \A d \in Dialers : WF_vars(mu = d /\ Dialer(d))

FairSpec == Spec /\ Fairness
-----------------------------------------------------------------------------
\* Type invariant.
TypeOK ==
  /\ TokenTypeOK
  /\ mix \in DOMAIN Mixes
  /\ user \in [Callers -> {"idle", "token", "sent", "tokenError", "returned", "refused"}]
  /\ retried \in [Requests -> BOOLEAN]
  /\ sentAt \in [Requests -> Nat] /\ firstAt \in [Requests -> Nat]
  /\ effects \in [Requests -> Nat] /\ refused \in [Callers -> 0..issued]

\* The server executes a write at most once, even if it had accepted the request
\* that it answered with a token error.
NoDoubleEffect == \A r \in Requests : effects[r] <= 1

\* What reaches the server is what was asked for, of each of the calls made together: no
\* combination of type, sides, prices and triggers that the validation lets through loses
\* a price or a leg on its way into the body, or makes a body docs/api forbids.
SentAsAsked == \A r \in Requests : user[r] \in {"sent", "tokenError"} => AsAsked(Asked(r))

\* A token that was refused to a request is never in the cache again, on any path
\* out of do: it would fail every request until it expires.
RefusedNotCached == \A r \in Requests : refused[r] # NoToken => token # refused[r]

\* A retry does not send the token that was refused, whoever filled the cache since.
RetryUsesNewToken ==
  \A r \in Requests : user[r] = "sent" /\ retried[r] => result[r] # refused[r]

\* The cache is only ever cleared of a token the server has refused: a late token
\* error about an older one does not cost the process the token it got since.
KeepsFresher ==
  [][token # NoToken /\ token' = NoToken => \E r \in Requests : refused'[r] = token]_vars

\* The timing the single retry relies on: an exchange is no longer than refreshMargin,
\* and a token outlives the exchange that fetches it and the one that uses it.
TimingAssumption ==
  Timeout <= Margin /\ \A l \in Lifetimes : 2 * Timeout < l

\* While no other process is granted a token, a GET or a write with a key returns a
\* token error, that is, is refused twice, only if it has taken a token's lifetime less
\* refreshMargin: the retry has a token issued since the first attempt, and no goroutine
\* renews that earlier, whatever the others do meanwhile.
RetrySuffices ==
  TimingAssumption /\ others = 0 =>
    \A r \in Requests : user[r] = "refused" /\ Kind(r) # "keyless" =>
      \E l \in Lifetimes : firstAt[r] + l <= clock + Margin

\* docs/api/overview.md on a handshake refused with 401: get a new token and connect
\* again.
RedialUsesNewToken ==
  \A d \in Dialers : user[d] = "sent" /\ refused[d] # NoToken => result[d] # refused[d]

\* No request is under way for ever: no failed issue leaves the mutex locked, no refusal
\* is retried without end.
EveryRequestReturns == <>[](\A r \in Requests : ~UnderWay(r))
=============================================================================
