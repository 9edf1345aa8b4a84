# toss-go in TLA+

toss-go is a Go client of the Toss Securities Open API: REST calls behind an OAuth2
token cache, and a websocket stream of trades, order books and the user's own order
events. This directory holds TLA+ models of the parts of it that keep state and run
concurrently, TLC configurations that check them on small instances, and proofs, checked
by TLAPS, of the properties that matter most.

Run a check with `tlc -workers 2 -config MCxyz.cfg MCxyz` and a proof with
`tlapm XyzProofs.tla`, both in this directory.

## The system

| part | state | operations | who calls it |
|---|---|---|---|
| subscription set (`stream/subscription.go`) | map type -> set of codes, under `mu` | `add` `remove` `replace` `reject` `declaration` `snapshot` | the user's calls, `readLoop`, `declareLoop` |
| declaration protocol (`stream/stream.go`) | `declareCh` (one slot), `pendingWaiters`, `waiterBatches`, `lastDeclareID` | `Subscribe` `Unsubscribe` `Declare`; `declareLoop`; the ack and error branches of `readLoop`; `retryDeclareAfter`; `failAllWaiters` | user goroutines and the loops of the connection, against the server |
| connection lifecycle (`stream/stream.go`, `conn.go`) | `conn`, `closed`, `done`, the context; locals of `run`: `attempt`, `cause`, `healthy` | `New` `run` `Close` `dial` `backoff` `closeConn` `closeChannels` | one `run` goroutine, any number of `Close` |
| event delivery (`stream/stream.go`) | five buffered channels | `dispatch` `pushLossy` `emitErr` `emitReconnect` | `readLoop`, `declareLoop`, `run`; the user reads |
| frame decoding (`stream/frames.go`) | none | `decodeFrame` `splitTopic` `tradeEvent` `orderbookEvent` `orderEvent` | `readLoop`, `dispatch` |
| stream options (`stream/options.go`) | `config` | `With...`, the fallbacks of `New` | the user, `New` |
| token source (`internal/auth`) | `token`, `expiresAt`, under `mu` | `Token` `Invalidate` `issue` | every REST call, every dial |
| REST client (`internal/httpclient`) | none of its own | `Do` `do` `canRetry` | all sub-clients |
| orders (`order`, `conditionalorder`, over `internal/params` and `internal/fetch`) | none | `Place` `PlaceAmount` `Modify` `Cancel`: refuse a call or build its body and name its key | the user |
| queries (`accounts.go`, `asset`, `marketdata`, `marketinfo`, `stockinfo`, `ranking`, `indicators`, those of `order` and `conditionalorder`) | none | 29 methods of 24 kinds: refuse a call or build its query, decode the answer | the user |
| the rest (`tosstypes`, `codes.go`, `errors.go`, `config.go`, `from_env.go`, `clientorderid.go`, `internal/strutil`, `internal/testutil`, `examples`, `scripts`) | none | constants, types, tooling | |

How they interact:

    user -- Subscribe ----> subscription set -- declaration --> declareLoop ==ws==> server
         <- ack / error --- waiter, batch <------------------- readLoop    <==ws==
         <- Trades() Orders() Errors() Reconnects() --- dispatch, pushLossy
         -- Close --------> run (dial, three loops, redial) -- token --> TokenSource
         -- Do -----------> httpclient ------------------- token --> TokenSource ==> /oauth2/token

What is hard in it:

- `declareLoop` and `readLoop` share the waiters with user goroutines; a call is
  answered by an ack that bears only the id of a declaration, or no id at all, and
  several calls share one declaration.
- a declaration replaces the whole set at the server; local set and server set drift
  apart with every lost connection, rejection, rate limit and failed declaration.
- `Close`, a broken connection and a redial in flight meet in any order.
- channels have bounded buffers and a user who may not read them.
- JSON that lacks data unmarshals without an error; an event of zeros must not get out.
- the token endpoint keeps one valid token per client_id: every renewal, by this process
  or another, ends a token that may be in use.
- a write must not be executed twice by a retry; that it may be retried is decided by a
  key that is given twice, to `Client.Do` and in the body.
- a conditional order couples its type, order type, directions, triggers and prices, and a
  modification states all of them again.

`PROJECT.json` lists these hazards one by one, at their lines, with the properties that
would catch them.

## The modules

| module | models | composes |
|---|---|---|
| `TopicSet` | the abstract specification of a subscription set: a flat set of topics with a limit | |
| `SubscriptionSet` | `subscription.go`: the map, the calls, the body of a declaration | refines `TopicSet` |
| `Connection` | the abstract specification of a stream's connections, as its goroutines see them | |
| `DeclareProtocol` | the calls, `declareLoop`, `readLoop`, `run` as far as declarations go, the server | refines `Connection`; uses sets of topics, as `TopicSet` does |
| `StreamLifecycle` | `New`, `run`, `Close`, `dial`, `backoff`, the exits of the loops | refines `Connection` |
| `StreamOptions` | `options.go`, what `New` makes of them, the delays of `backoff` | |
| `Frames` | `frames.go`, the switches of `readLoop` and `dispatch` | |
| `LossyChannel` | the abstract specification of a lossy channel with one producer | |
| `EventDelivery` | `pushLossy`, the five channels, order gaps and reconnect signals, the user | extends `Frames` and `StreamOptions`; refines `LossyChannel` |
| `TokenSource` | `internal/auth/token.go` and the token endpoint | |
| `OrderRequests` | the writes of `order` and `conditionalorder`: validation, body, key | |
| `Queries` | every read of the client: validation, query | |
| `ClientCalls` | any call of the client, and its request | extends `OrderRequests` and `Queries` |
| `RestClient` | `internal/httpclient` under the calls, and dials as users of tokens | extends `TokenSource` and `ClientCalls` |
| `MC*` | the constants of the TLC runs | |
| `*Proofs` | theorems | extend the module they are named after; `DeclareSyncProofs` extends `DeclareProtocolProofs`, `EventLossProofs` extends `EventDeliveryProofs` |

### SubscriptionSet

The state is `m`, the map of the Go code, as a function from the types present to sets of
codes, and `body`, the last declaration built. `Store` and `Refuse` are the two outcomes
of an addition: `Refuse` leaves the map alone, whatever part of the call was valid. A topic
is a pair of a type and a code; what `validate` says of codes of a type is a constant.
`TopicSet` says the same of a set of topics without the map: the refinement is that the
map never forgets, invents or half-adds a topic, that `CountTopics` counts what the limit
is about, and that a declaration carries exactly the set.

### DeclareProtocol

A waiter is a caller; its channel of one slot is `reply[c]`. `pendingWaiters`,
`waiterBatches`, `lastDeclareID` and `declareCh` are the fields of that name, `subs` is the
subscription set. `declareLoop` is split where other goroutines can act: `DlSelect` (a
signal is taken), `DlDrain` (the id and the drain, one critical section), `DlSnapshot` (the
declaration is built), `DlRegister` (the pacing is over and the batch is registered, before
the write), `DlWrite` or `DlWriteFails`. `readLoop` splits an ack into `RlAck` (stale or not,
under the mutex), `RlReject` (the rejections, outside it) and `RlResolve`. The server is the
set it knows and `inbox`, its frames on their way; it takes up a declaration when that is
written, and may reject topics, fail it with or without an id, or refuse it for its rate.

### Connection

`DeclareProtocol` and `StreamLifecycle` both contain a part of `run`. What one assumes and
the other does is said once, in `Connection`: connections follow one another; a loop that
returns takes the others with it; the next connection is made only when all loops of the
last are gone, so that nobody but `run` deals with what they leave behind; the stream is
over only after `Close` or without reconnect, and then for good. Both modules implement it
(`ImplementsConnection`), each with a mapping of its own control points, and both
implementations are proved. That is how far the two are composed: a state of one is not a
state of the other, but neither assumes of connections what the other does not provide.

### StreamLifecycle

`run` is a program counter over the steps of the Go function: wait for the loops, take the
old connection, close it, wait, dial, publish, announce, resume; `closer[k]` is one over
the statements of `Close`. Sockets are numbered; `open` are those not closed. Age is
`young` or `old` (past `backoffMin`). `hasty`, `why`, `madeBy` and `panicked` are history.

### StreamOptions and Frames

Both are without state. `StreamOptions` has a configuration as a record, `With` for every
option that sets a number, `Normal` for the fallbacks of `New`, and the delay before a dial:
`Doubled` is the loop of `backoff` as a recursive function, `Jittered` what the random
factor allows. `MCStreamLifecycle` has TLC compare `Delay` with min * 2^(n - 2) up to max,
evaluate `Usable(Normal(...))` for any two settings, and check that "wait or no wait", all
`StreamLifecycle` says of the backoff, is right (assumptions, since they do not depend on
the state).

`Frames` says of a frame which channel it goes to. JSON is represented by which events the
data unmarshals as, and by the fields the code looks at; a missing field is its zero value,
and data that is missing or null unmarshals as anything, all zeros.

### EventDelivery

Every channel is a bounded queue, of the length `Normal` gives it. `pushLossy` is three
steps, because the user and another loop act between its selects. A frame is any of
`OtherFrames`, or, for each change of an order, any of `OrderFrames`: good ones, and ones
with something missing or unknown. Order events are numbered by the change they report; a
connection delivers every change after its subscription took effect. The user reads any
channel at any time or never, and on a `Reconnect` reads the orders by REST at once.
`LossyChannel` says what the three selects are good for where one goroutine sends, as to
`Trades()`, `Orderbooks()` and `Reconnects()`: an item that finds the channel full displaces the
oldest, as if at once. The item counts as sent when another was dropped for it. A user
who reads just then costs one item more than needed, as the comment on `pushLossy` allows,
and `Displace` says so. `Errors()` has several producers and is not such a channel: two
errors can change places, and the later one can be lost.
`hollow` and `undecoded` are history: that an incomplete event was sent, and which changes
ended as an error.

### TokenSource and RestClient

Tokens are numbered as they are granted; the valid one is the last. Time is a counter; an
exchange takes at most `Timeout` ticks, which is what `http.Client.Timeout` gives. A call
of `Token` that misses the cache holds the mutex (`mu = c`) until it stores or fails. Each
goroutine of `RestClient` makes one call (`Asked`, from the mix chosen at the start): it is
refused by its validation (`RefuseCall`), or its request, `RequestOf` the call, begins with
`Token`, is answered by the server according to the
token it carries, and on a token error invalidates that token and perhaps starts again. An
answer without token error is read in the step that gives it: it touches nothing shared.
The server may have accepted a write it answers with a token error, which is the case the
comment on `IdempotencyKey` (client.go:114-116) guards against. A dialer does what `dial` does, over and over.

### OrderRequests, Queries, ClientCalls

No state: a call is a record, and operators say whether it is accepted (`PlaceValid`,
`AmountValid`, `ModifyValid`, `GroupValid`, named after the Go functions), what its body is
and which key `PostOne` passes on. Decimals are integers in units of `1/Scale`, so that an
integer quantity can be told from a fraction. Well-formed numbers, symbols, ids and keys
are told from malformed ones, not spelled out. The reference (`OrderConforms`,
`ModificationConforms`, `GroupConforms`) is what the schemas of `docs/api/openapi.json`
demand of a body without knowing the market; for amounts it demands more than their
patterns, that they are not 0. Values of an enumeration that the package does not declare
are outside: the code passes them on, for the server to refuse.

The 29 query methods share `internal/params` and differ in their arguments, so each is a
`Shape`: the resource it reads, whether that is one of an account, how many symbols it takes
and of which alphabet, which texts it requires and which parameters may be left out. A call
says how many symbols there are and what they look like, which texts were set, which of
these have a value the document does not list, and the numbers.

The reference, `ReadConforms`, does not use the shapes. It is a table of the GETs of
`docs/api/openapi.json` (`Documented`): account header, required and optional parameters,
pattern or enumeration of the symbol, maximum of `count` or `limit` (50 trades, 200 candles,
100 of the rest), besides 200 symbols to a list. The client does not keep to all of it. It
leaves three things to the server, and `InDocumentedRange` names them: `params.Int` sends any
number that is positive, though openapi.json:450-456 and others give maxima; enumerations,
and the pattern of `cursor`, are passed on unread; and `indicators.InvestorTrading` takes any
symbol of an indicator where the document lists `KOSPI` and `KOSDAQ`. The doc comments give
the maxima as facts about the server ("최대 200", marketdata/candles.go:35) and promise no
check, so this is a limit of the client's validation and no finding.

`ClientCalls` puts the calls together; `AsAsked` says that a request says all the caller
asked for and is one the documents allow: for writes as far as the references above go, for
reads unless the caller's own values are outside `InDocumentedRange`.

## The runs

| run | instance | shows |
|---|---|---|
| `subscription_set` | 2 types, 2 codes, limit 2, all calls of up to 2 topics | every call is all or nothing, no entry without codes is left, every body is one the server accepts; `SubscriptionSet` implements `TopicSet` |
| `declare_safety` | 2 calls, 2 topics, 3 declarations, 2 connections, 1 fault | no waiter is answered twice or by a declaration that does not cover it; one batch at most, the last; a pending waiter always has a signal; at rest both sides have the same set and no waiter is held, save behind an error without an id; connections are used as `Connection` says |
| `declare_live` | as `declare_safety`, with all its faults, but no call has a deadline, each subscribes to both topics or releases all, and the coalescing delay is no shorter than the interval | no waiter is lost; every call returns, save one left behind by an error without an id or waiting for a connection that never comes; while the stream stays up, the sets become equal |
| `stream_lifecycle` | 2 closers, with and without reconnect, 4 attempts, 4 connections | at most one socket, no send on a closed channel, `Close` is complete and ends, `Reconnect.Cause` is true, at most two hasty dials; `run` provides what `Connection` says |
| `rest_client` | 2 calls of 5 mixes and a dialer; 3 tokens, 1 of them to another process; lifetime 3, margin 1, timeout 1, 4 ticks | see below |
| `event_delivery` | 15 frames and 7 that tell of an order; the buffers wrongly set to 0 and -1, so the defaults count, 2 for trades and order books, 1 for the others; 3 items in the lossy channels besides 2 signals, 3 order changes, 3 connections | `Trades()`, `Orderbooks()` and `Reconnects()` implement `LossyChannel`, `pushLossy` loses only the excess, orders are lossless within a connection up to what is reported as an error, every event has its values, gaps are signalled, nothing waits for the user |

The bounds are the smallest at which the interesting case happens: two of everything
that can race, one buffer slot so that full and empty are near, one more connection,
attempt or token than the shortest bad history needs. The properties do not count
higher than that. In `event_delivery` a channel of one slot is both empty and full one step
apart. Which item is lost shows only where there are two places, as for trades, and three
items are one lost and two kept. In `rest_client` four ticks
are the fewest at which a request can be refused twice while nobody else is granted a token.

`rest_client` checks that a token handed out from the cache is the last this process was
granted (`FreshIsLatest`) and lives past the margin (`FreshIsAlive`), that no write is
executed twice (`NoDoubleEffect`), that refused tokens leave the cache
(`RefusedNotCached`) and only they do (`KeepsFresher`), that a retry carries a new token
(`RetryUsesNewToken`), that what is sent is what was asked for (`SentAsAsked`) and that
every request returns. `RetrySuffices` says what the single
retry is good for. It is not enough in general: a goroutine held up between the refusal and
the retry may be given a token that a third one renews during the second exchange. That
takes a token's lifetime less `refreshMargin` from the first attempt on, and nothing
shorter does, as long as only this process is granted tokens. The bounds of the run are
such that double refusals happen in it (three tokens, four ticks).

The five mixes of calls: an order with a key and a cancellation, one retried and the other
not; and four of which all calls but two are wrong in one thing each: an OCO whose triggers are
the wrong way round, a limit order without a price, an OTO without a second leg, a market
modification with a price, a query for one symbol too many, candles without an interval. The
two are an OCO as it should be and the trades of a symbol, as many as the document allows.
A validation that lets one of them pass violates `SentAsAsked`; a key that is not in the
body lets the retry execute an order twice (`NoDoubleEffect`). That no other call slips
through, for all decimals and all combinations, is what the proofs are for.

Six runs end in a counterexample, each against a sentence of the code or its documents,
quoted in `PROJECT.json`:

| run | what happens |
|---|---|
| `declare_orphan` | the connection ends while a declaration waits for its interval; the waiters it had drained are forgotten and their calls hang |
| `declare_lost_rejection` | an ack arrives when its batch was taken over by the next declaration; `Subscribe` returns nil for a rejected topic |
| `declare_stale_reject` | an ack that is current when checked is stale when applied, and its rejection removes a topic the server has accepted since |
| `stream_flap` | a connection that breaks at once is redialed as attempt 1: the counter was reset by the health of its predecessor |
| `redial_token` | a dial refused with 401 is repeated with the same token |
| `delivery_resync` | the reconnect signal comes before the subscription is restored; a change between the user's REST read and that moment is never shown |

`CHECK_DEADLOCK FALSE` is set where the system may stop: all calls have returned, the stream
is closed, or the bounds are used up.

## Fairness

Weak fairness on the steps of the library's own goroutines: the Go scheduler runs a
goroutine that can run. Exchanges end, because the HTTP client and the dial have
timeouts. The server answers or the connection ends (the ping loop sees to that). Strong
fairness only where a goroutine waits for a mutex or a select that others keep busy:
`sync.Mutex` hands over to a waiter after a millisecond, and `select` is random. Nothing
forces a fault, a call, a `Close`, a read of a channel, or a connection to break.

Whether a dial ever succeeds is not the code's to promise. `StreamLifecycle` has every dial
end, well or not. `DeclareProtocol` does not force one to succeed, and its two liveness
properties say what that costs: with `autoReconnect` and no connection to be had, a call
that came after the last one broke waits for the next, and the server delivers nothing.
`StreamNeverBlocks`, which is about users who do not read, is the one property that assumes
that a dial succeeds sooner or later. The other exception of `EveryCallReturns` is the
code's choice (stream.go:425-428): an error without an id may be about anything, so
`readLoop` leaves the waiters where they are; if it was about their declaration and no other
follows, only a deadline, `Close` or the end of the connection frees them.

## The proofs

Each holds for every value of the constants under the named assumptions of its module.

- `SubscriptionSetProofs`. `IInv` is the type invariant, `NoEmptyEntry` and
  `BodyWellFormed`. Lemmas say what merging, removing and building a declaration do to the
  set of topics; `Refinement` shows each step of the map to be a step of `TopicSet`. It needs the
  invariant: only a map without empty entries has no topics exactly when it has no
  entries, and that is what the code tests to decide on a full release.
- `DeclareProtocolProofs`. `IInv` adds to the stated properties where each waiter is: what
  is held is in exactly one of `pendingWaiters`, the hands of `declareLoop` and a batch, and
  has not been answered. From it follow `AtMostOneReply`, `BatchIsLatest` and
  `SignalMatchesWaiters`. `OrphansFromPacing` needs no assumption on the interval: a
  registered call that nobody holds can come only from a connection that ends while a
  declaration waits for its interval, and only from among the waiters that declaration had
  drained. Where the interval never makes a declaration wait, `NoOrphanWaiter` follows; the
  other case is the run `declare_orphan`.
- `DeclareSyncProofs`. `SyncInv` follows a body from the set to the server and back. The set
  carries every call that has begun (`SetCarries`), the body in hand the calls it will
  answer for (`BodyCarries`), and a frame about a declaration the calls in its batch
  (`FramesCarry`): so success is told of a declaration that carried the call
  (`AckCoversCall`). Here ids matter: no frame bears the id of a declaration that is still
  being prepared (`Numbered`), so a late or an id-less ack meets no later batch. `Tracked`
  compares the sets: while no declaration is due, the local set, the body in hand and the
  server's set differ only by what the server may reject, and what the server does not
  deliver is in an ack about to be applied. At rest nothing is left to be applied, which
  gives `NothingMissing` whatever is rejected: the server delivers the whole local set, and
  beyond it only topics it rejects at one time and accepts at another. If there are none,
  the sets are equal (`RestsInSync`, the property `InSync`); that they need not be otherwise
  is the run `declare_stale_reject`. `Awaited` says that a batch, and a declaration refused
  for its rate, always has an answer, a timer or a signal to wait for, save a batch left
  behind by an error without an id; at rest there is none, so nobody else waits
  (`RestIsAnswered`). It is the safety half of `EveryCallReturns`, and it needs no fairness.
- `StreamLifecycleProofs`. `IInv` adds which sockets are open at each control point of
  `run` and of each `Close` (the connection published, the one in `run`'s hand, those taken
  by closers), in which phases the channels are open, and how `attempt`, `healthy` and
  `age` bound `hasty`. From it follow `OneConnection`, `NoSendOnClosed`,
  `NoReconnectStorm` and `CloseIsComplete`. `Told` adds who knows why a connection ended: what
  `readLoop` leaves in `causeCh`, then `run`, through any number of failed dials. From it
  follows `CauseIsTrue`.
- `RestClientProofs`. `CacheInv` and `CallInv` are the invariant of `TokenSource`: nobody
  issues while the cache is fresh, and what a call was granted is newer than anything
  cached, held or refused. `UsersKeepTokenSpec` shows that requests and streams use the
  cache as `TokenSpec` says, so the invariant is theirs too. From it follow
  `FreshIsLatest`, `FreshIsAlive`, `RefusedNotCached`, `RetryUsesNewToken` and
  `KeepsFresher`; `NoDoubleEffect` needs that a request the server does not recognise is
  never a retry, which is `KeyIsInBody`. `SentAsAsked` follows from `CallsConform` and from
  `OnlyValid`: a request that has a token has passed its validation. For
  `RetrySuffices`, `Timing` follows a request through its attempts: any token newer than
  the one it was first sent with was asked for after that, so it is due for renewal only a
  lifetime less the margin later, and until then nobody replaces it.
- `ClientCallsProofs`. `BodiesConform` goes through the validations case by case; a leg that
  passes `Condition.validate` is a conforming one (`ValidLegConforms`) and reads back as
  itself (`LegReadsBack`), because the price that `body` leaves out is 0 whenever the order
  type is one of the two. `ReadsConform` is an equivalence: a query is one the document
  allows exactly if it passes the validation and its values are in the documented range: the
  validation lets nothing else through that the document forbids, and refuses nothing it
  allows. `MethodsAgree` compares the shape of every method with the table; `FieldsConform`
  and `NumbersConform` are then one argument for all of them. `CallsConform` puts them
  together. `KeyIsInBody` is about every call: what `Client.Do` sends twice, the server
  recognises.
- `EventDeliveryProofs`. `OptionsAreUsable` is about `New` and any options; it gives the
  channels their room (`Capacity`). `EventsAreWhole` and `NoMessageIsIgnored` follow a frame
  of any content through decoding and dispatch (`KindIs`, `DispatchIs`, `GoesIs`). From them
  follow `TypeOK`, which needs that no order frame goes to the trades, and `EventsComplete`.
- `EventLossProofs`. Its invariant has four parts. `Numbered`: of a channel with one
  producer, the newest item is in the channel, read, or being pushed, and who has dropped
  an item finds room; hence `NewestSurvives`. `Excess` is an account of a channel nobody
  has read: what was made, what is in it and the pushes at each of the three selects of
  `pushLossy` balance (`Balanced`), with several producers too, one of which may
  find the place another has made; hence `LosesOnlyTheExcess`. `Announced`: a `Reconnect` is
  made for every connection but the first, before anything is read from it; hence
  `GapIsSignalled`. `InOrder`: between two neighbours in `Orders()`, or the last one there and
  the next to come, changes are missing only if they were reported as undecodable or lie
  before the start of a later connection; hence `OrdersLossless`. `LossyImplemented` is the
  refinement of `LossyChannel`: `ChannelStep` gives each step of `EventDelivery` a step of the
  channel or a stutter, which needs of `Numbered` that only the producer pushes and that who has
  dropped an item finds room. `NoHolesLeft` follows the channel's steps.
- `ReliesOnConnection` (in `DeclareProtocolProofs`) and `KeepsConnection` (in
  `StreamLifecycleProofs`) are the two refinements of `Connection`. The invariant is which
  loops can be running in which phase, and that the context is done when one has returned.

Every safety property of the passing runs is proved. Only model-checked are the liveness
properties (`EveryCallReturns`, `EventuallyInSync`, `Terminates`, `EveryRequestReturns`,
`StreamNeverBlocks`), since TLAPS has no ENABLED and no fairness, and what the recursive
`Doubled` computes, since that needs an induction over data. The assumptions besides those
on the constants are two, each with a run that violates the property without it:
`NoOrphanWaiter` where the interval never makes a declaration wait, and `InSync` where
`MayReject` is no more than `AlwaysRejected`.

## Not modelled

JSON syntax, the payload fields nothing is decided by, the types answers are decoded into,
headers other than the account's, URL building, error texts and the parsing of
`Retry-After`: pure, and covered by the repository's tests. `tosstypes`, `codes.go` and the
`types.go` files are declarations; `clientorderid.go` draws a random identifier, whose
uniqueness is the assumption behind `Recognised`. Durations in the state machines: only
whether something waits. The websocket library: frames of a connection are delivered in order
or the connection breaks. The account's limit of two connections is respected per stream
(`OneConnection`), not across streams. A caller whose ctx ends while another holds the
token mutex waits for it: the code promises no bound, and none is stated.

## Plan

Done: all components that decide anything, and proofs of all their safety properties. Next,
in this order:

1. `DeclareProtocol` with `SubscriptionSet` in place of plain sets, so that the limit and
   the refusals of `add` meet rejections and reconnects.
2. the life of an order id through `Modify` and `Cancel`, each of which replaces it, with the
   events that report the old one.
