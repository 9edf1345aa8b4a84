-------------------------- MODULE DeclareProtocol --------------------------
(***************************************************************************)
(* How a stream turns Subscribe, Unsubscribe and Declare calls into full-   *)
(* replace declarations and hands the server's answers back to the callers  *)
(* (stream/stream.go).  Three kinds of goroutines interleave: the callers,  *)
(* declareLoop and readLoop; run starts the loops for each connection and   *)
(* fails what is left when one ends.  Each action is one critical section   *)
(* or one blocking operation of one goroutine.  The subscription set is the *)
(* flat topic set that SubscriptionSet implements; dial retries, causes and *)
(* event channels belong to StreamLifecycle and EventDelivery.              *)
(***************************************************************************)
EXTENDS Naturals, Sequences, FiniteSets

CONSTANTS
  Calls,          \* API calls, each made at most once
  Impatient,      \* the calls whose ctx may end before the answer
  Topics,         \* topics that can be subscribed
  Requests,       \* the [op, keys] a call may ask for
  AlwaysRejected, \* topics the server rejects in every declaration
  MayReject,      \* topics the server may reject (a cause that can be fixed)
  Faults,         \* other answers: "rateLimit", "error", "errorNoID"
  PacingBinds,    \* minDeclareInterval may make a declaration wait; FALSE
                  \* when WithCoalesceDelay is no shorter than it
  AutoReconnect,  \* FALSE under WithoutAutoReconnect
  MayClose,       \* whether the user may close the stream
  MaxFaults,      \* bound: declarations the server answers with a fault
  MaxConns        \* bound: connections of one stream

Ops == {"subscribe", "unsubscribe", "declare"}
Request == [op : Ops, keys : SUBSET Topics]

ASSUME ConstantsAssumption ==
  /\ Requests \subseteq Request
  /\ Impatient \subseteq Calls
  /\ AlwaysRejected \subseteq MayReject /\ MayReject \subseteq Topics
  /\ Faults \subseteq {"rateLimit", "error", "errorNoID"}
  /\ PacingBinds \in BOOLEAN /\ AutoReconnect \in BOOLEAN /\ MayClose \in BOOLEAN
  /\ MaxFaults \in Nat /\ MaxConns \in Nat

VARIABLES
  \* Stream fields shared under s.mu (subs under its own lock)
  subs, pendingWaiters, waiterBatches, lastDeclareID, seq, declareCh, conn, closed,
  lastDeclareAt,  \* whether a declaration has been written yet (its time, abstracted)
  \* run: where it is, whether connCtx is cancelled, connections made so far
  run, ctxDone, conns,
  \* declareLoop: control point and locals (id, waiting or carried, body, prevID)
  dl, dlID, dlWaiting, dlBody, dlPrevID,
  \* readLoop: control point and locals (the ack in hand, rejections left to apply)
  rl, rlFrame, rlTodo,
  \* retry goroutines still sleeping (retryDeclareAfter)
  timers,
  \* each call: control point, request, result, what was sent to its channel
  callPc, request, result, reply,
  \* the server: frames on their way, its subscriptions, its verdict
  \* on the last declaration, faults so far
  inbox, serverSubs, verdict, faults,
  \* history: topics another call has since decided otherwise; whether a retry
  \* or a reconnect asked for a declaration since the last one was drained
  undone, selfAsked

streamVars == <<subs, pendingWaiters, waiterBatches, lastDeclareID, seq, declareCh>>
runVars    == <<run, conns, conn>>
dlVars     == <<dl, dlID, dlWaiting, dlBody, dlPrevID>>
rlVars     == <<rl, rlFrame, rlTodo>>
clockVars  == <<timers, lastDeclareAt>>
callVars   == <<callPc, request, result>>
serverVars == <<serverSubs, verdict, faults>>
vars == <<streamVars, runVars, ctxDone, closed, dlVars, rlVars, clockVars, callVars,
          reply, inbox, serverVars, undone, selfAsked>>
-----------------------------------------------------------------------------
NoID == 0  \* the empty id; a declaration's id is its sequence number

Batch == [id : Nat \ {NoID}, waiters : SUBSET Calls]
Frame == [kind : {"ack", "rateLimit", "error"}, id : Nat,
          rejected : SUBSET Topics, body : SUBSET Topics]
Errors == {"none", "declareError", "writeError", "connClosed", "notConnected"}
Results == Errors \cup {"nil", "rejected", "ctxErr", "streamClosed"}
\* what a waiter's channel carries; body is the declaration it answers (history)
Reply == [err : Errors, rejected : SUBSET Topics, body : SUBSET Topics]

\* a failure that is answered without the id is a verdict of its own
Verdicts == {"accepted", "rateLimited", "failed", "failedNoID"}

Failure(e) == [err |-> e, rejected |-> {}, body |-> {}]
Success(f) == [err |-> "none", rejected |-> f.rejected, body |-> f.body]

\* the topics a request wants in the set, and out of it
Wants(r)  == IF r.op = "unsubscribe" THEN {} ELSE r.keys
Shuns(r)  == CASE r.op = "subscribe"   -> {}
               [] r.op = "unsubscribe" -> r.keys
               [] r.op = "declare"     -> Topics \ r.keys

\* the topics whose rejection the call reports (subKeys; nil for Unsubscribe)
Keys(r) == IF r.op = "unsubscribe" THEN {} ELSE r.keys

WaitersOf(bs) == UNION {b.waiters : b \in bs}

\* Mutant: an ack without id goes to whatever batch is waiting.
MatchingOrOldest(id) == {b \in waiterBatches : id = NoID \/ b.id = id}

\* takeBatch: the batch waiting under id, none for an ack without id
Matching(id) == {b \in waiterBatches : id # NoID /\ b.id = id}

\* resolveWaiters: one send of r on the channel of every waiter in ws
Deliver(ws, r) ==
  reply' = [c \in Calls |-> IF c \in ws THEN Append(reply[c], r) ELSE reply[c]]

\* Mutant: the request to declare again is dropped.
RequestNothing == UNCHANGED <<declareCh, selfAsked>>

\* requestDeclare on the stream's own account (a retry, a reconnect)
RequestDeclare == declareCh' = TRUE /\ selfAsked' = TRUE

\* Mutant: rate-limit-exceeded is reported but nothing is declared again.
NoRetry == UNCHANGED timers

\* retryDeclareAfter: one more goroutine sleeps until it may ask again
RetryLater == timers' = timers + 1

\* Mutant: the batches are failed but stay in the list.
KeepBatches == UNCHANGED waiterBatches

\* the whole list is taken out before its waiters are resolved
TakeBatches == waiterBatches' = {}

\* Mutant: a declaration does not take over the waiters of earlier ones.
CarryNothing == {}

\* full replace: the next declaration answers for all that are still waiting
CarriedOver == WaitersOf(waiterBatches)

\* Mutant: the new batch joins the list, the old ones stay.
AppendBatch(ws) == waiterBatches \cup {[id |-> dlID, waiters |-> ws]}

\* the batch list once ws are registered under the new declaration
BatchFor(ws) == IF ws = {} THEN {} ELSE {[id |-> dlID, waiters |-> ws]}

\* Mutant: the id is taken before the counter moves, so the first one is empty.
CurrentID == seq

NextID == seq + 1

\* Mutant: the signal of the drained waiters is left behind.
DrainWaiters == pendingWaiters' = {} /\ UNCHANGED <<declareCh, selfAsked>>

\* waiters and signal leave together
Drain == pendingWaiters' = {} /\ declareCh' = FALSE /\ selfAsked' = FALSE

\* Mutant: run goes on as soon as the read loop is gone.
ReadLoopGone == rl = "exit"

\* wg.Wait: run goes on only when the loops have returned
LoopsGone == dl = "exit" /\ rl = "exit"

\* connections break on their own only while another one may be made
MayBreak == conns < MaxConns
-----------------------------------------------------------------------------
Init ==
  /\ subs = {} /\ pendingWaiters = {} /\ waiterBatches = {}
  /\ lastDeclareID = NoID /\ seq = 0 /\ declareCh = FALSE
  /\ conn = TRUE /\ closed = FALSE
  /\ run = "serving" /\ ctxDone = FALSE /\ conns = 1
  /\ dl = "select" /\ dlID = NoID /\ dlWaiting = {} /\ dlBody = {} /\ dlPrevID = NoID
  /\ rl = "read" /\ rlTodo = {}
  /\ rlFrame = [kind |-> "ack", id |-> NoID, rejected |-> {}, body |-> {}]
  /\ timers = 0 /\ lastDeclareAt = FALSE
  /\ callPc = [c \in Calls |-> "idle"]
  /\ request = [c \in Calls |-> [op |-> "subscribe", keys |-> {}]]
  /\ result = [c \in Calls |-> "none"]
  /\ reply = [c \in Calls |-> <<>>]
  /\ inbox = <<>> /\ serverSubs = {} /\ verdict = "accepted" /\ faults = 0
  /\ undone = [c \in Calls |-> {}] /\ selfAsked = FALSE

(***************************************************************************)
(* Callers: change the set, register a waiter, wait.                       *)
(***************************************************************************)
\* Subscribe, Unsubscribe, Declare: the set changes first ...
Begin(c, r) ==
  /\ callPc[c] = "idle" /\ ~closed
  /\ subs' = (subs \ Shuns(r)) \cup Wants(r)
  /\ callPc' = [callPc EXCEPT ![c] = "added"]
  /\ request' = [request EXCEPT ![c] = r]
  /\ undone' = [d \in Calls |->
       IF callPc[d] # "idle"
       THEN undone[d] \cup (Wants(request[d]) \cap Shuns(r))
                      \cup (Shuns(request[d]) \cap Wants(r))
       ELSE undone[d]]
  /\ UNCHANGED <<pendingWaiters, waiterBatches, lastDeclareID, seq, declareCh,
                 runVars, ctxDone, closed, dlVars, rlVars, clockVars, result, reply,
                 inbox, serverVars, selfAsked>>

Return(c, res) ==
  /\ callPc' = [callPc EXCEPT ![c] = "returned"]
  /\ result' = [result EXCEPT ![c] = res]
  /\ UNCHANGED <<streamVars, runVars, ctxDone, closed, dlVars, rlVars, clockVars,
                 request, reply, inbox, serverVars, undone, selfAsked>>

BeginClosed(c) == callPc[c] = "idle" /\ closed /\ Return(c, "streamClosed")

\* ... then declareAndWait registers the waiter and signals, under one lock
RegisterWaiter(c) ==
  /\ callPc[c] = "added"
  /\ callPc' = [callPc EXCEPT ![c] = "waiting"]
  /\ pendingWaiters' = pendingWaiters \cup {c}
  /\ declareCh' = TRUE
  /\ UNCHANGED <<subs, waiterBatches, lastDeclareID, seq, runVars, ctxDone, closed,
                 dlVars, rlVars, clockVars, request, result, reply, inbox,
                 serverVars, undone, selfAsked>>

Outcome(c) ==
  LET r == Head(reply[c]) IN
  IF r.err # "none" THEN r.err
  ELSE IF r.rejected \cap Keys(request[c]) # {} THEN "rejected" ELSE "nil"

ReceiveReply(c) == callPc[c] = "waiting" /\ reply[c] # <<>> /\ Return(c, Outcome(c))

GiveUp(c) == c \in Impatient /\ callPc[c] = "waiting" /\ Return(c, "ctxErr")

SeeDone(c) == callPc[c] = "waiting" /\ run = "done" /\ Return(c, "streamClosed")

(***************************************************************************)
(* declareLoop: signal, coalesce, drain, snapshot, pace, register, write.  *)
(***************************************************************************)
DlSelect ==
  /\ dl = "select" /\ declareCh
  /\ dl' = "coalesce" /\ declareCh' = FALSE
  /\ UNCHANGED <<subs, pendingWaiters, waiterBatches, lastDeclareID, seq, runVars,
                 ctxDone, closed, dlID, dlWaiting, dlBody, dlPrevID, rlVars,
                 clockVars, callVars, reply, inbox, serverVars, undone, selfAsked>>

\* the connection ended while waiting for a signal, in the coalescing delay or
\* in the pacing delay; in the last one the drained waiters are dropped
DlCtxDone ==
  /\ ctxDone
  /\ dl \in {"select", "coalesce"} \/ (dl = "pace" /\ PacingBinds /\ lastDeclareAt)
  /\ dl' = "exit" /\ dlWaiting' = {}
  /\ UNCHANGED <<streamVars, runVars, ctxDone, closed, dlID, dlBody, dlPrevID,
                 rlVars, clockVars, callVars, reply, inbox, serverVars, undone,
                 selfAsked>>

\* after the delay: a fresh id, and waiters and signal taken under one lock
DlDrain ==
  /\ dl = "coalesce"
  /\ seq' = seq + 1 /\ dlID' = NextID
  /\ dlWaiting' = pendingWaiters /\ Drain
  /\ dl' = "snapshot"
  /\ UNCHANGED <<subs, waiterBatches, lastDeclareID, runVars, ctxDone, closed,
                 dlBody, dlPrevID, rlVars, clockVars, callVars, reply, inbox,
                 serverVars, undone>>

\* the body is taken after the drain; without a connection the waiters fail
DlSnapshot ==
  /\ dl = "snapshot"
  /\ dlBody' = subs
  /\ IF conn
     THEN dl' = "pace" /\ UNCHANGED <<dlWaiting, reply>>
     ELSE /\ dl' = "select" /\ dlWaiting' = {}
          /\ Deliver(dlWaiting, Failure("notConnected"))
  /\ UNCHANGED <<streamVars, runVars, ctxDone, closed, dlID, dlPrevID, rlVars,
                 clockVars, callVars, inbox, serverVars, undone, selfAsked>>

\* before the write: this declaration takes over the waiters of earlier ones; an
\* empty one keeps them in hand, for it can get no ack of its own
DlRegister ==
  LET carried == dlWaiting \cup CarriedOver IN
  /\ dl = "pace"
  /\ dl' = "write"
  /\ IF dlBody = {}
     THEN /\ dlWaiting' = carried /\ TakeBatches
          /\ UNCHANGED <<lastDeclareID, dlPrevID>>
     ELSE /\ dlPrevID' = lastDeclareID /\ lastDeclareID' = dlID
          /\ waiterBatches' = BatchFor(carried)
          /\ dlWaiting' = {}
  /\ UNCHANGED <<subs, pendingWaiters, seq, declareCh, runVars, ctxDone, closed,
                 dlID, dlBody, rlVars, clockVars, callVars, reply, inbox,
                 serverVars, undone, selfAsked>>

\* the server's answer to the declaration just written
ServerAck(id, body) ==
  \E r \in SUBSET (body \cap MayReject) :
    /\ body \cap AlwaysRejected \subseteq r
    /\ inbox' = Append(inbox,
         [kind |-> "ack", id |-> id, rejected |-> r, body |-> body])
    /\ serverSubs' = body \ r /\ verdict' = "accepted"
    /\ UNCHANGED faults

\* existing subscriptions stay; a rate limit error never carries the id
ServerFault(id, body) ==
  \E f \in Faults :
    /\ faults < MaxFaults /\ faults' = faults + 1
    /\ inbox' = Append(inbox,
         [kind |-> IF f = "rateLimit" THEN "rateLimit" ELSE "error",
          id |-> IF f = "error" THEN id ELSE NoID, rejected |-> {}, body |-> body])
    /\ verdict' = (CASE f = "rateLimit" -> "rateLimited"
                    [] f = "error"     -> "failed"
                    [] f = "errorNoID" -> "failedNoID")
    /\ UNCHANGED serverSubs

ServerAnswers(id, body) == ServerAck(id, body) \/ ServerFault(id, body)

\* c.Write succeeds; [] carries no id and its waiters are released at once
DlWrite ==
  /\ dl = "write" /\ ~ctxDone
  /\ dl' = "select" /\ lastDeclareAt' = TRUE
  /\ IF dlBody = {}
     THEN /\ ServerAnswers(NoID, {})
          /\ Deliver(dlWaiting, [err |-> "none", rejected |-> {}, body |-> {}])
          /\ dlWaiting' = {}
     ELSE ServerAnswers(dlID, dlBody) /\ UNCHANGED <<dlWaiting, reply>>
  /\ UNCHANGED <<streamVars, runVars, ctxDone, closed, dlID, dlBody, dlPrevID,
                 rlVars, timers, callVars, undone, selfAsked>>

\* c.Write fails: the id is taken back and the waiters are told
DlWriteFails ==
  /\ dl = "write" /\ (ctxDone \/ MayBreak)
  /\ dl' = "exit" /\ ctxDone' = TRUE
  /\ dlWaiting' = {}
  /\ IF dlBody = {}
     THEN /\ Deliver(dlWaiting, Failure("writeError"))
          /\ UNCHANGED <<lastDeclareID, waiterBatches>>
     ELSE /\ Deliver(WaitersOf(waiterBatches), Failure("writeError"))
          /\ TakeBatches /\ lastDeclareID' = dlPrevID
  /\ UNCHANGED <<subs, pendingWaiters, seq, declareCh, runVars, closed, dlID,
                 dlBody, dlPrevID, rlVars, clockVars, callVars, inbox, serverVars,
                 undone, selfAsked>>

(***************************************************************************)
(* readLoop: one frame at a time.                                          *)
(***************************************************************************)
Reading(kind) == rl = "read" /\ inbox # <<>> /\ Head(inbox).kind = kind

\* the stale check reads lastDeclareID under s.mu, the removals follow later
RlAck ==
  LET f == Head(inbox)
      stale == f.id # NoID /\ lastDeclareID # NoID /\ f.id # lastDeclareID IN
  /\ Reading("ack")
  /\ rl' = "ack" /\ rlFrame' = f
  /\ rlTodo' = IF stale THEN {} ELSE f.rejected
  /\ inbox' = Tail(inbox)
  /\ UNCHANGED <<streamVars, runVars, ctxDone, closed, dlVars, clockVars, callVars,
                 reply, serverVars, undone, selfAsked>>

RlReject(t) ==
  /\ rl = "ack" /\ t \in rlTodo
  /\ subs' = subs \ {t} /\ rlTodo' = rlTodo \ {t}
  /\ UNCHANGED <<pendingWaiters, waiterBatches, lastDeclareID, seq, declareCh,
                 runVars, ctxDone, closed, dlVars, rl, rlFrame, clockVars, callVars,
                 reply, inbox, serverVars, undone, selfAsked>>

\* takeBatch and resolveWaiters with the ack's rejections
RlResolve ==
  LET bs == Matching(rlFrame.id) IN
  /\ rl = "ack" /\ rlTodo = {}
  /\ rl' = "read"
  /\ waiterBatches' = waiterBatches \ bs
  /\ Deliver(WaitersOf(bs), Success(rlFrame))
  /\ UNCHANGED <<subs, pendingWaiters, lastDeclareID, seq, declareCh, runVars,
                 ctxDone, closed, dlVars, rlFrame, rlTodo, clockVars, callVars,
                 inbox, serverVars, undone, selfAsked>>

\* nobody is told: a redeclaration is scheduled and will carry the waiters
RlRateLimit ==
  /\ Reading("rateLimit")
  /\ RetryLater /\ inbox' = Tail(inbox)
  /\ UNCHANGED <<lastDeclareAt, streamVars, runVars, ctxDone, closed, dlVars,
                 rlVars, callVars, reply, serverVars, undone, selfAsked>>

\* any other error fails the batch whose id it carries, if it carries one
RlError ==
  LET bs == Matching(Head(inbox).id) IN
  /\ Reading("error")
  /\ waiterBatches' = waiterBatches \ bs
  /\ Deliver(WaitersOf(bs), Failure("declareError"))
  /\ inbox' = Tail(inbox)
  /\ UNCHANGED <<subs, pendingWaiters, lastDeclareID, seq, declareCh, runVars,
                 ctxDone, closed, dlVars, rlVars, clockVars, callVars, serverVars,
                 undone, selfAsked>>

\* the read fails, ctx is cancelled or the order buffer is full
RlExit ==
  /\ rl = "read" /\ (ctxDone \/ MayBreak)
  /\ rl' = "exit" /\ ctxDone' = TRUE
  /\ UNCHANGED <<streamVars, runVars, closed, dlVars, rlFrame, rlTodo, clockVars,
                 callVars, reply, inbox, serverVars, undone, selfAsked>>

\* pingLoop cannot write and cancels the connection's context
PingFails ==
  /\ run = "serving" /\ ~ctxDone /\ MayBreak
  /\ ctxDone' = TRUE
  /\ UNCHANGED <<streamVars, runVars, closed, dlVars, rlVars, clockVars, callVars,
                 reply, inbox, serverVars, undone, selfAsked>>

RetryFires ==
  /\ timers > 0 /\ timers' = timers - 1
  /\ RequestDeclare
  /\ UNCHANGED <<lastDeclareAt, subs, pendingWaiters, waiterBatches, lastDeclareID,
                 seq, runVars, ctxDone, closed, dlVars, rlVars, callVars, reply,
                 inbox, serverVars, undone>>

(***************************************************************************)
(* run and Close: the life of a connection as far as the waiters see it.   *)
(***************************************************************************)
\* all loops have returned: failAllWaiters, then the old connection goes; a
\* retry that was already due may still signal later, the others are cancelled
ConnEnds ==
  /\ run = "serving" /\ LoopsGone
  /\ run' = "reconnecting" /\ conn' = FALSE
  /\ Deliver(pendingWaiters \cup WaitersOf(waiterBatches), Failure("connClosed"))
  /\ pendingWaiters' = {} /\ TakeBatches
  /\ \E late \in 0..timers : timers' = late
  /\ UNCHANGED <<lastDeclareAt, subs, lastDeclareID, seq, declareCh, conns, ctxDone,
                 closed, dlVars, rlVars, callVars, inbox, serverVars, undone,
                 selfAsked>>

Dial ==
  /\ run = "reconnecting" /\ AutoReconnect /\ ~closed
  /\ run' = "dialed" /\ conns' = conns + 1
  /\ inbox' = <<>> /\ serverSubs' = {} /\ verdict' = "accepted"
  /\ UNCHANGED <<streamVars, conn, ctxDone, closed, dlVars, rlVars, clockVars,
                 callVars, reply, faults, undone, selfAsked>>

\* the new connection is published, the stored set is to be declared again and
\* the loops start (under a context Close may have cancelled meanwhile)
Resume ==
  /\ run = "dialed"
  /\ run' = "serving" /\ conn' = TRUE /\ ctxDone' = closed
  /\ RequestDeclare
  /\ dl' = "select" /\ rl' = "read"
  /\ UNCHANGED <<subs, pendingWaiters, waiterBatches, lastDeclareID, seq, conns,
                 closed, dlID, dlWaiting, dlBody, dlPrevID, rlFrame, rlTodo,
                 clockVars, callVars, reply, inbox, serverVars, undone>>

Stop ==
  /\ run = "reconnecting" /\ (closed \/ ~AutoReconnect)
  /\ run' = "done"
  /\ UNCHANGED <<streamVars, conns, conn, ctxDone, closed, dlVars, rlVars,
                 clockVars, callVars, reply, inbox, serverVars, undone, selfAsked>>

Close ==
  /\ MayClose /\ ~closed
  /\ closed' = TRUE /\ ctxDone' = TRUE /\ conn' = FALSE
  /\ UNCHANGED <<streamVars, run, conns, dlVars, rlVars, clockVars, callVars, reply,
                 inbox, serverVars, undone, selfAsked>>
-----------------------------------------------------------------------------
Caller(c) ==
  \/ \E r \in Requests : Begin(c, r)
  \/ BeginClosed(c) \/ RegisterWaiter(c) \/ ReceiveReply(c) \/ GiveUp(c) \/ SeeDone(c)

DeclareLoop ==
  \/ DlSelect \/ DlCtxDone \/ DlDrain \/ DlSnapshot \/ DlRegister
  \/ DlWrite \/ DlWriteFails

ReadLoop ==
  \/ RlAck \/ RlResolve \/ RlRateLimit \/ RlError \/ RlExit
  \/ \E t \in Topics : RlReject(t)

Run == ConnEnds \/ Dial \/ Resume \/ Stop

Next ==
  \/ \E c \in Calls : Caller(c)
  \/ DeclareLoop \/ ReadLoop \/ PingFails \/ RetryFires \/ Run \/ Close

Spec == Init /\ [][Next]_vars

\* The Go scheduler runs every goroutine that can run, timers fire, and the
\* server answers (ServerAnswers is part of DlWrite).  Nothing forces a fault,
\* a broken connection, a dial to succeed, Close, or a call to be made.
Fairness ==
  /\ \A c \in Calls : WF_vars(RegisterWaiter(c) \/ ReceiveReply(c) \/ SeeDone(c))
  /\ WF_vars(DeclareLoop)
  /\ WF_vars(RlAck \/ RlResolve \/ RlRateLimit \/ RlError
             \/ (\E t \in Topics : RlReject(t)) \/ (RlExit /\ ctxDone))
  /\ WF_vars(RetryFires) /\ WF_vars(ConnEnds \/ Resume \/ Stop)

FairSpec == Spec /\ Fairness
-----------------------------------------------------------------------------
\* Type invariant.
TypeOK ==
  /\ subs \subseteq Topics /\ pendingWaiters \subseteq Calls
  /\ waiterBatches \subseteq Batch
  /\ lastDeclareID \in Nat /\ seq \in Nat /\ declareCh \in BOOLEAN
  /\ conn \in BOOLEAN /\ closed \in BOOLEAN
  /\ run \in {"serving", "reconnecting", "dialed", "done"}
  /\ ctxDone \in BOOLEAN /\ conns \in Nat
  /\ dl \in {"select", "coalesce", "snapshot", "pace", "write", "exit"}
  /\ dlID \in Nat /\ dlWaiting \subseteq Calls /\ dlBody \subseteq Topics
  /\ dlPrevID \in Nat
  /\ rl \in {"read", "ack", "exit"} /\ rlFrame \in Frame /\ rlTodo \subseteq Topics
  /\ timers \in Nat /\ lastDeclareAt \in BOOLEAN
  /\ callPc \in [Calls -> {"idle", "added", "waiting", "returned"}]
  /\ request \in [Calls -> Request]
  /\ result \in [Calls -> Results]
  /\ reply \in [Calls -> Seq(Reply)]
  /\ inbox \in Seq(Frame) /\ serverSubs \subseteq Topics /\ verdict \in Verdicts
  /\ faults \in Nat
  /\ undone \in [Calls -> SUBSET Topics] /\ selfAsked \in BOOLEAN

\* where a registered waiter can be held
Held == pendingWaiters \cup dlWaiting \cup WaitersOf(waiterBatches)

\* A waiter's channel has room for one result and is sent to at most once: a
\* second send would block readLoop, declareLoop or run for ever once the caller
\* has gone (resolveWaiters relies on its callers for this).
AtMostOneReply == \A c \in Calls : Len(reply[c]) <= 1

\* No call waits for an answer nobody will give: until the stream is done, a
\* waiting call has its answer or is held where an ack, an error, a failed write
\* or the end of the connection finds it.
NoOrphanWaiter ==
  \A c \in Calls :
    callPc[c] = "waiting" /\ run # "done" => reply[c] # <<>> \/ c \in Held

\* Waiters hang on the newest declaration only: there is at most one batch (the
\* list does not grow over the life of a connection) and it bears lastDeclareID,
\* so the ack of an older declaration can answer nobody.
BatchIsLatest ==
  \A b1, b2 \in waiterBatches : b1 = b2 /\ b1.id = lastDeclareID

\* On a live connection no registered waiter misses its signal, and no signal is
\* left over to cause a declaration that no call, retry or reconnect asked for
\* (registerWaiter and the drain are exclusive under s.mu).
SignalMatchesWaiters ==
  run = "serving" /\ ~ctxDone =>
    /\ pendingWaiters # {} => declareCh \/ dl = "coalesce"
    /\ declareCh \/ dl = "coalesce" => pendingWaiters # {} \/ selfAsked

\* A call is told of success only by a declaration that carried its change: what
\* it added is in the body, what it removed is not, save what another call has
\* undone since and what the server may reject.
AckCoversCall ==
  \A c \in Calls : reply[c] # <<>> /\ Head(reply[c]).err = "none" =>
    LET body == Head(reply[c]).body IN
    /\ Wants(request[c]) \ (undone[c] \cup MayReject) \subseteq body
    /\ (Shuns(request[c]) \ undone[c]) \cap body = {}

\* Nothing is on its way and nothing is asked for.
Quiet ==
  /\ run = "serving" /\ ~ctxDone /\ dl = "select" /\ ~declareCh
  /\ rl = "read" /\ inbox = <<>> /\ timers = 0
  /\ \A c \in Calls : callPc[c] # "added"

\* Whenever the exchange comes to rest after an accepted declaration, the set
\* the stream would redeclare is the set the server delivers.
InSync == Quiet /\ verdict = "accepted" => serverSubs = subs

\* The exchange never comes to rest on a declaration refused for its rate, nor with a
\* registered waiter still held somewhere: it ends in an answer, a retry or a failure.
\* Only an error without an id leaves the waiters of its declaration to the next one.
RestIsAnswered ==
  Quiet => /\ verdict # "rateLimited"
           /\ Held # {} => verdict = "failedNoID"

\* The doc of Subscribe: if an item this call added is rejected, the call returns
\* *RejectedError (unless another call removed the item meanwhile).
RejectionIsReturned ==
  \A c \in Calls :
    callPc[c] = "returned" /\ result[c] = "nil" =>
      Wants(request[c]) \cap AlwaysRejected \subseteq undone[c]

\* The server refused the declaration c waits on and did not say which one it refused:
\* readLoop leaves the batch where it is, and c to the next declaration.
LeftBehind(c) == verdict = "failedNoID" /\ c \in WaitersOf(waiterBatches)

\* No dial succeeds, and c, which came when there was no connection, waits for the next.
Unconnected(c) == run = "reconnecting" /\ c \in pendingWaiters

\* Every Subscribe, Unsubscribe and Declare returns, whatever connections are lost and
\* declarations refused, save for two that only their own deadline can end: one left behind
\* by an error without an id that nothing is declared after, and one that waits for a
\* connection that never comes.
EveryCallReturns ==
  <>[](\A c \in Calls : \/ callPc[c] \in {"idle", "returned"}
                       \/ LeftBehind(c) \/ Unconnected(c))

\* If the stream stays up, the server ends up delivering exactly the local set,
\* whatever connections were lost and declarations refused for their rate (one
\* that failed for another reason is not repeated: its caller has the error).
EventuallyInSync ==
  <>[](\/ closed \/ run = "reconnecting"
       \/ serverSubs = subs \/ verdict \in {"failed", "failedNoID"})

\* the connection as Connection describes it
Connected == INSTANCE Connection WITH
  phase <- CASE run = "serving" -> "up" [] run = "reconnecting" -> "down"
             [] run = "dialed" -> "dialed" [] run = "done" -> "over",
  number <- conns, cancelled <- ctxDone, redials <- AutoReconnect,
  loops <- (IF dl = "exit" THEN {} ELSE {"declare"}) \cup (IF rl = "exit" THEN {} ELSE {"read"})

\* What is assumed here of run and Close is what StreamLifecycle does: waiters are failed
\* when both loops are gone and not before, the loops of a connection start with it, and
\* the stream ends only after Close or without autoReconnect.
ImplementsConnection == Connected!Spec
=============================================================================
