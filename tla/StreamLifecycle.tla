-------------------------- MODULE StreamLifecycle --------------------------
(***************************************************************************)
(* The life of a stream (stream/stream.go, stream/conn.go): run keeps one   *)
(* connection up with its three loops, replaces it with backoff when it     *)
(* ends and closes the channels when the stream stops; Close, called by any *)
(* goroutine at any time, stops it.  What the loops do with declarations    *)
(* and events is left to DeclareProtocol and EventDelivery; here they only  *)
(* exit and send on the stream's channels.                                  *)
(***************************************************************************)
EXTENDS Naturals, FiniteSets

CONSTANTS
  Closers,      \* goroutines that may call Close
  AutoOptions,  \* the settings of autoReconnect considered
  MaxAttempts,  \* bound: a dial fails on its own only below this attempt
  MaxConns      \* bound: connections break on their own only below this number

Loops == {"read", "ping", "declare"}

ASSUME ConstantsAssumption ==
  /\ AutoOptions \subseteq BOOLEAN
  /\ MaxAttempts \in Nat /\ MaxConns \in Nat

VARIABLES
  autoReconnect,  \* cfg.autoReconnect
  conn, closed,   \* Stream.conn and Stream.closed
  cancelled,      \* s.cancel has been called: run's ctx is done
  done,           \* s.done is closed
  channels,       \* the event channels are "open" or "closed"
  \* run: control point and locals
  run, attempt, wait, healthy, cause, hand,
  \* the loops of the current connection: which still run, whether connCtx is
  \* done, causeCh, whether readLoop saw server-shutdown, how long it has lived
  alive, ctxDone, causeCh, shutdown, age,
  \* each Close: control point, the connection it took
  closer, taken,
  \* sockets not closed yet, connections made so far
  open, conns,
  \* history: a send met a closed channel; why the last connection ended; dials
  \* without delay since a connection was last healthy; the attempt number that
  \* made the current connection
  panicked, why, hasty, madeBy

streamVars == <<autoReconnect, conn, closed, cancelled, done, channels>>
runVars    == <<run, attempt, wait, healthy, cause, hand>>
loopVars   == <<alive, ctxDone, causeCh, shutdown, age>>
closeVars  == <<closer, taken>>
socketVars == <<open, conns>>
histVars   == <<panicked, why, hasty, madeBy>>
vars == <<streamVars, runVars, loopVars, closeVars, socketVars, histVars>>
-----------------------------------------------------------------------------
NoConn == 0  \* nil; connections are numbered from 1

Causes == {"read-error", "server-shutdown", "backpressure"}

\* backoff: whether a dial attempt has to wait at all.  The first goes out at
\* once; the length of the later delays is not modelled
Backoff(n) == n > 1

\* Mutant: every connection that was made counts as a success.
ResetAlways(n) == 0

\* the attempt counter after a dial succeeded: kept when the connection that
\* had ended before was short-lived
AttemptAfter(n) == IF healthy THEN 0 ELSE n

\* Mutant: run goes on as soon as the read loop is gone.
WaitReadLoop == "read" \notin alive

\* wg.Wait: run goes on only when all three loops have returned
WaitLoops == alive = {}

\* closeConn: CloseNow on a connection, nothing on nil
CloseConn(c) == open' = open \ {c}

\* Mutant: nothing is closed before the next dial.
CloseNothing == hand' = NoConn /\ conn' = NoConn

\* the old connection is taken out under s.mu, to be closed outside it
TakeConn == hand' = conn /\ conn' = NoConn

\* Mutant: a failed dial overwrites why the connection ended.
CauseReset == cause' = "read-error"

\* Mutant: a failed dial is recorded as a cause.
CauseOfDial == cause' = "connect-error"

\* a failed dial keeps the cause
CauseKept == UNCHANGED cause

\* Mutant: Close waits only when there is a connection to close.
DoneOrNoConn(k) == done \/ taken[k] = NoConn

\* <-s.done at the end of Close
AwaitDone(k) == done

\* Mutant: the cancellation is not seen between two dials.
SeeNoCancel == FALSE

\* ctx.Done() is ready while run waits for its next dial
SeeCancel == cancelled

\* a send on one of the stream's channels: it panics when they are closed
Send == panicked' = (panicked \/ channels = "closed")

\* connections break on their own only while another one may be made
MayBreak == conns < MaxConns
-----------------------------------------------------------------------------
\* New has dialed the first connection and started run
Init ==
  /\ autoReconnect \in AutoOptions
  /\ conn = 1 /\ closed = FALSE /\ cancelled = FALSE /\ done = FALSE
  /\ channels = "open"
  /\ run = "serving" /\ attempt = 0 /\ wait = FALSE /\ healthy = FALSE
  /\ cause = "read-error" /\ hand = NoConn
  /\ alive = Loops /\ ctxDone = FALSE /\ causeCh = {} /\ shutdown = FALSE
  /\ age = "young"
  /\ closer = [k \in Closers |-> "idle"] /\ taken = [k \in Closers |-> NoConn]
  /\ open = {1} /\ conns = 1
  /\ panicked = FALSE /\ why = "read-error" /\ hasty = 0 /\ madeBy = 0

(***************************************************************************)
(* The loops of a connection.                                              *)
(***************************************************************************)
\* the connection has lived for backoffMin (time.Since(connStart), later read by run)
GrowOld ==
  /\ run = "serving" /\ age = "young"
  /\ age' = "old" /\ hasty' = 0
  /\ UNCHANGED <<streamVars, runVars, alive, ctxDone, causeCh, shutdown, closeVars,
                 socketVars, panicked, why, madeBy>>

\* a loop reports an error or passes an event on
LoopSends(l) ==
  /\ l \in alive \ {"ping"}
  /\ Send
  /\ UNCHANGED <<streamVars, runVars, loopVars, closeVars, socketVars, why, hasty,
                 madeBy>>

\* an error frame server-shutdown
SeeShutdown ==
  /\ "read" \in alive /\ ~shutdown
  /\ shutdown' = TRUE
  /\ UNCHANGED <<streamVars, runVars, alive, ctxDone, causeCh, age, closeVars,
                 socketVars, histVars>>

\* readLoop returns: its reason goes into causeCh if that has room
ReadExits(reason) ==
  /\ "read" \in alive
  /\ alive' = alive \ {"read"} /\ ctxDone' = TRUE
  /\ causeCh' = IF causeCh = {} THEN {reason} ELSE causeCh
  /\ why' = reason
  /\ UNCHANGED <<streamVars, runVars, shutdown, age, closeVars, socketVars, panicked,
                 hasty, madeBy>>

ReadFails ==
  /\ ctxDone \/ MayBreak
  /\ ReadExits(IF shutdown THEN "server-shutdown" ELSE "read-error")

OrdersFull == MayBreak /\ ReadExits("backpressure")

\* pingLoop or declareLoop cannot write, or sees its context done
OtherExits(l) ==
  /\ l \in alive \ {"read"} /\ (ctxDone \/ MayBreak)
  /\ alive' = alive \ {l} /\ ctxDone' = TRUE
  /\ UNCHANGED <<streamVars, runVars, causeCh, shutdown, age, closeVars, socketVars,
                 histVars>>

(***************************************************************************)
(* run.                                                                    *)
(***************************************************************************)
\* all loops have returned: healthy and cause of the ended connection
ConnEnds ==
  /\ run = "serving" /\ WaitLoops
  /\ run' = "taking"
  /\ healthy' = (age = "old")
  /\ cause' = IF causeCh = {} THEN cause ELSE CHOOSE c \in causeCh : TRUE
  /\ causeCh' = {}
  /\ UNCHANGED <<streamVars, attempt, wait, hand, alive, ctxDone, shutdown, age,
                 closeVars, socketVars, histVars>>

TakeOld ==
  /\ run = "taking"
  /\ run' = "closing" /\ TakeConn
  /\ UNCHANGED <<autoReconnect, closed, cancelled, done, channels, attempt, wait,
                 healthy, cause, loopVars, closeVars, socketVars, histVars>>

\* the next wait of the dial loop
NextWait ==
  /\ run' = "waiting"
  /\ attempt' = attempt + 1 /\ wait' = Backoff(attempt + 1)

\* the old connection is closed, then run stops or starts to dial
CloseOld ==
  /\ run = "closing"
  /\ CloseConn(hand) /\ hand' = NoConn
  /\ IF cancelled \/ ~autoReconnect
     THEN /\ run' = "stopping" /\ UNCHANGED <<attempt, wait>>
          /\ IF ~autoReconnect /\ ~closed THEN Send ELSE UNCHANGED panicked
     ELSE NextWait /\ UNCHANGED panicked
  /\ UNCHANGED <<streamVars, healthy, cause, loopVars, closeVars, conns, why, hasty,
                 madeBy>>

WaitCancelled ==
  /\ run = "waiting" /\ SeeCancel
  /\ run' = "stopping"
  /\ UNCHANGED <<streamVars, attempt, wait, healthy, cause, hand, loopVars, closeVars,
                 socketVars, histVars>>

\* the timer fires; one of no delay may win against a context already done
WaitOver ==
  /\ run = "waiting" /\ (~cancelled \/ ~wait)
  /\ run' = "dialing"
  /\ hasty' = IF wait THEN hasty ELSE hasty + 1
  /\ UNCHANGED <<streamVars, attempt, wait, healthy, cause, hand, loopVars, closeVars,
                 socketVars, panicked, why, madeBy>>

\* no token, no handshake, or no time left: the error is reported
DialFails ==
  /\ run = "dialing" /\ (cancelled \/ attempt < MaxAttempts)
  /\ Send /\ NextWait /\ CauseKept
  /\ UNCHANGED <<streamVars, healthy, hand, loopVars, closeVars, socketVars, why,
                 hasty, madeBy>>

DialSucceeds ==
  /\ run = "dialing" /\ ~cancelled
  /\ run' = "dialed" /\ hand' = conns + 1
  /\ open' = open \cup {conns + 1} /\ conns' = conns + 1
  /\ UNCHANGED <<streamVars, attempt, wait, healthy, cause, loopVars, closeVars,
                 histVars>>

Publish ==
  /\ run = "dialed"
  /\ run' = "announcing" /\ conn' = hand /\ hand' = NoConn
  /\ UNCHANGED <<autoReconnect, closed, cancelled, done, channels, attempt, wait,
                 healthy, cause, loopVars, closeVars, socketVars, histVars>>

\* emitReconnect with attempt and cause, then the loops of the new connection
Resume ==
  /\ run = "announcing"
  /\ Send
  /\ run' = "serving" /\ attempt' = AttemptAfter(attempt) /\ cause' = "read-error"
  /\ alive' = Loops /\ ctxDone' = cancelled /\ causeCh' = {} /\ shutdown' = FALSE
  /\ age' = "young" /\ madeBy' = attempt
  /\ UNCHANGED <<streamVars, wait, healthy, hand, closeVars, socketVars, why, hasty>>

\* the deferred calls: closeChannels, then close(s.done)
CloseChannels ==
  /\ run = "stopping"
  /\ run' = "closed" /\ channels' = "closed"
  /\ UNCHANGED <<autoReconnect, conn, closed, cancelled, done, attempt, wait, healthy,
                 cause, hand, loopVars, closeVars, socketVars, histVars>>

CloseDone ==
  /\ run = "closed"
  /\ run' = "done" /\ done' = TRUE
  /\ UNCHANGED <<autoReconnect, conn, closed, cancelled, channels, attempt, wait,
                 healthy, cause, hand, loopVars, closeVars, socketVars, histVars>>

(***************************************************************************)
(* Close, by goroutine k.                                                  *)
(***************************************************************************)
Goto(k, pc) == closer' = [closer EXCEPT ![k] = pc]

\* closed.Swap(true): only the first call goes on
CallClose(k) ==
  /\ closer[k] = "idle"
  /\ Goto(k, IF closed THEN "returned" ELSE "cancel") /\ closed' = TRUE
  /\ UNCHANGED <<autoReconnect, conn, cancelled, done, channels, runVars, loopVars,
                 taken, socketVars, histVars>>

\* s.cancel() reaches run and, through it, the loops
Cancel(k) ==
  /\ closer[k] = "cancel"
  /\ Goto(k, "take") /\ cancelled' = TRUE
  /\ ctxDone' = (ctxDone \/ run = "serving")
  /\ UNCHANGED <<autoReconnect, conn, closed, done, channels, runVars, alive, causeCh,
                 shutdown, age, taken, socketVars, histVars>>

CloserTakes(k) ==
  /\ closer[k] = "take"
  /\ Goto(k, "close") /\ taken' = [taken EXCEPT ![k] = conn] /\ conn' = NoConn
  /\ UNCHANGED <<autoReconnect, closed, cancelled, done, channels, runVars, loopVars,
                 socketVars, histVars>>

CloserCloses(k) ==
  /\ closer[k] = "close"
  /\ Goto(k, "await") /\ CloseConn(taken[k])
  /\ UNCHANGED <<streamVars, runVars, loopVars, taken, conns, histVars>>

CloserReturns(k) ==
  /\ closer[k] = "await" /\ AwaitDone(k)
  /\ Goto(k, "returned")
  /\ UNCHANGED <<streamVars, runVars, loopVars, taken, socketVars, histVars>>
-----------------------------------------------------------------------------
LoopStep ==
  \/ GrowOld \/ SeeShutdown \/ ReadFails \/ OrdersFull
  \/ \E l \in Loops : LoopSends(l) \/ OtherExits(l)

Run ==
  \/ ConnEnds \/ TakeOld \/ CloseOld \/ WaitCancelled \/ WaitOver
  \/ DialFails \/ DialSucceeds \/ Publish \/ Resume \/ CloseChannels \/ CloseDone

Closer(k) ==
  \/ CallClose(k) \/ Cancel(k) \/ CloserTakes(k) \/ CloserCloses(k) \/ CloserReturns(k)

Next == LoopStep \/ Run \/ \E k \in Closers : Closer(k)

Spec == Init /\ [][Next]_vars

\* A loop whose context is done returns (Read, Write and the timers obey it), run
\* goes on, a dial ends (it has a timeout), and a Close once called goes on.
\* Nothing forces a connection to break, or Close to be called.
Fairness ==
  /\ \A l \in Loops \ {"read"} : WF_vars(OtherExits(l) /\ ctxDone)
  /\ WF_vars(ReadFails /\ ctxDone)
  /\ WF_vars(Run)
  /\ \A k \in Closers : WF_vars(Closer(k) /\ closer[k] # "idle")

FairSpec == Spec /\ Fairness
-----------------------------------------------------------------------------
\* Type invariant.
TypeOK ==
  /\ autoReconnect \in BOOLEAN /\ conn \in 0..conns /\ closed \in BOOLEAN
  /\ cancelled \in BOOLEAN /\ done \in BOOLEAN /\ channels \in {"open", "closed"}
  /\ run \in {"serving", "taking", "closing", "waiting", "dialing", "dialed",
              "announcing", "stopping", "closed", "done"}
  /\ attempt \in Nat /\ wait \in BOOLEAN /\ healthy \in BOOLEAN /\ cause \in Causes
  /\ hand \in 0..conns
  /\ alive \subseteq Loops /\ ctxDone \in BOOLEAN /\ causeCh \subseteq Causes
  /\ shutdown \in BOOLEAN /\ age \in {"young", "old"}
  /\ closer \in [Closers -> {"idle", "cancel", "take", "close", "await", "returned"}]
  /\ taken \in [Closers -> 0..conns]
  /\ open \subseteq 1..conns /\ conns \in Nat
  /\ panicked \in BOOLEAN /\ why \in Causes /\ hasty \in Nat /\ madeBy \in Nat

\* A stream never holds two sockets, whatever Close and a broken connection do to
\* each other: the account has two connections in all, and a second one of this
\* stream would push out another client's.
OneConnection == \A c, d \in open : c = d

\* No goroutine sends on a channel run has closed (it would panic): the loops
\* and the dial loop are over before closeChannels, on every path.
NoSendOnClosed == ~panicked

\* When Close has returned and no other call of it is under way, run is over, the
\* channels are closed and no socket is left, even if a dial was in flight.
CloseIsComplete ==
  (\E k \in Closers : closer[k] = "returned")
      /\ (\A k \in Closers : closer[k] \in {"idle", "returned"})
    => done /\ channels = "closed" /\ open = {}

\* Reconnect tells why the previous connection ended, however many dials failed
\* in between.
CauseIsTrue == run = "announcing" => cause = why

\* However short-lived the connections, at most two dials without delay follow
\* the last connection that lived for backoffMin.
NoReconnectStorm == hasty <= 2

\* The comment in run: a connection that breaks at once is no success, attempt is
\* kept and the backoff curve goes on.
FlapKeepsBackoff == run = "waiting" /\ ~healthy => attempt > madeBy

\* A stream that was closed, or whose connection ended without autoReconnect, ends:
\* run returns and with it every Close.
Terminates ==
  /\ (closed \/ (ctxDone /\ ~autoReconnect)) ~> done
  /\ \A k \in Closers : closer[k] # "idle" ~> closer[k] = "returned"

\* the connection as Connection describes it
Connected == INSTANCE Connection WITH
  phase <- CASE run = "serving" -> "up"
             [] run \in {"taking", "closing", "waiting", "dialing"} -> "down"
             [] run \in {"dialed", "announcing"} -> "dialed"
             [] run \in {"stopping", "closed", "done"} -> "over",
  number <- conns, loops <- alive \ {"ping"}, cancelled <- ctxDone, redials <- autoReconnect

\* run and Close, with all they do to sockets, keep what the declarations rely on: the
\* loops of one connection are gone before the next is made, no context is revived, and
\* the stream is over only after Close or without autoReconnect, and then for good.
ImplementsConnection == Connected!Spec
=============================================================================
