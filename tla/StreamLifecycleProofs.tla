----------------------- MODULE StreamLifecycleProofs -----------------------
(***************************************************************************)
(* Proofs about StreamLifecycle for any number of Close calls, connections  *)
(* and dial attempts.                                                       *)
(***************************************************************************)
EXTENDS StreamLifecycle, TLAPS

\* Close is past its swap and has not returned.
Working(k) == closer[k] \in {"cancel", "take", "close", "await"}

\* What the control point of run says about the loops, the channels and conn.
Phases ==
  /\ alive # {} => run = "serving"
  /\ channels = "closed" <=> run \in {"closed", "done"}
  /\ done <=> run = "done"
  /\ hand # NoConn => run \in {"closing", "dialed"}
  /\ run \in {"closing", "waiting", "dialing", "dialed", "stopping", "closed", "done"}
       => conn = NoConn

\* The Close that stops the stream: there is one, and it does not return early.
Closing ==
  /\ \A k \in Closers : closer[k] # "idle" => closed
  /\ \A k \in Closers : closer[k] \in {"take", "close", "await"} => cancelled
  /\ \A j, k \in Closers : Working(j) /\ Working(k) => j = k
  /\ closed => (\E k \in Closers : Working(k)) \/ (done /\ open = {})

\* Every socket not closed yet is held by somebody who will close it.
Owned ==
  \A c \in open : \/ c = conn \/ c = hand
                  \/ \E k \in Closers : closer[k] = "close" /\ taken[k] = c

\* How many dials without delay are behind at each point of run.
Hurry ==
  /\ hasty <= 2
  /\ run = "waiting" => (wait <=> attempt > 1)
  /\ run \in {"waiting", "dialing", "dialed", "announcing"} => attempt >= 1
  /\ run = "serving" /\ age = "old" => hasty = 0
  /\ run \in {"taking", "closing"} /\ healthy => hasty = 0
  /\ run \in {"serving", "taking", "closing"} /\ attempt = 0 => hasty <= 1
  /\ run \in {"waiting", "dialing", "dialed", "announcing"} /\ healthy => hasty <= 1
  /\ run = "waiting" /\ attempt = 1 => hasty <= 1 /\ (healthy => hasty = 0)

IInv ==
  /\ TypeOK /\ Phases /\ Closing /\ Owned /\ Hurry
  /\ OneConnection /\ NoSendOnClosed

LEMMA InitInvariant == Init => IInv
<1> SUFFICES ASSUME Init PROVE IInv
  OBVIOUS
<1>1. TypeOK
  <2>1. autoReconnect \in BOOLEAN
    BY ConstantsAssumption DEF Init
  <2>2. /\ open \subseteq 1..conns /\ conn \in 0..conns /\ hand \in 0..conns
        /\ conns \in Nat /\ hasty \in Nat /\ madeBy \in Nat /\ attempt \in Nat
    BY DEF Init, NoConn
  <2>3. taken \in [Closers -> 0..conns]
    BY DEF Init, NoConn
  <2>4. /\ closer \in [Closers -> {"idle", "cancel", "take", "close", "await", "returned"}]
        /\ alive \subseteq Loops /\ causeCh \subseteq Causes
        /\ cause \in Causes /\ why \in Causes
    BY DEF Init, Causes
  <2> QED
    BY <2>1, <2>2, <2>3, <2>4 DEF Init, TypeOK
<1>2. Phases /\ Closing /\ Owned
  BY DEF Init, Phases, Closing, Working, Owned, NoConn
<1>3. Hurry /\ OneConnection /\ NoSendOnClosed
  BY DEF Init, Hurry, OneConnection, NoSendOnClosed
<1> QED
  BY <1>1, <1>2, <1>3 DEF IInv

LEMMA TypeStep ==
  ASSUME TypeOK, [Next]_vars
  PROVE  TypeOK'
<1>1. CASE GrowOld
  BY <1>1 DEF GrowOld, TypeOK, Loops, Causes, NoConn, streamVars, runVars, loopVars,
     closeVars, socketVars, histVars
<1>2. CASE SeeShutdown
  BY <1>2 DEF SeeShutdown, TypeOK, Loops, Causes, NoConn, streamVars, runVars,
     loopVars, closeVars, socketVars, histVars
<1>3. CASE ReadFails
  BY <1>3 DEF ReadFails, ReadExits, TypeOK, Loops, Causes, NoConn, streamVars,
     runVars, loopVars, closeVars, socketVars, histVars
<1>4. CASE OrdersFull
  BY <1>4 DEF OrdersFull, ReadExits, TypeOK, Loops, Causes, NoConn, streamVars,
     runVars, loopVars, closeVars, socketVars, histVars
<1>5. ASSUME NEW l \in Loops, LoopSends(l) PROVE TypeOK'
  BY <1>5 DEF LoopSends, Send, TypeOK, Loops, Causes, NoConn, streamVars, runVars,
     loopVars, closeVars, socketVars, histVars
<1>6. ASSUME NEW l \in Loops, OtherExits(l) PROVE TypeOK'
  BY <1>6 DEF OtherExits, TypeOK, Loops, Causes, NoConn, streamVars, runVars,
     loopVars, closeVars, socketVars, histVars
<1>7. CASE ConnEnds
  BY <1>7 DEF ConnEnds, WaitLoops, TypeOK, Loops, Causes, NoConn, streamVars, runVars,
     loopVars, closeVars, socketVars, histVars
<1>8. CASE TakeOld
  BY <1>8 DEF TakeOld, TakeConn, TypeOK, Loops, Causes, NoConn, streamVars, runVars,
     loopVars, closeVars, socketVars, histVars
<1>9. CASE CloseOld
  <2>1. open' \subseteq 1..conns /\ hand' \in 0..conns
    BY <1>9 DEF CloseOld, CloseConn, TypeOK, NoConn
  <2>2. conn' = conn /\ conns' = conns /\ taken' = taken /\ wait' \in BOOLEAN
        /\ attempt' \in Nat
    BY <1>9 DEF CloseOld, NextWait, Backoff, TypeOK, streamVars, closeVars
  <2> QED
    BY <1>9, <2>1, <2>2 DEF CloseOld, NextWait, Send, TypeOK, streamVars, loopVars,
       closeVars
<1>10. CASE WaitCancelled
  BY <1>10 DEF WaitCancelled, SeeCancel, TypeOK, Loops, Causes, NoConn, streamVars,
     runVars, loopVars, closeVars, socketVars, histVars
<1>11. CASE WaitOver
  BY <1>11 DEF WaitOver, TypeOK, Loops, Causes, NoConn, streamVars, runVars, loopVars,
     closeVars, socketVars, histVars
<1>12. CASE DialFails
  BY <1>12 DEF DialFails, Send, NextWait, Backoff, CauseKept, TypeOK, Loops, Causes,
     NoConn, streamVars, runVars, loopVars, closeVars, socketVars, histVars
<1>13. CASE DialSucceeds
  BY <1>13 DEF DialSucceeds, TypeOK, Loops, Causes, NoConn, streamVars, runVars,
     loopVars, closeVars, socketVars, histVars
<1>14. CASE Publish
  BY <1>14 DEF Publish, TypeOK, Loops, Causes, NoConn, streamVars, runVars, loopVars,
     closeVars, socketVars, histVars
<1>15. CASE Resume
  BY <1>15 DEF Resume, Send, AttemptAfter, TypeOK, Loops, Causes, NoConn, streamVars,
     runVars, loopVars, closeVars, socketVars, histVars
<1>16. CASE CloseChannels
  BY <1>16 DEF CloseChannels, TypeOK, Loops, Causes, NoConn, streamVars, runVars,
     loopVars, closeVars, socketVars, histVars
<1>17. CASE CloseDone
  BY <1>17 DEF CloseDone, TypeOK, Loops, Causes, NoConn, streamVars, runVars,
     loopVars, closeVars, socketVars, histVars
<1>18. ASSUME NEW k \in Closers, CallClose(k) PROVE TypeOK'
  BY <1>18 DEF CallClose, Goto, TypeOK, Loops, Causes, NoConn, streamVars, runVars,
     loopVars, closeVars, socketVars, histVars
<1>19. ASSUME NEW k \in Closers, Cancel(k) PROVE TypeOK'
  BY <1>19 DEF Cancel, Goto, TypeOK, Loops, Causes, NoConn, streamVars, runVars,
     loopVars, closeVars, socketVars, histVars
<1>20. ASSUME NEW k \in Closers, CloserTakes(k) PROVE TypeOK'
  BY <1>20 DEF CloserTakes, Goto, TypeOK, Loops, Causes, NoConn, streamVars, runVars,
     loopVars, closeVars, socketVars, histVars
<1>21. ASSUME NEW k \in Closers, CloserCloses(k) PROVE TypeOK'
  <2>1. open' \subseteq 1..conns /\ conns' = conns
    BY <1>21 DEF CloserCloses, CloseConn, TypeOK
  <2> QED
    BY <1>21, <2>1 DEF CloserCloses, Goto, TypeOK, streamVars, runVars, loopVars,
       histVars
<1>22. ASSUME NEW k \in Closers, CloserReturns(k) PROVE TypeOK'
  BY <1>22 DEF CloserReturns, Goto, AwaitDone, TypeOK, Loops, Causes, NoConn,
     streamVars, runVars, loopVars, closeVars, socketVars, histVars
<1>23. CASE UNCHANGED vars
  BY <1>23 DEF vars, TypeOK, Loops, Causes, NoConn, streamVars, runVars, loopVars,
     closeVars, socketVars, histVars
<1> QED
  BY <1>1, <1>2, <1>3, <1>4, <1>5, <1>6, <1>7, <1>8, <1>9, <1>10, <1>11, <1>12, <1>13, <1>14, <1>15, <1>16, <1>17, <1>18, <1>19, <1>20, <1>21, <1>22, <1>23
     DEF Next, LoopStep, Run, Closer

LEMMA PhaseStep ==
  ASSUME TypeOK, Phases, NoSendOnClosed, [Next]_vars
  PROVE  (Phases /\ NoSendOnClosed)'
<1>1. CASE GrowOld
  BY <1>1 DEF GrowOld, TypeOK, Phases, NoSendOnClosed, NoConn, Loops, streamVars,
     runVars, loopVars, closeVars, socketVars, histVars
<1>2. CASE SeeShutdown
  BY <1>2 DEF SeeShutdown, TypeOK, Phases, NoSendOnClosed, NoConn, Loops, streamVars,
     runVars, loopVars, closeVars, socketVars, histVars
<1>3. CASE ReadFails
  BY <1>3 DEF ReadFails, ReadExits, TypeOK, Phases, NoSendOnClosed, NoConn, Loops,
     streamVars, runVars, loopVars, closeVars, socketVars, histVars
<1>4. CASE OrdersFull
  BY <1>4 DEF OrdersFull, ReadExits, TypeOK, Phases, NoSendOnClosed, NoConn, Loops,
     streamVars, runVars, loopVars, closeVars, socketVars, histVars
<1>5. ASSUME NEW l \in Loops, LoopSends(l) PROVE (Phases /\ NoSendOnClosed)'
  BY <1>5 DEF LoopSends, Send, TypeOK, Phases, NoSendOnClosed, NoConn, Loops,
     streamVars, runVars, loopVars, closeVars, socketVars, histVars
<1>6. ASSUME NEW l \in Loops, OtherExits(l) PROVE (Phases /\ NoSendOnClosed)'
  BY <1>6 DEF OtherExits, TypeOK, Phases, NoSendOnClosed, NoConn, Loops, streamVars,
     runVars, loopVars, closeVars, socketVars, histVars
<1>7. CASE ConnEnds
  BY <1>7 DEF ConnEnds, WaitLoops, TypeOK, Phases, NoSendOnClosed, NoConn, Loops,
     streamVars, runVars, loopVars, closeVars, socketVars, histVars
<1>8. CASE TakeOld
  BY <1>8 DEF TakeOld, TakeConn, TypeOK, Phases, NoSendOnClosed, NoConn, Loops,
     streamVars, runVars, loopVars, closeVars, socketVars, histVars
<1>9. CASE CloseOld
  BY <1>9 DEF CloseOld, CloseConn, NextWait, Backoff, Send, TypeOK, Phases,
     NoSendOnClosed, NoConn, Loops, streamVars, runVars, loopVars, closeVars,
     socketVars, histVars
<1>10. CASE WaitCancelled
  BY <1>10 DEF WaitCancelled, SeeCancel, TypeOK, Phases, NoSendOnClosed, NoConn,
     Loops, streamVars, runVars, loopVars, closeVars, socketVars, histVars
<1>11. CASE WaitOver
  BY <1>11 DEF WaitOver, TypeOK, Phases, NoSendOnClosed, NoConn, Loops, streamVars,
     runVars, loopVars, closeVars, socketVars, histVars
<1>12. CASE DialFails
  BY <1>12 DEF DialFails, Send, NextWait, Backoff, CauseKept, TypeOK, Phases,
     NoSendOnClosed, NoConn, Loops, streamVars, runVars, loopVars, closeVars,
     socketVars, histVars
<1>13. CASE DialSucceeds
  BY <1>13 DEF DialSucceeds, TypeOK, Phases, NoSendOnClosed, NoConn, Loops,
     streamVars, runVars, loopVars, closeVars, socketVars, histVars
<1>14. CASE Publish
  BY <1>14 DEF Publish, TypeOK, Phases, NoSendOnClosed, NoConn, Loops, streamVars,
     runVars, loopVars, closeVars, socketVars, histVars
<1>15. CASE Resume
  BY <1>15 DEF Resume, Send, AttemptAfter, TypeOK, Phases, NoSendOnClosed, NoConn,
     Loops, streamVars, runVars, loopVars, closeVars, socketVars, histVars
<1>16. CASE CloseChannels
  BY <1>16 DEF CloseChannels, TypeOK, Phases, NoSendOnClosed, NoConn, Loops,
     streamVars, runVars, loopVars, closeVars, socketVars, histVars
<1>17. CASE CloseDone
  BY <1>17 DEF CloseDone, TypeOK, Phases, NoSendOnClosed, NoConn, Loops, streamVars,
     runVars, loopVars, closeVars, socketVars, histVars
<1>18. ASSUME NEW k \in Closers, CallClose(k) PROVE (Phases /\ NoSendOnClosed)'
  BY <1>18 DEF CallClose, Goto, TypeOK, Phases, NoSendOnClosed, NoConn, Loops,
     streamVars, runVars, loopVars, closeVars, socketVars, histVars
<1>19. ASSUME NEW k \in Closers, Cancel(k) PROVE (Phases /\ NoSendOnClosed)'
  BY <1>19 DEF Cancel, Goto, TypeOK, Phases, NoSendOnClosed, NoConn, Loops,
     streamVars, runVars, loopVars, closeVars, socketVars, histVars
<1>20. ASSUME NEW k \in Closers, CloserTakes(k) PROVE (Phases /\ NoSendOnClosed)'
  BY <1>20 DEF CloserTakes, Goto, TypeOK, Phases, NoSendOnClosed, NoConn, Loops,
     streamVars, runVars, loopVars, closeVars, socketVars, histVars
<1>21. ASSUME NEW k \in Closers, CloserCloses(k) PROVE (Phases /\ NoSendOnClosed)'
  BY <1>21 DEF CloserCloses, Goto, CloseConn, TypeOK, Phases, NoSendOnClosed, NoConn,
     Loops, streamVars, runVars, loopVars, closeVars, socketVars, histVars
<1>22. ASSUME NEW k \in Closers, CloserReturns(k) PROVE (Phases /\ NoSendOnClosed)'
  BY <1>22 DEF CloserReturns, Goto, AwaitDone, TypeOK, Phases, NoSendOnClosed, NoConn,
     Loops, streamVars, runVars, loopVars, closeVars, socketVars, histVars
<1>23. CASE UNCHANGED vars
  BY <1>23 DEF vars, TypeOK, Phases, NoSendOnClosed, NoConn, Loops, streamVars,
     runVars, loopVars, closeVars, socketVars, histVars
<1> QED
  BY <1>1, <1>2, <1>3, <1>4, <1>5, <1>6, <1>7, <1>8, <1>9, <1>10, <1>11, <1>12, <1>13, <1>14, <1>15, <1>16, <1>17, <1>18, <1>19, <1>20, <1>21, <1>22, <1>23
     DEF Next, LoopStep, Run, Closer

LEMMA ClosingStep ==
  ASSUME IInv, [Next]_vars
  PROVE  Closing'
<1>1. CASE GrowOld
  BY <1>1 DEF GrowOld, IInv, TypeOK, Phases, Closing, Working, Owned, NoConn,
     streamVars, runVars, loopVars, closeVars, socketVars, histVars
<1>2. CASE SeeShutdown
  BY <1>2 DEF SeeShutdown, IInv, TypeOK, Phases, Closing, Working, Owned, NoConn,
     streamVars, runVars, loopVars, closeVars, socketVars, histVars
<1>3. CASE ReadFails
  BY <1>3 DEF ReadFails, ReadExits, IInv, TypeOK, Phases, Closing, Working, Owned,
     NoConn, streamVars, runVars, loopVars, closeVars, socketVars, histVars
<1>4. CASE OrdersFull
  BY <1>4 DEF OrdersFull, ReadExits, IInv, TypeOK, Phases, Closing, Working, Owned,
     NoConn, streamVars, runVars, loopVars, closeVars, socketVars, histVars
<1>5. ASSUME NEW l \in Loops, LoopSends(l) PROVE Closing'
  BY <1>5 DEF LoopSends, Send, IInv, TypeOK, Phases, Closing, Working, Owned, NoConn,
     streamVars, runVars, loopVars, closeVars, socketVars, histVars
<1>6. ASSUME NEW l \in Loops, OtherExits(l) PROVE Closing'
  BY <1>6 DEF OtherExits, IInv, TypeOK, Phases, Closing, Working, Owned, NoConn,
     streamVars, runVars, loopVars, closeVars, socketVars, histVars
<1>7. CASE ConnEnds
  BY <1>7 DEF ConnEnds, WaitLoops, IInv, TypeOK, Phases, Closing, Working, Owned,
     NoConn, streamVars, runVars, loopVars, closeVars, socketVars, histVars
<1>8. CASE TakeOld
  BY <1>8 DEF TakeOld, TakeConn, IInv, TypeOK, Phases, Closing, Working, Owned,
     NoConn, streamVars, runVars, loopVars, closeVars, socketVars, histVars
<1>9. CASE CloseOld
  BY <1>9 DEF CloseOld, CloseConn, NextWait, Backoff, Send, IInv, TypeOK, Phases,
     Closing, Working, Owned, NoConn, streamVars, runVars, loopVars, closeVars,
     socketVars, histVars
<1>10. CASE WaitCancelled
  BY <1>10 DEF WaitCancelled, SeeCancel, IInv, TypeOK, Phases, Closing, Working,
     Owned, NoConn, streamVars, runVars, loopVars, closeVars, socketVars, histVars
<1>11. CASE WaitOver
  BY <1>11 DEF WaitOver, IInv, TypeOK, Phases, Closing, Working, Owned, NoConn,
     streamVars, runVars, loopVars, closeVars, socketVars, histVars
<1>12. CASE DialFails
  BY <1>12 DEF DialFails, Send, NextWait, Backoff, CauseKept, IInv, TypeOK, Phases,
     Closing, Working, Owned, NoConn, streamVars, runVars, loopVars, closeVars,
     socketVars, histVars
<1>13. CASE DialSucceeds
  BY <1>13 DEF DialSucceeds, IInv, TypeOK, Phases, Closing, Working, Owned, NoConn,
     streamVars, runVars, loopVars, closeVars, socketVars, histVars
<1>14. CASE Publish
  BY <1>14 DEF Publish, IInv, TypeOK, Phases, Closing, Working, Owned, NoConn,
     streamVars, runVars, loopVars, closeVars, socketVars, histVars
<1>15. CASE Resume
  BY <1>15 DEF Resume, Send, AttemptAfter, IInv, TypeOK, Phases, Closing, Working,
     Owned, NoConn, streamVars, runVars, loopVars, closeVars, socketVars, histVars
<1>16. CASE CloseChannels
  BY <1>16 DEF CloseChannels, IInv, TypeOK, Phases, Closing, Working, Owned, NoConn,
     streamVars, runVars, loopVars, closeVars, socketVars, histVars
<1>17. CASE CloseDone
  BY <1>17 DEF CloseDone, IInv, TypeOK, Phases, Closing, Working, Owned, NoConn,
     streamVars, runVars, loopVars, closeVars, socketVars, histVars
<1>18. ASSUME NEW k \in Closers, CallClose(k) PROVE Closing'
  BY <1>18 DEF CallClose, Goto, IInv, TypeOK, Phases, Closing, Working, Owned, NoConn,
     streamVars, runVars, loopVars, closeVars, socketVars, histVars
<1>19. ASSUME NEW k \in Closers, Cancel(k) PROVE Closing'
  BY <1>19 DEF Cancel, Goto, IInv, TypeOK, Phases, Closing, Working, Owned, NoConn,
     streamVars, runVars, loopVars, closeVars, socketVars, histVars
<1>20. ASSUME NEW k \in Closers, CloserTakes(k) PROVE Closing'
  BY <1>20 DEF CloserTakes, Goto, IInv, TypeOK, Phases, Closing, Working, Owned,
     NoConn, streamVars, runVars, loopVars, closeVars, socketVars, histVars
<1>21. ASSUME NEW k \in Closers, CloserCloses(k) PROVE Closing'
  BY <1>21 DEF CloserCloses, Goto, CloseConn, IInv, TypeOK, Phases, Closing, Working,
     Owned, NoConn, streamVars, runVars, loopVars, closeVars, socketVars, histVars
<1>22. ASSUME NEW k \in Closers, CloserReturns(k) PROVE Closing'
  BY <1>22 DEF CloserReturns, Goto, AwaitDone, IInv, TypeOK, Phases, Closing, Working,
     Owned, NoConn, streamVars, runVars, loopVars, closeVars, socketVars, histVars
<1>23. CASE UNCHANGED vars
  BY <1>23 DEF vars, IInv, TypeOK, Phases, Closing, Working, Owned, NoConn,
     streamVars, runVars, loopVars, closeVars, socketVars, histVars
<1> QED
  BY <1>1, <1>2, <1>3, <1>4, <1>5, <1>6, <1>7, <1>8, <1>9, <1>10, <1>11, <1>12, <1>13, <1>14, <1>15, <1>16, <1>17, <1>18, <1>19, <1>20, <1>21, <1>22, <1>23
     DEF Next, LoopStep, Run, Closer

LEMMA OwnedStep ==
  ASSUME IInv, [Next]_vars
  PROVE  (Owned /\ OneConnection)'
<1>1. CASE GrowOld
  BY <1>1 DEF GrowOld, IInv, TypeOK, Phases, Closing, Owned, OneConnection, NoConn,
     streamVars, runVars, loopVars, closeVars, socketVars, histVars
<1>2. CASE SeeShutdown
  BY <1>2 DEF SeeShutdown, IInv, TypeOK, Phases, Closing, Owned, OneConnection,
     NoConn, streamVars, runVars, loopVars, closeVars, socketVars, histVars
<1>3. CASE ReadFails
  BY <1>3 DEF ReadFails, ReadExits, IInv, TypeOK, Phases, Closing, Owned,
     OneConnection, NoConn, streamVars, runVars, loopVars, closeVars, socketVars,
     histVars
<1>4. CASE OrdersFull
  BY <1>4 DEF OrdersFull, ReadExits, IInv, TypeOK, Phases, Closing, Owned,
     OneConnection, NoConn, streamVars, runVars, loopVars, closeVars, socketVars,
     histVars
<1>5. ASSUME NEW l \in Loops, LoopSends(l) PROVE (Owned /\ OneConnection)'
  BY <1>5 DEF LoopSends, Send, IInv, TypeOK, Phases, Closing, Owned, OneConnection,
     NoConn, streamVars, runVars, loopVars, closeVars, socketVars, histVars
<1>6. ASSUME NEW l \in Loops, OtherExits(l) PROVE (Owned /\ OneConnection)'
  BY <1>6 DEF OtherExits, IInv, TypeOK, Phases, Closing, Owned, OneConnection, NoConn,
     streamVars, runVars, loopVars, closeVars, socketVars, histVars
<1>7. CASE ConnEnds
  BY <1>7 DEF ConnEnds, WaitLoops, IInv, TypeOK, Phases, Closing, Owned,
     OneConnection, NoConn, streamVars, runVars, loopVars, closeVars, socketVars,
     histVars
<1>8. CASE TakeOld
  BY <1>8 DEF TakeOld, TakeConn, IInv, TypeOK, Phases, Closing, Owned, OneConnection,
     NoConn, streamVars, runVars, loopVars, closeVars, socketVars, histVars
<1>9. CASE CloseOld
  BY <1>9 DEF CloseOld, CloseConn, NextWait, Backoff, Send, IInv, TypeOK, Phases,
     Closing, Owned, OneConnection, NoConn, streamVars, runVars, loopVars, closeVars,
     socketVars, histVars
<1>10. CASE WaitCancelled
  BY <1>10 DEF WaitCancelled, SeeCancel, IInv, TypeOK, Phases, Closing, Owned,
     OneConnection, NoConn, streamVars, runVars, loopVars, closeVars, socketVars,
     histVars
<1>11. CASE WaitOver
  BY <1>11 DEF WaitOver, IInv, TypeOK, Phases, Closing, Owned, OneConnection, NoConn,
     streamVars, runVars, loopVars, closeVars, socketVars, histVars
<1>12. CASE DialFails
  BY <1>12 DEF DialFails, Send, NextWait, Backoff, CauseKept, IInv, TypeOK, Phases,
     Closing, Owned, OneConnection, NoConn, streamVars, runVars, loopVars, closeVars,
     socketVars, histVars
<1>13. CASE DialSucceeds
  BY <1>13 DEF DialSucceeds, IInv, TypeOK, Phases, Closing, Owned, OneConnection,
     NoConn, streamVars, runVars, loopVars, closeVars, socketVars, histVars
<1>14. CASE Publish
  BY <1>14 DEF Publish, IInv, TypeOK, Phases, Closing, Owned, OneConnection, NoConn,
     streamVars, runVars, loopVars, closeVars, socketVars, histVars
<1>15. CASE Resume
  BY <1>15 DEF Resume, Send, AttemptAfter, IInv, TypeOK, Phases, Closing, Owned,
     OneConnection, NoConn, streamVars, runVars, loopVars, closeVars, socketVars,
     histVars
<1>16. CASE CloseChannels
  BY <1>16 DEF CloseChannels, IInv, TypeOK, Phases, Closing, Owned, OneConnection,
     NoConn, streamVars, runVars, loopVars, closeVars, socketVars, histVars
<1>17. CASE CloseDone
  BY <1>17 DEF CloseDone, IInv, TypeOK, Phases, Closing, Owned, OneConnection, NoConn,
     streamVars, runVars, loopVars, closeVars, socketVars, histVars
<1>18. ASSUME NEW k \in Closers, CallClose(k) PROVE (Owned /\ OneConnection)'
  BY <1>18 DEF CallClose, Goto, IInv, TypeOK, Phases, Closing, Owned, OneConnection,
     NoConn, streamVars, runVars, loopVars, closeVars, socketVars, histVars
<1>19. ASSUME NEW k \in Closers, Cancel(k) PROVE (Owned /\ OneConnection)'
  BY <1>19 DEF Cancel, Goto, IInv, TypeOK, Phases, Closing, Owned, OneConnection,
     NoConn, streamVars, runVars, loopVars, closeVars, socketVars, histVars
<1>20. ASSUME NEW k \in Closers, CloserTakes(k) PROVE (Owned /\ OneConnection)'
  BY <1>20 DEF CloserTakes, Goto, IInv, TypeOK, Phases, Closing, Owned, OneConnection,
     NoConn, streamVars, runVars, loopVars, closeVars, socketVars, histVars
<1>21. ASSUME NEW k \in Closers, CloserCloses(k) PROVE (Owned /\ OneConnection)'
  BY <1>21 DEF CloserCloses, Goto, CloseConn, IInv, TypeOK, Phases, Closing, Owned,
     OneConnection, NoConn, streamVars, runVars, loopVars, closeVars, socketVars,
     histVars
<1>22. ASSUME NEW k \in Closers, CloserReturns(k) PROVE (Owned /\ OneConnection)'
  BY <1>22 DEF CloserReturns, Goto, AwaitDone, IInv, TypeOK, Phases, Closing, Owned,
     OneConnection, NoConn, streamVars, runVars, loopVars, closeVars, socketVars,
     histVars
<1>23. CASE UNCHANGED vars
  BY <1>23 DEF vars, IInv, TypeOK, Phases, Closing, Owned, OneConnection, NoConn,
     streamVars, runVars, loopVars, closeVars, socketVars, histVars
<1> QED
  BY <1>1, <1>2, <1>3, <1>4, <1>5, <1>6, <1>7, <1>8, <1>9, <1>10, <1>11, <1>12, <1>13, <1>14, <1>15, <1>16, <1>17, <1>18, <1>19, <1>20, <1>21, <1>22, <1>23
     DEF Next, LoopStep, Run, Closer

LEMMA HurryStep ==
  ASSUME TypeOK, Hurry, [Next]_vars
  PROVE  Hurry'
<1>1. CASE GrowOld
  BY <1>1 DEF GrowOld, TypeOK, Hurry, streamVars, runVars, loopVars, closeVars,
     socketVars, histVars
<1>2. CASE SeeShutdown
  BY <1>2 DEF SeeShutdown, TypeOK, Hurry, streamVars, runVars, loopVars, closeVars,
     socketVars, histVars
<1>3. CASE ReadFails
  BY <1>3 DEF ReadFails, ReadExits, TypeOK, Hurry, streamVars, runVars, loopVars,
     closeVars, socketVars, histVars
<1>4. CASE OrdersFull
  BY <1>4 DEF OrdersFull, ReadExits, TypeOK, Hurry, streamVars, runVars, loopVars,
     closeVars, socketVars, histVars
<1>5. ASSUME NEW l \in Loops, LoopSends(l) PROVE Hurry'
  BY <1>5 DEF LoopSends, Send, TypeOK, Hurry, streamVars, runVars, loopVars,
     closeVars, socketVars, histVars
<1>6. ASSUME NEW l \in Loops, OtherExits(l) PROVE Hurry'
  BY <1>6 DEF OtherExits, TypeOK, Hurry, streamVars, runVars, loopVars, closeVars,
     socketVars, histVars
<1>7. CASE ConnEnds
  BY <1>7 DEF ConnEnds, WaitLoops, TypeOK, Hurry, streamVars, runVars, loopVars,
     closeVars, socketVars, histVars
<1>8. CASE TakeOld
  BY <1>8 DEF TakeOld, TakeConn, TypeOK, Hurry, streamVars, runVars, loopVars,
     closeVars, socketVars, histVars
<1>9. CASE CloseOld
  BY <1>9 DEF CloseOld, CloseConn, NextWait, Backoff, Send, TypeOK, Hurry, streamVars,
     runVars, loopVars, closeVars, socketVars, histVars
<1>10. CASE WaitCancelled
  BY <1>10 DEF WaitCancelled, SeeCancel, TypeOK, Hurry, streamVars, runVars, loopVars,
     closeVars, socketVars, histVars
<1>11. CASE WaitOver
  BY <1>11 DEF WaitOver, TypeOK, Hurry, streamVars, runVars, loopVars, closeVars,
     socketVars, histVars
<1>12. CASE DialFails
  <2>1. wait' = (attempt + 1 > 1) /\ attempt' = attempt + 1
    BY <1>12, Zenon DEF DialFails, NextWait, Backoff
  <2>2. attempt' >= 1 /\ attempt' > 1
    BY <1>12, <2>1 DEF DialFails, Hurry, TypeOK
  <2>3. run' = "waiting" /\ healthy' = healthy /\ hasty' = hasty
    BY <1>12 DEF DialFails, NextWait
  <2>4. hasty <= 2 /\ (healthy => hasty <= 1)
    BY <1>12 DEF DialFails, Hurry
  <2>5. wait' <=> attempt' > 1
    BY <2>1, Zenon
  <2> QED
    BY <2>1, <2>2, <2>3, <2>4, <2>5 DEF Hurry, TypeOK
<1>13. CASE DialSucceeds
  BY <1>13 DEF DialSucceeds, TypeOK, Hurry, streamVars, runVars, loopVars, closeVars,
     socketVars, histVars
<1>14. CASE Publish
  BY <1>14 DEF Publish, TypeOK, Hurry, streamVars, runVars, loopVars, closeVars,
     socketVars, histVars
<1>15. CASE Resume
  BY <1>15 DEF Resume, Send, AttemptAfter, TypeOK, Hurry, streamVars, runVars,
     loopVars, closeVars, socketVars, histVars
<1>16. CASE CloseChannels
  BY <1>16 DEF CloseChannels, TypeOK, Hurry, streamVars, runVars, loopVars, closeVars,
     socketVars, histVars
<1>17. CASE CloseDone
  BY <1>17 DEF CloseDone, TypeOK, Hurry, streamVars, runVars, loopVars, closeVars,
     socketVars, histVars
<1>18. ASSUME NEW k \in Closers, CallClose(k) PROVE Hurry'
  BY <1>18 DEF CallClose, Goto, TypeOK, Hurry, streamVars, runVars, loopVars,
     closeVars, socketVars, histVars
<1>19. ASSUME NEW k \in Closers, Cancel(k) PROVE Hurry'
  BY <1>19 DEF Cancel, Goto, TypeOK, Hurry, streamVars, runVars, loopVars, closeVars,
     socketVars, histVars
<1>20. ASSUME NEW k \in Closers, CloserTakes(k) PROVE Hurry'
  BY <1>20 DEF CloserTakes, Goto, TypeOK, Hurry, streamVars, runVars, loopVars,
     closeVars, socketVars, histVars
<1>21. ASSUME NEW k \in Closers, CloserCloses(k) PROVE Hurry'
  BY <1>21 DEF CloserCloses, Goto, CloseConn, TypeOK, Hurry, streamVars, runVars,
     loopVars, closeVars, socketVars, histVars
<1>22. ASSUME NEW k \in Closers, CloserReturns(k) PROVE Hurry'
  BY <1>22 DEF CloserReturns, Goto, AwaitDone, TypeOK, Hurry, streamVars, runVars,
     loopVars, closeVars, socketVars, histVars
<1>23. CASE UNCHANGED vars
  BY <1>23 DEF vars, TypeOK, Hurry, streamVars, runVars, loopVars, closeVars,
     socketVars, histVars
<1> QED
  BY <1>1, <1>2, <1>3, <1>4, <1>5, <1>6, <1>7, <1>8, <1>9, <1>10, <1>11, <1>12, <1>13, <1>14, <1>15, <1>16, <1>17, <1>18, <1>19, <1>20, <1>21, <1>22, <1>23
     DEF Next, LoopStep, Run, Closer

LEMMA StepInvariant == IInv /\ [Next]_vars => IInv'
  BY TypeStep, PhaseStep, ClosingStep, OwnedStep, HurryStep DEF IInv

\* The invariant holds in every reachable state.
THEOREM Invariance == Spec => []IInv
  BY InitInvariant, StepInvariant, PTL DEF Spec

\* Type correctness of run, the loops and Close.
THEOREM TypeCorrect == Spec => []TypeOK
<1>1. IInv => TypeOK
  BY DEF IInv
<1> QED
  BY <1>1, Invariance, PTL

\* A stream never holds two sockets.
THEOREM OneSocket == Spec => []OneConnection
<1>1. IInv => OneConnection
  BY DEF IInv
<1> QED
  BY <1>1, Invariance, PTL

\* Nobody sends on a closed channel.
THEOREM NoPanic == Spec => []NoSendOnClosed
<1>1. IInv => NoSendOnClosed
  BY DEF IInv
<1> QED
  BY <1>1, Invariance, PTL

\* At most two dials without delay follow a healthy connection.
THEOREM BoundedHurry == Spec => []NoReconnectStorm
<1>1. IInv => NoReconnectStorm
  BY DEF IInv, Hurry, NoReconnectStorm
<1> QED
  BY <1>1, Invariance, PTL

\* A finished Close leaves nothing open.
THEOREM CompleteClose == Spec => []CloseIsComplete
<1>1. IInv => CloseIsComplete
  <2> SUFFICES ASSUME IInv, NEW k \in Closers, closer[k] = "returned",
                      \A j \in Closers : closer[j] \in {"idle", "returned"}
               PROVE  done /\ channels = "closed" /\ open = {}
    BY DEF CloseIsComplete
  <2>1. closed /\ ~\E j \in Closers : Working(j)
    BY DEF IInv, Closing, Working
  <2> QED
    BY <2>1 DEF IInv, Closing, Phases
<1> QED
  BY <1>1, Invariance, PTL
-----------------------------------------------------------------------------
\* run dials only to reconnect, and stops only when it was closed or may not.
Reasons ==
  /\ cancelled => closed
  /\ run \in {"waiting", "dialing", "dialed", "announcing"} => autoReconnect
  /\ run \in {"stopping", "closed", "done"} => closed \/ ~autoReconnect

LEMMA ReasonsInit == Init => Reasons
  BY DEF Init, Reasons

LEMMA ReasonsStep == IInv /\ Reasons /\ [Next]_vars => Reasons'
<1> SUFFICES ASSUME IInv, Reasons, [Next]_vars PROVE Reasons'
  OBVIOUS
<1> USE DEF Reasons, streamVars, runVars, loopVars, closeVars, socketVars, histVars
<1>1. CASE LoopStep
  BY <1>1 DEF LoopStep, GrowOld, SeeShutdown, ReadFails, OrdersFull, ReadExits, LoopSends,
     OtherExits
<1>2. CASE Run
  BY <1>2 DEF Run, ConnEnds, TakeOld, TakeConn, CloseOld, NextWait, WaitCancelled,
     SeeCancel, WaitOver, DialFails, DialSucceeds, Publish, Resume, CloseChannels, CloseDone
<1>3. ASSUME NEW k \in Closers, Closer(k) PROVE Reasons'
  BY <1>3 DEF Closer, CallClose, Cancel, CloserTakes, CloserCloses, CloserReturns, Goto,
     IInv, Closing
<1>4. CASE UNCHANGED vars
  BY <1>4 DEF vars
<1> QED
  BY <1>1, <1>2, <1>3, <1>4 DEF Next

LEMMA ConnectionInit == Init => Connected!Init
  BY ConstantsAssumption DEF Init, Connected!Init, Connected!Loops, Loops

\* A step of a loop is nothing, or the loop returns.
LEMMA LoopRefines ==
  ASSUME IInv, LoopStep
  PROVE  [Connected!Next]_(Connected!vars)
<1> USE DEF streamVars, runVars, loopVars, closeVars, socketVars, histVars
<1>1. CASE GrowOld \/ SeeShutdown \/ \E l \in Loops : LoopSends(l)
  <2>1. UNCHANGED <<run, conns, alive, ctxDone, closed, autoReconnect>>
    BY <1>1 DEF GrowOld, SeeShutdown, LoopSends
  <2> QED
    BY <2>1 DEF Connected!vars
<1>2. CASE ReadFails \/ OrdersFull
  <2>1. /\ "read" \in alive /\ alive' = alive \ {"read"} /\ ctxDone' = TRUE
        /\ run = "serving" /\ UNCHANGED <<run, conns, closed, autoReconnect>>
    BY <1>2 DEF ReadFails, OrdersFull, ReadExits, IInv, Phases
  <2>2. Connected!LoopReturns("read")
    BY <2>1 DEF Connected!LoopReturns
  <2> QED
    BY <2>2 DEF Connected!Next, Connected!Loops
<1>3. ASSUME NEW l \in Loops, OtherExits(l) PROVE [Connected!Next]_(Connected!vars)
  <2>1. /\ l \in alive \ {"read"} /\ alive' = alive \ {l} /\ ctxDone' = TRUE
        /\ run = "serving" /\ UNCHANGED <<run, conns, closed, autoReconnect>>
    BY <1>3 DEF OtherExits, IInv, Phases
  <2>2. CASE l = "ping"
    <3>1. Connected!Cancel
      BY <2>1, <2>2 DEF Connected!Cancel
    <3> QED
      BY <3>1 DEF Connected!Next
  <2>3. CASE l = "declare"
    <3>1. Connected!LoopReturns("declare")
      BY <2>1, <2>3 DEF Connected!LoopReturns
    <3> QED
      BY <3>1 DEF Connected!Next, Connected!Loops
  <2> QED
    BY <2>1, <2>2, <2>3 DEF Loops
<1> QED
  BY <1>1, <1>2, <1>3 DEF LoopStep

\* A step of run ends the connection, makes one, serves it, stops, or is its own affair.
LEMMA RunRefines ==
  ASSUME IInv, Reasons, Run
  PROVE  [Connected!Next]_(Connected!vars)
<1> USE DEF streamVars, runVars, loopVars, closeVars, socketVars, histVars
<1>1. CASE ConnEnds
  <2>1. Connected!End
    BY <1>1 DEF ConnEnds, WaitLoops, Connected!End
  <2> QED
    BY <2>1 DEF Connected!Next
<1>2. CASE \/ TakeOld \/ WaitOver \/ DialFails \/ Publish \/ CloseChannels \/ CloseDone
           \/ CloseOld /\ run' = "waiting"
  BY <1>2 DEF TakeOld, WaitOver, DialFails, Publish, CloseChannels, CloseDone, CloseOld,
     NextWait, Connected!vars
<1>3. CASE WaitCancelled \/ (CloseOld /\ run' = "stopping")
  <2>1. Connected!Stop
    BY <1>3 DEF WaitCancelled, SeeCancel, CloseOld, NextWait, Reasons, Connected!Stop
  <2> QED
    BY <2>1 DEF Connected!Next
<1>4. CASE DialSucceeds
  <2>1. Connected!Dial
    BY <1>4 DEF DialSucceeds, Reasons, Connected!Dial
  <2> QED
    BY <2>1 DEF Connected!Next
<1>5. CASE Resume
  <2>1. cancelled \in {FALSE, closed}
    BY DEF Reasons, IInv, TypeOK
  <2>2. Connected!Resume
    BY <1>5, <2>1 DEF Resume, Loops, Connected!Resume, Connected!Loops
  <2> QED
    BY <2>2 DEF Connected!Next
<1>6. CloseOld => run' \in {"waiting", "stopping"}
  BY DEF CloseOld, NextWait
<1> QED
  BY <1>1, <1>2, <1>3, <1>4, <1>5, <1>6 DEF Run

LEMMA CloserRefines ==
  ASSUME IInv, NEW k \in Closers, Closer(k)
  PROVE  [Connected!Next]_(Connected!vars)
<1> USE DEF streamVars, runVars, loopVars, closeVars, socketVars, histVars
<1>1. CASE CallClose(k)
  <2>1. Connected!Close
    BY <1>1 DEF CallClose, Connected!Close
  <2> QED
    BY <2>1 DEF Connected!Next
<1>2. CASE Cancel(k) /\ run = "serving"
  <2>1. Connected!Cancel
    BY <1>2 DEF Cancel, Connected!Cancel
  <2> QED
    BY <2>1 DEF Connected!Next
<1>3. CASE \/ Cancel(k) /\ run # "serving"
           \/ CloserTakes(k) \/ CloserCloses(k) \/ CloserReturns(k)
  <2>1. UNCHANGED <<run, conns, alive, ctxDone, closed, autoReconnect>>
    BY <1>3 DEF Cancel, CloserTakes, CloserCloses, CloserReturns, IInv, TypeOK
  <2> QED
    BY <2>1 DEF Connected!vars
<1> QED
  BY <1>1, <1>2, <1>3 DEF Closer

\* run and Close, whatever they do with sockets, dials and causes, keep what Connection
\* promises the other parts of a stream.
THEOREM KeepsConnection == Spec => ImplementsConnection
<1>1. IInv /\ Reasons /\ [Next]_vars => [Connected!Next]_(Connected!vars)
  <2> SUFFICES ASSUME IInv, Reasons, [Next]_vars PROVE [Connected!Next]_(Connected!vars)
    OBVIOUS
  <2>1. CASE UNCHANGED vars
    BY <2>1 DEF vars, streamVars, runVars, loopVars, socketVars, Connected!vars
  <2> QED
    BY <2>1, LoopRefines, RunRefines, CloserRefines DEF Next
<1>2. Spec => []Reasons
  BY Invariance, ReasonsInit, ReasonsStep, PTL DEF Spec
<1> QED
  BY <1>1, <1>2, Invariance, ConnectionInit, PTL
  DEF Spec, ImplementsConnection, Connected!Spec
-----------------------------------------------------------------------------
\* Where the reason of the connection is: nowhere while readLoop runs, in causeCh once it
\* has returned, and with run from the end of the connection until Reconnect is sent.
Told ==
  /\ run = "serving" /\ "read" \in alive => causeCh = {}
  /\ run = "serving" /\ "read" \notin alive => causeCh = {why}
  /\ run \in {"taking", "closing", "waiting", "dialing", "dialed", "announcing"}
       => cause = why

LEMMA ToldInit == Init => Told
  BY DEF Init, Told, Loops

\* readLoop is the only one that gives a reason, and it finds causeCh empty.
LEMMA LoopTells == ASSUME IInv, Told, LoopStep PROVE Told'
<1> USE DEF streamVars, runVars, loopVars, closeVars, socketVars, histVars
<1>1. CASE GrowOld \/ SeeShutdown
  BY <1>1 DEF GrowOld, SeeShutdown, Told
<1>2. ASSUME NEW reason, ReadExits(reason) PROVE Told'
  <2>1. run = "serving" /\ run' = "serving"
    BY <1>2 DEF ReadExits, IInv, Phases
  <2>2. causeCh' = {reason} /\ why' = reason /\ "read" \notin alive'
    BY <1>2, <2>1 DEF ReadExits, Told
  <2> QED
    BY <2>1, <2>2 DEF Told
<1>3. ASSUME NEW l \in Loops, LoopSends(l) \/ OtherExits(l) PROVE Told'
  BY <1>3 DEF LoopSends, OtherExits, Told
<1> QED
  BY <1>1, <1>2, <1>3 DEF LoopStep, ReadFails, OrdersFull

\* run takes the reason out of causeCh, and no dial that fails overwrites it.
LEMMA RunTells == ASSUME IInv, Told, Run PROVE Told'
<1> USE DEF streamVars, runVars, loopVars, closeVars, socketVars, histVars
<1>1. CASE ConnEnds
  <2>1. causeCh = {why}
    BY <1>1 DEF ConnEnds, WaitLoops, Told
  <2>2. (CHOOSE c \in {why} : TRUE) = why
    OBVIOUS
  <2>3. cause' = why /\ why' = why /\ run' = "taking"
    BY <1>1, <2>1, <2>2 DEF ConnEnds
  <2> QED
    BY <2>3 DEF Told
<1>2. CASE TakeOld \/ CloseOld
  BY <1>2 DEF TakeOld, CloseOld, NextWait, Told
<1>3. CASE WaitCancelled \/ WaitOver
  BY <1>3 DEF WaitCancelled, WaitOver, Told
<1>4. CASE DialFails \/ DialSucceeds \/ Publish
  BY <1>4 DEF DialFails, NextWait, CauseKept, DialSucceeds, Publish, Told
<1>5. CASE Resume
  BY <1>5 DEF Resume, Told, Loops
<1>6. CASE CloseChannels \/ CloseDone
  BY <1>6 DEF CloseChannels, CloseDone, Told
<1> QED
  BY <1>1, <1>2, <1>3, <1>4, <1>5, <1>6 DEF Run

LEMMA ToldStep == IInv /\ Told /\ [Next]_vars => Told'
<1> SUFFICES ASSUME IInv, Told, [Next]_vars PROVE Told'
  OBVIOUS
<1> USE DEF streamVars, runVars, loopVars, closeVars, socketVars, histVars
<1>1. ASSUME NEW k \in Closers, Closer(k) PROVE Told'
  BY <1>1 DEF Closer, CallClose, Cancel, CloserTakes, CloserCloses, CloserReturns, Told
<1>2. CASE UNCHANGED vars
  BY <1>2 DEF vars, Told
<1> QED
  BY <1>1, <1>2, LoopTells, RunTells DEF Next

\* Reconnect tells why the connection before it ended, whatever happened to the dials.
THEOREM TrueCause == Spec => []CauseIsTrue
<1>1. Told => CauseIsTrue
  BY DEF Told, CauseIsTrue
<1> QED
  BY <1>1, ToldInit, ToldStep, Invariance, PTL DEF Spec
=============================================================================
