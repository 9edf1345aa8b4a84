----------------------- MODULE DeclareProtocolProofs -----------------------
(***************************************************************************)
(* Proofs about DeclareProtocol for every number of calls, topics, faults   *)
(* and connections.                                                         *)
(***************************************************************************)
EXTENDS DeclareProtocol, TLAPS

\* A delivery is at most one more result on each channel.
LEMMA DeliverType ==
  ASSUME reply \in [Calls -> Seq(Reply)], NEW ws, NEW r \in Reply, Deliver(ws, r)
  PROVE  reply' \in [Calls -> Seq(Reply)]
  BY DEF Deliver

LEMMA DeliverTo ==
  ASSUME NEW ws, NEW r, Deliver(ws, r), NEW c \in Calls
  PROVE  reply'[c] = IF c \in ws THEN Append(reply[c], r) ELSE reply[c]
  BY DEF Deliver

LEMMA FailureType == \A e \in Errors : Failure(e) \in Reply
  BY DEF Failure, Reply

LEMMA SuccessType == \A f \in Frame : Success(f) \in Reply
  BY DEF Success, Frame, Reply, Errors

LEMMA RequestParts ==
  ASSUME NEW r \in Request
  PROVE  Wants(r) \subseteq Topics /\ Shuns(r) \subseteq Topics
  BY DEF Request, Ops, Wants, Shuns
-----------------------------------------------------------------------------
LEMMA InitType == Init => TypeOK
<1> SUFFICES ASSUME Init PROVE TypeOK
  OBVIOUS
<1>1. rlFrame \in Frame
  BY DEF Init, Frame, NoID
<1>2. request \in [Calls -> Request] /\ result \in [Calls -> Results]
  BY DEF Init, Request, Ops, Results, Errors
<1>3. reply \in [Calls -> Seq(Reply)] /\ inbox \in Seq(Frame)
  BY DEF Init
<1> QED
  BY <1>1, <1>2, <1>3 DEF Init, TypeOK, NoID, Verdicts

LEMMA CallerType ==
  ASSUME TypeOK, NEW c \in Calls, Caller(c)
  PROVE  TypeOK'
<1>1. CASE \E r \in Requests : Begin(c, r)
  <2>1. PICK r \in Requests : Begin(c, r)
    BY <1>1
  <2>2. r \in Request
    BY ConstantsAssumption
  <2>3. subs' \subseteq Topics
    BY <2>1, <2>2, RequestParts DEF Begin, TypeOK
  <2>4. undone' \in [Calls -> SUBSET Topics]
    BY <2>1, <2>2, RequestParts DEF Begin, TypeOK
  <2> QED
    BY <2>1, <2>2, <2>3, <2>4
    DEF Begin, TypeOK, runVars, dlVars, rlVars, clockVars, serverVars
<1>2. ASSUME NEW res \in Results, Return(c, res)
      PROVE  TypeOK'
  BY <1>2 DEF Return, TypeOK, streamVars, runVars, dlVars, rlVars, clockVars, serverVars
<1>3. CASE RegisterWaiter(c)
  BY <1>3 DEF RegisterWaiter, TypeOK, runVars, dlVars, rlVars, clockVars, serverVars
<1>4. CASE ReceiveReply(c)
  <2>1. reply[c] \in Seq(Reply) /\ reply[c] # <<>>
    BY <1>4 DEF ReceiveReply, TypeOK
  <2>2. Head(reply[c]) \in Reply
    BY <2>1
  <2>3. Outcome(c) \in Results
    BY <2>2 DEF Outcome, Results, Reply
  <2> QED
    BY <1>2, <1>4, <2>3 DEF ReceiveReply
<1>5. CASE BeginClosed(c) \/ GiveUp(c) \/ SeeDone(c)
  BY <1>2, <1>5 DEF BeginClosed, GiveUp, SeeDone, Results
<1> QED
  BY <1>1, <1>3, <1>4, <1>5 DEF Caller
-----------------------------------------------------------------------------
\* What declareLoop's control point says about its locals: it holds waiters only
\* between the drain and the write, an id once it has drained, and it is gone
\* when run is not serving a connection.
DlShape ==
  /\ dl \notin {"snapshot", "pace", "write"} => dlWaiting = {}
  /\ dl = "write" /\ dlBody # {} => dlWaiting = {}
  /\ dl \in {"snapshot", "pace", "write"} => dlID # NoID
  /\ run # "serving" => dl = "exit"

LEMMA FrameType ==
  ASSUME NEW k \in {"ack", "rateLimit", "error"}, NEW id \in Nat,
         NEW r \in SUBSET Topics, NEW b \in SUBSET Topics
  PROVE  [kind |-> k, id |-> id, rejected |-> r, body |-> b] \in Frame
  BY DEF Frame

LEMMA ServerType ==
  ASSUME TypeOK, NEW id \in Nat, NEW body \in SUBSET Topics, ServerAnswers(id, body)
  PROVE  /\ inbox' \in Seq(Frame) /\ serverSubs' \subseteq Topics
         /\ verdict' \in Verdicts /\ faults' \in Nat
<1>1. CASE ServerAck(id, body)
  <2>1. PICK r \in SUBSET (body \cap MayReject) :
          /\ inbox' = Append(inbox,
               [kind |-> "ack", id |-> id, rejected |-> r, body |-> body])
          /\ serverSubs' = body \ r /\ verdict' = "accepted" /\ UNCHANGED faults
    BY <1>1 DEF ServerAck
  <2> DEFINE f == [kind |-> "ack", id |-> id, rejected |-> r, body |-> body]
  <2>2. f \in Frame
    BY FrameType
  <2>3. inbox' \in Seq(Frame)
    BY <2>1, <2>2 DEF TypeOK
  <2> QED
    BY <2>1, <2>3 DEF TypeOK, Verdicts
<1>2. CASE ServerFault(id, body)
  <2>1. PICK f \in Faults :
          /\ faults' = faults + 1
          /\ verdict' = (CASE f = "rateLimit" -> "rateLimited"
                          [] f = "error"     -> "failed"
                          [] f = "errorNoID" -> "failedNoID")
          /\ UNCHANGED serverSubs
          /\ inbox' = Append(inbox,
               [kind |-> IF f = "rateLimit" THEN "rateLimit" ELSE "error",
                id |-> IF f = "error" THEN id ELSE NoID,
                rejected |-> {}, body |-> body])
    BY <1>2 DEF ServerFault
  <2> DEFINE k == IF f = "rateLimit" THEN "rateLimit" ELSE "error"
             i == IF f = "error" THEN id ELSE NoID
  <2>2. k \in {"ack", "rateLimit", "error"} /\ i \in Nat
    BY DEF NoID
  <2>3. [kind |-> k, id |-> i, rejected |-> {}, body |-> body] \in Frame
    BY <2>2, FrameType
  <2>4. inbox' \in Seq(Frame)
    BY <2>1, <2>3 DEF TypeOK
  <2>5. faults \in Nat /\ serverSubs \subseteq Topics
    BY DEF TypeOK
  <2>6. faults' \in Nat
    BY <2>1, <2>5
  <2>7. verdict' \in Verdicts
    BY <2>1, ConstantsAssumption DEF Verdicts
  <2> QED
    BY <2>1, <2>4, <2>5, <2>6, <2>7
<1> QED
  BY <1>1, <1>2 DEF ServerAnswers

LEMMA DeclareLoopType ==
  ASSUME TypeOK, DlShape, DeclareLoop
  PROVE  TypeOK'
<1> USE DEF TypeOK, streamVars, runVars, dlVars, rlVars, clockVars, callVars, serverVars
<1>1. CASE DlSelect
  BY <1>1 DEF DlSelect
<1>2. CASE DlCtxDone
  BY <1>2 DEF DlCtxDone
<1>3. CASE DlDrain
  <2>1. seq + 1 \in Nat
    OBVIOUS
  <2> QED
    BY <1>3, <2>1 DEF DlDrain, Drain, NextID
<1>4. CASE DlSnapshot
  <2>1. reply' \in [Calls -> Seq(Reply)]
    BY <1>4, FailureType, DeliverType DEF DlSnapshot, Errors
  <2> QED
    BY <1>4, <2>1 DEF DlSnapshot
<1>5. CASE DlRegister
  <2>1. CarriedOver \subseteq Calls
    BY DEF CarriedOver, WaitersOf, Batch
  <2>2. \A ws \in SUBSET Calls : BatchFor(ws) \subseteq Batch
    BY <1>5 DEF BatchFor, Batch, DlRegister, DlShape
  <2>3. waiterBatches' \subseteq Batch /\ dlWaiting' \subseteq Calls
    BY <1>5, <2>1, <2>2 DEF DlRegister, TakeBatches
  <2> QED
    BY <1>5, <2>3 DEF DlRegister, TakeBatches
<1>6. CASE DlWrite
  <2>1. [err |-> "none", rejected |-> {}, body |-> {}] \in Reply
    BY DEF Reply, Errors
  <2>2. reply' \in [Calls -> Seq(Reply)]
    BY <1>6, <2>1, DeliverType DEF DlWrite
  <2>3. /\ inbox' \in Seq(Frame) /\ serverSubs' \subseteq Topics
        /\ verdict' \in Verdicts /\ faults' \in Nat
    BY <1>6, ServerType DEF DlWrite, NoID
  <2> QED
    BY <1>6, <2>2, <2>3 DEF DlWrite
<1>7. CASE DlWriteFails
  <2>1. reply' \in [Calls -> Seq(Reply)]
    BY <1>7, FailureType, DeliverType DEF DlWriteFails, Errors
  <2> QED
    BY <1>7, <2>1 DEF DlWriteFails, TakeBatches
<1> QED
  BY <1>1, <1>2, <1>3, <1>4, <1>5, <1>6, <1>7 DEF DeclareLoop

LEMMA ReadLoopType ==
  ASSUME TypeOK, ReadLoop
  PROVE  TypeOK'
<1> USE DEF TypeOK, streamVars, runVars, dlVars, rlVars, clockVars, callVars, serverVars
<1>0. ASSUME inbox # <<>>
      PROVE  Head(inbox) \in Frame /\ Tail(inbox) \in Seq(Frame)
  BY <1>0
<1>1. CASE RlAck
  <2>1. Head(inbox) \in Frame /\ Tail(inbox) \in Seq(Frame)
    BY <1>0, <1>1 DEF RlAck, Reading
  <2> QED
    BY <1>1, <2>1 DEF RlAck, Frame
<1>2. CASE RlResolve
  <2>1. reply' \in [Calls -> Seq(Reply)]
    BY <1>2, SuccessType, DeliverType DEF RlResolve
  <2> QED
    BY <1>2, <2>1 DEF RlResolve
<1>3. CASE RlRateLimit
  BY <1>0, <1>3 DEF RlRateLimit, RetryLater, Reading
<1>4. CASE RlError
  <2>1. reply' \in [Calls -> Seq(Reply)]
    BY <1>4, FailureType, DeliverType DEF RlError, Errors
  <2> QED
    BY <1>0, <1>4, <2>1 DEF RlError, Reading
<1>5. CASE RlExit
  BY <1>5 DEF RlExit
<1>6. CASE \E t \in Topics : RlReject(t)
  BY <1>6 DEF RlReject
<1> QED
  BY <1>1, <1>2, <1>3, <1>4, <1>5, <1>6 DEF ReadLoop

LEMMA RunType ==
  ASSUME TypeOK, Run \/ PingFails \/ RetryFires \/ Close
  PROVE  TypeOK'
<1> USE DEF TypeOK, streamVars, runVars, dlVars, rlVars, clockVars, callVars, serverVars
<1>1. CASE ConnEnds
  <2>1. reply' \in [Calls -> Seq(Reply)]
    BY <1>1, FailureType, DeliverType DEF ConnEnds, Errors
  <2>2. timers' \in Nat
    BY <1>1 DEF ConnEnds
  <2> QED
    BY <1>1, <2>1, <2>2 DEF ConnEnds, TakeBatches
<1>2. CASE Dial
  BY <1>2 DEF Dial, Verdicts
<1>3. CASE Resume
  BY <1>3 DEF Resume, RequestDeclare
<1>4. CASE Stop
  BY <1>4 DEF Stop
<1>5. CASE PingFails
  BY <1>5 DEF PingFails
<1>6. CASE RetryFires
  BY <1>6 DEF RetryFires, RequestDeclare
<1>7. CASE Close
  BY <1>7 DEF Close
<1> QED
  BY <1>1, <1>2, <1>3, <1>4, <1>5, <1>6, <1>7 DEF Run

LEMMA StutterType == TypeOK /\ UNCHANGED vars => TypeOK'
  BY DEF TypeOK, vars, streamVars, runVars, dlVars, rlVars, clockVars, callVars,
         serverVars
-----------------------------------------------------------------------------
\* A registered waiter is in exactly one place and has been sent nothing yet.
OneHome ==
  /\ pendingWaiters \cap dlWaiting = {}
  /\ (pendingWaiters \cup dlWaiting) \cap WaitersOf(waiterBatches) = {}
  /\ \A c \in Held : callPc[c] \in {"waiting", "returned"} /\ reply[c] = <<>>
  /\ \A c \in Calls : reply[c] # <<>> => callPc[c] \in {"waiting", "returned"}

\* The inductive invariant.
IInv ==
  /\ TypeOK /\ DlShape /\ BatchIsLatest /\ SignalMatchesWaiters
  /\ OneHome /\ AtMostOneReply

LEMMA ShapeStep ==
  ASSUME TypeOK, DlShape, [Next]_vars
  PROVE  DlShape'
<1> USE DEF DlShape, streamVars, runVars, dlVars, rlVars, clockVars, callVars, serverVars
<1>1. ASSUME NEW c \in Calls, Caller(c)
      PROVE  DlShape'
  BY <1>1 DEF Caller, Begin, BeginClosed, RegisterWaiter, ReceiveReply, GiveUp,
              SeeDone, Return
<1>2. CASE DlSelect \/ DlCtxDone
  BY <1>2 DEF DlSelect, DlCtxDone
<1>3. CASE DlDrain
  <2>1. seq + 1 # 0
    BY DEF TypeOK
  <2> QED
    BY <1>3, <2>1 DEF DlDrain, NextID, NoID
<1>4. CASE DlSnapshot
  BY <1>4 DEF DlSnapshot
<1>5. CASE DlRegister
  BY <1>5 DEF DlRegister
<1>6. CASE DlWrite
  BY <1>6 DEF DlWrite
<1>7. CASE DlWriteFails
  BY <1>7 DEF DlWriteFails
<1>8. CASE ReadLoop
  BY <1>8 DEF ReadLoop, RlAck, RlResolve, RlRateLimit, RlError, RlExit, RlReject
<1>9. CASE Run
  BY <1>9 DEF Run, ConnEnds, LoopsGone, Dial, Resume, Stop
<1>10. CASE PingFails \/ RetryFires \/ Close
  BY <1>10 DEF PingFails, RetryFires, Close
<1>11. CASE UNCHANGED vars
  BY <1>11 DEF vars
<1> QED
  BY <1>1, <1>2, <1>3, <1>4, <1>5, <1>6, <1>7, <1>8, <1>9, <1>10, <1>11
  DEF Next, DeclareLoop

LEMMA BatchStep ==
  ASSUME TypeOK, BatchIsLatest, [Next]_vars
  PROVE  BatchIsLatest'
<1> USE DEF BatchIsLatest, streamVars, runVars, dlVars, rlVars, clockVars, callVars,
            serverVars
<1>1. ASSUME NEW c \in Calls, Caller(c)
      PROVE  BatchIsLatest'
  BY <1>1 DEF Caller, Begin, BeginClosed, RegisterWaiter, ReceiveReply, GiveUp,
              SeeDone, Return
<1>2. CASE DlSelect \/ DlCtxDone \/ DlDrain \/ DlSnapshot \/ DlWrite
  BY <1>2 DEF DlSelect, DlCtxDone, DlDrain, DlSnapshot, DlWrite
<1>3. CASE DlRegister
  BY <1>3 DEF DlRegister, BatchFor, TakeBatches
<1>4. CASE DlWriteFails
  BY <1>4 DEF DlWriteFails, TakeBatches
<1>5. CASE ReadLoop
  BY <1>5 DEF ReadLoop, RlAck, RlResolve, RlRateLimit, RlError, RlExit, RlReject
<1>6. CASE Run
  BY <1>6 DEF Run, ConnEnds, Dial, Resume, Stop, TakeBatches
<1>7. CASE PingFails \/ RetryFires \/ Close
  BY <1>7 DEF PingFails, RetryFires, Close
<1>8. CASE UNCHANGED vars
  BY <1>8 DEF vars
<1> QED
  BY <1>1, <1>2, <1>3, <1>4, <1>5, <1>6, <1>7, <1>8 DEF Next, DeclareLoop

LEMMA SignalStep ==
  ASSUME TypeOK, DlShape, SignalMatchesWaiters, [Next]_vars
  PROVE  SignalMatchesWaiters'
<1> USE DEF SignalMatchesWaiters, streamVars, runVars, dlVars, rlVars, clockVars,
            callVars, serverVars
<1>1. ASSUME NEW c \in Calls, Caller(c)
      PROVE  SignalMatchesWaiters'
  BY <1>1 DEF Caller, Begin, BeginClosed, RegisterWaiter, ReceiveReply, GiveUp,
              SeeDone, Return
<1>2. CASE DlSelect \/ DlCtxDone \/ DlDrain
  BY <1>2 DEF DlSelect, DlCtxDone, DlDrain, Drain
<1>3. CASE DlSnapshot \/ DlRegister \/ DlWrite \/ DlWriteFails
  BY <1>3 DEF DlSnapshot, DlRegister, DlWrite, DlWriteFails
<1>4. CASE ReadLoop
  BY <1>4 DEF ReadLoop, RlAck, RlResolve, RlRateLimit, RlError, RlExit, RlReject
<1>5. CASE Run
  BY <1>5 DEF Run, ConnEnds, Dial, Resume, Stop, RequestDeclare
<1>6. CASE PingFails \/ RetryFires \/ Close
  BY <1>6 DEF PingFails, RetryFires, Close, RequestDeclare
<1>7. CASE UNCHANGED vars
  BY <1>7 DEF vars
<1> QED
  BY <1>1, <1>2, <1>3, <1>4, <1>5, <1>6, <1>7 DEF Next, DeclareLoop
-----------------------------------------------------------------------------
\* The three places are disjoint.
Apart ==
  /\ pendingWaiters \cap dlWaiting = {}
  /\ (pendingWaiters \cup dlWaiting) \cap WaitersOf(waiterBatches) = {}

\* A step that only moves or drops waiters keeps every waiter in one place.
LEMMA MoveWaiters ==
  ASSUME OneHome, AtMostOneReply, Apart', Held' \subseteq Held,
         reply' = reply, callPc' = callPc
  PROVE  OneHome' /\ AtMostOneReply'
  BY DEF OneHome, AtMostOneReply, Apart

\* A step that answers the waiters it takes out answers each of them once.
LEMMA SettleWaiters ==
  ASSUME TypeOK, OneHome, AtMostOneReply, Apart', NEW ws \in SUBSET Held, NEW r \in Reply,
         Deliver(ws, r), Held' \subseteq Held \ ws, callPc' = callPc
  PROVE  OneHome' /\ AtMostOneReply'
<1>1. Held \subseteq Calls
  BY DEF TypeOK, Held, WaitersOf, Batch
<1>2. \A c \in Calls : c \in ws => Len(reply'[c]) <= 1
  <2>1. SUFFICES ASSUME NEW c \in Calls, c \in ws PROVE Len(reply'[c]) <= 1
    OBVIOUS
  <2>2. reply'[c] = Append(<<>>, r)
    BY <2>1, DeliverTo DEF OneHome
  <2>3. Append(<<>>, r) = <<r>> /\ Len(<<r>>) <= 1
    OBVIOUS
  <2> QED
    BY <2>2, <2>3
<1>3. \A c \in Calls : c \notin ws => reply'[c] = reply[c]
  BY DeliverTo
<1>4. AtMostOneReply'
  <2>1. SUFFICES ASSUME NEW c \in Calls PROVE Len(reply'[c]) <= 1
    BY DEF AtMostOneReply
  <2>2. CASE c \in ws
    BY <1>2, <2>2
  <2>3. CASE c \notin ws
    BY <1>3, <2>3 DEF AtMostOneReply
  <2> QED
    BY <2>2, <2>3
<1>5. \A c \in Held' : callPc'[c] \in {"waiting", "returned"} /\ reply'[c] = <<>>
  BY <1>1, <1>3 DEF OneHome
<1>6. \A c \in Calls : reply'[c] # <<>> => callPc'[c] \in {"waiting", "returned"}
  BY <1>1, <1>3 DEF OneHome
<1> QED
  BY <1>4, <1>5, <1>6 DEF OneHome, Apart

LEMMA HeldTogether ==
  /\ WaitersOf({}) = {}
  /\ \A ws : WaitersOf(BatchFor(ws)) = ws
<1>1. WaitersOf({}) = {}
  BY DEF WaitersOf
<1>2. ASSUME NEW ws
      PROVE  WaitersOf({[id |-> dlID, waiters |-> ws]}) = ws
  <2> DEFINE b == [id |-> dlID, waiters |-> ws]
  <2>1. {x.waiters : x \in {b}} = {ws}
    OBVIOUS
  <2> QED
    BY <2>1 DEF WaitersOf
<1> QED
  BY <1>1, <1>2 DEF BatchFor

\* Taking out the batch that matches an id takes out all waiters or none.
LEMMA TakeMatching ==
  ASSUME BatchIsLatest, NEW id, waiterBatches' = waiterBatches \ Matching(id)
  PROVE  WaitersOf(waiterBatches') = WaitersOf(waiterBatches) \ WaitersOf(Matching(id))
<1>1. CASE Matching(id) = {}
  BY <1>1 DEF WaitersOf
<1>2. CASE Matching(id) # {}
  <2>1. Matching(id) = waiterBatches
    BY <1>2 DEF Matching, BatchIsLatest
  <2> QED
    BY <2>1 DEF WaitersOf
<1> QED
  BY <1>1, <1>2

LEMMA CallerHome ==
  ASSUME TypeOK, OneHome, AtMostOneReply, NEW c \in Calls, Caller(c)
  PROVE  OneHome' /\ AtMostOneReply'
<1> USE DEF streamVars, runVars, dlVars, rlVars, clockVars, callVars, serverVars
<1>0. Held \subseteq Calls /\ callPc \in [Calls -> {"idle", "added", "waiting", "returned"}]
  BY DEF TypeOK, Held, WaitersOf, Batch
<1>1. CASE \E r \in Requests : Begin(c, r)
  BY <1>0, <1>1 DEF Begin, OneHome, AtMostOneReply, Held, WaitersOf
<1>2. ASSUME NEW res, Return(c, res)
      PROVE  OneHome' /\ AtMostOneReply'
  BY <1>0, <1>2 DEF Return, OneHome, AtMostOneReply, Held, WaitersOf
<1>3. CASE RegisterWaiter(c)
  <2>1. c \notin Held /\ reply[c] = <<>>
    BY <1>3 DEF RegisterWaiter, OneHome
  <2>2. Held' = Held \cup {c} /\ Apart'
    BY <1>3, <2>1 DEF RegisterWaiter, OneHome, Held, Apart, WaitersOf
  <2> QED
    BY <1>0, <1>3, <2>1, <2>2 DEF RegisterWaiter, OneHome, Apart, AtMostOneReply
<1> QED
  BY <1>1, <1>2, <1>3
  DEF Caller, BeginClosed, ReceiveReply, GiveUp, SeeDone

LEMMA DeclareLoopHome ==
  ASSUME TypeOK, DlShape, OneHome, AtMostOneReply, DeclareLoop
  PROVE  OneHome' /\ AtMostOneReply'
<1> USE DEF streamVars, runVars, dlVars, rlVars, clockVars, callVars, serverVars
<1>1. CASE DlSelect \/ DlCtxDone
  <2>1. Apart' /\ Held' \subseteq Held
    BY <1>1 DEF DlSelect, DlCtxDone, OneHome, Apart, Held
  <2> QED
    BY <1>1, <2>1, MoveWaiters DEF DlSelect, DlCtxDone
<1>2. CASE DlDrain
  <2>1. dlWaiting = {}
    BY <1>2 DEF DlDrain, DlShape
  <2>2. Apart' /\ Held' \subseteq Held
    BY <1>2, <2>1 DEF DlDrain, Drain, OneHome, Apart, Held
  <2> QED
    BY <1>2, <2>2, MoveWaiters DEF DlDrain
<1>3. CASE DlSnapshot
  <2>1. CASE conn
    <3>1. Apart' /\ Held' \subseteq Held
      BY <1>3, <2>1 DEF DlSnapshot, OneHome, Apart, Held
    <3> QED
      BY <1>3, <2>1, <3>1, MoveWaiters DEF DlSnapshot
  <2>2. CASE ~conn
    <3>1. Apart' /\ Held' \subseteq Held \ dlWaiting /\ dlWaiting \in SUBSET Held
      BY <1>3, <2>2 DEF DlSnapshot, OneHome, Apart, Held
    <3>2. Failure("notConnected") \in Reply
      BY FailureType DEF Errors
    <3> QED
      BY <1>3, <2>2, <3>1, <3>2, SettleWaiters DEF DlSnapshot
  <2> QED
    BY <2>1, <2>2
<1>4. CASE DlRegister
  <2>1. Apart' /\ Held' \subseteq Held
    BY <1>4, HeldTogether
    DEF DlRegister, TakeBatches, CarriedOver, OneHome, Apart, Held
  <2> QED
    BY <1>4, <2>1, MoveWaiters DEF DlRegister
<1>5. CASE DlWrite
  <2>1. CASE dlBody = {}
    <3>1. Apart' /\ Held' \subseteq Held \ dlWaiting /\ dlWaiting \in SUBSET Held
      BY <1>5, <2>1 DEF DlWrite, OneHome, Apart, Held
    <3>2. [err |-> "none", rejected |-> {}, body |-> {}] \in Reply
      BY DEF Reply, Errors
    <3> QED
      BY <1>5, <2>1, <3>1, <3>2, SettleWaiters DEF DlWrite
  <2>2. CASE dlBody # {}
    <3>1. Apart' /\ Held' \subseteq Held
      BY <1>5, <2>2 DEF DlWrite, OneHome, Apart, Held
    <3> QED
      BY <1>5, <2>2, <3>1, MoveWaiters DEF DlWrite
  <2> QED
    BY <2>1, <2>2
<1>6. CASE DlWriteFails
  <2>0. Failure("writeError") \in Reply
    BY FailureType DEF Errors
  <2>1. CASE dlBody = {}
    <3>1. Apart' /\ Held' \subseteq Held \ dlWaiting /\ dlWaiting \in SUBSET Held
      BY <1>6, <2>1 DEF DlWriteFails, OneHome, Apart, Held
    <3> QED
      BY <1>6, <2>0, <2>1, <3>1, SettleWaiters DEF DlWriteFails
  <2>2. CASE dlBody # {}
    <3>1. /\ Apart' /\ Held' \subseteq Held \ WaitersOf(waiterBatches)
          /\ WaitersOf(waiterBatches) \in SUBSET Held
      BY <1>6, <2>2, HeldTogether DEF DlWriteFails, TakeBatches, OneHome, Apart, Held
    <3> QED
      BY <1>6, <2>0, <2>2, <3>1, SettleWaiters DEF DlWriteFails
  <2> QED
    BY <2>1, <2>2
<1> QED
  BY <1>1, <1>2, <1>3, <1>4, <1>5, <1>6 DEF DeclareLoop

LEMMA ReadLoopHome ==
  ASSUME TypeOK, BatchIsLatest, OneHome, AtMostOneReply, ReadLoop
  PROVE  OneHome' /\ AtMostOneReply'
<1> USE DEF streamVars, runVars, dlVars, rlVars, clockVars, callVars, serverVars
<1>1. ASSUME NEW id, NEW r \in Reply, waiterBatches' = waiterBatches \ Matching(id),
             Deliver(WaitersOf(Matching(id)), r),
             pendingWaiters' = pendingWaiters, dlWaiting' = dlWaiting, callPc' = callPc
      PROVE  OneHome' /\ AtMostOneReply'
  <2>1. WaitersOf(waiterBatches') = WaitersOf(waiterBatches) \ WaitersOf(Matching(id))
    BY <1>1, TakeMatching
  <2>2. WaitersOf(Matching(id)) \subseteq WaitersOf(waiterBatches)
    BY DEF WaitersOf, Matching
  <2>3. /\ Apart' /\ Held' \subseteq Held \ WaitersOf(Matching(id))
        /\ WaitersOf(Matching(id)) \in SUBSET Held
    BY <1>1, <2>1, <2>2 DEF OneHome, Apart, Held
  <2> QED
    BY <1>1, <2>3, SettleWaiters
<1>2. CASE RlResolve
  <2>1. Success(rlFrame) \in Reply
    BY SuccessType DEF TypeOK
  <2> QED
    BY <1>1, <1>2, <2>1 DEF RlResolve
<1>3. CASE RlError
  <2>1. Failure("declareError") \in Reply
    BY FailureType DEF Errors
  <2> QED
    BY <1>1, <1>3, <2>1 DEF RlError
<1>4. CASE RlAck \/ RlRateLimit \/ RlExit \/ \E t \in Topics : RlReject(t)
  <2>1. UNCHANGED <<pendingWaiters, waiterBatches, dlWaiting, reply, callPc>>
    BY <1>4 DEF RlAck, RlRateLimit, RlExit, RlReject
  <2>2. Apart' /\ Held' \subseteq Held
    BY <2>1 DEF OneHome, Apart, Held
  <2> QED
    BY <2>1, <2>2, MoveWaiters
<1> QED
  BY <1>2, <1>3, <1>4 DEF ReadLoop

LEMMA RunHome ==
  ASSUME TypeOK, DlShape, OneHome, AtMostOneReply,
         Run \/ PingFails \/ RetryFires \/ Close \/ UNCHANGED vars
  PROVE  OneHome' /\ AtMostOneReply'
<1> USE DEF streamVars, runVars, dlVars, rlVars, clockVars, callVars, serverVars
<1>1. CASE ConnEnds
  <2>1. dlWaiting = {}
    BY <1>1 DEF ConnEnds, LoopsGone, DlShape
  <2> DEFINE ws == pendingWaiters \cup WaitersOf(waiterBatches)
  <2>2. Apart' /\ Held' \subseteq Held \ ws /\ ws \in SUBSET Held
    BY <1>1, <2>1, HeldTogether DEF ConnEnds, TakeBatches, OneHome, Apart, Held
  <2>3. Failure("connClosed") \in Reply
    BY FailureType DEF Errors
  <2>4. Deliver(ws, Failure("connClosed")) /\ callPc' = callPc
    BY <1>1 DEF ConnEnds
  <2> QED
    BY <2>2, <2>3, <2>4, SettleWaiters
<1>2. CASE \/ Dial \/ Resume \/ Stop \/ PingFails \/ RetryFires \/ Close
           \/ UNCHANGED vars
  <2>1. UNCHANGED <<pendingWaiters, waiterBatches, dlWaiting, reply, callPc>>
    BY <1>2 DEF Dial, Resume, Stop, PingFails, RetryFires, Close, vars
  <2>2. Apart' /\ Held' \subseteq Held
    BY <2>1 DEF OneHome, Apart, Held
  <2> QED
    BY <2>1, <2>2, MoveWaiters
<1> QED
  BY <1>1, <1>2 DEF Run
-----------------------------------------------------------------------------
\* The calls that wait for an answer nobody holds a channel for.
Orphans == {c \in Calls : callPc[c] = "waiting" /\ reply[c] = <<>> /\ c \notin Held}

\* A step in which every waiter taken from its place gets its answer orphans nobody.
LEMMA NobodyLost ==
  ASSUME TypeOK, NEW ws, NEW r, Deliver(ws, r), Held \subseteq Held' \cup ws,
         callPc' = callPc
  PROVE  Orphans' \subseteq Orphans
<1>1. SUFFICES ASSUME NEW c \in Calls, callPc[c] = "waiting", reply'[c] = <<>>,
                      c \notin Held'
               PROVE  reply[c] = <<>> /\ c \notin Held
  BY DEF Orphans
<1>2. reply'[c] = IF c \in ws THEN Append(reply[c], r) ELSE reply[c]
  BY DeliverTo
<1>3. Append(reply[c], r) # <<>>
  <2>1. reply[c] \in Seq(Reply \cup {r})
    BY DEF TypeOK
  <2>2. Len(Append(reply[c], r)) = Len(reply[c]) + 1 /\ Len(reply[c]) \in Nat
    BY <2>1
  <2> QED
    BY <2>2
<1> QED
  BY <1>1, <1>2, <1>3

LEMMA NobodyMoved ==
  ASSUME reply' = reply, Held \subseteq Held', callPc' = callPc
  PROVE  Orphans' \subseteq Orphans
  BY DEF Orphans

LEMMA CallerOrphan ==
  ASSUME TypeOK, NEW c \in Calls, Caller(c)
  PROVE  Orphans' \subseteq Orphans
<1> USE DEF streamVars, runVars, dlVars, rlVars, clockVars, callVars, serverVars
<1>0. callPc \in [Calls -> {"idle", "added", "waiting", "returned"}]
  BY DEF TypeOK
<1>1. CASE \E r \in Requests : Begin(c, r)
  BY <1>0, <1>1 DEF Begin, Orphans, Held, WaitersOf
<1>2. ASSUME NEW res, Return(c, res)
      PROVE  Orphans' \subseteq Orphans
  BY <1>0, <1>2 DEF Return, Orphans, Held, WaitersOf
<1>3. CASE RegisterWaiter(c)
  BY <1>0, <1>3 DEF RegisterWaiter, Orphans, Held, WaitersOf
<1> QED
  BY <1>1, <1>2, <1>3
  DEF Caller, BeginClosed, ReceiveReply, GiveUp, SeeDone

\* declareLoop drops waiters in one place only: when its connection ends during the
\* pacing delay.
LEMMA DeclareLoopOrphan ==
  ASSUME TypeOK, DlShape, DeclareLoop, ~(DlCtxDone /\ dl = "pace")
  PROVE  Orphans' \subseteq Orphans
<1> USE DEF streamVars, runVars, dlVars, rlVars, clockVars, callVars, serverVars
<1>1. CASE DlSelect
  BY <1>1, NobodyMoved DEF DlSelect, Held
<1>2. CASE DlCtxDone
  <2>1. dlWaiting = {}
    BY <1>2 DEF DlCtxDone, DlShape
  <2> QED
    BY <1>2, <2>1, NobodyMoved DEF DlCtxDone, Held
<1>3. CASE DlDrain
  <2>1. dlWaiting = {}
    BY <1>3 DEF DlDrain, DlShape
  <2> QED
    BY <1>3, <2>1, NobodyMoved DEF DlDrain, Drain, Held
<1>4. CASE DlSnapshot
  <2>1. CASE conn
    BY <1>4, <2>1, NobodyMoved DEF DlSnapshot, Held
  <2>2. CASE ~conn
    BY <1>4, <2>2, NobodyLost DEF DlSnapshot, Held
  <2> QED
    BY <2>1, <2>2
<1>5. CASE DlRegister
  <2>1. Held \subseteq Held'
    BY <1>5, HeldTogether DEF DlRegister, TakeBatches, CarriedOver, Held
  <2> QED
    BY <1>5, <2>1, NobodyMoved DEF DlRegister
<1>6. CASE DlWrite
  <2>1. CASE dlBody = {}
    BY <1>6, <2>1, NobodyLost DEF DlWrite, Held
  <2>2. CASE dlBody # {}
    BY <1>6, <2>2, NobodyMoved DEF DlWrite, Held
  <2> QED
    BY <2>1, <2>2
<1>7. CASE DlWriteFails
  <2>1. CASE dlBody = {}
    BY <1>7, <2>1, NobodyLost DEF DlWriteFails, Held
  <2>2. CASE dlBody # {}
    <3>1. dlWaiting = {}
      BY <1>7, <2>2 DEF DlWriteFails, DlShape
    <3> QED
      BY <1>7, <2>2, <3>1, NobodyLost DEF DlWriteFails, TakeBatches, Held
  <2> QED
    BY <2>1, <2>2
<1> QED
  BY <1>1, <1>2, <1>3, <1>4, <1>5, <1>6, <1>7 DEF DeclareLoop

LEMMA OtherOrphan ==
  ASSUME TypeOK, DlShape,
         ReadLoop \/ Run \/ PingFails \/ RetryFires \/ Close \/ UNCHANGED vars
  PROVE  Orphans' \subseteq Orphans
<1> USE DEF streamVars, runVars, dlVars, rlVars, clockVars, callVars, serverVars
<1>1. ASSUME NEW id, waiterBatches' = waiterBatches \ Matching(id),
             UNCHANGED <<pendingWaiters, dlWaiting>>
      PROVE  Held \subseteq Held' \cup WaitersOf(Matching(id))
  BY <1>1 DEF Held, WaitersOf
<1>2. CASE RlResolve
  BY <1>1, <1>2, NobodyLost DEF RlResolve
<1>3. CASE RlError
  BY <1>1, <1>3, NobodyLost DEF RlError
<1>4. CASE ConnEnds
  <2>1. dlWaiting = {}
    BY <1>4 DEF ConnEnds, LoopsGone, DlShape
  <2>2. Held \subseteq Held' \cup (pendingWaiters \cup WaitersOf(waiterBatches))
    BY <2>1 DEF Held
  <2> QED
    BY <1>4, <2>2, NobodyLost DEF ConnEnds
<1>5. CASE \/ RlAck \/ RlRateLimit \/ RlExit \/ \E t \in Topics : RlReject(t)
           \/ Dial \/ Resume \/ Stop \/ PingFails \/ RetryFires \/ Close
           \/ UNCHANGED vars
  <2>1. UNCHANGED <<pendingWaiters, waiterBatches, dlWaiting, reply, callPc>>
    BY <1>5 DEF RlAck, RlRateLimit, RlExit, RlReject, Dial, Resume, Stop, PingFails,
                RetryFires, Close, vars
  <2> QED
    BY <2>1, NobodyMoved DEF Held, WaitersOf
<1> QED
  BY <1>2, <1>3, <1>4, <1>5 DEF ReadLoop, Run

\* A step orphans nobody, or it is the one that drops what was drained for a declaration.
LEMMA OrphansStep ==
  ASSUME IInv, [Next]_vars
  PROVE  \/ Orphans' \subseteq Orphans
         \/ DlCtxDone /\ dl = "pace" /\ Orphans' \subseteq Orphans \cup dlWaiting
<1>1. CASE DlCtxDone /\ dl = "pace"
  <2>1. UNCHANGED <<pendingWaiters, waiterBatches, callPc, reply>>
    BY <1>1 DEF DlCtxDone, streamVars, callVars
  <2> QED
    BY <1>1, <2>1 DEF Orphans, Held, WaitersOf
<1>2. CASE ~(DlCtxDone /\ dl = "pace")
  BY <1>2, CallerOrphan, DeclareLoopOrphan, OtherOrphan DEF IInv, Next
<1> QED
  BY <1>1, <1>2
-----------------------------------------------------------------------------
LEMMA TypeStep ==
  ASSUME TypeOK, DlShape, [Next]_vars
  PROVE  TypeOK'
  BY CallerType, DeclareLoopType, ReadLoopType, RunType, StutterType DEF Next

LEMMA InitIInv == Init => IInv /\ Orphans = {}
<1> SUFFICES ASSUME Init PROVE IInv /\ Orphans = {}
  OBVIOUS
<1>1. TypeOK
  BY InitType
<1>2. DlShape /\ BatchIsLatest /\ SignalMatchesWaiters
  BY DEF Init, DlShape, BatchIsLatest, SignalMatchesWaiters
<1>3. Held = {} /\ OneHome
  BY HeldTogether DEF Init, OneHome, Held
<1>4. AtMostOneReply
  BY DEF Init, AtMostOneReply
<1>5. Orphans = {}
  BY DEF Init, Orphans
<1> QED
  BY <1>1, <1>2, <1>3, <1>4, <1>5 DEF IInv

LEMMA IInvStep == IInv /\ [Next]_vars => IInv'
<1> SUFFICES ASSUME IInv, [Next]_vars PROVE IInv'
  OBVIOUS
<1>1. TypeOK' /\ DlShape' /\ BatchIsLatest' /\ SignalMatchesWaiters'
  BY TypeStep, ShapeStep, BatchStep, SignalStep DEF IInv
<1>2. OneHome' /\ AtMostOneReply'
  BY CallerHome, DeclareLoopHome, ReadLoopHome, RunHome DEF IInv, Next
<1> QED
  BY <1>1, <1>2 DEF IInv

\* The inductive invariant holds throughout, whatever the constants.
THEOREM Invariance == Spec => []IInv
<1>1. Init => IInv
  BY InitIInv
<1> QED
  BY <1>1, IInvStep, PTL DEF Spec

\* Types are respected.
THEOREM TypeCorrect == Spec => []TypeOK
<1>1. IInv => TypeOK
  BY DEF IInv
<1> QED
  BY <1>1, Invariance, PTL

\* No waiter's channel is ever sent two results, however declarations, acks, errors,
\* failed writes and lost connections interleave: no goroutine blocks on resolving.
THEOREM AtMostOnce == Spec => []AtMostOneReply
<1>1. IInv => AtMostOneReply
  BY DEF IInv
<1> QED
  BY <1>1, Invariance, PTL

\* At most one batch waits and it belongs to the last declaration registered.
THEOREM LatestBatch == Spec => []BatchIsLatest
<1>1. IInv => BatchIsLatest
  BY DEF IInv
<1> QED
  BY <1>1, Invariance, PTL

\* No registered waiter misses its signal, and no signal is left without a reason.
THEOREM SignalCorrect == Spec => []SignalMatchesWaiters
<1>1. IInv => SignalMatchesWaiters
  BY DEF IInv
<1> QED
  BY <1>1, Invariance, PTL

\* Whatever the constants, a waiting call is forgotten in one way only: it was drained for
\* a declaration whose connection ended while the interval was being waited for.
THEOREM OrphansFromPacing ==
  Spec => [][\/ Orphans' \subseteq Orphans
             \/ /\ dl = "pace" /\ dl' = "exit" /\ ctxDone
                /\ Orphans' \subseteq Orphans \cup dlWaiting]_vars
<1>1. IInv /\ [Next]_vars => [\/ Orphans' \subseteq Orphans
                              \/ /\ dl = "pace" /\ dl' = "exit" /\ ctxDone
                                 /\ Orphans' \subseteq Orphans \cup dlWaiting]_vars
  BY OrphansStep DEF DlCtxDone
<1> QED
  BY <1>1, Invariance, PTL DEF Spec

\* When the pacing delay never binds (a coalescing delay of at least
\* minDeclareInterval), every waiting call stays where something will answer it.
THEOREM NoOrphans ==
  ASSUME ~PacingBinds
  PROVE  Spec => []NoOrphanWaiter
<1>1. IInv /\ Orphans = {} /\ [Next]_vars => (Orphans = {})'
  BY ~PacingBinds, OrphansStep DEF DlCtxDone
<1>2. Orphans = {} => NoOrphanWaiter
  BY DEF Orphans, NoOrphanWaiter
<1> QED
  BY <1>1, <1>2, InitIInv, Invariance, PTL DEF Spec
-----------------------------------------------------------------------------
\* Without a connection to serve neither loop runs.
NoLoops == run # "serving" => dl = "exit" /\ rl = "exit"

LEMMA LoopsInit == Init => NoLoops
  BY DEF Init, NoLoops

LEMMA LoopsStep == NoLoops /\ [Next]_vars => NoLoops'
<1> SUFFICES ASSUME NoLoops, [Next]_vars PROVE NoLoops'
  OBVIOUS
<1> USE DEF NoLoops, streamVars, runVars, dlVars, rlVars, clockVars, callVars, serverVars
<1>1. ASSUME NEW c \in Calls, Caller(c) PROVE NoLoops'
  BY <1>1 DEF Caller, Begin, BeginClosed, RegisterWaiter, ReceiveReply, GiveUp, SeeDone,
     Return
<1>2. CASE DeclareLoop
  BY <1>2 DEF DeclareLoop, DlSelect, DlCtxDone, DlDrain, DlSnapshot, DlRegister, DlWrite,
     DlWriteFails
<1>3. CASE ReadLoop
  BY <1>3 DEF ReadLoop, RlAck, RlReject, RlResolve, RlRateLimit, RlError, RlExit, Reading
<1>4. CASE Run
  BY <1>4 DEF Run, ConnEnds, LoopsGone, Dial, Resume, Stop
<1>5. CASE PingFails \/ RetryFires \/ Close \/ UNCHANGED vars
  BY <1>5 DEF PingFails, RetryFires, Close, vars
<1> QED
  BY <1>1, <1>2, <1>3, <1>4, <1>5 DEF Next

\* the loops Connection is told of
RunningLoops ==
  (IF dl = "exit" THEN {} ELSE {"declare"}) \cup (IF rl = "exit" THEN {} ELSE {"read"})
\* A step that touches neither run, nor the loops, nor the context is none of a connection.
LEMMA ConnectionStutters ==
  ASSUME UNCHANGED <<run, conns, ctxDone, closed>>, UNCHANGED RunningLoops
  PROVE  UNCHANGED Connected!vars
  BY DEF Connected!vars, RunningLoops

LEMMA ConnectionInit == Init => Connected!Init
  BY ConstantsAssumption DEF Init, Connected!Init, Connected!Loops

\* A step of declareLoop or readLoop is nothing, or a loop that returns.
LEMMA LoopRefines ==
  ASSUME NoLoops, DeclareLoop \/ ReadLoop
  PROVE  [Connected!Next]_(Connected!vars)
<1> USE DEF streamVars, runVars, dlVars, rlVars, clockVars, callVars, serverVars
<1>1. CASE \/ DlSelect \/ DlDrain \/ DlSnapshot \/ DlRegister \/ DlWrite
           \/ RlAck \/ RlResolve \/ RlRateLimit \/ RlError \/ \E t \in Topics : RlReject(t)
  <2>1. UNCHANGED <<run, conns, ctxDone, closed>> /\ UNCHANGED RunningLoops
    BY <1>1 DEF DlSelect, DlDrain, DlSnapshot, DlRegister, DlWrite, RlAck, RlResolve,
       RlRateLimit, RlError, RlReject, Reading, RunningLoops
  <2> QED
    BY <2>1, ConnectionStutters
<1>2. CASE DlCtxDone \/ DlWriteFails
  <2>1. /\ run = "serving" /\ dl # "exit" /\ dl' = "exit" /\ rl' = rl /\ ctxDone' = TRUE
        /\ UNCHANGED <<run, conns, closed>>
    BY <1>2 DEF DlCtxDone, DlWriteFails, NoLoops
  <2>2. Connected!LoopReturns("declare")
    BY <2>1 DEF Connected!LoopReturns
  <2> QED
    BY <2>2 DEF Connected!Next, Connected!Loops
<1>3. CASE RlExit
  <2>1. /\ run = "serving" /\ rl # "exit" /\ rl' = "exit" /\ dl' = dl /\ ctxDone' = TRUE
        /\ UNCHANGED <<run, conns, closed>>
    BY <1>3 DEF RlExit, NoLoops
  <2>2. Connected!LoopReturns("read")
    BY <2>1 DEF Connected!LoopReturns
  <2> QED
    BY <2>2 DEF Connected!Next, Connected!Loops
<1> QED
  BY <1>1, <1>2, <1>3 DEF DeclareLoop, ReadLoop

\* run and Close make the steps of Connection with the same names.
LEMMA RunRefines ==
  ASSUME NoLoops, Run \/ PingFails \/ Close
  PROVE  Connected!Next
<1> USE DEF streamVars, runVars, dlVars, rlVars, clockVars, callVars, serverVars
<1>1. CASE ConnEnds
  <2>1. Connected!End
    BY <1>1 DEF ConnEnds, LoopsGone, Connected!End
  <2> QED
    BY <2>1 DEF Connected!Next
<1>2. CASE Dial
  <2>1. Connected!Dial
    BY <1>2 DEF Dial, Connected!Dial
  <2> QED
    BY <2>1 DEF Connected!Next
<1>3. CASE Resume
  <2>1. Connected!Resume
    BY <1>3 DEF Resume, Connected!Resume, Connected!Loops
  <2> QED
    BY <2>1 DEF Connected!Next
<1>4. CASE Stop
  <2>1. Connected!Stop
    BY <1>4 DEF Stop, Connected!Stop
  <2> QED
    BY <2>1 DEF Connected!Next
<1>5. CASE PingFails
  <2>1. Connected!Cancel
    BY <1>5 DEF PingFails, Connected!Cancel
  <2> QED
    BY <2>1 DEF Connected!Next
<1>6. CASE Close
  <2>1. Connected!Close
    BY <1>6 DEF Close, Connected!Close
  <2> QED
    BY <2>1 DEF Connected!Next
<1> QED
  BY <1>1, <1>2, <1>3, <1>4, <1>5, <1>6 DEF Run

\* What the callers and the declarations rely on of run and Close is what Connection says,
\* and StreamLifecycle keeps: see KeepsConnection there.
THEOREM ReliesOnConnection == Spec => ImplementsConnection
<1>1. NoLoops /\ [Next]_vars => [Connected!Next]_(Connected!vars)
  <2> SUFFICES ASSUME NoLoops, [Next]_vars PROVE [Connected!Next]_(Connected!vars)
    OBVIOUS
  <2>1. CASE (\E c \in Calls : Caller(c)) \/ RetryFires \/ UNCHANGED vars
    <3>1. UNCHANGED <<run, conns, ctxDone, closed, dl, rl>>
      BY <2>1 DEF Caller, Begin, BeginClosed, RegisterWaiter, ReceiveReply, GiveUp,
         SeeDone, Return, RetryFires, vars, runVars, dlVars, rlVars
    <3> QED
      BY <3>1, ConnectionStutters DEF RunningLoops
  <2> QED
    BY <2>1, LoopRefines, RunRefines DEF Next
<1> QED
  BY <1>1, LoopsInit, LoopsStep, ConnectionInit, PTL DEF Spec, ImplementsConnection, Connected!Spec
=============================================================================
