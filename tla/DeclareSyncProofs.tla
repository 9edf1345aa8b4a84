------------------------- MODULE DeclareSyncProofs -------------------------
(***************************************************************************)
(* What a declaration carries, for every number of calls, topics, faults    *)
(* and connections: that a call told of success was in the body it was told *)
(* of, and how far the set of the stream and the set of the server may      *)
(* differ once nothing is on its way.                                       *)
(***************************************************************************)
EXTENDS DeclareProtocolProofs

\* A body carries what call c asked for: what it added is in, what it removed is not,
\* save what another call has undone since and what the server may reject.
Covers(c, body) ==
  /\ Wants(request[c]) \ (undone[c] \cup MayReject) \subseteq body
  /\ (Shuns(request[c]) \ undone[c]) \cap body = {}

\* The answers on their way and the one readLoop has in hand.
Frames == {inbox[i] : i \in DOMAIN inbox} \cup {rlFrame}

\* The declaration being prepared bears the newest id, and no answer bears it yet.
Numbered ==
  /\ \A f \in Frames : f.id <= seq
  /\ dl \in {"snapshot", "pace", "write"} => dlID = seq /\ \A f \in Frames : f.id # seq
  /\ dl = "write" /\ dlBody # {} => lastDeclareID = dlID

\* Only what the server may reject is ever rejected or taken out of the set for it.
Rejectable ==
  /\ \A f \in Frames : f.rejected \subseteq MayReject
  /\ rlTodo \subseteq MayReject
  /\ rlTodo # {} => rl = "ack"

\* The set carries every call that has begun.
SetCarries ==
  \A c \in Calls :
    /\ callPc[c] = "idle" => Wants(request[c]) = {} /\ Shuns(request[c]) = {}
    /\ Covers(c, subs)

\* The declaration being prepared carries the calls it will answer for.
BodyCarries ==
  dl \in {"pace", "write"} =>
    \A c \in dlWaiting \cup WaitersOf(waiterBatches) : Covers(c, dlBody)

\* An answer is about a declaration that carried the calls waiting under its id.
FramesCarry ==
  \A b \in waiterBatches, f \in Frames :
    f.id = b.id => \A c \in b.waiters : Covers(c, f.body)

\* The connection serves, and nobody has cancelled its context.
Live == run = "serving" /\ ~ctxDone

\* A declaration is due that will take the set as it is when it is snapshot.
ToDeclare ==
  \/ declareCh \/ dl \in {"coalesce", "snapshot"}
  \/ \E c \in Calls : callPc[c] = "added"

\* The rejection of t is on its way to the set: the ack of the last declaration has it.
Announced(t) ==
  \/ t \in rlTodo
  \/ \E i \in DOMAIN inbox : /\ inbox[i].kind = "ack" /\ inbox[i].id = lastDeclareID
                             /\ t \in inbox[i].rejected

\* While no declaration is due, the set of the stream, the body in hand and the
\* subscriptions of the server differ only by what the server may reject, and what the
\* server does not deliver is about to leave the set.
Tracked ==
  Live =>
    /\ conn
    /\ ~ToDeclare /\ dl \in {"pace", "write"} =>
         subs \subseteq dlBody /\ dlBody \ MayReject \subseteq subs
    /\ ~ToDeclare /\ dl = "select" /\ verdict = "accepted" =>
         /\ serverSubs \ MayReject \subseteq subs
         /\ serverSubs \cap AlwaysRejected = {}
         /\ \A t \in subs \ serverSubs : Announced(t)

\* The inductive invariant, on top of IInv.
SyncInv ==
  /\ Numbered /\ Rejectable /\ SetCarries /\ BodyCarries /\ FramesCarry
  /\ AckCoversCall /\ Tracked
-----------------------------------------------------------------------------
\* Reading a frame takes it from the inbox to readLoop and moves the others up.
LEMMA TakeFrame ==
  ASSUME TypeOK, inbox # <<>>
  PROVE  /\ Head(inbox) = inbox[1] /\ 1 \in DOMAIN inbox
         /\ \A i \in DOMAIN Tail(inbox) : i + 1 \in DOMAIN inbox
                                          /\ Tail(inbox)[i] = inbox[i + 1]
         /\ \A i \in DOMAIN inbox : i # 1 => i - 1 \in DOMAIN Tail(inbox)
                                          /\ Tail(inbox)[i - 1] = inbox[i]
<1>1. inbox \in Seq(Frame) /\ inbox # <<>>
  BY DEF TypeOK
<1> QED
  BY <1>1

LEMMA FramesType == TypeOK => Frames \subseteq Frame
<1> SUFFICES ASSUME TypeOK, NEW i \in DOMAIN inbox PROVE inbox[i] \in Frame
  BY DEF Frames, TypeOK
<1>1. inbox \in Seq(Frame)
  BY DEF TypeOK
<1> QED
  BY <1>1

LEMMA FramesTaken ==
  ASSUME TypeOK, inbox # <<>>, inbox' = Tail(inbox), rlFrame' \in {rlFrame, Head(inbox)}
  PROVE  Frames' \subseteq Frames
  BY TakeFrame DEF Frames

LEMMA FramesDropped ==
  ASSUME inbox' = inbox \/ inbox' = <<>>, rlFrame' = rlFrame
  PROVE  Frames' \subseteq Frames
  BY DEF Frames

LEMMA FramesAdded ==
  ASSUME TypeOK, NEW f \in Frame, inbox' = Append(inbox, f), rlFrame' = rlFrame
  PROVE  /\ Frames' \subseteq Frames \cup {f}
         /\ DOMAIN inbox \subseteq DOMAIN inbox'
         /\ \A i \in DOMAIN inbox : inbox'[i] = inbox[i]
         /\ Len(inbox) + 1 \in DOMAIN inbox' /\ inbox'[Len(inbox) + 1] = f
<1>1. inbox \in Seq(Frame)
  BY DEF TypeOK
<1>2. /\ DOMAIN inbox \subseteq DOMAIN inbox'
      /\ \A i \in DOMAIN inbox : inbox'[i] = inbox[i]
      /\ Len(inbox) + 1 \in DOMAIN inbox' /\ inbox'[Len(inbox) + 1] = f
      /\ \A i \in DOMAIN inbox' : i \in DOMAIN inbox \/ i = Len(inbox) + 1
  BY <1>1
<1> QED
  BY <1>2 DEF Frames

\* What the server sends back to a declaration of body under id.
LEMMA ServerFrame ==
  ASSUME TypeOK, NEW id \in Nat, NEW body \in SUBSET Topics, ServerAnswers(id, body)
  PROVE  \E f \in Frame :
           /\ inbox' = Append(inbox, f) /\ f.id \in {id, NoID} /\ f.body = body
           /\ f.rejected \subseteq body \cap MayReject
           /\ verdict' = "accepted" =>
                /\ f.kind = "ack" /\ f.id = id /\ serverSubs' = body \ f.rejected
                /\ body \cap AlwaysRejected \subseteq f.rejected
<1>1. CASE ServerAck(id, body)
  <2>1. PICK r \in SUBSET (body \cap MayReject) :
          /\ body \cap AlwaysRejected \subseteq r
          /\ inbox' = Append(inbox,
               [kind |-> "ack", id |-> id, rejected |-> r, body |-> body])
          /\ serverSubs' = body \ r
    BY <1>1 DEF ServerAck
  <2> DEFINE f == [kind |-> "ack", id |-> id, rejected |-> r, body |-> body]
  <2>2. f \in Frame
    BY FrameType
  <2>3. f.kind = "ack" /\ f.id = id /\ f.rejected = r /\ f.body = body
    OBVIOUS
  <2> HIDE DEF f
  <2> QED
    BY <2>1, <2>2, <2>3 DEF f
<1>2. CASE ServerFault(id, body)
  <2>1. PICK w \in Faults :
          /\ verdict' = (CASE w = "rateLimit" -> "rateLimited"
                          [] w = "error"     -> "failed"
                          [] w = "errorNoID" -> "failedNoID")
          /\ inbox' = Append(inbox,
               [kind |-> IF w = "rateLimit" THEN "rateLimit" ELSE "error",
                id |-> IF w = "error" THEN id ELSE NoID,
                rejected |-> {}, body |-> body])
    BY <1>2 DEF ServerFault
  <2> DEFINE k == IF w = "rateLimit" THEN "rateLimit" ELSE "error"
             i == IF w = "error" THEN id ELSE NoID
             f == [kind |-> k, id |-> i, rejected |-> {}, body |-> body]
  <2>2. k \in {"ack", "rateLimit", "error"} /\ i \in Nat /\ i \in {id, NoID}
    BY DEF NoID
  <2>3. f \in Frame
    BY <2>2, FrameType
  <2>4. f.id = i /\ f.rejected = {} /\ f.body = body
    OBVIOUS
  <2>5. verdict' # "accepted"
    BY <2>1, ConstantsAssumption
  <2>6. inbox' = Append(inbox, f)
    BY <2>1
  <2> HIDE DEF f, k, i
  <2> QED
    BY <2>2, <2>3, <2>4, <2>5, <2>6
<1> QED
  BY <1>1, <1>2 DEF ServerAnswers

\* The frames after any step: none but what the server has just answered is new.
LEMMA FramesStep ==
  ASSUME TypeOK, [Next]_vars, ~DlWrite
  PROVE  Frames' \subseteq Frames
<1> USE DEF streamVars, runVars, dlVars, rlVars, clockVars, callVars, serverVars
<1>1. CASE ReadLoop
  <2>1. CASE RlAck
    BY <2>1, FramesTaken DEF RlAck, Reading
  <2>2. CASE RlRateLimit \/ RlError
    BY <2>2, FramesTaken DEF RlRateLimit, RlError, Reading
  <2>3. CASE RlResolve \/ RlExit \/ \E t \in Topics : RlReject(t)
    BY <2>3, FramesDropped DEF RlResolve, RlExit, RlReject
  <2> QED
    BY <1>1, <2>1, <2>2, <2>3 DEF ReadLoop
<1>2. CASE Run
  BY <1>2, FramesDropped DEF Run, ConnEnds, Dial, Resume, Stop
<1>3. ASSUME NEW c \in Calls, Caller(c) PROVE Frames' \subseteq Frames
  BY <1>3, FramesDropped DEF Caller, Begin, BeginClosed, RegisterWaiter, ReceiveReply,
     GiveUp, SeeDone, Return
<1>4. CASE DlSelect \/ DlCtxDone \/ DlDrain \/ DlSnapshot \/ DlRegister \/ DlWriteFails
  BY <1>4, FramesDropped DEF DlSelect, DlCtxDone, DlDrain, DlSnapshot, DlRegister,
     DlWriteFails
<1>5. CASE PingFails \/ RetryFires \/ Close \/ UNCHANGED vars
  BY <1>5, FramesDropped DEF PingFails, RetryFires, Close, vars
<1> QED
  BY <1>1, <1>2, <1>3, <1>4, <1>5 DEF Next, DeclareLoop
\* The frame a successful write brings: it answers the body in hand, under the id of
\* declareLoop, or under none.
LEMMA WriteFrame ==
  ASSUME TypeOK, DlWrite
  PROVE  \E f \in Frame :
           /\ Frames' \subseteq Frames \cup {f}
           /\ inbox' = Append(inbox, f) /\ f.body = dlBody
           /\ f.id = NoID \/ (dlBody # {} /\ f.id = dlID)
           /\ f.rejected \subseteq dlBody \cap MayReject
           /\ verdict' = "accepted" =>
                /\ f.kind = "ack" /\ (dlBody # {} => f.id = dlID)
                /\ serverSubs' = dlBody \ f.rejected
                /\ dlBody \cap AlwaysRejected \subseteq f.rejected
<1>1. PICK id \in Nat : /\ ServerAnswers(id, dlBody)
                        /\ id = IF dlBody = {} THEN NoID ELSE dlID
  BY DEF DlWrite, TypeOK, NoID
<1>2. dlBody \in SUBSET Topics
  BY DEF TypeOK
<1>3. PICK f \in Frame :
           /\ inbox' = Append(inbox, f) /\ f.id \in {id, NoID} /\ f.body = dlBody
           /\ f.rejected \subseteq dlBody \cap MayReject
           /\ verdict' = "accepted" =>
                /\ f.kind = "ack" /\ f.id = id /\ serverSubs' = dlBody \ f.rejected
                /\ dlBody \cap AlwaysRejected \subseteq f.rejected
  BY <1>1, <1>2, ServerFrame
<1>4. Frames' \subseteq Frames \cup {f}
  BY <1>3, FramesAdded DEF DlWrite, rlVars
<1> QED
  BY <1>1, <1>3, <1>4
-----------------------------------------------------------------------------
LEMMA NumberedInit == Init => Numbered /\ Rejectable
  BY DEF Init, Numbered, Rejectable, Frames, NoID

\* Ids are given out in order, and a declaration is registered under its own.
LEMMA NumberedStep ==
  ASSUME TypeOK, TypeOK', DlShape, Numbered, [Next]_vars
  PROVE  Numbered'
<1> USE DEF streamVars, runVars, dlVars, rlVars, clockVars, callVars, serverVars
<1>1. CASE UNCHANGED <<seq, dl, dlID, dlBody, lastDeclareID>> /\ ~DlWrite
  BY <1>1, FramesStep DEF Numbered
<1>2. CASE DlWrite
  <2>1. PICK f \in Frame : /\ Frames' \subseteq Frames \cup {f}
                           /\ f.id = NoID \/ f.id = dlID
    BY <1>2, WriteFrame
  <2>2. dl = "write" /\ dl' = "select" /\ seq' = seq
    BY <1>2 DEF DlWrite
  <2>3. f.id <= seq
    BY <2>1, <2>2 DEF Numbered, NoID, TypeOK
  <2> QED
    BY <2>1, <2>2, <2>3 DEF Numbered
<1>3. CASE DlDrain
  <2>1. ~DlWrite
    BY <1>3 DEF DlDrain, DlWrite
  <2>2. seq' = seq + 1 /\ dlID' = seq' /\ dl' = "snapshot" /\ seq \in Nat
    BY <1>3 DEF DlDrain, NextID, TypeOK
  <2>3. \A f \in Frames : f.id \in Nat
    BY FramesType DEF Frame
  <2>4. \A f \in Frames : f.id <= seq + 1 /\ f.id # seq + 1
    BY <2>2, <2>3 DEF Numbered
  <2>5. Frames' \subseteq Frames
    BY <2>1, FramesStep
  <2> QED
    BY <2>2, <2>4, <2>5 DEF Numbered
<1>4. CASE DlSelect \/ DlCtxDone \/ DlSnapshot \/ DlRegister \/ DlWriteFails \/ Resume
  <2>1. ~DlWrite
    BY <1>4 DEF DlSelect, DlCtxDone, DlSnapshot, DlRegister, DlWriteFails, DlWrite, Resume
  <2>2. Frames' \subseteq Frames /\ seq' = seq /\ dlID' = dlID
    BY <1>4, <2>1, FramesStep
    DEF DlSelect, DlCtxDone, DlSnapshot, DlRegister, DlWriteFails, Resume
  <2>3. /\ dl' \in {"snapshot", "pace", "write"} => dl \in {"snapshot", "pace", "write"}
        /\ dl' = "write" /\ dlBody' # {} => lastDeclareID' = dlID
    BY <1>4
    DEF DlSelect, DlCtxDone, DlSnapshot, DlRegister, DlWriteFails, Resume
  <2> QED
    BY <2>2, <2>3 DEF Numbered
<1>5. ASSUME NEW c \in Calls, Caller(c)
      PROVE  UNCHANGED <<seq, dl, dlID, dlBody, lastDeclareID>> /\ (dl # "write" \/ ~DlWrite)
  <2>1. UNCHANGED <<seq, dl, dlID, dlBody, lastDeclareID>>
    BY <1>5 DEF Caller, Begin, BeginClosed, RegisterWaiter, ReceiveReply, GiveUp, SeeDone,
       Return
  <2> QED
    BY <2>1 DEF DlWrite
<1>6. CASE ReadLoop \/ ConnEnds \/ Dial \/ Stop \/ PingFails \/ RetryFires \/ Close
           \/ UNCHANGED vars
  <2>1. UNCHANGED <<seq, dl, dlID, dlBody, lastDeclareID>>
    BY <1>6 DEF ReadLoop, RlAck, RlResolve, RlRateLimit, RlError, RlExit, RlReject, ConnEnds,
       Dial, Stop, PingFails, RetryFires, Close, vars
  <2> QED
    BY <1>1, <2>1 DEF DlWrite
<1>7. ASSUME NEW c \in Calls, Caller(c) PROVE Numbered'
  BY <1>1, <1>5, <1>7 DEF DlWrite
<1> QED
  BY <1>2, <1>3, <1>4, <1>6, <1>7 DEF Next, DeclareLoop, Run

LEMMA RejectableStep ==
  ASSUME TypeOK, NoLoops, Rejectable, [Next]_vars
  PROVE  Rejectable'
<1> USE DEF streamVars, runVars, dlVars, rlVars, clockVars, callVars, serverVars
<1>1. \A f \in Frames' : f.rejected \subseteq MayReject
  <2>1. CASE DlWrite
    BY <2>1, WriteFrame DEF Rejectable
  <2>2. CASE ~DlWrite
    BY <2>2, FramesStep DEF Rejectable
  <2> QED
    BY <2>1, <2>2
<1>2. CASE RlAck
  <2>1. Head(inbox) \in Frames
    BY <1>2, TakeFrame DEF RlAck, Reading, Frames
  <2> QED
    BY <1>1, <1>2, <2>1 DEF RlAck, Rejectable
<1>3. CASE (\E t \in Topics : RlReject(t)) \/ RlResolve
  BY <1>1, <1>3 DEF RlReject, RlResolve, Rejectable
<1>4. CASE RlRateLimit \/ RlError \/ RlExit
  BY <1>1, <1>4 DEF RlRateLimit, RlError, RlExit, Reading, Rejectable
<1>5. ASSUME NEW c \in Calls, Caller(c) PROVE Rejectable'
  BY <1>1, <1>5 DEF Caller, Begin, BeginClosed, RegisterWaiter, ReceiveReply, GiveUp,
     SeeDone, Return, Rejectable
<1>6. CASE DeclareLoop
  BY <1>1, <1>6 DEF DeclareLoop, DlSelect, DlCtxDone, DlDrain, DlSnapshot, DlRegister,
     DlWrite, DlWriteFails, Rejectable
<1>7. CASE Run
  BY <1>1, <1>7 DEF Run, ConnEnds, Dial, Resume, Stop, Rejectable, NoLoops
<1>8. CASE PingFails \/ RetryFires \/ Close \/ UNCHANGED vars
  BY <1>1, <1>8 DEF PingFails, RetryFires, Close, vars, Rejectable
<1> QED
  BY <1>2, <1>3, <1>4, <1>5, <1>6, <1>7, <1>8 DEF Next, ReadLoop
-----------------------------------------------------------------------------
\* A call that has begun keeps its request, and what others undo of it only grows.
LEMMA RequestKept ==
  ASSUME TypeOK, [Next]_vars, NEW c \in Calls, callPc[c] # "idle"
  PROVE  request'[c] = request[c] /\ undone[c] \subseteq undone'[c]
<1> USE DEF streamVars, runVars, dlVars, rlVars, clockVars, callVars, serverVars
<1>1. CASE \E d \in Calls, r \in Requests : Begin(d, r)
  BY <1>1 DEF Begin, TypeOK
<1>2. ASSUME NEW d \in Calls, Caller(d), ~\E r \in Requests : Begin(d, r)
      PROVE  UNCHANGED <<request, undone>>
  BY <1>2 DEF Caller, BeginClosed, RegisterWaiter, ReceiveReply, GiveUp, SeeDone, Return
<1>3. CASE DeclareLoop
  BY <1>3 DEF DeclareLoop, DlSelect, DlCtxDone, DlDrain, DlSnapshot, DlRegister, DlWrite,
     DlWriteFails
<1>4. CASE ReadLoop
  BY <1>4 DEF ReadLoop, RlAck, RlResolve, RlRateLimit, RlError, RlExit, RlReject
<1>5. CASE Run \/ PingFails \/ RetryFires \/ Close \/ UNCHANGED vars
  BY <1>5 DEF Run, ConnEnds, Dial, Resume, Stop, PingFails, RetryFires, Close, vars
<1> QED
  BY <1>1, <1>2, <1>3, <1>4, <1>5 DEF Next

\* A body that carries a call goes on carrying it.
LEMMA CoversKept ==
  ASSUME TypeOK, [Next]_vars, NEW c \in Calls, callPc[c] # "idle",
         NEW body, Covers(c, body)
  PROVE  Covers(c, body)'
  BY RequestKept DEF Covers

LEMMA WantsOrShuns == \A r \in Request : Wants(r) \cap Shuns(r) = {}
  BY DEF Request, Ops, Wants, Shuns

LEMMA CarriesInit == Init => SetCarries /\ BodyCarries /\ FramesCarry /\ AckCoversCall
  BY DEF Init, SetCarries, BodyCarries, FramesCarry, AckCoversCall, Covers, Wants, Shuns

\* The set carries the calls: each changes it in one step, and a later one that takes
\* that back is recorded.
LEMMA SetStep ==
  ASSUME TypeOK, Rejectable, SetCarries, [Next]_vars
  PROVE  SetCarries'
<1> USE DEF streamVars, runVars, dlVars, rlVars, clockVars, callVars, serverVars
<1>1. ASSUME NEW d \in Calls, NEW r \in Requests, Begin(d, r) PROVE SetCarries'
  <2>1. r \in Request
    BY ConstantsAssumption
  <2>2. Wants(r) \cap Shuns(r) = {}
    BY <2>1, WantsOrShuns
  <2>3. subs' = (subs \ Shuns(r)) \cup Wants(r)
    BY <1>1 DEF Begin
  <2>4. SUFFICES ASSUME NEW c \in Calls
                 PROVE  /\ callPc'[c] = "idle" =>
                             Wants(request'[c]) = {} /\ Shuns(request'[c]) = {}
                        /\ Wants(request'[c]) \ (undone'[c] \cup MayReject) \subseteq subs'
                        /\ (Shuns(request'[c]) \ undone'[c]) \cap subs' = {}
    BY DEF SetCarries, Covers
  <2>5. CASE c = d
    <3>1. request'[c] = r /\ callPc'[c] = "added"
      BY <1>1, <2>5 DEF Begin, TypeOK
    <3> QED
      BY <2>2, <2>3, <3>1
  <2>6. CASE c # d
    <3>1. request'[c] = request[c] /\ callPc'[c] = callPc[c]
      BY <1>1, <2>6 DEF Begin, TypeOK
    <3>2. CASE callPc[c] = "idle"
      BY <3>1, <3>2 DEF SetCarries
    <3>3. CASE callPc[c] # "idle"
      <4>1. undone'[c] = undone[c] \cup (Wants(request[c]) \cap Shuns(r))
                                   \cup (Shuns(request[c]) \cap Wants(r))
        BY <1>1, <3>3 DEF Begin
      <4>2. /\ Wants(request[c]) \ (undone[c] \cup MayReject) \subseteq subs
            /\ (Shuns(request[c]) \ undone[c]) \cap subs = {}
        BY DEF SetCarries, Covers
      <4> QED
        BY <2>3, <3>1, <3>3, <4>1, <4>2
    <3> QED
      BY <3>2, <3>3
  <2> QED
    BY <2>5, <2>6
<1>2. CASE \E t \in Topics : RlReject(t)
  <2>1. PICK t \in MayReject : subs' = subs \ {t}
    BY <1>2 DEF RlReject, Rejectable
  <2>2. UNCHANGED <<callPc, request, undone>>
    BY <1>2 DEF RlReject
  <2> QED
    BY <2>1, <2>2 DEF SetCarries, Covers
<1>3. CASE /\ UNCHANGED <<subs, request, undone>>
           /\ \A c \in Calls : callPc'[c] = "idle" => callPc[c] = "idle"
  BY <1>3 DEF SetCarries, Covers
<1>4. ASSUME NEW d \in Calls, Caller(d), ~\E r \in Requests : Begin(d, r)
      PROVE  /\ UNCHANGED <<subs, request, undone>>
             /\ \A c \in Calls : callPc'[c] = "idle" => callPc[c] = "idle"
  BY <1>4 DEF Caller, BeginClosed, RegisterWaiter, ReceiveReply, GiveUp, SeeDone, Return,
     TypeOK
<1>5. CASE DeclareLoop
  BY <1>3, <1>5 DEF DeclareLoop, DlSelect, DlCtxDone, DlDrain, DlSnapshot, DlRegister,
     DlWrite, DlWriteFails
<1>6. CASE RlAck \/ RlResolve \/ RlRateLimit \/ RlError \/ RlExit
  BY <1>3, <1>6 DEF RlAck, RlResolve, RlRateLimit, RlError, RlExit
<1>7. CASE Run \/ PingFails \/ RetryFires \/ Close \/ UNCHANGED vars
  BY <1>3, <1>7 DEF Run, ConnEnds, Dial, Resume, Stop, PingFails, RetryFires, Close, vars
<1> QED
  BY <1>1, <1>2, <1>3, <1>4, <1>5, <1>6, <1>7 DEF Next, ReadLoop
LEMMA HeldBegun ==
  ASSUME TypeOK, OneHome, NEW c \in Held
  PROVE  c \in Calls /\ callPc[c] # "idle"
<1>1. c \in Calls
  BY DEF TypeOK, Held, WaitersOf, Batch
<1> QED
  BY <1>1 DEF OneHome

\* The calls the declaration in hand will answer for.
Hand == dlWaiting \cup WaitersOf(waiterBatches)

LEMMA HandHeld == Hand \subseteq Held
  BY DEF Hand, Held

\* The body is taken from the set, which carries every call, and then stays.
LEMMA BodyStep ==
  ASSUME IInv, SetCarries, BodyCarries, [Next]_vars
  PROVE  BodyCarries'
<1> USE DEF streamVars, runVars, dlVars, rlVars, clockVars, callVars, serverVars
<1>0. TypeOK /\ OneHome
  BY DEF IInv
<1>1. ASSUME dl \in {"pace", "write"}, dlBody' = dlBody, Hand' \subseteq Hand
      PROVE  BodyCarries'
  <2>1. SUFFICES ASSUME NEW c \in Hand' PROVE Covers(c, dlBody)'
    BY DEF BodyCarries, Hand
  <2>2. PICK body : body = dlBody
    OBVIOUS
  <2>3. c \in Calls /\ callPc[c] # "idle" /\ Covers(c, body)
    BY <1>0, <1>1, <2>2, HandHeld, HeldBegun DEF BodyCarries, Hand
  <2>4. Covers(c, body)'
    BY <1>0, <2>3, CoversKept
  <2> QED
    BY <1>1, <2>2, <2>4 DEF Covers
<1>2. CASE dl' \notin {"pace", "write"}
  BY <1>2 DEF BodyCarries
<1>3. CASE DlSnapshot /\ conn
  <2>1. UNCHANGED <<dlWaiting, waiterBatches, request, undone>> /\ dlBody' = subs
    BY <1>3 DEF DlSnapshot
  <2>2. Hand' = Hand
    BY <2>1 DEF Hand, WaitersOf
  <2>3. \A c \in Hand : c \in Calls
    BY <1>0, HandHeld, HeldBegun
  <2> QED
    BY <2>1, <2>2, <2>3 DEF BodyCarries, Hand, SetCarries, Covers
<1>4. CASE DlRegister
  <2>1. Hand' \subseteq Hand
    BY <1>4, HeldTogether DEF DlRegister, Hand, CarriedOver, TakeBatches
  <2> QED
    BY <1>1, <1>4, <2>1 DEF DlRegister
<1>5. CASE /\ waiterBatches' \subseteq waiterBatches
           /\ UNCHANGED <<dl, dlBody, dlWaiting>>
  <2>1. Hand' \subseteq Hand
    BY <1>5 DEF Hand, WaitersOf
  <2> QED
    BY <1>1, <1>2, <1>5, <2>1
<1>6. CASE ReadLoop
  BY <1>5, <1>6 DEF ReadLoop, RlAck, RlResolve, RlRateLimit, RlError, RlExit, RlReject
<1>7. ASSUME NEW c \in Calls, Caller(c) PROVE BodyCarries'
  BY <1>5, <1>7 DEF Caller, Begin, BeginClosed, RegisterWaiter, ReceiveReply, GiveUp,
     SeeDone, Return
<1>8. CASE DlSelect \/ DlCtxDone \/ DlDrain \/ DlWrite \/ DlWriteFails
           \/ (DlSnapshot /\ ~conn)
  BY <1>2, <1>8 DEF DlSelect, DlCtxDone, DlDrain, DlWrite, DlWriteFails, DlSnapshot
<1>9. CASE Run
  <2>1. CASE ConnEnds \/ Dial \/ Stop
    BY <1>5, <2>1 DEF ConnEnds, Dial, Stop, TakeBatches
  <2>2. CASE Resume
    BY <1>2, <2>2 DEF Resume
  <2> QED
    BY <1>9, <2>1, <2>2 DEF Run
<1>10. CASE PingFails \/ RetryFires \/ Close \/ UNCHANGED vars
  BY <1>5, <1>10 DEF PingFails, RetryFires, Close, vars
<1> QED
  BY <1>3, <1>4, <1>6, <1>7, <1>8, <1>9, <1>10 DEF Next, DeclareLoop

\* Only a registration adds a batch.
LEMMA BatchesShrink ==
  ASSUME TypeOK, [Next]_vars, ~DlRegister
  PROVE  waiterBatches' \subseteq waiterBatches
<1> USE DEF streamVars, runVars, dlVars, rlVars, clockVars, callVars, serverVars
<1>1. ASSUME NEW c \in Calls, Caller(c) PROVE waiterBatches' \subseteq waiterBatches
  BY <1>1 DEF Caller, Begin, BeginClosed, RegisterWaiter, ReceiveReply, GiveUp,
     SeeDone, Return
<1>2. CASE DlSelect \/ DlCtxDone \/ DlDrain \/ DlSnapshot \/ DlWrite \/ DlWriteFails
  BY <1>2 DEF DlSelect, DlCtxDone, DlDrain, DlSnapshot, DlWrite, DlWriteFails, TakeBatches
<1>3. CASE ReadLoop
  BY <1>3 DEF ReadLoop, RlAck, RlResolve, RlRateLimit, RlError, RlExit, RlReject
<1>4. CASE Run \/ PingFails \/ RetryFires \/ Close \/ UNCHANGED vars
  BY <1>4 DEF Run, ConnEnds, Dial, Resume, Stop, TakeBatches, PingFails, RetryFires, Close,
     vars
<1> QED
  BY <1>1, <1>2, <1>3, <1>4 DEF Next, DeclareLoop

\* The answer to a declaration is about the body that was written, and a new batch bears
\* an id no answer has.
LEMMA FramesCarryStep ==
  ASSUME IInv, Numbered, BodyCarries, FramesCarry, [Next]_vars
  PROVE  FramesCarry'
<1>0. TypeOK /\ OneHome
  BY DEF IInv
<1>1. SUFFICES ASSUME NEW b \in waiterBatches', NEW f \in Frames', f.id = b.id,
                      NEW c \in b.waiters
               PROVE  Covers(c, f.body)'
  BY DEF FramesCarry
<1>2. ASSUME b \in waiterBatches PROVE c \in Calls /\ callPc[c] # "idle" /\ c \in Hand
  <2>1. c \in Hand
    BY <1>2 DEF Hand, WaitersOf
  <2> QED
    BY <1>0, <2>1, HandHeld, HeldBegun
<1>3. CASE b \in waiterBatches /\ f \in Frames
  <2>1. Covers(c, f.body)
    BY <1>1, <1>3 DEF FramesCarry
  <2> QED
    BY <1>0, <1>2, <1>3, <2>1, CoversKept
<1>4. CASE DlRegister
  <2>1. b.id = dlID /\ dl = "pace"
    BY <1>4 DEF DlRegister, BatchFor, TakeBatches
  <2>2. f \in Frames
    BY <1>0, <1>4, FramesStep DEF DlRegister, DlWrite
  <2> QED
    BY <1>1, <2>1, <2>2 DEF Numbered
<1>5. CASE DlWrite
  <2>1. b \in waiterBatches /\ dl = "write"
    BY <1>5 DEF DlWrite, streamVars
  <2>2. b.id # NoID
    BY <1>0, <2>1 DEF TypeOK, Batch
  <2>3. PICK g \in Frame : /\ Frames' \subseteq Frames \cup {g} /\ g.body = dlBody
                           /\ g.id = NoID \/ g.id = dlID
    BY <1>0, <1>5, WriteFrame
  <2>4. CASE f = g
    <3>1. Covers(c, dlBody)
      BY <1>2, <2>1 DEF BodyCarries, Hand
    <3>2. PICK body : body = dlBody
      OBVIOUS
    <3>3. Covers(c, body)
      BY <3>1, <3>2
    <3>4. Covers(c, body)'
      BY <1>0, <1>2, <2>1, <3>3, CoversKept
    <3>5. f.body = body
      BY <2>3, <2>4, <3>2
    <3> QED
      BY <3>4, <3>5
  <2> QED
    BY <1>3, <2>1, <2>3, <2>4
<1>6. CASE ~DlRegister /\ ~DlWrite
  BY <1>0, <1>3, <1>6, BatchesShrink, FramesStep
<1> QED
  BY <1>4, <1>5, <1>6
-----------------------------------------------------------------------------
\* AckCoversCall in terms of Covers.
LEMMA AckIsCover ==
  AckCoversCall <=> \A c \in Calls : reply[c] # <<>> /\ Head(reply[c]).err = "none" =>
                                       Covers(c, Head(reply[c]).body)
  BY DEF AckCoversCall, Covers

\* An answer that was given goes on being true.
LEMMA AckKept ==
  ASSUME TypeOK, OneHome, AckCoversCall, [Next]_vars, NEW c \in Calls,
         reply'[c] = reply[c], reply[c] # <<>>, Head(reply[c]).err = "none"
  PROVE  Covers(c, Head(reply[c]).body)'
<1>1. callPc[c] # "idle"
  BY DEF OneHome
<1>2. PICK body : body = Head(reply[c]).body
  OBVIOUS
<1>3. Covers(c, body)
  BY <1>2, AckIsCover
<1>4. Covers(c, body)'
  BY <1>1, <1>3, CoversKept
<1> QED
  BY <1>2, <1>4 DEF Covers

\* A step that gives waiters the answer to a body that carries them tells no lie.
LEMMA AckAnswer ==
  ASSUME TypeOK, OneHome, AckCoversCall, [Next]_vars, NEW ws \in SUBSET Held,
         NEW r \in Reply, Deliver(ws, r),
         r.err = "none" => \A c \in ws : Covers(c, r.body)
  PROVE  AckCoversCall'
<1>1. SUFFICES ASSUME NEW c \in Calls, reply'[c] # <<>>, Head(reply'[c]).err = "none"
               PROVE  /\ Wants(request'[c]) \ (undone'[c] \cup MayReject)
                           \subseteq Head(reply'[c]).body
                      /\ (Shuns(request'[c]) \ undone'[c]) \cap Head(reply'[c]).body = {}
  BY DEF AckCoversCall
<1>2. CASE c \in ws
  <2>1. reply'[c] = Append(<<>>, r)
    BY <1>2, DeliverTo DEF OneHome
  <2>2. Head(reply'[c]) = r
    BY <2>1
  <2>3. Covers(c, r.body) /\ callPc[c] # "idle"
    BY <1>1, <1>2, <2>2, HeldBegun
  <2>4. Covers(c, r.body)'
    BY <2>3, CoversKept
  <2> QED
    BY <2>2, <2>4 DEF Covers
<1>3. CASE c \notin ws
  <2>1. reply'[c] = reply[c]
    BY <1>3, DeliverTo
  <2>2. Covers(c, Head(reply[c]).body)'
    BY <1>1, <2>1, AckKept
  <2> QED
    BY <2>1, <2>2 DEF Covers
<1> QED
  BY <1>2, <1>3

LEMMA FailureTells == \A e \in Errors : e # "none" => Failure(e).err # "none"
  BY DEF Failure

LEMMA AckStep ==
  ASSUME IInv, SetCarries, BodyCarries, FramesCarry, AckCoversCall, [Next]_vars
  PROVE  AckCoversCall'
<1> USE DEF streamVars, runVars, dlVars, rlVars, clockVars, callVars, serverVars
<1>0. /\ TypeOK /\ OneHome /\ Hand \subseteq Held
      /\ pendingWaiters \subseteq Held /\ dlWaiting \subseteq Hand
      /\ WaitersOf(waiterBatches) \subseteq Hand
      /\ \A id : WaitersOf(Matching(id)) \subseteq WaitersOf(waiterBatches)
  BY DEF IInv, Held, Hand, WaitersOf, Matching
<1>1. CASE reply' = reply
  <2>1. SUFFICES ASSUME NEW c \in Calls, reply[c] # <<>>, Head(reply[c]).err = "none"
                 PROVE  Covers(c, Head(reply[c]).body)'
    BY <1>1 DEF AckCoversCall, Covers
  <2> QED
    BY <1>0, <1>1, <2>1, AckKept
<1>2. ASSUME NEW ws \in SUBSET Held, NEW e \in Errors \ {"none"}, Deliver(ws, Failure(e))
      PROVE  AckCoversCall'
  <2>1. Failure(e) \in Reply /\ Failure(e).err # "none"
    BY FailureType, FailureTells
  <2> QED
    BY <1>0, <1>2, <2>1, AckAnswer
<1>3. CASE DlWrite /\ dlBody = {}
  <2> DEFINE r == [err |-> "none", rejected |-> {}, body |-> {}]
  <2>1. r \in Reply /\ r.body = {}
    BY DEF Reply, Errors
  <2>2. Deliver(dlWaiting, r) /\ dl = "write"
    BY <1>3 DEF DlWrite
  <2>3. \A c \in dlWaiting : Covers(c, r.body)
    BY <1>3, <2>1, <2>2 DEF BodyCarries
  <2> HIDE DEF r
  <2>4. dlWaiting \in SUBSET Held
    BY <1>0
  <2> QED
    BY <1>0, <2>1, <2>2, <2>3, <2>4, AckAnswer
<1>4. CASE RlResolve
  <2> DEFINE ws == WaitersOf(Matching(rlFrame.id))
  <2>1. rlFrame \in Frames /\ rlFrame \in Frame
    BY <1>0 DEF Frames, TypeOK
  <2>2. Success(rlFrame) \in Reply /\ Success(rlFrame).body = rlFrame.body
    BY <2>1, SuccessType DEF Success
  <2>3. \A c \in ws : Covers(c, rlFrame.body)
    BY <2>1 DEF FramesCarry, Matching, WaitersOf
  <2>4. ws \in SUBSET Held /\ Deliver(ws, Success(rlFrame))
    BY <1>0, <1>4 DEF RlResolve
  <2> HIDE DEF ws
  <2> QED
    BY <1>0, <2>2, <2>3, <2>4, AckAnswer
<1>5. CASE RlError
  BY <1>0, <1>2, <1>5 DEF RlError, Errors
<1>6. CASE DlSnapshot /\ ~conn
  BY <1>0, <1>2, <1>6 DEF DlSnapshot, Errors
<1>7. CASE DlWriteFails
  BY <1>0, <1>2, <1>7 DEF DlWriteFails, Errors
<1>8. CASE ConnEnds
  BY <1>0, <1>2, <1>8 DEF ConnEnds, Errors
<1>9. ASSUME NEW c \in Calls, Caller(c) PROVE AckCoversCall'
  BY <1>1, <1>9 DEF Caller, Begin, BeginClosed, RegisterWaiter, ReceiveReply, GiveUp,
     SeeDone, Return
<1>10. CASE \/ DlSelect \/ DlCtxDone \/ DlDrain \/ (DlSnapshot /\ conn) \/ DlRegister
            \/ (DlWrite /\ dlBody # {})
  BY <1>1, <1>10 DEF DlSelect, DlCtxDone, DlDrain, DlSnapshot, DlRegister, DlWrite
<1>11. CASE RlAck \/ RlRateLimit \/ RlExit \/ \E t \in Topics : RlReject(t)
  BY <1>1, <1>11 DEF RlAck, RlRateLimit, RlExit, RlReject
<1>12. CASE Dial \/ Resume \/ Stop \/ PingFails \/ RetryFires \/ Close \/ UNCHANGED vars
  BY <1>1, <1>12 DEF Dial, Resume, Stop, PingFails, RetryFires, Close, vars
<1> QED
  BY <1>3, <1>4, <1>5, <1>6, <1>7, <1>8, <1>9, <1>10, <1>11, <1>12
  DEF Next, DeclareLoop, ReadLoop, Run
-----------------------------------------------------------------------------
\* What Tracked says once nothing is due: of the body in hand, and of the server.
BodyTracked ==
  dl \in {"pace", "write"} => subs \subseteq dlBody /\ dlBody \ MayReject \subseteq subs
ServerTracked ==
  dl = "select" /\ verdict = "accepted" =>
    /\ serverSubs \ MayReject \subseteq subs
    /\ serverSubs \cap AlwaysRejected = {}
    /\ \A t \in subs \ serverSubs : Announced(t)

LEMMA TrackedParts ==
  Tracked <=> (Live => conn /\ (~ToDeclare => BodyTracked /\ ServerTracked))
  BY DEF Tracked, BodyTracked, ServerTracked

LEMMA TrackedInit == Init => Tracked
  BY DEF Init, Tracked, Live, ToDeclare

\* Beginning and registering a call announces a declaration; other steps of callers
\* change nothing here.
LEMMA CallerTracked ==
  ASSUME TypeOK, Tracked, NEW c \in Calls, Caller(c)
  PROVE  Tracked'
<1> USE DEF streamVars, runVars, dlVars, rlVars, clockVars, callVars, serverVars
<1>1. Live' = Live /\ conn' = conn
  BY DEF Caller, Begin, BeginClosed, RegisterWaiter, ReceiveReply, GiveUp, SeeDone, Return,
     Live
<1>2. CASE (\E r \in Requests : Begin(c, r)) \/ RegisterWaiter(c)
  <2>1. ToDeclare'
    BY <1>2 DEF Begin, RegisterWaiter, ToDeclare, TypeOK
  <2> QED
    BY <1>1, <2>1 DEF Tracked
<1>3. ASSUME NEW res, Return(c, res), callPc[c] # "added" PROVE Tracked'
  <2>1. ToDeclare' <=> ToDeclare
    BY <1>3 DEF Return, ToDeclare, TypeOK
  <2>2. UNCHANGED <<dl, dlBody, subs, verdict, serverSubs, rlTodo, inbox, lastDeclareID>>
    BY <1>3 DEF Return
  <2> QED
    BY <1>1, <2>1, <2>2 DEF Tracked, Announced
<1>4. CASE BeginClosed(c) \/ ReceiveReply(c) \/ GiveUp(c) \/ SeeDone(c)
  BY <1>3, <1>4 DEF BeginClosed, ReceiveReply, GiveUp, SeeDone
<1> QED
  BY <1>2, <1>4 DEF Caller
\* The snapshot is the set; what the server makes of it is the body less what it rejects,
\* and the ack that says so bears the id readLoop compares with.
LEMMA DeclareLoopTracked ==
  ASSUME TypeOK, Numbered, Tracked, DeclareLoop
  PROVE  Tracked'
<1> USE DEF streamVars, runVars, dlVars, rlVars, clockVars, callVars, serverVars
<1>1. CASE DlSelect \/ DlDrain
  BY <1>1 DEF DlSelect, DlDrain, Tracked, Live, ToDeclare
<1>2. CASE DlCtxDone \/ DlWriteFails
  BY <1>2 DEF DlCtxDone, DlWriteFails, Tracked, Live
<1>3. CASE DlSnapshot
  BY <1>3 DEF DlSnapshot, Tracked, Live
<1>4. CASE DlRegister
  BY <1>4 DEF DlRegister, Tracked, Live, ToDeclare
<1>5. CASE DlWrite
  <2>1. /\ dl = "write" /\ dl' = "select"
        /\ UNCHANGED <<run, ctxDone, conn, declareCh, callPc, subs, lastDeclareID, rlTodo>>
    BY <1>5 DEF DlWrite
  <2>2. Live' = Live /\ (ToDeclare' <=> ToDeclare)
    BY <2>1 DEF Live, ToDeclare
  <2>3. PICK f \in Frame :
           /\ inbox' = Append(inbox, f)
           /\ f.rejected \subseteq dlBody \cap MayReject
           /\ verdict' = "accepted" =>
                /\ f.kind = "ack" /\ (dlBody # {} => f.id = dlID)
                /\ serverSubs' = dlBody \ f.rejected
                /\ dlBody \cap AlwaysRejected \subseteq f.rejected
    BY <1>5, WriteFrame
  <2>4. SUFFICES ASSUME Live, ~ToDeclare, verdict' = "accepted"
                 PROVE  /\ serverSubs' \ MayReject \subseteq subs
                        /\ serverSubs' \cap AlwaysRejected = {}
                        /\ \A t \in subs \ serverSubs' : Announced(t)'
    BY <2>1, <2>2 DEF Tracked
  <2>5. subs \subseteq dlBody /\ dlBody \ MayReject \subseteq subs
    BY <2>1, <2>4 DEF Tracked
  <2>6. ASSUME NEW t \in subs \ serverSubs' PROVE Announced(t)'
    <3>1. t \in f.rejected /\ f.kind = "ack"
      BY <2>3, <2>4, <2>5, <2>6
    <3>2. f.id = lastDeclareID
      BY <2>1, <2>3, <2>4, <2>5, <2>6 DEF Numbered
    <3>3. Len(inbox) + 1 \in DOMAIN inbox' /\ inbox'[Len(inbox) + 1] = f
      BY <1>5, <2>3, FramesAdded DEF DlWrite
    <3> QED
      BY <2>1, <3>1, <3>2, <3>3 DEF Announced
  <2> QED
    BY <2>3, <2>4, <2>5, <2>6
<1> QED
  BY <1>1, <1>2, <1>3, <1>4, <1>5 DEF DeclareLoop

\* readLoop takes the rejections of the last declaration out of the set, and nothing else.
LEMMA ReadLoopTracked ==
  ASSUME TypeOK, Rejectable, Tracked, ReadLoop
  PROVE  Tracked'
<1> USE DEF streamVars, runVars, dlVars, rlVars, clockVars, callVars, serverVars
<1>0. CASE /\ UNCHANGED <<run, ctxDone, conn, declareCh, callPc, dl, dlBody, subs, verdict,
                          serverSubs>>
           /\ \A t : Announced(t) => Announced(t)'
  BY <1>0 DEF Tracked, Live, ToDeclare
<1>1. CASE RlAck
  <2>1. /\ rl = "read" /\ inbox # <<>> /\ inbox' = Tail(inbox)
        /\ Head(inbox).id = lastDeclareID => rlTodo' = Head(inbox).rejected
        /\ lastDeclareID' = lastDeclareID
    BY <1>1 DEF RlAck, Reading
  <2>2. ASSUME NEW t, Announced(t) PROVE Announced(t)'
    <3>1. t \notin rlTodo
      BY <2>1 DEF Rejectable
    <3>2. PICK i \in DOMAIN inbox : /\ inbox[i].kind = "ack" /\ inbox[i].id = lastDeclareID
                                    /\ t \in inbox[i].rejected
      BY <2>2, <3>1 DEF Announced
    <3>3. CASE i = 1
      BY <2>1, <3>2, <3>3, TakeFrame DEF Announced
    <3>4. CASE i # 1
      BY <2>1, <3>2, <3>4, TakeFrame DEF Announced
    <3> QED
      BY <3>3, <3>4
  <2> QED
    BY <1>0, <1>1, <2>2 DEF RlAck
<1>2. CASE RlRateLimit \/ RlError
  <2>1. /\ inbox # <<>> /\ inbox' = Tail(inbox) /\ Head(inbox).kind # "ack"
        /\ UNCHANGED <<rlTodo, lastDeclareID>>
    BY <1>2 DEF RlRateLimit, RlError, Reading
  <2>2. ASSUME NEW t, Announced(t) PROVE Announced(t)'
    <3>1. CASE t \in rlTodo
      BY <2>1, <3>1 DEF Announced
    <3>2. CASE t \notin rlTodo
      <4>1. PICK i \in DOMAIN inbox : /\ inbox[i].kind = "ack"
                                      /\ inbox[i].id = lastDeclareID
                                      /\ t \in inbox[i].rejected
        BY <2>2, <3>2 DEF Announced
      <4>2. i # 1
        BY <2>1, <4>1, TakeFrame
      <4> QED
        BY <2>1, <4>1, <4>2, TakeFrame DEF Announced
    <3> QED
      BY <3>1, <3>2
  <2> QED
    BY <1>0, <1>2, <2>2 DEF RlRateLimit, RlError
<1>3. ASSUME NEW t \in Topics, RlReject(t) PROVE Tracked'
  <2>1. /\ t \in MayReject /\ subs' = subs \ {t} /\ rlTodo' = rlTodo \ {t}
        /\ UNCHANGED <<run, ctxDone, conn, declareCh, callPc, dl, dlBody, verdict,
                       serverSubs, inbox, lastDeclareID>>
    BY <1>3 DEF RlReject, Rejectable
  <2>2. \A u : u # t /\ Announced(u) => Announced(u)'
    BY <2>1 DEF Announced
  <2> QED
    BY <2>1, <2>2 DEF Tracked, Live, ToDeclare
<1>4. CASE RlResolve
  BY <1>0, <1>4 DEF RlResolve, Announced
<1>5. CASE RlExit
  BY <1>5 DEF RlExit, Tracked, Live
<1> QED
  BY <1>1, <1>2, <1>3, <1>4, <1>5 DEF ReadLoop

LEMMA RunTracked ==
  ASSUME TypeOK, Tracked, Run \/ PingFails \/ RetryFires \/ Close \/ UNCHANGED vars
  PROVE  Tracked'
<1> USE DEF streamVars, runVars, dlVars, rlVars, clockVars, callVars, serverVars
<1>1. CASE ConnEnds \/ Dial \/ Stop \/ PingFails \/ Close
  BY <1>1 DEF ConnEnds, Dial, Stop, PingFails, Close, Tracked, Live
<1>2. CASE Resume
  BY <1>2 DEF Resume, RequestDeclare, Tracked, Live, ToDeclare
<1>3. CASE RetryFires
  BY <1>3 DEF RetryFires, RequestDeclare, Tracked, Live, ToDeclare
<1>4. CASE UNCHANGED vars
  BY <1>4 DEF vars, Tracked, Live, ToDeclare, Announced
<1> QED
  BY <1>1, <1>2, <1>3, <1>4 DEF Run
-----------------------------------------------------------------------------
LEMMA SyncStep == IInv /\ IInv' /\ NoLoops /\ SyncInv /\ [Next]_vars => SyncInv'
<1> SUFFICES ASSUME IInv, IInv', NoLoops, SyncInv, [Next]_vars PROVE SyncInv'
  OBVIOUS
<1>1. Numbered' /\ Rejectable'
  BY NumberedStep, RejectableStep DEF IInv, SyncInv
<1>2. SetCarries' /\ BodyCarries' /\ FramesCarry' /\ AckCoversCall'
  BY SetStep, BodyStep, FramesCarryStep, AckStep DEF IInv, SyncInv
<1>3. Tracked'
  BY CallerTracked, DeclareLoopTracked, ReadLoopTracked, RunTracked
  DEF IInv, SyncInv, Next
<1> QED
  BY <1>1, <1>2, <1>3 DEF SyncInv

\* Ids, bodies, answers and the two sets hang together in every reachable state.
THEOREM SyncInvariance == Spec => [](IInv /\ SyncInv)
<1>1. Init => SyncInv
  BY NumberedInit, CarriesInit, TrackedInit DEF SyncInv
<1>2. Spec => []NoLoops
  BY LoopsInit, LoopsStep, PTL DEF Spec
<1> QED
  BY <1>1, <1>2, Invariance, SyncStep, PTL DEF Spec

\* Success is told of a declaration that carried the call, however coalescing, carried
\* waiters, late answers and other calls interleave.
THEOREM TruthfulAck == Spec => []AckCoversCall
<1>1. SyncInv => AckCoversCall
  BY DEF SyncInv
<1> QED
  BY <1>1, SyncInvariance, PTL

\* At rest after an accepted declaration nothing the stream counts on is missing at the
\* server, and what the server delivers beyond the set is what it may, but need not,
\* reject: the residue of an ack that went stale while readLoop was applying it.
AtRest ==
  Quiet /\ verdict = "accepted" =>
    subs \subseteq serverSubs /\ serverSubs \ subs \subseteq MayReject \ AlwaysRejected

LEMMA TrackedRests == Rejectable /\ Tracked => AtRest
<1> SUFFICES ASSUME Rejectable, Tracked, Quiet, verdict = "accepted"
             PROVE  subs \subseteq serverSubs
                    /\ serverSubs \ subs \subseteq MayReject \ AlwaysRejected
  BY DEF AtRest
<1>1. Live /\ ~ToDeclare /\ dl = "select" /\ rl = "read" /\ inbox = <<>>
  BY DEF Quiet, Live, ToDeclare
<1>2. \A t : ~Announced(t)
  BY <1>1 DEF Announced, Rejectable
<1> QED
  BY <1>1, <1>2 DEF Tracked

\* Whatever the server rejects, the exchange comes to rest with nothing missing.
THEOREM NothingMissing == Spec => []AtRest
<1>1. SyncInv => AtRest
  BY TrackedRests DEF SyncInv
<1> QED
  BY <1>1, SyncInvariance, PTL

\* When the server rejects a topic always or never, the exchange comes to rest with
\* exactly the set of the stream.  Without the assumption it does not: a topic that one
\* declaration had rejected and the next one accepted is lost to the set when readLoop is
\* still applying the first ack (run declare_stale_reject).
THEOREM RestsInSync ==
  ASSUME MayReject \subseteq AlwaysRejected
  PROVE  Spec => []InSync
<1>1. AtRest => InSync
  BY DEF AtRest, InSync
<1> QED
  BY <1>1, NothingMissing, PTL
-----------------------------------------------------------------------------
\* Some frame of these kinds, about the last declaration, is on its way.
OnItsWay(kinds) ==
  \E i \in DOMAIN inbox : inbox[i].kind \in kinds /\ inbox[i].id = lastDeclareID

\* A declaration that was refused for its rate will be repeated, and the batch of any
\* other has its answer in the inbox or in the hands of readLoop, unless the error that
\* answers it has no id.
Awaited ==
  /\ run # "serving" => waiterBatches = {}
  /\ dl = "write" /\ dlBody = {} => waiterBatches = {}
  /\ Live /\ dl = "select" /\ verdict = "rateLimited" =>
       declareCh \/ timers > 0 \/ \E i \in DOMAIN inbox : inbox[i].kind = "rateLimit"
  /\ Live /\ dl = "select" /\ verdict # "rateLimited" /\ waiterBatches # {} =>
       \/ rl = "ack" /\ rlFrame.id = lastDeclareID
       \/ OnItsWay({"ack", "error"})
       \/ verdict = "failedNoID"

LEMMA AwaitedInit == Init => Awaited
  BY DEF Init, Awaited

\* What a write brings back: an answer under the id it was given, a rate limit, or an
\* error without an id.
LEMMA WriteAnswered ==
  ASSUME TypeOK, DlWrite
  PROVE  \E f \in Frame :
           /\ inbox' = Append(inbox, f)
           /\ verdict' = "rateLimited" => f.kind = "rateLimit"
           /\ verdict' # "rateLimited" =>
                \/ f.kind \in {"ack", "error"} /\ (dlBody # {} => f.id = dlID)
                \/ verdict' = "failedNoID"
<1>1. PICK id \in Nat : /\ ServerAnswers(id, dlBody) /\ dlBody \in SUBSET Topics
                        /\ id = IF dlBody = {} THEN NoID ELSE dlID
  BY DEF DlWrite, TypeOK, NoID
<1>2. CASE ServerAck(id, dlBody)
  <2>1. PICK r \in SUBSET (dlBody \cap MayReject) :
          /\ inbox' = Append(inbox,
               [kind |-> "ack", id |-> id, rejected |-> r, body |-> dlBody])
          /\ verdict' = "accepted"
    BY <1>2 DEF ServerAck
  <2> DEFINE f == [kind |-> "ack", id |-> id, rejected |-> r, body |-> dlBody]
  <2>2. f \in Frame
    BY <1>1, FrameType
  <2>3. f.kind = "ack" /\ f.id = id
    OBVIOUS
  <2> HIDE DEF f
  <2> QED
    BY <1>1, <2>1, <2>2, <2>3 DEF f
<1>3. CASE ServerFault(id, dlBody)
  <2>1. PICK w \in Faults :
          /\ verdict' = (CASE w = "rateLimit" -> "rateLimited"
                          [] w = "error"     -> "failed"
                          [] w = "errorNoID" -> "failedNoID")
          /\ inbox' = Append(inbox,
               [kind |-> IF w = "rateLimit" THEN "rateLimit" ELSE "error",
                id |-> IF w = "error" THEN id ELSE NoID,
                rejected |-> {}, body |-> dlBody])
    BY <1>3 DEF ServerFault
  <2> DEFINE k == IF w = "rateLimit" THEN "rateLimit" ELSE "error"
             i == IF w = "error" THEN id ELSE NoID
             f == [kind |-> k, id |-> i, rejected |-> {}, body |-> dlBody]
  <2>2. k \in {"ack", "rateLimit", "error"} /\ i \in Nat
    BY DEF NoID
  <2>3. f \in Frame
    BY <1>1, <2>2, FrameType
  <2>4. f.kind = k /\ f.id = i /\ inbox' = Append(inbox, f)
    BY <2>1
  <2>5. CASE w = "rateLimit"
    <3>1. k = "rateLimit" /\ verdict' = "rateLimited"
      BY <2>1, <2>5
    <3> HIDE DEF f, k, i
    <3> QED
      BY <2>3, <2>4, <3>1
  <2>6. CASE w = "error"
    <3>1. k = "error" /\ i = id /\ verdict' = "failed"
      BY <2>1, <2>6
    <3> HIDE DEF f, k, i
    <3> QED
      BY <1>1, <2>3, <2>4, <3>1
  <2>7. CASE w = "errorNoID"
    <3>1. verdict' = "failedNoID"
      BY <2>1, <2>7
    <3> HIDE DEF f, k, i
    <3> QED
      BY <2>3, <2>4, <3>1
  <2> QED
    BY <2>5, <2>6, <2>7, ConstantsAssumption
<1> QED
  BY <1>1, <1>2, <1>3 DEF ServerAnswers
LEMMA DeclareLoopAwaited ==
  ASSUME TypeOK, DlShape, Numbered, Tracked, Awaited, DeclareLoop
  PROVE  Awaited'
<1> USE DEF streamVars, runVars, dlVars, rlVars, clockVars, callVars, serverVars
<1>0. run = "serving" /\ run' = run
  BY DEF DeclareLoop, DlSelect, DlCtxDone, DlDrain, DlSnapshot, DlRegister, DlWrite,
     DlWriteFails, DlShape
<1>1. CASE DlSelect \/ DlDrain \/ (DlSnapshot /\ conn)
  BY <1>0, <1>1 DEF DlSelect, DlDrain, DlSnapshot, Awaited
<1>2. CASE DlSnapshot /\ ~conn
  <2>1. ~Live' /\ dl' = "select"
    BY <1>2 DEF DlSnapshot, Tracked, Live
  <2> QED
    BY <1>0, <2>1 DEF Awaited
<1>3. CASE DlRegister
  BY <1>0, <1>3 DEF DlRegister, TakeBatches, Awaited
<1>4. CASE DlWrite
  <2>1. /\ dl = "write" /\ dl' = "select"
        /\ UNCHANGED <<lastDeclareID, waiterBatches, declareCh, timers>>
    BY <1>4 DEF DlWrite
  <2>2. PICK f \in Frame :
           /\ inbox' = Append(inbox, f)
           /\ verdict' = "rateLimited" => f.kind = "rateLimit"
           /\ verdict' # "rateLimited" =>
                \/ f.kind \in {"ack", "error"} /\ (dlBody # {} => f.id = dlID)
                \/ verdict' = "failedNoID"
    BY <1>4, WriteAnswered
  <2>3. Len(inbox) + 1 \in DOMAIN inbox' /\ inbox'[Len(inbox) + 1] = f
    BY <1>4, <2>2, FramesAdded DEF DlWrite
  <2>4. waiterBatches # {} => dlBody # {} /\ lastDeclareID = dlID
    BY <2>1 DEF Awaited, Numbered
  <2>5. verdict' = "rateLimited" => \E i \in DOMAIN inbox' : inbox'[i].kind = "rateLimit"
    BY <2>2, <2>3
  <2>6. verdict' # "rateLimited" /\ waiterBatches # {} =>
          OnItsWay({"ack", "error"})' \/ (verdict' = "failedNoID")
    BY <2>1, <2>2, <2>3, <2>4 DEF OnItsWay
  <2> QED
    BY <1>0, <2>1, <2>5, <2>6 DEF Awaited
<1>5. CASE DlCtxDone \/ DlWriteFails
  <2>1. ~Live' /\ dl' = "exit"
    BY <1>5 DEF DlCtxDone, DlWriteFails, Live
  <2> QED
    BY <1>0, <2>1 DEF Awaited
<1> QED
  BY <1>1, <1>2, <1>3, <1>4, <1>5 DEF DeclareLoop

\* readLoop brings every frame to its end: a rate limit to a timer, an ack or an error to
\* the batch that bears its id.
LEMMA ReadLoopAwaited ==
  ASSUME TypeOK, BatchIsLatest, NoLoops, Awaited, ReadLoop
  PROVE  Awaited'
<1> USE DEF streamVars, runVars, dlVars, rlVars, clockVars, callVars, serverVars
<1>0. /\ run = "serving" /\ waiterBatches' \subseteq waiterBatches
      /\ UNCHANGED <<run, dl, dlBody, verdict, lastDeclareID, declareCh>>
  BY DEF ReadLoop, RlAck, RlResolve, RlRateLimit, RlError, RlExit, RlReject, Reading, NoLoops
<1>1. CASE RlAck
  <2>1. /\ inbox # <<>> /\ inbox' = Tail(inbox) /\ rlFrame' = Head(inbox) /\ rl' = "ack"
        /\ rl = "read" /\ Head(inbox).kind = "ack"
        /\ UNCHANGED <<ctxDone, waiterBatches, timers>>
    BY <1>1 DEF RlAck, Reading
  <2>2. OnItsWay({"ack", "error"}) =>
          (rl' = "ack" /\ rlFrame'.id = lastDeclareID') \/ OnItsWay({"ack", "error"})'
    <3>1. SUFFICES ASSUME NEW i \in DOMAIN inbox, inbox[i].kind \in {"ack", "error"},
                          inbox[i].id = lastDeclareID
                   PROVE  rlFrame'.id = lastDeclareID \/ OnItsWay({"ack", "error"})'
      BY <1>0, <2>1 DEF OnItsWay
    <3>2. CASE i = 1
      BY <2>1, <3>1, <3>2, TakeFrame
    <3>3. CASE i # 1
      BY <1>0, <2>1, <3>1, <3>3, TakeFrame DEF OnItsWay
    <3> QED
      BY <3>2, <3>3
  <2>3. (\E i \in DOMAIN inbox : inbox[i].kind = "rateLimit") =>
          \E i \in DOMAIN inbox' : inbox'[i].kind = "rateLimit"
    BY <2>1, TakeFrame
  <2> QED
    BY <1>0, <2>1, <2>2, <2>3 DEF Awaited, Live
<1>2. CASE RlRateLimit
  <2>1. /\ inbox # <<>> /\ inbox' = Tail(inbox) /\ Head(inbox).kind = "rateLimit"
        /\ timers' > 0 /\ UNCHANGED <<ctxDone, waiterBatches, rl, rlFrame>>
    BY <1>2 DEF RlRateLimit, RetryLater, Reading, TypeOK
  <2>2. OnItsWay({"ack", "error"}) => OnItsWay({"ack", "error"})'
    <3>1. SUFFICES ASSUME NEW i \in DOMAIN inbox, inbox[i].kind \in {"ack", "error"},
                          inbox[i].id = lastDeclareID
                   PROVE  OnItsWay({"ack", "error"})'
      BY DEF OnItsWay
    <3>2. i # 1
      BY <2>1, <3>1, TakeFrame
    <3> QED
      BY <1>0, <2>1, <3>1, <3>2, TakeFrame DEF OnItsWay
  <2> QED
    BY <1>0, <2>1, <2>2 DEF Awaited, Live
<1>3. CASE RlError
  <2>1. /\ inbox # <<>> /\ inbox' = Tail(inbox) /\ Head(inbox).kind = "error"
        /\ waiterBatches' = waiterBatches \ Matching(Head(inbox).id)
        /\ UNCHANGED <<ctxDone, timers, rl, rlFrame>>
    BY <1>3 DEF RlError, Reading
  <2>2. OnItsWay({"ack", "error"}) =>
          Head(inbox).id = lastDeclareID \/ OnItsWay({"ack", "error"})'
    <3>1. SUFFICES ASSUME NEW i \in DOMAIN inbox, inbox[i].kind \in {"ack", "error"},
                          inbox[i].id = lastDeclareID, Head(inbox).id # lastDeclareID
                   PROVE  OnItsWay({"ack", "error"})'
      BY DEF OnItsWay
    <3>2. i # 1
      BY <2>1, <3>1, TakeFrame
    <3> QED
      BY <1>0, <2>1, <3>1, <3>2, TakeFrame DEF OnItsWay
  <2>3. Head(inbox).id = lastDeclareID => waiterBatches' = {}
    BY <2>1 DEF Matching, BatchIsLatest, TypeOK, Batch
  <2>4. (\E i \in DOMAIN inbox : inbox[i].kind = "rateLimit") =>
          \E i \in DOMAIN inbox' : inbox'[i].kind = "rateLimit"
    BY <2>1, TakeFrame
  <2>5. waiterBatches' # {} => waiterBatches # {}
    BY <1>0
  <2> QED
    BY <1>0, <2>1, <2>2, <2>3, <2>4, <2>5 DEF Awaited, Live
<1>4. CASE RlResolve
  <2>1. /\ waiterBatches' = waiterBatches \ Matching(rlFrame.id)
        /\ UNCHANGED <<ctxDone, timers, inbox, rlFrame>>
    BY <1>4 DEF RlResolve
  <2>2. rlFrame.id = lastDeclareID => waiterBatches' = {}
    BY <2>1 DEF Matching, BatchIsLatest, TypeOK, Batch
  <2>3. OnItsWay({"ack", "error"}) => OnItsWay({"ack", "error"})'
    BY <1>0, <2>1 DEF OnItsWay
  <2>4. waiterBatches' # {} => waiterBatches # {}
    BY <1>0
  <2> QED
    BY <1>0, <2>1, <2>2, <2>3, <2>4 DEF Awaited, Live
<1>5. CASE \E t \in Topics : RlReject(t)
  BY <1>0, <1>5 DEF RlReject, Awaited, Live, OnItsWay
<1>6. CASE RlExit
  BY <1>0, <1>6 DEF RlExit, Awaited, Live
<1> QED
  BY <1>1, <1>2, <1>3, <1>4, <1>5, <1>6 DEF ReadLoop

LEMMA OtherAwaited ==
  ASSUME TypeOK, NoLoops, Awaited,
         \/ \E c \in Calls : Caller(c)
         \/ Run \/ PingFails \/ RetryFires \/ Close \/ UNCHANGED vars
  PROVE  Awaited'
<1> USE DEF streamVars, runVars, dlVars, rlVars, clockVars, callVars, serverVars
<1>1. ASSUME NEW c \in Calls, Caller(c) PROVE Awaited'
  <2>1. /\ UNCHANGED <<run, ctxDone, dl, dlBody, verdict, waiterBatches, timers, inbox, rl,
                       rlFrame, lastDeclareID>>
        /\ declareCh => declareCh'
    BY <1>1 DEF Caller, Begin, BeginClosed, RegisterWaiter, ReceiveReply, GiveUp, SeeDone,
       Return
  <2> QED
    BY <2>1 DEF Awaited, Live, OnItsWay
<1>2. CASE ConnEnds \/ Dial \/ Stop
  <2>1. waiterBatches' = {} /\ ~Live'
    BY <1>2 DEF ConnEnds, TakeBatches, Dial, Stop, Awaited, Live
  <2> QED
    BY <2>1 DEF Awaited
<1>3. CASE Resume
  BY <1>3 DEF Resume, RequestDeclare, Awaited
<1>4. CASE RetryFires
  BY <1>4 DEF RetryFires, RequestDeclare, Awaited, Live, OnItsWay
<1>5. CASE PingFails \/ Close
  BY <1>5 DEF PingFails, Close, Awaited, Live
<1>6. CASE UNCHANGED vars
  BY <1>6 DEF vars, Awaited, Live, OnItsWay
<1> QED
  BY <1>1, <1>2, <1>3, <1>4, <1>5, <1>6 DEF Run

\* At rest no waiter is held and no declaration refused for its rate is left: the safety
\* half of "every call returns", whatever answers the server gives in whatever order.
THEOREM AnsweredAtRest == Spec => []RestIsAnswered
<1>1. IInv /\ NoLoops /\ SyncInv /\ Awaited /\ [Next]_vars => Awaited'
  <2> SUFFICES ASSUME IInv, NoLoops, SyncInv, Awaited, [Next]_vars PROVE Awaited'
    OBVIOUS
  <2>1. DeclareLoop => Awaited'
    BY DeclareLoopAwaited DEF IInv, SyncInv
  <2>2. ReadLoop => Awaited'
    BY ReadLoopAwaited DEF IInv
  <2>3. ~DeclareLoop /\ ~ReadLoop => Awaited'
    BY OtherAwaited DEF IInv, Next
  <2> QED
    BY <2>1, <2>2, <2>3
<1>2. IInv /\ SyncInv /\ Awaited => RestIsAnswered
  <2> SUFFICES ASSUME IInv, SyncInv, Awaited, Quiet
               PROVE  /\ verdict # "rateLimited"
                      /\ Held # {} => verdict = "failedNoID"
    BY DEF RestIsAnswered
  <2>1. Live /\ dl = "select" /\ ~declareCh /\ timers = 0 /\ inbox = <<>> /\ rl = "read"
    BY DEF Quiet, Live
  <2>2. verdict # "rateLimited"
    BY <2>1 DEF Awaited
  <2>3. pendingWaiters = {} /\ dlWaiting = {}
    BY <2>1 DEF IInv, SignalMatchesWaiters, DlShape, Live
  <2>4. Held # {} => waiterBatches # {}
    BY <2>3 DEF Held, WaitersOf
  <2> QED
    BY <2>1, <2>2, <2>4 DEF Awaited, OnItsWay
<1>3. Spec => []NoLoops
  BY LoopsInit, LoopsStep, PTL DEF Spec
<1> QED
  BY <1>1, <1>2, <1>3, AwaitedInit, SyncInvariance, PTL DEF Spec
=============================================================================
