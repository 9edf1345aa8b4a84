------------------------ MODULE EventDeliveryProofs ------------------------
(***************************************************************************)
(* Proofs about the options and the frames of a stream, for every setting   *)
(* and every frame, and about the delivery of the events in them.           *)
(***************************************************************************)
EXTENDS EventDelivery, TLAPS

\* What New makes of each setting.
LEMMA SettingIs ==
  ASSUME NEW cfg, NEW f \in Settings
  PROVE  Normal(cfg)[f] =
           IF f = "coalesceDelay" THEN cfg[f]
           ELSE IF f # "backoffMax" THEN AtLeastOne(cfg, f)
           ELSE IF cfg[f] < AtLeastOne(cfg, "backoffMin") THEN AtLeastOne(cfg, "backoffMin")
           ELSE cfg[f]
<1>1. CASE f \in Buffers \cup Intervals \cup {"backoffMin"}
  BY <1>1, Zenon DEF Normal, Settings, Buffers, Intervals
<1>2. CASE f = "backoffMax"
  BY <1>2, Zenon DEF Normal, Settings, Buffers, Intervals
<1>3. CASE f = "coalesceDelay"
  BY <1>3, Zenon DEF Normal, Settings, Buffers, Intervals
<1> QED
  BY <1>1, <1>2, <1>3 DEF Settings

\* Whatever the options say, New runs the stream with buffers that hold an item, tickers
\* of a positive period and a backoff that has a range.
THEOREM OptionsAreUsable == \A cfg \in Configs : Usable(Normal(cfg))
<1> SUFFICES ASSUME NEW cfg \in Configs PROVE Usable(Normal(cfg))
  OBVIOUS
<1>1. ASSUME NEW f \in Settings PROVE AtLeastOne(cfg, f) \in Nat \ {0}
  BY DefaultsAssumption DEF AtLeastOne, Configs
<1>2. Settings \ {"coalesceDelay"} = Buffers \cup Intervals \cup {"backoffMin", "backoffMax"}
  BY DEF Settings, Buffers, Intervals
<1>3. "backoffMin" \in Settings /\ "backoffMax" \in Settings
  BY DEF Settings
<1>4. Normal(cfg)["backoffMin"] = AtLeastOne(cfg, "backoffMin")
  BY <1>3, SettingIs
<1>5. Normal(cfg)["backoffMax"] = IF cfg["backoffMax"] < AtLeastOne(cfg, "backoffMin")
                                  THEN AtLeastOne(cfg, "backoffMin") ELSE cfg["backoffMax"]
  BY <1>3, SettingIs
<1>6. cfg["backoffMax"] \in Int
  BY <1>3 DEF Configs
<1>7. Normal(cfg)["backoffMax"] \in Nat \ {0}
      /\ Normal(cfg)["backoffMin"] <= Normal(cfg)["backoffMax"]
  BY <1>1, <1>3, <1>4, <1>5, <1>6
<1>8. ASSUME NEW f \in Settings \ {"coalesceDelay"} PROVE Normal(cfg)[f] \in Nat \ {0}
  BY <1>1, <1>7, SettingIs
<1> QED
  BY <1>7, <1>8 DEF Usable

LEMMA Capacity == \A ch \in Channels : Cap[ch] \in Nat \ {0}
<1>1. Normal(Options)["tradeBuffer"] \in Nat \ {0} /\ Normal(Options)["orderBuffer"] \in Nat \ {0}
  BY ConstantsAssumption, OptionsAreUsable DEF Usable, Settings, Buffers
<1> SUFFICES ASSUME NEW ch \in Channels PROVE Cap[ch] \in Nat \ {0}
  OBVIOUS
<1>2. CASE ch \in {"trades", "orderbooks"}
  <2>1. Cap[ch] = Normal(Options)["tradeBuffer"]
    BY <1>2, Zenon DEF Cap, Channels, Lossy
  <2> QED
    BY <1>1, <2>1
<1>3. CASE ch = "orders"
  <2>1. Cap[ch] = Normal(Options)["orderBuffer"]
    BY <1>3, Zenon DEF Cap, Channels, Lossy
  <2> QED
    BY <1>1, <2>1
<1>4. CASE ch \in {"errs", "reconnects"}
  <2>1. Cap[ch] = DefaultDiagBuffer
    BY <1>4, Zenon DEF Cap, Channels, Lossy
  <2> QED
    BY <2>1, DefaultsAssumption
<1> QED
  BY <1>2, <1>3, <1>4 DEF Channels, Lossy
-----------------------------------------------------------------------------
(***************************************************************************)
(* Frames.                                                                 *)
(***************************************************************************)
\* The types of the topics exclude one another.
LEMMA TypesApart ==
  /\ PersonalOrder \notin TradeTypes /\ PersonalOrder \notin OrderbookTypes
  /\ TradeTypes \cap OrderbookTypes = {}
  BY DEF PersonalOrder, TradeTypes, OrderbookTypes

\* A message goes to the channel of its topic, or is reported.
LEMMA DispatchIs ==
  ASSUME NEW raw
  PROVE  \/ Dispatch(raw) = "trades" /\ IsTrade(raw)
         \/ Dispatch(raw) = "orderbooks" /\ IsOrderbook(raw)
         \/ Dispatch(raw) = "orders" /\ IsOrder(raw)
         \/ Dispatch(raw) = "errs"
<1>1. CASE TopicType(raw.topic) \in TradeTypes
  <2>1. Dispatch(raw) = EventOrError("trades", IsTrade(raw))
    BY <1>1, TypesApart, Zenon DEF Dispatch
  <2> QED
    BY <2>1 DEF EventOrError
<1>2. CASE TopicType(raw.topic) \in OrderbookTypes
  <2>1. Dispatch(raw) = EventOrError("orderbooks", IsOrderbook(raw))
    BY <1>2, TypesApart, Zenon DEF Dispatch
  <2> QED
    BY <2>1 DEF EventOrError
<1>3. CASE TopicType(raw.topic) = PersonalOrder
  <2>1. Dispatch(raw) = EventOrError("orders", IsOrder(raw))
    BY <1>3, TypesApart, Zenon DEF Dispatch
  <2> QED
    BY <2>1 DEF EventOrError
<1>4. CASE ~(TopicType(raw.topic) \in TradeTypes \cup OrderbookTypes \cup {PersonalOrder})
  BY <1>4, Zenon DEF Dispatch, Unhandled
<1> QED
  BY <1>1, <1>2, <1>3, <1>4

\* Which of the cases of decodeFrame and readLoop a text frame is.
LEMMA KindIs ==
  ASSUME NEW raw
  PROVE  /\ ~raw.json => FrameKind(raw) = "undecodable"
         /\ raw.json /\ raw.type = "message" =>
              FrameKind(raw) = IF WellFormed(raw) THEN "message" ELSE "undecodable"
         /\ raw.json /\ raw.type # "message" =>
              FrameKind(raw) \in {"subscriptions", "error", "pong", "unknown"}
<1>1. CASE ~raw.json
  BY <1>1, Zenon DEF FrameKind
<1>2. CASE raw.json /\ raw.type = "message"
  BY <1>2, Zenon DEF FrameKind
<1>3. CASE raw.json /\ raw.type # "message"
  <2>1. CASE raw.type \in {"subscriptions", "error", "pong"}
    <3>1. FrameKind(raw) = raw.type
      BY <1>3, <2>1, Zenon DEF FrameKind
    <3> QED
      BY <1>3, <2>1, <3>1
  <2>2. CASE raw.type \notin {"subscriptions", "error", "pong"}
    <3>1. FrameKind(raw) = "unknown"
      BY <1>3, <2>2, Zenon DEF FrameKind
    <3> QED
      BY <1>3, <3>1
  <2> QED
    BY <2>1, <2>2
<1> QED
  BY <1>1, <1>2, <1>3

LEMMA GoesIs ==
  ASSUME NEW raw, raw.text
  PROVE  /\ FrameKind(raw) = "undecodable" => Goes(raw) = "errs"
         /\ FrameKind(raw) = "message" => Goes(raw) = Dispatch(raw)
         /\ FrameKind(raw) \in {"subscriptions", "error", "pong", "unknown"}
              => Goes(raw) \in {"errs", "nowhere"}
<1>1. CASE FrameKind(raw) = "undecodable"
  BY <1>1, Zenon DEF Goes
<1>2. CASE FrameKind(raw) = "message"
  BY <1>2, Zenon DEF Goes
<1>3. CASE FrameKind(raw) \in {"pong", "unknown"}
  BY <1>3, Zenon DEF Goes
<1>4. CASE FrameKind(raw) = "subscriptions"
  <2>1. Goes(raw) = IF raw.rejected = {} THEN "nowhere" ELSE "errs"
    BY <1>4, Zenon DEF Goes
  <2> QED
    BY <1>4, <2>1
<1>5. CASE FrameKind(raw) = "error"
  <2>1. Goes(raw) = IF ErrorCode(raw) = "server-shutdown" THEN "nowhere" ELSE "errs"
    BY <1>5, Zenon DEF Goes
  <2> QED
    BY <1>5, <2>1
<1> QED
  BY <1>1, <1>2, <1>3, <1>4, <1>5

\* A frame makes an event only if the server has sent what the event is about: what is
\* missing, null or zero where that means nothing is reported as an error.
THEOREM EventsAreWhole ==
  ASSUME NEW raw, Goes(raw) \notin {"errs", "nowhere"}
  PROVE  Complete(Goes(raw), raw.data)
<1>1. raw.text
  <2> SUFFICES ASSUME ~raw.text PROVE FALSE
    OBVIOUS
  <2>1. Goes(raw) = "nowhere"
    BY Zenon DEF Goes
  <2> QED
    BY <2>1
<1>2. FrameKind(raw) = "message" /\ WellFormed(raw)
  BY <1>1, KindIs, GoesIs
<1>3. Goes(raw) = Dispatch(raw) /\ raw.data # NoData
  BY <1>1, <1>2, GoesIs DEF WellFormed
<1>4. DataOf(raw) = raw.data
  BY <1>3 DEF DataOf
<1> QED
  BY <1>3, <1>4, DispatchIs DEF Complete, IsTrade, IsOrder, TradeIsWhole, OrderIsWhole

\* No text frame that is garbled, or is a message of whatever topic, is passed over in
\* silence: it is an event or an error.
THEOREM NoMessageIsIgnored ==
  ASSUME NEW raw, raw.text, ~raw.json \/ raw.type = "message"
  PROVE  Goes(raw) \in {"trades", "orderbooks", "orders", "errs"}
<1>1. FrameKind(raw) \in {"undecodable", "message"}
  BY KindIs
<1> QED
  BY <1>1, GoesIs, DispatchIs

\* An order never goes to a channel that may lose it, but to "orders" or "errs".
LEMMA OrdersGo == \A f \in OrdersRead : f.to \in {"orders", "errs"}
<1> SUFFICES ASSUME NEW raw \in OrderFrames PROVE Goes(raw) \in {"orders", "errs"}
  BY DEF OrdersRead, Reading
<1>1. /\ raw.text /\ (raw.json => raw.type = "message")
      /\ TopicType(raw.topic) \notin TradeTypes \cup OrderbookTypes
  BY ConstantsAssumption
<1>2. CASE ~raw.json
  BY <1>1, <1>2, KindIs, GoesIs
<1>3. CASE raw.json
  <2>1. Dispatch(raw) \in {"orders", "errs"}
    <3>1. CASE TopicType(raw.topic) = PersonalOrder
      <4>1. Dispatch(raw) = EventOrError("orders", IsOrder(raw))
        BY <3>1, TypesApart, Zenon DEF Dispatch
      <4> QED
        BY <4>1 DEF EventOrError
    <3>2. CASE TopicType(raw.topic) # PersonalOrder
      BY <1>1, <3>2, Zenon DEF Dispatch, Unhandled
    <3> QED
      BY <3>1, <3>2
  <2> QED
    BY <1>1, <1>3, <2>1, KindIs, GoesIs
<1> QED
  BY <1>2, <1>3

LEMMA ReadAreWhole ==
  \A f \in OrdersRead \cup OthersRead : f.to \in {"errs", "nowhere"} \/ f.complete
  BY EventsAreWhole DEF OrdersRead, OthersRead, Reading
-----------------------------------------------------------------------------
(***************************************************************************)
(* Delivery.                                                               *)
(***************************************************************************)
LEMMA InitType == Init => TypeOK
<1> SUFFICES ASSUME Init PROVE TypeOK
  OBVIOUS
<1>1. \A ch \in Channels : queue[ch] = <<>> /\ Len(queue[ch]) = 0
  BY DEF Init
<1>2. \A ch \in Channels : Len(queue[ch]) <= Cap[ch]
  BY <1>1, Capacity
<1>3. push \in [Pushers -> [at : {"none", "try", "drop", "again"}, ch : Lossy, item : Nat]]
  BY DEF Init, NoPush, Lossy
<1>4. starts \in [1..MaxConns -> Nat] /\ conn \in 1..MaxConns
  BY ConstantsAssumption DEF Init
<1>5. queue \in [Channels -> Seq(Nat)] /\ made \in [Lossy -> Nat] /\ got \in [Channels -> Nat]
  BY DEF Init
<1> QED
  <2>1. /\ run = "serving" /\ changes = 0 /\ active = TRUE /\ cursor = 0 /\ snapshot = 0
        /\ undecoded = {} /\ hollow = FALSE
    BY DEF Init
  <2>2. /\ run \in {"serving", "ending", "dialing", "announcing"} /\ changes \in Nat
        /\ active \in BOOLEAN /\ cursor \in 0..changes /\ snapshot \in 0..changes
        /\ undecoded \subseteq 1..changes
    BY <2>1
  <2>3. hollow \in BOOLEAN
    BY <2>1
  <2> QED
    BY <1>2, <1>3, <1>4, <1>5, <2>2, <2>3 DEF TypeOK

\* Appending where there is room, and taking from the front, keep the channels bounded.
LEMMA QueueGrows ==
  ASSUME TypeOK, NEW ch \in Channels, NEW item \in Nat, Room(ch), Append1(ch, item)
  PROVE  queue' \in [Channels -> Seq(Nat)] /\ \A c \in Channels : Len(queue'[c]) <= Cap[c]
<1>1. queue[ch] \in Seq(Nat) /\ Cap[ch] \in Nat
  BY Capacity DEF TypeOK
<1>2. Append(queue[ch], item) \in Seq(Nat) /\ Len(Append(queue[ch], item)) <= Cap[ch]
  BY <1>1 DEF Room
<1> QED
  BY <1>2 DEF Append1, TypeOK

LEMMA QueueShrinks ==
  ASSUME TypeOK, NEW ch \in Channels, queue[ch] # <<>>,
         queue' = [queue EXCEPT ![ch] = Tail(@)]
  PROVE  queue' \in [Channels -> Seq(Nat)] /\ \A c \in Channels : Len(queue'[c]) <= Cap[c]
<1>1. queue[ch] \in Seq(Nat) /\ Cap[ch] \in Nat /\ Len(queue[ch]) <= Cap[ch]
  BY Capacity DEF TypeOK
<1>2. Tail(queue[ch]) \in Seq(Nat) /\ Len(Tail(queue[ch])) <= Cap[ch]
  BY <1>1
<1> QED
  BY <1>2 DEF TypeOK

LEMMA StartPushType ==
  ASSUME TypeOK, NEW p \in Pushers, NEW ch \in Lossy, StartPush(p, ch)
  PROVE  /\ made' \in [Lossy -> Nat]
         /\ push' \in [Pushers -> [at : {"none", "try", "drop", "again"}, ch : Lossy, item : Nat]]
<1>1. Item(ch) \in Nat
  BY DEF Item, TypeOK
<1> QED
  BY <1>1 DEF StartPush, TypeOK

LEMMA PushType ==
  ASSUME TypeOK, NEW p \in Pushers, Push(p)
  PROVE  TypeOK'
<1> DEFINE ch == push[p].ch
<1>1. ch \in Channels /\ push[p].item \in Nat
  BY DEF TypeOK, Channels
<1>2. NoPush \in [at : {"none", "try", "drop", "again"}, ch : Lossy, item : Nat]
  BY DEF NoPush, Lossy
<1>3. UNCHANGED <<made, got, runVars, serverVars, snapshot, histVars>>
  BY DEF Push, Try, Drop, Again
<1>4. push' \in [Pushers -> [at : {"none", "try", "drop", "again"}, ch : Lossy, item : Nat]]
  <2>1. push' = [push EXCEPT ![p] = NoPush] \/ \E a \in {"drop", "again"} : Goto(p, a)
    BY DEF Push, Try, Drop, Again, EndPush, WhenFull
  <2>2. ASSUME NEW a \in {"drop", "again"}, Goto(p, a)
        PROVE  push' = [push EXCEPT ![p] = [at |-> a, ch |-> ch, item |-> push[p].item]]
    <3>1. push[p] \in [at : {"none", "try", "drop", "again"}, ch : Lossy, item : Nat]
      BY DEF TypeOK
    <3>2. [push[p] EXCEPT !.at = a] = [at |-> a, ch |-> ch, item |-> push[p].item]
      BY <3>1
    <3> QED
      BY <2>2, <3>2 DEF Goto
  <2>3. ASSUME NEW a \in {"drop", "again"}
        PROVE  [at |-> a, ch |-> ch, item |-> push[p].item]
                 \in [at : {"none", "try", "drop", "again"}, ch : Lossy, item : Nat]
    BY DEF TypeOK
  <2> QED
    BY <1>2, <2>1, <2>2, <2>3 DEF TypeOK
<1>5. queue' \in [Channels -> Seq(Nat)] /\ \A c \in Channels : Len(queue'[c]) <= Cap[c]
  <2>1. CASE UNCHANGED queue
    BY <2>1 DEF TypeOK
  <2>2. CASE Room(ch) /\ Append1(ch, push[p].item)
    BY <1>1, <2>2, QueueGrows
  <2>3. CASE Drop(p)
    <3>1. CASE queue[ch] = <<>>
      <4>1. queue' = queue
        BY <1>1, <2>3, <3>1 DEF Drop, LoseOldest, TypeOK
      <4> QED
        BY <2>1, <4>1
    <3>2. CASE queue[ch] # <<>>
      <4>1. queue' = [queue EXCEPT ![ch] = Tail(@)]
        BY <2>3, <3>2 DEF Drop, LoseOldest
      <4> QED
        BY <1>1, <3>2, <4>1, QueueShrinks
    <3> QED
      BY <3>1, <3>2
  <2> QED
    BY <2>1, <2>2, <2>3 DEF Push, Try, Again, SendAgain
<1> QED
  BY <1>3, <1>4, <1>5 DEF TypeOK, runVars, serverVars, histVars

\* A step of readLoop or declareLoop.
LEMMA LoopType ==
  ASSUME TypeOK, Loop
  PROVE  TypeOK'
<1> USE DEF Pushers, Loops
<1>1. ASSUME NEW f, PushRead(f)
      PROVE  /\ made' \in [Lossy -> Nat]
             /\ push' \in [Pushers -> [at : {"none", "try", "drop", "again"}, ch : Lossy, item : Nat]]
  BY <1>1, StartPushType DEF PushRead, TypeOK
<1>2. ASSUME NEW f, NoteEvent(f) PROVE hollow' \in BOOLEAN
  <2>1. hollow \in BOOLEAN
    BY DEF TypeOK
  <2> QED
    BY <1>2, <2>1 DEF NoteEvent
<1>3. CASE FrameArrives
  <2>1. PICK f \in OthersRead : PushRead(f) /\ NoteEvent(f)
    BY <1>3 DEF FrameArrives
  <2> QED
    BY <1>1, <1>2, <1>3, <2>1 DEF FrameArrives, TypeOK, runVars, serverVars
<1>4. CASE DeclareError
  <2>1. "errs" \in Lossy
    BY DEF Lossy
  <2> QED
    BY <1>4, <2>1, StartPushType DEF DeclareError, TypeOK, runVars, serverVars, histVars
<1>5. CASE ConnBreaks
  BY <1>5 DEF ConnBreaks, TypeOK, chanVars, histVars
<1>6. CASE OrderArrives
  <2>1. PICK f \in OrdersRead :
          /\ IF f.to = "orders" THEN Deliver /\ UNCHANGED <<made, push>>
             ELSE PushRead(f) /\ UNCHANGED <<queue, run, active>>
          /\ undecoded' = IF f.to = "errs" THEN undecoded \cup {cursor + 1} ELSE undecoded
          /\ NoteEvent(f)
    BY <1>6 DEF OrderArrives
  <2>2. /\ cursor' \in 0..changes /\ cursor + 1 \in 1..changes /\ undecoded' \subseteq 1..changes
        /\ UNCHANGED <<got, conn, changes, snapshot, starts>>
    BY <1>6, <2>1 DEF OrderArrives, TypeOK
  <2>3. "orders" \in Channels /\ cursor + 1 \in Nat
    BY <2>2 DEF Channels
  <2>4. CASE f.to = "orders"
    <3>1. Deliver /\ UNCHANGED <<made, push>>
      BY <2>1, <2>4
    <3>2. queue' \in [Channels -> Seq(Nat)] /\ \A c \in Channels : Len(queue'[c]) <= Cap[c]
      <4>1. CASE Room("orders")
        BY <2>3, <3>1, <4>1, QueueGrows DEF Deliver
      <4>2. CASE ~Room("orders")
        BY <3>1, <4>2 DEF Deliver, TypeOK
      <4> QED
        BY <4>1, <4>2
    <3>3. run' \in {"serving", "ending", "dialing", "announcing"} /\ active' \in BOOLEAN
      BY <3>1 DEF Deliver, EndConnection, TypeOK
    <3> QED
      BY <1>2, <2>1, <2>2, <3>1, <3>2, <3>3 DEF TypeOK
  <2>5. CASE f.to # "orders"
    BY <1>1, <1>2, <2>1, <2>2, <2>5 DEF TypeOK
  <2> QED
    BY <2>4, <2>5
<1> QED
  BY <1>3, <1>4, <1>5, <1>6 DEF Loop

LEMMA OtherType ==
  ASSUME TypeOK, Run \/ Subscribed \/ OrderChanges \/ \E ch \in Channels : Receive(ch)
  PROVE  TypeOK'
<1> USE DEF Pushers, chanVars, runVars, serverVars, histVars
<1>1. "errs" \in Lossy /\ "reconnects" \in Lossy /\ "run" \in Pushers
  BY DEF Lossy
<1>2. CASE LoopsEnd \/ Resume
  BY <1>2 DEF LoopsEnd, Resume, TypeOK
<1>3. CASE DialFails
  BY <1>1, <1>3, StartPushType DEF DialFails, TypeOK
<1>4. CASE DialSucceeds
  <2>1. conn' \in 1..MaxConns
    BY <1>4, ConstantsAssumption DEF DialSucceeds, TypeOK
  <2> QED
    BY <1>1, <1>4, <2>1, StartPushType DEF DialSucceeds, Announce, TypeOK
<1>5. CASE Subscribed
  BY <1>5 DEF Subscribed, TypeOK
<1>6. CASE OrderChanges
  <2>1. changes' \in Nat /\ 0..changes \subseteq 0..changes' /\ 1..changes \subseteq 1..changes'
    BY <1>6 DEF OrderChanges, TypeOK
  <2>2. cursor' \in 0..changes' /\ snapshot' \in 0..changes' /\ undecoded' \subseteq 1..changes'
    BY <1>6, <2>1 DEF OrderChanges, TypeOK
  <2> QED
    BY <1>6, <2>1, <2>2 DEF OrderChanges, TypeOK
<1>7. ASSUME NEW ch \in Channels, Receive(ch) PROVE TypeOK'
  <2>1. queue[ch] \in Seq(Nat) /\ queue[ch] # <<>> /\ got[ch] \in Nat
    BY <1>7 DEF Receive, TypeOK
  <2>2. Head(queue[ch]) \in Nat
    BY <2>1
  <2>3. Max({got[ch], Head(queue[ch])}) \in Nat
    <3>1. \E m \in {got[ch], Head(queue[ch])} : \A y \in {got[ch], Head(queue[ch])} : m >= y
      BY <2>1, <2>2
    <3>2. Max({got[ch], Head(queue[ch])}) \in {got[ch], Head(queue[ch])}
      BY <3>1, Zenon DEF Max
    <3> QED
      BY <2>1, <2>2, <3>2
  <2>4. got' \in [Channels -> Nat]
    BY <1>7, <2>3 DEF Receive, TypeOK
  <2>5. queue' \in [Channels -> Seq(Nat)] /\ \A c \in Channels : Len(queue'[c]) <= Cap[c]
    BY <1>7, <2>1, QueueShrinks DEF Receive
  <2>6. snapshot' \in 0..changes
    BY <1>7 DEF Receive, TypeOK
  <2> QED
    BY <1>7, <2>4, <2>5, <2>6 DEF Receive, TypeOK
<1> QED
  BY <1>2, <1>3, <1>4, <1>5, <1>6, <1>7 DEF Run

LEMMA TypeStep == TypeOK /\ [Next]_vars => TypeOK'
<1> SUFFICES ASSUME TypeOK, [Next]_vars PROVE TypeOK'
  OBVIOUS
<1>1. CASE UNCHANGED vars
  BY <1>1 DEF vars, TypeOK, chanVars, runVars, serverVars, histVars
<1> QED
  BY <1>1, PushType, LoopType, OtherType DEF Next

\* Channels never hold more than their buffers; the variables keep their types.
THEOREM TypeCorrect == Spec => []TypeOK
  BY InitType, TypeStep, PTL DEF Spec

\* No event reaches a channel without the values it is about, whatever frames arrive.
THEOREM AllEventsComplete == Spec => []EventsComplete
<1>1. Init => EventsComplete
  BY DEF Init, EventsComplete
<1>2. EventsComplete /\ [Next]_vars => EventsComplete'
  <2> SUFFICES ASSUME EventsComplete, [Next]_vars PROVE EventsComplete'
    OBVIOUS
  <2>1. ASSUME NEW f \in OrdersRead \cup OthersRead, NoteEvent(f) PROVE EventsComplete'
    BY <2>1, ReadAreWhole DEF NoteEvent, EventsComplete
  <2>2. CASE FrameArrives \/ OrderArrives
    BY <2>1, <2>2 DEF FrameArrives, OrderArrives
  <2>3. CASE ~(FrameArrives \/ OrderArrives)
    BY <2>3 DEF Next, Push, Try, Drop, Again, Loop, DeclareError, ConnBreaks, Run, LoopsEnd,
       DialFails, DialSucceeds, Resume, Subscribed, OrderChanges, Receive, vars, histVars,
       EventsComplete
  <2> QED
    BY <2>2, <2>3
<1> QED
  BY <1>1, <1>2, PTL DEF Spec
=============================================================================
