--------------------------- MODULE EventDelivery ---------------------------
(***************************************************************************)
(* How events reach the user of a stream (stream/stream.go: dispatch,       *)
(* pushLossy, emitErr, emitReconnect).  Trades, order books, errors and     *)
(* reconnect signals are LOSSY: a full channel loses its oldest item.       *)
(* Order events are never dropped: a full channel ends the connection, and  *)
(* what happens to the orders until the subscription is back is announced   *)
(* by a Reconnect only, for the user to read the orders by REST.  Frames    *)
(* says which channel a frame goes to, StreamOptions how long each is.      *)
(***************************************************************************)
EXTENDS Frames, StreamOptions, FiniteSetsExt

CONSTANTS
  Options,     \* the configuration the options of New leave
  OrderFrames, \* the frames in which the server may tell of an order
  OtherFrames, \* the other frames it may send
  UserResyncs, \* whether the user reads the orders by REST on a reconnect signal
  MaxItems,    \* bound: trades, order books and errors pushed, together
  MaxChanges,  \* bound: changes of the user's orders
  MaxConns     \* bound: connections made in all

Lossy    == {"trades", "orderbooks", "errs", "reconnects"}
Channels == Lossy \cup {"orders"}
Loops    == {"read", "declare"}
Pushers  == Loops \cup {"run"}

\* the buffer of each channel
Cap == [ch \in Channels |->
  CASE ch \in {"trades", "orderbooks"} -> Normal(Options)["tradeBuffer"]
    [] ch = "orders"                   -> Normal(Options)["orderBuffer"]
    [] ch \in {"errs", "reconnects"}   -> DefaultDiagBuffer]

\* an order comes in a message, under a topic this version knows or not, or is garbled
ASSUME ConstantsAssumption ==
  /\ Options \in Configs
  /\ OrderFrames \subseteq RawFrames /\ OtherFrames \subseteq RawFrames
  /\ \A raw \in OrderFrames :
       /\ raw.text /\ (raw.json => raw.type = "message")
       /\ TopicType(raw.topic) \notin TradeTypes \cup OrderbookTypes
  /\ UserResyncs \in BOOLEAN
  /\ MaxItems \in Nat /\ MaxChanges \in Nat /\ MaxConns \in Nat \ {0}

VARIABLES
  queue,      \* the items in each channel
  made,       \* items pushed to each lossy channel so far, numbered from 1
  got,        \* the highest item the user received from each channel
  push,       \* the call of pushLossy each goroutine is in
  run, conn,  \* what run does; the number of the connection
  \* the server: changes of the orders so far; whether the connection is
  \* subscribed to them, and the last change sent on it that readLoop has read
  changes, active, cursor,
  snapshot,   \* the changes REST has shown to the user
  \* history: the first change each connection would deliver, 0 for none;
  \* the changes whose event could not be decoded; whether an event was pushed
  \* that is not complete
  starts, undecoded, hollow

chanVars   == <<queue, made, got>>
runVars    == <<run, conn>>
serverVars == <<changes, active, cursor>>
histVars   == <<starts, undecoded, hollow>>
vars == <<chanVars, push, runVars, serverVars, snapshot, histVars>>
-----------------------------------------------------------------------------
NoPush == [at |-> "none", ch |-> "errs", item |-> 0]
Idle(p) == push[p].at = "none"

\* the newest item that is in a channel or was received from it
Newest(ch) == Max({got[ch]} \cup ToSet(queue[ch]))

\* Mutant: one item too many.
RoomForOneMore(ch) == Len(queue[ch]) <= Cap[ch]

\* the frames as readLoop sees them: where they go, whether they hold the event they are
Reading(raw) == [to |-> Goes(raw), complete |-> Complete(Goes(raw), raw.data)]
OrdersRead   == {Reading(raw) : raw \in OrderFrames}
OthersRead   == {Reading(raw) : raw \in OtherFrames}

\* a send would not block
Room(ch) == Len(queue[ch]) < Cap[ch]

Append1(ch, item) == queue' = [queue EXCEPT ![ch] = Append(@, item)]

Goto(p, at) == push' = [push EXCEPT ![p].at = at]
EndPush(p) == push' = [push EXCEPT ![p] = NoPush]

\* Mutant: the send waits for the user.
WaitForUser(p) == Room(push[p].ch) /\ UNCHANGED push

\* a full channel: first make room
WhenFull(p) == Goto(p, "drop")

\* Mutant: the item sent last makes room.
LoseNewest(q) == IF q = <<>> THEN q ELSE Front(q)

\* the oldest item is lost, if the user has not taken everything by now
LoseOldest(q) == IF q = <<>> THEN q ELSE Tail(q)

\* Mutant: room was made, but the item is not sent again.
SendNothing(p) == UNCHANGED queue

\* the second send, if the other producer has not filled the channel meanwhile
SendAgain(p) == IF Room(push[p].ch) THEN Append1(push[p].ch, push[p].item) ELSE UNCHANGED queue

\* the next item of ch; errors are not told apart
Item(ch) == IF ch = "errs" THEN 1 ELSE made[ch] + 1

\* the bound on the items; a connection has one reconnect signal
MayMake(ch) ==
  ch = "reconnects" \/ made["trades"] + made["orderbooks"] + made["errs"] < MaxItems

\* pushLossy is called by p for the next item of ch
StartPush(p, ch) ==
  /\ Idle(p) /\ MayMake(ch)
  /\ made' = [made EXCEPT ![ch] = @ + 1]
  /\ push' = [push EXCEPT ![p] = [at |-> "try", ch |-> ch, item |-> Item(ch)]]

\* Mutant: the user is not told of the reconnect.
Silent == UNCHANGED <<made, push>>

\* emitReconnect
Announce == StartPush("run", "reconnects")

\* an order event that finds its channel full ends the connection
EndConnection == run' = "ending" /\ active' = FALSE

Init ==
  /\ queue = [ch \in Channels |-> <<>>]
  /\ made = [ch \in Lossy |-> 0]
  /\ got = [ch \in Channels |-> 0]
  /\ push = [p \in Pushers |-> NoPush]
  /\ run = "serving" /\ conn = 1
  \* the first Subscribe has returned and the user has read the orders
  /\ changes = 0 /\ active = TRUE /\ cursor = 0
  /\ snapshot = 0
  /\ starts = [k \in 1..MaxConns |-> IF k = 1 THEN 1 ELSE 0]
  /\ undecoded = {} /\ hollow = FALSE

(***************************************************************************)
(* pushLossy: three selects; the user and the other loop act in between.   *)
(***************************************************************************)
Try(p) ==
  LET ch == push[p].ch IN
  /\ push[p].at = "try"
  /\ IF Room(ch) THEN Append1(ch, push[p].item) /\ EndPush(p)
                 ELSE WhenFull(p) /\ UNCHANGED queue
  /\ UNCHANGED <<made, got, runVars, serverVars, snapshot, histVars>>

Drop(p) ==
  LET ch == push[p].ch IN
  /\ push[p].at = "drop"
  /\ queue' = [queue EXCEPT ![ch] = LoseOldest(@)]
  /\ Goto(p, "again")
  /\ UNCHANGED <<made, got, runVars, serverVars, snapshot, histVars>>

Again(p) ==
  /\ push[p].at = "again"
  /\ SendAgain(p)
  /\ EndPush(p)
  /\ UNCHANGED <<made, got, runVars, serverVars, snapshot, histVars>>

(***************************************************************************)
(* The loops of a connection.                                              *)
(***************************************************************************)
\* what readLoop does with a frame for a lossy channel, or for none
PushRead(f) == IF f.to \in Lossy THEN StartPush("read", f.to) ELSE UNCHANGED <<made, push>>

NoteEvent(f) == hollow' = (hollow \/ (f.to \notin {"errs", "nowhere"} /\ ~f.complete))

\* readLoop reads a frame that is not about an order
FrameArrives ==
  /\ run = "serving" /\ Idle("read")
  /\ \E f \in OthersRead : PushRead(f) /\ NoteEvent(f)
  /\ UNCHANGED <<queue, got, runVars, serverVars, snapshot, starts, undecoded>>

\* a declaration cannot be built or written, which may be after the connection has ended
DeclareError ==
  /\ run \in {"serving", "ending"}
  /\ StartPush("declare", "errs")
  /\ UNCHANGED <<queue, got, runVars, serverVars, snapshot, histVars>>

\* an order event is sent, or ends the connection
Deliver ==
  IF Room("orders") THEN Append1("orders", cursor + 1) /\ UNCHANGED <<run, active>>
                    ELSE EndConnection /\ UNCHANGED queue

\* readLoop reads the next change of an order
OrderArrives ==
  /\ run = "serving" /\ Idle("read") /\ active /\ cursor < changes
  /\ cursor' = cursor + 1
  /\ \E f \in OrdersRead :
       /\ IF f.to = "orders" THEN Deliver /\ UNCHANGED <<made, push>>
          ELSE PushRead(f) /\ UNCHANGED <<queue, run, active>>
       /\ undecoded' = IF f.to = "errs" THEN undecoded \cup {cursor + 1} ELSE undecoded
       /\ NoteEvent(f)
  /\ UNCHANGED <<got, conn, changes, snapshot, starts>>

ConnBreaks ==
  /\ run = "serving" /\ conn < MaxConns
  /\ run' = "ending" /\ active' = FALSE
  /\ UNCHANGED <<chanVars, push, conn, changes, cursor, snapshot, histVars>>

(***************************************************************************)
(* run.                                                                    *)
(***************************************************************************)
LoopsEnd ==
  /\ run = "ending" /\ \A l \in Loops : Idle(l)
  /\ run' = "dialing"
  /\ UNCHANGED <<chanVars, push, conn, serverVars, snapshot, histVars>>

DialFails ==
  /\ run = "dialing" /\ StartPush("run", "errs")
  /\ UNCHANGED <<queue, got, runVars, serverVars, snapshot, histVars>>

DialSucceeds ==
  /\ run = "dialing" /\ Idle("run") /\ conn < MaxConns
  /\ run' = "announcing" /\ conn' = conn + 1
  /\ Announce
  /\ UNCHANGED <<queue, got, serverVars, snapshot, histVars>>

\* emitReconnect has returned: requestDeclare, then the loops
Resume ==
  /\ run = "announcing" /\ Idle("run")
  /\ run' = "serving"
  /\ UNCHANGED <<chanVars, push, conn, serverVars, snapshot, histVars>>

(***************************************************************************)
(* The server and the user.                                                *)
(***************************************************************************)
\* the subscription set, declared again, takes effect
Subscribed ==
  /\ run = "serving" /\ ~active
  /\ active' = TRUE /\ cursor' = changes
  /\ starts' = [starts EXCEPT ![conn] = changes + 1]
  /\ UNCHANGED <<chanVars, push, runVars, changes, snapshot, undecoded, hollow>>

OrderChanges ==
  /\ changes < MaxChanges
  /\ changes' = changes + 1
  /\ UNCHANGED <<chanVars, push, runVars, active, cursor, snapshot, histVars>>

Receive(ch) ==
  /\ queue[ch] # <<>>
  /\ queue' = [queue EXCEPT ![ch] = Tail(@)]
  /\ got' = [got EXCEPT ![ch] = Max({@, Head(queue[ch])})]
  /\ snapshot' = IF ch = "reconnects" /\ UserResyncs THEN changes ELSE snapshot
  /\ UNCHANGED <<made, push, runVars, serverVars, histVars>>
-----------------------------------------------------------------------------
Push(p) == Try(p) \/ Drop(p) \/ Again(p)

Loop ==
  \/ FrameArrives \/ OrderArrives \/ DeclareError \/ ConnBreaks

Run == LoopsEnd \/ DialFails \/ DialSucceeds \/ Resume

Next ==
  \/ \E p \in Pushers : Push(p)
  \/ Loop \/ Run \/ Subscribed \/ OrderChanges
  \/ \E ch \in Channels : Receive(ch)

Spec == Init /\ [][Next]_vars

\* The goroutines of the stream run on; a dial succeeds sooner or later.  The user
\* need not read any channel.
Fairness ==
  /\ \A p \in Pushers : WF_vars(Push(p))
  /\ WF_vars(LoopsEnd \/ DialSucceeds \/ Resume)

FairSpec == Spec /\ Fairness
-----------------------------------------------------------------------------
\* Type invariant.
TypeOK ==
  /\ queue \in [Channels -> Seq(Nat)]
  /\ \A ch \in Channels : Len(queue[ch]) <= Cap[ch]
  /\ made \in [Lossy -> Nat] /\ got \in [Channels -> Nat]
  /\ push \in [Pushers -> [at : {"none", "try", "drop", "again"}, ch : Lossy, item : Nat]]
  /\ run \in {"serving", "ending", "dialing", "announcing"} /\ conn \in 1..MaxConns
  /\ changes \in Nat /\ active \in BOOLEAN /\ cursor \in 0..changes
  /\ snapshot \in 0..changes
  /\ starts \in [1..MaxConns -> Nat] /\ undecoded \subseteq 1..changes /\ hollow \in BOOLEAN

\* no push into ch is under way
Quiet(ch) == \A p \in Pushers : Idle(p) \/ push[p].ch # ch

\* However the user and the push interleave, the newest trade and the newest
\* reconnect signal are in their channel or were received.  (Two loops report errors
\* at once: there the second send of pushLossy can find the channel full again.)
\* ImplementsLossyChannel, which is checked, says more.
NewestSurvives ==
  \A ch \in Lossy \ {"errs"} : Quiet(ch) => Newest(ch) = made[ch]

\* pushLossy loses no more than it must, not even with two loops in it: a channel
\* nobody has read from is as full as the items made allow.
LosesOnlyTheExcess == \A ch \in Lossy :
  Quiet(ch) /\ got[ch] = 0 => Len(queue[ch]) = Min({made[ch], Cap[ch]})

\* what the user sees of the orders: the last event received, then those to come
OrderLog == <<got["orders"]>> \o queue["orders"]

\* changes between two successive events that are missing without an error
Missing(x, y) == (x + 1)..(y - 1) \ undecoded

\* Orders() is in order and leaves nothing out within a connection: where changes
\* are missing, the later event is of a connection that started after them.
OrdersLossless == \A i \in 1..Len(queue["orders"]) :
  LET x == OrderLog[i]
      y == OrderLog[i + 1]
  IN  /\ x < y
      /\ Missing(x, y) # {} => \E k \in 2..MaxConns : x < starts[k] /\ starts[k] <= y

\* No event reaches a channel that the server has not sent the values of, whatever is
\* missing from a frame, or null: no trade of price 0, no order without its id, no order
\* book that is empty for want of data (the comments in decodeFrame and tradeEvent).
EventsComplete == ~hollow

\* The user who finds an event of a new connection in Orders() finds the Reconnect
\* of it, or a later one, in Reconnects(), however full that was, unless a later one
\* is just being pushed.
GapIsSignalled == \A k \in 2..MaxConns : \A i \in 1..Len(queue["orders"]) :
  starts[k] # 0 /\ starts[k] <= queue["orders"][i] /\ Quiet("reconnects")
    => Newest("reconnects") >= k - 1

\* everything the server sent and every signal was received
AllRead ==
  /\ run = "serving" /\ active /\ cursor = changes
  /\ queue["orders"] = <<>> /\ queue["reconnects"] = <<>>

\* The package comment of events.go: what the stream lost while it was down is made
\* good by reading the orders on the signal of Reconnects().
ResyncSuffices ==
  AllRead => changes \in undecoded \/ Max({got["orders"], snapshot}) = changes

\* A user who reads no channel at all does not hold up the stream: whatever its
\* loops are pushing, a connection that ended is replaced.
StreamNeverBlocks == (run = "ending" /\ conn < MaxConns) ~> run = "serving"

\* the one goroutine that pushes into a channel other than Errors()
Producer(ch) == IF ch = "reconnects" THEN "run" ELSE "read"

\* its push into ch has come to the select at
Underway(at, ch) == push[Producer(ch)].at = at /\ push[Producer(ch)].ch = ch

\* ch as LossyChannel describes it: an item is sent when pushLossy has dropped another for
\* it, for nothing can take the place of the one producer any more.
Settled(ch) == IF Underway("again", ch) THEN Append(queue[ch], made[ch]) ELSE queue[ch]
Offered(ch) == IF Underway("try", ch) \/ Underway("drop", ch) THEN made[ch] - 1 ELSE made[ch]

Trades == INSTANCE LossyChannel WITH Size <- Cap["trades"],
  buffer <- Settled("trades"), last <- Offered("trades"), full <- Underway("drop", "trades")
Orderbooks == INSTANCE LossyChannel WITH Size <- Cap["orderbooks"],
  buffer <- Settled("orderbooks"), last <- Offered("orderbooks"),
  full <- Underway("drop", "orderbooks")
Reconnects == INSTANCE LossyChannel WITH Size <- Cap["reconnects"],
  buffer <- Settled("reconnects"), last <- Offered("reconnects"),
  full <- Underway("drop", "reconnects")

\* The three selects of pushLossy, with the user's reads between them, are as good as one
\* step: where there is one producer only the oldest item is ever lost, and only to an item
\* that found the channel full; the others are received in order.
ImplementsLossyChannel == Trades!Spec /\ Orderbooks!Spec /\ Reconnects!Spec

\* Trades(), Orderbooks() and Reconnects() hold the items sent last, without holes between
\* them, whatever pushLossy has dropped and the user has read.
NoHoles == Trades!NewestOnly /\ Orderbooks!NewestOnly /\ Reconnects!NewestOnly
=============================================================================
