-------------------------- MODULE EventLossProofs --------------------------
(***************************************************************************)
(* Proofs about what EventDelivery may lose: no more than it must of the    *)
(* lossy channels, and nothing of the orders without a Reconnect, whatever  *)
(* the buffers, the frames and the number of connections.                   *)
(***************************************************************************)
EXTENDS EventDeliveryProofs

\* the goroutine p is at stage at of a push into ch
At(p, at, ch) == push[p].at = at /\ push[p].ch = ch
Stages == {"try", "drop", "again"}
Pushing(p, ch) == \E at \in Stages : At(p, at, ch)

Holds(ch, item) == \E i \in 1..Len(queue[ch]) : queue[ch][i] = item

\* What is in ch is not newer than what was made, and the newest is there unless it is
\* being pushed; who has dropped an item finds room, for nobody else sends.
NumberedAt(ch) ==
  /\ got[ch] <= made[ch]
  /\ \A i \in 1..Len(queue[ch]) : queue[ch][i] <= made[ch]
  /\ \A p \in Pushers : Pushing(p, ch) => p = Producer(ch) /\ push[p].item = made[ch]
  /\ \A p \in Pushers : At(p, "again", ch) => Room(ch)
  /\ (\A p \in Pushers : ~Pushing(p, ch)) => got[ch] = made[ch] \/ Holds(ch, made[ch])

Numbered == \A ch \in Lossy \ {"errs"} : NumberedAt(ch)

Ind(p, at, ch) == IF At(p, at, ch) THEN 1 ELSE 0
Count(at, ch) == Ind("read", at, ch) + Ind("declare", at, ch) + Ind("run", at, ch)

\* A channel of cap places nobody has read from, with len items in it: m were made, t are
\* tried for the first time, d and g are pushed by those who found it full and have not, or
\* have, dropped an item.  While no push has found it full it holds what was made and is
\* not under way; then the buffer's worth was made, and the only free places are those of
\* the pushes that have dropped an item and not sent theirs.
Balanced(len, m, cap, t, d, g) ==
  /\ d + g = 0 => len = m - t \/ (len = cap /\ cap <= m - t)
  /\ d + g > 0 => m - t - d - g >= cap /\ len + g >= cap

ExcessAt(ch) ==
  /\ \A i \in 1..Len(queue[ch]) : queue[ch][i] >= 1
  /\ \A p \in Pushers : Pushing(p, ch) => push[p].item >= 1
  /\ Count("try", ch) + Count("drop", ch) + Count("again", ch) <= made[ch]
  /\ got[ch] = 0 => Balanced(Len(queue[ch]), made[ch], Cap[ch],
                             Count("try", ch), Count("drop", ch), Count("again", ch))

Excess == \A ch \in Lossy : ExcessAt(ch)

\* Connections are announced one by one; a connection's first change is set once.
Announced ==
  /\ made["reconnects"] = conn - 1
  /\ \A k \in 1..MaxConns : starts[k] # 0 => k <= conn
  /\ run \in {"ending", "dialing", "announcing"} => ~active
  /\ run \in {"serving", "announcing"} /\ ~active => conn > 1 /\ starts[conn] = 0

\* Changes between x and y are missing only for a connection that started between them.
Jump(x, y) ==
  Missing(x, y) # {} => \E k \in 2..MaxConns : x < starts[k] /\ starts[k] <= y

\* the last order event the user has or will have
LastOrder == IF queue["orders"] = <<>> THEN got["orders"] ELSE Last(queue["orders"])

\* the event before the i-th in the channel
Before(i) == IF i = 1 THEN got["orders"] ELSE queue["orders"][i - 1]

\* The orders in the channel, and the next one: what is missing before it is excused.
InOrder ==
  /\ \A i \in 1..Len(queue["orders"]) :
       Before(i) < queue["orders"][i] /\ Jump(Before(i), queue["orders"][i])
  /\ LastOrder <= cursor
  /\ active => Jump(LastOrder, cursor + 1)

\* The inductive invariant.
IInv == TypeOK /\ Numbered /\ Excess /\ Announced /\ InOrder
-----------------------------------------------------------------------------
(***************************************************************************)
(* What a step does to one lossy channel.                                  *)
(***************************************************************************)
\* nothing
Same(ch) ==
  /\ queue'[ch] = queue[ch] /\ made'[ch] = made[ch] /\ got'[ch] = got[ch]
  /\ \A p \in Pushers : \A at \in Stages : (At(p, at, ch)' <=> At(p, at, ch))
  /\ \A p \in Pushers : Pushing(p, ch) => push'[p].item = push[p].item

\* a push begins, of the producer's if there is but one
Starts(ch) ==
  /\ queue'[ch] = queue[ch] /\ got'[ch] = got[ch]
  /\ \E p \in Pushers : StartPush(p, ch) /\ (ch # "errs" => p = Producer(ch))

Pushes(ch) == \E p \in Pushers : Push(p) /\ push[p].ch = ch

PushRecords == [at : {"none", "try", "drop", "again"}, ch : Lossy, item : Nat]

LEMMA PushTyped == TypeOK => push \in [Pushers -> PushRecords]
  BY DEF TypeOK, PushRecords

\* NoPush is at no stage, in whatever channel.
LEMMA NoPushIsNone == NoPush.at = "none" /\ NoPush.ch = "errs"
  BY DEF NoPush

LEMMA StartsElsewhere ==
  ASSUME TypeOK, NEW ch \in Lossy, NEW p \in Pushers, NEW c \in Lossy \ {ch},
         StartPush(p, c), queue'[ch] = queue[ch], got'[ch] = got[ch]
  PROVE  Same(ch)
<1>1. made'[ch] = made[ch]
  BY DEF StartPush, TypeOK
<1>2. \A q \in Pushers : push'[q] = IF q = p THEN [at |-> "try", ch |-> c, item |-> Item(c)]
                                    ELSE push[q]
  BY PushTyped DEF StartPush
<1>3. ~Pushing(p, ch)
  BY DEF StartPush, Idle, Pushing, At, Stages
<1>4. push'[p].ch = c
  BY <1>2
<1>5. ASSUME NEW q \in Pushers, NEW at \in Stages PROVE At(q, at, ch)' <=> At(q, at, ch)
  <2>1. CASE q = p
    <3>1. ~At(p, at, ch)
      BY <1>3 DEF Pushing
    <3>2. ~At(p, at, ch)'
      BY <1>4 DEF At
    <3> QED
      BY <2>1, <3>1, <3>2
  <2>2. CASE q # p
    BY <1>2, <2>2 DEF At
  <2> QED
    BY <2>1, <2>2
<1> QED
  BY <1>1, <1>2, <1>3, <1>5 DEF Same

LEMMA PushesElsewhere ==
  ASSUME TypeOK, NEW ch \in Lossy, NEW p \in Pushers, Push(p), push[p].ch # ch
  PROVE  Same(ch)
<1>1. UNCHANGED <<made, got>>
  BY DEF Push, Try, Drop, Again
<1>2. queue'[ch] = queue[ch]
  <2>1. queue \in [Channels -> Seq(Nat)] /\ ch \in Channels
    BY DEF TypeOK, Channels
  <2>2. \/ queue' = queue
        \/ \E item : Append1(push[p].ch, item)
        \/ \E q : queue' = [queue EXCEPT ![push[p].ch] = q]
    BY DEF Push, Try, Drop, Again, SendAgain
  <2> QED
    BY <2>1, <2>2 DEF Append1
<1>3. \A q \in Pushers \ {p} : push'[q] = push[q]
  BY PushTyped DEF Push, Try, Drop, Again, Goto, WhenFull, EndPush
<1>4. push'[p].ch = push[p].ch \/ push'[p] = NoPush
  BY PushTyped DEF Push, Try, Drop, Again, Goto, WhenFull, EndPush, PushRecords
<1>5. ~Pushing(p, ch)
  BY DEF Pushing, At
<1>6. ASSUME NEW q \in Pushers, NEW at \in Stages PROVE At(q, at, ch)' <=> At(q, at, ch)
  <2>1. CASE q = p
    <3>1. ~At(p, at, ch)
      BY DEF At
    <3>2. ~At(p, at, ch)'
      BY <1>4, NoPushIsNone DEF At, Stages
    <3> QED
      BY <2>1, <3>1, <3>2
  <2>2. CASE q # p
    BY <1>3, <2>2 DEF At
  <2> QED
    BY <2>1, <2>2
<1> QED
  BY <1>1, <1>2, <1>3, <1>5, <1>6 DEF Same

LEMMA NothingElsewhere ==
  ASSUME TypeOK, NEW ch \in Lossy, queue'[ch] = queue[ch], UNCHANGED <<made, push>>,
         got'[ch] = got[ch]
  PROVE  Same(ch)
  BY DEF Same, At

LEMMA GoesNotToReconnects == \A raw : Goes(raw) # "reconnects"
<1> SUFFICES ASSUME NEW raw PROVE Goes(raw) # "reconnects"
  OBVIOUS
<1>1. CASE ~raw.text
  <2>1. Goes(raw) = "nowhere"
    BY <1>1, Zenon DEF Goes
  <2> QED
    BY <2>1
<1>2. CASE raw.text
  BY <1>2, GoesIs, DispatchIs, KindIs
<1> QED
  BY <1>1, <1>2

LEMMA StepOf ==
  ASSUME TypeOK, [Next]_vars, NEW ch \in Lossy
  PROVE  Same(ch) \/ Starts(ch) \/ Pushes(ch) \/ Receive(ch)
<1> USE DEF Pushers, Loops
<1>1. ch \in Channels /\ ch # "orders"
  BY DEF Lossy, Channels
<1>2. queue \in [Channels -> Seq(Nat)] /\ got \in [Channels -> Nat]
  BY DEF TypeOK
<1>3. ASSUME NEW p \in Pushers, NEW c \in Lossy, StartPush(p, c), UNCHANGED <<queue, got>>,
             c # "errs" => p = Producer(c)
      PROVE  Same(ch) \/ Starts(ch)
  BY <1>3, StartsElsewhere DEF Starts
<1>4. ASSUME NEW f, f.to # "orders", PushRead(f), UNCHANGED <<queue, got>>, f.to # "reconnects"
      PROVE  Same(ch) \/ Starts(ch)
  BY <1>3, <1>4, NothingElsewhere DEF PushRead, Producer
<1>5. ASSUME NEW p \in Pushers, Push(p) PROVE Same(ch) \/ Pushes(ch)
  BY <1>5, PushesElsewhere DEF Pushes
<1>6. CASE FrameArrives
  <2>1. PICK f \in OthersRead : PushRead(f)
    BY <1>6 DEF FrameArrives
  <2>2. UNCHANGED <<queue, got>>
    BY <1>6 DEF FrameArrives
  <2>3. f.to # "reconnects"
    BY GoesNotToReconnects DEF OthersRead, Reading
  <2>4. CASE f.to = "orders"
    BY <2>1, <2>2, <2>4, NothingElsewhere DEF PushRead, Lossy
  <2> QED
    BY <1>4, <2>1, <2>2, <2>3, <2>4
<1>7. CASE OrderArrives
  <2>1. PICK f \in OrdersRead :
          IF f.to = "orders" THEN Deliver /\ UNCHANGED <<made, push>>
          ELSE PushRead(f) /\ UNCHANGED <<queue, run, active>>
    BY <1>7 DEF OrderArrives
  <2>2. UNCHANGED got
    BY <1>7 DEF OrderArrives
  <2>3. CASE f.to = "orders"
    <3>1. queue'[ch] = queue[ch]
      BY <1>1, <1>2, <2>1, <2>3 DEF Deliver, Append1
    <3> QED
      BY <2>1, <2>2, <2>3, <3>1, NothingElsewhere
  <2>4. CASE f.to # "orders"
    <3>1. f.to = "errs"
      BY <2>4, OrdersGo
    <3> QED
      BY <1>4, <2>1, <2>2, <2>4, <3>1
  <2> QED
    BY <2>3, <2>4
<1>8. CASE DeclareError \/ DialFails
  <2>1. "errs" \in Lossy
    BY DEF Lossy
  <2> QED
    BY <1>3, <1>8, <2>1 DEF DeclareError, DialFails
<1>9. CASE DialSucceeds
  <2>1. "reconnects" \in Lossy
    BY DEF Lossy
  <2> QED
    BY <1>3, <1>9, <2>1 DEF DialSucceeds, Announce, Producer
<1>10. ASSUME NEW c \in Channels, Receive(c) PROVE Same(ch) \/ Receive(ch)
  <2>1. CASE c = ch
    BY <1>10, <2>1
  <2>2. CASE c # ch
    <3>1. queue'[ch] = queue[ch] /\ got'[ch] = got[ch] /\ UNCHANGED <<made, push>>
      BY <1>1, <1>2, <1>10, <2>2 DEF Receive
    <3> QED
      BY <3>1, NothingElsewhere
  <2> QED
    BY <2>1, <2>2
<1>11. CASE \/ ConnBreaks \/ LoopsEnd \/ Resume \/ Subscribed \/ OrderChanges \/ UNCHANGED vars
  <2>1. UNCHANGED <<queue, made, got, push>>
    BY <1>11 DEF ConnBreaks, LoopsEnd, Resume, Subscribed, OrderChanges, vars, chanVars
  <2> QED
    BY <2>1, NothingElsewhere
<1> QED
  BY <1>5, <1>6, <1>7, <1>8, <1>9, <1>10, <1>11 DEF Next, Loop, Run
-----------------------------------------------------------------------------
\* What the items of a channel are after a send and after a receive.
LEMMA Appended ==
  ASSUME NEW s \in Seq(Nat), NEW x \in Nat
  PROVE  /\ Len(Append(s, x)) = Len(s) + 1 /\ Len(s) \in Nat
         /\ Append(s, x)[Len(s) + 1] = x
         /\ \A i \in 1..Len(s) : Append(s, x)[i] = s[i]
  OBVIOUS

LEMMA Shortened ==
  ASSUME NEW s \in Seq(Nat), s # <<>>
  PROVE  /\ Len(Tail(s)) = Len(s) - 1 /\ Len(s) \in Nat \ {0}
         /\ Head(s) = s[1] /\ s[1] \in Nat
         /\ \A i \in 1..Len(Tail(s)) : i + 1 \in 1..Len(s) /\ Tail(s)[i] = s[i + 1]
         /\ \A i \in 2..Len(s) : i - 1 \in 1..Len(Tail(s)) /\ Tail(s)[i - 1] = s[i]
<1>1. Len(s) \in Nat \ {0} /\ Len(Tail(s)) = Len(s) - 1
  OBVIOUS
<1>2. \A i \in 1..(Len(s) - 1) : Tail(s)[i] = s[i + 1]
  OBVIOUS
<1>3. \A i \in 1..Len(s) : s[i] \in Nat
  OBVIOUS
<1> QED
  BY <1>1, <1>2, <1>3

LEMMA MaxIs ==
  ASSUME NEW S \in SUBSET Int, NEW m \in S, \A y \in S : m >= y
  PROVE  Max(S) = m
<1>1. \E x \in S : \A y \in S : x >= y
  OBVIOUS
<1>2. Max(S) \in S /\ \A y \in S : Max(S) >= y
  BY <1>1, Zenon DEF Max
<1>3. \A x \in S : (\A y \in S : x >= y) => x = m
  OBVIOUS
<1> QED
  BY <1>2, <1>3, Zenon

LEMMA MinIs ==
  ASSUME NEW x \in Int, NEW y \in Int
  PROVE  Min({x, y}) = IF x <= y THEN x ELSE y
<1>1. \E m \in {x, y} : \A z \in {x, y} : m =< z
  OBVIOUS
<1>2. Min({x, y}) \in {x, y} /\ \A z \in {x, y} : Min({x, y}) =< z
  BY <1>1, Zenon DEF Min
<1>3. \A m \in {x, y} : (\A z \in {x, y} : m =< z) => m = IF x <= y THEN x ELSE y
  OBVIOUS
<1> QED
  BY <1>2, <1>3, Zenon

LEMMA Received ==
  ASSUME TypeOK, NEW ch \in Channels, Receive(ch)
  PROVE  /\ queue[ch] \in Seq(Nat) /\ queue[ch] # <<>>
         /\ queue'[ch] = Tail(queue[ch])
         /\ got'[ch] = IF got[ch] >= queue[ch][1] THEN got[ch] ELSE queue[ch][1]
         /\ UNCHANGED <<made, push, runVars, serverVars, histVars>>
<1>1. queue[ch] \in Seq(Nat) /\ queue[ch] # <<>> /\ got[ch] \in Nat
  BY DEF Receive, TypeOK
<1>2. Head(queue[ch]) = queue[ch][1] /\ queue[ch][1] \in Nat
  BY <1>1, Shortened
<1> DEFINE S == {got[ch], queue[ch][1]}
           m == IF got[ch] >= queue[ch][1] THEN got[ch] ELSE queue[ch][1]
<1>3. Max(S) = m
  <2>1. S \in SUBSET Int /\ m \in S /\ \A y \in S : m >= y
    BY <1>1, <1>2
  <2> HIDE DEF S, m
  <2> QED
    BY <2>1, MaxIs
<1> QED
  BY <1>1, <1>2, <1>3 DEF Receive, TypeOK

\* The steps of a push into its channel.
LEMMA PushStep ==
  ASSUME TypeOK, NEW ch \in Lossy, NEW p \in Pushers, Push(p), push[p].ch = ch
  PROVE  /\ queue[ch] \in Seq(Nat) /\ push[p].item \in Nat /\ made' = made /\ got' = got
         /\ \A q \in Pushers \ {p} : push'[q] = push[q]
         /\ \/ /\ push[p].at \in {"try", "again"} /\ Room(ch) /\ push'[p] = NoPush
               /\ queue'[ch] = Append(queue[ch], push[p].item)
            \/ /\ push[p].at = "try" /\ ~Room(ch) /\ queue'[ch] = queue[ch]
               /\ push'[p] = [at |-> "drop", ch |-> ch, item |-> push[p].item]
            \/ /\ push[p].at = "drop" /\ queue'[ch] = LoseOldest(queue[ch])
               /\ push'[p] = [at |-> "again", ch |-> ch, item |-> push[p].item]
            \/ /\ push[p].at = "again" /\ ~Room(ch) /\ queue'[ch] = queue[ch]
               /\ push'[p] = NoPush
<1>1. queue \in [Channels -> Seq(Nat)] /\ ch \in Channels
  BY DEF TypeOK, Channels
<1>2. push \in [Pushers -> PushRecords] /\ push[p].item \in Nat
  BY PushTyped DEF PushRecords
<1>3. ASSUME NEW a PROVE [push[p] EXCEPT !.at = a] = [at |-> a, ch |-> ch, item |-> push[p].item]
  BY <1>2 DEF PushRecords
<1>4. CASE Try(p)
  BY <1>1, <1>2, <1>3, <1>4 DEF Try, Append1, EndPush, WhenFull, Goto
<1>5. CASE Drop(p)
  BY <1>1, <1>2, <1>3, <1>5 DEF Drop, Goto
<1>6. CASE Again(p)
  BY <1>1, <1>2, <1>3, <1>6 DEF Again, SendAgain, Append1, EndPush
<1> QED
  BY <1>1, <1>4, <1>5, <1>6 DEF Push
-----------------------------------------------------------------------------
(***************************************************************************)
(* The newest item.                                                        *)
(***************************************************************************)
LEMMA NumberedSame ==
  ASSUME NEW ch \in Lossy, NumberedAt(ch), Same(ch)
  PROVE  NumberedAt(ch)'
<1>1. \A p \in Pushers : Pushing(p, ch)' <=> Pushing(p, ch)
  BY DEF Same, Pushing
<1>2. Room(ch)' <=> Room(ch)
  BY DEF Same, Room
<1>3. \A p \in Pushers : At(p, "again", ch)' <=> At(p, "again", ch)
  BY DEF Same, Stages
<1>4. Holds(ch, made[ch])' <=> Holds(ch, made[ch])
  BY DEF Same, Holds
<1> QED
  BY <1>1, <1>2, <1>3, <1>4 DEF NumberedAt, Same

LEMMA NumberedStarts ==
  ASSUME TypeOK, NEW ch \in Lossy \ {"errs"}, NumberedAt(ch), Starts(ch)
  PROVE  NumberedAt(ch)'
<1>1. PICK p \in Pushers : StartPush(p, ch) /\ p = Producer(ch)
  BY DEF Starts
<1>2. queue'[ch] = queue[ch] /\ got'[ch] = got[ch] /\ made'[ch] = made[ch] + 1
      /\ made[ch] \in Nat /\ got[ch] \in Nat /\ queue[ch] \in Seq(Nat)
  BY <1>1 DEF Starts, StartPush, TypeOK, Channels
<1>3. /\ push'[p] = [at |-> "try", ch |-> ch, item |-> made[ch] + 1]
      /\ \A q \in Pushers \ {p} : push'[q] = push[q]
  BY <1>1, PushTyped DEF StartPush, Item
<1>4. \A q \in Pushers \ {p} : ~Pushing(q, ch) /\ ~Pushing(q, ch)'
  BY <1>1, <1>3 DEF NumberedAt, Pushing, At
<1>5. Pushing(p, ch)' /\ ~At(p, "again", ch)'
  BY <1>3 DEF Pushing, At, Stages
<1>6. \A q \in Pushers : ~At(q, "again", ch)'
  BY <1>4, <1>5 DEF Pushing, Stages
<1>7. \A i \in 1..Len(queue[ch]) : queue[ch][i] \in Nat
  BY <1>2
<1> QED
  BY <1>1, <1>2, <1>3, <1>4, <1>5, <1>6, <1>7 DEF NumberedAt

LEMMA NumberedPushes ==
  ASSUME TypeOK, NEW ch \in Lossy \ {"errs"}, NumberedAt(ch), Pushes(ch)
  PROVE  NumberedAt(ch)'
<1>1. PICK p \in Pushers : Push(p) /\ push[p].ch = ch
  BY DEF Pushes
<1> DEFINE item == push[p].item
<1>2. /\ queue[ch] \in Seq(Nat) /\ item \in Nat /\ made' = made /\ got' = got
      /\ \A q \in Pushers \ {p} : push'[q] = push[q]
  BY <1>1, PushStep
<1>3. Pushing(p, ch) /\ p = Producer(ch) /\ item = made[ch]
  BY <1>1 DEF Pushing, At, Stages, Push, Try, Drop, Again, NumberedAt
<1>4. \A q \in Pushers \ {p} : ~Pushing(q, ch) /\ ~Pushing(q, ch)'
  BY <1>2, <1>3 DEF NumberedAt, Pushing, At
<1>5. \A q \in Pushers \ {p} : ~At(q, "again", ch)'
  BY <1>4 DEF Pushing, Stages
<1>6. CASE /\ Room(ch) /\ push'[p] = NoPush
           /\ queue'[ch] = Append(queue[ch], item)
  <2>1. ~Pushing(p, ch)' /\ ~At(p, "again", ch)'
    BY <1>6, NoPushIsNone DEF Pushing, At, Stages
  <2>2. \A i \in 1..Len(queue'[ch]) : queue'[ch][i] <= made[ch]
    BY <1>2, <1>3, <1>6, Appended DEF NumberedAt
  <2>3. Holds(ch, made[ch])'
    BY <1>2, <1>3, <1>6, Appended DEF Holds
  <2> QED
    BY <1>2, <1>4, <1>5, <2>1, <2>2, <2>3 DEF NumberedAt
<1>7. CASE /\ push[p].at = "try" /\ queue'[ch] = queue[ch]
           /\ push'[p] = [at |-> "drop", ch |-> ch, item |-> item]
  <2>1. Pushing(p, ch)' /\ ~At(p, "again", ch)' /\ push'[p].item = made[ch]
    BY <1>3, <1>7 DEF Pushing, At, Stages
  <2> QED
    BY <1>2, <1>3, <1>4, <1>5, <1>7, <2>1 DEF NumberedAt
<1>8. CASE /\ push[p].at = "drop" /\ queue'[ch] = LoseOldest(queue[ch])
           /\ push'[p] = [at |-> "again", ch |-> ch, item |-> item]
  <2>1. Pushing(p, ch)' /\ push'[p].item = made[ch]
    BY <1>3, <1>8 DEF Pushing, At, Stages
  <2>2. Cap[ch] \in Nat \ {0} /\ Len(queue[ch]) <= Cap[ch]
    BY Capacity DEF TypeOK, Channels
  <2>3. Len(queue'[ch]) < Cap[ch] /\ \A i \in 1..Len(queue'[ch]) : queue'[ch][i] <= made[ch]
    <3>1. CASE queue[ch] = <<>>
      BY <1>8, <2>2, <3>1 DEF LoseOldest
    <3>2. CASE queue[ch] # <<>>
      BY <1>2, <1>8, <2>2, <3>2, Shortened DEF LoseOldest, NumberedAt
    <3> QED
      BY <3>1, <3>2
  <2> QED
    BY <1>2, <1>3, <1>4, <1>5, <2>1, <2>3 DEF NumberedAt, Room
<1>9. ~(push[p].at = "again" /\ ~Room(ch))
  BY <1>1 DEF NumberedAt, At
<1> QED
  BY <1>1, <1>6, <1>7, <1>8, <1>9, PushStep

LEMMA NumberedReceive ==
  ASSUME TypeOK, NEW ch \in Lossy, NumberedAt(ch), Receive(ch)
  PROVE  NumberedAt(ch)'
<1>1. /\ queue[ch] \in Seq(Nat) /\ queue[ch] # <<>> /\ queue'[ch] = Tail(queue[ch])
      /\ got'[ch] = IF got[ch] >= queue[ch][1] THEN got[ch] ELSE queue[ch][1]
      /\ UNCHANGED <<made, push>>
  BY Received DEF Channels
<1>2. got[ch] \in Nat /\ made[ch] \in Nat /\ Cap[ch] \in Nat
  BY Capacity DEF TypeOK, Channels
<1>3. got'[ch] <= made[ch]
  BY <1>1, <1>2, Shortened DEF NumberedAt
<1>4. \A i \in 1..Len(queue'[ch]) : queue'[ch][i] <= made[ch]
  BY <1>1, <1>2, Shortened DEF NumberedAt
<1>5. Room(ch) => Room(ch)'
  BY <1>1, <1>2, Shortened DEF Room
<1>6. got[ch] = made[ch] \/ Holds(ch, made[ch]) => got'[ch] = made[ch] \/ Holds(ch, made[ch])'
  <2>1. CASE got[ch] = made[ch]
    BY <1>1, <1>2, <1>3, <2>1, Shortened
  <2>2. ASSUME NEW i \in 1..Len(queue[ch]), queue[ch][i] = made[ch]
        PROVE  got'[ch] = made[ch] \/ Holds(ch, made[ch])'
    <3>1. CASE i = 1
      BY <1>1, <1>2, <1>3, <2>2, <3>1
    <3>2. CASE i # 1
      <4>1. i - 1 \in 1..Len(queue'[ch]) /\ queue'[ch][i - 1] = made[ch]
        BY <1>1, <2>2, <3>2, Shortened
      <4> QED
        BY <1>1, <4>1 DEF Holds
    <3> QED
      BY <3>1, <3>2
  <2> QED
    BY <2>1, <2>2 DEF Holds
<1>7. \A p \in Pushers : /\ Pushing(p, ch)' <=> Pushing(p, ch)
                         /\ At(p, "again", ch)' <=> At(p, "again", ch)
  BY <1>1 DEF Pushing, At
<1> QED
  BY <1>1, <1>3, <1>4, <1>5, <1>6, <1>7 DEF NumberedAt

LEMMA NumberedStep ==
  ASSUME TypeOK, Numbered, [Next]_vars
  PROVE  Numbered'
<1> SUFFICES ASSUME NEW ch \in Lossy \ {"errs"} PROVE NumberedAt(ch)'
  BY DEF Numbered
<1>1. NumberedAt(ch)
  BY DEF Numbered
<1> QED
  BY <1>1, StepOf, NumberedSame, NumberedStarts, NumberedPushes, NumberedReceive

\* With no push under way the newest item is there.
LEMMA NewestIsThere ==
  ASSUME TypeOK, NEW ch \in Lossy, NumberedAt(ch), Quiet(ch)
  PROVE  Newest(ch) = made[ch]
<1> DEFINE S == {got[ch]} \cup ToSet(queue[ch])
<1>1. queue[ch] \in Seq(Nat) /\ got[ch] \in Nat /\ made[ch] \in Nat
  BY DEF TypeOK, Channels
<1>2. ToSet(queue[ch]) = {queue[ch][i] : i \in 1..Len(queue[ch])}
  BY <1>1 DEF ToSet
<1>3. S \in SUBSET Int /\ \A y \in S : made[ch] >= y
  BY <1>1, <1>2 DEF NumberedAt
<1>4. \A p \in Pushers : ~Pushing(p, ch)
  BY DEF Quiet, Idle, Pushing, At, Stages
<1>5. made[ch] \in S
  BY <1>2, <1>4 DEF NumberedAt, Holds
<1> QED
  BY <1>3, <1>5, MaxIs DEF Newest
-----------------------------------------------------------------------------
(***************************************************************************)
(* No more than the excess.                                                *)
(***************************************************************************)
LEMMA Counts ==
  ASSUME NEW p \in Pushers, NEW at, NEW ch
  PROVE  /\ Ind(p, at, ch) \in {0, 1} /\ Count(at, ch) \in Nat
         /\ Count(at, ch) >= Ind(p, at, ch)
  BY DEF Ind, Count, Pushers, Loops

\* Only p's push changes.
LEMMA CountMoves ==
  ASSUME NEW p \in Pushers, \A q \in Pushers \ {p} : push'[q] = push[q], NEW at, NEW ch
  PROVE  Count(at, ch)' = Count(at, ch) + Ind(p, at, ch)' - Ind(p, at, ch)
<1>1. \A q \in Pushers \ {p} : Ind(q, at, ch)' = Ind(q, at, ch)
  BY DEF Ind, At
<1>2. \A q \in Pushers : Ind(q, at, ch) \in {0, 1} /\ Ind(q, at, ch)' \in {0, 1}
  BY DEF Ind
<1> QED
  BY <1>1, <1>2 DEF Count, Pushers, Loops

LEMMA ExcessSame ==
  ASSUME NEW ch \in Lossy, ExcessAt(ch), Same(ch)
  PROVE  ExcessAt(ch)'
<1>1. \A p \in Pushers : Pushing(p, ch)' <=> Pushing(p, ch)
  BY DEF Same, Pushing
<1>2. ASSUME NEW at \in Stages PROVE Count(at, ch)' = Count(at, ch)
  <2>1. \A p \in Pushers : Ind(p, at, ch)' = Ind(p, at, ch)
    BY DEF Same, Ind
  <2> QED
    BY <2>1 DEF Count, Pushers, Loops
<1>3. /\ Count("try", ch)' = Count("try", ch) /\ Count("drop", ch)' = Count("drop", ch)
      /\ Count("again", ch)' = Count("again", ch)
  BY <1>2 DEF Stages
<1>4. queue'[ch] = queue[ch] /\ made'[ch] = made[ch] /\ got'[ch] = got[ch] /\ Cap' = Cap
  BY DEF Same, Cap
<1>5. \A p \in Pushers : Pushing(p, ch) => push'[p].item = push[p].item
  BY DEF Same
<1> QED
  BY <1>1, <1>3, <1>4, <1>5 DEF ExcessAt, Balanced

\* The arithmetic of a push: it begins, is sent, finds the channel full, drops an item, or finds it
\* full again.
LEMMA BalanceKept ==
  ASSUME NEW len \in Nat, NEW m \in Nat, NEW cap \in Nat \ {0}, NEW t \in Nat, NEW d \in Nat,
         NEW g \in Nat, len <= cap, t + d + g <= m, Balanced(len, m, cap, t, d, g)
  PROVE  /\ Balanced(len, m + 1, cap, t + 1, d, g)
         /\ t > 0 /\ len < cap => Balanced(len + 1, m, cap, t - 1, d, g)
         /\ t > 0 /\ len = cap => Balanced(len, m, cap, t - 1, d + 1, g)
         /\ d > 0 /\ len > 0 => Balanced(len - 1, m, cap, t, d - 1, g + 1)
         /\ d > 0 /\ len = 0 => Balanced(len, m, cap, t, d - 1, g + 1)
         /\ g > 0 /\ len < cap => Balanced(len + 1, m, cap, t, d, g - 1)
         /\ g > 0 /\ len = cap => Balanced(len, m, cap, t, d, g - 1)
  BY DEF Balanced

LEMMA ExcessStarts ==
  ASSUME TypeOK, NEW ch \in Lossy, ExcessAt(ch), Starts(ch)
  PROVE  ExcessAt(ch)'
<1>1. PICK p \in Pushers : StartPush(p, ch)
  BY DEF Starts
<1>2. queue'[ch] = queue[ch] /\ got'[ch] = got[ch] /\ made'[ch] = made[ch] + 1
      /\ made[ch] \in Nat /\ queue[ch] \in Seq(Nat) /\ Cap' = Cap
  BY <1>1 DEF Starts, StartPush, TypeOK, Channels, Cap
<1>3. /\ push'[p] = [at |-> "try", ch |-> ch, item |-> Item(ch)]
      /\ \A q \in Pushers \ {p} : push'[q] = push[q]
  BY <1>1, PushTyped DEF StartPush
<1>4. Item(ch) >= 1
  BY <1>2 DEF Item
<1>5. \A q \in Pushers : Pushing(q, ch)' => push'[q].item >= 1
  BY <1>3, <1>4 DEF ExcessAt, Pushing, At
<1>6. /\ Ind(p, "try", ch) = 0 /\ Ind(p, "drop", ch) = 0 /\ Ind(p, "again", ch) = 0
      /\ Ind(p, "try", ch)' = 1 /\ Ind(p, "drop", ch)' = 0 /\ Ind(p, "again", ch)' = 0
  BY <1>1, <1>3 DEF StartPush, Idle, Ind, At
<1>7. /\ Count("try", ch)' = Count("try", ch) + 1 /\ Count("drop", ch)' = Count("drop", ch)
      /\ Count("again", ch)' = Count("again", ch)
  BY <1>3, <1>6, CountMoves, Counts
<1>8. Count("try", ch) \in Nat /\ Count("drop", ch) \in Nat /\ Count("again", ch) \in Nat
  BY Counts
<1>9. Cap[ch] \in Nat \ {0} /\ Len(queue[ch]) \in Nat /\ Len(queue[ch]) <= Cap[ch]
  BY <1>2, Capacity DEF Channels, TypeOK
<1>10. \A i \in 1..Len(queue'[ch]) : queue'[ch][i] >= 1
  BY <1>2 DEF ExcessAt
<1> DEFINE t == Count("try", ch)
           d == Count("drop", ch)
           g == Count("again", ch)
<1>11. t + 1 + d + g <= made[ch] + 1
  BY <1>2, <1>8 DEF ExcessAt
<1>12. got[ch] = 0 => Balanced(Len(queue[ch]), made[ch] + 1, Cap[ch], t + 1, d, g)
  <2>1. got[ch] = 0 => Balanced(Len(queue[ch]), made[ch], Cap[ch], t, d, g)
    BY DEF ExcessAt
  <2>2. t + d + g <= made[ch]
    BY DEF ExcessAt
  <2> QED
    BY <1>2, <1>8, <1>9, <2>1, <2>2, BalanceKept
<1> QED
  BY <1>2, <1>5, <1>7, <1>10, <1>11, <1>12 DEF ExcessAt

LEMMA ExcessPushes ==
  ASSUME TypeOK, NEW ch \in Lossy, ExcessAt(ch), Pushes(ch)
  PROVE  ExcessAt(ch)'
<1>1. PICK p \in Pushers : Push(p) /\ push[p].ch = ch
  BY DEF Pushes
<1> DEFINE item == push[p].item
           t == Count("try", ch)
           d == Count("drop", ch)
           g == Count("again", ch)
           len == Len(queue[ch])
<1>2. /\ queue[ch] \in Seq(Nat) /\ item \in Nat /\ made' = made /\ got' = got
      /\ \A q \in Pushers \ {p} : push'[q] = push[q]
  BY <1>1, PushStep
<1>3. Pushing(p, ch) /\ item >= 1
  BY <1>1 DEF Pushing, At, Stages, Push, Try, Drop, Again, ExcessAt
<1>4. /\ made[ch] \in Nat /\ Cap[ch] \in Nat \ {0} /\ len \in Nat /\ len <= Cap[ch] /\ Cap' = Cap
      /\ t \in Nat /\ d \in Nat /\ g \in Nat /\ t + d + g <= made[ch]
  <2>1. made[ch] \in Nat /\ Cap[ch] \in Nat \ {0} /\ len \in Nat /\ len <= Cap[ch]
    BY <1>2, Capacity DEF TypeOK, Channels
  <2>2. Cap' = Cap
    BY DEF Cap
  <2>3. t \in Nat /\ d \in Nat /\ g \in Nat
    BY Counts
  <2>4. t + d + g <= made[ch]
    BY DEF ExcessAt
  <2> QED
    BY <2>1, <2>2, <2>3, <2>4
<1>5. got[ch] = 0 => Balanced(len, made[ch], Cap[ch], t, d, g)
  BY DEF ExcessAt
<1>6. /\ t' = t + Ind(p, "try", ch)' - Ind(p, "try", ch)
      /\ d' = d + Ind(p, "drop", ch)' - Ind(p, "drop", ch)
      /\ g' = g + Ind(p, "again", ch)' - Ind(p, "again", ch)
  BY <1>2, CountMoves
<1>7. t >= Ind(p, "try", ch) /\ d >= Ind(p, "drop", ch) /\ g >= Ind(p, "again", ch)
  BY Counts
<1>8. Ind(p, push[p].at, ch) = 1 /\ \A at \in Stages \ {push[p].at} : Ind(p, at, ch) = 0
  BY <1>1 DEF Ind, At
<1>9. \A q \in Pushers \ {p} : Pushing(q, ch)' => push'[q].item >= 1
  BY <1>2 DEF ExcessAt, Pushing, At
<1>10. (Room(ch) <=> len < Cap[ch]) /\ (~Room(ch) <=> len = Cap[ch])
  BY <1>4 DEF Room
<1>11. CASE /\ push[p].at \in {"try", "again"} /\ Room(ch) /\ push'[p] = NoPush
            /\ queue'[ch] = Append(queue[ch], item)
  <2>1. \A at \in Stages : Ind(p, at, ch)' = 0
    BY <1>11, NoPushIsNone DEF Ind, At, Stages
  <2>2. \A i \in 1..Len(queue'[ch]) : queue'[ch][i] >= 1
    BY <1>2, <1>3, <1>11, Appended DEF ExcessAt
  <2>3. Len(queue'[ch]) = len + 1
    BY <1>2, <1>11, Appended
  <2>4. ~Pushing(p, ch)'
    BY <1>11, NoPushIsNone DEF Pushing, At, Stages
  <2>5. CASE push[p].at = "try"
    <3>1. t' = t - 1 /\ d' = d /\ g' = g /\ t > 0
      BY <1>4, <1>6, <1>7, <1>8, <2>1, <2>5 DEF Stages
    <3>2. got[ch] = 0 => Balanced(len + 1, made[ch], Cap[ch], t - 1, d, g)
      BY <1>4, <1>5, <1>10, <1>11, <3>1, BalanceKept
    <3> QED
      BY <1>2, <1>4, <1>9, <2>2, <2>3, <2>4, <3>1, <3>2 DEF ExcessAt
  <2>6. CASE push[p].at = "again"
    <3>1. t' = t /\ d' = d /\ g' = g - 1 /\ g > 0
      BY <1>4, <1>6, <1>7, <1>8, <2>1, <2>6 DEF Stages
    <3>2. got[ch] = 0 => Balanced(len + 1, made[ch], Cap[ch], t, d, g - 1)
      BY <1>4, <1>5, <1>10, <1>11, <3>1, BalanceKept
    <3> QED
      BY <1>2, <1>4, <1>9, <2>2, <2>3, <2>4, <3>1, <3>2 DEF ExcessAt
  <2> QED
    BY <1>11, <2>5, <2>6
<1>12. CASE /\ push[p].at = "try" /\ ~Room(ch) /\ queue'[ch] = queue[ch]
            /\ push'[p] = [at |-> "drop", ch |-> ch, item |-> item]
  <2>1. t' = t - 1 /\ d' = d + 1 /\ g' = g /\ t > 0
    <3>1. Ind(p, "try", ch)' = 0 /\ Ind(p, "drop", ch)' = 1 /\ Ind(p, "again", ch)' = 0
      BY <1>12 DEF Ind, At
    <3> QED
      BY <1>4, <1>6, <1>7, <1>8, <1>12, <3>1 DEF Stages
  <2>2. got[ch] = 0 => Balanced(len, made[ch], Cap[ch], t - 1, d + 1, g)
    BY <1>4, <1>5, <1>10, <1>12, <2>1, BalanceKept
  <2>3. push'[p].item >= 1
    BY <1>3, <1>12
  <2> QED
    BY <1>2, <1>4, <1>9, <1>12, <2>1, <2>2, <2>3 DEF ExcessAt
<1>13. CASE /\ push[p].at = "drop" /\ queue'[ch] = LoseOldest(queue[ch])
            /\ push'[p] = [at |-> "again", ch |-> ch, item |-> item]
  <2>1. t' = t /\ d' = d - 1 /\ g' = g + 1 /\ d > 0
    <3>1. Ind(p, "try", ch)' = 0 /\ Ind(p, "drop", ch)' = 0 /\ Ind(p, "again", ch)' = 1
      BY <1>13 DEF Ind, At
    <3> QED
      BY <1>4, <1>6, <1>7, <1>8, <1>13, <3>1 DEF Stages
  <2>2. push'[p].item >= 1
    BY <1>3, <1>13
  <2>3. CASE queue[ch] = <<>>
    <3>1. queue'[ch] = queue[ch] /\ len = 0
      BY <1>13, <2>3 DEF LoseOldest
    <3>2. got[ch] = 0 => Balanced(len, made[ch], Cap[ch], t, d - 1, g + 1)
      BY <1>4, <1>5, <2>1, <3>1, BalanceKept
    <3> QED
      BY <1>2, <1>4, <1>9, <2>1, <2>2, <3>1, <3>2 DEF ExcessAt
  <2>4. CASE queue[ch] # <<>>
    <3>1. queue'[ch] = Tail(queue[ch])
      BY <1>13, <2>4 DEF LoseOldest
    <3>2. Len(queue'[ch]) = len - 1 /\ len > 0
      BY <1>2, <2>4, <3>1, Shortened
    <3>3. \A i \in 1..Len(queue'[ch]) : queue'[ch][i] >= 1
      BY <1>2, <2>4, <3>1, Shortened DEF ExcessAt
    <3>4. got[ch] = 0 => Balanced(len - 1, made[ch], Cap[ch], t, d - 1, g + 1)
      BY <1>4, <1>5, <2>1, <3>2, BalanceKept
    <3> QED
      BY <1>2, <1>4, <1>9, <2>1, <2>2, <3>2, <3>3, <3>4 DEF ExcessAt
  <2> QED
    BY <2>3, <2>4
<1>14. CASE /\ push[p].at = "again" /\ ~Room(ch) /\ queue'[ch] = queue[ch]
            /\ push'[p] = NoPush
  <2>1. t' = t /\ d' = d /\ g' = g - 1 /\ g > 0
    <3>1. \A at \in Stages : Ind(p, at, ch)' = 0
      BY <1>14, NoPushIsNone DEF Ind, At, Stages
    <3> QED
      BY <1>4, <1>6, <1>7, <1>8, <1>14, <3>1 DEF Stages
  <2>2. got[ch] = 0 => Balanced(len, made[ch], Cap[ch], t, d, g - 1)
    BY <1>4, <1>5, <1>10, <1>14, <2>1, BalanceKept
  <2>3. ~Pushing(p, ch)'
    BY <1>14, NoPushIsNone DEF Pushing, At, Stages
  <2> QED
    BY <1>2, <1>4, <1>9, <1>14, <2>1, <2>2, <2>3 DEF ExcessAt
<1> QED
  BY <1>1, <1>11, <1>12, <1>13, <1>14, PushStep

\* After the first item it receives, a user has got something for good.
LEMMA ExcessReceive ==
  ASSUME TypeOK, NEW ch \in Lossy, ExcessAt(ch), Receive(ch)
  PROVE  ExcessAt(ch)'
<1>1. /\ queue[ch] \in Seq(Nat) /\ queue[ch] # <<>> /\ queue'[ch] = Tail(queue[ch])
      /\ got'[ch] = IF got[ch] >= queue[ch][1] THEN got[ch] ELSE queue[ch][1]
      /\ UNCHANGED <<made, push>>
  BY Received DEF Channels
<1>2. got'[ch] # 0
  BY <1>1, Shortened DEF ExcessAt, TypeOK, Channels
<1>3. \A i \in 1..Len(queue'[ch]) : queue'[ch][i] >= 1
  BY <1>1, Shortened DEF ExcessAt
<1>4. \A at : Count(at, ch)' = Count(at, ch)
  BY <1>1 DEF Count, Ind, At
<1>5. \A p \in Pushers : Pushing(p, ch)' <=> Pushing(p, ch)
  BY <1>1 DEF Pushing, At
<1> QED
  BY <1>1, <1>2, <1>3, <1>4, <1>5 DEF ExcessAt

LEMMA ExcessStep ==
  ASSUME TypeOK, Excess, [Next]_vars
  PROVE  Excess'
<1> SUFFICES ASSUME NEW ch \in Lossy PROVE ExcessAt(ch)'
  BY DEF Excess
<1>1. ExcessAt(ch)
  BY DEF Excess
<1> QED
  BY <1>1, StepOf, ExcessSame, ExcessStarts, ExcessPushes, ExcessReceive

LEMMA NoneUnderWay ==
  ASSUME TypeOK, Excess
  PROVE  LosesOnlyTheExcess
<1> SUFFICES ASSUME NEW ch \in Lossy, Quiet(ch), got[ch] = 0
             PROVE  Len(queue[ch]) = Min({made[ch], Cap[ch]})
  BY DEF LosesOnlyTheExcess
<1>1. \A p \in Pushers : \A at \in Stages : ~At(p, at, ch)
  BY DEF Quiet, Idle, At, Stages
<1>2. \A at \in Stages : Count(at, ch) = 0
  BY <1>1 DEF Count, Ind, Pushers, Loops
<1>3. Count("try", ch) = 0 /\ Count("drop", ch) = 0 /\ Count("again", ch) = 0
  BY <1>2 DEF Stages
<1>4. Balanced(Len(queue[ch]), made[ch], Cap[ch], 0, 0, 0)
  BY <1>3 DEF Excess, ExcessAt
<1>5. made[ch] \in Nat /\ Cap[ch] \in Nat /\ Len(queue[ch]) \in Nat /\ Len(queue[ch]) <= Cap[ch]
  BY Capacity DEF TypeOK, Channels
<1>6. Len(queue[ch]) = IF made[ch] <= Cap[ch] THEN made[ch] ELSE Cap[ch]
  BY <1>4, <1>5 DEF Balanced
<1> QED
  BY <1>5, <1>6, MinIs
-----------------------------------------------------------------------------
(***************************************************************************)
(* Connections and the orders.                                             *)
(***************************************************************************)
LEMMA AnnouncedStep ==
  ASSUME TypeOK, Announced, [Next]_vars
  PROVE  Announced'
<1> USE DEF Announced, runVars, serverVars, histVars, chanVars
<1>1. "reconnects" \in Lossy /\ "errs" \in Lossy
  BY DEF Lossy
<1>2. made \in [Lossy -> Nat] /\ conn \in 1..MaxConns /\ starts \in [1..MaxConns -> Nat]
      /\ changes \in Nat /\ MaxConns \in Nat
  BY ConstantsAssumption DEF TypeOK
<1>3. ASSUME NEW p, NEW c \in Lossy \ {"reconnects"}, StartPush(p, c)
      PROVE  made'["reconnects"] = made["reconnects"]
  BY <1>1, <1>2, <1>3 DEF StartPush
<1>4. ASSUME NEW f, f.to # "reconnects", PushRead(f)
      PROVE  made'["reconnects"] = made["reconnects"]
  BY <1>3, <1>4 DEF PushRead
<1>5. ASSUME NEW p \in Pushers, Push(p) PROVE Announced'
  BY <1>5 DEF Push, Try, Drop, Again
<1>6. CASE FrameArrives
  <2>1. PICK f \in OthersRead : PushRead(f)
    BY <1>6 DEF FrameArrives
  <2>2. f.to # "reconnects"
    BY GoesNotToReconnects DEF OthersRead, Reading
  <2> QED
    BY <1>4, <1>6, <2>1, <2>2 DEF FrameArrives
<1>7. CASE OrderArrives
  <2>1. PICK f \in OrdersRead :
          IF f.to = "orders" THEN Deliver /\ UNCHANGED <<made, push>>
          ELSE PushRead(f) /\ UNCHANGED <<queue, run, active>>
    BY <1>7 DEF OrderArrives
  <2>2. CASE f.to = "orders"
    BY <1>7, <2>1, <2>2 DEF OrderArrives, Deliver, EndConnection
  <2>3. CASE f.to # "orders"
    <3>1. f.to # "reconnects"
      BY <2>3, OrdersGo
    <3> QED
      BY <1>4, <1>7, <2>1, <2>3, <3>1 DEF OrderArrives
  <2> QED
    BY <2>2, <2>3
<1>8. CASE DeclareError
  BY <1>1, <1>3, <1>8 DEF DeclareError
<1>9. CASE DialFails
  BY <1>1, <1>3, <1>9 DEF DialFails
<1>10. CASE ConnBreaks
  BY <1>10 DEF ConnBreaks
<1>11. CASE LoopsEnd
  BY <1>11 DEF LoopsEnd
<1>12. CASE DialSucceeds
  <2>1. made'["reconnects"] = made["reconnects"] + 1 /\ conn' = conn + 1
    BY <1>1, <1>2, <1>12 DEF DialSucceeds, Announce, StartPush
  <2> QED
    BY <1>2, <1>12, <2>1 DEF DialSucceeds
<1>13. CASE Resume
  BY <1>13 DEF Resume
<1>14. CASE Subscribed
  BY <1>2, <1>14 DEF Subscribed
<1>15. CASE OrderChanges \/ UNCHANGED vars
  BY <1>15 DEF OrderChanges, vars
<1>16. ASSUME NEW c \in Channels, Receive(c) PROVE Announced'
  BY <1>16 DEF Receive
<1> QED
  BY <1>5, <1>6, <1>7, <1>8, <1>9, <1>10, <1>11, <1>12, <1>13, <1>14, <1>15, <1>16
  DEF Next, Loop, Run

\* The start of a connection, once set, stays; what could not be decoded stays so.
LEMMA HistoryGrows ==
  ASSUME TypeOK, Announced, [Next]_vars
  PROVE  /\ undecoded \subseteq undecoded'
         /\ \A k \in 1..MaxConns : starts[k] # 0 => starts'[k] = starts[k]
<1> USE DEF runVars, serverVars, histVars, chanVars
<1>1. CASE Subscribed
  BY <1>1 DEF Subscribed, Announced, TypeOK
<1>2. CASE ~Subscribed
  BY <1>2 DEF Next, Push, Try, Drop, Again, Loop, FrameArrives, OrderArrives, DeclareError,
     ConnBreaks, Run, LoopsEnd, DialFails, DialSucceeds, Resume, OrderChanges, Receive, vars
<1> QED
  BY <1>1, <1>2

LEMMA JumpStays ==
  ASSUME TypeOK, Announced, [Next]_vars, NEW x \in Nat, NEW y \in Nat, Jump(x, y)
  PROVE  Jump(x, y)'
<1>1. Missing(x, y)' \subseteq Missing(x, y)
  BY HistoryGrows DEF Missing
<1>2. \A k \in 2..MaxConns : x < starts[k] => starts[k] # 0 /\ k \in 1..MaxConns
  BY ConstantsAssumption DEF TypeOK
<1> QED
  BY <1>1, <1>2, HistoryGrows DEF Jump

\* No order is missing before the one that follows at once.
LEMMA NoJump == \A x \in Nat : Jump(x, x + 1)
  BY DEF Jump, Missing

LEMMA LastIs ==
  ASSUME TypeOK
  PROVE  /\ queue["orders"] \in Seq(Nat) /\ got["orders"] \in Nat /\ LastOrder \in Nat
         /\ \A i \in 1..Len(queue["orders"]) : Before(i) \in Nat /\ queue["orders"][i] \in Nat
         /\ LastOrder = IF Len(queue["orders"]) = 0 THEN got["orders"]
                        ELSE queue["orders"][Len(queue["orders"])]
<1>1. queue["orders"] \in Seq(Nat) /\ got["orders"] \in Nat
  BY DEF TypeOK, Channels
<1>2. queue["orders"] = <<>> <=> Len(queue["orders"]) = 0
  BY <1>1
<1>3. \A i \in 1..Len(queue["orders"]) : queue["orders"][i] \in Nat
  BY <1>1
<1>4. Len(queue["orders"]) \in Nat
  BY <1>1
<1> QED
  BY <1>1, <1>2, <1>3, <1>4 DEF LastOrder, Last, Before

\* A step that leaves Orders() and the connection's place in it alone.
LEMMA OrdersAlone ==
  ASSUME TypeOK, Announced, InOrder, [Next]_vars, queue'["orders"] = queue["orders"],
         got'["orders"] = got["orders"], UNCHANGED cursor, active' => active
  PROVE  InOrder'
<1>1. LastOrder' = LastOrder /\ \A i : Before(i)' = Before(i)
  BY DEF LastOrder, Before
<1>2. \A i \in 1..Len(queue["orders"]) : Jump(Before(i), queue["orders"][i])'
  <2> SUFFICES ASSUME NEW i \in 1..Len(queue["orders"])
               PROVE  Jump(Before(i), queue["orders"][i])'
    OBVIOUS
  <2>1. PICK x \in Nat : x = Before(i)
    BY LastIs
  <2>2. PICK y \in Nat : y = queue["orders"][i]
    BY LastIs
  <2>3. Jump(x, y)'
    BY <2>1, <2>2, JumpStays DEF InOrder
  <2>4. Before(i)' = x /\ queue'["orders"][i] = y
    BY <1>1, <2>1, <2>2
  <2> QED
    BY <2>3, <2>4 DEF Jump, Missing
<1>3. active => Jump(LastOrder, cursor + 1)'
  <2> SUFFICES ASSUME active PROVE Jump(LastOrder, cursor + 1)'
    OBVIOUS
  <2>1. PICK x \in Nat : x = LastOrder
    BY LastIs
  <2>2. PICK y \in Nat : y = cursor + 1
    BY DEF TypeOK
  <2>3. Jump(x, y)'
    BY <2>1, <2>2, JumpStays DEF InOrder
  <2>4. LastOrder' = x /\ cursor' + 1 = y
    BY <1>1, <2>1, <2>2
  <2> QED
    BY <2>3, <2>4 DEF Jump, Missing
<1>4. \A i \in 1..Len(queue'["orders"]) : Before(i)' < queue'["orders"][i]
  BY <1>1 DEF InOrder
<1>5. LastOrder' <= cursor'
  BY <1>1 DEF InOrder
<1> QED
  BY <1>2, <1>3, <1>4, <1>5 DEF InOrder

\* A change of an order is read: its event follows the last one, or ends the connection,
\* or is reported as undecodable.
LEMMA OrderArrivesInOrder ==
  ASSUME TypeOK, Announced, InOrder, [Next]_vars, OrderArrives
  PROVE  InOrder'
<1>1. cursor \in Nat /\ cursor' = cursor + 1 /\ UNCHANGED <<got, starts>> /\ active
  BY DEF OrderArrives, TypeOK
<1>2. PICK f \in OrdersRead :
        /\ IF f.to = "orders" THEN Deliver /\ UNCHANGED <<made, push>>
           ELSE PushRead(f) /\ UNCHANGED <<queue, run, active>>
        /\ undecoded' = IF f.to = "errs" THEN undecoded \cup {cursor + 1} ELSE undecoded
  BY DEF OrderArrives
<1>3. PICK x \in Nat : x = LastOrder
  BY LastIs
<1>4. PICK c \in Nat : c = cursor
  BY <1>1
<1>5. x <= c /\ Jump(x, c + 1) /\ Jump(x, c + 1)'
  BY <1>1, <1>3, <1>4, JumpStays DEF InOrder
<1> DEFINE q == queue["orders"]
<1>6. q \in Seq(Nat) /\ queue \in [Channels -> Seq(Nat)] /\ "orders" \in Channels
  BY LastIs DEF TypeOK, Channels
<1>10. PICK n \in Nat : n = Len(q)
  BY <1>6
<1>7. ASSUME NEW i \in 1..n, Before(i)' = Before(i), queue'["orders"][i] = q[i]
      PROVE  Before(i)' < queue'["orders"][i] /\ Jump(Before(i), queue["orders"][i])'
  <2>1. PICK a \in Nat : a = Before(i)
    BY <1>10, LastIs
  <2>2. PICK b \in Nat : b = q[i]
    BY <1>10, LastIs
  <2>3. a < b /\ Jump(a, b)'
    BY <1>10, <2>1, <2>2, JumpStays DEF InOrder
  <2> QED
    BY <1>7, <2>1, <2>2, <2>3 DEF Jump, Missing
<1>8. CASE f.to = "orders" /\ Room("orders")
  <2>1. queue' = [queue EXCEPT !["orders"] = Append(q, c + 1)]
    BY <1>2, <1>4, <1>8 DEF Deliver, Append1
  <2>2. queue'["orders"] = Append(q, c + 1)
    BY <1>6, <2>1
  <2>3. Len(queue'["orders"]) = n + 1 /\ queue'["orders"][n + 1] = c + 1
        /\ \A i \in 1..n : queue'["orders"][i] = q[i]
    BY <1>6, <1>10, <2>2, Appended
  <2>4. LastOrder' = c + 1
    <3>1. queue'["orders"] # <<>>
      BY <2>3
    <3> QED
      BY <2>3, <3>1 DEF LastOrder, Last
  <2>5. Before(n + 1)' = x
    BY <1>1, <1>3, <1>6, <1>10, <2>3, LastIs DEF Before
  <2>6. \A i \in 1..n : Before(i)' = Before(i)
    <3> SUFFICES ASSUME NEW i \in 1..n PROVE Before(i)' = Before(i)
      OBVIOUS
    <3>1. i # 1 => i - 1 \in 1..n
      OBVIOUS
    <3> QED
      BY <1>1, <2>3, <3>1 DEF Before
  <2>7. ASSUME NEW i \in 1..(n + 1)
        PROVE  Before(i)' < queue'["orders"][i] /\ Jump(Before(i), queue["orders"][i])'
    <3>1. CASE i \in 1..n
      BY <1>7, <2>3, <2>6, <3>1
    <3>2. CASE i = n + 1
      <4>1. Before(i)' = x /\ queue'["orders"][i] = c + 1
        BY <2>3, <2>5, <3>2
      <4> QED
        BY <1>5, <4>1 DEF Jump, Missing
    <3> QED
      BY <1>6, <3>1, <3>2
  <2>8. Jump(LastOrder, cursor + 1)'
    BY <1>1, <1>4, <2>4 DEF Jump, Missing
  <2> QED
    BY <1>1, <1>4, <1>10, <2>3, <2>4, <2>7, <2>8 DEF InOrder
<1>9. CASE ~(f.to = "orders" /\ Room("orders"))
  <2>1. queue' = queue
    BY <1>2, <1>9 DEF Deliver, EndConnection
  <2>2. LastOrder' = x /\ \A i : Before(i)' = Before(i)
    BY <1>1, <1>3, <2>1 DEF LastOrder, Before
  <2>3. \A i \in 1..n : Before(i)' < queue'["orders"][i] /\ Jump(Before(i), queue["orders"][i])'
    BY <1>7, <2>1, <2>2
  <2>4. CASE f.to = "orders"
    <3>1. active' = FALSE
      BY <1>2, <1>9, <2>4 DEF Deliver, EndConnection
    <3> QED
      BY <1>1, <1>4, <1>5, <1>10, <2>1, <2>2, <2>3, <3>1 DEF InOrder
  <2>5. CASE f.to # "orders"
    <3>1. undecoded' = undecoded \cup {c + 1}
      BY <1>2, <1>4, <2>5, OrdersGo
    <3>2. (x + 1)..(c + 1) \ undecoded' \subseteq Missing(x, c + 1)
      BY <1>4, <3>1 DEF Missing
    <3>3. Jump(x, c + 2)'
      BY <1>1, <1>5, <3>2, ConstantsAssumption DEF Jump, Missing, TypeOK
    <3>4. Jump(LastOrder, cursor + 1)'
      BY <1>1, <1>4, <2>2, <3>3 DEF Jump, Missing
    <3> QED
      BY <1>1, <1>4, <1>5, <1>10, <2>1, <2>2, <2>3, <3>4 DEF InOrder
  <2> QED
    BY <2>4, <2>5
<1> QED
  BY <1>8, <1>9

\* The new connection's first change is after all that was read before.
LEMMA SubscribedInOrder ==
  ASSUME TypeOK, Announced, InOrder, [Next]_vars, Subscribed
  PROVE  InOrder'
<1>1. /\ cursor \in 0..changes /\ changes \in Nat /\ conn \in 2..MaxConns /\ MaxConns \in Nat
      /\ cursor' = changes /\ starts' = [starts EXCEPT ![conn] = changes + 1]
      /\ UNCHANGED <<queue, got>>
  BY ConstantsAssumption DEF Subscribed, TypeOK, Announced, chanVars
<1>2. LastOrder' = LastOrder /\ \A i : Before(i)' = Before(i)
  BY <1>1 DEF LastOrder, Before
<1>3. LastOrder \in Nat /\ LastOrder <= changes
  BY <1>1, LastIs DEF InOrder
<1>4. starts'[conn] = changes + 1
  BY <1>1 DEF TypeOK
<1>5. Jump(LastOrder, cursor + 1)'
  BY <1>1, <1>2, <1>3, <1>4 DEF Jump
<1>6. \A i \in 1..Len(queue["orders"]) : Jump(Before(i), queue["orders"][i])'
  <2> SUFFICES ASSUME NEW i \in 1..Len(queue["orders"])
               PROVE  Jump(Before(i), queue["orders"][i])'
    OBVIOUS
  <2>1. PICK x \in Nat : x = Before(i)
    BY LastIs
  <2>2. PICK y \in Nat : y = queue["orders"][i]
    BY LastIs
  <2>3. Jump(x, y)'
    BY <2>1, <2>2, JumpStays DEF InOrder
  <2>4. Before(i)' = x /\ queue'["orders"][i] = y
    BY <1>1, <1>2, <2>1, <2>2
  <2> QED
    BY <2>3, <2>4 DEF Jump, Missing
<1> QED
  BY <1>1, <1>2, <1>3, <1>5, <1>6 DEF InOrder

LEMMA ReceiveInOrder ==
  ASSUME TypeOK, Announced, InOrder, [Next]_vars, Receive("orders")
  PROVE  InOrder'
<1> DEFINE q == queue["orders"]
<1>1. /\ q \in Seq(Nat) /\ q # <<>> /\ queue'["orders"] = Tail(q)
      /\ got'["orders"] = IF got["orders"] >= q[1] THEN got["orders"] ELSE q[1]
      /\ UNCHANGED <<starts, undecoded, cursor, active>>
  BY Received DEF Channels, serverVars, histVars
<1>2. Len(q) \in Nat \ {0} /\ Len(Tail(q)) = Len(q) - 1
      /\ \A i \in 1..Len(Tail(q)) : i + 1 \in 1..Len(q) /\ Tail(q)[i] = q[i + 1]
  BY <1>1, Shortened
<1>3. got'["orders"] = q[1] /\ q[1] \in Nat
  <2>1. 1 \in 1..Len(q) /\ Before(1) = got["orders"]
    BY <1>2 DEF Before
  <2> QED
    BY <1>1, <2>1, LastIs DEF InOrder
<1>4. \A i \in 1..Len(Tail(q)) : Before(i)' = Before(i + 1)
  BY <1>1, <1>2, <1>3 DEF Before
<1>5. LastOrder' = LastOrder
  <2>1. CASE Len(q) = 1
    <3>1. queue'["orders"] = <<>>
      BY <1>1, <1>2, <2>1
    <3> QED
      BY <1>3, <2>1, <3>1, LastIs DEF LastOrder
  <2>2. CASE Len(q) # 1
    <3> DEFINE n == Len(q)
               t == Tail(q)
    <3>1. n \in Nat \ {0} /\ Len(t) = n - 1 /\ n # 1 /\ queue'["orders"] = t
      BY <1>1, <1>2, <2>2
    <3>2. Len(t) >= 1 /\ Len(t) = n - 1
      <4> HIDE DEF n, t
      <4> QED
        BY <3>1
    <3>3. queue'["orders"] # <<>> /\ Len(queue'["orders"]) = n - 1
      <4> HIDE DEF n, t
      <4> QED
        BY <3>1, <3>2
    <3>4. Tail(q)[Len(q) - 1] = q[Len(q)]
      BY <1>2, <3>2
    <3> QED
      BY <1>1, <1>2, <2>2, <3>3, <3>4, LastIs DEF LastOrder, Last
  <2> QED
    BY <2>1, <2>2
<1>6. ASSUME NEW i \in 1..Len(Tail(q))
      PROVE  Before(i)' < queue'["orders"][i] /\ Jump(Before(i), queue["orders"][i])'
  <2>1. i + 1 \in 1..Len(q) /\ Before(i)' = Before(i + 1) /\ queue'["orders"][i] = q[i + 1]
    BY <1>1, <1>2, <1>4
  <2>2. Before(i + 1) < q[i + 1] /\ Jump(Before(i + 1), q[i + 1])
    BY <2>1 DEF InOrder
  <2> QED
    BY <1>1, <2>1, <2>2 DEF Jump, Missing
<1>7. active' => Jump(LastOrder, cursor + 1)'
  BY <1>1, <1>5 DEF InOrder, Jump, Missing
<1> QED
  BY <1>1, <1>5, <1>6, <1>7 DEF InOrder

LEMMA InOrderStep ==
  ASSUME TypeOK, Announced, InOrder, [Next]_vars
  PROVE  InOrder'
<1> USE DEF runVars, serverVars, histVars, chanVars
<1>1. queue \in [Channels -> Seq(Nat)] /\ got \in [Channels -> Nat] /\ "orders" \notin Lossy
      /\ "orders" \in Channels
  BY DEF TypeOK, Lossy, Channels
<1>2. ASSUME NEW p \in Pushers, Push(p) PROVE InOrder'
  <2>1. UNCHANGED <<got, cursor, active>>
    BY <1>2 DEF Push, Try, Drop, Again
  <2>2. push[p].ch # "orders"
    BY <1>1, PushTyped DEF PushRecords
  <2>3. queue'["orders"] = queue["orders"]
    <3>1. \/ queue' = queue
          \/ \E item : Append1(push[p].ch, item)
          \/ \E s : queue' = [queue EXCEPT ![push[p].ch] = s]
      BY <1>2 DEF Push, Try, Drop, Again, SendAgain
    <3> QED
      BY <1>1, <2>2, <3>1 DEF Append1
  <2> QED
    BY <2>1, <2>3, OrdersAlone
<1>3. ASSUME NEW c \in Channels, Receive(c) PROVE InOrder'
  <2>1. CASE c = "orders"
    BY <1>3, <2>1, ReceiveInOrder
  <2>2. CASE c # "orders"
    BY <1>1, <1>3, <2>2, OrdersAlone DEF Receive
  <2> QED
    BY <2>1, <2>2
<1>4. CASE \/ FrameArrives \/ DeclareError \/ ConnBreaks \/ Run \/ OrderChanges
           \/ UNCHANGED vars
  <2>1. UNCHANGED <<queue, got, cursor>> /\ (active' => active)
    BY <1>4 DEF FrameArrives, DeclareError, ConnBreaks, Run, LoopsEnd, DialFails,
       DialSucceeds, Resume, OrderChanges, vars
  <2> QED
    BY <2>1, OrdersAlone
<1> QED
  BY <1>2, <1>3, <1>4, OrderArrivesInOrder, SubscribedInOrder DEF Next, Loop
-----------------------------------------------------------------------------
LEMMA InitLoss == Init => IInv
<1> SUFFICES ASSUME Init PROVE IInv
  OBVIOUS
<1>1. TypeOK
  BY InitType
<1>2. /\ \A ch \in Channels : queue[ch] = <<>> /\ Len(queue[ch]) = 0 /\ got[ch] = 0
      /\ \A ch \in Lossy : ch \in Channels /\ made[ch] = 0
  BY DEF Init, Channels
<1>3. \A p \in Pushers : push[p].at = "none"
  BY NoPushIsNone DEF Init
<1>4. \A p \in Pushers : \A ch \in Lossy : ~Pushing(p, ch) /\ ~At(p, "again", ch)
  BY <1>3 DEF Pushing, At, Stages
<1>5. Numbered
  BY <1>2, <1>4 DEF Numbered, NumberedAt
<1>6. Excess
  <2> SUFFICES ASSUME NEW ch \in Lossy PROVE ExcessAt(ch)
    BY DEF Excess
  <2>1. \A at \in Stages : Count(at, ch) = 0
    BY <1>3 DEF Count, Ind, At, Stages, Pushers, Loops
  <2>2. Count("try", ch) = 0 /\ Count("drop", ch) = 0 /\ Count("again", ch) = 0
    BY <2>1 DEF Stages
  <2> QED
    BY <1>2, <1>4, <2>2 DEF ExcessAt, Balanced
<1>7. Announced
  <2>1. made["reconnects"] = 0
    BY <1>2 DEF Lossy
  <2> QED
    BY <2>1 DEF Init, Announced
<1>8. InOrder
  <2>1. queue["orders"] = <<>> /\ Len(queue["orders"]) = 0 /\ got["orders"] = 0
    BY <1>2 DEF Channels
  <2>2. LastOrder = 0 /\ cursor = 0
    BY <2>1 DEF LastOrder, Init
  <2>3. Jump(0, 0 + 1)
    BY NoJump
  <2> QED
    BY <2>1, <2>2, <2>3 DEF InOrder
<1> QED
  BY <1>1, <1>5, <1>6, <1>7, <1>8 DEF IInv

\* The inductive invariant: the state of each push, the numbers of the items, the
\* connections announced and the orders read fit together at every step.
THEOREM LossInvariance == Spec => []IInv
<1>1. IInv /\ [Next]_vars => IInv'
  <2> SUFFICES ASSUME IInv, [Next]_vars PROVE IInv'
    OBVIOUS
  <2>1. TypeOK' /\ Numbered' /\ Excess'
    BY TypeStep, NumberedStep, ExcessStep DEF IInv
  <2>2. Announced' /\ InOrder'
    BY AnnouncedStep, InOrderStep DEF IInv
  <2> QED
    BY <2>1, <2>2 DEF IInv
<1> QED
  BY <1>1, InitLoss, PTL DEF Spec

\* pushLossy keeps the newest trade, order book and reconnect signal, whatever it drops
\* and however the user's reads fall between its three selects.
THEOREM NewestKept == Spec => []NewestSurvives
<1>1. IInv => NewestSurvives
  BY NewestIsThere DEF IInv, NewestSurvives, Numbered
<1> QED
  BY <1>1, LossInvariance, PTL

\* pushLossy drops no item for which there was room, not even when two loops push errors
\* at once and one of them finds the place the other has made.
THEOREM OnlyTheExcess == Spec => []LosesOnlyTheExcess
<1>1. IInv => LosesOnlyTheExcess
  BY NoneUnderWay DEF IInv
<1> QED
  BY <1>1, LossInvariance, PTL

\* Orders() is in order and, within a connection, complete but for what was reported as
\* undecodable: whatever is missing lies before the start of a later connection.
THEOREM OrdersComplete == Spec => []OrdersLossless
<1>1. IInv => OrdersLossless
  <2> SUFFICES ASSUME IInv, NEW i \in 1..Len(queue["orders"])
               PROVE  /\ OrderLog[i] < OrderLog[i + 1]
                      /\ Jump(OrderLog[i], OrderLog[i + 1])
    BY DEF OrdersLossless, Jump
  <2>1. TypeOK /\ InOrder
    BY DEF IInv
  <2>2. queue["orders"] \in Seq(Nat) /\ got["orders"] \in Nat
    BY <2>1, LastIs
  <2>3. OrderLog[i] = Before(i) /\ OrderLog[i + 1] = queue["orders"][i]
    BY <2>2 DEF OrderLog, Before
  <2> QED
    BY <2>1, <2>3 DEF InOrder
<1> QED
  BY <1>1, LossInvariance, PTL

\* Where order events are missing the user finds the signal: an event of a new connection
\* never reaches Orders() before that connection's Reconnect, or a later one, is in
\* Reconnects() or was received.
THEOREM GapsAreSignalled == Spec => []GapIsSignalled
<1>1. IInv => GapIsSignalled
  <2> SUFFICES ASSUME IInv, NEW k \in 2..MaxConns, starts[k] # 0, Quiet("reconnects")
               PROVE  Newest("reconnects") >= k - 1
    BY DEF GapIsSignalled
  <2>1. "reconnects" \in Lossy \ {"errs"}
    BY DEF Lossy
  <2>2. Newest("reconnects") = made["reconnects"]
    BY <2>1, NewestIsThere DEF IInv, Numbered
  <2>3. k <= conn /\ made["reconnects"] = conn - 1 /\ conn \in Nat
    BY ConstantsAssumption DEF IInv, Announced, TypeOK
  <2> QED
    BY <2>2, <2>3
<1> QED
  BY <1>1, LossInvariance, PTL
-----------------------------------------------------------------------------
(***************************************************************************)
(* The channels of one producer implement LossyChannel.                     *)
(***************************************************************************)
Single == Lossy \ {"errs"}

LEMMA UnderwayIs ==
  ASSUME NEW ch, NEW at
  PROVE  /\ Underway(at, ch) <=> At(Producer(ch), at, ch)
         /\ Underway(at, ch)' <=> At(Producer(ch), at, ch)'
  BY DEF Underway, At

LEMMA ProducerPushes == \A ch : Producer(ch) \in Pushers
  BY DEF Producer, Pushers, Loops

\* A step of EventDelivery as LossyChannel has it.
Stays(ch) ==
  /\ Settled(ch)' = Settled(ch) /\ Offered(ch)' = Offered(ch)
  /\ (Underway("drop", ch)' <=> Underway("drop", ch))

Sends(ch, rest) ==
  Settled(ch)' = Append(rest, Offered(ch) + 1) /\ Offered(ch)' = Offered(ch) + 1

SendsOrdinarily(ch) ==
  /\ ~Underway("drop", ch) /\ Len(Settled(ch)) < Cap[ch] /\ Sends(ch, Settled(ch))
  /\ (Underway("drop", ch)' <=> Underway("drop", ch))

FindsFull(ch) ==
  /\ ~Underway("drop", ch) /\ Len(Settled(ch)) = Cap[ch] /\ Underway("drop", ch)'
  /\ Settled(ch)' = Settled(ch) /\ Offered(ch)' = Offered(ch)

Displaces(ch) ==
  /\ Underway("drop", ch) /\ ~Underway("drop", ch)'
  /\ Sends(ch, IF Settled(ch) = <<>> THEN Settled(ch) ELSE Tail(Settled(ch)))

Receives(ch) ==
  /\ Settled(ch) # <<>> /\ Settled(ch)' = Tail(Settled(ch))
  /\ Offered(ch)' = Offered(ch) /\ (Underway("drop", ch)' <=> Underway("drop", ch))

LEMMA StillFull ==
  ASSUME NEW ch, Underway("drop", ch)' <=> Underway("drop", ch)
  PROVE  UNCHANGED Underway("drop", ch)
  BY DEF Underway

\* The values at each stage, before and after a step.
LEMMA Staged ==
  ASSUME NEW ch
  PROVE  /\ Underway("again", ch) => Settled(ch) = Append(queue[ch], made[ch])
         /\ ~Underway("again", ch) => Settled(ch) = queue[ch]
         /\ Underway("try", ch) \/ Underway("drop", ch) => Offered(ch) = made[ch] - 1
         /\ ~Underway("try", ch) /\ ~Underway("drop", ch) => Offered(ch) = made[ch]
  BY DEF Settled, Offered

LEMMA StagedThen ==
  ASSUME NEW ch
  PROVE  /\ Underway("again", ch)' => Settled(ch)' = Append(queue'[ch], made'[ch])
         /\ ~Underway("again", ch)' => Settled(ch)' = queue'[ch]
         /\ Underway("try", ch)' \/ Underway("drop", ch)' => Offered(ch)' = made'[ch] - 1
         /\ ~Underway("try", ch)' /\ ~Underway("drop", ch)' => Offered(ch)' = made'[ch]
<1>1. CASE Underway("again", ch)'
  BY <1>1 DEF Settled, Offered
<1>2. CASE ~Underway("again", ch)'
  BY <1>2 DEF Settled, Offered
<1> QED
  BY <1>1, <1>2

LEMMA SettledType ==
  ASSUME TypeOK, NEW ch \in Single
  PROVE  /\ queue[ch] \in Seq(Nat) /\ made[ch] \in Nat
         /\ Settled(ch) \in Seq(Nat) /\ Offered(ch) \in Int
         /\ Len(queue[ch]) <= Cap[ch]
<1>1. ch \in Channels /\ ch \in Lossy
  BY DEF Single, Channels
<1>2. queue[ch] \in Seq(Nat) /\ made[ch] \in Nat /\ Len(queue[ch]) <= Cap[ch]
  BY <1>1 DEF TypeOK
<1> QED
  BY <1>2 DEF Settled, Offered

\* Where nothing changes, or a push begins, LossyChannel sees nothing.
LEMMA SameStays ==
  ASSUME NEW ch \in Single, Same(ch)
  PROVE  Stays(ch)
<1>1. \A at \in Stages : Underway(at, ch)' <=> Underway(at, ch)
  BY UnderwayIs, ProducerPushes DEF Same
<1>2. {"try", "drop", "again"} = Stages
  BY DEF Stages
<1> QED
  BY <1>1, <1>2, Staged, StagedThen DEF Stays, Same, Stages

LEMMA StartsStays ==
  ASSUME TypeOK, NEW ch \in Single, Starts(ch)
  PROVE  Stays(ch)
<1>1. PICK p \in Pushers : StartPush(p, ch) /\ p = Producer(ch)
  BY DEF Starts, Single
<1>2. made'[ch] = made[ch] + 1 /\ made[ch] \in Nat
  BY <1>1 DEF StartPush, TypeOK, Single
<1>3. push'[p].at = "try" /\ push'[p].ch = ch
  BY <1>1, PushTyped DEF StartPush
<1>4. \A at \in Stages : ~Underway(at, ch)
  BY <1>1, UnderwayIs DEF StartPush, Idle, At, Stages
<1>5. Underway("try", ch)' /\ ~Underway("drop", ch)' /\ ~Underway("again", ch)'
  BY <1>1, <1>3, UnderwayIs DEF At, Stages
<1>6. queue'[ch] = queue[ch]
  BY DEF Starts
<1> QED
  BY <1>2, <1>4, <1>5, <1>6, Staged, StagedThen DEF Stays, Stages

LEMMA PushSends ==
  ASSUME TypeOK, NEW ch \in Single, NumberedAt(ch), Pushes(ch)
  PROVE  Stays(ch) \/ SendsOrdinarily(ch) \/ FindsFull(ch) \/ Displaces(ch)
<1>0. ch \in Lossy /\ {"try", "drop", "again"} = Stages
  BY DEF Single, Stages
<1>1. PICK p \in Pushers : Push(p) /\ push[p].ch = ch
  BY DEF Pushes
<1>2. Pushing(p, ch) /\ p = Producer(ch) /\ push[p].item = made[ch]
  BY <1>1 DEF Pushing, At, Stages, Push, Try, Drop, Again, NumberedAt
<1>3. /\ queue[ch] \in Seq(Nat) /\ made[ch] \in Nat /\ made' = made
      /\ Len(queue[ch]) <= Cap[ch] /\ Cap[ch] \in Int
  <2>1. made' = made
    BY <1>0, <1>1, PushStep
  <2>2. Cap[ch] \in Nat \ {0}
    BY <1>0, Capacity DEF Channels
  <2> QED
    BY <2>1, <2>2, SettledType
<1>4. \A at \in Stages : /\ Underway(at, ch) <=> push[p].at = at
                         /\ Underway(at, ch)' <=> push'[p].at = at /\ push'[p].ch = ch
  BY <1>1, <1>2, UnderwayIs DEF At
<1>5. NoPush.at \notin Stages
  BY NoPushIsNone DEF Stages
<1>6. CASE /\ push[p].at = "try" /\ Room(ch) /\ push'[p] = NoPush
           /\ queue'[ch] = Append(queue[ch], push[p].item)
  <2>1. /\ Underway("try", ch) /\ ~Underway("drop", ch) /\ ~Underway("again", ch)
        /\ ~Underway("try", ch)' /\ ~Underway("drop", ch)' /\ ~Underway("again", ch)'
    BY <1>0, <1>4, <1>5, <1>6
  <2> QED
    BY <1>2, <1>3, <1>6, <2>1, Staged, StagedThen DEF SendsOrdinarily, Sends, Room
<1>7. CASE /\ push[p].at = "again" /\ Room(ch) /\ push'[p] = NoPush
           /\ queue'[ch] = Append(queue[ch], push[p].item)
  <2>1. /\ ~Underway("try", ch) /\ ~Underway("drop", ch) /\ Underway("again", ch)
        /\ ~Underway("try", ch)' /\ ~Underway("drop", ch)' /\ ~Underway("again", ch)'
    BY <1>0, <1>4, <1>5, <1>7
  <2> QED
    BY <1>2, <1>3, <1>7, <2>1, Staged, StagedThen DEF Stays
<1>8. CASE /\ push[p].at = "try" /\ ~Room(ch) /\ queue'[ch] = queue[ch]
           /\ push'[p] = [at |-> "drop", ch |-> ch, item |-> push[p].item]
  <2>1. /\ Underway("try", ch) /\ ~Underway("drop", ch) /\ ~Underway("again", ch)
        /\ ~Underway("try", ch)' /\ Underway("drop", ch)' /\ ~Underway("again", ch)'
    BY <1>0, <1>4, <1>8
  <2> QED
    BY <1>3, <1>8, <2>1, Staged, StagedThen DEF FindsFull, Room
<1>9. CASE /\ push[p].at = "drop" /\ queue'[ch] = LoseOldest(queue[ch])
           /\ push'[p] = [at |-> "again", ch |-> ch, item |-> push[p].item]
  <2>1. /\ ~Underway("try", ch) /\ Underway("drop", ch) /\ ~Underway("again", ch)
        /\ ~Underway("try", ch)' /\ ~Underway("drop", ch)' /\ Underway("again", ch)'
    BY <1>0, <1>4, <1>9
  <2>2. Settled(ch) = queue[ch] /\ Offered(ch) + 1 = made[ch]
    BY <1>3, <2>1, Staged
  <2>3. Settled(ch)' = Append(LoseOldest(queue[ch]), made[ch]) /\ Offered(ch)' = made[ch]
    BY <1>3, <1>9, <2>1, StagedThen
  <2> QED
    BY <2>1, <2>2, <2>3 DEF Displaces, Sends, LoseOldest
<1>10. CASE push[p].at = "again" /\ ~Room(ch)
  BY <1>1, <1>10 DEF NumberedAt, At
<1> QED
  BY <1>0, <1>1, <1>6, <1>7, <1>8, <1>9, <1>10, PushStep

LEMMA ReceiveReceives ==
  ASSUME TypeOK, NEW ch \in Single, Receive(ch)
  PROVE  Receives(ch)
<1>1. UNCHANGED <<made, push>> /\ queue[ch] # <<>> /\ queue'[ch] = Tail(queue[ch])
  BY Received DEF Single, Channels
<1>2. \A at : Underway(at, ch)' <=> Underway(at, ch)
  BY <1>1 DEF Underway
<1>3. queue[ch] \in Seq(Nat) /\ made[ch] \in Nat
  BY SettledType
<1>4. Tail(Append(queue[ch], made[ch])) = Append(Tail(queue[ch]), made[ch])
  BY <1>1, <1>3
<1>5. Append(queue[ch], made[ch]) # <<>>
  BY <1>3
<1> QED
  BY <1>1, <1>2, <1>4, <1>5, Staged, StagedThen DEF Receives

LEMMA ChannelStep ==
  ASSUME IInv, [Next]_vars, NEW ch \in Single
  PROVE  \/ Stays(ch) \/ SendsOrdinarily(ch) \/ FindsFull(ch) \/ Displaces(ch) \/ Receives(ch)
<1>1. TypeOK /\ NumberedAt(ch) /\ ch \in Lossy
  BY DEF IInv, Numbered, Single
<1> QED
  BY <1>1, StepOf, SameStays, StartsStays, PushSends, ReceiveReceives

LEMMA ChannelInit ==
  ASSUME Init, NEW ch \in Single
  PROVE  Settled(ch) = <<>> /\ Offered(ch) = 0 /\ Underway("drop", ch) = FALSE
<1>1. \A at \in Stages : ~Underway(at, ch)
  BY NoPushIsNone, ProducerPushes DEF Init, Underway, Stages
<1>2. queue[ch] = <<>> /\ made[ch] = 0
  BY DEF Init, Single, Channels
<1> QED
  BY <1>1, <1>2 DEF Settled, Offered, Stages

LEMMA SingleAre == {"trades", "orderbooks", "reconnects"} \subseteq Single
  BY DEF Single, Lossy

\* pushLossy, with the user's reads between its selects, sends to each of the channels of
\* one producer as LossyChannel says: at once, and at the cost of the oldest item only.
THEOREM LossyImplemented == Spec => ImplementsLossyChannel
<1>1. ASSUME Init PROVE Trades!Init /\ Orderbooks!Init /\ Reconnects!Init
  BY <1>1, ChannelInit, SingleAre DEF Trades!Init, Orderbooks!Init, Reconnects!Init
<1>2. ASSUME IInv, IInv', [Next]_vars PROVE [Trades!Next]_(Trades!vars)
  <2>1. \/ Stays("trades") \/ SendsOrdinarily("trades") \/ FindsFull("trades")
        \/ Displaces("trades") \/ Receives("trades")
    BY <1>2, ChannelStep, SingleAre
  <2>2. CASE Stays("trades")
    BY <2>2, StillFull DEF Stays, Trades!vars
  <2>3. CASE SendsOrdinarily("trades")
    BY <2>3, StillFull DEF SendsOrdinarily, Sends, Trades!Next, Trades!Send, Trades!Sent
  <2>4. CASE FindsFull("trades")
    BY <2>4 DEF FindsFull, Trades!Next, Trades!FindFull
  <2>5. CASE Displaces("trades")
    BY <2>5 DEF Displaces, Sends, Trades!Next, Trades!Displace, Trades!Sent
  <2>6. CASE Receives("trades")
    BY <2>6, StillFull DEF Receives, Trades!Next, Trades!Receive
  <2> QED
    BY <2>1, <2>2, <2>3, <2>4, <2>5, <2>6
<1>3. ASSUME IInv, IInv', [Next]_vars PROVE [Orderbooks!Next]_(Orderbooks!vars)
  <2>1. \/ Stays("orderbooks") \/ SendsOrdinarily("orderbooks") \/ FindsFull("orderbooks")
        \/ Displaces("orderbooks") \/ Receives("orderbooks")
    BY <1>3, ChannelStep, SingleAre
  <2>2. CASE Stays("orderbooks")
    BY <2>2, StillFull DEF Stays, Orderbooks!vars
  <2>3. CASE SendsOrdinarily("orderbooks")
    BY <2>3, StillFull DEF SendsOrdinarily, Sends, Orderbooks!Next, Orderbooks!Send, Orderbooks!Sent
  <2>4. CASE FindsFull("orderbooks")
    BY <2>4 DEF FindsFull, Orderbooks!Next, Orderbooks!FindFull
  <2>5. CASE Displaces("orderbooks")
    BY <2>5 DEF Displaces, Sends, Orderbooks!Next, Orderbooks!Displace, Orderbooks!Sent
  <2>6. CASE Receives("orderbooks")
    BY <2>6, StillFull DEF Receives, Orderbooks!Next, Orderbooks!Receive
  <2> QED
    BY <2>1, <2>2, <2>3, <2>4, <2>5, <2>6
<1>4. ASSUME IInv, IInv', [Next]_vars PROVE [Reconnects!Next]_(Reconnects!vars)
  <2>1. \/ Stays("reconnects") \/ SendsOrdinarily("reconnects") \/ FindsFull("reconnects")
        \/ Displaces("reconnects") \/ Receives("reconnects")
    BY <1>4, ChannelStep, SingleAre
  <2>2. CASE Stays("reconnects")
    BY <2>2, StillFull DEF Stays, Reconnects!vars
  <2>3. CASE SendsOrdinarily("reconnects")
    BY <2>3, StillFull DEF SendsOrdinarily, Sends, Reconnects!Next, Reconnects!Send, Reconnects!Sent
  <2>4. CASE FindsFull("reconnects")
    BY <2>4 DEF FindsFull, Reconnects!Next, Reconnects!FindFull
  <2>5. CASE Displaces("reconnects")
    BY <2>5 DEF Displaces, Sends, Reconnects!Next, Reconnects!Displace, Reconnects!Sent
  <2>6. CASE Receives("reconnects")
    BY <2>6, StillFull DEF Receives, Reconnects!Next, Reconnects!Receive
  <2> QED
    BY <2>1, <2>2, <2>3, <2>4, <2>5, <2>6
<1> QED
  BY <1>1, <1>2, <1>3, <1>4, LossInvariance, PTL
  DEF Spec, ImplementsLossyChannel, Trades!Spec, Orderbooks!Spec, Reconnects!Spec

\* What is left in a channel ends with the item sent last, and no item between is missing.
NewestLeft(ch) ==
  \A i \in 1..Len(Settled(ch)) : Settled(ch)[i] = (Offered(ch) - Len(Settled(ch))) + i

LEMMA NewestAppended ==
  ASSUME NEW s \in Seq(Nat), NEW n \in Int, NEW t \in Seq(Nat), t = Append(s, n + 1),
         \A i \in 1..Len(s) : s[i] = (n - Len(s)) + i
  PROVE  \A i \in 1..Len(t) : t[i] = ((n + 1) - Len(t)) + i
<1>1. n + 1 \in Nat
  <2>1. Len(t) = Len(s) + 1 /\ Len(s) \in Nat /\ t[Len(t)] = n + 1
    OBVIOUS
  <2>2. t[Len(t)] \in Nat
    BY <2>1
  <2> QED
    BY <2>1, <2>2
<1>2. Len(t) = Len(s) + 1 /\ Len(s) \in Nat /\ t[Len(s) + 1] = n + 1
      /\ \A i \in 1..Len(s) : t[i] = s[i]
  BY <1>1, Appended
<1> QED
  BY <1>2

LEMMA NewestShortened ==
  ASSUME NEW s \in Seq(Nat), NEW n \in Int, s # <<>>,
         \A i \in 1..Len(s) : s[i] = (n - Len(s)) + i
  PROVE  /\ Tail(s) \in Seq(Nat)
         /\ \A i \in 1..Len(Tail(s)) : Tail(s)[i] = (n - Len(Tail(s))) + i
<1>1. Tail(s) \in Seq(Nat)
  OBVIOUS
<1> QED
  BY <1>1, Shortened

LEMMA NewestStep ==
  ASSUME IInv, IInv', [Next]_vars, NEW ch \in Single, NewestLeft(ch)
  PROVE  NewestLeft(ch)'
<1>1. Settled(ch) \in Seq(Nat) /\ Offered(ch) \in Int
  BY SettledType DEF IInv
<1>2. queue'[ch] \in Seq(Nat) /\ made'[ch] \in Nat
  BY DEF IInv, TypeOK, Single, Channels
<1>3. Settled(ch)' \in Seq(Nat) /\ Offered(ch)' \in Int
  <2>1. Settled(ch)' = queue'[ch] \/ Settled(ch)' = Append(queue'[ch], made'[ch])
    BY StagedThen
  <2>2. Offered(ch)' = made'[ch] \/ Offered(ch)' = made'[ch] - 1
    BY StagedThen
  <2>3. Append(queue'[ch], made'[ch]) \in Seq(Nat)
    BY <1>2
  <2>4. Settled(ch)' \in Seq(Nat)
    BY <1>2, <2>1, <2>3
  <2>5. Offered(ch)' \in Int
    BY <1>2, <2>2
  <2> QED
    BY <2>4, <2>5
<1>4. CASE Stays(ch) \/ FindsFull(ch)
  BY <1>4 DEF NewestLeft, Stays, FindsFull
<1>5. CASE SendsOrdinarily(ch)
  BY <1>1, <1>3, <1>5, NewestAppended DEF NewestLeft, SendsOrdinarily, Sends
<1>6. CASE Displaces(ch)
  <2>1. PICK rest \in Seq(Nat) :
          /\ rest = IF Settled(ch) = <<>> THEN Settled(ch) ELSE Tail(Settled(ch))
          /\ \A i \in 1..Len(rest) : rest[i] = (Offered(ch) - Len(rest)) + i
    BY <1>1, NewestShortened DEF NewestLeft
  <2> QED
    BY <1>1, <1>3, <1>6, <2>1, NewestAppended DEF NewestLeft, Displaces, Sends
<1>7. CASE Receives(ch)
  BY <1>1, <1>7, NewestShortened DEF NewestLeft, Receives
<1> QED
  BY <1>4, <1>5, <1>6, <1>7, ChannelStep

\* For all buffer sizes, what is left in Trades(), Orderbooks() and Reconnects() was sent
\* last, in order and without holes, however reads and drops interleave.
THEOREM NoHolesLeft == Spec => []NoHoles
<1> DEFINE All == \A ch \in Single : NewestLeft(ch)
<1>1. Init => All
  <2> SUFFICES ASSUME Init, NEW ch \in Single PROVE NewestLeft(ch)
    OBVIOUS
  <2>1. Settled(ch) = <<>>
    BY ChannelInit
  <2>2. Len(Settled(ch)) = 0
    BY <2>1
  <2> QED
    BY <2>2 DEF NewestLeft
<1>2. ASSUME IInv, IInv', [Next]_vars, All PROVE All'
  BY <1>2, NewestStep
<1>3. All => NoHoles
  BY SingleAre DEF NewestLeft, NoHoles, Trades!NewestOnly, Orderbooks!NewestOnly,
     Reconnects!NewestOnly
<1> HIDE DEF All
<1> QED
  BY <1>1, <1>2, <1>3, LossInvariance, PTL DEF Spec
=============================================================================
