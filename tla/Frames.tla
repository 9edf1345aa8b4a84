------------------------------- MODULE Frames -------------------------------
(***************************************************************************)
(* What becomes of a frame the server sends (stream/frames.go, and the      *)
(* switches of readLoop and dispatch in stream/stream.go): how it is        *)
(* decoded, which event it is, what makes it one that is reported instead.  *)
(* A topic is the sequence of its parts between colons.  JSON is not        *)
(* spelled out: data says as which events it unmarshals and what it then    *)
(* holds, a missing field being its zero value.                            *)
(***************************************************************************)
EXTENDS Integers, Sequences, SequencesExt

CONSTANTS
  Numerals,  \* the strings that are numbers
  NoData     \* data that is missing or null

NoTopic == <<"">>  \* the empty string

Data == [as : SUBSET {"trade", "orderbook", "order"}, timestamp : BOOLEAN,
         price : Int, volume : Int, event : STRING, orderId : STRING]

\* a websocket message; rejected are the targets an ack turns down (one that turns down
\* several is reported as often), code is that of an error, "" without one
RawFrames == [text : BOOLEAN, json : BOOLEAN, type : STRING, topic : Seq(STRING),
              data : Data \cup {NoData}, rejected : SUBSET Seq(STRING), code : STRING]

ASSUME DataAssumption == Numerals \subseteq STRING \ {""} /\ NoData \notin Data

TradeTypes     == {<<"trade", "kr">>, <<"trade", "us">>}
OrderbookTypes == {<<"orderbook", "kr">>, <<"orderbook", "us">>}
PersonalOrder  == <<"personal", "order">>
-----------------------------------------------------------------------------
\* splitTopic: the last colon separates type and code; neither may be empty
Splits(topic)  == Len(topic) > 1 /\ Front(topic) # <<"">> /\ Last(topic) # ""
TopicType(topic) == IF Splits(topic) THEN Front(topic) ELSE <<>>

\* Mutant: a message is a message, whatever it holds.
AnyMessage(raw) == TRUE

\* a message without a topic or without data would unmarshal to an event of zeros
WellFormed(raw) == raw.topic # NoTopic /\ raw.data # NoData

\* decodeFrame
FrameKind(raw) ==
  CASE ~raw.json -> "undecodable"
    [] raw.json /\ raw.type = "message" ->
         IF WellFormed(raw) THEN "message" ELSE "undecodable"
    [] raw.json /\ raw.type \in {"subscriptions", "error", "pong"} -> raw.type
    [] OTHER -> "unknown"

ErrorCode(raw) == IF raw.code = "" THEN "unknown" ELSE raw.code

\* what Unmarshal fills in of data that is not there
Zero == [as |-> {"trade", "orderbook", "order"}, timestamp |-> FALSE, price |-> 0,
         volume |-> 0, event |-> "", orderId |-> ""]
DataOf(raw) == IF raw.data = NoData THEN Zero ELSE raw.data

\* marketSymbol succeeds
OfMarket(raw, prefix) ==
  Splits(raw.topic) /\ Len(TopicType(raw.topic)) > 1 /\ Head(raw.topic) = prefix

\* a trade without a time, a price or a volume does not exist
TradeIsWhole(d) == d.timestamp /\ d.price > 0 /\ d.volume > 0
OrderIsWhole(d) == d.event # "" /\ d.orderId # ""

\* tradeEvent, orderbookEvent and orderEvent return an event; an order book may be empty
IsTrade(raw) ==
  OfMarket(raw, "trade") /\ "trade" \in DataOf(raw).as /\ TradeIsWhole(DataOf(raw))

IsOrderbook(raw) == OfMarket(raw, "orderbook") /\ "orderbook" \in DataOf(raw).as

IsOrder(raw) ==
  /\ TopicType(raw.topic) = PersonalOrder /\ "order" \in DataOf(raw).as
  /\ Last(raw.topic) \in Numerals /\ OrderIsWhole(DataOf(raw))

EventOrError(ch, isEvent) == IF isEvent THEN ch ELSE "errs"

\* Mutant: a topic that is not known is ignored.
Ignore == "nowhere"

\* a topic that is not known is reported
Unhandled == "errs"

\* dispatch: the channel a message goes to
Dispatch(raw) ==
  LET type == TopicType(raw.topic)
  IN  CASE type \in TradeTypes     -> EventOrError("trades", IsTrade(raw))
        [] type \in OrderbookTypes -> EventOrError("orderbooks", IsOrderbook(raw))
        [] type = PersonalOrder    -> EventOrError("orders", IsOrder(raw))
        [] OTHER                   -> Unhandled

\* readLoop: the channel a frame goes to.  A shutdown is no error, it will be the cause of
\* the reconnect; a frame of a type that is not known is ignored
Goes(raw) ==
  CASE ~raw.text \/ FrameKind(raw) \in {"pong", "unknown"} -> "nowhere"
    [] raw.text /\ FrameKind(raw) = "undecodable" -> "errs"
    [] raw.text /\ FrameKind(raw) = "subscriptions" ->
         IF raw.rejected = {} THEN "nowhere" ELSE "errs"
    [] raw.text /\ FrameKind(raw) = "error" ->
         IF ErrorCode(raw) = "server-shutdown" THEN "nowhere" ELSE "errs"
    [] raw.text /\ FrameKind(raw) = "message" -> Dispatch(raw)
-----------------------------------------------------------------------------
\* What a user may rely on in an event: the server has sent it, a trade with a time, a
\* price and a volume, an order with what happened and which order it is.
Complete(ch, data) ==
  /\ data # NoData
  /\ ch = "trades" => data.timestamp /\ data.price > 0 /\ data.volume > 0
  /\ ch = "orders" => data.event # "" /\ data.orderId # ""
=============================================================================
