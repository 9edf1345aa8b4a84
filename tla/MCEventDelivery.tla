-------------------------- MODULE MCEventDelivery --------------------------
EXTENDS EventDelivery

MCNumerals == {"1", "100"}

\* buffers the user got wrong: New replaces them by their defaults
MCOptions == With(With(Default, "tradeBuffer", 0), "orderBuffer", -1)

Text(type) == [text |-> TRUE, json |-> TRUE, type |-> type, topic |-> NoTopic,
               data |-> NoData, rejected |-> {}, code |-> ""]
Message(topic, data) == [Text("message") EXCEPT !.topic = topic, !.data = data]

Trade  == [as |-> {"trade", "order"}, timestamp |-> TRUE, price |-> 2, volume |-> 1,
           event |-> "", orderId |-> ""]
Filled == [Zero EXCEPT !.event = "FILL", !.orderId = "id"]
KR     == <<"trade", "kr", "005930">>
BookUS == <<"orderbook", "us", "AAPL">>
Own    == <<"personal", "order", "1">>

\* events, and frames with something missing: data, a value, a market, the meaning
MCOtherFrames ==
  {Message(KR, Trade), Message(KR, NoData), Message(KR, Zero),
   Message(KR, [Trade EXCEPT !.price = 0]), Message(KR, [Trade EXCEPT !.as = {}]),
   Message(<<"trade", "jp", "7203">>, Trade), Message(BookUS, Zero), Message(BookUS, NoData),
   [Text("subscriptions") EXCEPT !.rejected = {KR}], Text("subscriptions"), Text("error"),
   [Text("error") EXCEPT !.code = "server-shutdown"], Text("pong"), Text("news"),
   [Text("message") EXCEPT !.text = FALSE]}

MCOrderFrames ==
  {Message(Own, Filled), Message(Own, NoData), Message(Own, Zero),
   Message(<<"personal", "order", "one">>, Filled), Message(<<"personal", "fund", "1">>, Filled),
   Message(<<"orders">>, Filled), [Text("message") EXCEPT !.json = FALSE]}
=============================================================================
