-------------------------- MODULE ClientCallsProofs --------------------------
(***************************************************************************)
(* What OrderRequests and Queries say of requests, for all decimals and all *)
(* arguments; then the same of every call of the client.                    *)
(***************************************************************************)
EXTENDS ClientCalls, TLAPS

\* A condition that passes Condition.validate is sent as a leg docs/api allows.
LEMMA ValidLegConforms ==
  ASSUME NEW c \in Conditions, NEW ot \in OrderTypes, ConditionValid(c, ot)
  PROVE  LegConforms(ConditionBody(c), ot)
<1>1. c.side \in Sides /\ c.trigger \in Int /\ c.price \in Int /\ c.price \in Decimals
  BY DataAssumption DEF Conditions, OrNone, ConditionValid
<1>2. c.side = ConditionBody(c).side /\ c.trigger = ConditionBody(c).trigger
  BY DEF ConditionBody
<1>3. PriceFits(ConditionBody(c).price, ot)
  <2>1. CASE ot = "LIMIT"
    <3>1. c.price > 0 /\ ConditionBody(c).price = c.price
      BY <2>1 DEF ConditionValid, ConditionBody, Positive
    <3>2. c.price # Nil
      BY <1>1, DataAssumption
    <3>. QED  BY <2>1, <3>1, <3>2 DEF PriceFits
  <2>2. CASE ot = "MARKET"
    <3>1. c.price = 0
      BY <2>2 DEF ConditionValid
    <3>2. ConditionBody(c).price = Nil
      BY <3>1 DEF ConditionBody, Positive
    <3>. QED  BY <2>2, <3>2 DEF PriceFits
  <2>. QED  BY <2>1, <2>2 DEF OrderTypes
<1>. QED  BY <1>1, <1>2, <1>3 DEF LegConforms, ConditionValid, Positive

\* The body of a condition is not the missing leg.
LEMMA LegIsThere ==
  ASSUME NEW c \in Conditions
  PROVE  ConditionBody(c) \in LegBodies /\ ConditionBody(c) # Nil
<1>1. ConditionBody(c) \in LegBodies
  BY DEF Conditions, ConditionBody, LegBodies, OrNil
<1>. QED  BY <1>1, DataAssumption

\* A body says everything of a valid condition: the price it leaves out is 0.
LEMMA LegReadsBack ==
  ASSUME NEW c \in Conditions, NEW ot \in OrderTypes, ConditionValid(c, ot)
  PROVE  SaidLeg(ConditionBody(c)) = c
<1>1. c.price \in Int /\ c.price \in Decimals
  BY DataAssumption DEF Conditions
<1>2. Said(ConditionBody(c).price) = c.price
  <2>1. CASE Positive(c.price)
    <3>1. ConditionBody(c).price = c.price
      BY <2>1 DEF ConditionBody
    <3>. QED  BY <1>1, <3>1, DataAssumption DEF Said
  <2>2. CASE ~Positive(c.price)
    <3>1. c.price = 0
      BY <1>1, <2>2 DEF ConditionValid, OrderTypes, Positive
    <3>2. ConditionBody(c).price = Nil
      BY <2>2 DEF ConditionBody
    <3>. QED  BY <3>1, <3>2 DEF Said
  <2>. QED  BY <2>1, <2>2
<1>3. SaidLeg(ConditionBody(c)) = [ConditionBody(c) EXCEPT !.price = c.price]
  BY <1>2, LegIsThere DEF SaidLeg
<1>4. c = [side |-> c.side, trigger |-> c.trigger, price |-> c.price]
  BY DEF Conditions
<1>. QED  BY <1>3, <1>4 DEF ConditionBody

\* Every body that is sent is one docs/api allows, for all decimals: no combination of
\* type, order type, sides, triggers and prices that passes the validation of Place,
\* PlaceAmount and Modify contradicts the schemas.
THEOREM BodiesConform == SentConforms
<1>1. ASSUME NEW r \in Placements, PlaceValid(r)
      PROVE  OrderConforms(PlaceRequest(r).body)
  <2>1. /\ r.side \in Sides /\ r.orderType \in OrderTypes
        /\ r.quantity \in Int /\ r.price \in Int /\ r.price \in Decimals
    BY <1>1, DataAssumption DEF Placements, OrNone, PlaceValid
  <2>2. PriceFits(IF r.price = 0 THEN Nil ELSE r.price, r.orderType)
    <3>1. CASE r.orderType = "LIMIT"
      <4>1. Positive(r.price)
        BY <1>1, <3>1 DEF PlaceValid
      <4>2. r.price > 0 /\ r.price # 0
        BY <2>1, <4>1 DEF Positive
      <4>3. r.price # Nil
        BY <2>1, DataAssumption
      <4>. QED  BY <3>1, <4>2, <4>3 DEF PriceFits
    <3>2. CASE r.orderType = "MARKET"
      <4>1. r.price = 0
        BY <1>1, <3>2 DEF PlaceValid
      <4>. QED  BY <3>2, <4>1 DEF PriceFits
    <3>. QED  BY <2>1, <3>1, <3>2 DEF OrderTypes
  <2>. QED  BY <1>1, <2>1, <2>2 DEF OrderConforms, PlaceRequest, Post, PlaceValid, Positive
<1>2. ASSUME NEW r \in AmountPlacements, AmountValid(r)
      PROVE  OrderConforms(AmountRequest(r).body)
  <2>1. r.side \in Sides
    BY <1>2 DEF AmountPlacements, OrNone, AmountValid
  <2>. QED  BY <1>2, <2>1
         DEF OrderConforms, AmountRequest, Post, AmountValid, Positive, PriceFits, OrderTypes
<1>3. ASSUME NEW r \in Modifications, ModifyValid(r)
      PROVE  ModificationConforms(ModifyRequest(r).body)
  <2>1. r.orderType \in OrderTypes
    BY <1>3 DEF Modifications, OrNone, ModifyValid
  <2>2. PriceFits(r.price, r.orderType)
    BY <1>3, <2>1 DEF ModifyValid, Positive, PriceFits, OrderTypes
  <2>. QED  BY <1>3, <2>1, <2>2
         DEF ModificationConforms, ModifyRequest, Post, ModifyValid, Positive, IsInteger
<1>4. ASSUME NEW g \in Groups, GroupValid(g)
      PROVE  GroupConforms(GroupBody(g, ""))
  <2> DEFINE b == GroupBody(g, "")
  <2>1. /\ g.type \in GroupTypes /\ g.orderType \in OrderTypes
        /\ g.first \in Conditions /\ g.second \in OrNil(Conditions)
    BY <1>4 DEF Groups, OrNone, GroupValid
  <2>2. LegConforms(ConditionBody(g.first), g.orderType)
    BY <1>4, <2>1, ValidLegConforms DEF GroupValid
  <2>3. /\ b.type = g.type /\ b.orderType = g.orderType /\ b.quantity = g.quantity
        /\ b.first = ConditionBody(g.first)
        /\ b.second = IF g.second = Nil THEN Nil ELSE ConditionBody(g.second)
    BY DEF GroupBody
  <2>4. b.quantity > 0
    BY <1>4, <2>3 DEF GroupValid, Positive
  <2>5. CASE g.type = "SINGLE"
    <3>1. b.second = Nil
      BY <1>4, <2>3, <2>5 DEF GroupValid, LegsFit
    <3>. QED  BY <2>1, <2>2, <2>3, <2>4, <2>5, <3>1 DEF GroupConforms
  <2>6. CASE g.type \in {"OCO", "OTO"}
    <3>1. g.second \in Conditions /\ g.orderType = "LIMIT"
      BY <1>4, <2>1, <2>6 DEF GroupValid, LegsFit, OrNil
    <3>2. b.second = ConditionBody(g.second) /\ b.second # Nil
      BY <1>4, <2>3, <2>6, <3>1, LegIsThere DEF GroupValid, LegsFit
    <3>3. LegConforms(b.second, "LIMIT")
      <4>1. ConditionValid(g.second, "LIMIT")
        BY <1>4, <2>6, <3>1 DEF GroupValid, LegsFit
      <4>. QED  BY <3>1, <3>2, <4>1, ValidLegConforms DEF OrderTypes
    <3>4. /\ g.type = "OTO" => g.first.side = "BUY"
          /\ g.type = "OCO" => g.first.side = "SELL" /\ g.first.trigger > g.second.trigger
          /\ g.second.side = "SELL"
      BY <1>4, <2>6 DEF GroupValid, LegsFit
    <3>5. /\ b.first.side = g.first.side /\ b.first.trigger = g.first.trigger
          /\ b.second.side = g.second.side /\ b.second.trigger = g.second.trigger
      <4>1. ASSUME NEW c
            PROVE  ConditionBody(c).side = c.side /\ ConditionBody(c).trigger = c.trigger
        BY DEF ConditionBody
      <4>. QED  BY <2>3, <3>2, <4>1
    <3>6. g.first.trigger \in Int /\ g.second.trigger \in Int
      BY <2>1, <3>1, DataAssumption DEF Conditions
    <3>7. /\ b.second.side = "SELL"
          /\ IF b.type = "OTO" THEN b.first.side = "BUY"
             ELSE b.first.side = "SELL" /\ b.second.trigger < b.first.trigger
      BY <2>3, <2>6, <3>4, <3>5, <3>6
    <3>. QED  BY <2>1, <2>2, <2>3, <2>4, <2>6, <3>1, <3>2, <3>3, <3>7 DEF GroupConforms
  <2>. QED  BY <2>1, <2>5, <2>6 DEF GroupTypes
<1>. QED  BY <1>1, <1>2, <1>3, <1>4 DEF SentConforms

\* What was asked for is what is sent, for all decimals.
THEOREM BodiesSayAll == NothingLost
<1>1. ASSUME NEW r \in Placements, PlaceValid(r)
      PROVE  Said(PlaceRequest(r).body.price) = r.price
  <2>1. r.price \in Decimals /\ PlaceRequest(r).body.price = IF r.price = 0 THEN Nil ELSE r.price
    BY DEF Placements, PlaceRequest, Post
  <2>. QED  BY <2>1, DataAssumption DEF Said
<1>2. ASSUME NEW g \in Groups, GroupValid(g)
      PROVE  /\ SaidLeg(GroupBody(g, "").first) = g.first
             /\ SaidLeg(GroupBody(g, "").second) = g.second
  <2>1. /\ g.orderType \in OrderTypes
        /\ g.first \in Conditions /\ g.second \in OrNil(Conditions)
    BY <1>2 DEF Groups, OrNone, GroupValid
  <2>2. /\ GroupBody(g, "").first = ConditionBody(g.first)
        /\ GroupBody(g, "").second = IF g.second = Nil THEN Nil ELSE ConditionBody(g.second)
    BY DEF GroupBody
  <2>3. SaidLeg(GroupBody(g, "").first) = g.first
    BY <1>2, <2>1, <2>2, LegReadsBack DEF GroupValid
  <2>4. SaidLeg(GroupBody(g, "").second) = g.second
    <3>1. CASE g.second = Nil
      BY <2>2, <3>1 DEF SaidLeg
    <3>2. CASE g.second # Nil
      BY <1>2, <2>1, <2>2, <3>2, LegReadsBack DEF GroupValid, OrNil
    <3>. QED  BY <3>1, <3>2
  <2>. QED  BY <2>3, <2>4
<1>. QED  BY <1>1, <1>2 DEF NothingLost

-----------------------------------------------------------------------------
\* What a method takes is what docs/api gives the resource it reads, but for the symbols of
\* one: the client lets any name of an indicator pass where the document lists two.
SameAccount(m) ==
  LET d == Documented[m.name]
  IN  \/ m.account = TRUE /\ d.account = TRUE
      \/ m.account = FALSE /\ d.account = FALSE

SameFields(m) ==
  LET d == Documented[m.name]
  IN  /\ m.arity \in Arities
      /\ m.required \subseteq Texts /\ m.optional \subseteq Texts \cup Numbers
      /\ d.required = m.required \cup (IF m.arity = "one" THEN {"symbol"}
                                       ELSE IF m.arity = "many" THEN {"symbols"} ELSE {})
      /\ d.optional = m.optional \cup (IF m.arity = "optional" THEN {"symbol"} ELSE {})

SameSymbols(m) ==
  LET d == Documented[m.name]
  IN  /\ d.symbols = (IF m.name = "indicatorTrading" THEN {"index"} ELSE m.words)
      /\ m.name = "indicatorTrading" => {"index"} \subseteq m.words
      /\ d.most \in Nat

Agrees(m) == SameAccount(m) /\ SameFields(m) /\ SameSymbols(m)

LEMMA MethodsAgree == \A m \in Methods : Agrees(m)
<1>. USE DEF Operation, Shape
<1>1. /\ Documented.accounts = Operation(FALSE, {}, {}, {}, 0)
      /\ Documented.holdings = Operation(TRUE, {}, {"symbol"}, Ticker, 0)
      /\ Documented.candles =
           Operation(FALSE, {"symbol", "interval"}, {"count", "before", "adjusted"}, Ticker, 200)
      /\ Documented.orderbook = Operation(FALSE, {"symbol"}, {}, Ticker, 0)
  BY DEF Documented
<1>2. /\ Accounts.account = FALSE /\ Documented[Accounts.name].account = FALSE
      /\ Holdings.account = TRUE /\ Documented[Holdings.name].account = TRUE
      /\ Candles.account = FALSE /\ Documented[Candles.name].account = FALSE
      /\ Orderbook.account = FALSE /\ Documented[Orderbook.name].account = FALSE
  BY <1>1 DEF Accounts, Holdings, Candles, Orderbook
<1>3. /\ SameAccount(Accounts) /\ SameAccount(Holdings) /\ SameAccount(Candles)
      /\ SameAccount(Orderbook)
  BY <1>2, Zenon DEF SameAccount
<1>4. /\ SameFields(Accounts) /\ SameFields(Holdings) /\ SameFields(Candles)
      /\ SameFields(Orderbook)
  BY <1>1 DEF SameFields, Accounts, Holdings, Candles, Orderbook, Arities, Texts, Numbers
<1>5. /\ SameSymbols(Accounts) /\ SameSymbols(Holdings) /\ SameSymbols(Candles)
      /\ SameSymbols(Orderbook)
  BY <1>1 DEF SameSymbols, Accounts, Holdings, Candles, Orderbook, StockWords,
        IndicatorWords, Ticker, Catalog, Index
<1>6. Agrees(Accounts) /\ Agrees(Holdings) /\ Agrees(Candles) /\ Agrees(Orderbook)
  BY <1>3, <1>4, <1>5 DEF Agrees
<1>7. /\ Documented.priceLimits = Operation(FALSE, {"symbol"}, {}, Ticker, 0)
      /\ Documented.prices = Operation(FALSE, {"symbols"}, {}, Ticker, 0)
      /\ Documented.trades = Operation(FALSE, {"symbol"}, {"count"}, Ticker, 50)
      /\ Documented.marketCalendar = Operation(FALSE, {}, {"date"}, {}, 0)
  BY DEF Documented
<1>8. /\ PriceLimits.account = FALSE /\ Documented[PriceLimits.name].account = FALSE
      /\ Prices.account = FALSE /\ Documented[Prices.name].account = FALSE
      /\ Trades.account = FALSE /\ Documented[Trades.name].account = FALSE
      /\ MarketCalendar.account = FALSE /\ Documented[MarketCalendar.name].account = FALSE
  BY <1>7 DEF PriceLimits, Prices, Trades, MarketCalendar
<1>9. /\ SameAccount(PriceLimits) /\ SameAccount(Prices) /\ SameAccount(Trades)
      /\ SameAccount(MarketCalendar)
  BY <1>8, Zenon DEF SameAccount
<1>10. /\ SameFields(PriceLimits) /\ SameFields(Prices) /\ SameFields(Trades)
       /\ SameFields(MarketCalendar)
  BY <1>7 DEF SameFields, PriceLimits, Prices, Trades, MarketCalendar, Arities, Texts,
        Numbers
<1>11. /\ SameSymbols(PriceLimits) /\ SameSymbols(Prices) /\ SameSymbols(Trades)
       /\ SameSymbols(MarketCalendar)
  BY <1>7 DEF SameSymbols, PriceLimits, Prices, Trades, MarketCalendar, StockWords,
        IndicatorWords, Ticker, Catalog, Index
<1>12. Agrees(PriceLimits) /\ Agrees(Prices) /\ Agrees(Trades) /\ Agrees(MarketCalendar)
  BY <1>9, <1>10, <1>11 DEF Agrees
<1>13. /\ Documented.exchangeRate =
           Operation(FALSE, {"baseCurrency", "quoteCurrency"}, {"dateTime"}, {}, 0)
      /\ Documented.indicatorCandles =
           Operation(FALSE, {"symbol", "interval"}, {"count", "before"}, Catalog, 200)
      /\ Documented.indicatorPrices = Operation(FALSE, {"symbols"}, {}, Catalog, 0)
      /\ Documented.indicatorTrading =
           Operation(FALSE, {"symbol", "interval"}, {"count", "until"}, Index, 100)
  BY DEF Documented
<1>14. /\ ExchangeRate.account = FALSE /\ Documented[ExchangeRate.name].account = FALSE
      /\ IndicatorCandles.account = FALSE /\ Documented[IndicatorCandles.name].account = FALSE
      /\ IndicatorPrices.account = FALSE /\ Documented[IndicatorPrices.name].account = FALSE
      /\ IndicatorTrading.account = FALSE /\ Documented[IndicatorTrading.name].account = FALSE
  BY <1>13 DEF ExchangeRate, IndicatorCandles, IndicatorPrices, IndicatorTrading
<1>15. /\ SameAccount(ExchangeRate) /\ SameAccount(IndicatorCandles)
       /\ SameAccount(IndicatorPrices) /\ SameAccount(IndicatorTrading)
  BY <1>14, Zenon DEF SameAccount
<1>16. /\ SameFields(ExchangeRate) /\ SameFields(IndicatorCandles)
       /\ SameFields(IndicatorPrices) /\ SameFields(IndicatorTrading)
  BY <1>13 DEF SameFields, ExchangeRate, IndicatorCandles, IndicatorPrices,
        IndicatorTrading, Arities, Texts, Numbers
<1>17. /\ SameSymbols(ExchangeRate) /\ SameSymbols(IndicatorCandles)
       /\ SameSymbols(IndicatorPrices) /\ SameSymbols(IndicatorTrading)
  BY <1>13 DEF SameSymbols, ExchangeRate, IndicatorCandles, IndicatorPrices,
        IndicatorTrading, StockWords, IndicatorWords, Ticker, Catalog, Index
<1>18. /\ Agrees(ExchangeRate) /\ Agrees(IndicatorCandles) /\ Agrees(IndicatorPrices)
       /\ Agrees(IndicatorTrading)
  BY <1>15, <1>16, <1>17 DEF Agrees
<1>19. /\ Documented.rankings =
           Operation(FALSE, {"type", "marketCountry", "duration"},
                     {"excludeInvestmentCaution", "count"}, {}, 100)
      /\ Documented.stocks = Operation(FALSE, {"symbols"}, {}, Ticker, 0)
      /\ Documented.listStocks =
           Operation(FALSE, {"market"}, {"status", "securityType", "commonShare"}, {}, 0)
      /\ Documented.warnings = Operation(FALSE, {"symbol"}, {}, Ticker, 0)
  BY DEF Documented
<1>20. /\ Rankings.account = FALSE /\ Documented[Rankings.name].account = FALSE
      /\ Stocks.account = FALSE /\ Documented[Stocks.name].account = FALSE
      /\ ListStocks.account = FALSE /\ Documented[ListStocks.name].account = FALSE
      /\ Warnings.account = FALSE /\ Documented[Warnings.name].account = FALSE
  BY <1>19 DEF Rankings, Stocks, ListStocks, Warnings
<1>21. /\ SameAccount(Rankings) /\ SameAccount(Stocks) /\ SameAccount(ListStocks)
       /\ SameAccount(Warnings)
  BY <1>20, Zenon DEF SameAccount
<1>22. /\ SameFields(Rankings) /\ SameFields(Stocks) /\ SameFields(ListStocks)
       /\ SameFields(Warnings)
  BY <1>19 DEF SameFields, Rankings, Stocks, ListStocks, Warnings, Arities, Texts, Numbers
<1>23. /\ SameSymbols(Rankings) /\ SameSymbols(Stocks) /\ SameSymbols(ListStocks)
       /\ SameSymbols(Warnings)
  BY <1>19 DEF SameSymbols, Rankings, Stocks, ListStocks, Warnings, StockWords,
        IndicatorWords, Ticker, Catalog, Index
<1>24. Agrees(Rankings) /\ Agrees(Stocks) /\ Agrees(ListStocks) /\ Agrees(Warnings)
  BY <1>21, <1>22, <1>23 DEF Agrees
<1>25. /\ Documented.trend = Operation(FALSE, {"symbol"}, {"count", "until"}, Ticker, 100)
      /\ Documented.listOrders =
           Operation(TRUE, {"status"}, {"symbol", "from", "to", "cursor", "limit"},
                     Ticker, 100)
      /\ Documented.getOrder = Operation(TRUE, {"id"}, {}, {}, 0)
      /\ Documented.buyingPower = Operation(TRUE, {"currency"}, {}, {}, 0)
  BY DEF Documented
<1>26. /\ Trend.account = FALSE /\ Documented[Trend.name].account = FALSE
      /\ ListOrders.account = TRUE /\ Documented[ListOrders.name].account = TRUE
      /\ GetOrder.account = TRUE /\ Documented[GetOrder.name].account = TRUE
      /\ BuyingPower.account = TRUE /\ Documented[BuyingPower.name].account = TRUE
  BY <1>25 DEF Trend, ListOrders, GetOrder, BuyingPower
<1>27. /\ SameAccount(Trend) /\ SameAccount(ListOrders) /\ SameAccount(GetOrder)
       /\ SameAccount(BuyingPower)
  BY <1>26, Zenon DEF SameAccount
<1>28. /\ SameFields(Trend) /\ SameFields(ListOrders) /\ SameFields(GetOrder)
       /\ SameFields(BuyingPower)
  BY <1>25 DEF SameFields, Trend, ListOrders, GetOrder, BuyingPower, Arities, Texts, Numbers
<1>29. /\ SameSymbols(Trend) /\ SameSymbols(ListOrders) /\ SameSymbols(GetOrder)
       /\ SameSymbols(BuyingPower)
  BY <1>25 DEF SameSymbols, Trend, ListOrders, GetOrder, BuyingPower, StockWords,
        IndicatorWords, Ticker, Catalog, Index
<1>30. Agrees(Trend) /\ Agrees(ListOrders) /\ Agrees(GetOrder) /\ Agrees(BuyingPower)
  BY <1>27, <1>28, <1>29 DEF Agrees
<1>31. /\ Documented.sellableQuantity = Operation(TRUE, {"symbol"}, {}, Ticker, 0)
      /\ Documented.commissions = Operation(TRUE, {}, {}, {}, 0)
      /\ Documented.listGroups =
           Operation(TRUE, {"status"}, {"symbol", "cursor", "limit"}, Ticker, 100)
      /\ Documented.getGroup = Operation(TRUE, {"id"}, {}, {}, 0)
  BY DEF Documented
<1>32. /\ SellableQuantity.account = TRUE /\ Documented[SellableQuantity.name].account = TRUE
      /\ Commissions.account = TRUE /\ Documented[Commissions.name].account = TRUE
      /\ ListGroups.account = TRUE /\ Documented[ListGroups.name].account = TRUE
      /\ GetGroup.account = TRUE /\ Documented[GetGroup.name].account = TRUE
  BY <1>31 DEF SellableQuantity, Commissions, ListGroups, GetGroup
<1>33. /\ SameAccount(SellableQuantity) /\ SameAccount(Commissions) /\ SameAccount(ListGroups)
       /\ SameAccount(GetGroup)
  BY <1>32, Zenon DEF SameAccount
<1>34. /\ SameFields(SellableQuantity) /\ SameFields(Commissions) /\ SameFields(ListGroups)
       /\ SameFields(GetGroup)
  BY <1>31 DEF SameFields, SellableQuantity, Commissions, ListGroups, GetGroup, Arities,
        Texts, Numbers
<1>35. /\ SameSymbols(SellableQuantity) /\ SameSymbols(Commissions) /\ SameSymbols(ListGroups)
       /\ SameSymbols(GetGroup)
  BY <1>31 DEF SameSymbols, SellableQuantity, Commissions, ListGroups, GetGroup,
        StockWords, IndicatorWords, Ticker, Catalog, Index
<1>36. /\ Agrees(SellableQuantity) /\ Agrees(Commissions) /\ Agrees(ListGroups)
       /\ Agrees(GetGroup)
  BY <1>33, <1>34, <1>35 DEF Agrees
<1>. QED  BY <1>6, <1>12, <1>18, <1>24, <1>30, <1>36, Zenon DEF Methods

\* How many symbols a call has, by the arity of its method.
LEMMA SymbolsHeld ==
  ASSUME NEW q \in Reads
  PROVE  /\ q.number \in Nat
         /\ q.of.arity = "none" => q.number = 0
         /\ q.of.arity = "optional" => q.number \in {0, 1}
         /\ q.of.arity = "one" => q.number = 1
<1>1. q.number \in Nat /\ q.number \in Held(q.of.arity)
  BY DEF Reads
<1>2. ASSUME q.of.arity = "none" PROVE q.number = 0
  BY <1>1, <1>2, Zenon DEF Held
<1>3. ASSUME q.of.arity = "optional" PROVE q.number \in {0, 1}
  BY <1>1, <1>3, Zenon DEF Held
<1>4. ASSUME q.of.arity = "one" PROVE q.number = 1
  BY <1>1, <1>4, Zenon DEF Held
<1>. QED  BY <1>1, <1>2, <1>3, <1>4

\* The parameters of a request are those of the document exactly if none is missing.
LEMMA FieldsConform ==
  ASSUME NEW q \in Reads
  PROVE  LET d == Documented[q.of.name]  fields == ReadRequest(q).fields
         IN  d.required \subseteq fields /\ fields \subseteq d.required \cup d.optional
             <=> q.of.required \subseteq q.set /\ (q.of.arity = "many" => q.number # 0)
<1> DEFINE d == Documented[q.of.name]
           fields == ReadRequest(q).fields
<1>1. /\ Agrees(q.of) /\ q.set \subseteq Texts
      /\ q.set \subseteq q.of.required \cup q.of.optional
  BY MethodsAgree DEF Reads
<1>2. fields = (q.of.required \cap q.set) \cup Kept(q) \cup SymbolField(q)
  BY DEF ReadRequest
<1>3. Kept(q) \subseteq q.of.optional
  BY DEF Kept
<1>4. /\ "symbol" \notin Texts \cup Numbers /\ "symbols" \notin Texts \cup Numbers
  BY DEF Texts, Numbers
<1>5. SymbolField(q) \subseteq d.required \cup d.optional
  BY <1>1, SymbolsHeld DEF Agrees, SameFields, SymbolField, Arities
<1>6. fields \subseteq d.required \cup d.optional
  BY <1>1, <1>2, <1>3, <1>5 DEF Agrees, SameFields
<1>7. (q.of.arity = "one" => "symbol" \in fields)
      /\ (q.of.arity = "many" => ("symbols" \in fields <=> q.number # 0))
  BY <1>1, <1>2, <1>3, <1>4, SymbolsHeld DEF Agrees, SameFields, SymbolField
<1>8. q.of.required \subseteq fields <=> q.of.required \subseteq q.set
  <2>1. ASSUME NEW f \in q.of.required PROVE f \in fields <=> f \in q.set
    <3>1. f \notin SymbolField(q) /\ f \notin Numbers
      BY <1>1, <1>4 DEF Agrees, SameFields, SymbolField, Texts, Numbers
    <3>2. f \in Kept(q) => f \in q.set
      BY <3>1 DEF Kept
    <3>. QED  BY <1>2, <3>1, <3>2
  <2>. QED  BY <2>1
<1>9. d.required \subseteq fields <=> /\ q.of.required \subseteq fields
                                      /\ q.of.arity = "many" => q.number # 0
  BY <1>1, <1>7 DEF Agrees, SameFields
<1>. QED  BY <1>6, <1>8, <1>9

\* Numbers are in the document's range exactly if they are not too high: the others are
\* left out.
LEMMA NumbersConform ==
  ASSUME NEW q \in Reads
  PROVE  LET most == Documented[q.of.name].most
         IN  /\ \A f \in Numbers : f \in ReadRequest(q).fields <=> q.numbers[f] > 0
             /\ (\A f \in Numbers \cap ReadRequest(q).fields : q.numbers[f] \in 1..most)
                <=> \A f \in Numbers : q.numbers[f] <= most
<1> DEFINE most == Documented[q.of.name].most
           fields == ReadRequest(q).fields
<1>1. /\ Agrees(q.of) /\ q.set \subseteq Texts /\ q.numbers \in [Numbers -> Int]
      /\ \A f \in Numbers \ q.of.optional : q.numbers[f] = 0
  BY MethodsAgree DEF Reads
<1>2. fields = (q.of.required \cap q.set) \cup Kept(q) \cup SymbolField(q)
  BY DEF ReadRequest
<1>3. most \in Nat
  BY <1>1 DEF Agrees, SameSymbols
<1>4. ASSUME NEW f \in Numbers
      PROVE  q.numbers[f] \in Int /\ (f \in fields <=> q.numbers[f] > 0)
  <2>1. f \notin q.set /\ f \notin SymbolField(q)
    BY <1>1 DEF Texts, Numbers, SymbolField
  <2>2. f \in fields <=> f \in q.of.optional /\ q.numbers[f] > 0
    BY <1>2, <2>1 DEF Kept
  <2>. QED  BY <1>1, <2>2
<1>. HIDE DEF most, fields
<1>5. (\A f \in Numbers \cap fields : q.numbers[f] \in 1..most)
      <=> \A f \in Numbers : q.numbers[f] <= most
  BY <1>3, <1>4
<1>. QED  BY <1>4, <1>5 DEF most, fields

\* A query is one docs/api allows exactly if it passes its validation and the values left to
\* the server are such as the document lists: nothing else gets through, and nothing the
\* document allows is refused. What the caller set is in it, but for numbers below 1.
THEOREM ReadsConform ==
  \A q \in Reads :
    /\ ReadConforms(ReadRequest(q)) <=> ReadValid(q) /\ InDocumentedRange(q)
    /\ ReadValid(q) => ReadSaysAll(q, ReadRequest(q))
<1>. SUFFICES ASSUME NEW q \in Reads
              PROVE  /\ ReadConforms(ReadRequest(q)) <=> ReadValid(q) /\ InDocumentedRange(q)
                     /\ ReadValid(q) => ReadSaysAll(q, ReadRequest(q))
  OBVIOUS
<1> DEFINE d == Documented[q.of.name]
           rq == ReadRequest(q)
<1>1. Agrees(q.of) /\ q.account \in BOOLEAN
  BY MethodsAgree DEF Reads
<1>2. /\ rq.of = q.of.name /\ rq.account = (q.of.account /\ q.account)
      /\ rq.symbols = q.words /\ rq.number = q.number /\ rq.odd = q.odd
      /\ rq.numbers = q.numbers
  BY DEF ReadRequest
<1>3. rq.account = d.account <=> (q.of.account => q.account)
  <2>1. d.account \in BOOLEAN /\ q.of.account \in BOOLEAN /\ (d.account <=> q.of.account)
    BY <1>1 DEF Agrees, SameAccount
  <2>. QED  BY <1>1, <1>2, <2>1, Zenon
<1>4. rq.symbols \subseteq d.symbols
      <=> /\ q.words \subseteq q.of.words
          /\ q.of.name = "indicatorTrading" => q.words \subseteq {"index"}
  <2>1. /\ d.symbols = IF q.of.name = "indicatorTrading" THEN {"index"} ELSE q.of.words
        /\ q.of.name = "indicatorTrading" => {"index"} \subseteq q.of.words
    BY <1>1 DEF Agrees, SameSymbols
  <2>. QED  BY <1>2, <2>1
<1>5. rq.number <= (IF "symbols" \in d.required THEN MostSymbols ELSE 1)
      <=> (q.of.arity = "many" => q.number <= MaxSymbols)
  <2>1. "symbols" \in d.required <=> q.of.arity = "many"
    BY <1>1 DEF Agrees, SameFields, Texts
  <2>2. q.of.arity # "many" => q.number <= 1
    BY <1>1, SymbolsHeld DEF Agrees, SameFields, Arities
  <2>. QED  BY <1>2, <2>1, <2>2 DEF MostSymbols, MaxSymbols
<1>6. (q.of.arity = "many" => q.number \in 1..MaxSymbols)
      <=> (q.of.arity = "many" => q.number # 0 /\ q.number <= MaxSymbols)
  BY SymbolsHeld DEF MaxSymbols
<1>7. ReadConforms(rq) <=>
        /\ rq.account = d.account
        /\ d.required \subseteq rq.fields /\ rq.fields \subseteq d.required \cup d.optional
        /\ rq.symbols \subseteq d.symbols
        /\ rq.number <= (IF "symbols" \in d.required THEN MostSymbols ELSE 1)
        /\ q.odd = {}
        /\ \A f \in Numbers \cap rq.fields : q.numbers[f] \in 1..d.most
  BY <1>2, Zenon DEF ReadConforms
<1>8. ReadConforms(rq) <=> ReadValid(q) /\ InDocumentedRange(q)
  <2>1. (\A f \in Numbers \cap rq.fields : q.numbers[f] \in 1..d.most)
        <=> \A f \in Numbers : q.numbers[f] <= d.most
    BY NumbersConform
  <2>2. d.required \subseteq rq.fields /\ rq.fields \subseteq d.required \cup d.optional
        <=> q.of.required \subseteq q.set /\ (q.of.arity = "many" => q.number # 0)
    BY FieldsConform
  <2>. HIDE DEF d, rq
  <2>3. ReadValid(q) /\ InDocumentedRange(q) <=>
          /\ q.of.account => q.account
          /\ q.of.arity = "many" => q.number \in 1..MaxSymbols
          /\ q.words \subseteq q.of.words /\ q.of.required \subseteq q.set
          /\ q.odd = {} /\ \A f \in Numbers : q.numbers[f] <= d.most
          /\ q.of.name = "indicatorTrading" => q.words \subseteq {"index"}
    BY Zenon DEF ReadValid, SymbolsValid, InDocumentedRange, d
  <2>. QED  BY <1>3, <1>4, <1>5, <1>6, <1>7, <2>1, <2>2, <2>3, Zenon
<1>9. ReadValid(q) => ReadSaysAll(q, rq)
  <2>1. rq.fields = (q.of.required \cap q.set) \cup Kept(q) \cup SymbolField(q)
    BY DEF ReadRequest
  <2>2. q.set \subseteq q.of.required \cup q.of.optional
    BY DEF Reads
  <2>3. q.set \subseteq rq.fields
    BY <2>1, <2>2 DEF Kept
  <2>4. \A f \in Numbers : q.numbers[f] > 0 => f \in rq.fields
    BY NumbersConform
  <2>. QED  BY <1>2, <2>3, <2>4, Zenon DEF ReadSaysAll
<1>. QED  BY <1>8, <1>9

-----------------------------------------------------------------------------
\* The request of a call, by its operation.
LEMMA RequestIs ==
  ASSUME NEW c
  PROVE  /\ c.op = "place" => RequestOf(c) = PlaceRequest(c.args)
         /\ c.op = "amount" => RequestOf(c) = AmountRequest(c.args)
         /\ c.op = "modify" => RequestOf(c) = ModifyRequest(c.args)
         /\ c.op = "cancel" => RequestOf(c) = CancelRequest
         /\ c.op = "cancelGroup" => RequestOf(c) = Delete
         /\ c.op = "placeGroup" => RequestOf(c) = GroupPlaceRequest(c.args)
         /\ c.op = "modifyGroup" => RequestOf(c) = GroupModifyRequest(c.args)
         /\ c.op = "read" => RequestOf(c) = ReadRequest(c.args)
<1>1. ASSUME c.op = "place" PROVE RequestOf(c) = PlaceRequest(c.args)
  BY <1>1, Zenon DEF RequestOf
<1>2. ASSUME c.op = "amount" PROVE RequestOf(c) = AmountRequest(c.args)
  BY <1>2, Zenon DEF RequestOf
<1>3. ASSUME c.op = "modify" PROVE RequestOf(c) = ModifyRequest(c.args)
  BY <1>3, Zenon DEF RequestOf
<1>4. ASSUME c.op = "cancel" PROVE RequestOf(c) = CancelRequest
  BY <1>4, Zenon DEF RequestOf
<1>5. ASSUME c.op = "cancelGroup" PROVE RequestOf(c) = Delete
  BY <1>5, Zenon DEF RequestOf
<1>6. ASSUME c.op = "placeGroup" PROVE RequestOf(c) = GroupPlaceRequest(c.args)
  BY <1>6, Zenon DEF RequestOf
<1>7. ASSUME c.op = "modifyGroup" PROVE RequestOf(c) = GroupModifyRequest(c.args)
  BY <1>7, Zenon DEF RequestOf
<1>8. ASSUME c.op = "read" PROVE RequestOf(c) = ReadRequest(c.args)
  BY <1>8, Zenon DEF RequestOf
<1>. QED  BY <1>1, <1>2, <1>3, <1>4, <1>5, <1>6, <1>7, <1>8

\* A call has the arguments of its operation.
LEMMA CallIs ==
  ASSUME NEW c \in Calls
  PROVE  \/ c.op = "place" /\ c.args \in Placements
         \/ c.op = "amount" /\ c.args \in AmountPlacements
         \/ c.op = "modify" /\ c.args \in Modifications
         \/ c.op = "cancel" /\ c.args \in Cancellations
         \/ c.op = "cancelGroup" /\ c.args \in Cancellations
         \/ c.op = "placeGroup" /\ c.args \in Groups
         \/ c.op = "modifyGroup" /\ c.args \in Groups
         \/ c.op = "read" /\ c.args \in Reads
  BY DEF Calls

\* What a body says of a group does not depend on its key.
LEMMA KeyAside ==
  ASSUME NEW g, NEW k
  PROVE  /\ GroupConforms(GroupBody(g, "")) <=> GroupConforms(GroupBody(g, k))
         /\ GroupBody(g, k).first = GroupBody(g, "").first
         /\ GroupBody(g, k).second = GroupBody(g, "").second
<1>1. /\ GroupBody(g, k).first = GroupBody(g, "").first
      /\ GroupBody(g, k).second = GroupBody(g, "").second
      /\ GroupBody(g, k).type = GroupBody(g, "").type
      /\ GroupBody(g, k).quantity = GroupBody(g, "").quantity
      /\ GroupBody(g, k).orderType = GroupBody(g, "").orderType
  BY DEF GroupBody
<1>. QED  BY <1>1, Zenon DEF GroupConforms

\* Every call of the client that passes its validation makes a request that says what the
\* caller asked for, and is one docs/api allows as far as AsAsked goes: of reads, unless the
\* caller's own values are outside what the document lists.
THEOREM CallsConform == \A c \in Calls : Valid(c) => AsAsked(c)
<1>. SUFFICES ASSUME NEW c \in Calls, Valid(c) PROVE AsAsked(c)
  OBVIOUS
<1>1. ASSUME c.op = "place", c.args \in Placements PROVE AsAsked(c)
  <2>1. PlaceValid(c.args) /\ RequestOf(c) = PlaceRequest(c.args)
    BY <1>1, RequestIs DEF Valid
  <2>2. OrderConforms(RequestOf(c).body) /\ Said(RequestOf(c).body.price) = c.args.price
    BY <1>1, <2>1, BodiesConform, BodiesSayAll, Zenon DEF SentConforms, NothingLost
  <2>. QED  BY <1>1, <2>2 DEF AsAsked
<1>2. ASSUME c.op = "amount", c.args \in AmountPlacements PROVE AsAsked(c)
  <2>1. AmountValid(c.args) /\ RequestOf(c) = AmountRequest(c.args)
    BY <1>2, RequestIs DEF Valid
  <2>2. OrderConforms(RequestOf(c).body)
    BY <1>2, <2>1, BodiesConform, Zenon DEF SentConforms
  <2>3. RequestOf(c).body.amount = c.args.amount
    BY <2>1 DEF AmountRequest, Post
  <2>. QED  BY <1>2, <2>2, <2>3 DEF AsAsked
<1>3. ASSUME c.op = "modify", c.args \in Modifications PROVE AsAsked(c)
  <2>1. ModifyValid(c.args) /\ RequestOf(c) = ModifyRequest(c.args)
    BY <1>3, RequestIs DEF Valid
  <2>2. ModificationConforms(RequestOf(c).body)
    BY <1>3, <2>1, BodiesConform, Zenon DEF SentConforms
  <2>. QED  BY <1>3, <2>2 DEF AsAsked
<1>4. ASSUME c.op \in {"placeGroup", "modifyGroup"}, c.args \in Groups PROVE AsAsked(c)
  <2>1. GroupValid(c.args)
    BY <1>4 DEF Valid, GroupPlaceValid
  <2>2. PICK k : RequestOf(c).body = GroupBody(c.args, k)
    <3>1. CASE c.op = "placeGroup"
      <4>1. RequestOf(c) = GroupPlaceRequest(c.args)
        BY <3>1, RequestIs
      <4>2. GroupPlaceRequest(c.args).body = GroupBody(c.args, c.args.key)
        BY DEF GroupPlaceRequest, Post
      <4>. QED  BY <4>1, <4>2
    <3>2. CASE c.op = "modifyGroup"
      <4>1. RequestOf(c) = GroupModifyRequest(c.args)
        BY <3>2, RequestIs
      <4>2. GroupModifyRequest(c.args).body = GroupBody(c.args, "")
        BY DEF GroupModifyRequest, Post
      <4>. QED  BY <4>1, <4>2
    <3>. QED  BY <1>4, <3>1, <3>2
  <2>3. /\ GroupConforms(GroupBody(c.args, ""))
        /\ SaidLeg(GroupBody(c.args, "").first) = c.args.first
        /\ SaidLeg(GroupBody(c.args, "").second) = c.args.second
    BY <1>4, <2>1, BodiesConform, BodiesSayAll, Zenon DEF SentConforms, NothingLost
  <2>4. /\ GroupConforms(RequestOf(c).body)
        /\ SaidLeg(RequestOf(c).body.first) = c.args.first
        /\ SaidLeg(RequestOf(c).body.second) = c.args.second
    BY <2>2, <2>3, KeyAside, Zenon
  <2>. QED  BY <1>4, <2>4 DEF AsAsked
<1>5. ASSUME c.op = "read", c.args \in Reads PROVE AsAsked(c)
  <2>1. ReadValid(c.args) /\ RequestOf(c) = ReadRequest(c.args)
    BY <1>5, RequestIs DEF Valid
  <2>2. /\ ReadSaysAll(c.args, RequestOf(c))
        /\ InDocumentedRange(c.args) => ReadConforms(RequestOf(c))
    BY <1>5, <2>1, ReadsConform
  <2>. QED  BY <1>5, <2>2 DEF AsAsked
<1>6. ASSUME c.op \in {"cancel", "cancelGroup"} PROVE AsAsked(c)
  BY <1>6 DEF AsAsked
<1>. QED  BY <1>1, <1>2, <1>3, <1>4, <1>5, <1>6, CallIs

\* Client.Do sends again exactly what the server recognises (PostOne is handed the key the
\* body carries), and no malformed key.
THEOREM KeyIsInBody == RetryIsRecognised
<1>. SUFFICES ASSUME NEW c \in Calls
              PROVE  /\ Recognised(RequestOf(c)) <=> KindOf(RequestOf(c)) # "keyless"
                     /\ RequestOf(c).key = RequestOf(c).body.key
                     /\ Valid(c) => RequestOf(c).key # "malformed"
  BY DEF RetryIsRecognised
<1>1. /\ RequestOf(c).key = RequestOf(c).body.key
      /\ Valid(c) => RequestOf(c).key # "malformed"
  <2>1. CASE c.op = "place"
    <3>1. RequestOf(c) = PlaceRequest(c.args)
      BY <2>1, RequestIs
    <3>2. PlaceRequest(c.args).key = c.args.key /\ PlaceRequest(c.args).body.key = c.args.key
      BY DEF PlaceRequest, Post
    <3>3. Valid(c) => c.args.key # "malformed"
      BY <2>1 DEF Valid, PlaceValid, KeyValid
    <3>. QED  BY <3>1, <3>2, <3>3
  <2>2. CASE c.op = "amount"
    <3>1. RequestOf(c) = AmountRequest(c.args)
      BY <2>2, RequestIs
    <3>2. AmountRequest(c.args).key = c.args.key /\ AmountRequest(c.args).body.key = c.args.key
      BY DEF AmountRequest, Post
    <3>3. Valid(c) => c.args.key # "malformed"
      BY <2>2 DEF Valid, AmountValid, KeyValid
    <3>. QED  BY <3>1, <3>2, <3>3
  <2>3. CASE c.op = "modify"
    <3>1. RequestOf(c) = ModifyRequest(c.args)
      BY <2>3, RequestIs
    <3>2. ModifyRequest(c.args).key = "" /\ ModifyRequest(c.args).body.key = ""
      BY DEF ModifyRequest, Post
    <3>. QED  BY <3>1, <3>2
  <2>4. CASE c.op = "cancel"
    <3>1. RequestOf(c) = CancelRequest
      BY <2>4, RequestIs
    <3>2. CancelRequest.key = "" /\ CancelRequest.body.key = ""
      BY DEF CancelRequest, Post
    <3>. QED  BY <3>1, <3>2
  <2>5. CASE c.op = "cancelGroup"
    <3>1. RequestOf(c) = Delete
      BY <2>5, RequestIs
    <3>2. Delete.key = "" /\ Delete.body.key = ""
      BY DEF Delete
    <3>. QED  BY <3>1, <3>2
  <2>6. CASE c.op = "placeGroup"
    <3>1. RequestOf(c) = GroupPlaceRequest(c.args)
      BY <2>6, RequestIs
    <3>2. GroupPlaceRequest(c.args).key = c.args.key /\ GroupPlaceRequest(c.args).body.key = c.args.key
      BY DEF GroupPlaceRequest, GroupBody, Post
    <3>3. Valid(c) => c.args.key # "malformed"
      BY <2>6 DEF Valid, GroupPlaceValid, KeyValid
    <3>. QED  BY <3>1, <3>2, <3>3
  <2>7. CASE c.op = "modifyGroup"
    <3>1. RequestOf(c) = GroupModifyRequest(c.args)
      BY <2>7, RequestIs
    <3>2. GroupModifyRequest(c.args).key = "" /\ GroupModifyRequest(c.args).body.key = ""
      BY DEF GroupModifyRequest, GroupBody, Post
    <3>. QED  BY <3>1, <3>2
  <2>8. CASE c.op = "read"
    <3>1. RequestOf(c) = ReadRequest(c.args)
      BY <2>8, RequestIs
    <3>2. ReadRequest(c.args).key = "" /\ ReadRequest(c.args).body.key = ""
      BY DEF ReadRequest
    <3>. QED  BY <3>1, <3>2
  <2>. QED  BY <2>1, <2>2, <2>3, <2>4, <2>5, <2>6, <2>7, <2>8, CallIs
<1>. QED  BY <1>1 DEF KindOf, Recognised
=============================================================================
