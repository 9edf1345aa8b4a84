------------------------------- MODULE Queries -------------------------------
(***************************************************************************)
(* The reads of the packages asset, marketdata, marketinfo, stockinfo,      *)
(* ranking, indicators, order and conditionalorder, and of the client       *)
(* itself: what each refuses before a request is made and what it sends.    *)
(* All share internal/params; they differ in the shape of their arguments,  *)
(* so a method is modelled by its shape.                                    *)
(***************************************************************************)
EXTENDS Integers

\* params.MaxSymbols
MaxSymbols == 200

\* a symbol: KOSPI or KOSDAQ, another one of letters and digits only, one with a '.' or
\* '-', one with a '_', or none of these
Words == {"index", "plain", "dotted", "underscored", "malformed"}
StockWords == {"index", "plain", "dotted"}
IndicatorWords == {"index", "plain", "underscored"}

\* how many symbols an argument holds; "many" is a list of any length
Arities == {"none", "optional", "one", "many"}
Held(arity) ==
  CASE arity = "none"     -> {0}
    [] arity = "optional" -> {0, 1}
    [] arity = "one"      -> {1}
    [] arity = "many"     -> Nat

\* the parameters of a method: numbers, and texts, which are there when they are not empty
Numbers == {"count", "limit"}
Texts ==
  {"interval", "before", "adjusted", "until", "baseCurrency", "quoteCurrency", "dateTime",
   "date", "type", "marketCountry", "duration", "excludeInvestmentCaution", "market",
   "securityType", "commonShare", "status", "from", "to", "cursor", "currency", "id"}

\* a method: the resource it reads, whether it is one of an account, its symbols, the texts
\* it requires and the parameters that may be left out
Shape(name, account, arity, words, required, optional) ==
  [name |-> name, account |-> account, arity |-> arity, words |-> words,
   required |-> required, optional |-> optional]

Accounts         == Shape("accounts", FALSE, "none", {}, {}, {})
Holdings         == Shape("holdings", TRUE, "optional", StockWords, {}, {})
Candles          == Shape("candles", FALSE, "one", StockWords, {"interval"},
                          {"count", "before", "adjusted"})
Orderbook        == Shape("orderbook", FALSE, "one", StockWords, {}, {})
PriceLimits      == Shape("priceLimits", FALSE, "one", StockWords, {}, {})
Prices           == Shape("prices", FALSE, "many", StockWords, {}, {})
Trades           == Shape("trades", FALSE, "one", StockWords, {}, {"count"})
MarketCalendar   == Shape("marketCalendar", FALSE, "none", {}, {}, {"date"})
ExchangeRate     == Shape("exchangeRate", FALSE, "none", {},
                          {"baseCurrency", "quoteCurrency"}, {"dateTime"})
IndicatorCandles == Shape("indicatorCandles", FALSE, "one", IndicatorWords, {"interval"},
                          {"count", "before"})
IndicatorPrices  == Shape("indicatorPrices", FALSE, "many", IndicatorWords, {}, {})
IndicatorTrading == Shape("indicatorTrading", FALSE, "one", IndicatorWords, {"interval"},
                          {"count", "until"})
Rankings         == Shape("rankings", FALSE, "none", {},
                          {"type", "marketCountry", "duration"},
                          {"excludeInvestmentCaution", "count"})
Stocks           == Shape("stocks", FALSE, "many", StockWords, {}, {})
ListStocks       == Shape("listStocks", FALSE, "none", {}, {"market"},
                          {"status", "securityType", "commonShare"})
Warnings         == Shape("warnings", FALSE, "one", StockWords, {}, {})
Trend            == Shape("trend", FALSE, "one", StockWords, {}, {"count", "until"})
ListOrders       == Shape("listOrders", TRUE, "optional", StockWords, {"status"},
                          {"from", "to", "cursor", "limit"})
GetOrder         == Shape("getOrder", TRUE, "none", {}, {"id"}, {})
BuyingPower      == Shape("buyingPower", TRUE, "none", {}, {"currency"}, {})
SellableQuantity == Shape("sellableQuantity", TRUE, "one", StockWords, {}, {})
Commissions      == Shape("commissions", TRUE, "none", {}, {}, {})
ListGroups       == Shape("listGroups", TRUE, "optional", StockWords, {"status"},
                          {"cursor", "limit"})
GetGroup         == Shape("getGroup", TRUE, "none", {}, {"id"}, {})

Methods ==
  {Accounts, Holdings, Candles, Orderbook, PriceLimits, Prices, Trades, MarketCalendar,
   ExchangeRate, IndicatorCandles, IndicatorPrices, IndicatorTrading, Rankings, Stocks,
   ListStocks, Warnings, Trend, ListOrders, GetOrder, BuyingPower, SellableQuantity,
   Commissions, ListGroups, GetGroup}
-----------------------------------------------------------------------------
\* A call: whether the account is a positive number; how many symbols there are and what
\* they look like; the texts the caller set, and those of them with a value docs/api does
\* not list or describe; the numbers, 0 when not set.
Reads ==
  {q \in [of : Methods, account : BOOLEAN, number : Nat, words : SUBSET Words,
          set : SUBSET Texts, odd : SUBSET Texts, numbers : [Numbers -> Int]] :
     /\ q.number \in Held(q.of.arity) /\ (q.words = {} <=> q.number = 0)
     /\ q.set \subseteq q.of.required \cup q.of.optional /\ q.odd \subseteq q.set
     /\ \A f \in Numbers \ q.of.optional : q.numbers[f] = 0}

\* params.AccountSeq, Symbol or IndicatorSymbol, joinSymbols, Require
SymbolsValid(q) ==
  /\ q.of.arity = "many" => q.number \in 1..MaxSymbols
  /\ q.words \subseteq q.of.words

ReadValid(q) ==
  /\ q.of.account => q.account
  /\ SymbolsValid(q)
  /\ q.of.required \subseteq q.set

\* params.Str, Int, Bool, Time and Date leave out what is not set, and Int what is not
\* positive; no bound from above is looked at
Kept(q) ==
  {f \in q.of.optional : f \in q.set \/ (f \in Numbers /\ q.numbers[f] > 0)}

\* the parameter the symbols go into, in the query or the path, if there are any
SymbolField(q) ==
  IF q.number = 0 THEN {} ELSE IF q.of.arity = "many" THEN {"symbols"} ELSE {"symbol"}

\* fetch.One, fetch.List and fetchList; do sends the header of an account that is positive.
\* Parameters without a value are not counted.
ReadRequest(q) ==
  [method |-> "GET", body |-> [key |-> ""], key |-> "",
   of |-> q.of.name, account |-> q.of.account /\ q.account,
   fields |-> (q.of.required \cap q.set) \cup Kept(q) \cup SymbolField(q),
   symbols |-> q.words, number |-> q.number, odd |-> q.odd, numbers |-> q.numbers]
-----------------------------------------------------------------------------
(***************************************************************************)
(* The GETs of docs/api/openapi.json: the account header, the parameters    *)
(* required and optional, the pattern or enumeration of a symbol, and the   *)
(* maximum of count or limit (0 where there is neither).                    *)
(***************************************************************************)
Operation(account, required, optional, symbols, most) ==
  [account |-> account, required |-> required, optional |-> optional,
   symbols |-> symbols, most |-> most]

Ticker  == {"index", "plain", "dotted"}       \* ^[A-Za-z0-9.\-]+$
Catalog == {"index", "plain", "underscored"}  \* ^[A-Za-z0-9_]+$
Index   == {"index"}                          \* enum: KOSPI, KOSDAQ

\* the longest list of symbols (descriptions of getPrices, getStocks, ...)
MostSymbols == 200

Documented == [
  accounts         |-> Operation(FALSE, {}, {}, {}, 0),
  holdings         |-> Operation(TRUE, {}, {"symbol"}, Ticker, 0),
  candles          |-> Operation(FALSE, {"symbol", "interval"}, {"count", "before", "adjusted"},
                                 Ticker, 200),
  orderbook        |-> Operation(FALSE, {"symbol"}, {}, Ticker, 0),
  priceLimits      |-> Operation(FALSE, {"symbol"}, {}, Ticker, 0),
  prices           |-> Operation(FALSE, {"symbols"}, {}, Ticker, 0),
  trades           |-> Operation(FALSE, {"symbol"}, {"count"}, Ticker, 50),
  marketCalendar   |-> Operation(FALSE, {}, {"date"}, {}, 0),
  exchangeRate     |-> Operation(FALSE, {"baseCurrency", "quoteCurrency"}, {"dateTime"}, {}, 0),
  indicatorCandles |-> Operation(FALSE, {"symbol", "interval"}, {"count", "before"},
                                 Catalog, 200),
  indicatorPrices  |-> Operation(FALSE, {"symbols"}, {}, Catalog, 0),
  indicatorTrading |-> Operation(FALSE, {"symbol", "interval"}, {"count", "until"}, Index, 100),
  rankings         |-> Operation(FALSE, {"type", "marketCountry", "duration"},
                                 {"excludeInvestmentCaution", "count"}, {}, 100),
  stocks           |-> Operation(FALSE, {"symbols"}, {}, Ticker, 0),
  listStocks       |-> Operation(FALSE, {"market"}, {"status", "securityType", "commonShare"},
                                 {}, 0),
  warnings         |-> Operation(FALSE, {"symbol"}, {}, Ticker, 0),
  trend            |-> Operation(FALSE, {"symbol"}, {"count", "until"}, Ticker, 100),
  listOrders       |-> Operation(TRUE, {"status"}, {"symbol", "from", "to", "cursor", "limit"},
                                 Ticker, 100),
  getOrder         |-> Operation(TRUE, {"id"}, {}, {}, 0),
  buyingPower      |-> Operation(TRUE, {"currency"}, {}, {}, 0),
  sellableQuantity |-> Operation(TRUE, {"symbol"}, {}, Ticker, 0),
  commissions      |-> Operation(TRUE, {}, {}, {}, 0),
  listGroups       |-> Operation(TRUE, {"status"}, {"symbol", "cursor", "limit"}, Ticker, 100),
  getGroup         |-> Operation(TRUE, {"id"}, {}, {}, 0)]

\* The request is one the document allows.
ReadConforms(rq) ==
  LET d == Documented[rq.of] IN
  /\ rq.account = d.account
  /\ d.required \subseteq rq.fields /\ rq.fields \subseteq d.required \cup d.optional
  /\ rq.symbols \subseteq d.symbols
  /\ rq.number <= IF "symbols" \in d.required THEN MostSymbols ELSE 1
  /\ rq.odd = {}
  /\ \A f \in Numbers \cap rq.fields : rq.numbers[f] \in 1..d.most

\* The caller's values are such as the document lists.  No method looks at this, it is left
\* to the server: the values of texts, numbers that are too high, and whether the symbol of
\* indicators.InvestorTrading is KOSPI or KOSDAQ.
InDocumentedRange(q) ==
  /\ q.odd = {}
  /\ \A f \in Numbers : q.numbers[f] <= Documented[q.of.name].most
  /\ q.of.name = "indicatorTrading" => q.words \subseteq {"index"}

\* What the caller set is sent, but for numbers that are not positive.
ReadSaysAll(q, rq) ==
  /\ q.set \subseteq rq.fields
  /\ \A f \in Numbers : q.numbers[f] > 0 => f \in rq.fields /\ rq.numbers[f] = q.numbers[f]
=============================================================================
