---------------------------- MODULE MCRestClient ----------------------------
EXTENDS RestClient, TLC
CONSTANTS r1, r2

MCDecimals == -1..2

Ask(op, args) == [op |-> op, args |-> args]
Order(ot, price) ==
  Ask("place", [target |-> TRUE, side |-> "BUY", orderType |-> ot, quantity |-> 2,
                price |-> price, key |-> "key"])
Change(ot, price) ==
  Ask("modify", [target |-> TRUE, orderType |-> ot, quantity |-> Nil, price |-> price])
Sell(trigger) == [side |-> "SELL", trigger |-> trigger, price |-> 1]
Buy == [Sell(2) EXCEPT !.side = "BUY"]
Group(op, type, first, second) ==
  Ask(op, [target |-> TRUE, type |-> type, quantity |-> 2, orderType |-> "LIMIT",
           expires |-> TRUE, first |-> first, second |-> second, key |-> "key"])
Read(method, number, set, count) ==
  Ask("read", [of |-> method, account |-> TRUE, number |-> number, words |-> {"plain"},
               set |-> set, odd |-> {}, numbers |-> ("count" :> count @@ "limit" :> 0)])

\* An order with a key, and a cancellation: a write that is retried, and one that is not.
\* Of the calls of the other mixes all but two (an OCO, and a read of the longest list of
\* trades) are refused, each for one thing that is wrong.
AllMixes == <<
  r1 :> Order("MARKET", 0) @@ r2 :> Ask("cancel", [target |-> TRUE]),
  r1 :> Group("modifyGroup", "OCO", Sell(1), Sell(2)) @@ r2 :> Order("LIMIT", 0),
  r1 :> Group("placeGroup", "OTO", Buy, Nil) @@ r2 :> Change("MARKET", 1),
  r1 :> Group("placeGroup", "OCO", Sell(2), Sell(1))
    @@ r2 :> Read(Prices, MaxSymbols + 1, {}, 0),
  r1 :> Read(Trades, 1, {}, 50) @@ r2 :> Read(Candles, 1, {}, 0)>>

\* (TLC evaluates a definition that stands for a constant each time it is used.)
MCMixes == AllMixes
=============================================================================
