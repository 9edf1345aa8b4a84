---------------------------- MODULE OrderRequests ----------------------------
(***************************************************************************)
(* The writes of the packages order and conditionalorder: which calls they  *)
(* refuse before a request is made, the body of the request, and the        *)
(* idempotency key with which internal/fetch hands it to Client.Do.  The    *)
(* packages keep no state: a call is a record, what becomes of it a         *)
(* function of it.  Enumerations take the values the packages declare, or   *)
(* are left empty.  Fields that are only passed on (timeInForce, the flag    *)
(* for high values, the symbol) are left out.                               *)
(***************************************************************************)
EXTENDS Integers

CONSTANTS
  Decimals,  \* the prices, quantities and amounts considered, in units of 1/Scale
  Scale,
  Nil        \* a pointer that is nil, a field left out of a body

Sides       == {"BUY", "SELL"}
OrderTypes  == {"LIMIT", "MARKET"}
GroupTypes  == {"SINGLE", "OCO", "OTO"}
Keys        == {"", "key", "malformed"}  \* of clientOrderId; "" is no key
OrNone(S)   == S \cup {""}
OrNil(S)    == S \cup {Nil}

Positive(d)  == d > 0
IsInteger(d) == d % Scale = 0

Conditions == [side : OrNone(Sides), trigger : Decimals, price : Decimals]
LegBodies  == [side : OrNone(Sides), trigger : Decimals, price : OrNil(Decimals)]

ASSUME DataAssumption ==
  /\ Decimals \subseteq Int /\ 0 \in Decimals /\ Scale \in Nat \ {0}
  /\ Nil \notin Decimals /\ Nil \notin LegBodies

\* target: the account number and the symbol, or the id of the order, are well formed
Placements == [target : BOOLEAN, side : OrNone(Sides), orderType : OrNone(OrderTypes),
               quantity : Decimals, price : Decimals, key : Keys]
AmountPlacements == [target : BOOLEAN, side : OrNone(Sides), amount : Decimals, key : Keys]
Modifications == [target : BOOLEAN, orderType : OrNone(OrderTypes),
                  quantity : OrNil(Decimals), price : OrNil(Decimals)]
\* a conditional order; its modification states all of it again, and has no key
Groups == [target : BOOLEAN, type : OrNone(GroupTypes), quantity : Decimals,
           orderType : OrNone(OrderTypes), expires : BOOLEAN,
           first : Conditions, second : OrNil(Conditions), key : Keys]
-----------------------------------------------------------------------------
\* params.AccountSeq, params.Symbol, params.Require
Targeted(r) == r.target

\* validateKey: a key may be missing, but not malformed
KeyValid(k) == k # "malformed"

\* fetch.PostOne and fetch.Send
Post(body, k) == [method |-> "POST", body |-> body, key |-> k]
Delete        == [method |-> "DELETE", body |-> [key |-> ""], key |-> ""]

\* how Client.Do treats a request refused with a token error (canRetry)
KindOf(rq) ==
  IF rq.method = "GET" THEN "get" ELSE IF rq.key # "" THEN "keyed" ELSE "keyless"
-----------------------------------------------------------------------------
(***************************************************************************)
(* Orders.                                                                 *)
(***************************************************************************)
PlaceValid(r) ==
  /\ Targeted(r) /\ r.side # "" /\ r.orderType # ""
  /\ Positive(r.quantity)
  /\ r.orderType = "LIMIT" => Positive(r.price)
  /\ r.orderType = "MARKET" => r.price = 0
  /\ KeyValid(r.key)

\* Mutant: the key allows the retry, but is not in the body.
KeyOutside(r) ==
  Post([side |-> r.side, orderType |-> r.orderType, quantity |-> r.quantity,
        amount |-> Nil, price |-> IF r.price = 0 THEN Nil ELSE r.price, key |-> ""], r.key)

PlaceRequest(r) ==
  Post([side |-> r.side, orderType |-> r.orderType, quantity |-> r.quantity,
        amount |-> Nil, price |-> IF r.price = 0 THEN Nil ELSE r.price,
        key |-> r.key], r.key)

AmountValid(r) == Targeted(r) /\ r.side # "" /\ Positive(r.amount) /\ KeyValid(r.key)

AmountRequest(r) ==
  Post([side |-> r.side, orderType |-> "MARKET", quantity |-> Nil,
        amount |-> r.amount, price |-> Nil, key |-> r.key], r.key)

\* here a price or a quantity of 0 is not the same as none
ModifyValid(r) ==
  /\ Targeted(r) /\ r.orderType # ""
  /\ r.quantity # Nil => Positive(r.quantity) /\ IsInteger(r.quantity)
  /\ r.orderType = "LIMIT" => r.price # Nil /\ Positive(r.price)
  /\ r.orderType = "MARKET" => r.price = Nil

ModifyRequest(r) ==
  Post([orderType |-> r.orderType, quantity |-> r.quantity, price |-> r.price,
        key |-> ""], "")

CancelRequest == Post([key |-> ""], "")
-----------------------------------------------------------------------------
(***************************************************************************)
(* Conditional orders.                                                     *)
(***************************************************************************)
\* Condition.validate
ConditionValid(c, ot) ==
  /\ c.side # "" /\ Positive(c.trigger)
  /\ ot = "LIMIT" => Positive(c.price)
  /\ ot = "MARKET" => c.price = 0

\* Condition.body
ConditionBody(c) ==
  [side |-> c.side, trigger |-> c.trigger,
   price |-> IF Positive(c.price) THEN c.price ELSE Nil]

\* Mutant: the triggers of an OCO are not compared.
LegsInAnyOrder(g) ==
  /\ g.type = "SINGLE" => g.second = Nil
  /\ g.type \in {"OCO", "OTO"} => g.second # Nil /\ g.orderType = "LIMIT"
  /\ g.type = "OCO" => g.first.side = "SELL" /\ g.second.side = "SELL"
  /\ g.type = "OTO" => g.first.side = "BUY" /\ g.second.side = "SELL"

\* the switch of validateCommon
LegsFit(g) ==
  /\ g.type = "SINGLE" => g.second = Nil
  /\ g.type \in {"OCO", "OTO"} => g.second # Nil /\ g.orderType = "LIMIT"
  /\ g.type = "OCO" => /\ g.first.side = "SELL" /\ g.second.side = "SELL"
                       /\ g.first.trigger > g.second.trigger
  /\ g.type = "OTO" => g.first.side = "BUY" /\ g.second.side = "SELL"

\* validateCommon
GroupValid(g) ==
  /\ Targeted(g) /\ g.type # "" /\ Positive(g.quantity) /\ g.orderType # "" /\ g.expires
  /\ LegsFit(g)
  /\ ConditionValid(g.first, g.orderType)
  /\ g.second # Nil => ConditionValid(g.second, g.orderType)

GroupBody(g, k) ==
  [type |-> g.type, quantity |-> g.quantity, orderType |-> g.orderType,
   first |-> ConditionBody(g.first),
   second |-> IF g.second = Nil THEN Nil ELSE ConditionBody(g.second),
   key |-> k]

GroupPlaceValid(g) == GroupValid(g) /\ KeyValid(g.key)
GroupPlaceRequest(g)  == Post(GroupBody(g, g.key), g.key)
GroupModifyRequest(g) == Post(GroupBody(g, ""), "")
-----------------------------------------------------------------------------
\* a price goes with LIMIT, and with LIMIT only
PriceFits(price, ot) == IF ot = "LIMIT" THEN price # Nil /\ price > 0 ELSE price = Nil

\* docs/api/openapi.json, OrderCreateRequest: one of a quantity and an amount
OrderConforms(b) ==
  /\ b.side \in Sides /\ b.orderType \in OrderTypes /\ PriceFits(b.price, b.orderType)
  /\ \/ b.amount = Nil /\ b.quantity > 0
     \/ b.quantity = Nil /\ b.amount > 0 /\ b.orderType = "MARKET"

\* OrderModifyRequest
ModificationConforms(b) ==
  /\ b.orderType \in OrderTypes /\ PriceFits(b.price, b.orderType)
  /\ b.quantity = Nil \/ (b.quantity > 0 /\ b.quantity % Scale = 0)

\* ConditionRequest
LegConforms(l, ot) == l.side \in Sides /\ l.trigger > 0 /\ PriceFits(l.price, ot)

\* ConditionalOrderCreateRequest: OCO takes profit above and stops a loss below, OTO
\* buys and then sells
GroupConforms(b) ==
  /\ b.type \in GroupTypes /\ b.orderType \in OrderTypes /\ b.quantity > 0
  /\ LegConforms(b.first, b.orderType)
  /\ IF b.type = "SINGLE" THEN b.second = Nil
     ELSE /\ b.second # Nil /\ LegConforms(b.second, "LIMIT") /\ b.orderType = "LIMIT"
          /\ b.second.side = "SELL"
          /\ IF b.type = "OTO" THEN b.first.side = "BUY"
             ELSE b.first.side = "SELL" /\ b.second.trigger < b.first.trigger

\* Every body that is sent is one docs/api allows, as far as that does not depend on
\* the market: the prices go with the order type, a group has the legs of its type, in
\* their direction and order, whether it is placed or modified.
SentConforms ==
  /\ \A r \in Placements : PlaceValid(r) => OrderConforms(PlaceRequest(r).body)
  /\ \A r \in AmountPlacements : AmountValid(r) => OrderConforms(AmountRequest(r).body)
  /\ \A r \in Modifications : ModifyValid(r) => ModificationConforms(ModifyRequest(r).body)
  /\ \A g \in Groups : GroupValid(g) => GroupConforms(GroupBody(g, ""))

\* what a body says, in terms of the call: a field left out is 0
Said(d) == IF d = Nil THEN 0 ELSE d
SaidLeg(l) == IF l = Nil THEN Nil ELSE [l EXCEPT !.price = Said(l.price)]

\* What was asked for is what is sent: nothing the caller set, neither a price nor a
\* leg, is lost between an accepted call and its body (body and the omitempty fields
\* leave out what the validation has already found to be empty).
NothingLost ==
  /\ \A r \in Placements : PlaceValid(r) => Said(PlaceRequest(r).body.price) = r.price
  /\ \A g \in Groups : GroupValid(g) =>
       LET b == GroupBody(g, "")
       IN  SaidLeg(b.first) = g.first /\ SaidLeg(b.second) = g.second
=============================================================================
