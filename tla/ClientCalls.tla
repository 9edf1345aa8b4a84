----------------------------- MODULE ClientCalls -----------------------------
(***************************************************************************)
(* The methods of the client's packages, as calls: which of them lead to a  *)
(* request, and to which.                                                   *)
(***************************************************************************)
EXTENDS OrderRequests, Queries

Cancellations == [target : BOOLEAN]

Calls ==
  [op : {"place"}, args : Placements] \cup [op : {"amount"}, args : AmountPlacements]
  \cup [op : {"modify"}, args : Modifications]
  \cup [op : {"cancel", "cancelGroup"}, args : Cancellations]
  \cup [op : {"placeGroup", "modifyGroup"}, args : Groups]
  \cup [op : {"read"}, args : Reads]

\* the call gets past the validation at its top
Valid(c) ==
  \/ c.op = "place" /\ PlaceValid(c.args)
  \/ c.op = "amount" /\ AmountValid(c.args)
  \/ c.op = "modify" /\ ModifyValid(c.args)
  \/ c.op \in {"cancel", "cancelGroup"} /\ Targeted(c.args)
  \/ c.op = "placeGroup" /\ GroupPlaceValid(c.args)
  \/ c.op = "modifyGroup" /\ GroupValid(c.args)
  \/ c.op = "read" /\ ReadValid(c.args)

RequestOf(c) ==
  CASE c.op = "place"       -> PlaceRequest(c.args)
    [] c.op = "amount"      -> AmountRequest(c.args)
    [] c.op = "modify"      -> ModifyRequest(c.args)
    [] c.op = "cancel"      -> CancelRequest
    [] c.op = "cancelGroup" -> Delete
    [] c.op = "placeGroup"  -> GroupPlaceRequest(c.args)
    [] c.op = "modifyGroup" -> GroupModifyRequest(c.args)
    [] c.op = "read"        -> ReadRequest(c.args)

\* A second execution changes nothing: of a read, and of a write whose body has a key the
\* server has seen before.
Recognised(rq) == rq.method = "GET" \/ rq.body.key # ""

\* The request says all the caller asked for and is one docs/api allows: for a write, as far
\* as the reference in OrderRequests goes; for a read, if the caller's values are such as the
\* document lists, which no method looks at.
AsAsked(c) ==
  LET rq == RequestOf(c)  b == rq.body  args == c.args
  IN  /\ c.op = "place" => OrderConforms(b) /\ Said(b.price) = args.price
      /\ c.op = "amount" => OrderConforms(b) /\ b.amount = args.amount
      /\ c.op = "modify" => ModificationConforms(b)
      /\ c.op \in {"placeGroup", "modifyGroup"} =>
           /\ GroupConforms(b)
           /\ SaidLeg(b.first) = args.first /\ SaidLeg(b.second) = args.second
      /\ c.op = "read" =>
           /\ ReadSaysAll(args, rq)
           /\ InDocumentedRange(args) => ReadConforms(rq)

\* What Client.Do takes on trust when it sends a request twice: it sends again exactly what
\* the server recognises, by the key in the body, which is not malformed.
RetryIsRecognised == \A c \in Calls :
  LET rq == RequestOf(c)
  IN  /\ Recognised(rq) <=> KindOf(rq) # "keyless"
      /\ rq.key = rq.body.key /\ (Valid(c) => rq.key # "malformed")
=============================================================================
