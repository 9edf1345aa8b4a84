-------------------------- MODULE SubscriptionSet --------------------------
(***************************************************************************)
(* stream/subscription.go: the set of subscriptions a stream declares, kept *)
(* as a map from subscription type to a set of codes.  Every method holds   *)
(* s.mu while it reads or writes the map, so each is one action.  A body is *)
(* abstracted to its optional id and its set of groups; the order of types  *)
(* and codes in the JSON text is not modelled.                              *)
(***************************************************************************)
EXTENDS Naturals, FiniteSets

CONSTANTS Types,      \* subscription types, known and unknown
          Codes,      \* symbols and account numbers
          ValidCodes, \* per type, the codes validate accepts ({}: unknown type)
          MaxTopics,  \* the limit of one connection (100 in the code)
          MaxArgs,    \* bound: subscriptions passed to one call
          NoId        \* the absent id element of a body

Ids == {"d"}  \* ids are opaque here

ASSUME ConstantsAssumption ==
  /\ ValidCodes \in [Types -> SUBSET Codes]
  /\ IsFiniteSet(Types) /\ IsFiniteSet(Codes)
  /\ MaxTopics \in Nat
  /\ NoId \notin Ids

Subscription == [type : Types, codes : SUBSET Codes]

\* the argument lists of one call (order and repetition do not matter to merging)
Args == {S \in SUBSET Subscription : Cardinality(S) <= MaxArgs}

VARIABLES m,     \* type -> code set
          body,  \* the last body declaration() produced
          call   \* the last call: its name, its arguments, whether it succeeded

vars == <<m, body, call>>
-----------------------------------------------------------------------------
\* format check of one subscription: known type, at least one code, all well formed
Validate(sub) == sub.codes # {} /\ sub.codes \subseteq ValidCodes[sub.type]

\* the codes that S lists under type t
CodesOf(S, t) == UNION {sub.codes : sub \in {x \in S : x.type = t}}

TypesOf(S) == {sub.type : sub \in S}

EmptyMap == [t \in {} |-> {}]

\* Mutant: the codes of a type already present are overwritten.
Overwrite(dst, S) ==
  [t \in DOMAIN dst \cup TypesOf(S) |->
     IF t \in TypesOf(S) THEN CodesOf(S, t) ELSE dst[t]]

MergeInto(dst, S) ==
  [t \in DOMAIN dst \cup TypesOf(S) |->
     (IF t \in DOMAIN dst THEN dst[t] ELSE {}) \cup CodesOf(S, t)]

\* every topic (type:code) of a map
Topics(mm) == {tc \in Types \X Codes : tc[1] \in DOMAIN mm /\ tc[2] \in mm[tc[1]]}

CountTopics(mm) == Cardinality(Topics(mm))

\* Mutant: a type stays when its last code goes.
WithoutKeepingTypes(mm, S) == [t \in DOMAIN mm |-> mm[t] \ CodesOf(S, t)]

\* the map without the codes S lists; a type S names goes when its last code goes
Without(mm, S) ==
  [t \in {u \in DOMAIN mm : u \in TypesOf(S) => mm[u] \ CodesOf(S, u) # {}} |->
     mm[t] \ CodesOf(S, t)]

\* Mutant: the id is sent with an empty set too.
DeclarationAlwaysWithId(id) ==
  [id |-> id, groups |-> {[type |-> t, codes |-> m[t]] : t \in DOMAIN m}]

\* Mutant: a group lists full keys (type:code) where the protocol wants codes.
DeclarationOfKeys(id) ==
  IF DOMAIN m = {} THEN [id |-> NoId, groups |-> {}]
  ELSE [id |-> id, groups |-> {[type |-> t, codes |-> {t} \X m[t]] : t \in DOMAIN m}]

Declaration(id) ==
  IF DOMAIN m = {} THEN [id |-> NoId, groups |-> {}]
  ELSE [id |-> id, groups |-> {[type |-> t, codes |-> m[t]] : t \in DOMAIN m}]
-----------------------------------------------------------------------------
Init ==
  /\ m = EmptyMap
  /\ body = [id |-> NoId, groups |-> {}]
  /\ call = [op |-> "none", arg |-> {}, ok |-> TRUE]

Called(op, S, ok) == call' = [op |-> op, arg |-> S, ok |-> ok]

Refuse(op, S) == Called(op, S, FALSE) /\ UNCHANGED <<m, body>>

Store(op, S, next) == m' = next /\ Called(op, S, TRUE) /\ UNCHANGED body

\* the limit is checked on the merged result before anything is stored
Add(S) ==
  LET next == MergeInto(m, S) IN
  IF (\A sub \in S : Validate(sub)) /\ CountTopics(next) <= MaxTopics
  THEN Store("add", S, next) ELSE Refuse("add", S)

Remove(S) ==
  IF \A sub \in S : Validate(sub)
  THEN Store("remove", S, Without(m, S)) ELSE Refuse("remove", S)

Replace(S) ==
  LET next == MergeInto(EmptyMap, S) IN
  IF (\A sub \in S : Validate(sub)) /\ CountTopics(next) <= MaxTopics
  THEN Store("replace", S, next) ELSE Refuse("replace", S)

\* an ack rejected the target t:c; a target that is not in the set, or that
\* splitTopic refuses, changes nothing
Reject(t, c) ==
  LET S == {[type |-> t, codes |-> {c}]} IN Store("reject", S, Without(m, S))

Declare(id) ==
  body' = Declaration(id) /\ Called("declare", {}, TRUE) /\ UNCHANGED m

Next ==
  \/ \E S \in Args : Add(S) \/ Remove(S) \/ Replace(S)
  \/ \E t \in Types, c \in Codes : Reject(t, c)
  \/ \E id \in Ids : Declare(id)

Spec == Init /\ [][Next]_vars
-----------------------------------------------------------------------------
Bodies == [id : Ids \cup {NoId}, groups : SUBSET Subscription]

Ops == {"none", "add", "remove", "replace", "reject", "declare"}

\* Type invariant of the map, the last body and the last call.
TypeOK ==
  /\ DOMAIN m \subseteq Types
  /\ m = [t \in DOMAIN m |-> m[t]]
  /\ \A t \in DOMAIN m : m[t] \subseteq Codes
  /\ body \in Bodies
  /\ call \in [op : Ops, arg : SUBSET Subscription, ok : BOOLEAN]

\* No type keeps an empty code set.  declaration() decides "unsubscribe all"
\* by len(s.m) == 0, so a leftover empty entry would send an id and a group
\* without codes (the server's no-codes error) where the protocol wants [].
NoEmptyEntry == \A t \in DOMAIN m : m[t] # {}

\* the topics a set of subscriptions or groups names
TopicsOf(S) == {tc \in Types \X Codes : tc[2] \in CodesOf(S, tc[1])}

\* A body the server accepts: either exactly [] without an id, or an id and one
\* non-empty group per type, within the limit the server enforces.
BodyWellFormed ==
  /\ body.groups = {} <=> body.id = NoId
  /\ \A g \in body.groups : g.codes # {}
  /\ \A g, h \in body.groups : g.type = h.type => g = h
  /\ Cardinality(TopicsOf(body.groups)) <= MaxTopics

\* The map behaves as one flat topic set: every call adds, removes or replaces
\* exactly the topics it names or, when it returns an error, nothing at all
\* (no partial application), and a body carries exactly the topics of the set.
Flat == INSTANCE TopicSet WITH
          AllTopics <- Types \X Codes,
          topics <- Topics(m), declared <- TopicsOf(body.groups),
          op <- call.op, asked <- TopicsOf(call.arg), ok <- call.ok

\* The refinement of TopicSet that Flat describes.
ImplementsTopicSet == Flat!Spec
=============================================================================
