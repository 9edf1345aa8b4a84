----------------------- MODULE SubscriptionSetProofs -----------------------
(***************************************************************************)
(* Proofs about SubscriptionSet for every set of types and codes and every  *)
(* limit, and that it implements the flat set of TopicSet.                  *)
(***************************************************************************)
EXTENDS SubscriptionSet, FiniteSetTheorems, TLAPS

\* A map from types to code sets.
IsMap(mm) ==
  /\ DOMAIN mm \subseteq Types
  /\ mm = [t \in DOMAIN mm |-> mm[t]]
  /\ \A t \in DOMAIN mm : mm[t] \subseteq Codes

LEMMA CodesOfType ==
  ASSUME NEW S \in SUBSET Subscription, NEW t
  PROVE  CodesOf(S, t) \subseteq Codes /\ TypesOf(S) \subseteq Types
  BY DEF CodesOf, TypesOf, Subscription

\* Merging adds exactly the topics named.
LEMMA MergeTopics ==
  ASSUME NEW mm, IsMap(mm), NEW S \in SUBSET Subscription
  PROVE  /\ IsMap(MergeInto(mm, S))
         /\ Topics(MergeInto(mm, S)) = Topics(mm) \cup TopicsOf(S)
<1> DEFINE nn == MergeInto(mm, S)
<1>1. DOMAIN nn = DOMAIN mm \cup TypesOf(S)
  BY DEF MergeInto
<1>2. \A t \in DOMAIN nn :
        nn[t] = (IF t \in DOMAIN mm THEN mm[t] ELSE {}) \cup CodesOf(S, t)
  BY DEF MergeInto
<1>3. IsMap(nn)
  <2>1. DOMAIN nn \subseteq Types
    BY <1>1, CodesOfType DEF IsMap
  <2>2. \A t \in DOMAIN nn : nn[t] \subseteq Codes
    BY <1>2, CodesOfType DEF IsMap
  <2>3. nn = [t \in DOMAIN nn |-> nn[t]]
    BY DEF MergeInto
  <2> QED
    BY <2>1, <2>2, <2>3 DEF IsMap
<1>4. ASSUME NEW tc \in Types \X Codes
      PROVE  tc \in Topics(nn) <=> tc \in Topics(mm) \cup TopicsOf(S)
  <2>1. tc[2] \in CodesOf(S, tc[1]) => tc[1] \in TypesOf(S)
    BY DEF CodesOf, TypesOf
  <2> QED
    BY <1>1, <1>2, <2>1 DEF Topics, TopicsOf
<1> QED
  BY <1>3, <1>4 DEF Topics, TopicsOf

\* Removing takes exactly the topics named, and a type goes with its last code.
LEMMA WithoutTopics ==
  ASSUME NEW mm, IsMap(mm), NEW S \in SUBSET Subscription
  PROVE  /\ IsMap(Without(mm, S))
         /\ Topics(Without(mm, S)) = Topics(mm) \ TopicsOf(S)
         /\ (\A t \in DOMAIN mm : mm[t] # {})
              => \A t \in DOMAIN Without(mm, S) : Without(mm, S)[t] # {}
<1> DEFINE nn == Without(mm, S)
<1>1. DOMAIN nn = {u \in DOMAIN mm : u \in TypesOf(S) => mm[u] \ CodesOf(S, u) # {}}
  BY DEF Without
<1>2. \A t \in DOMAIN nn : nn[t] = mm[t] \ CodesOf(S, t)
  BY DEF Without
<1>3. \A t : t \notin TypesOf(S) => CodesOf(S, t) = {}
  BY DEF CodesOf, TypesOf
<1>4. IsMap(nn)
  <2>1. nn = [t \in DOMAIN nn |-> nn[t]]
    BY DEF Without
  <2> QED
    BY <1>1, <1>2, <2>1 DEF IsMap
<1>5. ASSUME NEW tc \in Types \X Codes
      PROVE  tc \in Topics(nn) <=> tc \in Topics(mm) \ TopicsOf(S)
  BY <1>1, <1>2 DEF Topics, TopicsOf
<1>6. (\A t \in DOMAIN mm : mm[t] # {}) => \A t \in DOMAIN nn : nn[t] # {}
  BY <1>1, <1>2, <1>3
<1> QED
  BY <1>4, <1>5, <1>6 DEF Topics, TopicsOf

\* Every topic set is finite, so counting one makes sense.
LEMMA TopicsFinite ==
  ASSUME NEW T \in SUBSET (Types \X Codes)
  PROVE  IsFiniteSet(T) /\ Cardinality(T) \in Nat
<1>1. IsFiniteSet(Types \X Codes)
  BY ConstantsAssumption, FS_Product
<1> QED
  BY <1>1, FS_Subset, FS_CardinalityType

\* A body carries exactly the topics of the map.
LEMMA DeclarationTopics ==
  ASSUME IsMap(m), NoEmptyEntry, NEW id \in Ids
  PROVE  /\ Declaration(id) \in Bodies
         /\ TopicsOf(Declaration(id).groups) = Topics(m)
         /\ Declaration(id).groups = {} <=> Declaration(id).id = NoId
         /\ \A g \in Declaration(id).groups : g.codes # {}
         /\ \A g, h \in Declaration(id).groups : g.type = h.type => g = h
<1> DEFINE G == {[type |-> t, codes |-> m[t]] : t \in DOMAIN m}
<1>1. CASE DOMAIN m = {}
  <2>1. Declaration(id) = [id |-> NoId, groups |-> {}]
    BY <1>1 DEF Declaration
  <2>2. TopicsOf({}) = {} /\ Topics(m) = {}
    BY <1>1 DEF TopicsOf, CodesOf, Topics
  <2> QED
    BY <2>1, <2>2 DEF Bodies
<1>2. CASE DOMAIN m # {}
  <2>1. Declaration(id) = [id |-> id, groups |-> G]
    BY <1>2 DEF Declaration
  <2>2. G \in SUBSET Subscription /\ G # {}
    <3>1. \A t \in DOMAIN m : t \in Types /\ m[t] \in SUBSET Codes
      BY DEF IsMap
    <3>2. \A t \in DOMAIN m : [type |-> t, codes |-> m[t]] \in Subscription
      BY <3>1 DEF Subscription
    <3>3. G \in SUBSET Subscription
      BY <3>2
    <3>4. PICK t : t \in DOMAIN m
      BY <1>2
    <3>5. [type |-> t, codes |-> m[t]] \in G
      BY <3>4
    <3> QED
      BY <3>3, <3>5
  <2>3. \A g \in G : g.type \in DOMAIN m /\ g.codes = m[g.type]
                     /\ g = [type |-> g.type, codes |-> g.codes]
    OBVIOUS
  <2>4. ASSUME NEW t \in Types, NEW c
        PROVE  c \in CodesOf(G, t) <=> t \in DOMAIN m /\ c \in m[t]
    <3>1. c \in CodesOf(G, t) <=> \E g \in G : g.type = t /\ c \in g.codes
      BY DEF CodesOf
    <3>2. t \in DOMAIN m => [type |-> t, codes |-> m[t]] \in G
      OBVIOUS
    <3> QED
      BY <3>1, <3>2, <2>3
  <2>5. TopicsOf(G) = Topics(m)
    BY <2>4 DEF TopicsOf, Topics
  <2> QED
    BY <2>1, <2>2, <2>3, <2>5, ConstantsAssumption DEF Bodies, NoEmptyEntry
<1> QED
  BY <1>1, <1>2

\* The inductive invariant: the limit holds for the map, not only for bodies.
IInv ==
  /\ TypeOK
  /\ NoEmptyEntry
  /\ CountTopics(m) <= MaxTopics
  /\ BodyWellFormed

LEMMA InitInvariant == Init => IInv
<1> SUFFICES ASSUME Init PROVE IInv
  OBVIOUS
<1>1. TypeOK
  BY DEF Init, TypeOK, EmptyMap, Bodies, Ops
<1>2. NoEmptyEntry /\ Topics(m) = {} /\ TopicsOf(body.groups) = {}
  BY DEF Init, NoEmptyEntry, EmptyMap, Topics, TopicsOf, CodesOf
<1>3. Cardinality({}) = 0
  BY FS_EmptySet
<1>4. CountTopics(m) <= MaxTopics
  BY <1>2, <1>3, ConstantsAssumption DEF CountTopics
<1>5. BodyWellFormed
  BY <1>2, <1>3, ConstantsAssumption DEF BodyWellFormed, Init
<1> QED
  BY <1>1, <1>2, <1>4, <1>5 DEF IInv

\* A refused call leaves the invariant alone.
LEMMA RefuseStep ==
  ASSUME IInv, NEW op \in Ops, NEW S \in SUBSET Subscription, Refuse(op, S)
  PROVE  IInv'
<1>1. call' \in [op : Ops, arg : SUBSET Subscription, ok : BOOLEAN]
  BY DEF Refuse, Called
<1> QED
  BY <1>1 DEF Refuse, IInv, TypeOK, NoEmptyEntry, CountTopics, Topics, BodyWellFormed,
              TopicsOf, CodesOf

\* A stored map within the limit and without empty entries keeps it.
LEMMA StoreStep ==
  ASSUME IInv, NEW op \in Ops, NEW S \in SUBSET Subscription, NEW next,
         Store(op, S, next), IsMap(next), CountTopics(next) <= MaxTopics,
         \A t \in DOMAIN next : next[t] # {}
  PROVE  IInv'
<1>1. call' \in [op : Ops, arg : SUBSET Subscription, ok : BOOLEAN]
  BY DEF Store, Called
<1>2. m' = next /\ body' = body
  BY DEF Store
<1>3. TypeOK' /\ NoEmptyEntry'
  BY <1>1, <1>2 DEF IInv, TypeOK, NoEmptyEntry, IsMap
<1>4. (CountTopics(m) <= MaxTopics)'
  BY <1>2 DEF CountTopics, Topics
<1>5. BodyWellFormed'
  BY <1>2 DEF IInv, BodyWellFormed, TopicsOf, CodesOf
<1> QED
  BY <1>3, <1>4, <1>5 DEF IInv

\* Merging validated subscriptions leaves no empty entry.
LEMMA MergeNoEmpty ==
  ASSUME NEW mm, \A t \in DOMAIN mm : mm[t] # {},
         NEW S \in SUBSET Subscription, \A sub \in S : Validate(sub)
  PROVE  \A t \in DOMAIN MergeInto(mm, S) : MergeInto(mm, S)[t] # {}
<1>1. \A t \in TypesOf(S) : CodesOf(S, t) # {}
  BY DEF TypesOf, CodesOf, Validate
<1> QED
  BY <1>1 DEF MergeInto

LEMMA AddStep ==
  ASSUME IInv, NEW S \in SUBSET Subscription, Add(S)
  PROVE  IInv'
<1> DEFINE next == MergeInto(m, S)
<1>1. CASE (\A sub \in S : Validate(sub)) /\ CountTopics(next) <= MaxTopics
  <2>1. IsMap(next) /\ \A t \in DOMAIN next : next[t] # {}
    BY <1>1, MergeTopics, MergeNoEmpty DEF IInv, TypeOK, NoEmptyEntry, IsMap
  <2>2. Store("add", S, next)
    BY <1>1 DEF Add
  <2> QED
    BY <1>1, <2>1, <2>2, StoreStep DEF Ops
<1>2. CASE ~((\A sub \in S : Validate(sub)) /\ CountTopics(next) <= MaxTopics)
  BY <1>2, RefuseStep DEF Add, Ops
<1> QED
  BY <1>1, <1>2

LEMMA ReplaceStep ==
  ASSUME IInv, NEW S \in SUBSET Subscription, Replace(S)
  PROVE  IInv'
<1> DEFINE next == MergeInto(EmptyMap, S)
<1>1. IsMap(EmptyMap) /\ \A t \in DOMAIN EmptyMap : EmptyMap[t] # {}
  BY DEF IsMap, EmptyMap
<1>2. CASE (\A sub \in S : Validate(sub)) /\ CountTopics(next) <= MaxTopics
  <2>1. IsMap(next) /\ \A t \in DOMAIN next : next[t] # {}
    BY <1>1, <1>2, MergeTopics, MergeNoEmpty
  <2>2. Store("replace", S, next)
    BY <1>2 DEF Replace
  <2> QED
    BY <1>2, <2>1, <2>2, StoreStep DEF Ops
<1>3. CASE ~((\A sub \in S : Validate(sub)) /\ CountTopics(next) <= MaxTopics)
  BY <1>3, RefuseStep DEF Replace, Ops
<1> QED
  BY <1>2, <1>3

\* Taking topics away stays within the limit.
LEMMA WithoutStep ==
  ASSUME IInv, NEW op \in Ops, NEW S \in SUBSET Subscription,
         Store(op, S, Without(m, S))
  PROVE  IInv'
<1> DEFINE next == Without(m, S)
<1>1. IsMap(m)
  BY DEF IInv, TypeOK, IsMap
<1>2. /\ IsMap(next) /\ Topics(next) = Topics(m) \ TopicsOf(S)
      /\ \A t \in DOMAIN next : next[t] # {}
  BY <1>1, WithoutTopics DEF IInv, NoEmptyEntry
<1>3. IsFiniteSet(Topics(m)) /\ Cardinality(Topics(m)) \in Nat
  BY TopicsFinite DEF Topics
<1>4. Cardinality(Topics(next)) \in Nat /\ Cardinality(Topics(next)) <= Cardinality(Topics(m))
  BY <1>2, <1>3, FS_Subset, FS_CardinalityType
<1>5. CountTopics(next) <= MaxTopics
  BY <1>3, <1>4, ConstantsAssumption DEF CountTopics, IInv
<1> QED
  BY <1>2, <1>5, StoreStep

LEMMA DeclareStep ==
  ASSUME IInv, NEW id \in Ids, Declare(id)
  PROVE  IInv'
<1> DEFINE b == Declaration(id)
<1>1. body' = b /\ m' = m
  BY DEF Declare
<1>2. call' \in [op : Ops, arg : SUBSET Subscription, ok : BOOLEAN]
  BY DEF Declare, Called, Ops
<1>3. IsMap(m) /\ NoEmptyEntry
  BY DEF IInv, TypeOK, IsMap
<1>4. /\ b \in Bodies /\ TopicsOf(b.groups) = Topics(m)
      /\ b.groups = {} <=> b.id = NoId
      /\ \A g \in b.groups : g.codes # {}
      /\ \A g, h \in b.groups : g.type = h.type => g = h
  BY <1>3, DeclarationTopics
<1>5. TypeOK' /\ NoEmptyEntry'
  BY <1>1, <1>2, <1>4 DEF IInv, TypeOK, NoEmptyEntry
<1>6. (CountTopics(m) <= MaxTopics)'
  BY <1>1 DEF IInv, CountTopics, Topics
<1>7. Cardinality(TopicsOf(b.groups)) <= MaxTopics
  BY <1>4 DEF IInv, CountTopics
<1>8. TopicsOf(body.groups)' = TopicsOf(b.groups)
  BY <1>1 DEF TopicsOf, CodesOf
<1>9. BodyWellFormed'
  BY <1>1, <1>4, <1>7, <1>8 DEF BodyWellFormed
<1> QED
  BY <1>5, <1>6, <1>9 DEF IInv

LEMMA StepInvariant == IInv /\ [Next]_vars => IInv'
<1> SUFFICES ASSUME IInv, [Next]_vars PROVE IInv'
  OBVIOUS
<1>1. ASSUME NEW S \in Args, Add(S) \/ Remove(S) \/ Replace(S)
      PROVE  IInv'
  <2>1. S \in SUBSET Subscription
    BY DEF Args
  <2>2. CASE Remove(S)
    BY <2>1, <2>2, WithoutStep, RefuseStep DEF Remove, Ops
  <2> QED
    BY <1>1, <2>1, <2>2, AddStep, ReplaceStep
<1>2. ASSUME NEW t \in Types, NEW c \in Codes, Reject(t, c)
      PROVE  IInv'
  <2>1. {[type |-> t, codes |-> {c}]} \in SUBSET Subscription
    BY DEF Subscription
  <2> QED
    BY <1>2, <2>1, WithoutStep DEF Reject, Ops
<1>3. CASE UNCHANGED vars
  BY <1>3 DEF vars, IInv, TypeOK, NoEmptyEntry, CountTopics, Topics, BodyWellFormed,
              TopicsOf, CodesOf
<1> QED
  BY <1>1, <1>2, <1>3, DeclareStep DEF Next

\* The invariant holds in every reachable state.
THEOREM Invariance == Spec => []IInv
  BY InitInvariant, StepInvariant, PTL DEF Spec

\* Type correctness of the subscription map and of every body it produces.
THEOREM TypeCorrect == Spec => []TypeOK
<1>1. IInv => TypeOK
  BY DEF IInv
<1> QED
  BY <1>1, Invariance, PTL

\* No empty entry survives any sequence of calls.
THEOREM NoEmptyEntries == Spec => []NoEmptyEntry
<1>1. IInv => NoEmptyEntry
  BY DEF IInv
<1> QED
  BY <1>1, Invariance, PTL

\* Every body is one the server accepts, within its limit.
THEOREM BodiesWellFormed == Spec => []BodyWellFormed
<1>1. IInv => BodyWellFormed
  BY DEF IInv
<1> QED
  BY <1>1, Invariance, PTL

LEMMA InitRefines == Init => Flat!Init
<1> SUFFICES ASSUME Init PROVE Flat!Init
  OBVIOUS
<1>1. Topics(m) = {} /\ TopicsOf(body.groups) = {} /\ TopicsOf(call.arg) = {}
  BY DEF Init, EmptyMap, Topics, TopicsOf, CodesOf
<1> QED
  BY <1>1 DEF Init, Flat!Init

\* A refused call is a refusal of the flat set.
LEMMA RefuseRefines ==
  ASSUME NEW op \in {"add", "remove", "replace"}, NEW S \in SUBSET Subscription,
         Refuse(op, S)
  PROVE  Flat!Refuse(op, TopicsOf(S))
<1>1. call' = [op |-> op, arg |-> S, ok |-> FALSE] /\ m' = m /\ body' = body
  BY DEF Refuse, Called
<1>2. TopicsOf(call.arg)' = TopicsOf(S)
  BY <1>1 DEF TopicsOf, CodesOf
<1>3. Topics(m)' = Topics(m) /\ TopicsOf(body.groups)' = TopicsOf(body.groups)
  BY <1>1 DEF Topics, TopicsOf, CodesOf
<1> QED
  BY <1>1, <1>2, <1>3 DEF Flat!Refuse, Flat!Called

\* A stored map changes the flat set to its topics and nothing else.
LEMMA StoreRefines ==
  ASSUME NEW op, NEW S \in SUBSET Subscription, NEW next, Store(op, S, next)
  PROVE  /\ Flat!Called(op, TopicsOf(S), TRUE)
         /\ Topics(m)' = Topics(next)
         /\ TopicsOf(body.groups)' = TopicsOf(body.groups)
<1>1. call' = [op |-> op, arg |-> S, ok |-> TRUE] /\ m' = next /\ body' = body
  BY DEF Store, Called
<1>2. TopicsOf(call.arg)' = TopicsOf(S)
  BY <1>1 DEF TopicsOf, CodesOf
<1> QED
  BY <1>1, <1>2 DEF Flat!Called, Topics, TopicsOf, CodesOf

LEMMA StepRefines == IInv /\ [Next]_vars => [Flat!Next]_(Flat!vars)
<1> SUFFICES ASSUME IInv, [Next]_vars PROVE [Flat!Next]_(Flat!vars)
  OBVIOUS
<1>1. IsMap(m) /\ NoEmptyEntry
  BY DEF IInv, TypeOK, IsMap
<1>2. ASSUME NEW S \in SUBSET Subscription
      PROVE  TopicsOf(S) \in SUBSET (Types \X Codes)
  BY DEF TopicsOf
<1>3. ASSUME NEW S \in Args, Add(S) PROVE Flat!Next
  <2> DEFINE next == MergeInto(m, S)
  <2>1. S \in SUBSET Subscription
    BY DEF Args
  <2>2. CASE (\A sub \in S : Validate(sub)) /\ CountTopics(next) <= MaxTopics
    <3>1. Store("add", S, next)
      BY <1>3, <2>2 DEF Add
    <3>2. Topics(next) = Topics(m) \cup TopicsOf(S)
      BY <1>1, <2>1, MergeTopics
    <3>3. Flat!Add(TopicsOf(S))
      BY <2>1, <2>2, <3>1, <3>2, StoreRefines, Zenon DEF Flat!Add, CountTopics, Flat!Cardinality, Cardinality
    <3> QED
      BY <1>2, <2>1, <3>3 DEF Flat!Next
  <2>3. CASE ~((\A sub \in S : Validate(sub)) /\ CountTopics(next) <= MaxTopics)
    BY <1>2, <1>3, <2>1, <2>3, RefuseRefines DEF Add, Flat!Next
  <2> QED
    BY <2>2, <2>3
<1>4. ASSUME NEW S \in Args, Remove(S) PROVE Flat!Next
  <2>1. S \in SUBSET Subscription
    BY DEF Args
  <2>2. CASE \A sub \in S : Validate(sub)
    <3>1. Store("remove", S, Without(m, S))
      BY <1>4, <2>2 DEF Remove
    <3>2. Topics(Without(m, S)) = Topics(m) \ TopicsOf(S)
      BY <1>1, <2>1, WithoutTopics
    <3>3. Flat!Remove(TopicsOf(S))
      BY <2>1, <3>1, <3>2, StoreRefines DEF Flat!Remove
    <3> QED
      BY <1>2, <2>1, <3>3 DEF Flat!Next
  <2>3. CASE ~(\A sub \in S : Validate(sub))
    BY <1>2, <1>4, <2>1, <2>3, RefuseRefines DEF Remove, Flat!Next
  <2> QED
    BY <2>2, <2>3
<1>5. ASSUME NEW S \in Args, Replace(S) PROVE Flat!Next
  <2> DEFINE next == MergeInto(EmptyMap, S)
  <2>1. S \in SUBSET Subscription
    BY DEF Args
  <2>2. IsMap(EmptyMap) /\ Topics(EmptyMap) = {}
    BY DEF IsMap, EmptyMap, Topics
  <2>3. CASE (\A sub \in S : Validate(sub)) /\ CountTopics(next) <= MaxTopics
    <3>1. Store("replace", S, next)
      BY <1>5, <2>3 DEF Replace
    <3>2. Topics(next) = TopicsOf(S)
      BY <2>1, <2>2, MergeTopics
    <3>3. Flat!Replace(TopicsOf(S))
      BY <2>1, <2>3, <3>1, <3>2, StoreRefines, Zenon DEF Flat!Replace, CountTopics, Flat!Cardinality, Cardinality
    <3> QED
      BY <1>2, <2>1, <3>3 DEF Flat!Next
  <2>4. CASE ~((\A sub \in S : Validate(sub)) /\ CountTopics(next) <= MaxTopics)
    BY <1>2, <1>5, <2>1, <2>4, RefuseRefines DEF Replace, Flat!Next
  <2> QED
    BY <2>3, <2>4
<1>6. ASSUME NEW t \in Types, NEW c \in Codes, Reject(t, c) PROVE Flat!Next
  <2> DEFINE S == {[type |-> t, codes |-> {c}]}
  <2>1. S \in SUBSET Subscription
    BY DEF Subscription
  <2>2. Store("reject", S, Without(m, S))
    BY <1>6 DEF Reject
  <2>3. Topics(Without(m, S)) = Topics(m) \ TopicsOf(S)
    BY <1>1, <2>1, WithoutTopics
  <2>4. Flat!Reject(TopicsOf(S))
    BY <2>1, <2>2, <2>3, StoreRefines DEF Flat!Reject
  <2> QED
    BY <1>2, <2>1, <2>4 DEF Flat!Next
<1>7. ASSUME NEW id \in Ids, Declare(id) PROVE Flat!Next
  <2>1. body' = Declaration(id) /\ m' = m
        /\ call' = [op |-> "declare", arg |-> {}, ok |-> TRUE]
    BY <1>7 DEF Declare, Called
  <2>2. TopicsOf(body.groups)' = Topics(m)
    BY <1>1, <2>1, DeclarationTopics DEF TopicsOf, CodesOf
  <2>3. TopicsOf(call.arg)' = {} /\ Topics(m)' = Topics(m)
    BY <2>1 DEF TopicsOf, CodesOf, Topics
  <2> QED
    BY <2>1, <2>2, <2>3 DEF Flat!Next, Flat!Declare, Flat!Called
<1>8. CASE UNCHANGED vars
  BY <1>8 DEF vars, Flat!vars, Topics, TopicsOf, CodesOf
<1> QED
  BY <1>3, <1>4, <1>5, <1>6, <1>7, <1>8 DEF Next

\* The map of type to code set implements the flat topic set: the limit holds, a
\* failed call changes nothing, a declaration carries the whole set.
THEOREM Refinement == Spec => ImplementsTopicSet
  BY InitRefines, StepRefines, Invariance, PTL DEF Spec, ImplementsTopicSet, Flat!Spec
=============================================================================
