----------------------------- MODULE TopicSet -----------------------------
(***************************************************************************)
(* What the subscription bookkeeping of stream/subscription.go promises:   *)
(* one flat set of topics that never exceeds the limit, changed by a call  *)
(* exactly as the call asked or, when the call fails, not at all, and      *)
(* declared to the server in full.  SubscriptionSet implements it with a   *)
(* map from type to code set.                                              *)
(***************************************************************************)
EXTENDS FiniteSets, Naturals

CONSTANTS AllTopics,  \* every topic that can be subscribed
          MaxTopics   \* the limit per connection

VARIABLES topics,     \* the topics the user wants
          declared,   \* the topics of the last declaration body
          op,         \* the last call,
          asked,      \* the topics it named
          ok          \* and whether it succeeded

vars == <<topics, declared, op, asked, ok>>

Init == topics = {} /\ declared = {} /\ op = "none" /\ asked = {} /\ ok = TRUE

Called(name, T, success) == op' = name /\ asked' = T /\ ok' = success

\* some topics join, if they fit
Add(T) == /\ Cardinality(topics \cup T) <= MaxTopics
          /\ topics' = topics \cup T
          /\ Called("add", T, TRUE)
          /\ UNCHANGED declared

\* some topics leave, on the user's or on the server's word
Remove(T) == topics' = topics \ T /\ Called("remove", T, TRUE) /\ UNCHANGED declared

Reject(T) == topics' = topics \ T /\ Called("reject", T, TRUE) /\ UNCHANGED declared

\* a whole new set, if it fits
Replace(T) == /\ Cardinality(T) <= MaxTopics
              /\ topics' = T
              /\ Called("replace", T, TRUE)
              /\ UNCHANGED declared

\* a refused call
Refuse(name, T) == Called(name, T, FALSE) /\ UNCHANGED <<topics, declared>>

\* the body is the whole set, whatever was declared before
Declare == declared' = topics /\ Called("declare", {}, TRUE) /\ UNCHANGED topics

Next ==
  \/ \E T \in SUBSET AllTopics :
       \/ Add(T) \/ Remove(T) \/ Reject(T) \/ Replace(T)
       \/ \E name \in {"add", "remove", "replace"} : Refuse(name, T)
  \/ Declare

Spec == Init /\ [][Next]_vars
=============================================================================
