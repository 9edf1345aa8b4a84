------------------------- MODULE MCSubscriptionSet -------------------------
EXTENDS SubscriptionSet, TLC
CONSTANTS trade, order, a, b

\* a type with two valid codes and a type with one valid and one malformed code
\* (an unknown type is a type all of whose codes are malformed)
MCTypes == {trade, order}
MCCodes == {a, b}
MCValidCodes == (trade :> {a, b}) @@ (order :> {b})
=============================================================================
