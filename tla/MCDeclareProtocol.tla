------------------------- MODULE MCDeclareProtocol -------------------------
EXTENDS DeclareProtocol, TLC
CONSTANTS c1, c2, A, B

Subscribe(ks)   == [op |-> "subscribe", keys |-> ks]
Unsubscribe(ks) == [op |-> "unsubscribe", keys |-> ks]
Declare(ks)     == [op |-> "declare", keys |-> ks]

TwoCalls   == {c1, c2}
MCTopics   == {A, B}

\* adding, removing and the full release []
AllRequests  == {Subscribe({A}), Subscribe({B}), Unsubscribe({A}), Declare({})}
LiveRequests == {Subscribe({A, B}), Declare({})}
Additions    == {Subscribe({A}), Subscribe({B})}
=============================================================================
