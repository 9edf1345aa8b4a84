------------------------- MODULE MCStreamLifecycle -------------------------
EXTENDS StreamLifecycle, StreamOptions, FiniteSetsExt, TLC
CONSTANTS k1, k2

MCClosers == {k1, k2}

\* What New makes of any two settings, and the redial delays against what they are
\* meant to be: min, 2 min, 4 min, ... up to max, and none where Backoff says so.
ASSUME OptionsAreUsable == \A n, m \in -1..2 : \A f, g \in Settings :
  Usable(Normal(With(With(Default, f, n), g, m)))

ASSUME BackoffDoubles == \A min \in 1..3 : \A max \in min..20 : \A n \in 2..8 :
  LET d == Delay(n, min, max)
  IN  /\ d = Min({max, min * 2^(n - 2)})
      /\ Delay(n - 1, min, max) <= d /\ Delay(1, min, max) = 0
      /\ d \in Jittered(d) /\ Backoff(n) = (0 \notin Jittered(d)) /\ ~Backoff(1)
=============================================================================
