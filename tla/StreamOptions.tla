--------------------------- MODULE StreamOptions ---------------------------
(***************************************************************************)
(* The options of a stream (stream/options.go), what New makes of them      *)
(* (stream/stream.go) and the delays of a redial (backoff, stream/conn.go). *)
(* A configuration is any record an order of With... calls can leave: New   *)
(* sees the result only.  Durations are integers; below 2^62 nanoseconds    *)
(* the doubling does not overflow.  The URL and the HTTP client are passed  *)
(* on and left out.                                                        *)
(***************************************************************************)
EXTENDS Integers

CONSTANTS
  DefaultTradeBuffer, DefaultOrderBuffer, DefaultDiagBuffer,
  DefaultPingInterval, DefaultDialTimeout, DefaultBackoffMin, DefaultBackoffMax,
  DefaultCoalesceDelay, DefaultRateLimitRetry

Buffers   == {"tradeBuffer", "orderBuffer"}
Intervals == {"pingInterval", "rateLimitRetry", "dialTimeout"}
Settings  == Buffers \cup Intervals \cup {"backoffMin", "backoffMax", "coalesceDelay"}

\* defaultConfig
Default == [f \in Settings |->
  CASE f = "tradeBuffer"    -> DefaultTradeBuffer
    [] f = "orderBuffer"    -> DefaultOrderBuffer
    [] f = "pingInterval"   -> DefaultPingInterval
    [] f = "rateLimitRetry" -> DefaultRateLimitRetry
    [] f = "dialTimeout"    -> DefaultDialTimeout
    [] f = "backoffMin"     -> DefaultBackoffMin
    [] f = "backoffMax"     -> DefaultBackoffMax
    [] f = "coalesceDelay"  -> DefaultCoalesceDelay]

ASSUME DefaultsAssumption ==
  /\ \A f \in Settings : Default[f] \in Nat \ {0}
  /\ DefaultDiagBuffer \in Nat \ {0}
  /\ DefaultBackoffMin <= DefaultBackoffMax

Configs == [Settings -> Int]

\* WithTradeBuffer, WithPingInterval, ...: one setting, whatever its value
With(cfg, f, n) == [cfg EXCEPT ![f] = n]

\* a setting below 1 falls back to its default
AtLeastOne(cfg, f) == IF cfg[f] < 1 THEN Default[f] ELSE cfg[f]

\* what New uses: the upper bound of the backoff is measured against the lower one,
\* after that has fallen back; the coalescing delay may be anything, below 1 it is none
Normal(cfg) == [f \in Settings |->
  CASE f \in Buffers \cup Intervals \cup {"backoffMin"} -> AtLeastOne(cfg, f)
    [] f = "backoffMax" -> IF cfg[f] < AtLeastOne(cfg, "backoffMin")
                           THEN AtLeastOne(cfg, "backoffMin") ELSE cfg[f]
    [] f = "coalesceDelay" -> cfg[f]]

\* the loop of backoff: d after k rounds, doubled as long as it is below max
Doubled(min, max) ==
  LET d[k \in Nat] == IF k = 0 THEN min
                      ELSE IF d[k - 1] < max THEN 2 * d[k - 1] ELSE d[k - 1]
  IN  d

\* the delay before a dial without its jitter: none before the first
Delay(attempt, min, max) ==
  IF attempt <= 1 THEN 0
  ELSE LET d == Doubled(min, max)[attempt - 2] IN IF d > max THEN max ELSE d

\* the delays backoff may return: up to a fifth more or less
Jittered(d) == {w \in 0..(2 * d) : 4 * d <= 5 * w /\ 5 * w <= 6 * d}
-----------------------------------------------------------------------------
\* What the rest of the stream relies on: every buffer holds an item, every interval is
\* positive (a ticker of 0 panics), the backoff has a range.
Usable(cfg) ==
  /\ \A f \in Settings \ {"coalesceDelay"} : cfg[f] \in Nat \ {0}
  /\ cfg["backoffMin"] <= cfg["backoffMax"]
=============================================================================
