------------------------------ MODULE MCFlood ------------------------------
(* Small instances of the flood controller for TLC. *)
EXTENDS Flood, TLC

CONSTANTS e1, e2, e3, e4, e5, e6, k1, k2

\* Every trap on one key, and four traps on one key, two on another.
OneKey == [e \in Event |-> k1]
TwoKeys == [e \in Event |-> IF e \in {e1, e2, e3, e4} THEN k1 ELSE k2]

\* The traps of one key are interchangeable.
OneKeySymmetry == Permutations(Event)
TwoKeySymmetry == Permutations({e1, e2, e3, e4}) \cup Permutations({e5, e6})

Settings(s, dedupe, n, window, interval) ==
  [strategy |-> s, dedupeWindow |-> dedupe, rateN |-> n,
   rateWindow |-> window, digestInterval |-> interval]

MCConfigs == {Settings(s, 2, 1, 2, 2) : s \in Strategies}
RateOnly == {Settings("rate_limit", 2, 1, 2, 2)}
RateOneOrTwo == {Settings("rate_limit", 2, n, 3, 2) : n \in {1, 2}}
RateOrDigest == {Settings(s, 2, 1, 2, 2) : s \in {"rate_limit", "digest"}}
=============================================================================
