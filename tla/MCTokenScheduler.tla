-------------------------- MODULE MCTokenScheduler --------------------------
(* Small instances of TokenScheduler for TLC. *)
EXTENDS TokenScheduler, TLC

CONSTANTS t1, t2, k1, k2

\* The table of TOKEN_AGE_TIERS with its order and its ties kept: intervals
\* grow with the age, and the youngest is due again after two steps.
MCPriceInterval == [NEW |-> 1, ACTIVE |-> 1, ESTABLISHED |-> 2, MATURE |-> 2]
MCHolderInterval == [NEW |-> 1, ACTIVE |-> 2, ESTABLISHED |-> 2, MATURE |-> 2]

\* The most demand there can be: each token is due again with the next step of
\* the clock, so that both always compete for the one place of a tick.
AlwaysDue == [x \in Tiers |-> 0]

\* Both tokens are seen when they are new ...
AllNew == [t \in Tokens |-> "NEW"]

\* ... or one comes to the monitoring later than the other in its life.
OneNew == t1 :> "NEW" @@ t2 :> "ACTIVE"

Symmetric == Permutations({t1, t2}) \cup Permutations({k1, k2})
=============================================================================
