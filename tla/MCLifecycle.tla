---------------------------- MODULE MCLifecycle ----------------------------
EXTENDS Lifecycle

CONSTANTS j1

\* One job of each kind, two signals beside the shortest one and none beside
\* the longest one.
MCWorkloads == [Jobs -> Kinds]
MCSignals ==
    [w \in MCWorkloads |->
        CASE w[j1] = "token" -> 2
          [] w[j1] = "price" -> 0
          [] OTHER -> 1]
=============================================================================
