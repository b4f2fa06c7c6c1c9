--------------------------- MODULE MCPoolMonitor ---------------------------
(* Small instance of PoolMonitor for TLC. *)
EXTENDS PoolMonitor

CONSTANTS r1, r2
=============================================================================
