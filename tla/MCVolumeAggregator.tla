------------------------- MODULE MCVolumeAggregator -------------------------
(* Small instance of VolumeAggregator for TLC. *)
EXTENDS VolumeAggregator

CONSTANTS t1, t2, t3
=============================================================================
