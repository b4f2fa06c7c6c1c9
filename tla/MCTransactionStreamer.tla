----------------------- MODULE MCTransactionStreamer -----------------------
(* Small instance of TransactionStreamer for TLC. *)
EXTENDS TransactionStreamer

CONSTANTS a, b, c
=============================================================================
