--------------------------- MODULE MCShyftClient ---------------------------
(* Small instances of ShyftClient for TLC. *)
EXTENDS ShyftClient

CONSTANTS c1, c2
=============================================================================
