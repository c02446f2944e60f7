--------------------------- MODULE MCEvAccounting ---------------------------
(* The instance of EvAccounting for TLC: its constants are plain values.    *)
EXTENDS EvAccounting
=============================================================================
