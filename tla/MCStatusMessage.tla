-------------------------- MODULE MCStatusMessage --------------------------
(* StatusMessage for TLC: a few channels, one of which is there to be moved*)
(* to, and a repost window of two units.                                   *)
EXTENDS StatusMessage

CONSTANTS c1, c2, c3
=============================================================================
