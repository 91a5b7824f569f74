----------------------------- MODULE MCSpjCache -----------------------------
(* SpjCache for TLC.  One thread builds, one meets what it has left behind;   *)
(* the author replaces or removes the source up to twice.                     *)
EXTENDS SpjCache

CONSTANTS a, b
=============================================================================
