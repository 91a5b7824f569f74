---------------------------- MODULE MCProcessRunner ----------------------------
(* ProcessRunner for TLC: two ticks before the limit, two after it. *)
EXTENDS ProcessRunner
=============================================================================
