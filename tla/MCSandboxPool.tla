--------------------------- MODULE MCSandboxPool ---------------------------
(* SandboxPool for TLC: more threads than slots, so that threads do wait. *)
EXTENDS SandboxPool
=============================================================================
