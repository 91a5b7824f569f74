---------------------------- MODULE MCWorkerGate ----------------------------
(* WorkerGate for TLC: more threads than the pool admits, and enough of them *)
(* for a newcomer to compete with one woken and one sleeping thread.         *)
EXTENDS WorkerGate
=============================================================================
