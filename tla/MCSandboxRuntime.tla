--------------------------- MODULE MCSandboxRuntime ---------------------------
(* SandboxRuntime for TLC: three test cases, so that a first failure can be    *)
(* followed by an accepted and by a failing case.  The runs are what           *)
(* ProcessRunner shows runProcessCommand to return for a limit of one tick.    *)
EXTENDS SandboxRuntime

AnyRun == {r \in Observations(1, 2) : r.wallTime > 0}

\* Those of them that ended in time and are told apart by the special judge.
SpjRun == {r \in AnyRun : r.wallTime = 1 /\ ~r.overMemory /\ ~r.oomText}
=============================================================================
