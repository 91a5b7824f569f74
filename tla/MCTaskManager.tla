--------------------------- MODULE MCTaskManager ---------------------------
(* TaskManager for TLC.  Three tasks suffice for one to run, one to wait and  *)
(* one to arrive at each pool.  With the ids of Reused, a and b are two       *)
(* submissions of one id; with those of Distinct nothing is shared.           *)
EXTENDS TaskManager

CONSTANTS a, b, c, i, j

Submissions == {a, b, c}
Reused   == [t \in Submissions |-> IF t = c THEN j ELSE i]
Distinct == [t \in Submissions |-> t]

\* What a crash may leave in a directory: nothing, a source, a source that has
\* been compiled.
NothingLeft   == {Absent}
SomethingLeft == {Absent, [exists |-> TRUE, src |-> a, exe |-> a],
                          [exists |-> TRUE, src |-> b, exe |-> NoTask]}
=============================================================================
