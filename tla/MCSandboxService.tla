------------------------- MODULE MCSandboxService -------------------------
EXTENDS SandboxService

Value(kind, n) == [kind |-> kind, n |-> n]
Base == [kind |-> "object", submitId |-> Value("string", 1), problemId |-> Value("string", 2),
         code |-> Value("string", 1), language |-> Value("string", 101),
         timeLimit |-> Value("int", 4), memoryLimit |-> Value("int", 3),
         testNum |-> Value("int", 1)]

\* Every pair of limits, over the width of each and beyond, in two languages; and
\* every field with a value of another kind.
Limited == {[Base EXCEPT !.timeLimit = Value("int", t), !.memoryLimit = Value("int", m),
                         !.language = Value("string", l)] :
            t \in {-1, 0, 1, 3, 4, 5, 7, 8, 9, 12, 15, 16}, m \in -64 .. 64, l \in {101, 102}}
OddValues == {Value("null", 0), Value("bool", 1), Value("int", 20), Value("int", 64),
              Value("int", 127), Value("int", 128), Value("int", -64), Value("int", -65),
              Value("real", 3), Value("real", 15), Value("real", -16), Value("string", NoText), Value("string", 5),
              Value("array", 0), Value("object", 0)}
Odd == {[Base EXCEPT ![f] = v] : f \in DOMAIN Base \ {"kind"}, v \in OddValues}
NotObjects == {Value("null", 0), Value("array", 0), Value("string", 1), Value("int", 1)}

MCRequests == Limited \cup Odd \cup NotObjects
=============================================================================
