--------------------------- MODULE SandboxService ---------------------------
(***************************************************************************)
(* A request on its way through the service: SandboxService::submitTask    *)
(* (src/service/SandboxService.cpp) converts the fields of a JSON value,   *)
(* TaskManager validates the task and starts, one after the other, the     *)
(* children that serve it; the module follows the limits of the request    *)
(* to the setrlimit calls of those children.                               *)
(*                                                                         *)
(* A JSON value is a record of its kind and a number: that of an "int", a  *)
(* whole number of any size, which jsoncpp keeps in 64 bits, with or       *)
(* without sign, or else as a double; 0 or 1 for a "bool"; the integer     *)
(* part of a "real" that has a fraction.  A text is the number it is       *)
(* printed from, or names a language, or is NoText, the empty one.  Fixed- *)
(* width integers keep their width: an int is at most IntMax, a 64-bit one *)
(* at most LongMax, and a product that does not fit wraps, as the x86-64   *)
(* code of the build computes it.                                          *)
(***************************************************************************)
EXTENDS Integers

CONSTANTS
    Requests,       \* what callers submit: a record of fields, or another JSON value
    IntMax,         \* 2^31 - 1, a smaller power of two less one in the runs
    LongMax,        \* 2^63 - 1, likewise
    Megabyte,       \* 1024 * 1024
    Second,         \* 1000 ms, also the least time limit of compilers and SPJs
    LeastMemory,    \* 256 MiB, the least memory limit of compilers and SPJs
    NoText,         \* the empty string
    Languages,      \* the languages with a runner
    Javac           \* those of them that are compiled by javac

ASSUME ServiceAssumption ==
    /\ {IntMax, LongMax, Megabyte, Second, LeastMemory} \subseteq Nat \ {0}
    /\ IntMax < LongMax /\ Second <= IntMax /\ LeastMemory <= LongMax
    /\ Javac \subseteq Languages /\ NoText \notin Languages
    /\ \A r \in Requests : r.kind = "object" =>
        \A v \in {r.timeLimit, r.memoryLimit, r.testNum} :
            /\ v.kind \in {"int", "real"} => v.n \in Int
            /\ v.kind = "bool" => v.n \in {0, 1}

VARIABLES pc, request, task, child, reply
vars == <<pc, request, task, child, reply>>

\* More than any value a setrlimit of this program sets: no limit.
Unlimited == LongMax + 2

\* What a two's complement register of the width of max keeps of n.
Wrap(n, max) == ((n + max + 1) % (2 * (max + 1))) - (max + 1)

Larger(a, b) == IF a > b THEN a ELSE b

NoTask  == [submitId |-> NoText, problemId |-> NoText, code |-> NoText,
            language |-> NoText, timeLimit |-> 0, memoryLimit |-> 0, testNum |-> 0]
NoReply == [kind |-> "none", submitId |-> NoText]
NoChild == [what |-> "none", wall |-> Unlimited, memory |-> Unlimited, cpu |-> Unlimited,
            memoryAgain |-> Unlimited, cpuAgain |-> Unlimited]

IsRequest == request.kind = "object"

-----------------------------------------------------------------------------
\* jsoncpp, as submitTask uses it.  A conversion that its Fits operator does
\* not admit throws.
TextFits(v)    == v.kind \notin {"array", "object"}
NumberFits(v, max) == \/ v.kind \in {"null", "bool"}
                      \/ v.kind = "int" /\ v.n \in -max - 1 .. max
                      \/ v.kind = "real" /\ v.n \in -max .. max - 1

\* asString: null is the empty string, everything else is printed.
AsText(v) == IF v.kind = "null" THEN NoText ELSE v.n

\* asInt and asInt64: null is 0, a real loses its fraction.
AsNumber(v) == IF v.kind = "null" THEN 0 ELSE v.n

\* asTaskString: strings and whole numbers of 64 bits; anything else counts as
\* missing.  A number that only a uint64 can represent passes isUInt64 and then
\* throws.
IdFits(v) == v.kind = "int" => v.n \notin LongMax + 1 .. 2 * LongMax + 1
AsId(v)   == IF v.kind = "string" \/ (v.kind = "int" /\ v.n \in -LongMax - 1 .. LongMax)
             THEN v.n ELSE NoText

-----------------------------------------------------------------------------
\* Slips of the code below, for the mutation runs.

\* The product is computed in an int.
BytesInInt(megabytes) == Wrap(megabytes * Megabyte, IntMax)

\* Seconds rounded down, at least one.
CpuLimitFloor(ms) == IF ms > 0 THEN Larger(1, ms \div Second) ELSE Unlimited

-----------------------------------------------------------------------------
\* The 64-bit product that becomes the memory limit, and the int product that
\* becomes the time limit of a compiler.
Bytes(megabytes) == Wrap(megabytes * Megabyte, LongMax)
Doubled(ms)      == Wrap(ms * 2, IntMax)

\* runProcessCommand: RLIMIT_AS, and RLIMIT_CPU in seconds, rounded up, only
\* for limits above 0.  The hard CPU limit is always one second more.
AsLimit(bytes) == IF bytes > 0 THEN bytes ELSE Unlimited
CpuLimit(ms)   == IF ms > 0 THEN Larger(1, (ms + Second - 1) \div Second) ELSE Unlimited
WallLimit(ms)  == IF ms > 0 THEN ms ELSE Unlimited

\* A child that the parent limits by ms and bytes; inside the sandbox the cgroup
\* manager sets the two limits a second time, to msAgain and bytesAgain.
Child(what, ms, bytes, msAgain, bytesAgain) ==
    [what |-> what, wall |-> WallLimit(ms), memory |-> AsLimit(bytes), cpu |-> CpuLimit(ms),
     memoryAgain |-> AsLimit(bytesAgain), cpuAgain |-> CpuLimit(msAgain)]

Unconfined(what, ms, bytes) == Child(what, ms, bytes, ms, bytes)

\* Two more slips.

\* The floor of one second is missing, and with it what catches an overflow.
CompilerWithoutFloor ==
    Unconfined(IF task.language \in Javac THEN "javac" ELSE "compiler", Doubled(task.timeLimit),
               IF task.language \in Javac THEN 0 ELSE Larger(task.memoryLimit, LeastMemory))

\* Only the cgroup manager is told of the SPJ's least memory.
SpjWithSlack ==
    Child("spj", Larger(Second, task.timeLimit), task.memoryLimit,
                 Larger(Second, task.timeLimit), Larger(task.memoryLimit, LeastMemory))

-----------------------------------------------------------------------------
SpjBuilder == Unconfined("g++", Larger(Second, task.timeLimit),
                                Larger(task.memoryLimit, LeastMemory))
Compiler ==
    Unconfined(IF task.language \in Javac THEN "javac" ELSE "compiler",
               Larger(Second, Doubled(task.timeLimit)),
               IF task.language \in Javac THEN 0 ELSE Larger(task.memoryLimit, LeastMemory))
Program ==
    Child("program", task.timeLimit, task.memoryLimit, task.timeLimit, task.memoryLimit)
Spj ==
    Child("spj", Larger(Second, task.timeLimit), Larger(task.memoryLimit, LeastMemory),
                 Larger(Second, task.timeLimit), Larger(task.memoryLimit, LeastMemory))

Start(c) == child' = c
Reply(kind, submitId) ==
    /\ reply' = [kind |-> kind, submitId |-> submitId]
    /\ pc' = "done"

\* A slip of RefuseIds: the answer is built without the fields of the request.
RefuseAnonymously ==
    /\ pc = "converted"
    /\ NoText \in {task.submitId, task.problemId}
    /\ Reply("SE", NoText)
    /\ UNCHANGED <<request, task, child>>

-----------------------------------------------------------------------------
Init ==
    /\ pc = "called"
    /\ request \in Requests
    /\ task = NoTask
    /\ child = NoChild
    /\ reply = NoReply

\* submitTask is given something else than an object: the SE answer is built by
\* looking for fields in it, which jsoncpp allows for null only.
NotAnObject ==
    /\ pc = "called"
    /\ ~IsRequest
    /\ IF request.kind = "null" THEN Reply("SE", NoText) ELSE Reply("threw", NoText)
    /\ UNCHANGED <<request, task, child>>

FieldsFit ==
    /\ IdFits(request.submitId) /\ IdFits(request.problemId)
    /\ TextFits(request.code) /\ TextFits(request.language)
    /\ NumberFits(request.timeLimit, IntMax) /\ NumberFits(request.testNum, IntMax)
    /\ NumberFits(request.memoryLimit, LongMax)

Convert ==
    /\ pc = "called"
    /\ IsRequest
    /\ FieldsFit
    /\ task' = [submitId    |-> AsId(request.submitId),
                problemId   |-> AsId(request.problemId),
                code        |-> AsText(request.code),
                language    |-> AsText(request.language),
                timeLimit   |-> AsNumber(request.timeLimit),
                memoryLimit |-> Bytes(AsNumber(request.memoryLimit)),
                testNum     |-> AsNumber(request.testNum)]
    /\ pc' = "converted"
    /\ UNCHANGED <<request, child, reply>>

ConvertThrows ==
    /\ pc = "called"
    /\ IsRequest
    /\ ~FieldsFit
    /\ Reply("threw", NoText)
    /\ UNCHANGED <<request, task, child>>

\* An id is missing: buildSystemError converts the fields again.
RefuseIds ==
    /\ pc = "converted"
    /\ NoText \in {task.submitId, task.problemId}
    /\ Reply("SE", AsId(request.submitId))
    /\ UNCHANGED <<request, task, child>>

\* validateTask and findRunner.
Valid ==
    /\ NoText \notin {task.submitId, task.problemId, task.language, task.code}
    /\ task.testNum > 0 /\ task.timeLimit > 0 /\ task.memoryLimit > 0
    /\ task.language \in Languages

Refuse ==
    /\ pc = "converted"
    /\ NoText \notin {task.submitId, task.problemId}
    /\ ~Valid
    /\ Reply("SE", task.submitId)
    /\ UNCHANGED <<request, task, child>>

Accept ==
    /\ pc = "converted"
    /\ Valid
    /\ pc' = "accepted"
    /\ UNCHANGED <<request, task, child, reply>>

\* The files of a test case are missing, the SPJ is not built, or the sandbox
\* fails, before or after it has started a program.
Fail ==
    /\ pc \in {"accepted", "spjBuilt", "compiled", "run"}
    /\ Reply("SE", task.submitId)
    /\ UNCHANGED <<request, task, child>>

\* An exception leaves submitTask: fs::exists cannot look at a path, one of a
\* ProblemId too long for a file name for example, or memory or threads run out
\* in a worker pool.
Throw ==
    /\ pc \in {"accepted", "spjBuilt", "compiled", "run"}
    /\ Reply("threw", NoText)
    /\ UNCHANGED <<request, task, child>>

\* compileSpjIfNeeded starts g++, or there is nothing to compile.
BuildSpj ==
    /\ pc = "accepted"
    /\ Start(SpjBuilder) \/ UNCHANGED child
    /\ pc' = "spjBuilt"
    /\ UNCHANGED <<request, task, reply>>

\* Every runner of this code requires compilation.
Compile ==
    /\ pc = "spjBuilt"
    /\ Start(Compiler)
    /\ pc' = "compiled"
    /\ UNCHANGED <<request, task, reply>>

\* The compiler fails, or its directory cannot be made and it is not started.
CompileFails ==
    /\ pc \in {"spjBuilt", "compiled"}
    /\ Reply("CE", task.submitId)
    /\ UNCHANGED <<request, task, child>>

\* A test case: the program, then the SPJ if there is one, then the next case.
RunProgram ==
    /\ pc \in {"compiled", "run"}
    /\ Start(Program)
    /\ pc' = "run"
    /\ UNCHANGED <<request, task, reply>>

RunSpj ==
    /\ pc = "run"
    /\ child.what = "program"
    /\ Start(Spj)
    /\ UNCHANGED <<pc, request, task, reply>>

Judge ==
    /\ pc = "run"
    /\ Reply("judged", task.submitId)
    /\ UNCHANGED <<request, task, child>>

\* The caller has its answer.
Over == pc = "done" /\ UNCHANGED vars

Next ==
    \/ NotAnObject \/ Convert \/ ConvertThrows \/ RefuseIds \/ Refuse \/ Accept \/ Fail
    \/ Throw \/ BuildSpj \/ Compile \/ CompileFails \/ RunProgram \/ RunSpj \/ Judge \/ Over

Spec == Init /\ [][Next]_vars

-----------------------------------------------------------------------------
Limits == 1 .. LongMax

\* Task, child and answer have their types; a limit is positive or absent.
TypeOK ==
    /\ pc \in {"called", "converted", "accepted", "spjBuilt", "compiled", "run", "done"}
    /\ request \in Requests
    /\ task.timeLimit \in -IntMax - 1 .. IntMax /\ task.testNum \in -IntMax - 1 .. IntMax
    /\ task.memoryLimit \in -LongMax - 1 .. LongMax
    /\ child.what \in {"none", "g++", "compiler", "javac", "program", "spj"}
    /\ {child.wall, child.memory, child.cpu, child.memoryAgain, child.cpuAgain}
            \subseteq Limits \cup {Unlimited}
    /\ reply.kind \in {"none", "SE", "CE", "judged", "threw"}

\* Neither a field of a request nor an overflow on the way switches a limit off:
\* every child but javac has a time limit, a CPU limit and a memory limit.
EveryChildLimited ==
    child.what # "none" =>
        /\ Unlimited \notin {child.wall, child.cpu}
        /\ child.memory = Unlimited <=> child.what = "javac"

\* The CPU limit, in whole seconds, does not stop a single-threaded child before
\* its time limit in milliseconds.
CpuCoversWall == child.what # "none" => child.cpu * Second >= child.wall

\* The cgroup manager never asks for more than the parent has set before it:
\* without privileges a setrlimit that raises a hard limit fails, and the child
\* would end as a system error.
LimitsNotRaised ==
    child.memoryAgain <= child.memory /\ child.cpuAgain <= child.cpu

\* A program is judged under the limits its request states, and a compiler or
\* SPJ gets at least those, whenever the products fit; a memory product that is
\* too large gives less than was asked, never more.
LimitsAsAsked ==
    child.what # "none" =>
        LET ms    == request.timeLimit.n
            bytes == request.memoryLimit.n * Megabyte
        IN  /\ child.what = "program" => child.wall = ms
            /\ child.what = "program" /\ bytes > LongMax => child.memory < bytes
            /\ bytes \in -LongMax - 1 .. LongMax =>
                /\ bytes > 0 /\ child.memory >= bytes
                /\ child.what = "program" => child.memory = bytes
            /\ 2 * ms <= IntMax => child.wall >= ms
            /\ child.wall <= Larger(Second, 2 * ms)

\* Every answer to a request names the submission it is for, refusals of
\* incomplete requests included.  A request whose fields have the documented
\* kinds is never thrown out by the conversion or instead of a refusal: only
\* exceptions while it is served leave it without an answer.
IntIn(v, max) == v.kind = "int" /\ v.n \in -max - 1 .. max

Documented ==
    /\ IsRequest
    /\ \A v \in {request.submitId, request.problemId} : v.kind = "string" \/ IntIn(v, LongMax)
    /\ {request.code.kind, request.language.kind} = {"string"}
    /\ IntIn(request.timeLimit, IntMax) /\ IntIn(request.testNum, IntMax)
    /\ IntIn(request.memoryLimit, LongMax)

AnswersNameTheirRequest ==
    pc = "done" =>
        /\ Documented => IF reply.kind = "threw" THEN Valid
                                                 ELSE reply.submitId = request.submitId.n
        /\ reply.kind # "threw" /\ (IsRequest \/ reply.kind # "SE") =>
                reply.submitId = AsId(request.submitId)
=============================================================================
