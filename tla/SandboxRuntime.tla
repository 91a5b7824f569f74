--------------------------- MODULE SandboxRuntime ---------------------------
(***************************************************************************)
(* SandboxRuntime::runProcess (src/sandboxRuntime/SandboxRuntime.cpp): the *)
(* loop that runs the program on every test case, judges each run, lets a  *)
(* special judge (SPJ) have the last word where there is one, and sums the *)
(* cases up; then ResultCollector turns the sum into the answer.           *)
(*                                                                         *)
(* A run of the program is any member of Runs, a run of the SPJ any member *)
(* of SpjRuns: ProcessRunner shows which results runProcessCommand can     *)
(* return.  An output is equal to the expected one, up to trailing blanks, *)
(* or it is not.  A message is the number of the test case it was read     *)
(* from, since it is the origin of a message that can be wrong.            *)
(***************************************************************************)
EXTENDS CaseStatus, Sequences

CONSTANTS
    Cases,         \* task.testCases.size()
    Runs,          \* what runProcessCommand may return for the program
    SpjRuns,       \* and for the special judge
    MayThrow       \* whether reading a file may throw

TimeOf(r)   == r.wallTime
MemoryOf(r) == IF r.overMemory THEN 1 ELSE 0     \* below or above the limit

ASSUME RuntimeAssumption ==
    /\ Cases \in Nat \ {0}
    /\ \A r \in Runs \cup SpjRuns :
        /\ r.wallTime \in Nat /\ r.exitCode \in Int /\ r.signal \in Nat
        /\ {r.timedOut, r.overMemory, r.oomText} \subseteq BOOLEAN
    /\ MayThrow \in BOOLEAN

VARIABLES
    phase,         \* where runProcess and then ResultCollector are
    hasSpj,        \* task.hasSpj
    caseResult,    \* the SandboxCaseResult of the test case at hand
    spjRun,        \* the ProcessRunResult of its special judge, if one has run
    result,        \* the SandboxRunResult
    answer         \* the SandboxFinalResult

vars == <<phase, hasSpj, caseResult, spjRun, result, answer>>

NoMessage  == 0
NewCase    == [status |-> "SE", runTime |-> 0, runMemory |-> 0]
NoAnswer   == [status |-> "none", compilerInfo |-> NoMessage, tests |-> <<>>]

\* A message that does not come from a test case: of collectSystemError, of
\* prepareSandbox or of the compiler.
OtherMessage == Cases + 1

Larger(a, b) == IF a > b THEN a ELSE b

Init ==
    /\ phase = "start"
    /\ hasSpj \in BOOLEAN
    /\ caseResult = NewCase
    /\ spjRun = {}
    /\ result = [status |-> "SE", runTime |-> 0, runMemory |-> 0,
                 message |-> NoMessage, caseResults |-> <<>>]
    /\ answer = NoAnswer

-----------------------------------------------------------------------------
\* shouldAttachGlobalMessage: these statuses take the stderr of the case, or a
\* fixed text if it is empty.
AttachesMessage == {"RE", "TLE", "MLE", "SE"}

\* Slips of the code below, for the mutation runs.

\* Without "result.status == AC": the last case that fails decides.
SummedUpLastFailure(sum, case) ==
    [status |-> IF case.status # "AC" THEN case.status ELSE sum.status,
     runTime |-> Larger(sum.runTime, case.runTime),
     runMemory |-> Larger(sum.runMemory, case.runMemory),
     message |-> IF case.status \in AttachesMessage THEN Len(sum.caseResults) + 1
                 ELSE sum.message,
     caseResults |-> Append(sum.caseResults, case)]

\* The message is attached outside the test that keeps the first failure.
SummedUpLastMessage(sum, case) ==
    [status |-> IF sum.status = "AC" THEN case.status ELSE sum.status,
     runTime |-> Larger(sum.runTime, case.runTime),
     runMemory |-> Larger(sum.runMemory, case.runMemory),
     message |-> IF case.status \in AttachesMessage THEN Len(sum.caseResults) + 1
                 ELSE sum.message,
     caseResults |-> Append(sum.caseResults, case)]

\* The maxima are assigned in the branch of the first failure only.
SummedUpTimeOfFailure(sum, case) ==
    [status |-> IF sum.status = "AC" THEN case.status ELSE sum.status,
     runTime |-> IF case.status # "AC" THEN Larger(sum.runTime, case.runTime)
                 ELSE sum.runTime,
     runMemory |-> Larger(sum.runMemory, case.runMemory),
     message |-> IF sum.status = "AC" /\ case.status \in AttachesMessage
                 THEN Len(sum.caseResults) + 1 ELSE sum.message,
     caseResults |-> Append(sum.caseResults, case)]

\* Outputs are compared although there is a special judge.
JudgedTwice(r, same) ==
    LET detected == DetectCaseStatus(r)
    IN  [status |-> IF detected = "AC" /\ ~same THEN "WA" ELSE detected,
         runTime |-> TimeOf(r), runMemory |-> MemoryOf(r)]

-----------------------------------------------------------------------------
\* The end of the loop's body: the maxima, and the first failure with its
\* message.
SummedUp(sum, case) ==
    [status |-> IF sum.status = "AC" THEN case.status ELSE sum.status,
     runTime |-> Larger(sum.runTime, case.runTime),
     runMemory |-> Larger(sum.runMemory, case.runMemory),
     message |-> IF sum.status = "AC" /\ case.status \in AttachesMessage
                 THEN Len(sum.caseResults) + 1 ELSE sum.message,
     caseResults |-> Append(sum.caseResults, case)]

\* The status of a run without the special judge.
Judged(r, same) ==
    LET detected == DetectCaseStatus(r)
    IN  [status |-> IF detected = "AC" /\ ~hasSpj /\ ~same THEN "WA" ELSE detected,
         runTime |-> TimeOf(r), runMemory |-> MemoryOf(r)]

\* The special judge's own failure, its rejection, its acceptance.
SpjStatus(r) ==
    IF r.timedOut \/ r.signal # 0 THEN "SE"
    ELSE IF r.exitCode # 0 THEN "WA" ELSE "AC"

\* collectResult: compilerInfo is for CE and SE.
Collected(success, sum) ==
    [status |-> IF success THEN sum.status ELSE "CE",
     compilerInfo |-> IF ~success THEN OtherMessage
                      ELSE IF sum.status = "SE" THEN sum.message ELSE NoMessage,
     tests |-> sum.caseResults]

-----------------------------------------------------------------------------
\* The compilation has failed: processTask collects an empty run result.
CompileError ==
    /\ phase = "start"
    /\ answer' = Collected(FALSE, [result EXCEPT !.status = "CE", !.message = OtherMessage])
    /\ phase' = "answered"
    /\ UNCHANGED <<hasSpj, caseResult, spjRun, result>>

\* processTask refuses the task (collectSystemError), runProcess has no runner,
\* or prepareSandbox fails: no test case is run.
PrepareFails ==
    /\ phase = "start"
    /\ result' = [result EXCEPT !.status = "SE", !.message = OtherMessage]
    /\ phase' = "collect"
    /\ UNCHANGED <<hasSpj, caseResult, spjRun, answer>>

Prepare ==
    /\ phase = "start"
    /\ result' = [result EXCEPT !.status = "AC"]
    /\ phase' = "loop"
    /\ UNCHANGED <<hasSpj, caseResult, spjRun, answer>>

\* One run of the program.  An accepted one goes on to the special judge.
RunCase ==
    /\ phase = "loop"
    /\ Len(result.caseResults) < Cases
    /\ \E r \in Runs, same \in BOOLEAN : caseResult' = Judged(r, same)
    /\ phase' = IF caseResult'.status = "AC" /\ hasSpj THEN "spj" ELSE "sum"
    /\ spjRun' = {}
    /\ UNCHANGED <<hasSpj, result, answer>>

RunSpj ==
    /\ phase = "spj"
    /\ \E r \in SpjRuns : /\ spjRun' = {r}
                          /\ caseResult' = [caseResult EXCEPT !.status = SpjStatus(r)]
    /\ phase' = "sum"
    /\ UNCHANGED <<hasSpj, result, answer>>

SumUp ==
    /\ phase = "sum"
    /\ result' = SummedUp(result, caseResult)
    /\ phase' = "loop"
    /\ UNCHANGED <<hasSpj, caseResult, spjRun, answer>>

\* The loop is over.
Finish ==
    /\ phase = "loop"
    /\ Len(result.caseResults) = Cases
    /\ phase' = "collect"
    /\ UNCHANGED <<hasSpj, caseResult, spjRun, result, answer>>

\* Reading an input, an output or stderr throws: there is no answer.
Throw ==
    /\ MayThrow
    /\ phase \in {"loop", "spj", "sum"}
    /\ phase' = "threw"
    /\ UNCHANGED <<hasSpj, caseResult, spjRun, result, answer>>

Collect ==
    /\ phase = "collect"
    /\ answer' = Collected(TRUE, result)
    /\ phase' = "answered"
    /\ UNCHANGED <<hasSpj, caseResult, spjRun, result>>

\* The answer, or the exception, has reached the caller.
Over == phase \in {"answered", "threw"} /\ UNCHANGED vars

Next == CompileError \/ PrepareFails \/ Prepare \/ RunCase \/ RunSpj \/ SumUp
        \/ Finish \/ Throw \/ Collect \/ Over

Spec == Init /\ [][Next]_vars

-----------------------------------------------------------------------------
Statuses == {"AC", "WA", "RE", "TLE", "MLE", "SE"}
CaseResults == [status : Statuses, runTime : Nat, runMemory : {0, 1}]

\* The variables have their types.
TypeOK ==
    /\ phase \in {"start", "loop", "spj", "sum", "collect", "answered", "threw"}
    /\ hasSpj \in BOOLEAN
    /\ caseResult \in CaseResults
    /\ spjRun \subseteq SpjRuns
    /\ result \in [status : Statuses, runTime : Nat, runMemory : {0, 1},
                   message : 0 .. Cases + 1, caseResults : Seq(CaseResults)]
    /\ Len(result.caseResults) <= Cases
    /\ answer \in [status : Statuses \cup {"CE", "none"},
                   compilerInfo : 0 .. Cases + 1, tests : Seq(CaseResults)]

Failures(cases) == {k \in DOMAIN cases : cases[k].status # "AC"}
FirstFailure(cases) == CHOOSE k \in Failures(cases) : \A m \in Failures(cases) : k <= m

\* README 7.5, "the first status that is not AC is the status of the whole":
\* an answer with test cases has the status of the first case that failed, and
\* is accepted only if every test case has been run and accepted.
FirstFailureDecides ==
    answer.status \notin {"none", "CE"} /\ answer.tests # <<>> =>
        /\ Len(answer.tests) = Cases
        /\ answer.status = IF Failures(answer.tests) = {} THEN "AC"
                           ELSE answer.tests[FirstFailure(answer.tests)].status

\* The message that goes with the sum is the one of the case that decided it,
\* never that of an earlier accepted or a later failing case.
MessageOfTheDecidingCase ==
    LET cases == result.caseResults IN
    result.message \in 1 .. Cases =>
        Failures(cases) # {} /\ result.message = FirstFailure(cases)

\* RunTime and RunMemory of the sum are the maxima over all cases run, accepted
\* or not.
MaximaOfAllCases ==
    LET cases == result.caseResults IN
    cases # <<>> =>
        /\ \A k \in DOMAIN cases : /\ cases[k].runTime <= result.runTime
                                   /\ cases[k].runMemory <= result.runMemory
        /\ \E k \in DOMAIN cases : cases[k].runTime = result.runTime
        /\ \E k \in DOMAIN cases : cases[k].runMemory = result.runMemory

\* Design 2.2: ComplierInfo is filled in for CE and SE and for nothing else.
InfoOnlyForErrors ==
    phase = "answered" =>
        (answer.compilerInfo # NoMessage <=> answer.status \in {"CE", "SE"})

\* With a special judge the output is never compared with the expected one: a
\* case is AC or WA only after the judge has run, and by its exit code alone.
SpjHasTheLastWord ==
    hasSpj /\ phase = "sum" /\ caseResult.status \in {"AC", "WA"} =>
        \E r \in spjRun :
            caseResult.status = "AC" <=> r.exitCode = 0 /\ r.signal = 0 /\ ~r.timedOut

\* Design 3.4, "a failure of the SPJ itself is SE": a special judge of which
\* runProcessCommand has no exit status does not make a submission wrong.
SpjFailureIsSE ==
    phase = "sum" =>
        \A r \in spjRun : r.exitCode = -1 /\ r.signal = 0 => caseResult.status = "SE"
=============================================================================
