------------------------ MODULE SandboxRuntimeProofs ------------------------
(***************************************************************************)
(* Proofs about SandboxRuntime, for any number of test cases and any       *)
(* results of the processes that run.                                      *)
(***************************************************************************)
EXTENDS SandboxRuntime, TLAPS

\* k is the first case of cases that failed.
IsFirst(k, cases) ==
    /\ k \in DOMAIN cases
    /\ cases[k].status # "AC"
    /\ \A m \in DOMAIN cases : m < k => cases[m].status = "AC"

AllPassed(cases) == \A k \in DOMAIN cases : cases[k].status = "AC"

\* The sum speaks for the cases that are in it.
SumRight ==
    LET cases == result.caseResults IN
    \/ result.status = "AC" /\ result.message = NoMessage /\ AllPassed(cases)
    \/ \E k \in DOMAIN cases :
        /\ IsFirst(k, cases)
        /\ result.status = cases[k].status
        /\ result.message = IF result.status \in AttachesMessage THEN k ELSE NoMessage

\* Nothing has been run.
Unrun == result.caseResults = <<>>

FlowInv ==
    /\ phase = "start" => Unrun /\ result.message = NoMessage
    /\ phase \in {"loop", "spj", "sum", "threw"} => SumRight
    /\ phase = "sum" \/ phase = "spj" => Len(result.caseResults) < Cases
    /\ phase = "collect" \/ phase = "answered" =>
        \/ Unrun /\ result.message \in {NoMessage, OtherMessage}
                 /\ (phase = "collect" => result.status = "SE" /\ result.message = OtherMessage)
        \/ SumRight /\ Len(result.caseResults) = Cases

AnswerInv ==
    /\ phase # "answered" => answer = NoAnswer
    /\ phase = "answered" =>
        \/ answer.status = "CE" /\ answer.compilerInfo = OtherMessage
        \/ answer = Collected(TRUE, result) /\ result.status \in Statuses
           /\ (Unrun => result.status = "SE" /\ result.message = OtherMessage)

IInv == TypeOK /\ FlowInv /\ AnswerInv

-----------------------------------------------------------------------------
LEMMA StatusTyped == ASSUME NEW r PROVE DetectCaseStatus(r) \in Statuses
BY DEF DetectCaseStatus, Statuses

LEMMA JudgedTyped ==
    ASSUME NEW r \in Runs, NEW same \in BOOLEAN
    PROVE  Judged(r, same) \in CaseResults
BY StatusTyped, RuntimeAssumption DEF Judged, CaseResults, Statuses, TimeOf, MemoryOf

LEMMA FirstIsFirst ==
    ASSUME NEW cases \in Seq(CaseResults), NEW k, IsFirst(k, cases)
    PROVE  Failures(cases) # {} /\ FirstFailure(cases) = k
<1>1. k \in Failures(cases) /\ Failures(cases) \subseteq Nat
  BY DEF IsFirst, Failures
<1>2. \A m \in Failures(cases) : k <= m
  BY <1>1 DEF IsFirst, Failures
<1>3. \A j \in Failures(cases) : (\A m \in Failures(cases) : j <= m) => j = k
  BY <1>1, <1>2
<1> QED
  BY <1>1, <1>2, <1>3 DEF FirstFailure

LEMMA PassedMeansNoFailures ==
    ASSUME NEW cases, AllPassed(cases) PROVE Failures(cases) = {}
BY DEF AllPassed, Failures

\* Adding one case keeps the sum right.
LEMMA SumStaysRight ==
    ASSUME TypeOK, SumRight, NEW case \in CaseResults, result' = SummedUp(result, case)
    PROVE  SumRight'
<1> DEFINE cases == result.caseResults
           grown == Append(cases, case)
           n == Len(cases) + 1
<1>1. cases \in Seq(CaseResults) /\ result.message \in 0 .. Cases + 1
  BY DEF TypeOK
<1>2. /\ grown \in Seq(CaseResults) /\ DOMAIN grown = 1 .. n
      /\ grown[n] = case /\ \A m \in 1 .. Len(cases) : grown[m] = cases[m]
      /\ DOMAIN cases = 1 .. Len(cases) /\ Len(cases) \in Nat
  BY <1>1
<1>3. result'.caseResults = grown
  BY DEF SummedUp, TypeOK
<1>4. CASE result.status = "AC" /\ result.message = NoMessage /\ AllPassed(cases)
  <2>1. /\ result'.status = case.status
        /\ result'.message = IF case.status \in AttachesMessage THEN n ELSE NoMessage
    BY <1>4 DEF SummedUp, TypeOK
  <2>2. CASE case.status = "AC"
    <3>1. AllPassed(grown)
      BY <1>2, <1>4, <2>2 DEF AllPassed
    <3> QED
      BY <1>3, <2>1, <2>2, <3>1 DEF SumRight, AttachesMessage
  <2>3. CASE case.status # "AC"
    <3>1. IsFirst(n, grown)
      BY <1>2, <1>4, <2>3 DEF AllPassed, IsFirst
    <3> QED
      BY <1>2, <1>3, <2>1, <3>1 DEF SumRight
  <2> QED
    BY <2>2, <2>3
<1>5. ASSUME NEW k \in DOMAIN cases, IsFirst(k, cases), result.status = cases[k].status,
             result.message = IF result.status \in AttachesMessage THEN k ELSE NoMessage
      PROVE  SumRight'
  <2>1. result'.status = result.status /\ result'.message = result.message
    BY <1>5 DEF SummedUp, TypeOK, IsFirst
  <2>2. IsFirst(k, grown) /\ grown[k] = cases[k] /\ k \in DOMAIN grown
    BY <1>2, <1>5 DEF IsFirst
  <2> QED
    BY <1>3, <1>5, <2>1, <2>2 DEF SumRight
<1> QED
  BY <1>4, <1>5 DEF SumRight
-----------------------------------------------------------------------------
LEMMA CollectedTyped ==
    ASSUME NEW success \in BOOLEAN, NEW sum,
           success => sum.status \in Statuses,
           sum.message \in 0 .. Cases + 1, sum.caseResults \in Seq(CaseResults)
    PROVE  Collected(success, sum) \in [status : Statuses \cup {"CE", "none"},
                compilerInfo : 0 .. Cases + 1, tests : Seq(CaseResults)]
BY RuntimeAssumption DEF Collected, OtherMessage, NoMessage

LEMMA InitTypeOK == Init => TypeOK
BY RuntimeAssumption
   DEF Init, TypeOK, NewCase, CaseResults, Statuses, NoMessage, NoAnswer

LEMMA StepTypeOK == TypeOK /\ FlowInv /\ [Next]_vars => TypeOK'
<1> SUFFICES ASSUME TypeOK, FlowInv, [Next]_vars PROVE TypeOK'
  OBVIOUS
<1>1. CASE CompileError
  <2> DEFINE sum == [result EXCEPT !.status = "CE", !.message = OtherMessage]
  <2>1. sum.message \in 0 .. Cases + 1 /\ sum.caseResults \in Seq(CaseResults)
    BY RuntimeAssumption DEF TypeOK, OtherMessage
  <2>2. Collected(FALSE, sum) \in [status : Statuses \cup {"CE", "none"},
                compilerInfo : 0 .. Cases + 1, tests : Seq(CaseResults)]
    BY <2>1, CollectedTyped
  <2> QED
    BY <1>1, <2>2 DEF CompileError, TypeOK
<1>2. CASE PrepareFails
  <2>1. OtherMessage \in 0 .. Cases + 1 /\ "SE" \in Statuses
    BY RuntimeAssumption DEF OtherMessage, Statuses
  <2>2. /\ result' \in [status : Statuses, runTime : Nat, runMemory : {0, 1},
                       message : 0 .. Cases + 1, caseResults : Seq(CaseResults)]
        /\ result'.caseResults = result.caseResults
    BY <1>2, <2>1 DEF PrepareFails, TypeOK
  <2> QED
    BY <1>2, <2>2 DEF PrepareFails, TypeOK
<1>3. CASE Prepare
  BY <1>3 DEF Prepare, TypeOK, Statuses
<1>4. CASE RunCase
  BY <1>4, JudgedTyped DEF RunCase, TypeOK
<1>5. CASE RunSpj
  <2>1. \A r : SpjStatus(r) \in Statuses
    BY DEF SpjStatus, Statuses
  <2> QED
    BY <1>5, <2>1 DEF RunSpj, TypeOK, CaseResults
<1>6. CASE SumUp
  <2>1. Len(result.caseResults) \in Nat /\ Len(result.caseResults) < Cases
    BY <1>6 DEF SumUp, FlowInv, TypeOK
  <2>2. /\ Append(result.caseResults, caseResult) \in Seq(CaseResults)
        /\ Len(Append(result.caseResults, caseResult)) = Len(result.caseResults) + 1
    BY DEF TypeOK
  <2>3. /\ Larger(result.runTime, caseResult.runTime) \in Nat
        /\ Larger(result.runMemory, caseResult.runMemory) \in {0, 1}
    BY DEF TypeOK, CaseResults, Larger
  <2>4. SummedUp(result, caseResult) \in
            [status : Statuses, runTime : Nat, runMemory : {0, 1},
             message : 0 .. Cases + 1, caseResults : Seq(CaseResults)]
    BY <2>1, <2>2, <2>3, RuntimeAssumption DEF SummedUp, TypeOK, CaseResults
  <2>5. Len(result'.caseResults) <= Cases
    BY <1>6, <2>1, <2>2, RuntimeAssumption DEF SumUp, SummedUp
  <2> QED
    BY <1>6, <2>4, <2>5 DEF SumUp, TypeOK
<1>7. CASE Finish
  BY <1>7 DEF Finish, TypeOK
<1>8. CASE Throw
  BY <1>8 DEF Throw, TypeOK
<1>9. CASE Collect
  <2>1. Collected(TRUE, result) \in [status : Statuses \cup {"CE", "none"},
                compilerInfo : 0 .. Cases + 1, tests : Seq(CaseResults)]
    BY CollectedTyped DEF TypeOK
  <2> QED
    BY <1>9, <2>1 DEF Collect, TypeOK
<1>10. CASE UNCHANGED vars
  BY <1>10 DEF vars, TypeOK
<1> QED
  BY <1>1, <1>2, <1>3, <1>4, <1>5, <1>6, <1>7, <1>8, <1>9, <1>10 DEF Next, Over

LEMMA StepFlowInv == TypeOK /\ FlowInv /\ [Next]_vars => FlowInv'
<1> SUFFICES ASSUME TypeOK, FlowInv, [Next]_vars PROVE FlowInv'
  OBVIOUS
<1>1. result' = result => (SumRight <=> SumRight')
  BY DEF SumRight
<1>2. CASE CompileError
  BY <1>2 DEF CompileError, FlowInv, Unrun
<1>3. CASE PrepareFails
  BY <1>3 DEF PrepareFails, FlowInv, Unrun, TypeOK
<1>4. CASE Prepare
  <2>1. SumRight'
    BY <1>4 DEF Prepare, FlowInv, Unrun, TypeOK, SumRight, AllPassed
  <2> QED
    BY <1>4, <2>1 DEF Prepare, FlowInv
<1>5. CASE RunCase
  BY <1>1, <1>5 DEF RunCase, FlowInv
<1>6. CASE RunSpj
  BY <1>1, <1>6 DEF RunSpj, FlowInv
<1>7. CASE SumUp
  <2>1. SumRight'
    BY <1>7, SumStaysRight DEF SumUp, FlowInv, TypeOK
  <2> QED
    BY <1>7, <2>1 DEF SumUp, FlowInv
<1>8. CASE Finish
  BY <1>1, <1>8 DEF Finish, FlowInv
<1>9. CASE Throw
  BY <1>1, <1>9 DEF Throw, FlowInv
<1>10. CASE Collect
  BY <1>1, <1>10 DEF Collect, FlowInv, Unrun
<1>11. CASE UNCHANGED vars
  BY <1>1, <1>11 DEF vars, FlowInv, Unrun
<1> QED
  BY <1>2, <1>3, <1>4, <1>5, <1>6, <1>7, <1>8, <1>9, <1>10, <1>11 DEF Next, Over

LEMMA StepAnswerInv == TypeOK /\ FlowInv /\ AnswerInv /\ [Next]_vars => AnswerInv'
<1> SUFFICES ASSUME TypeOK, FlowInv, AnswerInv, [Next]_vars PROVE AnswerInv'
  OBVIOUS
<1>1. CASE CompileError
  BY <1>1 DEF CompileError, AnswerInv, Collected
<1>2. CASE Collect
  <2>1. result' = result /\ phase' = "answered" /\ answer' = Collected(TRUE, result)
    BY <1>2 DEF Collect
  <2>2. result.status \in Statuses
    BY DEF TypeOK
  <2>3. Unrun => result.status = "SE" /\ result.message = OtherMessage
    BY <1>2, RuntimeAssumption DEF Collect, FlowInv, TypeOK, Unrun
  <2> QED
    BY <2>1, <2>2, <2>3 DEF AnswerInv, Unrun
<1>3. CASE UNCHANGED vars
  BY <1>3 DEF vars, AnswerInv, Unrun
<1>4. CASE PrepareFails \/ Prepare \/ RunCase \/ RunSpj \/ SumUp \/ Finish \/ Throw
  BY <1>4 DEF PrepareFails, Prepare, RunCase, RunSpj, SumUp, Finish, Throw, AnswerInv
<1> QED
  BY <1>1, <1>2, <1>3, <1>4 DEF Next, Over

LEMMA InitIInv == Init => IInv
<1>1. Init => FlowInv /\ AnswerInv
  BY DEF Init, FlowInv, AnswerInv, Unrun, NoAnswer
<1> QED
  BY <1>1, InitTypeOK DEF IInv

\* The inductive invariant holds in every behaviour of the runtime.
THEOREM RuntimeInvariant == Spec => []IInv
BY InitIInv, StepTypeOK, StepFlowInv, StepAnswerInv, PTL DEF Spec, IInv

\* The sum, the answer and the case at hand are always well typed.
THEOREM TypeCorrect == Spec => []TypeOK
BY RuntimeInvariant, PTL DEF IInv

\* For any number of test cases, an answer has the status of the first case
\* that failed, and AC only if all were run and accepted.
THEOREM FirstFailureGivesStatus == Spec => []FirstFailureDecides
<1>1. IInv => FirstFailureDecides
  <2> SUFFICES ASSUME IInv, answer.status \notin {"none", "CE"}, answer.tests # <<>>
               PROVE  /\ Len(answer.tests) = Cases
                      /\ answer.status = IF Failures(answer.tests) = {} THEN "AC"
                             ELSE answer.tests[FirstFailure(answer.tests)].status
    BY DEF FirstFailureDecides
  <2>1. phase = "answered" /\ answer = Collected(TRUE, result)
    <3>1. phase = "answered"
      BY DEF IInv, AnswerInv, NoAnswer
    <3> QED
      BY <3>1 DEF IInv, AnswerInv
  <2>2. answer.tests = result.caseResults /\ answer.status = result.status
    BY <2>1 DEF Collected
  <2>3. SumRight /\ Len(result.caseResults) = Cases
    BY <2>1, <2>2 DEF IInv, FlowInv, Unrun
  <2>4. result.caseResults \in Seq(CaseResults)
    BY DEF IInv, TypeOK
  <2>5. CASE result.status = "AC" /\ AllPassed(result.caseResults)
    BY <2>2, <2>3, <2>5, PassedMeansNoFailures
  <2>6. ASSUME NEW k \in DOMAIN result.caseResults, IsFirst(k, result.caseResults),
               result.status = result.caseResults[k].status
        PROVE  answer.status = IF Failures(answer.tests) = {} THEN "AC"
                               ELSE answer.tests[FirstFailure(answer.tests)].status
    BY <2>2, <2>4, <2>6, FirstIsFirst
  <2> QED
    BY <2>2, <2>3, <2>5, <2>6 DEF SumRight
<1> QED
  BY <1>1, RuntimeInvariant, PTL

\* The message of the sum is read from the case that decided it.
THEOREM MessageFitsStatus == Spec => []MessageOfTheDecidingCase
<1>1. IInv => MessageOfTheDecidingCase
  <2> SUFFICES ASSUME IInv, result.message \in 1 .. Cases
               PROVE  /\ Failures(result.caseResults) # {}
                      /\ result.message = FirstFailure(result.caseResults)
    BY DEF MessageOfTheDecidingCase
  <2>1. SumRight
    BY RuntimeAssumption DEF IInv, FlowInv, TypeOK, NoMessage, OtherMessage
  <2>2. PICK k \in DOMAIN result.caseResults :
            IsFirst(k, result.caseResults) /\ result.message = k
    BY <2>1 DEF SumRight, NoMessage
  <2>3. result.caseResults \in Seq(CaseResults)
    BY DEF IInv, TypeOK
  <2> QED
    BY <2>2, <2>3, FirstIsFirst
<1> QED
  BY <1>1, RuntimeInvariant, PTL

\* ComplierInfo is filled in for CE and SE only, and then always.
THEOREM InfoFitsStatus == Spec => []InfoOnlyForErrors
<1>1. IInv => InfoOnlyForErrors
  <2> SUFFICES ASSUME IInv, phase = "answered"
               PROVE  answer.compilerInfo # NoMessage <=> answer.status \in {"CE", "SE"}
    BY DEF InfoOnlyForErrors
  <2>1. CASE answer.status = "CE" /\ answer.compilerInfo = OtherMessage
    BY <2>1, RuntimeAssumption DEF OtherMessage, NoMessage
  <2>2. CASE answer = Collected(TRUE, result) /\ result.status \in Statuses
             /\ (Unrun => result.status = "SE" /\ result.message = OtherMessage)
    <3>1. result.status = "SE" => result.message # NoMessage
      <4>1. CASE Unrun
        BY <2>2, <4>1, RuntimeAssumption DEF OtherMessage, NoMessage
      <4>2. CASE SumRight
        BY <4>2 DEF SumRight, AttachesMessage, NoMessage, IInv, TypeOK
      <4> QED
        BY <4>1, <4>2 DEF IInv, FlowInv
    <3> QED
      BY <2>2, <3>1 DEF Collected, Statuses, NoMessage
  <2> QED
    BY <2>1, <2>2 DEF IInv, AnswerInv
<1> QED
  BY <1>1, RuntimeInvariant, PTL

-----------------------------------------------------------------------------
\* The maxima of no case at all are 0.
MaxInv ==
    /\ Unrun => result.runTime = 0 /\ result.runMemory = 0
    /\ MaximaOfAllCases

\* Adding one case keeps the maxima right.
LEMMA MaximaStayRight ==
    ASSUME TypeOK, MaxInv, SumUp
    PROVE  MaxInv'
<1> DEFINE cases == result.caseResults
           grown == Append(cases, caseResult)
           n == Len(cases) + 1
<1>1. /\ cases \in Seq(CaseResults) /\ caseResult \in CaseResults
      /\ result.runTime \in Nat /\ result.runMemory \in {0, 1}
      /\ caseResult.runTime \in Nat /\ caseResult.runMemory \in {0, 1}
  BY DEF TypeOK, CaseResults
<1>2. /\ grown \in Seq(CaseResults) /\ DOMAIN grown = 1 .. n
      /\ grown[n] = caseResult /\ \A m \in 1 .. Len(cases) : grown[m] = cases[m]
      /\ DOMAIN cases = 1 .. Len(cases) /\ Len(cases) \in Nat
  BY <1>1
<1>8. grown # <<>>
  <2>1. n \in DOMAIN grown /\ DOMAIN <<>> = {}
    BY <1>2
  <2> QED
    BY <2>1
<1>3. /\ result'.caseResults = grown
      /\ result'.runTime = Larger(result.runTime, caseResult.runTime)
      /\ result'.runMemory = Larger(result.runMemory, caseResult.runMemory)
  BY DEF SumUp, SummedUp
<1>4. \A k \in DOMAIN cases : cases[k].runTime \in Nat /\ cases[k].runMemory \in {0, 1}
  <2>1. \A k \in DOMAIN cases : cases[k] \in CaseResults
    BY <1>1
  <2> QED
    BY <2>1 DEF CaseResults
<1>5. \A k \in DOMAIN grown : /\ grown[k].runTime <= result'.runTime
                              /\ grown[k].runMemory <= result'.runMemory
  <2> SUFFICES ASSUME NEW k \in DOMAIN grown
               PROVE  /\ grown[k].runTime <= result'.runTime
                      /\ grown[k].runMemory <= result'.runMemory
    OBVIOUS
  <2>1. CASE k = n
    BY <1>1, <1>2, <1>3, <2>1 DEF Larger
  <2>2. CASE k \in DOMAIN cases
    <3>1. cases # <<>>
      BY <2>2, <1>2
    <3>2. cases[k].runTime <= result.runTime /\ cases[k].runMemory <= result.runMemory
      BY <2>2, <3>1 DEF MaxInv, MaximaOfAllCases
    <3> QED
      BY <1>1, <1>2, <1>3, <1>4, <2>2, <3>2 DEF Larger
  <2> QED
    BY <1>2, <2>1, <2>2
<1>6. \E k \in DOMAIN grown : grown[k].runTime = result'.runTime
  <2>1. CASE result.runTime > caseResult.runTime
    <3>1. cases # <<>>
      BY <2>1, <1>1 DEF MaxInv, Unrun
    <3>2. PICK k \in DOMAIN cases : cases[k].runTime = result.runTime
      BY <3>1 DEF MaxInv, MaximaOfAllCases
    <3> QED
      BY <1>2, <1>3, <2>1, <3>2 DEF Larger
  <2>2. CASE ~(result.runTime > caseResult.runTime)
    BY <1>2, <1>3, <2>2 DEF Larger
  <2> QED
    BY <2>1, <2>2
<1>7. \E k \in DOMAIN grown : grown[k].runMemory = result'.runMemory
  <2>1. CASE result.runMemory > caseResult.runMemory
    <3>1. cases # <<>>
      BY <2>1, <1>1 DEF MaxInv, Unrun
    <3>2. PICK k \in DOMAIN cases : cases[k].runMemory = result.runMemory
      BY <3>1 DEF MaxInv, MaximaOfAllCases
    <3> QED
      BY <1>2, <1>3, <2>1, <3>2 DEF Larger
  <2>2. CASE ~(result.runMemory > caseResult.runMemory)
    BY <1>2, <1>3, <2>2 DEF Larger
  <2> QED
    BY <2>1, <2>2
<1> QED
  BY <1>3, <1>5, <1>6, <1>7, <1>8 DEF MaxInv, MaximaOfAllCases, Unrun

LEMMA StepMaxInv == TypeOK /\ MaxInv /\ [Next]_vars => MaxInv'
<1> SUFFICES ASSUME TypeOK, MaxInv, [Next]_vars PROVE MaxInv'
  OBVIOUS
<1>1. CASE SumUp
  BY <1>1, MaximaStayRight
<1>2. CASE PrepareFails \/ Prepare
  <2>1. /\ result'.caseResults = result.caseResults
        /\ result'.runTime = result.runTime /\ result'.runMemory = result.runMemory
    BY <1>2 DEF PrepareFails, Prepare, TypeOK
  <2> QED
    BY <2>1 DEF MaxInv, MaximaOfAllCases, Unrun
<1>3. CASE UNCHANGED result
  BY <1>3 DEF MaxInv, MaximaOfAllCases, Unrun
<1> QED
  BY <1>1, <1>2, <1>3
     DEF Next, CompileError, RunCase, RunSpj, Finish, Throw, Collect, Over, vars

\* RunTime and RunMemory of the answer are the maxima over all the cases that have
\* been run, for any number of cases.
THEOREM MaximaAreOfAllCases == Spec => []MaximaOfAllCases
<1>1. Init => MaxInv
  BY DEF Init, MaxInv, MaximaOfAllCases, Unrun
<1>2. MaxInv => MaximaOfAllCases
  BY DEF MaxInv
<1> QED
  BY <1>1, <1>2, StepMaxInv, TypeCorrect, PTL DEF Spec

\* Where there is a special judge, no case is AC or WA but by its exit code.
THEOREM SpjDecides == Spec => []SpjHasTheLastWord
<1>1. Init => SpjHasTheLastWord
  BY DEF Init, SpjHasTheLastWord
<1>2. TypeOK /\ SpjHasTheLastWord /\ [Next]_vars => SpjHasTheLastWord'
  <2> SUFFICES ASSUME TypeOK, SpjHasTheLastWord, [Next]_vars, hasSpj', phase' = "sum",
                      caseResult'.status \in {"AC", "WA"}
               PROVE  \E r \in spjRun' : caseResult'.status = "AC"
                                <=> r.exitCode = 0 /\ r.signal = 0 /\ ~r.timedOut
    BY DEF SpjHasTheLastWord
  <2>1. CASE RunCase
    <3>1. PICK r \in Runs, same \in BOOLEAN : caseResult' = Judged(r, same)
      BY <2>1 DEF RunCase
    <3>2. hasSpj /\ caseResult'.status # "AC"
      BY <2>1 DEF RunCase
    <3>3. caseResult'.status = DetectCaseStatus(r)
      BY <3>1, <3>2 DEF Judged
    <3> QED
      BY <3>2, <3>3 DEF DetectCaseStatus
  <2>2. CASE RunSpj
    <3>1. PICK r \in SpjRuns : /\ spjRun' = {r}
                               /\ caseResult' = [caseResult EXCEPT !.status = SpjStatus(r)]
      BY <2>2 DEF RunSpj
    <3>2. caseResult'.status = SpjStatus(r)
      BY <3>1 DEF TypeOK, CaseResults
    <3> QED
      BY <2>2, <3>1, <3>2 DEF SpjStatus
  <2>3. CASE UNCHANGED vars
    BY <2>3 DEF vars, SpjHasTheLastWord
  <2> QED
    BY <2>1, <2>2, <2>3
       DEF Next, CompileError, PrepareFails, Prepare, SumUp, Finish, Throw, Collect, Over
<1> QED
  BY <1>1, <1>2, TypeCorrect, PTL DEF Spec
=============================================================================
