------------------------ MODULE SandboxServiceProofs ------------------------
(***************************************************************************)
(* Proofs about SandboxService, for every width of the integers, every     *)
(* unit and every set of requests: no field of a request and no overflow   *)
(* on its way leaves a child without a limit, or with another than asked.  *)
(***************************************************************************)
EXTENDS SandboxService, TLAPS

-----------------------------------------------------------------------------
\* Arithmetic of the conversions.
LEMMA Constants ==
    /\ IntMax \in Nat \ {0} /\ LongMax \in Nat \ {0} /\ Megabyte \in Nat \ {0}
    /\ Second \in Nat \ {0} /\ LeastMemory \in Nat \ {0}
    /\ IntMax < LongMax /\ Second <= IntMax /\ LeastMemory <= LongMax
BY ServiceAssumption

\* A register holds a number of its width, and the number itself if that fits.
LEMMA WrapRange ==
    ASSUME NEW max \in Nat \ {0}, NEW n \in Int
    PROVE  /\ Wrap(n, max) \in -max - 1 .. max
           /\ n \in -max - 1 .. max => Wrap(n, max) = n
<1> DEFINE w == 2 * (max + 1)
<1>1. w \in Nat \ {0} /\ n + max + 1 \in Int
  OBVIOUS
<1>2. (n + max + 1) % w \in 0 .. w - 1
  <2> HIDE DEF w
  <2> QED
    BY <1>1
<1>3. ASSUME n \in -max - 1 .. max PROVE (n + max + 1) % w = n + max + 1
  <2>1. n + max + 1 \in Nat /\ n + max + 1 < w
    BY <1>3
  <2> HIDE DEF w
  <2> QED
    BY <1>1, <2>1
<1> QED
  BY <1>2, <1>3 DEF Wrap

\* Seconds, rounded up, cover the milliseconds they are made of.
LEMMA SecondsCover ==
    ASSUME NEW ms \in Nat \ {0}
    PROVE  /\ CpuLimit(ms) \in 1 .. ms
           /\ CpuLimit(ms) * Second >= ms
<1> DEFINE q == (ms + Second - 1) \div Second
<1>1. Second \in Nat \ {0}
  BY Constants
<1>2. q \in Nat /\ q * Second >= ms /\ q <= ms
  BY <1>1
<1>3. q >= 1
  <2> HIDE DEF q
  <2> QED
    BY <1>1, <1>2
<1>4. CpuLimit(ms) = q
  <2>1. CpuLimit(ms) = Larger(1, q)
    BY DEF CpuLimit
  <2> HIDE DEF q
  <2> QED
    BY <1>2, <1>3, <2>1 DEF Larger
<1> HIDE DEF q
<1> QED
  BY <1>2, <1>3, <1>4

\* What a child started with positive limits is subject to.
LEMMA ChildLimits ==
    ASSUME NEW what, NEW ms \in 1 .. IntMax, NEW bytes \in 0 .. LongMax
    PROVE  LET c == Child(what, ms, bytes, ms, bytes)
           IN  /\ c.what = what /\ c.wall = ms
               /\ c.memory = IF bytes = 0 THEN Unlimited ELSE bytes
               /\ c.memoryAgain = c.memory /\ c.cpuAgain = c.cpu
               /\ c.cpu \in Limits /\ c.cpu * Second >= c.wall
               /\ c.wall \in Limits
<1>1. ms \in Nat \ {0} /\ ms <= LongMax
  BY Constants
<1>2. CpuLimit(ms) \in 1 .. LongMax /\ CpuLimit(ms) * Second >= ms
  BY <1>1, SecondsCover, Constants
<1>3. WallLimit(ms) = ms /\ ms \in Limits
  BY <1>1, Constants DEF WallLimit, Limits
<1>4. AsLimit(bytes) = IF bytes = 0 THEN Unlimited ELSE bytes
  BY DEF AsLimit
<1> QED
  BY <1>2, <1>3, <1>4 DEF Child, Limits

-----------------------------------------------------------------------------
Asked == [submitId    |-> AsId(request.submitId),
          problemId   |-> AsId(request.problemId),
          code        |-> AsText(request.code),
          language    |-> AsText(request.language),
          timeLimit   |-> AsNumber(request.timeLimit),
          memoryLimit |-> Bytes(AsNumber(request.memoryLimit)),
          testNum     |-> AsNumber(request.testNum)]

\* The task is the request, converted.
Converted == IsRequest /\ FieldsFit /\ task = Asked
Serving   == {"accepted", "spjBuilt", "compiled", "run"}

IInv ==
    /\ request \in Requests
    /\ pc \in {"called", "converted", "done"} \cup Serving
    /\ pc = "called" => task = NoTask
    /\ pc = "converted" => Converted
    /\ pc \in Serving => Converted /\ Valid
    /\ pc = "done" => task = NoTask \/ Converted
    /\ child # NoChild => Converted /\ Valid /\ child \in {SpjBuilder, Compiler, Program, Spj}
    /\ pc \in {"called", "converted", "accepted"} => child = NoChild
    /\ pc = "done" => /\ reply.kind = "threw" => ~IsRequest \/ ~FieldsFit \/ Valid
                      /\ reply.kind # "threw" /\ (IsRequest \/ reply.kind # "SE") =>
                            FieldsFit /\ reply.submitId = AsId(request.submitId)
    /\ reply.kind \in {"none", "SE", "CE", "judged", "threw"}
    /\ reply.kind \in {"CE", "judged"} => IsRequest
    /\ pc = "done" => reply.kind # "none"

LEMMA InitIInv == Init => IInv
BY DEF Init, IInv, Serving, NoReply

LEMMA StepIInv == IInv /\ [Next]_vars => IInv'
<1> SUFFICES ASSUME IInv, [Next]_vars PROVE IInv'
  OBVIOUS
<1> USE DEF IInv, Serving, Converted, IsRequest, FieldsFit, Reply, Valid
<1>1. CASE UNCHANGED vars \/ Over
  BY <1>1 DEF vars, Over, Asked, SpjBuilder, Compiler, Program, Spj
<1>2. CASE NotAnObject
  BY <1>2 DEF NotAnObject
<1>3. CASE Convert
  BY <1>3 DEF Convert, Asked
<1>4. CASE ConvertThrows
  BY <1>4 DEF ConvertThrows
<1>5. CASE RefuseIds \/ Refuse \/ CompileFails \/ Judge \/ Fail
  <2>1. /\ UNCHANGED <<request, task, child>> /\ Converted /\ pc' = "done"
        /\ reply' = [kind |-> reply'.kind, submitId |-> AsId(request.submitId)]
        /\ reply'.kind \in {"SE", "CE", "judged"}
    BY <1>5 DEF RefuseIds, Refuse, CompileFails, Judge, Fail, Asked
  <2>2. Asked' = Asked
    BY <2>1 DEF Asked
  <2>3. /\ SpjBuilder' = SpjBuilder /\ Compiler' = Compiler /\ Program' = Program
        /\ Spj' = Spj
    BY <2>1 DEF SpjBuilder, Compiler, Program, Spj
  <2> QED
    BY <2>1, <2>2, <2>3
<1>6. CASE Throw
  <2>1. /\ UNCHANGED <<request, task, child>> /\ Converted /\ Valid /\ pc' = "done"
        /\ reply' = [kind |-> "threw", submitId |-> NoText]
    BY <1>6 DEF Throw
  <2>2. Asked' = Asked
    BY <2>1 DEF Asked
  <2>3. /\ SpjBuilder' = SpjBuilder /\ Compiler' = Compiler /\ Program' = Program
        /\ Spj' = Spj
    BY <2>1 DEF SpjBuilder, Compiler, Program, Spj
  <2> QED
    BY <2>1, <2>2, <2>3
<1>7. CASE Accept
  BY <1>7 DEF Accept, Asked
<1>8. CASE BuildSpj \/ Compile \/ RunProgram \/ RunSpj
  <2>1. /\ UNCHANGED <<request, task, reply>> /\ pc \in Serving /\ pc' \in Serving \ {"accepted"}
        /\ child' \in {child, SpjBuilder, Compiler, Program, Spj}
    BY <1>8 DEF BuildSpj, Compile, RunProgram, RunSpj, Start
  <2>2. Asked' = Asked
    BY <2>1 DEF Asked
  <2>3. /\ SpjBuilder' = SpjBuilder /\ Compiler' = Compiler /\ Program' = Program
        /\ Spj' = Spj
    BY <2>1 DEF SpjBuilder, Compiler, Program, Spj
  <2> QED
    BY <2>1, <2>2, <2>3
<1> QED
  BY <1>1, <1>2, <1>3, <1>4, <1>5, <1>6, <1>7, <1>8 DEF Next

\* The inductive invariant holds in every behaviour of the service.
THEOREM ServiceInvariant == Spec => []IInv
BY InitIInv, StepIInv, PTL DEF Spec

-----------------------------------------------------------------------------
\* The limits of a valid task are those of the request whenever the product
\* fits, and less when it is too large.
LEMMA TaskLimits ==
    ASSUME request \in Requests, Converted, Valid,
           NEW bytes, bytes = request.memoryLimit.n * Megabyte
    PROVE  /\ task.timeLimit \in 1 .. IntMax /\ task.timeLimit = request.timeLimit.n
           /\ task.memoryLimit \in 1 .. LongMax
           /\ bytes > LongMax => task.memoryLimit < bytes
           /\ bytes \in -LongMax - 1 .. LongMax => task.memoryLimit = bytes
<1> USE DEF Converted, FieldsFit, IsRequest
<1>1. /\ task.timeLimit = AsNumber(request.timeLimit) /\ task.timeLimit > 0
      /\ task.memoryLimit = Bytes(AsNumber(request.memoryLimit)) /\ task.memoryLimit > 0
  BY DEF Asked, Valid
<1>2. request.timeLimit.kind # "null" /\ task.timeLimit = request.timeLimit.n
  BY <1>1 DEF AsNumber
<1>3. request.timeLimit.n \in -IntMax - 1 .. IntMax
  <2>1. request.timeLimit.kind = "bool" => request.timeLimit.n \in {0, 1}
    BY ServiceAssumption
  <2> QED
    BY <1>2, <2>1, Constants DEF NumberFits
<1>4. task.timeLimit \in 1 .. IntMax
  BY <1>1, <1>2, <1>3, Constants
<1>5. AsNumber(request.memoryLimit) \in Int
  <2>1. request.memoryLimit.kind \in {"null", "bool", "int", "real"}
    BY DEF NumberFits
  <2>2. /\ request.memoryLimit.kind = "bool" => request.memoryLimit.n \in {0, 1}
        /\ request.memoryLimit.kind \in {"int", "real"} => request.memoryLimit.n \in Int
    BY ServiceAssumption
  <2> QED
    BY <2>1, <2>2 DEF AsNumber
<1>6. request.memoryLimit.kind # "null"
  <2> SUFFICES ASSUME request.memoryLimit.kind = "null" PROVE FALSE
    OBVIOUS
  <2>1. task.memoryLimit = Wrap(0, LongMax)
    BY <1>1, Constants DEF AsNumber, Bytes
  <2> QED
    BY <1>1, <2>1, WrapRange, Constants
<1>7. bytes \in Int /\ task.memoryLimit = Wrap(bytes, LongMax)
  BY <1>1, <1>5, <1>6, Constants DEF AsNumber, Bytes
<1> QED
  BY <1>1, <1>2, <1>4, <1>7, WrapRange, Constants

\* Every child is started with limits that are positive and fit their registers.
LEMMA ChildOfTask ==
    ASSUME IInv, child # NoChild
    PROVE  \E ms \in 1 .. IntMax, bytes \in 0 .. LongMax :
            /\ child = Child(child.what, ms, bytes, ms, bytes)
            /\ child.what \in {"g++", "compiler", "javac", "program", "spj"}
            /\ bytes = 0 <=> child.what = "javac"
            /\ bytes = 0 \/ bytes >= task.memoryLimit
            /\ child.what = "program" => ms = task.timeLimit /\ bytes = task.memoryLimit
            /\ ms <= Larger(Second, 2 * task.timeLimit)
            /\ 2 * task.timeLimit <= IntMax => ms >= task.timeLimit
<1> DEFINE t == task.timeLimit
           m == task.memoryLimit
           d == Doubled(t)
<1>1. t \in 1 .. IntMax /\ m \in 1 .. LongMax
  BY TaskLimits DEF IInv
<1>2. d \in -IntMax - 1 .. IntMax /\ (2 * t <= IntMax => d = 2 * t) /\ d <= 2 * t
  BY <1>1, WrapRange, Constants DEF Doubled
<1>3. child \in {SpjBuilder, Compiler, Program, Spj}
  BY DEF IInv
<1>4. CASE child = SpjBuilder \/ child = Spj
  <2>1. /\ Larger(Second, t) \in 1 .. IntMax /\ Larger(m, LeastMemory) \in 1 .. LongMax
        /\ Larger(m, LeastMemory) >= m /\ Larger(Second, t) >= t
        /\ Larger(Second, t) <= Larger(Second, 2 * t)
    BY <1>1, Constants DEF Larger
  <2>2. \E what \in {"g++", "spj"} :
            child = Child(what, Larger(Second, t), Larger(m, LeastMemory),
                                Larger(Second, t), Larger(m, LeastMemory))
    BY <1>4 DEF SpjBuilder, Spj, Unconfined
  <2>3. child.what \in {"g++", "spj"}
    BY <2>2 DEF Child
  <2>4. child = Child(child.what, Larger(Second, t), Larger(m, LeastMemory),
                                  Larger(Second, t), Larger(m, LeastMemory))
    BY <2>2 DEF Child
  <2>5. Larger(m, LeastMemory) # 0
    BY <2>1
  <2> QED
    BY <2>1, <2>3, <2>4, <2>5
<1>5. CASE child = Compiler
  <2> DEFINE bytes == IF task.language \in Javac THEN 0 ELSE Larger(m, LeastMemory)
             what  == IF task.language \in Javac THEN "javac" ELSE "compiler"
  <2>1. /\ Larger(Second, d) \in 1 .. IntMax
        /\ 2 * t <= IntMax => Larger(Second, d) >= t
        /\ Larger(Second, d) <= Larger(Second, 2 * t)
    BY <1>1, <1>2, Constants DEF Larger
  <2>2. /\ bytes \in 0 .. LongMax /\ (bytes = 0 \/ bytes >= m)
        /\ bytes = 0 <=> what = "javac"
    BY <1>1, Constants DEF Larger
  <2>3. child = Child(what, Larger(Second, d), bytes, Larger(Second, d), bytes)
    BY <1>5 DEF Compiler, Unconfined
  <2>4. child.what = what /\ what \in {"javac", "compiler"}
    BY <2>3 DEF Child
  <2> HIDE DEF bytes, what
  <2> QED
    BY <2>1, <2>2, <2>3, <2>4
<1>6. CASE child = Program
  <2>1. child = Child("program", t, m, t, m)
    BY <1>6 DEF Program
  <2>2. child.what = "program"
    BY <2>1 DEF Child
  <2>3. t <= Larger(Second, 2 * t)
    BY <1>1, Constants DEF Larger
  <2> QED
    BY <1>1, <2>1, <2>2, <2>3
<1> QED
  BY <1>3, <1>4, <1>5, <1>6

-----------------------------------------------------------------------------
LEMMA NoChildUnlimited ==
    ASSUME child = NoChild
    PROVE  /\ child.what = "none"
           /\ child.memoryAgain <= child.memory /\ child.cpuAgain <= child.cpu
BY Constants DEF NoChild, Unlimited

\* The conversions keep the width of the fields.
LEMMA FieldTypes ==
    ASSUME request \in Requests, Converted
    PROVE  /\ task.timeLimit \in -IntMax - 1 .. IntMax
           /\ task.testNum \in -IntMax - 1 .. IntMax
           /\ task.memoryLimit \in -LongMax - 1 .. LongMax
<1> USE DEF Converted, FieldsFit, IsRequest
<1>1. \A v \in {request.timeLimit, request.memoryLimit, request.testNum} :
            v.kind = "bool" => v.n \in {0, 1}
  BY ServiceAssumption
<1>2. /\ AsNumber(request.timeLimit) \in -IntMax - 1 .. IntMax
      /\ AsNumber(request.testNum) \in -IntMax - 1 .. IntMax
      /\ AsNumber(request.memoryLimit) \in -LongMax - 1 .. LongMax
  BY <1>1, Constants DEF NumberFits, AsNumber
<1>3. AsNumber(request.memoryLimit) * Megabyte \in Int
  BY <1>2, Constants
<1> QED
  BY <1>2, <1>3, WrapRange, Constants DEF Asked, Bytes

\* Every state is well typed: the fields of the task fit their registers, and
\* no child has a limit that is neither positive nor absent.
THEOREM TypeCorrect == Spec => []TypeOK
<1>1. IInv => TypeOK
  <2> SUFFICES ASSUME IInv PROVE TypeOK
    OBVIOUS
  <2>1. /\ task.timeLimit \in -IntMax - 1 .. IntMax
        /\ task.testNum \in -IntMax - 1 .. IntMax
        /\ task.memoryLimit \in -LongMax - 1 .. LongMax
    <3>1. CASE task = NoTask
      BY <3>1, Constants DEF NoTask
    <3>2. CASE Converted
      BY <3>2, FieldTypes DEF IInv
    <3> QED
      BY <3>1, <3>2 DEF IInv, Serving
  <2>2. CASE child = NoChild
    BY <2>1, <2>2 DEF TypeOK, IInv, Serving, NoChild
  <2>3. CASE child # NoChild
    <3>1. PICK ms \in 1 .. IntMax, bytes \in 0 .. LongMax :
              /\ child = Child(child.what, ms, bytes, ms, bytes)
              /\ child.what \in {"g++", "compiler", "javac", "program", "spj"}
      BY <2>3, ChildOfTask
    <3>2. {child.wall, child.memory, child.cpu, child.memoryAgain, child.cpuAgain}
              \subseteq Limits \cup {Unlimited}
      BY <3>1, ChildLimits, Constants DEF Limits
    <3> QED
      BY <2>1, <3>1, <3>2 DEF TypeOK, IInv, Serving
  <2> QED
    BY <2>2, <2>3
<1> QED
  BY <1>1, ServiceInvariant, PTL

\* No field of a request and no overflow switches a limit of a child off.
THEOREM ChildrenAreLimited == Spec => []EveryChildLimited
<1>1. IInv => EveryChildLimited
  <2> SUFFICES ASSUME IInv, child # NoChild PROVE EveryChildLimited
    BY NoChildUnlimited DEF EveryChildLimited
  <2>1. PICK ms \in 1 .. IntMax, bytes \in 0 .. LongMax :
            /\ child = Child(child.what, ms, bytes, ms, bytes)
            /\ bytes = 0 <=> child.what = "javac"
    BY ChildOfTask
  <2>2. /\ child.wall \in Limits /\ child.cpu \in Limits
        /\ child.memory = IF bytes = 0 THEN Unlimited ELSE bytes
    BY <2>1, ChildLimits
  <2>3. Unlimited \notin Limits /\ (bytes = 0 <=> child.memory = Unlimited)
    BY <2>2, Constants DEF Limits, Unlimited
  <2> QED
    BY <2>1, <2>2, <2>3 DEF EveryChildLimited
<1> QED
  BY <1>1, ServiceInvariant, PTL

\* The CPU limit in seconds never undercuts the time limit in milliseconds.
THEOREM CpuLimitCoversWall == Spec => []CpuCoversWall
<1>1. IInv => CpuCoversWall
  <2> SUFFICES ASSUME IInv, child # NoChild PROVE CpuCoversWall
    BY NoChildUnlimited DEF CpuCoversWall
  <2>1. PICK ms \in 1 .. IntMax, bytes \in 0 .. LongMax :
            child = Child(child.what, ms, bytes, ms, bytes)
    BY ChildOfTask
  <2> QED
    BY <2>1, ChildLimits DEF CpuCoversWall
<1> QED
  BY <1>1, ServiceInvariant, PTL

\* The second pair of setrlimit calls never raises a limit of the first.
THEOREM LimitsAreNotRaised == Spec => []LimitsNotRaised
<1>1. IInv => LimitsNotRaised
  <2> SUFFICES ASSUME IInv, child # NoChild PROVE LimitsNotRaised
    BY NoChildUnlimited DEF LimitsNotRaised
  <2>1. PICK ms \in 1 .. IntMax, bytes \in 0 .. LongMax :
            child = Child(child.what, ms, bytes, ms, bytes)
    BY ChildOfTask
  <2>2. /\ child.memoryAgain = child.memory /\ child.cpuAgain = child.cpu
        /\ child.memory = IF bytes = 0 THEN Unlimited ELSE bytes
        /\ child.cpu \in Limits
    BY <2>1, ChildLimits
  <2> QED
    BY <2>2, Constants DEF LimitsNotRaised, Limits, Unlimited
<1> QED
  BY <1>1, ServiceInvariant, PTL

\* Programs, compilers and SPJs get the limits their request states.
THEOREM LimitsAreAsAsked == Spec => []LimitsAsAsked
<1>1. IInv => LimitsAsAsked
  <2> SUFFICES ASSUME IInv, child # NoChild PROVE LimitsAsAsked
    BY NoChildUnlimited DEF LimitsAsAsked
  <2> DEFINE asked == request.memoryLimit.n * Megabyte
  <2>1. /\ task.timeLimit \in 1 .. IntMax /\ task.timeLimit = request.timeLimit.n
        /\ task.memoryLimit \in 1 .. LongMax
        /\ asked > LongMax => task.memoryLimit < asked
        /\ asked \in -LongMax - 1 .. LongMax => task.memoryLimit = asked
    BY TaskLimits DEF IInv
  <2>2. PICK ms \in 1 .. IntMax, bytes \in 0 .. LongMax :
            /\ child = Child(child.what, ms, bytes, ms, bytes)
            /\ bytes = 0 <=> child.what = "javac"
            /\ bytes = 0 \/ bytes >= task.memoryLimit
            /\ child.what = "program" => ms = task.timeLimit /\ bytes = task.memoryLimit
            /\ ms <= Larger(Second, 2 * task.timeLimit)
            /\ 2 * task.timeLimit <= IntMax => ms >= task.timeLimit
    BY ChildOfTask
  <2>3. child.wall = ms /\ child.memory = IF bytes = 0 THEN Unlimited ELSE bytes
    BY <2>2, ChildLimits
  <2>4. child.memory >= task.memoryLimit
    BY <2>1, <2>2, <2>3, Constants DEF Unlimited
  <2>5. child.what = "program" => child.memory = task.memoryLimit
    BY <2>1, <2>2, <2>3
  <2> HIDE DEF asked
  <2>6. /\ child.what = "program" /\ asked > LongMax => child.memory < asked
        /\ asked \in -LongMax - 1 .. LongMax =>
            /\ asked > 0 /\ child.memory >= asked
            /\ child.what = "program" => child.memory = asked
    BY <2>1, <2>4, <2>5
  <2> QED
    BY <2>1, <2>2, <2>3, <2>6 DEF LimitsAsAsked, asked
<1> QED
  BY <1>1, ServiceInvariant, PTL

\* Answers name their submission, and a documented request is only thrown out
\* by an exception of the code that serves it.
THEOREM AnswersAreNamed == Spec => []AnswersNameTheirRequest
<1>1. IInv => AnswersNameTheirRequest
  <2> SUFFICES ASSUME IInv, pc = "done" PROVE AnswersNameTheirRequest
    BY DEF AnswersNameTheirRequest
  <2>1. ASSUME Documented
        PROVE  FieldsFit /\ IsRequest /\ AsId(request.submitId) = request.submitId.n
    <3>1. IsRequest /\ AsId(request.submitId) = request.submitId.n
      BY <2>1 DEF Documented, IntIn, AsId
    <3>2. IdFits(request.submitId) /\ IdFits(request.problemId)
      BY <2>1, Constants DEF Documented, IntIn, IdFits
    <3>3. TextFits(request.code) /\ TextFits(request.language)
      BY <2>1 DEF Documented, TextFits
    <3>4. /\ NumberFits(request.timeLimit, IntMax) /\ NumberFits(request.testNum, IntMax)
          /\ NumberFits(request.memoryLimit, LongMax)
      BY <2>1 DEF Documented, IntIn, NumberFits
    <3> QED
      BY <3>1, <3>2, <3>3, <3>4 DEF FieldsFit
  <2>2. reply.kind \in {"CE", "judged"} => reply.submitId = AsId(request.submitId)
    BY DEF IInv
  <2> QED
    BY <2>1, <2>2 DEF IInv, AnswersNameTheirRequest
<1> QED
  BY <1>1, ServiceInvariant, PTL
=============================================================================
