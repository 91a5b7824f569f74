---------------------------- MODULE TaskManager ----------------------------
(***************************************************************************)
(* TaskManager::processTask (src/scheduler/TaskManager.cpp) run by many    *)
(* request threads at once, from submission to the answer.                 *)
(*                                                                         *)
(* A thread carries one task through the phases of pc: the global SPJ      *)
(* mutex, admission to CompilerPool, the build directory and the compiler, *)
(* admission to SandboxWorkerPool, a slot of SandboxPool, the copy of the  *)
(* build into the slot, the test cases, and the way back.  The two pools   *)
(* are instances of WorkerGate and the slots an instance of SandboxPool,   *)
(* so that every interleaving of their waiters is kept.                    *)
(*                                                                         *)
(* A directory on disk is a record of whose source and whose executable it *)
(* contains, or Absent.  What a program prints does not matter here; whose *)
(* program produced the verdict does.                                      *)
(***************************************************************************)
EXTENDS Integers, FiniteSets

CONSTANTS
    Tasks,            \* the submissions; each one is a request thread
    SubmitId,         \* SubmitId[t]: the id that names its directories
    Compiles,         \* the tasks whose code the compiler accepts
    Interpreted,      \* the tasks that run their source file (PythonRunner)
    CompilerCount,    \* CompilerPool::workerCount
    Capacity,         \* SandboxPool::capacity(), also the run pool's workerCount
    NoTask, NoSlot,
    EnvFails,         \* whether tasks may be refused, and the file system, fork,
                      \* the SPJ build or the sandbox set-up may fail
    MayThrow,         \* whether fs::exists, compile and runProcess may throw
    Orphans,          \* the tasks whose compiler, killed at its time limit, may
                      \* leave its linker behind
    Stubborn,         \* the tasks whose remove_all may fail, for instance because
                      \* a process left behind still writes into the directory
    InFlightTwins,    \* whether callers submit an id again before its answer
    KeepBuildDir,     \* XDOJ_KEEP_BUILD_DIR is set
    KeepRunDir,       \* XDOJ_KEEP_RUN_DIR is set
    Leftovers         \* what a directory may contain when the service starts:
                      \* an earlier life may have ended between any two steps

Slots == 0 .. Capacity - 1
Ids   == {SubmitId[t] : t \in Tasks}

ASSUME TaskAssumption ==
    /\ IsFiniteSet(Tasks)
    /\ SubmitId = [t \in Tasks |-> SubmitId[t]]
    /\ Compiles \subseteq Tasks
    /\ Interpreted \subseteq Tasks
    /\ Orphans \subseteq Tasks
    /\ Stubborn \subseteq Tasks
    /\ CompilerCount \in Nat
    /\ Capacity \in Nat
    /\ NoTask \notin Tasks
    /\ NoSlot \notin Slots
    /\ {EnvFails, MayThrow, InFlightTwins, KeepBuildDir, KeepRunDir} \subseteq BOOLEAN

VARIABLES
    pc,                          \* the phase of each request thread
    spjMutex,                    \* the owner of gSpjMutex
    compActive, compGate,        \* CompilerPool
    workActive, workGate,        \* SandboxWorkerPool
    inUse, poolWait, held,       \* SandboxPool
    buildDir,                    \* /tmp/xdoj-sandbox/build/<SubmitId>
    runDir,                      \* /tmp/xdoj-sandbox/pool/<slot>/sandbox/<SubmitId>
    orphan,                      \* whose program a linker of t that has been left
                                 \* behind is about to write
    lapses,                      \* what only properties read: who has failed to set
                                 \* up or to remove a directory, and whose id has
                                 \* directories left by an earlier life
    reading,                     \* whose source the running compiler has read
    guardPath,                   \* BuildDirGuard::path is set
    result                       \* what the thread is going to answer

compVars == <<compActive, compGate>>
workVars == <<workActive, workGate>>
poolVars == <<inUse, poolWait, held>>
diskVars == <<buildDir, runDir, orphan, lapses>>
vars == <<pc, spjMutex, compVars, workVars, poolVars, diskVars, reading, guardPath, result>>

Compilers == INSTANCE WorkerGate WITH
    Threads <- Tasks, WorkerCount <- CompilerCount,
    activeWorkers <- compActive, gate <- compGate

Workers == INSTANCE WorkerGate WITH
    Threads <- Tasks, WorkerCount <- Capacity,
    activeWorkers <- workActive, gate <- workGate

Pool == INSTANCE SandboxPool WITH
    Threads <- Tasks, MayAbandon <- MayThrow, wait <- poolWait

-----------------------------------------------------------------------------
Absent == [exists |-> FALSE, src |-> NoTask, exe |-> NoTask]
Empty  == [exists |-> TRUE, src |-> NoTask, exe |-> NoTask]
Dirs   == [exists : BOOLEAN, src : Tasks \cup {NoTask}, exe : Tasks \cup {NoTask}]

ASSUME LeftoversAssumption == Leftovers \subseteq Dirs

\* The files of dir put over what old still contains.
Over(dir, old) == [exists |-> TRUE,
                   src |-> IF dir.src = NoTask THEN old.src ELSE dir.src,
                   exe |-> IF dir.exe = NoTask THEN old.exe ELSE dir.exe]

\* A directory with some of the files of dir.
Parts(dir) == {[exists |-> TRUE, src |-> s, exe |-> e] :
                   s \in {dir.src, NoTask}, e \in {dir.exe, NoTask}}

\* remove_all(path, ec) for task t, after which nobody looks at ec.
Removed(t, dir) == {Absent} \cup IF t \in Stubborn /\ dir.exists THEN Parts(dir) ELSE {}

\* What a directory of id i contains comes from tasks of that id.
OfId(dir, i) == \A t \in {dir.src, dir.exe} \ {NoTask} : SubmitId[t] = i

\* An answer: its status, and whose code it speaks of (NoTask: nobody's).
Verdict(status, of) == [status |-> status, of |-> of]
Pending == Verdict("none", NoTask)

\* The artifact that a runner of t executes in a directory.
Artifact(t, dir) == IF t \in Interpreted THEN dir.src ELSE dir.exe

Goto(t, phase) == pc' = [pc EXCEPT ![t] = phase]
Conclude(t, status, of) == result' = [result EXCEPT ![t] = Verdict(status, of)]

\* The run directory of t in the slot that it holds.
Place(t) == <<held[t], SubmitId[t]>>

\* What prepareSandbox makes of it, and what it leaves when it breaks off.
Staged(t) == {Over(buildDir[SubmitId[t]], old) : old \in Removed(t, runDir[Place(t)])}
HalfStaged(t) == {Absent} \cup UNION {Parts(dir) : dir \in Staged(t)}

\* The tasks whose id has a directory.
Littered == {t \in Tasks : \/ buildDir[SubmitId[t]].exists
                           \/ \E s \in Slots : runDir[<<s, SubmitId[t]>>].exists}

\* It is remembered that t has failed to set up or to remove a directory.
Lapse(t, what, failed) == lapses' = IF failed THEN lapses \cup {<<t, what>>} ELSE lapses

InFlight == {t \in Tasks : pc[t] \notin {"idle", "answered"}}

Init ==
    /\ pc = [t \in Tasks |-> "idle"]
    /\ spjMutex = NoTask
    /\ Compilers!Init
    /\ Workers!Init
    /\ Pool!Init
    /\ buildDir \in {f \in [Ids -> Leftovers] : \A i \in Ids : OfId(f[i], i)}
    /\ runDir \in {f \in [Slots \X Ids -> Leftovers] :
                       \A si \in Slots \X Ids : OfId(f[si], si[2])}
    /\ orphan = [t \in Tasks |-> NoTask]
    /\ lapses = Littered \X {"earlier"}
    /\ reading = [t \in Tasks |-> NoTask]
    /\ guardPath = [t \in Tasks |-> FALSE]
    /\ result = [t \in Tasks |-> Pending]

-----------------------------------------------------------------------------
\* Slips of the code below, for the mutation runs.  The comment says what each
\* gets wrong.

\* The SPJ error path returns with gSpjMutex still locked.
SpjFailsLocked(t) ==
    /\ pc[t] = "spj"
    /\ EnvFails
    /\ Conclude(t, "SE", NoTask)
    /\ Goto(t, "answered")
    /\ UNCHANGED <<spjMutex, compVars, workVars, poolVars, diskVars, reading, guardPath>>

\* The guard's path is assigned only after the early return for CE.
LeaveCompilerLateGuard(t) ==
    /\ pc[t] = "leaveCompiler"
    /\ Compilers!Leave(t)
    /\ guardPath' = [guardPath EXCEPT ![t] = result[t] = Pending]
    /\ Goto(t, IF result[t] = Pending THEN "run" ELSE "cleanup")
    /\ reading' = [reading EXCEPT ![t] = NoTask]
    /\ UNCHANGED <<spjMutex, workVars, poolVars, diskVars, result>>

\* A failed compile() is overlooked, and its directory is run.
LeaveCompilerRegardless(t) ==
    /\ pc[t] = "leaveCompiler"
    /\ Compilers!Leave(t)
    /\ guardPath' = [guardPath EXCEPT ![t] = result[t].status # "threw"]
    /\ Goto(t, IF result[t].status # "threw" THEN "run" ELSE "cleanup")
    /\ reading' = [reading EXCEPT ![t] = NoTask]
    /\ UNCHANGED <<spjMutex, workVars, poolVars, diskVars, result>>

\* The run pool does not count: SandboxPool::acquire would have to.
EnterWorkerUngated(t) ==
    /\ pc[t] = "run"
    /\ workGate[t] = "outside"
    /\ workActive' = workActive + 1
    /\ workGate' = [workGate EXCEPT ![t] = "inside"]
    /\ Goto(t, "acquire")
    /\ UNCHANGED <<spjMutex, compVars, poolVars, diskVars, reading, guardPath, result>>

\* Neither remove_all nor overwrite_existing: files of an earlier run stay.
StageOverLeftovers(t) ==
    /\ pc[t] = "stage"
    /\ buildDir[SubmitId[t]].exists
    /\ runDir' = IF runDir[Place(t)].exists THEN runDir
                 ELSE [runDir EXCEPT ![Place(t)] = buildDir[SubmitId[t]]]
    /\ Goto(t, "cases")
    /\ UNCHANGED <<spjMutex, compVars, workVars, poolVars, buildDir, orphan, lapses, reading, guardPath, result>>

\* A failed prepareSandbox leaves execute() without the release.
StageFailsHolding(t) ==
    /\ pc[t] = "stage"
    /\ EnvFails
    /\ Conclude(t, "SE", NoTask)
    /\ Goto(t, "leaveWorker")
    /\ UNCHANGED <<spjMutex, compVars, workVars, poolVars, diskVars, reading, guardPath>>

\* release is called with a copy of the instance made before acquire.
ReleaseSlotZero(t) ==
    /\ pc[t] = "release"
    /\ inUse' = [inUse EXCEPT ![0] = FALSE]
    /\ held' = [held EXCEPT ![t] = NoSlot]
    /\ poolWait' \in Pool!Notified
    /\ Goto(t, "leaveWorker")
    /\ UNCHANGED <<spjMutex, compVars, workVars, diskVars, reading, guardPath, result>>

\* The run directory of a judged task is kept, as if for inspection.
TidyIfJudged(t) ==
    /\ pc[t] = "tidy"
    /\ runDir' = IF KeepRunDir \/ result[t].status = "judged" THEN runDir
                 ELSE [runDir EXCEPT ![Place(t)] = Absent]
    /\ Goto(t, "release")
    /\ UNCHANGED <<spjMutex, compVars, workVars, poolVars, buildDir, orphan, lapses, reading, guardPath, result>>

-----------------------------------------------------------------------------
\* A caller enters processTask.  Unless InFlightTwins, callers wait for the
\* answer before they submit the same id again.
Submit(t) ==
    /\ pc[t] = "idle"
    /\ InFlightTwins \/ \A u \in InFlight : SubmitId[u] # SubmitId[t]
    /\ Goto(t, "checking")
    /\ UNCHANGED <<spjMutex, compVars, workVars, poolVars, diskVars, reading, guardPath, result>>

\* validateTask, findRunner or loadTestCases refuses the task, or the
\* fs::exists of loadTestCases throws.
Refuse(t) ==
    /\ pc[t] = "checking"
    /\ \/ EnvFails /\ Conclude(t, "SE", NoTask)
       \/ MayThrow /\ Conclude(t, "threw", NoTask)
    /\ Goto(t, "answered")
    /\ UNCHANGED <<spjMutex, compVars, workVars, poolVars, diskVars, reading, guardPath>>

\* All of them pass; the thread goes on to gSpjMutex and can no longer turn back.
Accept(t) ==
    /\ pc[t] = "checking"
    /\ Goto(t, "arrived")
    /\ UNCHANGED <<spjMutex, compVars, workVars, poolVars, diskVars, reading, guardPath, result>>

\* lock_guard on gSpjMutex; compileSpjIfNeeded runs while it is held.
LockSpj(t) ==
    /\ pc[t] = "arrived"
    /\ spjMutex = NoTask
    /\ spjMutex' = t
    /\ Goto(t, "spj")
    /\ UNCHANGED <<compVars, workVars, poolVars, diskVars, reading, guardPath, result>>

SpjReady(t) ==
    /\ pc[t] = "spj"
    /\ spjMutex' = NoTask
    /\ Goto(t, "compile")
    /\ UNCHANGED <<compVars, workVars, poolVars, diskVars, reading, guardPath, result>>

\* compileSpjIfNeeded reports an error, or fs::exists throws: the lock_guard
\* unlocks on both ways out.
SpjFails(t) ==
    /\ pc[t] = "spj"
    /\ spjMutex' = NoTask
    /\ \/ EnvFails /\ Conclude(t, "SE", NoTask)
       \/ MayThrow /\ Conclude(t, "threw", NoTask)
    /\ Goto(t, "answered")
    /\ UNCHANGED <<compVars, workVars, poolVars, diskVars, reading, guardPath>>

-----------------------------------------------------------------------------
\* CompilerPool::compile, the admission.
EnterCompiler(t) ==
    /\ pc[t] = "compile"
    /\ Compilers!Enter(t)
    /\ Goto(t, "prepare")
    /\ UNCHANGED <<spjMutex, workVars, poolVars, diskVars, reading, guardPath, result>>

WaitForCompiler(t) ==
    /\ pc[t] = "compile"
    /\ Compilers!Block(t)
    /\ UNCHANGED <<pc, spjMutex, workVars, poolVars, diskVars, reading, guardPath, result>>

\* remove_all and create_directories.
PrepareBuildDir(t) ==
    /\ pc[t] = "prepare"
    /\ \E old \in Removed(t, buildDir[SubmitId[t]]) :
        buildDir' = [buildDir EXCEPT ![SubmitId[t]] = Over(Empty, old)]
    /\ Goto(t, "source")
    /\ UNCHANGED <<spjMutex, compVars, workVars, poolVars, runDir, orphan, lapses, reading, guardPath, result>>

\* create_directories fails: CE, as processTask reads every failed compile().
PrepareFails(t) ==
    /\ EnvFails
    /\ pc[t] = "prepare"
    /\ buildDir' = [buildDir EXCEPT ![SubmitId[t]] = Absent]
    /\ Conclude(t, "CE", NoTask)
    /\ Goto(t, "leaveCompiler")
    /\ UNCHANGED <<spjMutex, compVars, workVars, poolVars, runDir, orphan, lapses, reading, guardPath>>

WriteSource(t) ==
    /\ pc[t] = "source"
    /\ buildDir[SubmitId[t]].exists
    /\ buildDir' = [buildDir EXCEPT ![SubmitId[t]].src = t]
    /\ Goto(t, "start")
    /\ UNCHANGED <<spjMutex, compVars, workVars, poolVars, runDir, orphan, lapses, reading, guardPath, result>>

\* The source file cannot be opened, for instance because the directory has
\* been removed by another thread.
WriteFails(t) ==
    /\ pc[t] = "source"
    /\ EnvFails \/ ~buildDir[SubmitId[t]].exists
    /\ Conclude(t, "CE", NoTask)
    /\ Goto(t, "leaveCompiler")
    /\ UNCHANGED <<spjMutex, compVars, workVars, poolVars, diskVars, reading, guardPath>>

\* The compiler process starts and reads the source file.
StartCompiler(t) ==
    /\ pc[t] = "start"
    /\ reading' = [reading EXCEPT ![t] = buildDir[SubmitId[t]].src]
    /\ Goto(t, "compiling")
    /\ UNCHANGED <<spjMutex, compVars, workVars, poolVars, diskVars, guardPath, result>>

\* The compiler accepts what it read and writes the executable; py_compile
\* writes nothing the runner uses.
CompilerSucceeds(t) ==
    /\ pc[t] = "compiling"
    /\ reading[t] \in Compiles
    /\ buildDir[SubmitId[t]].exists
    /\ buildDir' = IF t \in Interpreted THEN buildDir
                   ELSE [buildDir EXCEPT ![SubmitId[t]].exe = reading[t]]
    /\ Goto(t, "leaveCompiler")
    /\ UNCHANGED <<spjMutex, compVars, workVars, poolVars, runDir, orphan, lapses, reading, guardPath, result>>

\* A non-zero exit or a signal of the compiler, or "compilation timed out".
\* The code is at fault when the compiler rejects what it read; otherwise the
\* directory was gone, fork failed or the machine was slow, and it is CE too.
CompilerFails(t) ==
    /\ pc[t] = "compiling"
    /\ \/ reading[t] \in Tasks \ Compiles /\ Conclude(t, "CE", reading[t])
       \/ /\ EnvFails \/ reading[t] = NoTask \/ ~buildDir[SubmitId[t]].exists
          /\ Conclude(t, "CE", NoTask)
    /\ Goto(t, "leaveCompiler")
    /\ UNCHANGED <<spjMutex, compVars, workVars, poolVars, diskVars, reading, guardPath>>

\* The time limit kills the driver and nobody else: CE, while its linker goes on.
CompilerOrphans(t) ==
    /\ EnvFails
    /\ t \in Orphans
    /\ pc[t] = "compiling"
    /\ reading[t] \in Compiles \ Interpreted
    /\ orphan' = [orphan EXCEPT ![t] = reading[t]]
    /\ Conclude(t, "CE", NoTask)
    /\ Goto(t, "leaveCompiler")
    /\ UNCHANGED <<spjMutex, compVars, workVars, poolVars, buildDir, runDir, lapses, reading, guardPath>>

\* That linker ends, and has written the executable or not; whoever may be using
\* the directory by now.
OrphanEnds(t) ==
    /\ orphan[t] # NoTask
    /\ orphan' = [orphan EXCEPT ![t] = NoTask]
    /\ buildDir' \in {buildDir} \cup
            IF buildDir[SubmitId[t]].exists
            THEN {[buildDir EXCEPT ![SubmitId[t]].exe = orphan[t]]} ELSE {}
    /\ UNCHANGED <<pc, spjMutex, compVars, workVars, poolVars, runDir, lapses, reading, guardPath, result>>

\* An exception leaves compile(), for instance while its diagnostics are read.
CompilerThrows(t) ==
    /\ MayThrow
    /\ pc[t] = "compiling"
    /\ Conclude(t, "threw", NoTask)
    /\ Goto(t, "leaveCompiler")
    /\ UNCHANGED <<spjMutex, compVars, workVars, poolVars, diskVars, reading, guardPath>>

\* The SlotGuard of compile().  The build directory is handed to the guard of
\* processTask only when compile() returns.
LeaveCompiler(t) ==
    /\ pc[t] = "leaveCompiler"
    /\ Compilers!Leave(t)
    /\ guardPath' = [guardPath EXCEPT ![t] = result[t].status # "threw"]
    /\ Goto(t, IF result[t] = Pending THEN "run" ELSE "cleanup")
    /\ reading' = [reading EXCEPT ![t] = NoTask]
    /\ UNCHANGED <<spjMutex, workVars, poolVars, diskVars, result>>

-----------------------------------------------------------------------------
\* SandboxWorkerPool::execute, the admission and the slot.
EnterWorker(t) ==
    /\ pc[t] = "run"
    /\ Workers!Enter(t)
    /\ Goto(t, "acquire")
    /\ UNCHANGED <<spjMutex, compVars, poolVars, diskVars, reading, guardPath, result>>

WaitForWorker(t) ==
    /\ pc[t] = "run"
    /\ Workers!Block(t)
    /\ UNCHANGED <<pc, spjMutex, compVars, poolVars, diskVars, reading, guardPath, result>>

AcquireSlot(t) ==
    /\ pc[t] = "acquire"
    /\ Pool!Take(t)
    /\ Goto(t, "stage")
    /\ UNCHANGED <<spjMutex, compVars, workVars, diskVars, reading, guardPath, result>>

WaitForSlot(t) ==
    /\ pc[t] = "acquire"
    /\ Pool!Block(t)
    /\ UNCHANGED <<pc, spjMutex, compVars, workVars, diskVars, reading, guardPath, result>>

\* prepareSandbox: remove_all, create_directories, copy the build directory over
\* what may still be there.
Stage(t) ==
    /\ pc[t] = "stage"
    /\ buildDir[SubmitId[t]].exists
    /\ \E dir \in Staged(t) : runDir' = [runDir EXCEPT ![Place(t)] = dir]
    /\ Goto(t, "cases")
    /\ UNCHANGED <<spjMutex, compVars, workVars, poolVars, buildDir, orphan, lapses, reading, guardPath, result>>

\* prepareSandbox fails at some point: runProcess returns SE at once and
\* whatever has been created stays.
StageFails(t) ==
    /\ pc[t] = "stage"
    /\ EnvFails \/ ~buildDir[SubmitId[t]].exists
    /\ \E dir \in HalfStaged(t) : runDir' = [runDir EXCEPT ![Place(t)] = dir]
    /\ Lapse(t, "setup", TRUE)
    /\ Conclude(t, "SE", NoTask)
    /\ Goto(t, "release")
    /\ UNCHANGED <<spjMutex, compVars, workVars, poolVars, buildDir, orphan, reading, guardPath>>

\* The loop over the test cases: the program in the run directory is judged.
\* Without an artifact execvp fails, which is reported as SE.
RunCases(t) ==
    /\ pc[t] = "cases"
    /\ LET code == Artifact(t, runDir[Place(t)])
       IN  \/ code # NoTask /\ Conclude(t, "judged", code)
           \/ (code = NoTask \/ EnvFails) /\ Conclude(t, "SE", NoTask)
    /\ Goto(t, "tidy")
    /\ UNCHANGED <<spjMutex, compVars, workVars, poolVars, diskVars, reading, guardPath>>

\* The end of runProcess removes the run directory.
TidyRunDir(t) ==
    /\ pc[t] = "tidy"
    /\ IF KeepRunDir THEN UNCHANGED <<runDir, lapses>>
       ELSE \E dir \in Removed(t, runDir[Place(t)]) :
                /\ runDir' = [runDir EXCEPT ![Place(t)] = dir]
                /\ Lapse(t, "run", dir.exists)
    /\ Goto(t, "release")
    /\ UNCHANGED <<spjMutex, compVars, workVars, poolVars, buildDir, orphan, reading, guardPath, result>>

ReleaseSlot(t) ==
    /\ pc[t] = "release"
    /\ Pool!Release(t)
    /\ Goto(t, "leaveWorker")
    /\ UNCHANGED <<spjMutex, compVars, workVars, diskVars, reading, guardPath, result>>

\* An exception leaves runProcess: the copy loop's iterator and the reading of
\* outputs can throw.  Nothing between here and SlotGuard releases the slot.
RunThrows(t) ==
    /\ \/ pc[t] = "cases" /\ UNCHANGED runDir
       \/ pc[t] = "stage" /\ \E dir \in HalfStaged(t) :
                                runDir' = [runDir EXCEPT ![Place(t)] = dir]
    /\ Pool!Abandon(t)
    /\ Conclude(t, "threw", NoTask)
    /\ Goto(t, "leaveWorker")
    /\ UNCHANGED <<spjMutex, compVars, workVars, buildDir, orphan, lapses, reading, guardPath>>

\* The SlotGuard of execute().
LeaveWorker(t) ==
    /\ pc[t] = "leaveWorker"
    /\ Workers!Leave(t)
    /\ Goto(t, "cleanup")
    /\ UNCHANGED <<spjMutex, compVars, poolVars, diskVars, reading, guardPath, result>>

\* collectResult, then ~BuildDirGuard, then processTask is over.
Answer(t) ==
    /\ pc[t] = "cleanup"
    /\ IF KeepBuildDir \/ ~guardPath[t] THEN UNCHANGED <<buildDir, lapses>>
       ELSE \E dir \in Removed(t, buildDir[SubmitId[t]]) :
                /\ buildDir' = [buildDir EXCEPT ![SubmitId[t]] = dir]
                /\ Lapse(t, "build", dir.exists)
    /\ Goto(t, "answered")
    /\ UNCHANGED <<spjMutex, compVars, workVars, poolVars, runDir, orphan, reading, guardPath, result>>

-----------------------------------------------------------------------------
\* A thread asleep on one of the three condition variables wakes by itself.
WakeAtCompiler(t) ==
    /\ Compilers!SpuriousWake(t)
    /\ UNCHANGED <<pc, spjMutex, workVars, poolVars, diskVars, reading, guardPath, result>>

WakeAtWorker(t) ==
    /\ Workers!SpuriousWake(t)
    /\ UNCHANGED <<pc, spjMutex, compVars, poolVars, diskVars, reading, guardPath, result>>

WakeAtSlot(t) ==
    /\ Pool!SpuriousWake(t)
    /\ UNCHANGED <<pc, spjMutex, compVars, workVars, diskVars, reading, guardPath, result>>

\* What the thread of t does by itself once it has been called.
Step(t) ==
    \/ Refuse(t) \/ Accept(t) \/ LockSpj(t) \/ SpjReady(t) \/ SpjFails(t)
    \/ EnterCompiler(t) \/ WaitForCompiler(t)
    \/ PrepareBuildDir(t) \/ PrepareFails(t) \/ WriteSource(t) \/ WriteFails(t)
    \/ StartCompiler(t) \/ CompilerSucceeds(t) \/ CompilerFails(t) \/ CompilerThrows(t)
    \/ CompilerOrphans(t) \/ LeaveCompiler(t)
    \/ EnterWorker(t) \/ WaitForWorker(t) \/ AcquireSlot(t) \/ WaitForSlot(t)
    \/ Stage(t) \/ StageFails(t) \/ RunCases(t) \/ RunThrows(t) \/ TidyRunDir(t)
    \/ ReleaseSlot(t) \/ LeaveWorker(t) \/ Answer(t)

Wake(t) == WakeAtCompiler(t) \/ WakeAtWorker(t) \/ WakeAtSlot(t)

\* Every task has been answered: the model, not the service, stops here.
Finished ==
    /\ \A t \in Tasks : pc[t] = "answered"
    /\ UNCHANGED vars

Next == (\E t \in Tasks : Submit(t) \/ Step(t) \/ Wake(t) \/ OrphanEnds(t)) \/ Finished

Spec == Init /\ [][Next]_vars

\* The operating system schedules every thread that can run; compilers and
\* judged programs end, because their time limits are enforced.
FairSpec == Spec /\ \A t \in Tasks : WF_vars(Step(t))

-----------------------------------------------------------------------------
Phases == {"idle", "checking", "arrived", "spj", "compile", "prepare", "source",
           "start", "compiling", "leaveCompiler", "run", "acquire", "stage", "cases",
           "tidy", "release", "leaveWorker", "cleanup", "answered"}

InCompiler == {"prepare", "source", "start", "compiling", "leaveCompiler"}
HasSlot    == {"stage", "cases", "tidy", "release"}
InWorker   == HasSlot \cup {"acquire", "leaveWorker"}

\* The variables have their types.
TypeOK ==
    /\ pc \in [Tasks -> Phases]
    /\ spjMutex \in Tasks \cup {NoTask}
    /\ Compilers!TypeOK /\ Workers!TypeOK /\ Pool!TypeOK
    /\ buildDir \in [Ids -> Dirs]
    /\ runDir \in [Slots \X Ids -> Dirs]
    /\ orphan \in [Tasks -> Tasks \cup {NoTask}]
    /\ lapses \subseteq Tasks \X {"earlier", "setup", "run", "build"}
    /\ reading \in [Tasks -> Tasks \cup {NoTask}]
    /\ guardPath \in [Tasks -> BOOLEAN]
    /\ result \in [Tasks -> [status : {"none", "CE", "SE", "judged", "threw"},
                             of : Tasks \cup {NoTask}]]

\* However tasks fail or throw on their way, the threads inside a pool are
\* those whose phase is between its admission and its guard, and gSpjMutex has
\* an owner exactly while that thread is in the SPJ section.
GuardsBalanced ==
    /\ \A t \in Tasks : /\ compGate[t] = "inside" <=> pc[t] \in InCompiler
                        /\ workGate[t] = "inside" <=> pc[t] \in InWorker
                        /\ held[t] # NoSlot <=> pc[t] \in HasSlot
                        /\ spjMutex = t <=> pc[t] = "spj"
    /\ compActive <= CompilerCount
    /\ workActive <= Capacity

\* The slots in use are the slots held plus one for every task whose run left
\* by an exception: nothing else leaks a slot.
Leaked == {t \in Tasks : result[t].status = "threw" /\ guardPath[t]}
SlotsAccounted ==
    Cardinality(Pool!Used) = Cardinality(Pool!Holders) + Cardinality(Leaked)

\* A thread admitted to SandboxWorkerPool never waits a second time in
\* SandboxPool::acquire, which is what sizing the run pool by capacity() is
\* for, until an exception has lost a slot.
AcquireNeverBlocks == (\E t \in Tasks : poolWait[t] # "none") => Leaked # {}

\* A verdict speaks of the code of the submission it answers, never of another
\* submission's, although directories are reused by later submissions of the
\* same id and may be left over from them: it is judged if the compiler accepts
\* it and CE if not.  Only the environment's failures make an answer that speaks
\* of no code.
VerdictIsOwn ==
    \A t \in Tasks : pc[t] = "answered" =>
        \/ result[t] = Verdict(IF t \in Compiles THEN "judged" ELSE "CE", t)
        \/ (EnvFails \/ MayThrow) /\ result[t].of = NoTask

\* The design document's "results of submissions are not crossed": no answer
\* speaks of the code of another submission.
ResultsNotCrossed ==
    \A t \in Tasks : pc[t] = "answered" => result[t].of \in {t, NoTask}

\* Submissions are compiled and judged as if each were alone: every behaviour of
\* the manager, with its shared directories, slots and locks, is one of
\* JudgeService, as long as no id is in flight twice.
StageOf(phase) ==
    CASE phase = "idle" -> "new"
      [] phase \in {"checking", "arrived", "spj", "compile"} -> "accepted"
      [] phase \in InCompiler -> "compiling"
      [] phase = "run" -> "built"
      [] phase \in InWorker -> "running"
      [] phase = "cleanup" -> "concluded"
      [] phase = "answered" -> "answered"

StageNow   == [t \in Tasks |-> StageOf(pc[t])]
VerdictNow == [t \in Tasks |-> IF pc[t] \in {"cleanup", "answered"} THEN result[t] ELSE Pending]

Service == INSTANCE JudgeService WITH stage <- StageNow, verdict <- VerdictNow

ServiceSpec == Service!Spec

\* The document's "the build directory is removed when the task ends": one
\* exists only while a task of its id is being processed, or because an
\* exception left compile() before ~BuildDirGuard knew the directory, or because
\* its remove_all failed, whose error is thrown away, or an earlier life of the
\* service left one.
BuildDirReclaimed ==
    ~KeepBuildDir => \A t \in Tasks :
        buildDir[SubmitId[t]].exists =>
            \E u \in Tasks :
                /\ SubmitId[u] = SubmitId[t]
                /\ \/ u \in InFlight
                   \/ result[u].status = "threw" /\ ~guardPath[u]
                   \/ \E what \in {"earlier", "build"} : <<u, what>> \in lapses

\* The document's "the run directory is deleted when SandboxRuntime ends" is true of
\* every run that gets to the end and whose remove_all succeeds: a directory
\* exists only while a task of its id holds the slot, or because prepareSandbox
\* failed or an exception left runProcess, both of which skip the removal, or because
\* the removal failed, whose error is thrown away, or an earlier life left one.
RunDirReclaimed ==
    ~KeepRunDir => \A s \in Slots, t \in Tasks :
        runDir[<<s, SubmitId[t]>>].exists =>
            \E u \in Tasks :
                /\ SubmitId[u] = SubmitId[t]
                /\ \/ held[u] = s
                   \/ u \in Leaked
                   \/ \E what \in {"earlier", "setup", "run"} : <<u, what>> \in lapses

\* t can get no further before another thread has done something.
Waits(t) ==
    \/ pc[t] = "arrived" /\ spjMutex # NoTask
    \/ pc[t] = "compile" /\ (compGate[t] = "blocked" \/ compActive >= CompilerCount)
    \/ pc[t] = "run" /\ (workGate[t] = "blocked" \/ workActive >= Capacity)
    \/ pc[t] = "acquire" /\ (poolWait[t] = "blocked" \/ Pool!Free = {})

\* The tasks never all wait for each other at the mutex and the three condition
\* variables: one of them can go on to its next phase, until exceptions have
\* lost every slot.
NoStandstill ==
    InFlight # {} /\ (\A t \in InFlight : Waits(t)) =>
        CompilerCount = 0 \/ Cardinality(Leaked) = Capacity

\* Every submission is answered (or its caller gets the exception), unless
\* exceptions have lost every slot: since each one is submitted once, the
\* service is idle in the end.
EveryTaskAnswered ==
    InFlight # {} ~> (InFlight = {} \/ Cardinality(Leaked) = Capacity)
=============================================================================
