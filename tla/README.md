# A TLA+ model of CodeSandbox

CodeSandbox is the judge of an online programming contest.  A caller hands
`SandboxService::submitTask` a JSON object with a submission (source code, language,
limits, number of test cases); the service compiles it, runs it on every test case in a
restricted child process, compares outputs or asks a special judge (SPJ), and returns a
JSON answer with one of the statuses AC, WA, RE, TLE, MLE, CE, SE.  Many request threads call the
same singleton at once.

This directory holds TLA+ modules that model the part of the program where that is hard
to get right, the TLC configurations that check them, and theorems about them that
TLAPS checks.  `PROJECT.json` maps every definition to the source lines it stands for,
and lists runs, mutations, hazards, findings and theorems.

Check a model with `tlc -config X.cfg M` (the table of runs names `X` and `M`), a proof
with `tlapm M.tla`.

## 1. The system: inventory

| component | source | state it keeps | operations |
|---|---|---|---|
| SandboxService | `service/` | singleton; owns one `SandboxPool(10)`, one `CompilerPool(5)`, one `TaskManager` | `submitTask`: JSON to `SandboxTask`, refusals, call of `processTask` |
| TaskManager | `scheduler/TaskManager.cpp` | runners by language (written only during construction); the global `gSpjMutex`; per call a `BuildDirGuard` | `processTask`: validate, load test cases, SPJ section, compile, execute, collect |
| ResultCollector | `scheduler/ResultCollector.cpp` | none | `collectResult`, `collectSystemError` |
| CompilerPool | `workerPools/CompilerPool.cpp` | mutex, condition variable, `activeWorkers`; the build directories on disk | `compile` |
| SandboxWorkerPool | `workerPools/SandboxWorkerPool.cpp` | mutex, condition variable, `activeWorkers` | `execute` |
| SandboxPool | `workerPools/SandboxPool.cpp` | mutex, condition variable, `inUse[]`; slot directories | `acquire`, `release`, `capacity` |
| SandboxRuntime | `sandboxRuntime/SandboxRuntime.cpp` | none between calls; the run directory of its slot | `runProcess`: prepare, loop over cases, SPJ, sum, clean up |
| FilesystemManager | `sandboxRuntime/FilesystemManager.cpp` | none; writes the run directory | `prepareSandbox` |
| ProcessUtils | `ProcessUtils.cpp` | none between calls; a child process and its cgroup during a call | `runProcessCommand`, `cleanupCgroup` |
| Cgroup-, Namespace-, SeccompManager | `sandboxRuntime/` | state of the kernel for the child | `apply`, called in the child before exec |
| SPJ cache | `compileSpjIfNeeded` in `TaskManager.cpp` | `/tmp/xdoj-sandbox/spj/<problem>/spj` and its time stamp | build if missing or older than the source |
| LanguageRunners | `languageRunners/` | none | command lines, names of source and executable |
| SandboxTypes | `SandboxTypes.hpp` | record types, `toJson` | |
| test driver, build | `SandboxTestMain.cpp`, `CMakeLists.txt`, `build/` | | |

How they interact:

    submitTask -> processTask
                    |-- gSpjMutex { compileSpjIfNeeded -> runProcessCommand(g++) }
                    |-- CompilerPool::compile      (at most 5 at once)
                    |      build/<SubmitId>: remove, create, write source
                    |      runProcessCommand(compiler)
                    |-- SandboxWorkerPool::execute (at most capacity() at once)
                    |      SandboxPool::acquire -> slot
                    |      SandboxRuntime::runProcess
                    |         prepareSandbox: copy build/<SubmitId> to pool/<slot>/sandbox/<SubmitId>
                    |         per case: runProcessCommand(program), runProcessCommand(SPJ)
                    |      SandboxPool::release
                    |-- collectResult
                    `-- ~BuildDirGuard removes build/<SubmitId>

Shared state is what the three mutexes guard, and the directories, which nothing guards.

Which behaviours are hard: threads that compete for three waiting rooms with `notify_one`;
resources held in nested scopes that early returns and exceptions must give back;
directories named by the submission's id and shared by whoever uses the id; a child
that ends, hangs or leaves processes behind while the parent polls; a set-up that can
fail between `fork` and `exec` at nine places and can only report an exit code; a
confinement that tolerates some failures and writes files whose errors come late; an
executable that is rebuilt under the hands of those who run it; limits that pass through
several widths and units; and the bookkeeping of the first failure over many cases.  There
is no network and no retry, and nothing is recovered after a crash, but directories
outlive the process and a restarted service meets them.

What makes each component correct:

- the pools: never more threads inside than places, exact counts, no lost wake-up, a free
  place reaches a waiter, a slot has one user;
- processTask: every way out gives back what the task holds, directories are reclaimed,
  an answer speaks of the submission it answers, every task is answered;
- runProcessCommand: returns, leaves no child behind, reports what happened to it;
- runProcess and collectResult: status and message of the first failure, maxima of all
  cases, `ComplierInfo` for CE and SE only, an SPJ that alone separates AC from WA;
- compileSpjIfNeeded: a judge that can be run, is current, and is built once;
- beforeExec: no program runs half confined, and in strict mode none runs unconfined;
- submitTask: limits arrive as they were asked for, none is switched off on the way, and
  answers name their submission.

The hazards behind these properties are listed line by line in `PROJECT.json`.

## 2. The modules

| module | what it is |
|---|---|
| `Semaphore` | abstract: a counting semaphore with identified holders |
| `JudgeService` | abstract: each submission is compiled, run and answered as if it were alone |
| `WorkerGate` | the admission protocol that CompilerPool and SandboxWorkerPool share |
| `SandboxPool` | the slots: first-fit acquire, release, and leaving by an exception |
| `TaskManager` | `processTask` in every request thread; composes two `WorkerGate`s, a `SandboxPool`, the SPJ mutex and the directories |
| `CaseStatus` | what is observed of one run, and `detectCaseStatus` |
| `ProcessRunner` | one call of `runProcessCommand`, parent and child concurrently |
| `SandboxRuntime` | the loop over the cases and `collectResult` |
| `Isolation` | `beforeExec`: namespaces, cgroup, limits and filter, call by call |
| `SpjCache` | the cached SPJ of one problem, its builders, its readers and its author |
| `SandboxService` | one request from `submitTask` to the limits of the children that serve it |
| `MC*` | instances of these for TLC |
| `*Proofs` | theorems about the module of that name |

**WorkerGate.**  `activeWorkers` is the counter, `gate[t]` the place of a thread: outside,
`blocked` in the wait set of the condition variable, `woken` but not yet past the
predicate, `inside`.  `Enter` and `Block` are the predicate tested under the mutex by an arriving or
a woken thread alike, so a newcomer may overtake a woken thread; `Leave` is the
destructor of the local `SlotGuard` with its `notify_one`; `SpuriousWake` is what a condition variable may
do.  Each action is one critical section, which the mutex makes atomic.

**SandboxPool.**  `inUse`, `wait[t]` and `held[t]`, the slot in the hands of thread `t`.  `Take`
takes the first free slot.  `Abandon` is an exception between acquire and release: the
holder is gone and the flag stays.

**TaskManager.**  `pc[t]` is the phase of the thread of submission `t`.  A phase ends where another thread can
interfere: at a lock, at an effect on a directory, at the start and the end of a child process.  `checking` is the
time before the SPJ lock, in which `processTask` can still refuse the task; `Accept` ends it.  A directory is a
record of whose source and whose executable it contains; a verdict carries the submission whose code was judged.
`EnvFails` lets any operation of the environment fail that the code checks; `MayThrow` lets the operations throw
for which the code catches nothing; the stack is then unwound through the guards, and what has no guard is lost.
`remove_all(path, ec)` is `Removed`: for the tasks of `Stubborn` it may fail, leave any part of the directory, and
nobody looks at `ec`.  For those of `Orphans` a compiler that is timed out may leave its linker behind (`orphan`),
which writes into the directory later.  `lapses` is history: whose set-up or removal has failed, and whose id has
directories from an earlier life.  `InFlightTwins` allows a caller to submit an id again before its answer.
`Leftovers` is what any directory may contain when the service starts: an earlier life of it may have ended between
any two steps.  All other state is in memory and starts anew, so a restart is just another initial state.  The run
of all cases is one step here, since it touches nothing shared.

**JudgeService.**  What the manager is for, without directories, slots or locks: a submission
goes through the stages `new`, `accepted`, `compiling`, `built`, `running`, `concluded`,
`answered`, at most `CompilerCount` compile and at most `Capacity` run at once, and the verdict
speaks of its own code: a CE only about code the compiler rejects, a judgement only of
code it has accepted, or a mishap of the environment that speaks of no code.  `ServiceSpec` in
`TaskManager` is this module with `stage` read off the phase of the thread (`StageNow`) and
`verdict` shown once the thread has left the pools (`VerdictNow`).

**CaseStatus and ProcessRunner.**  `child` walks through the steps of the set-up in the code's order and then runs;
`parent` polls, tests the clock, kills, reaps, classifies, and cleans up.  A child the host process has reaped is
`gone`.  `exit` is what the kernel recorded, `status` what `wait4` gave to the parent, `result` the
`ProcessRunResult`.  `why` is a history variable: what really happened.  Memory is reduced to the two things
`detectCaseStatus` tests, the peak above the limit and an out-of-memory phrase on stderr.  Sent signals take effect
at once: a process with SIGKILL pending counts as dead.  The blocking `wait4` after a kill is taken to be
uninterrupted: the service installs no signal handler, and a host that does so without `SA_RESTART` is outside the
model. `killFile` is the stream on `cgroup.kill`: not tried, impossible to open (`shut`), open, and in the end
`written` or `refused` by the kernel.  Within the cgroup, the outcome of `remove_all` is the kernel's choice unless
a member is alive, when it must fail.

**SandboxRuntime.**  One step per run of the program, run of the SPJ and update of the
sum.  A run is any member of the constant `Runs`; the runs used in `MCSandboxRuntime`
are `Observations`, of which the run `process` shows that nothing else can come back from
`runProcessCommand`.  A message is the number of the case it was read from.

**Isolation.**  `step` is the call that comes next in the child; `exec` and `refused` end it.  A
file has three outcomes: it cannot be opened, which the code sees; the kernel takes the
value; or the kernel refuses it when the stream is destroyed, after `out.good()` was asked,
which nobody sees (`lost`).  `ns` records what the kernel has done.  An id without a map
makes `setgid(0)` and `setuid(0)` fail with EINVAL, which is not tolerated; that is what saves
the properties.  `env` has the two strict modes, `XDOJ_CGROUP_ROOT` and the privilege of the service.

**SpjCache.**  The threads that want the judge of one problem, from the mutex to the run of
the judge on a test case; the compiler of each, which reads the source, replaces the
output by a new file and completes it; and the author, who replaces or removes the source.
Time stamps are ticks and several events share a tick.  A driver that is timed out leaves
its linker running (`lost`).  The source may be dated at any time, ahead of the clock included, as anybody can
set a time stamp.  `seen`, `calm`, `unlucky`, `early` are history: which versions the source has had since a
thread took the mutex, who has judged since then without an edit, whether a source was replaced behind a compiler
or by one not newer than the executable, and whether a judge was built for a source dated ahead of the clock.

**SandboxService.**  A JSON value is a kind and a number.  `Convert` is what jsoncpp and `asTaskString`
make of the fields, `ConvertThrows` that jsoncpp refuses one.  A whole number beyond 64 bits is a double for jsoncpp
and no id for `asTaskString`; one that only a `uint64` holds throws.  `Fail` is an SE answer of the code that
serves the task, `Throw` an exception of it, which leaves the caller without an answer.  `IntMax` and `LongMax` are the
widths; products wrap.  `child` holds the limits of the child that was started last: those
`runProcessCommand` sets and those `CgroupManager` sets after it.

Bodies under "Slips of the code below" are alternatives with a plausible bug.  They are
used only by the mutation runs: replacing the named definition by the slip must
violate the property the slip is listed for.

## 3. The runs

Runs that pass:

| run | config | question | bounds |
|---|---|---|---|
| `worker_gate` | `MCWorkerGate` | counts exact, no lost wake-up, hand-over, implements `Semaphore` | 4 threads, 2 places: two inside, a woken one, and a newcomer or a second sleeper |
| `sandbox_pool` | `MCSandboxPool` | slots exclusive, no lost wake-up, implements `Semaphore`, also when holders vanish | 4 threads, 2 slots |
| `manager_reuse` | `MCTaskManagerReuse` | an id used twice in turn, over whatever a crashed service has left, where any operation may fail or throw and directories cannot always be removed: verdicts are of the task's own code and say what is so; the manager implements `JudgeService`; directories are reclaimed but for the named cases | 3 tasks (two share an id, one of these interpreted, and their removals may fail; the third does not compile), 1 compiler, 2 slots, nothing, a source, or a source and its executable in each directory at the start |
| `manager_failures` | `MCTaskManagerFailures` | any operation may fail or throw and a linker may be left behind: guards balanced, slots accounted for, a second wait only after a slot was lost, never all waiting for each other, every task answered | 3 tasks (two interpreted, one whose linker may be orphaned), 1 compiler, 2 slots; directories are kept, since nothing that is asked depends on them |
| `process` | `MCProcessRunner` | child reaped, honest result, only clean ends accepted, survivors of a joined cgroup only in three named cases, the call returns, nothing but `Observations` comes back | limit of 2 ticks, clock up to 4 |
| `runtime` | `MCSandboxRuntime` | first failure, message, maxima, `ComplierInfo`, the SPJ has the last word | 3 cases, any observation for each, with and without an SPJ |
| `isolation` | `MCIsolation` | no half confinement, strict modes keep their word up to unseen refusals, limits and filter always | none needed: the module is finite |
| `spj_cache` | `MCSpjCache` | judges can be run, are current, are built once, but for the named races; every thread gets through | 2 threads, 2 edits, 2 ticks and source times up to one tick ahead of them |
| `service` | `MCSandboxService` | no limit is switched off, raised or larger than asked; answers name their request | an int of 5 bits, a long of 7 bits, a megabyte of 4 units, a second of 4 ticks; every memory limit of the long's width and one beyond, 12 time limits around every edge, 15 odd values for each field |

Three tasks with one compiler and two slots make one task run, one wait and one arrive at
each pool; more tasks only repeat these roles, and what does not depend on the number is
proved for all of them.  Three cases allow an accepted case before and a failing or
an accepted one after the first failure.  Two ticks before the limit and two after it
let the child end before, at and after the limit, seen or not by the next poll.
The clock stops at `MaxTime`; nothing the code tests changes after the limit has passed.
The observations of `runtime` have wall times 1 and 2, so that maxima differ.  In `spj_cache`
one thread builds and the other meets what it left, or two build in turn; two edits allow a source to be
removed and put back; two ticks separate "same tick" from "later", and a third source time is ahead of the clock
at all times.  In `service` the widths keep the
proportions that matter: int products of two limits and long products of a limit and a megabyte
overflow, and a second is several ticks.  The proofs are for any widths.

The type invariant of every module that has runs of its own is proved of its specification (section 4),
so no run checks it again.

Runs that find a disagreement between the code and its documents (`findings` in
`PROJECT.json` quotes both sides):

| run | config | property | what happens |
|---|---|---|---|
| `manager_twins` | `MCTaskManagerTwins` | `ResultsNotCrossed` | two submissions of one id in flight share a build directory and an answer speaks of the other's code |
| `runtime_spj_fails` | `MCSandboxRuntimeSpjFails` | `SpjFailureIsSE` | an SPJ that could not be started makes the submission WA |
| `isolation_strict` | `MCIsolationStrict` | `StrictRefusesLostWrites` | a cgroup limit the kernel refuses is not noticed in strict mode |

More disagreements were met in writing the models; they can be read off the models, and no
run is spent on them:

- an exception out of `runProcess` keeps the slot in use for good (`SandboxWorkerPool.cpp:45`), where
  `README.md:107` has slots reused through acquire and release; `SlotsAccounted` says that
  nothing else loses one (`Leaked`);
- a failed `prepareSandbox` leaves what it created of the run directory (`SandboxRuntime.cpp:159`), where
  `CODESANDBOX_DESIGN.md:128` has it deleted when the runtime ends; `RunDirReclaimed` names the case;
- the errors of `remove_all` are thrown away (`TaskManager.cpp:30`, `SandboxRuntime.cpp:290`): a build or run directory
  into which a process left behind still writes may stay, without a word; `BuildDirReclaimed` and
  `RunDirReclaimed` name the case, and `VerdictIsOwn` shows that it does not spoil a later submission's verdict;
- a compiler that is timed out leaves its linker running, and `compile()` names directories by the id alone:
  if the same id is submitted again, the linker may write the earlier submission's executable into the later
  one's directory, with the effect of two submissions in flight.  `VerdictIsOwn` and `ServiceSpec` are checked and
  proved where no such id is used again (`OrphansAlone`);
- "1" for `cgroup.kill` sits in a stream buffer until after `remove_all` (`ProcessUtils.cpp:76`), where
  `CODESANDBOX_DESIGN.md:163` has it written first: the cgroup's directory stays if a process was left over
  (`RemoveGroup`, `FlushKill`).  That alone leaves no survivor.  But where `cgroup.kill` cannot be opened, where
  the kernel refuses the write, or where `wait4` fails and the call returns before the clean-up
  (`ProcessUtils.cpp:187`), what the program has started survives; `NoSurvivors` names these three;
- a source dated ahead of the clock is newer than any executable (`TaskManager.cpp:61`): every request rebuilds the
  judge under the hands of the others until the clock has caught up; `JudgeRuns` and `BuiltOnce` name the case (`early`);
- a source that is missing for a time while a thread is in the SPJ section makes an older executable pass
  (`TaskManager.cpp:60` clears the error of line 59); `JudgeIsCurrent` names the case;
- a well-formed request whose `ProblemId` is too long for a file name is not answered: the throwing `fs::exists` at
  `TaskManager.cpp:220` leaves `submitTask` (`Throw`; `AnswersNameTheirRequest` names exceptions in general);
- `NamespaceManager.cpp:75` means to go on where only the gid map is refused; `setgid(0)` then
  fails with EINVAL and the run is refused (`MapGid`, `SetGid`);
- `submitTask` has an answer for a value that is no JSON object (`SandboxService.cpp:70`), but building it
  throws for all such values except null (`NotAnObject`);
- a negative `MemoryLimit` can wrap to a positive number of bytes and pass `validateTask` (`TaskManager.cpp:201`),
  so `LimitsAsAsked` claims the sign of the limit only where the product fits;
- an exception out of `compile()` leaves the build directory, since `BuildDirGuard` learns
  its path afterwards (`CompilerThrows`, `LeaveCompiler`);
- `CompilerPool::compile` tests `workerCount <= 0` only after a wait that cannot end for such a count;
- a program that ends after the limit but before the next poll is not late (`PollReaps`
  comes before `CheckClock`), so it can be accepted with a `RunTime` above the limit;
- a failed `fork` and the exit codes 125 and 126 of the set-up are judged RE, not SE
  (`SetupCode`, `Internal`);
- a program that exits with 241..247 is judged SE;
- a crash after an allocation refused by `RLIMIT_AS` is RE where the test plan expects MLE.

**Fairness.**  Safety is checked without any.  In `WorkerGate` only a woken thread is assumed to be
scheduled; nobody has to arrive or to leave.  In `TaskManager` every thread inside `processTask` is
scheduled (`WF` on its step): threads are the operating system's, and the child
processes a thread waits for are ended by their limits, as `ProcessRunner`'s `CallReturns`
shows.  Weak fairness is enough: a waiter is only overtaken finitely often because a
finite number of tasks arrive.  In a service that never idles, barging could starve a
waiter, and nothing here says otherwise.  In `ProcessRunner` the parent is scheduled and time
passes; the child owes nothing.  In `SpjCache` a thread and the compiler it has started are
scheduled, the latter because its limits end it; the author and the clock owe nothing.

## 4. What is proved

For any set of threads, any numbers of workers and slots, any limits, any integer widths and
any number of cases, from the named assumptions on the constants:

- `WorkerGateProofs`: `TypeOK`, `ActiveCountExact`, `NoLostWakeup`, and that the gate
  implements `Semaphore`.  `TypeOK /\ ActiveCountExact /\ NoLostWakeup` is inductive:
  `NoLostWakeup` survives a departure because the notification makes one more woken thread
  for the one more free place, and an entry by a newcomer because it uses up the place.
- `SandboxPoolProofs`: `TypeOK`, `SlotExclusive`, `NoSlotLost`, `NoLostWakeup`, `SemaphoreSpec`.
  The strengthening is `HoldersCounted`: there are as many holders as slots held.
  `NoSlotLost` is about pools whose holders all release; the runs let them vanish.
- `TaskManagerProofs`: each step of the manager is a step of each pool or leaves it alone, so the pools' invariants
  are cited, not proved again; on top of them `TypeOK`, `GuardsBalanced`, `SlotsAccounted`, `AcquireNeverBlocks`,
  `BuildDirReclaimed`, `RunDirReclaimed`, `ServiceSpec`, `VerdictIsOwn` and `NoStandstill`.  `SlotsAccounted` needs
  `FateInv`: what the result of a thread can be in each phase, so that a thread that threw and whose guard has a
  path is one that threw while it held a slot. `AcquireNeverBlocks` is the argument for sizing the run pool by
  `capacity()`: holders are threads inside the run pool other than the one that acquires, so fewer than `Capacity`
  slots are in use, as long as none is leaked.  The directories need an owner in each phase (`BuildInv`, `RunInv`),
  or a lapse that explains them (`LapsesKept`: lapses are never forgotten).
  - *Refinement.*  `ServiceSpec` is proved from `InFlightTwins = FALSE` and `OrphansAlone` (a task of `Orphans`
    shares its id with no other): then a task in flight is alone with its id (`Alone`), and each phase finds in the
    directory what the phase before has put there (`Finds`), whatever `Leftovers` an earlier life or a failed
    removal has left.  On top of that, what a task has concluded is one of the verdicts `JudgeService` allows at
    its stage (`JustInv`), and the counters of the pools are the numbers of tasks that compile and run
    (`BusyCounted`), so each step is a step of `JudgeService` or none (`ServiceStep`).  `VerdictIsOwn` is then
    proved of `JudgeService` (`DeservedInv`) and carried over.  Both fail without the first hypothesis, as
    `manager_twins` shows.
  - *No deadlock.*  `NoStandstill` is the part of `EveryTaskAnswered` that needs no fairness.  Sleepers are
    at the door of their pool (`WaitersInv`); by the pool's `NoLostWakeup` a sleeper and a free place imply a
    woken thread, which can enter, and a full pool has threads inside.  A thread inside the run pool that waits
    for a slot has another before it that holds one, or all slots are lost.  The chain mutex, compilers,
    workers, slots never closes to a circle.  `TasksOnlyAdvance` adds that phases are never repeated and a
    verdict is never replaced.  That a fair schedule then ends is model-checked.
  - *Composition.*  `PoolsAreSemaphores`: the pools inside the manager still implement `Semaphore`.
- `ProcessRunnerProofs`: `TypeOK`, `ChildReaped`, `ResultIsHonest`, `AcceptedRanToItsEnd`, `NoSurvivors`,
  `ObservationsCovered`.  The inductive invariant says where the child is given the parent's place
  (`PlaceInv`), what the parent knows of the end (`KnownInv`: once reaped by it, `status` is `exit`), that a
  timeout has a reason and a killed child has its timeout (`TimeInv`), whose an exit code 0 is
  (`ZeroInv`: a child the host has reaped is either late or has no exit code), that an ending is
  an exit or a signal (`SeenInv`), and that a cgroup that is gone has no survivors and one that stays has them only
  where the kill was not written (`GroupInv`).  `ChildReaped` rests on the wait after the kill being uninterrupted.
  `ResultIsHonest` has a timeout reported only when the limit has passed, and whenever the parent has killed the
  child; a late end that the next poll finds is reported without one.
- `SandboxRuntimeProofs`: `TypeOK`, `FirstFailureDecides`, `MessageOfTheDecidingCase`,
  `InfoOnlyForErrors`, `MaximaOfAllCases`, `SpjHasTheLastWord`.  The invariant (`SumRight`) says that the sum is
  either that of only accepted cases or names the first failure among those run so far; it is
  needed because the answer is built from the sum and not from the cases.
- `IsolationProofs`: `TypeOK` and all five invariants of `isolation`.  Its invariant says of every step what must
  have been done before it, with a case for each tolerated failure.
- `SpjCacheProofs`: `TypeOK` (mutual exclusion), `JudgeRuns`, `JudgeIsCurrent` and `BuiltOnce`.  The invariant
  relates the executable to the compiler that writes it: without a lost linker only the owner of the mutex has a
  compiler at work, so an executable outside the section is whole, and a thread in whose section the source stayed
  put, and was not dated ahead of the clock when it was built, finds one behind it.  For `JudgeIsCurrent` it says
  whose version an executable is that is not older than the source (`VersionInv`: the source's, unless a source was
  replaced behind a compiler or by one not newer than the executable) and which versions a thread may have come to
  trust (`SeenInv`: those it has seen since the mutex), so that edits inside the section are covered.  For
  `BuiltOnce` it says that a source that has been compiled has its executable, that no compiler is at work for it,
  and that nobody who compares time stamps still has an older one in hand (`OnceInv`).
- `SandboxServiceProofs`: `TypeOK` and all five invariants of `service`, for any requests and widths that satisfy
  `ServiceAssumption`.  The invariant says what an accepted task has kept of its request, and that only a request
  that fails the conversion, or a task that was accepted, is thrown out; the rest is arithmetic of wrapping,
  rounding and `std::max`.

Only model-checked: liveness (`FreeSlotHandedOver`, `EveryTaskAnswered`, `CallReturns`, `EveryThreadPasses`), which is
out of the prover's reach because it needs `ENABLED` and fairness.  Every safety property and every refinement
that a passing run checks is proved.  No module uses a RECURSIVE operator, and no theorem is about data defined by
recursion.

## 5. What is not modelled, and the plan

Left out for good: the comparison of outputs beyond equal or different (`trimRight`), JSON
formatting, messages' wording, command lines, the list of system calls denied by seccomp, the test
driver and the build.

Not modelled, because the code promises nothing there: the copy of the build directory against forks of other
threads, which inherit a descriptor open for writing (the code has neither lock nor retry); compilers of an earlier
life of the service that are still at work; exceptions between `fork` and `exec`; the accounting of `RLIMIT_NPROC`
per user; programs that exit with the internal codes.

What could follow, in this order:

1. `SandboxRuntime` composed with `ProcessRunner` and `Isolation`: each case's run as a call, instead of
   the set of its results.
2. `SpjCache` after a crash of the service, whose compilers go on without it.
