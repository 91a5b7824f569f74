------------------------------ MODULE SpjCache ------------------------------
(***************************************************************************)
(* The special judge of one problem: compileSpjIfNeeded                    *)
(* (src/scheduler/TaskManager.cpp) keeps an executable next to the         *)
(* problem's spj.cpp and trusts it as long as its time stamp is not older  *)
(* than the source's.  Request threads build it under gSpjMutex and run it *)
(* outside; the problem's author replaces or removes the source at any     *)
(* time; a compiler may outlive the driver that the time limit kills.      *)
(*                                                                         *)
(* The compiler is external: it reads the source, then its linker replaces *)
(* the executable by a new file, fills it and is done.  Each file carries  *)
(* the version of the source it comes from and a time stamp; many events   *)
(* share one tick of the clock.                                            *)
(***************************************************************************)
EXTENDS Integers, FiniteSets

CONSTANTS
    Threads, NoThread,
    MaxTime,        \* the bound on the clock of the model
    MaxEdits        \* the bound on what the author does

ASSUME CacheAssumption ==
    /\ NoThread \notin Threads
    /\ MaxTime \in Nat /\ MaxEdits \in Nat

VARIABLES
    now,
    edits,          \* how often the author has changed the source
    src,            \* spj.cpp: its version, 0 if it does not exist, and its time
    exe,            \* the executable: its state, whose linker writes it, its
                    \* source's version and its time
    mutex,          \* the owner of gSpjMutex
    pc,             \* where each thread is
    srcTime,        \* what last_write_time has told a thread about the source
    job,            \* the compiler each thread has started: its stage and the
                    \* version it has read
    hasSpj,         \* SandboxPreparedTask::hasSpj
    judged,         \* the version that judged the thread's task, 0 for none
    \* What only properties read:
    faults,         \* what may happen in this behaviour
    seen,           \* the versions the source has had since the thread took the
                    \* mutex
    calm,           \* the threads that have judged since without an edit
    lost,           \* the threads whose linker has been orphaned or killed
    unlucky,        \* a source was replaced behind a compiler that had read it,
                    \* or by one not newer than the executable
    early           \* an executable was built for a source dated ahead of the clock

fileVars == <<src, exe>>
historyVars == <<faults, seen, calm, lost, unlucky, early>>
threadVars == <<mutex, pc, srcTime, hasSpj, judged>>
vars == <<now, edits, fileVars, threadVars, job, historyVars>>

\* What a file may be dated: anybody can set a time stamp, also ahead of the clock.
Times == 0 .. MaxTime + 1

Section == {"exists", "stat", "compare", "building", "confirm", "failing"}
Reading == "reading"
NoFile  == [state |-> "absent", by |-> NoThread, ver |-> 0, time |-> 0]

Init ==
    /\ now = 0 /\ edits = 0
    /\ src \in {[ver |-> 0, time |-> 0]} \cup [ver : {1}, time : Times]
    /\ exe = NoFile
    /\ mutex = NoThread
    /\ pc = [t \in Threads |-> "arrived"]
    /\ srcTime = [t \in Threads |-> -1]
    /\ job = [t \in Threads |-> [stage |-> "none", ver |-> 0]]
    /\ hasSpj = [t \in Threads |-> FALSE]
    /\ judged = [t \in Threads |-> -1]
    /\ faults \in SUBSET {"timeout", "killed"}
    /\ seen = [t \in Threads |-> {}]
    /\ calm = {} /\ lost = {} /\ unlucky = FALSE /\ early = FALSE

Goto(t, p) == pc' = [pc EXCEPT ![t] = p]
Stage(t, s) == job' = [job EXCEPT ![t].stage = s]

-----------------------------------------------------------------------------
\* Slips of the code below, for the mutation runs.

\* > instead of >=.
UpToDateStrictly(t) == exe.state # "absent" /\ exe.time > srcTime[t]

\* Any executable will do.
Exists(t) == exe.state # "absent"

\* The section has a mutex of the thread's own.
LockOwn(t) ==
    /\ pc[t] = "arrived"
    /\ mutex' = t
    /\ seen' = [seen EXCEPT ![t] = {src.ver}]
    /\ calm' = calm \cup {t}
    /\ Goto(t, "exists")
    /\ UNCHANGED <<now, edits, fileVars, srcTime, hasSpj, judged, job, faults, lost, unlucky, early>>

\* The error path returns with the mutex locked.
FailLocked(t) ==
    /\ pc[t] = "failing"
    /\ Goto(t, "answered")
    /\ UNCHANGED <<now, edits, fileVars, mutex, srcTime, hasSpj, judged, job, historyVars>>

-----------------------------------------------------------------------------
\* The test of the time stamps: exeTime >= srcTime.
UpToDate(t) == exe.state # "absent" /\ exe.time >= srcTime[t]

Lock(t) ==
    /\ pc[t] = "arrived"
    /\ mutex = NoThread
    /\ mutex' = t
    /\ seen' = [seen EXCEPT ![t] = {src.ver}]
    /\ calm' = calm \cup {t}
    /\ Goto(t, "exists")
    /\ UNCHANGED <<now, edits, fileVars, srcTime, hasSpj, judged, job, faults, lost, unlucky, early>>

\* fs::exists on the source: without one there is nothing to build.
LookForSource(t) ==
    /\ pc[t] = "exists"
    /\ Goto(t, IF src.ver = 0 THEN "confirm" ELSE "stat")
    /\ UNCHANGED <<now, edits, fileVars, mutex, srcTime, hasSpj, judged, job, historyVars>>

MakeDirFails(t) ==
    /\ pc[t] = "stat"
    /\ Goto(t, "failing")
    /\ UNCHANGED <<now, edits, fileVars, mutex, srcTime, hasSpj, judged, job, historyVars>>

StartCompiler(t) == Goto(t, "building") /\ Stage(t, Reading)

\* fs::exists on the executable, then last_write_time of the source; for a source
\* that has vanished it returns the least time of all, here -1.
StatSource(t) ==
    /\ pc[t] = "stat"
    /\ \/ exe.state = "absent" /\ StartCompiler(t) /\ UNCHANGED srcTime
       \/ /\ exe.state # "absent"
          /\ srcTime' = [srcTime EXCEPT ![t] = IF src.ver = 0 THEN -1 ELSE src.time]
          /\ Goto(t, "compare") /\ UNCHANGED job
    /\ UNCHANGED <<now, edits, fileVars, mutex, hasSpj, judged, historyVars>>

\* last_write_time of the executable clears the error code of the one before.
Compare(t) ==
    /\ pc[t] = "compare"
    /\ \/ UpToDate(t) /\ Goto(t, "confirm") /\ UNCHANGED job
       \/ ~UpToDate(t) /\ StartCompiler(t)
    /\ UNCHANGED <<now, edits, fileVars, mutex, srcTime, hasSpj, judged, historyVars>>

\* runProcessCommand comes back with the exit code of the driver.
BuildEnds(t) ==
    /\ pc[t] = "building"
    /\ \/ job[t].stage = "done" /\ Goto(t, "confirm")
       \/ job[t].stage = "failed" /\ Goto(t, "failing")
    /\ UNCHANGED <<now, edits, fileVars, mutex, srcTime, hasSpj, judged, job, historyVars>>

\* The time limit kills the driver and nothing else: its linker goes on.
Timeout(t) ==
    /\ "timeout" \in faults
    /\ pc[t] = "building"
    /\ \/ job[t].stage = Reading /\ Stage(t, "failed") /\ UNCHANGED lost
       \/ /\ job[t].stage \in {"linking", "writing"}
          /\ lost' = lost \cup {t} /\ UNCHANGED job
    /\ Goto(t, "failing")
    /\ UNCHANGED <<now, edits, fileVars, mutex, srcTime, hasSpj, judged,
                   faults, seen, calm, unlucky, early>>

Fail(t) ==
    /\ pc[t] = "failing"
    /\ mutex' = NoThread
    /\ Goto(t, "answered")
    /\ UNCHANGED <<now, edits, fileVars, srcTime, hasSpj, judged, job, historyVars>>

\* A second fs::exists on the source decides how the task is judged.
Confirm(t) ==
    /\ pc[t] = "confirm"
    /\ hasSpj' = [hasSpj EXCEPT ![t] = src.ver # 0]
    /\ mutex' = NoThread
    /\ Goto(t, "judging")
    /\ UNCHANGED <<now, edits, fileVars, srcTime, judged, job, historyVars>>

\* One test case: the special judge is executed, or the output is compared.  What
\* is not a whole executable cannot be, and counts as WA (-2).
Judge(t) ==
    /\ pc[t] = "judging"
    /\ judged' = [judged EXCEPT ![t] = IF ~hasSpj[t] THEN 0
                                       ELSE IF exe.state = "whole" THEN exe.ver ELSE -2]
    /\ Goto(t, "answered")
    /\ UNCHANGED <<now, edits, fileVars, mutex, srcTime, hasSpj, job, historyVars>>

-----------------------------------------------------------------------------
\* The compiler that t has started; it may reject what it reads.
Compile(t) ==
    /\ job[t].stage = Reading
    /\ \/ src.ver # 0 /\ job' = [job EXCEPT ![t] = [stage |-> "linking", ver |-> src.ver]]
       \/ Stage(t, "failed")
    /\ UNCHANGED <<now, edits, fileVars, threadVars, historyVars>>

\* The linker unlinks the old executable and creates a new file.
LinkStarts(t) ==
    /\ job[t].stage = "linking"
    /\ Stage(t, "writing")
    /\ exe' = [state |-> "partial", by |-> t, ver |-> job[t].ver, time |-> now]
    /\ UNCHANGED <<now, edits, src, threadVars, historyVars>>

\* The file is whole, if it still is the one that has the name.
LinkEnds(t) ==
    /\ job[t].stage = "writing"
    /\ Stage(t, "done")
    /\ exe' = IF exe.by = t THEN [exe EXCEPT !.state = "whole", !.time = now] ELSE exe
    /\ early' = (early \/ src.time > now)
    /\ UNCHANGED <<now, edits, src, threadVars, faults, seen, calm, lost, unlucky>>

\* The linker is killed; what it has written may stay.
LinkerDies(t) ==
    /\ "killed" \in faults
    /\ job[t].stage = "writing"
    /\ Stage(t, "failed")
    /\ exe' \in {exe} \cup IF exe.by = t THEN {NoFile} ELSE {}
    /\ lost' = lost \cup {t}
    /\ UNCHANGED <<now, edits, src, threadVars, faults, seen, calm, unlucky, early>>

-----------------------------------------------------------------------------
\* The author puts a new version in place, or takes the source away.
Edit(ver, time) ==
    /\ edits < MaxEdits
    /\ edits' = edits + 1
    /\ src' = [ver |-> ver, time |-> time]
    /\ calm' = {t \in calm : pc[t] = "answered"}
    /\ seen' = [t \in Threads |-> IF pc[t] \in {"arrived", "answered"} THEN seen[t]
                                  ELSE seen[t] \cup {ver}]
    /\ UNCHANGED <<now, exe, threadVars, job, faults, lost, early>>

Replace ==
    \E time \in Times :
        /\ Edit(edits + 2, time)
        /\ unlucky' = \/ unlucky
                      \/ \E t \in Threads : job[t].stage \in {"linking", "writing"}
                      \/ exe.state # "absent" /\ exe.time >= time

Remove == Edit(0, 0) /\ UNCHANGED unlucky

Tick ==
    /\ now < MaxTime
    /\ now' = now + 1
    /\ UNCHANGED <<edits, fileVars, threadVars, job, historyVars>>

\* Every thread is through: the model, not the service, stops here.
Finished == (\A t \in Threads : pc[t] = "answered") /\ UNCHANGED vars

Act(t) ==
    \/ Lock(t) \/ LookForSource(t) \/ MakeDirFails(t) \/ StatSource(t) \/ Compare(t)
    \/ BuildEnds(t) \/ Timeout(t) \/ Fail(t) \/ Confirm(t) \/ Judge(t)
    \/ Compile(t) \/ LinkStarts(t) \/ LinkEnds(t) \/ LinkerDies(t)

Next == (\E t \in Threads : Act(t)) \/ Replace \/ Remove \/ Tick \/ Finished

Spec == Init /\ [][Next]_vars

\* Threads are scheduled, and a compiler ends or is timed out (ProcessRunner's
\* CallReturns); the author and the clock owe nothing.
FairSpec == Spec /\ \A t \in Threads : WF_vars(Act(t))

-----------------------------------------------------------------------------
Versions == 0 .. MaxEdits + 1

\* The variables have their types, and the owner of the mutex is the thread in the
\* section.
TypeOK ==
    /\ now \in 0 .. MaxTime /\ edits \in 0 .. MaxEdits
    /\ src \in [ver : Versions, time : Times]
    /\ exe \in [state : {"absent", "partial", "whole"}, by : Threads \cup {NoThread},
                ver : Versions, time : 0 .. MaxTime]
    /\ pc \in [Threads -> Section \cup {"arrived", "judging", "answered"}]
    /\ mutex \in Threads \cup {NoThread}
    /\ \A t \in Threads : mutex = t <=> pc[t] \in Section
    /\ srcTime \in [Threads -> {-1} \cup Times]
    /\ job \in [Threads -> [stage : {"none", Reading, "linking", "writing", "done", "failed"},
                            ver : Versions]]
    /\ hasSpj \in [Threads -> BOOLEAN]
    /\ judged \in [Threads -> -2 .. MaxEdits + 1]
    /\ faults \subseteq {"timeout", "killed"}
    /\ seen \in [Threads -> SUBSET Versions]
    /\ calm \subseteq Threads /\ lost \subseteq Threads
    /\ unlucky \in BOOLEAN /\ early \in BOOLEAN

\* A task is judged by a judge that can run, although judges run outside the mutex,
\* unless the author changed the source meanwhile, a linker was lost, or a judge was
\* built for a source dated ahead of the clock: until the clock has caught up, every
\* request finds that judge too old and replaces it under the hands of the others.
JudgeRuns == \A t \in calm : judged[t] = -2 => lost # {} \/ early

\* A task is judged by a version of the judge that the source has had since its
\* thread took the mutex, or by comparison if it was missing at some time, however
\* the author replaces it meanwhile.  A stale executable is trusted only if a source
\* was replaced behind its compiler or by one not newer than the executable, or if
\* the source was missing for a time while the thread was in the section: nobody
\* tests the executable then, and a source that is back in time confirms it.
JudgeIsCurrent ==
    \A t \in Threads : judged[t] >= 0 =>
        \/ judged[t] \in seen[t]
        \/ judged[t] # 0 /\ seen[t] # {0} /\ (unlucky \/ 0 \in seen[t])

\* However many threads want the judge at once, a version is built once, as long as
\* no linker was lost and no source was dated ahead of the clock when it was built.
BuiltOnce ==
    lost = {} /\ ~early => \A t, u \in Threads :
        job[t].stage = "done" /\ job[u].stage = "done" /\ job[t].ver = job[u].ver => t = u

\* Every thread gets through the section, whatever the compilers do.
EveryThreadPasses == \A t \in Threads : pc[t] = "arrived" ~> pc[t] = "answered"
=============================================================================
