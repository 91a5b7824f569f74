--------------------------- MODULE ProcessRunner ---------------------------
(***************************************************************************)
(* One call of runProcessCommand (src/ProcessUtils.cpp): the parent that   *)
(* forks, polls with wait4(WNOHANG), kills what is late and cleans up the  *)
(* cgroup, and the child that sets itself up and becomes the program.      *)
(*                                                                         *)
(* Parent and child run concurrently and time passes under both.  The      *)
(* program may exit, crash, loop for ever or leave processes behind; the   *)
(* kernel may kill it for its limits.  Between a poll that finds the child *)
(* alive and the test of the clock the child may end, and after its end    *)
(* the parent may look late.                                               *)
(***************************************************************************)
EXTENDS CaseStatus

CONSTANTS
    TimeLimit,      \* options.timeLimitMs, in ticks
    MaxTime,        \* the bound on the clock of the model
    CgroupRoot,     \* whether XDOJ_CGROUP_ROOT is set and beforeExec applies it
    EnvFails,       \* whether fork and the steps of the set-up may fail
    HostReaps       \* whether the host process reaps children by itself
                    \* (SIGCHLD ignored), so that wait4 has nothing to report

ASSUME RunnerAssumption ==
    /\ TimeLimit \in Nat \ {0}
    /\ MaxTime \in Nat /\ MaxTime > TimeLimit
    /\ {CgroupRoot, EnvFails, HostReaps} \subseteq BOOLEAN

VARIABLES
    now,            \* ticks since the fork
    parent,         \* where runProcessCommand is
    child,          \* the step of the set-up, then what has become of the child:
                    \* reaped by the parent, or gone because the host reaped it
    exit,           \* how the child ended, as the kernel recorded it
    status,         \* the parent's status and usage, as wait4 filled them in
    why,            \* what really happened to the program; only properties read it
    result,         \* the ProcessRunResult
    offspring,      \* processes the program has left behind
    group,          \* the cgroup judge-<pid>: absent, without the child, with
                    \* it, or removed again
    killFile        \* the stream on its cgroup.kill: untried, shut (it could not
                    \* be opened), open, then written or refused by the kernel

childVars == <<child, exit, why>>
vars == <<now, parent, childVars, status, result, offspring, group, killFile>>

Setup == DOMAIN SetupCode
After == [chdir |-> "stdin", stdin |-> "stdout", stdout |-> "stderr",
          stderr |-> "memory", memory |-> "processes", processes |-> "cpu",
          cpu |-> "beforeExec", beforeExec |-> "exec", exec |-> "running"]

Ending(code, sig, over, oom) ==
    [exitCode |-> code, signal |-> sig, overMemory |-> over, oomText |-> oom]
Nothing == Ending(0, 0, FALSE, FALSE)

Init ==
    /\ now = 0
    /\ parent = "forking"
    /\ child = "none"
    /\ exit = Nothing
    /\ status = Nothing
    /\ why = "unknown"
    /\ result = [exitCode |-> -1, signal |-> 0, timedOut |-> FALSE, wallTime |-> 0,
                 overMemory |-> FALSE, oomText |-> FALSE]
    /\ offspring = "none"
    /\ group = "none"
    /\ killFile = "untried"

Ends(ending, reason) ==
    /\ child' = "zombie"
    /\ exit' = ending
    /\ why' = reason

-----------------------------------------------------------------------------
\* Slips of the code below, for the mutation runs.

\* wait4 without WNOHANG: the clock is never looked at.
PollBlocking ==
    /\ parent = "polling"
    /\ child = "zombie"
    /\ status' = exit
    /\ child' = "reaped"
    /\ parent' = "classifying"
    /\ UNCHANGED <<now, exit, why, result, offspring, group, killFile>>

\* >= instead of >.
CheckClockEagerly ==
    /\ parent = "checking"
    /\ result' = [result EXCEPT !.wallTime = now, !.timedOut = now >= TimeLimit]
    /\ IF now >= TimeLimit
       THEN /\ parent' = "killing"
            /\ IF child \in {"zombie", "gone"} THEN UNCHANGED childVars
               ELSE Ends(Ending(-1, SIGKILL, FALSE, FALSE), "late")
       ELSE parent' = "polling" /\ UNCHANGED childVars
    /\ UNCHANGED <<now, status, offspring, group, killFile>>

\* The wait4 after the kill keeps WNOHANG.
ReapKilledNoHang ==
    /\ parent = "killing"
    /\ parent' = "classifying"
    /\ UNCHANGED <<now, childVars, status, result, offspring, group, killFile>>

\* The exit code of a killed process in the manner of a shell.
ClassifyLikeShell ==
    /\ parent = "classifying"
    /\ result' = [result EXCEPT
            !.wallTime = now,
            !.overMemory = status.overMemory,
            !.oomText = exit.oomText,
            !.exitCode = IF status.signal = 0 THEN status.exitCode ELSE 128 + status.signal,
            !.signal = status.signal]
    /\ parent' = "cleaning"
    /\ UNCHANGED <<now, childVars, status, offspring, group, killFile>>

\* WEXITSTATUS is read without WIFEXITED.
ClassifyAnyExit ==
    /\ parent = "classifying"
    /\ result' = [result EXCEPT
            !.wallTime = now,
            !.overMemory = status.overMemory,
            !.oomText = exit.oomText,
            !.exitCode = IF status.signal = 0 THEN status.exitCode ELSE 0]
    /\ parent' = "cleaning"
    /\ UNCHANGED <<now, childVars, status, offspring, group, killFile>>

\* Nothing is written to cgroup.kill.
FlushNothing ==
    /\ parent = "flushing"
    /\ parent' = "returned"
    /\ UNCHANGED <<now, childVars, status, result, offspring, group, killFile>>

-----------------------------------------------------------------------------
Fork ==
    /\ parent = "forking"
    /\ parent' = "polling"
    /\ child' = "chdir"
    /\ UNCHANGED <<now, exit, status, why, result, offspring, group, killFile>>

ForkFails ==
    /\ parent = "forking"
    /\ EnvFails
    /\ parent' = "returned"
    /\ why' = "setup"
    /\ UNCHANGED <<now, child, exit, status, result, offspring, group, killFile>>

\* A step of the child before execvp.  beforeExec creates the cgroup and joins
\* it; outside strict mode it may fail to and go on.
SetupStep ==
    /\ child \in Setup
    /\ child' = After[child]
    /\ group' \in IF child = "beforeExec" /\ CgroupRoot
                  THEN {"joined"} \cup IF EnvFails THEN {"none", "empty"} ELSE {}
                  ELSE {group}
    /\ UNCHANGED <<now, parent, exit, status, why, result, offspring, killFile>>

\* The step fails and the child _exits with the code of that step.
SetupFails ==
    /\ child \in Setup
    /\ EnvFails
    /\ Ends(Ending(SetupCode[child], 0, FALSE, FALSE), "setup")
    /\ group' \in IF child = "beforeExec" /\ CgroupRoot
                  THEN {"none", "empty", "joined"} ELSE {group}
    /\ UNCHANGED <<now, parent, status, result, offspring, killFile>>

-----------------------------------------------------------------------------
\* The program ends by itself, with any exit code it likes.
ProgramEnds ==
    /\ child = "running"
    /\ \E code \in {0, 1, 247}, over, oom \in BOOLEAN :
        Ends(Ending(code, 0, over, oom), "program")
    /\ UNCHANGED <<now, parent, status, result, offspring, group, killFile>>

\* A fatal signal; a write through null after an allocation that RLIMIT_AS has
\* refused is one.
ProgramCrashes ==
    /\ child = "running"
    /\ \E over, oom \in BOOLEAN : Ends(Ending(-1, SIGSEGV, over, oom), "program")
    /\ UNCHANGED <<now, parent, status, result, offspring, group, killFile>>

\* RLIMIT_CPU (soft, then hard), or the memory limit of the cgroup.
KernelKills ==
    /\ child = "running"
    /\ \E sig \in {SIGKILL, SIGXCPU}, over \in BOOLEAN :
        Ends(Ending(-1, sig, over, FALSE), "limit")
    /\ UNCHANGED <<now, parent, status, result, offspring, group, killFile>>

\* The program forks a process that does not end with it.
ProgramSpawns ==
    /\ child = "running"
    /\ offspring = "none"
    /\ offspring' = "running"
    /\ UNCHANGED <<now, parent, childVars, status, result, group, killFile>>

OffspringEnds ==
    /\ offspring = "running"
    /\ offspring' = "dead"
    /\ UNCHANGED <<now, parent, childVars, status, result, group, killFile>>

HostReapsChild ==
    /\ HostReaps
    /\ child = "zombie"
    /\ child' = "gone"
    /\ UNCHANGED <<now, parent, exit, status, why, result, offspring, group, killFile>>

-----------------------------------------------------------------------------
\* wait4(WNOHANG): the child has ended, is still alive, or is not there.
PollReaps ==
    /\ child = "zombie"
    /\ status' = exit
    /\ child' = "reaped"
    /\ parent' = "classifying"

PollFindsAlive ==
    /\ child \notin {"zombie", "gone"}
    /\ parent' = "checking"
    /\ UNCHANGED <<status, child>>

PollFindsNothing ==
    /\ child = "gone"
    /\ parent' = "returned"
    /\ UNCHANGED <<status, child>>

Poll ==
    /\ parent = "polling"
    /\ PollReaps \/ PollFindsAlive \/ PollFindsNothing
    /\ UNCHANGED <<now, exit, why, result, offspring, group, killFile>>

\* The clock is read after the poll.  kill reaches the child if it still runs
\* and nobody else.
CheckClock ==
    /\ parent = "checking"
    /\ result' = [result EXCEPT !.wallTime = now, !.timedOut = now > TimeLimit]
    /\ IF now > TimeLimit
       THEN /\ parent' = "killing"
            /\ IF child \in {"zombie", "gone"} THEN UNCHANGED childVars
               ELSE \E over, oom \in BOOLEAN :
                        Ends(Ending(-1, SIGKILL, over, oom), "late")
       ELSE parent' = "polling" /\ UNCHANGED childVars
    /\ UNCHANGED <<now, status, offspring, group, killFile>>

\* The blocking wait4; its own result is not looked at.  The model takes it to be
\* uninterrupted: the service installs no signal handler, and a host with one that
\* lacks SA_RESTART is outside of it.
ReapKilled ==
    /\ parent = "killing"
    /\ \/ child = "zombie" /\ status' = exit /\ child' = "reaped"
       \/ child = "gone" /\ UNCHANGED <<status, child>>
    /\ parent' = "classifying"
    /\ UNCHANGED <<now, exit, why, result, offspring, group, killFile>>

\* The clock is read again, then WIFEXITED and WIFSIGNALED fill in the result.
\* The caller reads stderr next to it.
Classify ==
    /\ parent = "classifying"
    /\ result' = [result EXCEPT
            !.wallTime = now,
            !.overMemory = status.overMemory,
            !.oomText = exit.oomText,
            !.exitCode = IF status.signal = 0 THEN status.exitCode ELSE @,
            !.signal = status.signal]
    /\ parent' = "cleaning"
    /\ UNCHANGED <<now, childVars, status, offspring, group, killFile>>

\* cleanupCgroup: without a cgroup there is nothing to do, otherwise "1" is put
\* into the buffer of the stream on cgroup.kill if that could be opened, which
\* kernels without the file or the rights of the service may prevent.
Cleanup ==
    /\ parent = "cleaning"
    /\ IF group = "none" THEN parent' = "returned" /\ UNCHANGED killFile
       ELSE /\ parent' = "removing"
            /\ killFile' \in {"open"} \cup IF EnvFails THEN {"shut"} ELSE {}
    /\ UNCHANGED <<now, childVars, status, result, offspring, group>>

\* remove_all on the cgroup, whose outcome is ignored.  The kernel refuses while
\* a member is alive, and may refuse anyway: remove_all unlinks the interface
\* files before it gets to the directory.
RemoveGroup ==
    /\ parent = "removing"
    /\ group' \in {group} \cup IF group = "empty" THEN {"none"}
                               ELSE IF offspring = "running" THEN {} ELSE {"removed"}
    /\ parent' = "flushing"
    /\ UNCHANGED <<now, childVars, status, result, offspring, killFile>>

\* ~ofstream at the end of cleanupCgroup: only now does cgroup.kill, if it is open,
\* see the "1", and a write that the kernel refuses goes unnoticed.
KillWritten ==
    /\ killFile = "open"
    /\ killFile' = "written"
    /\ offspring' = IF group = "joined" /\ offspring = "running" THEN "dead" ELSE offspring

KillNotWritten ==
    /\ \/ killFile = "shut" /\ UNCHANGED killFile
       \/ killFile = "open" /\ EnvFails /\ killFile' = "refused"
    /\ UNCHANGED offspring

FlushKill ==
    /\ parent = "flushing"
    /\ KillWritten \/ KillNotWritten
    /\ parent' = "returned"
    /\ UNCHANGED <<now, childVars, status, result, group>>

Tick ==
    /\ parent \notin {"forking", "returned"}
    /\ now < MaxTime
    /\ now' = now + 1
    /\ UNCHANGED <<parent, childVars, status, result, offspring, group, killFile>>

\* The call is over: the model stops here.
Returned ==
    /\ parent = "returned"
    /\ UNCHANGED vars

-----------------------------------------------------------------------------
ParentStep == Fork \/ ForkFails \/ Poll \/ CheckClock \/ ReapKilled \/ Classify
              \/ Cleanup \/ RemoveGroup \/ FlushKill

ChildStep == SetupStep \/ SetupFails \/ ProgramEnds \/ ProgramCrashes
             \/ KernelKills \/ ProgramSpawns

Next == ParentStep \/ ChildStep \/ OffspringEnds \/ HostReapsChild \/ Tick \/ Returned

Spec == Init /\ [][Next]_vars

\* The parent is scheduled and time passes.  The child owes nothing: it may
\* hang in its set-up and the program may loop.
FairSpec == Spec /\ WF_vars(ParentStep) /\ WF_vars(Tick)

-----------------------------------------------------------------------------
\* The variables have their types.
TypeOK ==
    /\ now \in 0 .. MaxTime
    /\ parent \in {"forking", "polling", "checking", "killing", "classifying",
                   "cleaning", "removing", "flushing", "returned"}
    /\ child \in Setup \cup {"none", "running", "zombie", "reaped", "gone"}
    /\ {exit, status} \subseteq [exitCode : {-1, 0, 1} \cup SetupCodes,
                                 signal : {0, SIGKILL, SIGSEGV, SIGXCPU},
                                 overMemory : BOOLEAN, oomText : BOOLEAN]
    /\ why \in {"unknown", "setup", "program", "limit", "late"}
    /\ result \in ProcessRunResults(MaxTime)
    /\ offspring \in {"none", "running", "dead"}
    /\ group \in {"none", "empty", "joined", "removed"}
    /\ killFile \in {"untried", "shut", "open", "written", "refused"}

\* On every way out of the call the child is gone: no zombie and no running
\* child is left to a caller that has already moved on to the next test case, as
\* long as no signal interrupts the wait after the kill (see ReapKilled).
ChildReaped == parent = "returned" => child \in {"none", "reaped", "gone"}

\* The result is about this child and tells how it ended, even if it ended while
\* the parent was looking at the clock or about to kill it.  A timeout is reported
\* only when the limit has passed, and always when the parent has killed the child.
ResultIsHonest ==
    parent = "returned" =>
        /\ result.timedOut => result.wallTime > TimeLimit
        /\ why = "late" => result.timedOut
        /\ child = "reaped" => /\ result.exitCode = exit.exitCode
                               /\ result.signal = exit.signal
                               /\ result.overMemory = exit.overMemory

\* No run is accepted unless the program has run and ended by itself with exit code
\* 0: neither a set-up that failed, nor a kill, nor a wait that has nothing to
\* report leaves a result that detectCaseStatus takes for a success.
AcceptedRanToItsEnd ==
    parent = "returned" /\ DetectCaseStatus(result) = "AC" =>
        why = "program" /\ exit.exitCode = 0

\* Where the child has joined a cgroup, what the program has started survives the
\* call in three cases only: wait4 has found no child and the call returned before
\* cleanupCgroup, cgroup.kill could not be opened, or the kernel has refused the
\* "1".  That the "1" is written only after the attempt to remove the cgroup is no
\* fourth, and a cgroup that could be removed has no survivors at all.
NoSurvivors ==
    parent = "returned" /\ offspring = "running" =>
        /\ group # "removed"
        /\ group = "joined" => \/ child = "gone" /\ killFile = "untried"
                               \/ killFile \in {"shut", "refused"}

\* The results that SandboxRuntime is checked with are all that occur.
ObservationsCovered ==
    parent = "returned" => result \in Observations(TimeLimit, MaxTime)

\* The call returns whatever the child does.
CallReturns == <>(parent = "returned")
=============================================================================
