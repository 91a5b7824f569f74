----------------------------- MODULE CaseStatus -----------------------------
(***************************************************************************)
(* What the sandbox observes of one run of a program, and the status it    *)
(* reads from it (detectCaseStatus in src/sandboxRuntime/                  *)
(* SandboxRuntime.cpp).  Times are abstract ticks; of the memory and of    *)
(* stderr only what detectCaseStatus tests is kept.                        *)
(***************************************************************************)
EXTENDS Integers

SIGKILL == 9
SIGSEGV == 11     \* stands for every fatal signal without a meaning here
SIGXCPU == 24

\* The exit codes of runProcessCommand's child before the program starts.
SetupCode == [chdir |-> 241, stdin |-> 242, stdout |-> 243, stderr |-> 244,
              memory |-> 245, processes |-> 125, cpu |-> 126,
              beforeExec |-> 246, exec |-> 247]

SetupCodes == {SetupCode[s] : s \in DOMAIN SetupCode}
Internal   == 241 .. 247

\* A ProcessRunResult: exitCode is -1 until an exit has been seen.
ProcessRunResults(maxTime) ==
    [exitCode   : {-1, 0, 1} \cup SetupCodes,
     signal     : {0, SIGKILL, SIGSEGV, SIGXCPU},
     timedOut   : BOOLEAN,
     wallTime   : 0 .. maxTime,
     overMemory : BOOLEAN,     \* peakMemoryBytes > memoryLimit
     oomText    : BOOLEAN]     \* stderr has one of the out-of-memory phrases

\* Those that a call can return.
Observations(timeLimit, maxTime) ==
    {r \in ProcessRunResults(maxTime) :
        /\ r.signal # 0 => r.exitCode = -1
        /\ r.timedOut => r.wallTime > timeLimit /\ (r.signal # 0 \/ r.exitCode # -1)
        /\ r.signal = 0 /\ r.exitCode = -1 => ~r.overMemory}

\* The first condition that holds decides: an internal exit code comes before a
\* timeout, and a killed process is late before its memory is looked at.
DetectCaseStatus(r) ==
    IF r.exitCode \in Internal THEN "SE"
    ELSE IF r.timedOut \/ r.signal \in {SIGKILL, SIGXCPU} THEN "TLE"
    ELSE IF r.overMemory \/ r.oomText THEN "MLE"
    ELSE IF r.signal # 0 \/ r.exitCode # 0 THEN "RE"
    ELSE "AC"
=============================================================================
