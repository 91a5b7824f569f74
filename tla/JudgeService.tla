---------------------------- MODULE JudgeService ----------------------------
(***************************************************************************)
(* What the service promises of submissions that are processed at the same *)
(* time: each one is compiled, run and answered as if it were alone, and   *)
(* the others are felt only through the sizes of the two pools.            *)
(*                                                                         *)
(* There are no directories, no slots and no locks here.  A verdict is     *)
(* about the code of its own submission: a compile error about code that   *)
(* the compiler rejects, a judgement of code that it has accepted; or it   *)
(* is nobody's, and then something of the environment has failed.          *)
(***************************************************************************)
EXTENDS Integers, FiniteSets

CONSTANTS
    Tasks, NoTask,
    Compiles,         \* the tasks whose code the compiler accepts
    CompilerCount,    \* how many compile at the same time
    Capacity,         \* how many run at the same time
    EnvFails,         \* whether the environment may fail
    MayThrow          \* whether exceptions may happen

VARIABLES
    stage,            \* how far each task has come
    verdict           \* what its answer will be

vars == <<stage, verdict>>

About(status, of) == [status |-> status, of |-> of]
Undecided == About("none", NoTask)

\* What can go wrong for reasons that are not the code's.
Mishaps(status) ==
    (IF EnvFails THEN {About(status, NoTask)} ELSE {})
        \cup (IF MayThrow THEN {About("threw", NoTask)} ELSE {})

Refusals == Mishaps("SE")
CompileVerdicts(t) == Mishaps("CE") \cup IF t \in Compiles THEN {} ELSE {About("CE", t)}
RunVerdicts(t) == Mishaps("SE") \cup {About("judged", t)}

In(s) == {t \in Tasks : stage[t] = s}

\* Task t gets from stage p to stage q.
Goes(t, p, q) == stage[t] = p /\ stage' = [stage EXCEPT ![t] = q]
Decides(t, verdicts) == \E v \in verdicts : verdict' = [verdict EXCEPT ![t] = v]

Init ==
    /\ stage = [t \in Tasks |-> "new"]
    /\ verdict = [t \in Tasks |-> Undecided]

Accept(t) == Goes(t, "new", "accepted") /\ UNCHANGED verdict
Refuse(t) == Goes(t, "accepted", "answered") /\ Decides(t, Refusals)

StartCompiling(t) ==
    /\ Cardinality(In("compiling")) < CompilerCount
    /\ Goes(t, "accepted", "compiling") /\ UNCHANGED verdict

\* Only code that the compiler accepts goes on to be run.
Compiled(t) ==
    \/ t \in Compiles /\ Goes(t, "compiling", "built") /\ UNCHANGED verdict
    \/ Goes(t, "compiling", "concluded") /\ Decides(t, CompileVerdicts(t))

StartRunning(t) ==
    /\ Cardinality(In("running")) < Capacity
    /\ Goes(t, "built", "running") /\ UNCHANGED verdict

Ran(t) == Goes(t, "running", "concluded") /\ Decides(t, RunVerdicts(t))

Answer(t) == Goes(t, "concluded", "answered") /\ UNCHANGED verdict

Next == \E t \in Tasks :
    \/ Accept(t) \/ Refuse(t) \/ StartCompiling(t) \/ Compiled(t)
    \/ StartRunning(t) \/ Ran(t) \/ Answer(t)

Spec == Init /\ [][Next]_vars
=============================================================================
