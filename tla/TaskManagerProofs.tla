------------------------- MODULE TaskManagerProofs -------------------------
(***************************************************************************)
(* Proofs about TaskManager, for every number of tasks, workers and slots. *)
(* Each pool keeps its own invariant because every step of a task is a     *)
(* step of the pool or leaves it alone; what is proved here is how the     *)
(* three pools and the phases of the tasks hang together.                  *)
(***************************************************************************)
EXTENDS TaskManager, FiniteSetTheorems, TLAPS

CompilersP == INSTANCE WorkerGateProofs WITH
    Threads <- Tasks, WorkerCount <- CompilerCount,
    activeWorkers <- compActive, gate <- compGate

WorkersP == INSTANCE WorkerGateProofs WITH
    Threads <- Tasks, WorkerCount <- Capacity,
    activeWorkers <- workActive, gate <- workGate

PoolP == INSTANCE SandboxPoolProofs WITH
    Threads <- Tasks, MayAbandon <- MayThrow, wait <- poolWait

\* The assumptions of the three pools, from those of the manager.
LEMMA PoolAssumptionsHold ==
    /\ IsFiniteSet(Tasks)
    /\ CompilerCount \in Nat
    /\ Capacity \in Nat
    /\ NoSlot \notin 0 .. Capacity - 1
    /\ MayThrow \in BOOLEAN
BY TaskAssumption DEF Slots

-----------------------------------------------------------------------------
\* Every step of the manager is a step of each pool or leaves it alone.
LEMMA CompilersStep == [Next]_vars => [CompilersP!Next]_(CompilersP!vars)
<1> SUFFICES ASSUME [Next]_vars, compVars' # compVars
             PROVE  CompilersP!Next
  BY DEF CompilersP!vars, compVars
<1>1. \E t \in Tasks : \/ Compilers!Enter(t) \/ Compilers!Block(t)
                       \/ Compilers!SpuriousWake(t) \/ Compilers!Leave(t)
  BY DEF Next, vars, compVars, Submit, Finished, OrphanEnds, Step, Wake, Refuse, Accept, LockSpj, SpjReady,
         SpjFails, EnterCompiler, WaitForCompiler, PrepareBuildDir, PrepareFails,
         WriteSource, WriteFails, StartCompiler, CompilerSucceeds, CompilerFails,
         CompilerThrows, CompilerOrphans, LeaveCompiler, EnterWorker, WaitForWorker, AcquireSlot,
         WaitForSlot, Stage, StageFails, RunCases, RunThrows, TidyRunDir, ReleaseSlot,
         LeaveWorker, Answer, WakeAtCompiler, WakeAtWorker, WakeAtSlot
<1> QED
  BY <1>1 DEF CompilersP!Next, CompilersP!Enter, CompilersP!Block, CompilersP!SpuriousWake,
              CompilersP!Leave, CompilersP!NotifiedBy, CompilersP!Blocked,
              Compilers!Enter, Compilers!Block, Compilers!SpuriousWake,
              Compilers!Leave, Compilers!NotifiedBy, Compilers!Blocked

LEMMA WorkersStep == [Next]_vars => [WorkersP!Next]_(WorkersP!vars)
<1> SUFFICES ASSUME [Next]_vars, workVars' # workVars
             PROVE  WorkersP!Next
  BY DEF WorkersP!vars, workVars
<1>1. \E t \in Tasks : \/ Workers!Enter(t) \/ Workers!Block(t)
                       \/ Workers!SpuriousWake(t) \/ Workers!Leave(t)
  BY DEF Next, vars, workVars, Submit, Finished, OrphanEnds, Step, Wake, Refuse, Accept, LockSpj, SpjReady,
         SpjFails, EnterCompiler, WaitForCompiler, PrepareBuildDir, PrepareFails,
         WriteSource, WriteFails, StartCompiler, CompilerSucceeds, CompilerFails,
         CompilerThrows, CompilerOrphans, LeaveCompiler, EnterWorker, WaitForWorker, AcquireSlot,
         WaitForSlot, Stage, StageFails, RunCases, RunThrows, TidyRunDir, ReleaseSlot,
         LeaveWorker, Answer, WakeAtCompiler, WakeAtWorker, WakeAtSlot
<1> QED
  BY <1>1 DEF WorkersP!Next, WorkersP!Enter, WorkersP!Block, WorkersP!SpuriousWake,
              WorkersP!Leave, WorkersP!NotifiedBy, WorkersP!Blocked,
              Workers!Enter, Workers!Block, Workers!SpuriousWake,
              Workers!Leave, Workers!NotifiedBy, Workers!Blocked

LEMMA PoolStep == [Next]_vars => [PoolP!Next]_(PoolP!vars)
<1> SUFFICES ASSUME [Next]_vars, poolVars' # poolVars
             PROVE  PoolP!Next
  BY DEF PoolP!vars, poolVars
<1>1. \E t \in Tasks : \/ Pool!Take(t) \/ Pool!Block(t) \/ Pool!SpuriousWake(t)
                       \/ Pool!Release(t) \/ Pool!Abandon(t)
  BY DEF Next, vars, poolVars, Submit, Finished, OrphanEnds, Step, Wake, Refuse, Accept, LockSpj, SpjReady,
         SpjFails, EnterCompiler, WaitForCompiler, PrepareBuildDir, PrepareFails,
         WriteSource, WriteFails, StartCompiler, CompilerSucceeds, CompilerFails,
         CompilerThrows, CompilerOrphans, LeaveCompiler, EnterWorker, WaitForWorker, AcquireSlot,
         WaitForSlot, Stage, StageFails, RunCases, RunThrows, TidyRunDir, ReleaseSlot,
         LeaveWorker, Answer, WakeAtCompiler, WakeAtWorker, WakeAtSlot
<1> QED
  BY <1>1 DEF PoolP!Next, PoolP!Take, PoolP!Block, PoolP!SpuriousWake, PoolP!Release,
              PoolP!Abandon, PoolP!Free, PoolP!Used, PoolP!Slots, PoolP!Notified, PoolP!Blocked,
              Pool!Take, Pool!Block, Pool!SpuriousWake, Pool!Release,
              Pool!Abandon, Pool!Free, Pool!Used, Pool!Slots, Pool!Notified, Pool!Blocked

-----------------------------------------------------------------------------
\* The pools' own invariants, carried over from their modules.
PoolsInv == CompilersP!IInv /\ WorkersP!IInv /\ PoolP!IInv

LEMMA InitPoolsInv == Init => PoolsInv
<1> SUFFICES ASSUME Init PROVE PoolsInv
  OBVIOUS
<1>1. CompilersP!Init /\ WorkersP!Init /\ PoolP!Init
  BY DEF Init, Compilers!Init, Workers!Init, Pool!Init,
         CompilersP!Init, WorkersP!Init, PoolP!Init, Pool!Slots, PoolP!Slots
<1>2. CompilersP!IInv
  BY <1>1, CompilersP!InitIInv, PoolAssumptionsHold
     DEF CompilersP!GateAssumption, CompilersP!IsFiniteSet, IsFiniteSet
<1>3. WorkersP!IInv
  BY <1>1, WorkersP!InitIInv, PoolAssumptionsHold
     DEF WorkersP!GateAssumption, WorkersP!IsFiniteSet, IsFiniteSet
<1>4. PoolP!IInv
  BY <1>1, PoolP!InitIInv, PoolAssumptionsHold
     DEF PoolP!PoolAssumption, PoolP!Slots, PoolP!IsFiniteSet, IsFiniteSet
<1> QED
  BY <1>2, <1>3, <1>4 DEF PoolsInv

LEMMA StepPoolsInv == PoolsInv /\ [Next]_vars => PoolsInv'
<1> SUFFICES ASSUME PoolsInv, [Next]_vars PROVE PoolsInv'
  OBVIOUS
<1>2. CompilersP!IInv'
  BY CompilersStep, CompilersP!StepIInv, PoolAssumptionsHold
     DEF PoolsInv, CompilersP!GateAssumption, CompilersP!IsFiniteSet, IsFiniteSet
<1>3. WorkersP!IInv'
  BY WorkersStep, WorkersP!StepIInv, PoolAssumptionsHold
     DEF PoolsInv, WorkersP!GateAssumption, WorkersP!IsFiniteSet, IsFiniteSet
<1>4. PoolP!IInv'
  BY PoolStep, PoolP!StepIInv, PoolAssumptionsHold
     DEF PoolsInv, PoolP!PoolAssumption, PoolP!Slots, PoolP!IsFiniteSet, IsFiniteSet
<1> QED
  BY <1>2, <1>3, <1>4 DEF PoolsInv

\* What the pools' invariants say in the manager's own terms.
LEMMA PoolsTyped ==
    ASSUME PoolsInv
    PROVE  /\ Compilers!TypeOK /\ Workers!TypeOK /\ Pool!TypeOK
           /\ compActive <= CompilerCount /\ workActive <= Capacity
<1>1. Compilers!TypeOK /\ compActive <= CompilerCount
  BY DEF PoolsInv, CompilersP!IInv, CompilersP!TypeOK, CompilersP!ActiveCountExact,
         Compilers!TypeOK
<1>2. Workers!TypeOK /\ workActive <= Capacity
  BY DEF PoolsInv, WorkersP!IInv, WorkersP!TypeOK, WorkersP!ActiveCountExact,
         Workers!TypeOK
<1>3. Pool!TypeOK
  BY DEF PoolsInv, PoolP!IInv, PoolP!TypeOK, PoolP!Slots, Pool!TypeOK, Pool!Slots
<1> QED
  BY <1>1, <1>2, <1>3

-----------------------------------------------------------------------------
\* The variables that are the manager's own.
OwnTypeOK ==
    /\ pc \in [Tasks -> Phases]
    /\ spjMutex \in Tasks \cup {NoTask}
    /\ buildDir \in [Ids -> Dirs]
    /\ runDir \in [Slots \X Ids -> Dirs]
    /\ orphan \in [Tasks -> Tasks \cup {NoTask}]
    /\ lapses \subseteq Tasks \X {"earlier", "setup", "run", "build"}
    /\ reading \in [Tasks -> Tasks \cup {NoTask}]
    /\ guardPath \in [Tasks -> BOOLEAN]
    /\ result \in [Tasks -> [status : {"none", "CE", "SE", "judged", "threw"},
                             of : Tasks \cup {NoTask}]]

LEMMA Places ==
    ASSUME NEW t \in Tasks
    PROVE  /\ SubmitId[t] \in Ids
           /\ Absent \in Dirs /\ Empty \in Dirs
           /\ \A d \in Dirs : /\ [d EXCEPT !.src = t] \in Dirs
                              /\ \A u \in Tasks : [d EXCEPT !.exe = u] \in Dirs
                              /\ Artifact(t, d) \in Tasks \cup {NoTask}
BY DEF Ids, Absent, Empty, Dirs, Artifact

LEMMA DirsClosed ==
    ASSUME NEW t \in Tasks, NEW d \in Dirs
    PROVE  /\ Parts(d) \subseteq Dirs /\ Removed(t, d) \subseteq Dirs
           /\ \A e \in Dirs : Over(d, e) \in Dirs
<1>1. Parts(d) \subseteq Dirs
  <2>1. {d.src, NoTask} \subseteq Tasks \cup {NoTask} /\ {d.exe, NoTask} \subseteq Tasks \cup {NoTask}
    BY DEF Dirs
  <2>2. ASSUME NEW x \in Tasks \cup {NoTask}, NEW y \in Tasks \cup {NoTask}
        PROVE  [exists |-> TRUE, src |-> x, exe |-> y] \in Dirs
    BY DEF Dirs
  <2> QED
    BY <2>1, <2>2 DEF Parts
<1>2. Removed(t, d) \subseteq Dirs
  BY <1>1, Places DEF Removed
<1>3. ASSUME NEW e \in Dirs PROVE Over(d, e) \in Dirs
  BY DEF Over, Dirs
<1> QED
  BY <1>1, <1>2, <1>3

LEMMA InitOwnTypeOK == Init => OwnTypeOK
BY LeftoversAssumption DEF Init, OwnTypeOK, Phases, Pending, Verdict, Littered

\* One step moves one thread to one phase.
LEMMA OnePhase ==
    ASSUME [Next]_vars, pc' # pc
    PROVE  \E t \in Tasks, phase \in Phases : Goto(t, phase)
<1>1. PICK t \in Tasks : Submit(t) \/ Step(t) \/ Wake(t) \/ OrphanEnds(t)
  BY DEF Next, vars, Finished
<1> USE DEF Phases
<1>2. CASE TidyRunDir(t) \/ Answer(t)
  BY <1>2 DEF TidyRunDir, Answer
<1>3. CASE Stage(t) \/ StageFails(t) \/ RunThrows(t) \/ RunCases(t)
  BY <1>3 DEF Stage, StageFails, RunThrows, RunCases
<1>4. CASE Step(t) /\ ~(\/ TidyRunDir(t) \/ Answer(t) \/ Stage(t) \/ StageFails(t)
                        \/ RunThrows(t) \/ RunCases(t))
  BY <1>4 DEF Step, Refuse, Accept, LockSpj, SpjReady, SpjFails, EnterCompiler,
     WaitForCompiler, PrepareBuildDir, PrepareFails, WriteSource, WriteFails, StartCompiler,
     CompilerSucceeds, CompilerFails, CompilerThrows, CompilerOrphans, LeaveCompiler,
     EnterWorker, WaitForWorker, AcquireSlot, WaitForSlot, ReleaseSlot, LeaveWorker
<1> QED
  BY <1>1, <1>2, <1>3, <1>4
     DEF Submit, OrphanEnds, Wake, WakeAtCompiler, WakeAtWorker, WakeAtSlot

\* Which steps conclude a task, and which touch the disk.
LEMMA WhoConcludes ==
    ASSUME [Next]_vars, result' # result
    PROVE  \E t \in Tasks :
            \/ Refuse(t) \/ SpjFails(t) \/ PrepareFails(t) \/ WriteFails(t)
            \/ CompilerFails(t) \/ CompilerThrows(t) \/ CompilerOrphans(t)
            \/ StageFails(t) \/ RunCases(t) \/ RunThrows(t)
BY DEF Next, vars, Submit, Finished, OrphanEnds, Step, Wake, Accept, LockSpj, SpjReady, EnterCompiler,
       WaitForCompiler, PrepareBuildDir, WriteSource, StartCompiler, CompilerSucceeds,
       LeaveCompiler, EnterWorker, WaitForWorker, AcquireSlot, WaitForSlot, Stage,
       TidyRunDir, ReleaseSlot, LeaveWorker, Answer, WakeAtCompiler, WakeAtWorker, WakeAtSlot

LEMMA WhoBuilds ==
    ASSUME [Next]_vars, buildDir' # buildDir
    PROVE  \E t \in Tasks :
            \/ PrepareBuildDir(t) \/ PrepareFails(t) \/ WriteSource(t)
            \/ CompilerSucceeds(t) \/ OrphanEnds(t) \/ Answer(t)
BY DEF Next, vars, diskVars, Submit, Finished, Step, Wake, Refuse, Accept, LockSpj, SpjReady,
       SpjFails, EnterCompiler, WaitForCompiler, WriteFails, StartCompiler, CompilerFails,
       CompilerThrows, CompilerOrphans, LeaveCompiler, EnterWorker, WaitForWorker, AcquireSlot,
       WaitForSlot, Stage, StageFails, RunCases, RunThrows, TidyRunDir, ReleaseSlot,
       LeaveWorker, WakeAtCompiler, WakeAtWorker, WakeAtSlot

LEMMA WhoStages ==
    ASSUME [Next]_vars, runDir' # runDir
    PROVE  \E t \in Tasks : Stage(t) \/ StageFails(t) \/ RunThrows(t) \/ TidyRunDir(t)
BY DEF Next, vars, diskVars, Submit, Finished, OrphanEnds, Step, Wake, Refuse, Accept, LockSpj, SpjReady,
       SpjFails, EnterCompiler, WaitForCompiler, PrepareBuildDir, PrepareFails,
       WriteSource, WriteFails, StartCompiler, CompilerSucceeds, CompilerFails,
       CompilerThrows, CompilerOrphans, LeaveCompiler, EnterWorker, WaitForWorker, AcquireSlot,
       WaitForSlot, RunCases, ReleaseSlot,
       LeaveWorker, Answer, WakeAtCompiler, WakeAtWorker, WakeAtSlot

LEMMA WhoReads ==
    ASSUME [Next]_vars, reading' # reading \/ guardPath' # guardPath
    PROVE  \E t \in Tasks : StartCompiler(t) \/ LeaveCompiler(t)
BY DEF Next, vars, Submit, Finished, OrphanEnds, Step, Wake, Refuse, Accept, LockSpj, SpjReady,
       SpjFails, EnterCompiler, WaitForCompiler, PrepareBuildDir, PrepareFails,
       WriteSource, WriteFails, CompilerSucceeds, CompilerFails,
       CompilerThrows, CompilerOrphans, EnterWorker, WaitForWorker, AcquireSlot,
       WaitForSlot, Stage, StageFails, RunCases, RunThrows, TidyRunDir, ReleaseSlot,
       LeaveWorker, Answer, WakeAtCompiler, WakeAtWorker, WakeAtSlot

LEMMA WhoLocks ==
    ASSUME [Next]_vars, spjMutex' # spjMutex
    PROVE  \E t \in Tasks : LockSpj(t) \/ SpjReady(t) \/ SpjFails(t)
BY DEF Next, vars, Submit, Finished, OrphanEnds, Step, Wake, Refuse, Accept,
       EnterCompiler, WaitForCompiler, PrepareBuildDir, PrepareFails,
       WriteSource, WriteFails, StartCompiler, CompilerSucceeds, CompilerFails,
       CompilerThrows, CompilerOrphans, LeaveCompiler, EnterWorker, WaitForWorker, AcquireSlot,
       WaitForSlot, Stage, StageFails, RunCases, RunThrows, TidyRunDir, ReleaseSlot,
       LeaveWorker, Answer, WakeAtCompiler, WakeAtWorker, WakeAtSlot

LEMMA WhoOrphans ==
    ASSUME [Next]_vars, orphan' # orphan
    PROVE  \E t \in Tasks : CompilerOrphans(t) \/ OrphanEnds(t)
BY DEF Next, vars, diskVars, Submit, Finished, Step, Wake, Refuse, Accept, LockSpj, SpjReady,
       SpjFails, EnterCompiler, WaitForCompiler, PrepareBuildDir, PrepareFails,
       WriteSource, WriteFails, StartCompiler, CompilerSucceeds, CompilerFails,
       CompilerThrows, LeaveCompiler, EnterWorker, WaitForWorker, AcquireSlot,
       WaitForSlot, Stage, StageFails, RunCases, RunThrows, TidyRunDir, ReleaseSlot,
       LeaveWorker, Answer, WakeAtCompiler, WakeAtWorker, WakeAtSlot

LEMMA WhoLapses ==
    ASSUME [Next]_vars, lapses' # lapses
    PROVE  \E t \in Tasks, what \in {"setup", "run", "build"} : lapses' = lapses \cup {<<t, what>>}
BY DEF Next, vars, diskVars, Submit, Finished, OrphanEnds, Step, Wake, Refuse, Accept, LockSpj, SpjReady,
       SpjFails, EnterCompiler, WaitForCompiler, PrepareBuildDir, PrepareFails,
       WriteSource, WriteFails, StartCompiler, CompilerSucceeds, CompilerFails,
       CompilerThrows, CompilerOrphans, LeaveCompiler, EnterWorker, WaitForWorker, AcquireSlot,
       WaitForSlot, Stage, StageFails, RunCases, RunThrows, TidyRunDir, ReleaseSlot, Lapse,
       LeaveWorker, Answer, WakeAtCompiler, WakeAtWorker, WakeAtSlot

-----------------------------------------------------------------------------
\* The phases agree with the pools and with gSpjMutex.
Balanced ==
    \A t \in Tasks : /\ compGate[t] = "inside" <=> pc[t] \in InCompiler
                     /\ workGate[t] = "inside" <=> pc[t] \in InWorker
                     /\ held[t] # NoSlot <=> pc[t] \in HasSlot
                     /\ spjMutex = t <=> pc[t] = "spj"

\* A departure takes one thread out, whoever it wakes.
LEMMA LeaveCompilers ==
    ASSUME Compilers!TypeOK, NEW t \in Tasks, Compilers!Leave(t)
    PROVE  \A u \in Tasks : compGate'[u] = "inside" <=> compGate[u] = "inside" /\ u # t
<1>1. CASE Compilers!Blocked = {}
  BY <1>1 DEF Compilers!TypeOK, Compilers!Leave, Compilers!NotifiedBy
<1>2. CASE Compilers!Blocked # {}
  BY <1>2 DEF Compilers!TypeOK, Compilers!Leave, Compilers!NotifiedBy, Compilers!Blocked
<1> QED
  BY <1>1, <1>2

LEMMA LeaveWorkers ==
    ASSUME Workers!TypeOK, NEW t \in Tasks, Workers!Leave(t)
    PROVE  \A u \in Tasks : workGate'[u] = "inside" <=> workGate[u] = "inside" /\ u # t
<1>1. CASE Workers!Blocked = {}
  BY <1>1 DEF Workers!TypeOK, Workers!Leave, Workers!NotifiedBy
<1>2. CASE Workers!Blocked # {}
  BY <1>2 DEF Workers!TypeOK, Workers!Leave, Workers!NotifiedBy, Workers!Blocked
<1> QED
  BY <1>1, <1>2

LEMMA InitBalanced == Init => Balanced
BY TaskAssumption DEF Init, Balanced, Compilers!Init, Workers!Init, Pool!Init,
   InCompiler, InWorker, HasSlot

LEMMA StepBalanced ==
    ASSUME OwnTypeOK, Compilers!TypeOK, Workers!TypeOK, Pool!TypeOK, Balanced, [Next]_vars
    PROVE  Balanced'
<1> USE DEF Balanced, Goto, compVars, workVars, poolVars
<1>1. CASE UNCHANGED vars \/ Finished
  BY <1>1 DEF vars, Finished
<1>a. pc \in [Tasks -> Phases]
  BY DEF OwnTypeOK
<1> SUFFICES ASSUME NEW t \in Tasks, Submit(t) \/ Step(t) \/ Wake(t)
             PROVE  Balanced'
  BY <1>1 DEF Next, OrphanEnds
<1>2. CASE Submit(t) \/ Refuse(t) \/ Accept(t)
  BY <1>2, <1>a DEF Submit, Refuse, Accept, InCompiler, InWorker, HasSlot
<1>3. CASE LockSpj(t)
  BY <1>3, <1>a, TaskAssumption DEF LockSpj, InCompiler, InWorker, HasSlot
<1>4. CASE SpjReady(t) \/ SpjFails(t)
  BY <1>4, <1>a, TaskAssumption DEF SpjReady, SpjFails, InCompiler, InWorker, HasSlot
<1>5. CASE EnterCompiler(t)
  BY <1>5, <1>a DEF EnterCompiler, Compilers!TypeOK, Compilers!Enter, InCompiler, InWorker, HasSlot
<1>6. CASE WaitForCompiler(t) \/ WakeAtCompiler(t)
  BY <1>6 DEF WaitForCompiler, WakeAtCompiler, Compilers!TypeOK, Compilers!Block,
              Compilers!SpuriousWake
<1>7. CASE PrepareBuildDir(t) \/ PrepareFails(t) \/ WriteSource(t) \/ WriteFails(t)
  BY <1>7, <1>a DEF PrepareBuildDir, PrepareFails, WriteSource, WriteFails,
                    InCompiler, InWorker, HasSlot
<1>8. CASE StartCompiler(t) \/ CompilerSucceeds(t) \/ CompilerFails(t) \/ CompilerThrows(t)
           \/ CompilerOrphans(t)
  BY <1>8, <1>a DEF StartCompiler, CompilerSucceeds, CompilerFails, CompilerThrows,
                    CompilerOrphans, InCompiler, InWorker, HasSlot
<1>9. CASE LeaveCompiler(t)
  BY <1>9, <1>a, LeaveCompilers DEF LeaveCompiler, InCompiler, InWorker, HasSlot
<1>10. CASE EnterWorker(t)
  BY <1>10, <1>a DEF EnterWorker, Workers!TypeOK, Workers!Enter, InCompiler, InWorker, HasSlot
<1>11. CASE WaitForWorker(t) \/ WakeAtWorker(t)
  BY <1>11 DEF WaitForWorker, WakeAtWorker, Workers!TypeOK, Workers!Block,
               Workers!SpuriousWake
<1>12. CASE AcquireSlot(t)
  <2>1. PICK s \in Slots : held' = [held EXCEPT ![t] = s]
    BY <1>12 DEF AcquireSlot, Pool!Take, Pool!Free, Pool!Slots, Slots
  <2>2. s # NoSlot
    BY TaskAssumption
  <2> QED
    BY <1>12, <1>a, <2>1, <2>2 DEF AcquireSlot, Pool!TypeOK, InCompiler, InWorker, HasSlot
<1>13. CASE WaitForSlot(t) \/ WakeAtSlot(t)
  BY <1>13 DEF WaitForSlot, WakeAtSlot, Pool!Block, Pool!SpuriousWake
<1>14. CASE Stage(t) \/ StageFails(t) \/ RunCases(t) \/ TidyRunDir(t)
  <2>1. /\ UNCHANGED <<spjMutex, compVars, workVars, poolVars>> /\ pc[t] \in HasSlot
        /\ \E phase \in HasSlot : pc' = [pc EXCEPT ![t] = phase]
    BY <1>14 DEF Stage, StageFails, RunCases, TidyRunDir, HasSlot
  <2> QED
    BY <1>a, <2>1 DEF InCompiler, InWorker, HasSlot
<1>15. CASE ReleaseSlot(t) \/ RunThrows(t)
  <2>1. held' = [held EXCEPT ![t] = NoSlot] /\ pc' = [pc EXCEPT ![t] = "leaveWorker"]
    BY <1>15 DEF ReleaseSlot, RunThrows, Pool!Release, Pool!Abandon
  <2>2. UNCHANGED <<spjMutex, compVars, workVars>> /\ pc[t] \in HasSlot
    BY <1>15 DEF ReleaseSlot, RunThrows, HasSlot
  <2> QED
    BY <1>a, <2>1, <2>2 DEF Pool!TypeOK, InCompiler, InWorker, HasSlot
<1>16. CASE LeaveWorker(t)
  BY <1>16, <1>a, LeaveWorkers DEF LeaveWorker, InCompiler, InWorker, HasSlot
<1>17. CASE Answer(t)
  BY <1>17, <1>a DEF Answer, InCompiler, InWorker, HasSlot
<1> QED
  BY <1>2, <1>3, <1>4, <1>5, <1>6, <1>7, <1>8, <1>9, <1>10, <1>11, <1>12, <1>13,
     <1>14, <1>15, <1>16, <1>17 DEF Step, Wake

-----------------------------------------------------------------------------
\* The manager's own variables keep their types, one variable at a time.
LEMMA StepResultType ==
    ASSUME OwnTypeOK, Pool!TypeOK, Balanced, [Next]_vars
    PROVE  result' \in [Tasks -> [status : {"none", "CE", "SE", "judged", "threw"},
                                  of : Tasks \cup {NoTask}]]
<1> SUFFICES ASSUME result' # result
             PROVE  \E t \in Tasks, status \in {"CE", "SE", "judged", "threw"},
                        of \in Tasks \cup {NoTask} : Conclude(t, status, of)
  BY DEF OwnTypeOK, Conclude, Verdict
<1>1. PICK t \in Tasks : \/ Refuse(t) \/ SpjFails(t) \/ PrepareFails(t) \/ WriteFails(t)
                         \/ CompilerFails(t) \/ CompilerThrows(t) \/ CompilerOrphans(t)
                         \/ StageFails(t) \/ RunCases(t) \/ RunThrows(t)
  BY WhoConcludes
<1>2. CASE CompilerFails(t)
  BY <1>2 DEF CompilerFails
<1>3. CASE RunCases(t)
  <2>1. held[t] \in Slots /\ SubmitId[t] \in Ids
    BY <1>3, Places DEF RunCases, Balanced, HasSlot, Pool!TypeOK, Pool!Slots, Slots
  <2>2. Artifact(t, runDir[Place(t)]) \in Tasks \cup {NoTask}
    BY <2>1, Places DEF OwnTypeOK, Place
  <2> QED
    BY <1>3, <2>2 DEF RunCases
<1> QED
  BY <1>1, <1>2, <1>3 DEF Refuse, SpjFails, PrepareFails, WriteFails, CompilerThrows,
                          CompilerOrphans, StageFails, RunThrows

LEMMA StepBuildDirType ==
    ASSUME OwnTypeOK, [Next]_vars
    PROVE  buildDir' \in [Ids -> Dirs]
<1> SUFFICES ASSUME buildDir' # buildDir
             PROVE  \E t \in Tasks, d \in Dirs : buildDir' = [buildDir EXCEPT ![SubmitId[t]] = d]
  BY Places DEF OwnTypeOK
<1>1. PICK t \in Tasks : \/ PrepareBuildDir(t) \/ PrepareFails(t) \/ WriteSource(t)
                         \/ CompilerSucceeds(t) \/ OrphanEnds(t) \/ Answer(t)
  BY WhoBuilds
<1>a. Removed(t, buildDir[SubmitId[t]]) \subseteq Dirs
  BY Places, DirsClosed DEF OwnTypeOK
<1>2. CASE PrepareBuildDir(t) \/ PrepareFails(t) \/ Answer(t)
  BY <1>2, <1>a, Places, DirsClosed DEF PrepareBuildDir, PrepareFails, Answer
<1>5. CASE OrphanEnds(t)
  <2>1. orphan[t] \in Tasks
    BY <1>5 DEF OrphanEnds, OwnTypeOK
  <2>2. [buildDir[SubmitId[t]] EXCEPT !.exe = orphan[t]] \in Dirs
    BY <2>1, Places DEF OwnTypeOK
  <2>3. buildDir' = [buildDir EXCEPT ![SubmitId[t]] =
                        [buildDir[SubmitId[t]] EXCEPT !.exe = orphan[t]]]
    BY <1>5 DEF OrphanEnds
  <2> QED
    BY <2>2, <2>3
<1>3. CASE WriteSource(t)
  <2>1. [buildDir[SubmitId[t]] EXCEPT !.src = t] \in Dirs
    BY Places DEF OwnTypeOK
  <2>2. buildDir' = [buildDir EXCEPT ![SubmitId[t]] = [buildDir[SubmitId[t]] EXCEPT !.src = t]]
    BY <1>3 DEF WriteSource
  <2> QED
    BY <2>1, <2>2
<1>4. CASE CompilerSucceeds(t)
  <2>1. reading[t] \in Tasks
    BY <1>4, TaskAssumption DEF CompilerSucceeds
  <2>2. [buildDir[SubmitId[t]] EXCEPT !.exe = reading[t]] \in Dirs
    BY <2>1, Places DEF OwnTypeOK
  <2>3. buildDir' = [buildDir EXCEPT ![SubmitId[t]] =
                        [buildDir[SubmitId[t]] EXCEPT !.exe = reading[t]]]
    BY <1>4 DEF CompilerSucceeds
  <2> QED
    BY <2>2, <2>3
<1> QED
  BY <1>1, <1>2, <1>3, <1>4, <1>5

LEMMA PlaceHeld ==
    ASSUME Pool!TypeOK, Balanced, NEW t \in Tasks, pc[t] \in HasSlot
    PROVE  Place(t) \in Slots \X Ids
BY Places DEF Place, Balanced, Pool!TypeOK, Pool!Slots, Slots

\* What prepareSandbox and the removal may leave are directories.
LEMMA StagedTyped ==
    ASSUME OwnTypeOK, NEW t \in Tasks, Place(t) \in Slots \X Ids
    PROVE  /\ Removed(t, runDir[Place(t)]) \subseteq Dirs
           /\ Staged(t) \subseteq Dirs /\ HalfStaged(t) \subseteq Dirs
<1>1. runDir[Place(t)] \in Dirs /\ buildDir[SubmitId[t]] \in Dirs
  BY Places DEF OwnTypeOK
<1>2. Removed(t, runDir[Place(t)]) \subseteq Dirs
  BY <1>1, DirsClosed
<1>3. Staged(t) \subseteq Dirs
  BY <1>1, <1>2, DirsClosed DEF Staged
<1>4. HalfStaged(t) \subseteq Dirs
  BY <1>3, Places, DirsClosed DEF HalfStaged
<1> QED
  BY <1>2, <1>3, <1>4

LEMMA StepRunDirType ==
    ASSUME OwnTypeOK, Pool!TypeOK, Balanced, [Next]_vars
    PROVE  runDir' \in [Slots \X Ids -> Dirs]
<1> SUFFICES ASSUME runDir' # runDir
             PROVE  \E t \in Tasks, d \in Dirs : runDir' = [runDir EXCEPT ![Place(t)] = d]
  BY DEF OwnTypeOK
<1>1. PICK t \in Tasks : Stage(t) \/ StageFails(t) \/ RunThrows(t) \/ TidyRunDir(t)
  BY WhoStages
<1>2. Place(t) \in Slots \X Ids
  BY <1>1, PlaceHeld DEF Stage, StageFails, RunThrows, TidyRunDir, HasSlot
<1> QED
  BY <1>1, <1>2, StagedTyped DEF Stage, StageFails, RunThrows, TidyRunDir

LEMMA StepReadingType ==
    ASSUME OwnTypeOK, [Next]_vars
    PROVE  /\ reading' \in [Tasks -> Tasks \cup {NoTask}]
           /\ guardPath' \in [Tasks -> BOOLEAN]
<1> SUFFICES ASSUME reading' # reading \/ guardPath' # guardPath
             PROVE  /\ reading' \in [Tasks -> Tasks \cup {NoTask}]
                    /\ guardPath' \in [Tasks -> BOOLEAN]
  BY DEF OwnTypeOK
<1>1. PICK t \in Tasks : StartCompiler(t) \/ LeaveCompiler(t)
  BY WhoReads
<1>2. buildDir[SubmitId[t]].src \in Tasks \cup {NoTask}
  BY Places DEF OwnTypeOK, Dirs
<1> QED
  BY <1>1, <1>2 DEF OwnTypeOK, StartCompiler, LeaveCompiler

LEMMA StepOwnTypeOK ==
    ASSUME OwnTypeOK, Pool!TypeOK, Balanced, [Next]_vars
    PROVE  OwnTypeOK'
<1>1. pc' \in [Tasks -> Phases]
  BY OnePhase DEF OwnTypeOK, Goto
<1>2. spjMutex' \in Tasks \cup {NoTask}
  BY WhoLocks DEF OwnTypeOK, LockSpj, SpjReady, SpjFails
<1>3. orphan' \in [Tasks -> Tasks \cup {NoTask}]
  BY WhoOrphans, TaskAssumption DEF OwnTypeOK, CompilerOrphans, OrphanEnds
<1>4. lapses' \subseteq Tasks \X {"earlier", "setup", "run", "build"}
  BY WhoLapses DEF OwnTypeOK
<1> QED
  BY <1>1, <1>2, <1>3, <1>4, StepResultType, StepBuildDirType, StepRunDirType, StepReadingType
     DEF OwnTypeOK

-----------------------------------------------------------------------------
\* A step of one task leaves the phase, the answer, the slot and the directories
\* of a task with another id alone.
Acts(u) == Submit(u) \/ Step(u) \/ Wake(u) \/ OrphanEnds(u)

LEMMA OneActs ==
    ASSUME [Next]_vars
    PROVE  UNCHANGED vars \/ \E u \in Tasks : Acts(u)
BY DEF Next, Finished, Acts

LEMMA Bystander ==
    ASSUME OwnTypeOK, Pool!TypeOK, NEW u \in Tasks, Acts(u), NEW t \in Tasks, t # u
    PROVE  /\ pc'[t] = pc[t] /\ result'[t] = result[t] /\ reading'[t] = reading[t]
           /\ guardPath'[t] = guardPath[t] /\ held'[t] = held[t]
<1> USE DEF OwnTypeOK, Pool!TypeOK, Goto, Conclude, compVars, workVars, poolVars, diskVars
<1>1. CASE Submit(u) \/ Refuse(u) \/ Accept(u)
  BY <1>1 DEF Submit, Refuse, Accept
<1>2. CASE LockSpj(u) \/ SpjReady(u) \/ SpjFails(u)
  BY <1>2 DEF LockSpj, SpjReady, SpjFails
<1>3. CASE EnterCompiler(u) \/ WaitForCompiler(u) \/ WakeAtCompiler(u)
  BY <1>3 DEF EnterCompiler, WaitForCompiler, WakeAtCompiler
<1>4. CASE PrepareBuildDir(u) \/ PrepareFails(u) \/ WriteSource(u) \/ WriteFails(u)
  BY <1>4 DEF PrepareBuildDir, PrepareFails, WriteSource, WriteFails
<1>5. CASE StartCompiler(u) \/ CompilerSucceeds(u) \/ CompilerFails(u) \/ CompilerThrows(u)
           \/ CompilerOrphans(u) \/ OrphanEnds(u)
  BY <1>5 DEF StartCompiler, CompilerSucceeds, CompilerFails, CompilerThrows, CompilerOrphans,
              OrphanEnds
<1>6. CASE LeaveCompiler(u)
  BY <1>6 DEF LeaveCompiler
<1>7. CASE EnterWorker(u) \/ WaitForWorker(u) \/ WakeAtWorker(u)
  BY <1>7 DEF EnterWorker, WaitForWorker, WakeAtWorker
<1>8. CASE AcquireSlot(u)
  BY <1>8 DEF AcquireSlot, Pool!Take
<1>9. CASE WaitForSlot(u) \/ WakeAtSlot(u)
  BY <1>9 DEF WaitForSlot, WakeAtSlot, Pool!Block, Pool!SpuriousWake
<1>10. CASE Stage(u) \/ StageFails(u) \/ RunCases(u) \/ TidyRunDir(u)
  BY <1>10 DEF Stage, StageFails, RunCases, TidyRunDir
<1>11. CASE ReleaseSlot(u)
  BY <1>11 DEF ReleaseSlot, Pool!Release
<1>12. CASE RunThrows(u)
  BY <1>12 DEF RunThrows, Pool!Abandon
<1>13. CASE LeaveWorker(u) \/ Answer(u)
  BY <1>13 DEF LeaveWorker, Answer
<1> QED
  BY <1>1, <1>2, <1>3, <1>4, <1>5, <1>6, <1>7, <1>8, <1>9, <1>10, <1>11, <1>12, <1>13
     DEF Acts, Step, Wake

LEMMA OtherDirectories ==
    ASSUME OwnTypeOK, [Next]_vars, NEW i \in Ids
    PROVE  \/ buildDir'[i] = buildDir[i]
           \/ \E u \in Tasks : /\ SubmitId[u] = i
                               /\ \/ PrepareBuildDir(u) \/ PrepareFails(u) \/ WriteSource(u)
                                  \/ CompilerSucceeds(u) \/ OrphanEnds(u) \/ Answer(u)
<1> SUFFICES ASSUME buildDir' # buildDir, buildDir'[i] # buildDir[i]
             PROVE  \E u \in Tasks : /\ SubmitId[u] = i
                               /\ \/ PrepareBuildDir(u) \/ PrepareFails(u) \/ WriteSource(u)
                                  \/ CompilerSucceeds(u) \/ OrphanEnds(u) \/ Answer(u)
  OBVIOUS
<1>1. PICK u \in Tasks : \/ PrepareBuildDir(u) \/ PrepareFails(u) \/ WriteSource(u)
                         \/ CompilerSucceeds(u) \/ OrphanEnds(u) \/ Answer(u)
  BY WhoBuilds
<1>2. SubmitId[u] = i
  BY <1>1 DEF OwnTypeOK, PrepareBuildDir, PrepareFails, WriteSource, CompilerSucceeds,
                   OrphanEnds, Answer
<1> QED
  BY <1>1, <1>2

-----------------------------------------------------------------------------
\* A task that can still go on has no answer; ~BuildDirGuard learns the
\* directory when compile() returns, and misses it only after an exception.
Undecided   == Phases \ {"leaveCompiler", "tidy", "release", "leaveWorker", "cleanup", "answered"}
BeforeGuard == {"idle", "checking", "arrived", "spj", "compile"} \cup InCompiler
AfterGuard  == {"run", "cleanup"} \cup InWorker

FateInv ==
    \A t \in Tasks :
        /\ pc[t] \in Undecided => result[t] = Pending
        /\ pc[t] \in BeforeGuard => ~guardPath[t]
        /\ pc[t] \in AfterGuard => guardPath[t] \/ result[t].status = "threw"

LEMMA InitFateInv == Init => FateInv
BY DEF Init, FateInv, AfterGuard, InWorker, HasSlot

LEMMA StepFateInv ==
    ASSUME OwnTypeOK, Pool!TypeOK, FateInv, [Next]_vars
    PROVE  FateInv'
<1>1. CASE UNCHANGED vars
  BY <1>1 DEF vars, FateInv
<1> SUFFICES ASSUME NEW t \in Tasks, Acts(t)
             PROVE  /\ pc'[t] \in Undecided => result'[t] = Pending
                    /\ pc'[t] \in BeforeGuard => ~guardPath'[t]
                    /\ pc'[t] \in AfterGuard => guardPath'[t] \/ result'[t].status = "threw"
  BY <1>1, OneActs, Bystander DEF FateInv
<1> USE DEF OwnTypeOK, FateInv, Goto, Conclude, Verdict, Pending, Undecided, BeforeGuard,
            AfterGuard, Phases, InCompiler, InWorker, HasSlot
<1>2. CASE Submit(t) \/ Refuse(t) \/ Accept(t) \/ LockSpj(t) \/ SpjReady(t) \/ SpjFails(t)
  BY <1>2 DEF Submit, Refuse, Accept, LockSpj, SpjReady, SpjFails
<1>3. CASE EnterCompiler(t) \/ WaitForCompiler(t) \/ WakeAtCompiler(t)
  BY <1>3 DEF EnterCompiler, WaitForCompiler, WakeAtCompiler
<1>4. CASE PrepareBuildDir(t) \/ PrepareFails(t) \/ WriteSource(t) \/ WriteFails(t)
  BY <1>4 DEF PrepareBuildDir, PrepareFails, WriteSource, WriteFails
<1>5. CASE StartCompiler(t) \/ CompilerSucceeds(t) \/ CompilerFails(t) \/ CompilerThrows(t)
           \/ CompilerOrphans(t) \/ OrphanEnds(t)
  BY <1>5 DEF StartCompiler, CompilerSucceeds, CompilerFails, CompilerThrows, CompilerOrphans,
              OrphanEnds
<1>6. CASE LeaveCompiler(t)
  BY <1>6 DEF LeaveCompiler
<1>7. CASE EnterWorker(t) \/ WaitForWorker(t) \/ WakeAtWorker(t)
  BY <1>7 DEF EnterWorker, WaitForWorker, WakeAtWorker
<1>8. CASE AcquireSlot(t) \/ WaitForSlot(t) \/ WakeAtSlot(t)
  BY <1>8 DEF AcquireSlot, WaitForSlot, WakeAtSlot
<1>9. CASE Stage(t) \/ StageFails(t) \/ RunCases(t) \/ RunThrows(t) \/ TidyRunDir(t)
  <2>1. UNCHANGED guardPath /\ pc[t] \in HasSlot
    BY <1>9 DEF Stage, StageFails, RunCases, RunThrows, TidyRunDir
  <2>3. CASE Stage(t)
    BY <2>3 DEF Stage
  <2>4. CASE ~Stage(t)
    <3>1. \E phase \in {"tidy", "release", "leaveWorker"} : Goto(t, phase)
      BY <1>9, <2>4 DEF StageFails, RunCases, RunThrows, TidyRunDir
    <3>2. UNCHANGED result \/ result[t] = Pending
      BY <1>9, <2>4 DEF StageFails, RunCases, RunThrows, TidyRunDir
    <3> QED
      BY <2>1, <3>1, <3>2
  <2> QED
    BY <2>3, <2>4
<1>10. CASE ReleaseSlot(t) \/ LeaveWorker(t) \/ Answer(t)
  BY <1>10 DEF ReleaseSlot, LeaveWorker, Answer
<1> QED
  BY <1>2, <1>3, <1>4, <1>5, <1>6, <1>7, <1>8, <1>9, <1>10 DEF Acts, Step, Wake

-----------------------------------------------------------------------------
\* Slots and holders change together, except when an exception leaves the run.
LEMMA WhoHolds ==
    ASSUME [Next]_vars, inUse' # inUse \/ held' # held
    PROVE  \E t \in Tasks : AcquireSlot(t) \/ ReleaseSlot(t) \/ RunThrows(t)
BY DEF Next, vars, poolVars, Submit, Finished, OrphanEnds, Step, Wake, Refuse, Accept, LockSpj, SpjReady,
       SpjFails, EnterCompiler, WaitForCompiler, PrepareBuildDir, PrepareFails,
       WriteSource, WriteFails, StartCompiler, CompilerSucceeds, CompilerFails,
       CompilerThrows, CompilerOrphans, LeaveCompiler, EnterWorker, WaitForWorker, WaitForSlot,
       Pool!Block, Stage, StageFails, RunCases, TidyRunDir, LeaveWorker, Answer,
       WakeAtCompiler, WakeAtWorker, WakeAtSlot, Pool!SpuriousWake

\* Only an exception out of runProcess adds to the leaked slots.
LEMMA LeakedStep ==
    ASSUME OwnTypeOK, Pool!TypeOK, FateInv, [Next]_vars
    PROVE  \/ Leaked' = Leaked /\ ~ \E t \in Tasks : RunThrows(t)
           \/ \E t \in Tasks : RunThrows(t) /\ t \notin Leaked /\ Leaked' = Leaked \cup {t}
<1>1. CASE UNCHANGED vars
  <2>1. \A t \in Tasks : ~RunThrows(t)
    BY <1>1 DEF vars, poolVars, RunThrows, Pool!Abandon, Goto, OwnTypeOK
  <2> QED
    BY <1>1, <2>1 DEF vars, Leaked
<1> SUFFICES ASSUME NEW t \in Tasks, Acts(t)
             PROVE  \/ Leaked' = Leaked /\ ~ \E u \in Tasks : RunThrows(u)
                    \/ RunThrows(t) /\ t \notin Leaked /\ Leaked' = Leaked \cup {t}
  BY <1>1, OneActs
<1>2. \A u \in Tasks \ {t} : /\ result'[u] = result[u] /\ guardPath'[u] = guardPath[u]
                             /\ pc'[u] = pc[u]
  BY Bystander
<1>3. \A u \in Tasks \ {t} : ~RunThrows(u)
  BY <1>2 DEF RunThrows, Goto, OwnTypeOK
<1>4. CASE RunThrows(t)
  <2>1. guardPath[t] /\ result[t] = Pending
    BY <1>4 DEF RunThrows, FateInv, AfterGuard, InWorker, HasSlot, Undecided, Phases,
                Pending, Verdict
  <2>2. t \notin Leaked
    BY <2>1 DEF Leaked, Pending, Verdict
  <2>3. result'[t].status = "threw" /\ guardPath'[t]
    BY <1>4, <2>1 DEF RunThrows, Conclude, Verdict, OwnTypeOK
  <2> QED
    BY <1>2, <1>4, <2>2, <2>3 DEF Leaked
<1>5. CASE ~RunThrows(t)
  <2> SUFFICES t \in Leaked' <=> t \in Leaked
    BY <1>2, <1>3, <1>5 DEF Leaked
  <2>1. CASE result'[t] = result[t] /\ guardPath'[t] = guardPath[t]
    BY <2>1 DEF Leaked
  <2>2. CASE LeaveCompiler(t)
    BY <2>2 DEF LeaveCompiler, Leaked, OwnTypeOK, FateInv, BeforeGuard, InCompiler
  <2>4. CASE result'[t] # result[t]
    <3>1. PICK u \in Tasks : \/ Refuse(u) \/ SpjFails(u) \/ PrepareFails(u) \/ WriteFails(u)
                             \/ CompilerFails(u) \/ CompilerThrows(u) \/ CompilerOrphans(u)
                             \/ StageFails(u) \/ RunCases(u) \/ RunThrows(u)
      BY <2>4, WhoConcludes
    <3>2. u = t
      BY <1>2, <2>4, <3>1 DEF OwnTypeOK, Conclude, Refuse, SpjFails, PrepareFails,
         WriteFails, CompilerFails, CompilerThrows, CompilerOrphans, StageFails, RunCases, RunThrows
    <3>3. CASE Refuse(t) \/ SpjFails(t) \/ PrepareFails(t) \/ WriteFails(t)
               \/ CompilerFails(t) \/ CompilerThrows(t) \/ CompilerOrphans(t)
      <4>1. guardPath'[t] = guardPath[t] /\ pc[t] \in BeforeGuard
        BY <3>3 DEF Refuse, SpjFails, PrepareFails, WriteFails, CompilerFails,
                    CompilerThrows, CompilerOrphans, BeforeGuard, InCompiler
      <4> QED
        BY <4>1 DEF FateInv, Leaked
    <3>4. CASE StageFails(t) \/ RunCases(t)
      <4>1. /\ \E of, status : status # "threw" /\ Conclude(t, status, of)
            /\ pc[t] \in {"stage", "cases"}
        BY <3>4 DEF StageFails, RunCases
      <4>2. result'[t].status # "threw"
        BY <4>1 DEF Conclude, Verdict, OwnTypeOK
      <4>3. result[t].status # "threw"
        BY <4>1 DEF FateInv, Undecided, Phases, Pending, Verdict
      <4> QED
        BY <4>2, <4>3 DEF Leaked
    <3> QED
      BY <1>5, <3>1, <3>2, <3>3, <3>4
  <2>5. CASE result'[t] = result[t] /\ guardPath'[t] # guardPath[t]
    <3>1. PICK u \in Tasks : StartCompiler(u) \/ LeaveCompiler(u)
      BY <2>5, WhoReads
    <3>2. u = t
      BY <1>2, <2>5, <3>1 DEF OwnTypeOK, StartCompiler, LeaveCompiler
    <3> QED
      BY <2>2, <2>5, <3>1, <3>2 DEF StartCompiler
  <2> QED
    BY <2>1, <2>4, <2>5
<1> QED
  BY <1>4, <1>5

-----------------------------------------------------------------------------
\* The flags that are set are counted by the holders and the leaked slots.
LEMMA CountsFinite ==
    /\ IsFiniteSet(Pool!Used) /\ IsFiniteSet(Pool!Holders) /\ IsFiniteSet(Leaked)
    /\ Cardinality(Pool!Used) \in Nat /\ Cardinality(Pool!Holders) \in Nat
    /\ Cardinality(Leaked) \in Nat
<1>1. IsFiniteSet(Slots)
  <2>1. 0 \in Int /\ Capacity - 1 \in Int
    BY TaskAssumption
  <2> QED
    BY <2>1, FS_Interval DEF Slots
<1>2. Pool!Used \subseteq Slots /\ Pool!Holders \subseteq Tasks /\ Leaked \subseteq Tasks
  BY DEF Pool!Used, Pool!Holders, Leaked, Pool!Slots, Slots
<1>3. IsFiniteSet(Pool!Used) /\ IsFiniteSet(Pool!Holders) /\ IsFiniteSet(Leaked)
  BY <1>1, <1>2, TaskAssumption, FS_Subset
<1> QED
  BY <1>3, FS_CardinalityType

LEMMA StepSlotsAccounted ==
    ASSUME PoolsInv, OwnTypeOK, FateInv, SlotsAccounted, [Next]_vars
    PROVE  SlotsAccounted'
<1>1. Pool!TypeOK
  BY PoolsTyped
<1>2. CASE inUse' = inUse /\ held' = held
  <2>1. Pool!Used' = Pool!Used /\ Pool!Holders' = Pool!Holders
    BY <1>2 DEF Pool!Used, Pool!Holders
  <2>2. Leaked' = Leaked
    BY <1>1, <1>2, LeakedStep DEF RunThrows, Pool!Abandon, Pool!TypeOK
  <2> QED
    BY <2>1, <2>2 DEF SlotsAccounted
<1> SUFFICES ASSUME NEW t \in Tasks, AcquireSlot(t) \/ ReleaseSlot(t) \/ RunThrows(t)
             PROVE  SlotsAccounted'
  BY <1>2, WhoHolds
<1>3. CASE AcquireSlot(t)
  <2>1. PICK s \in Pool!Free : /\ inUse' = [inUse EXCEPT ![s] = TRUE]
                               /\ held' = [held EXCEPT ![t] = s]
    BY <1>3 DEF AcquireSlot, Pool!Take
  <2>2. s \in Slots /\ s # NoSlot /\ s \notin Pool!Used
    BY TaskAssumption DEF Pool!Free, Pool!Slots, Slots
  <2>3. Pool!Used' = Pool!Used \cup {s}
    BY <1>1, <2>1, <2>2 DEF Pool!Used, Pool!TypeOK, Pool!Slots, Slots
  <2>4. t \notin Pool!Holders /\ Pool!Holders' = Pool!Holders \cup {t}
    BY <1>1, <1>3, <2>1, <2>2 DEF AcquireSlot, Pool!Take, Pool!Holders, Pool!TypeOK
  <2>5. Leaked' = Leaked
    BY <1>1, <1>3, LeakedStep DEF AcquireSlot, RunThrows, Goto, OwnTypeOK
  <2>6. /\ Cardinality(Pool!Used') = Cardinality(Pool!Used) + 1
        /\ Cardinality(Pool!Holders') = Cardinality(Pool!Holders) + 1
    BY <2>2, <2>3, <2>4, CountsFinite, FS_AddElement
  <2> QED
    BY <2>5, <2>6, CountsFinite DEF SlotsAccounted
<1>4. CASE ReleaseSlot(t)
  <2>1. /\ inUse' = [inUse EXCEPT ![held[t]] = FALSE] /\ held[t] # NoSlot
        /\ held' = [held EXCEPT ![t] = NoSlot]
    BY <1>4 DEF ReleaseSlot, Pool!Release
  <2>2. t \in Pool!Holders /\ Pool!Holders' = Pool!Holders \ {t}
    BY <1>1, <2>1 DEF Pool!Holders, Pool!TypeOK
  <2>3. held[t] \in Pool!Used
    BY <1>1, <2>2 DEF PoolsInv, PoolP!IInv, PoolP!SlotExclusive, PoolP!Holders, Pool!Holders,
                      Pool!Used, Pool!TypeOK
  <2>4. Pool!Used' = Pool!Used \ {held[t]}
    BY <1>1, <2>1 DEF Pool!Used, Pool!TypeOK
  <2>5. Leaked' = Leaked
    BY <1>1, <1>4, LeakedStep DEF ReleaseSlot, RunThrows, Goto, OwnTypeOK
  <2>6. /\ Cardinality(Pool!Used') = Cardinality(Pool!Used) - 1
        /\ Cardinality(Pool!Holders') = Cardinality(Pool!Holders) - 1
    BY <2>2, <2>3, <2>4, CountsFinite, FS_RemoveElement
  <2> QED
    BY <2>5, <2>6, CountsFinite DEF SlotsAccounted
<1>5. CASE RunThrows(t)
  <2>1. inUse' = inUse /\ held[t] # NoSlot /\ held' = [held EXCEPT ![t] = NoSlot]
    BY <1>5 DEF RunThrows, Pool!Abandon
  <2>2. t \in Pool!Holders /\ Pool!Holders' = Pool!Holders \ {t} /\ Pool!Used' = Pool!Used
    BY <1>1, <2>1 DEF Pool!Holders, Pool!Used, Pool!TypeOK
  <2>3. PICK u \in Tasks : u \notin Leaked /\ Leaked' = Leaked \cup {u}
    BY <1>1, <1>5, LeakedStep
  <2>4. /\ Cardinality(Pool!Holders') = Cardinality(Pool!Holders) - 1
        /\ Cardinality(Leaked') = Cardinality(Leaked) + 1
    BY <2>2, <2>3, CountsFinite, FS_AddElement, FS_RemoveElement
  <2> QED
    BY <2>2, <2>4, CountsFinite DEF SlotsAccounted
<1> QED
  BY <1>3, <1>4, <1>5

\* While nothing has leaked, the slots in use never reach the capacity while an
\* admitted task is still without one: the holders are other admitted tasks, and
\* there are at most Capacity of them.
LEMMA AdmittedFindsSlot ==
    ASSUME PoolsInv, Balanced, SlotsAccounted, Leaked = {},
           NEW t \in Tasks, pc[t] = "acquire"
    PROVE  Pool!Free # {}
<1> SUFFICES ASSUME Pool!Used = Slots PROVE FALSE
  BY DEF Pool!Free, Pool!Used, Pool!Slots, Slots
<1>1. Capacity \in Nat /\ Cardinality(Slots) = Capacity
  <2>1. Capacity \in Nat
    BY TaskAssumption
  <2>2. Cardinality(0 .. Capacity - 1) =
            IF 0 > Capacity - 1 THEN 0 ELSE (Capacity - 1) - 0 + 1
    BY <2>1, FS_Interval
  <2> QED
    BY <2>1, <2>2 DEF Slots
<1>2. Cardinality(Pool!Holders) = Capacity
  BY <1>1, CountsFinite, FS_EmptySet DEF SlotsAccounted
<1>3. IsFiniteSet(WorkersP!Inside) /\ Cardinality(WorkersP!Inside) \in Nat
  BY TaskAssumption, FS_Subset, FS_CardinalityType DEF WorkersP!Inside
<1>4. Pool!Holders \subseteq WorkersP!Inside \ {t} /\ t \in WorkersP!Inside
  BY DEF Balanced, Pool!Holders, WorkersP!Inside, InWorker, HasSlot
<1>5. Cardinality(Pool!Holders) <= Cardinality(WorkersP!Inside \ {t})
  BY <1>3, <1>4, FS_RemoveElement, FS_Subset
<1>6. Cardinality(WorkersP!Inside \ {t}) = Cardinality(WorkersP!Inside) - 1
  BY <1>3, <1>4, FS_RemoveElement
<1>7. Cardinality(WorkersP!Inside) <= Capacity
  <2>1. WorkersP!Cardinality(WorkersP!Inside) = Cardinality(WorkersP!Inside)
    BY DEF WorkersP!Cardinality, Cardinality
  <2> QED
    BY <2>1 DEF PoolsInv, WorkersP!IInv, WorkersP!ActiveCountExact
<1> QED
  BY <1>1, <1>2, <1>3, <1>5, <1>6, <1>7

LEMMA StepAcquireNeverBlocks ==
    ASSUME PoolsInv, OwnTypeOK, Balanced, FateInv, SlotsAccounted, AcquireNeverBlocks,
           [Next]_vars
    PROVE  AcquireNeverBlocks'
<1>1. Pool!TypeOK
  BY PoolsTyped
<1> SUFFICES ASSUME Leaked = {}, Leaked' = {}, \A t \in Tasks : poolWait[t] = "none",
                    NEW u \in Tasks, poolWait' # poolWait
             PROVE  poolWait'[u] = "none"
  BY <1>1, LeakedStep DEF AcquireNeverBlocks
<1>2. PICK t \in Tasks : AcquireSlot(t) \/ WaitForSlot(t) \/ WakeAtSlot(t) \/ ReleaseSlot(t)
  BY DEF Next, vars, poolVars, Submit, Finished, OrphanEnds, Step, Wake, Refuse, Accept, LockSpj, SpjReady,
         SpjFails, EnterCompiler, WaitForCompiler, PrepareBuildDir, PrepareFails,
         WriteSource, WriteFails, StartCompiler, CompilerSucceeds, CompilerFails,
         CompilerThrows, CompilerOrphans, LeaveCompiler, EnterWorker, WaitForWorker, Stage, StageFails,
         RunCases, RunThrows, Pool!Abandon, TidyRunDir, LeaveWorker, Answer,
         WakeAtCompiler, WakeAtWorker
<1>3. CASE AcquireSlot(t)
  BY <1>1, <1>3 DEF AcquireSlot, Pool!Take, Pool!TypeOK
<1>4. CASE WaitForSlot(t)
  BY <1>4, AdmittedFindsSlot DEF WaitForSlot, Pool!Block
<1>5. CASE WakeAtSlot(t)
  BY <1>5 DEF WakeAtSlot, Pool!SpuriousWake
<1>6. CASE ReleaseSlot(t)
  <2>1. Pool!Blocked = {}
    BY DEF Pool!Blocked
  <2> QED
    BY <1>6, <2>1 DEF ReleaseSlot, Pool!Release, Pool!Notified
<1> QED
  BY <1>2, <1>3, <1>4, <1>5, <1>6
-----------------------------------------------------------------------------
\* The phases in which a task may have a build directory of its id, and the
\* ways for a directory to outlive them.
Building == {"source", "start", "compiling", "leaveCompiler", "run", "cleanup"} \cup InWorker
Owner(u) == \/ pc[u] \in Building
            \/ pc[u] = "answered" /\ result[u].status = "threw" /\ ~guardPath[u]
            \/ \E what \in {"earlier", "build"} : <<u, what>> \in lapses

BuildInv ==
    ~KeepBuildDir => \A i \in Ids :
        buildDir[i].exists => \E u \in Tasks : SubmitId[u] = i /\ Owner(u)

LEMMA InitBuildInv == Init => BuildInv
BY DEF Init, BuildInv, Owner, Littered, Ids

\* A failure is not forgotten.
LEMMA LapsesKept ==
    ASSUME [Next]_vars
    PROVE  lapses \subseteq lapses'
BY WhoLapses

\* What is left when remove_all succeeds, and when it does not.
LEMMA RemovedOrNot ==
    ASSUME NEW t \in Tasks, NEW d, NEW e \in Removed(t, d)
    PROVE  e = Absent \/ e.exists
BY DEF Removed, Parts

LEMMA OwnerStays ==
    ASSUME OwnTypeOK, Pool!TypeOK, FateInv, ~KeepBuildDir, [Next]_vars,
           NEW v \in Tasks, Owner(v), Acts(v)
    PROVE  Owner(v)' \/ buildDir'[SubmitId[v]] = Absent
<1>a. SubmitId[v] \in Ids
  BY Places
<1>8. CASE \E what \in {"earlier", "build"} : <<v, what>> \in lapses
  BY <1>8, LapsesKept DEF Owner
<1> SUFFICES ASSUME \A what \in {"earlier", "build"} : <<v, what>> \notin lapses
             PROVE  Owner(v)' \/ buildDir'[SubmitId[v]] = Absent
  BY <1>8
<1> USE DEF OwnTypeOK, Owner, Building, InWorker, HasSlot, Goto
<1>1. CASE \/ Submit(v) \/ Refuse(v) \/ Accept(v) \/ LockSpj(v) \/ SpjReady(v) \/ SpjFails(v)
           \/ EnterCompiler(v) \/ WaitForCompiler(v) \/ PrepareBuildDir(v) \/ PrepareFails(v)
  BY <1>1 DEF Submit, Refuse, Accept, LockSpj, SpjReady, SpjFails, EnterCompiler,
              WaitForCompiler, PrepareBuildDir, PrepareFails
<1>2. CASE WriteSource(v) \/ WriteFails(v) \/ StartCompiler(v)
  BY <1>2 DEF WriteSource, WriteFails, StartCompiler
<1>3. CASE \/ CompilerSucceeds(v) \/ CompilerFails(v) \/ CompilerThrows(v)
           \/ CompilerOrphans(v) \/ OrphanEnds(v) \/ LeaveCompiler(v)
  BY <1>3 DEF CompilerSucceeds, CompilerFails, CompilerThrows, CompilerOrphans, OrphanEnds,
              LeaveCompiler
<1>4. CASE \/ EnterWorker(v) \/ WaitForWorker(v) \/ AcquireSlot(v) \/ WaitForSlot(v)
           \/ Stage(v) \/ StageFails(v) \/ RunCases(v)
  BY <1>4 DEF EnterWorker, WaitForWorker, AcquireSlot, WaitForSlot, Stage, StageFails, RunCases
<1>5. CASE RunThrows(v) \/ TidyRunDir(v) \/ ReleaseSlot(v) \/ LeaveWorker(v)
  BY <1>5 DEF RunThrows, TidyRunDir, ReleaseSlot, LeaveWorker
<1>6. CASE Answer(v)
  <2>1. CASE guardPath[v]
    <3>1. PICK dir \in Removed(v, buildDir[SubmitId[v]]) :
                /\ buildDir' = [buildDir EXCEPT ![SubmitId[v]] = dir]
                /\ Lapse(v, "build", dir.exists)
      BY <1>6, <2>1 DEF Answer
    <3>2. CASE dir = Absent
      BY <1>a, <3>1, <3>2
    <3>3. CASE dir.exists
      BY <3>1, <3>3 DEF Lapse
    <3> QED
      BY <3>1, <3>2, <3>3, RemovedOrNot
  <2>2. CASE ~guardPath[v]
    BY <1>6, <2>2 DEF Answer, FateInv, AfterGuard
  <2> QED
    BY <2>1, <2>2
<1>7. CASE Wake(v)
  BY <1>7 DEF Wake, WakeAtCompiler, WakeAtWorker, WakeAtSlot
<1> QED
  BY <1>1, <1>2, <1>3, <1>4, <1>5, <1>6, <1>7 DEF Acts, Step

LEMMA StepBuildInv ==
    ASSUME OwnTypeOK, Pool!TypeOK, FateInv, BuildInv, [Next]_vars
    PROVE  BuildInv'
<1>1. CASE UNCHANGED vars
  BY <1>1 DEF vars, diskVars, BuildInv, Owner
<1> SUFFICES ASSUME NEW u \in Tasks, Acts(u), ~KeepBuildDir, NEW i \in Ids, buildDir'[i].exists
             PROVE  \E v \in Tasks : SubmitId[v] = i /\ Owner(v)'
  BY <1>1, OneActs DEF BuildInv
<1>2. CASE buildDir'[i] = buildDir[i]
  <2>1. PICK v \in Tasks : SubmitId[v] = i /\ Owner(v)
    BY <1>2 DEF BuildInv
  <2>2. CASE v = u
    BY <2>1, <2>2, OwnerStays DEF Absent
  <2>3. CASE v # u
    BY <2>1, <2>3, Bystander, LapsesKept DEF Owner
  <2> QED
    BY <2>1, <2>2, <2>3
<1>3. CASE buildDir'[i] # buildDir[i]
  <2>1. PICK v \in Tasks : /\ SubmitId[v] = i
                           /\ \/ PrepareBuildDir(v) \/ PrepareFails(v) \/ WriteSource(v)
                              \/ CompilerSucceeds(v) \/ OrphanEnds(v) \/ Answer(v)
    BY <1>3, OtherDirectories
  <2>2. CASE PrepareBuildDir(v) \/ WriteSource(v) \/ CompilerSucceeds(v)
    BY <2>1, <2>2 DEF PrepareBuildDir, WriteSource, CompilerSucceeds, Owner, Building,
                      Goto, OwnTypeOK
  <2>3. CASE PrepareFails(v)
    BY <1>3, <2>1, <2>3 DEF PrepareFails, Absent, OwnTypeOK
  <2>4. CASE Answer(v)
    <3>1. PICK dir \in Removed(v, buildDir[SubmitId[v]]) :
                /\ buildDir' = [buildDir EXCEPT ![SubmitId[v]] = dir]
                /\ Lapse(v, "build", dir.exists)
      BY <1>3, <2>4 DEF Answer
    <3>2. dir.exists
      BY <2>1, <3>1 DEF OwnTypeOK
    <3> QED
      BY <2>1, <3>1, <3>2 DEF Lapse, Owner
  <2>5. CASE OrphanEnds(v)
    <3>1. buildDir[i].exists
      BY <1>3, <2>1, <2>5 DEF OrphanEnds
    <3>2. PICK w \in Tasks : SubmitId[w] = i /\ Owner(w)
      BY <3>1 DEF BuildInv
    <3>3. Owner(w)'
      BY <2>5, <3>2 DEF OrphanEnds, Owner
    <3> QED
      BY <3>2, <3>3
  <2> QED
    BY <2>1, <2>2, <2>3, <2>4, <2>5
<1> QED
  BY <1>2, <1>3

-----------------------------------------------------------------------------
\* An answer, once decided, is final.
LEMMA AnswersFinal ==
    ASSUME OwnTypeOK, FateInv, [Next]_vars, NEW v \in Tasks, result[v] # Pending
    PROVE  result'[v] = result[v]
<1> SUFFICES ASSUME result'[v] # result[v] PROVE FALSE
  OBVIOUS
<1>1. PICK u \in Tasks : \/ Refuse(u) \/ SpjFails(u) \/ PrepareFails(u) \/ WriteFails(u)
                         \/ CompilerFails(u) \/ CompilerThrows(u) \/ CompilerOrphans(u)
                         \/ StageFails(u) \/ RunCases(u) \/ RunThrows(u)
  BY WhoConcludes
<1>2. u = v
  BY <1>1 DEF OwnTypeOK, Conclude, Refuse, SpjFails, PrepareFails, WriteFails, CompilerFails,
              CompilerThrows, CompilerOrphans, StageFails, RunCases, RunThrows
<1>3. pc[u] \in Undecided
  BY <1>1 DEF Refuse, SpjFails, PrepareFails, WriteFails, CompilerFails, CompilerThrows,
              CompilerOrphans, StageFails, RunCases, RunThrows, Undecided, Phases
<1> QED
  BY <1>2, <1>3 DEF FateInv

\* Who may have left a directory in a slot: the task that is using it, or one
\* whose run was broken off or whose removal failed.
Runs(u, s) == \/ held[u] = s /\ pc[u] \in {"cases", "tidy"}
              \/ u \in Leaked
              \/ \E what \in {"earlier", "setup", "run"} : <<u, what>> \in lapses

RunInv ==
    ~KeepRunDir => \A s \in Slots, i \in Ids :
        runDir[<<s, i>>].exists => \E u \in Tasks : SubmitId[u] = i /\ Runs(u, s)

LEMMA InitRunInv == Init => RunInv
BY DEF Init, RunInv, Runs, Littered, Ids

\* An exception out of runProcess leaves its slot in use.
LEMMA ThrowLeaks ==
    ASSUME OwnTypeOK, FateInv, NEW v \in Tasks, RunThrows(v)
    PROVE  v \in Leaked'
<1>1. guardPath[v]
  BY DEF RunThrows, FateInv, AfterGuard, InWorker, HasSlot, Undecided, Phases, Pending, Verdict
<1> QED
  BY <1>1 DEF RunThrows, Leaked, Conclude, Verdict, OwnTypeOK

LEMMA LeakedKept ==
    ASSUME OwnTypeOK, Pool!TypeOK, FateInv, [Next]_vars
    PROVE  Leaked \subseteq Leaked'
BY LeakedStep

LEMMA RunsStays ==
    ASSUME OwnTypeOK, Pool!TypeOK, Balanced, FateInv, [Next]_vars, ~KeepRunDir,
           NEW s \in Slots, NEW v \in Tasks, Runs(v, s), Acts(v)
    PROVE  Runs(v, s)' \/ runDir'[<<s, SubmitId[v]>>] = Absent
<1>1. CASE v \in Leaked \/ \E what \in {"earlier", "setup", "run"} : <<v, what>> \in lapses
  BY <1>1, LapsesKept, LeakedKept DEF Runs
<1>2. CASE held[v] = s /\ pc[v] \in {"cases", "tidy"}
  <2>1. RunCases(v) \/ RunThrows(v) \/ TidyRunDir(v) \/ Wake(v) \/ OrphanEnds(v)
    BY <1>2 DEF Acts, Submit, Step, Refuse, Accept, LockSpj, SpjReady,
       SpjFails, EnterCompiler, WaitForCompiler, PrepareBuildDir, PrepareFails,
       WriteSource, WriteFails, StartCompiler, CompilerSucceeds, CompilerFails,
       CompilerThrows, CompilerOrphans, LeaveCompiler, EnterWorker, WaitForWorker, AcquireSlot,
       WaitForSlot, Stage, StageFails, ReleaseSlot, LeaveWorker, Answer
  <2>2. CASE RunCases(v) \/ OrphanEnds(v)
    BY <1>2, <2>2 DEF RunCases, OrphanEnds, Runs, Goto, OwnTypeOK, poolVars
  <2>3. CASE RunThrows(v)
    BY <2>3, ThrowLeaks DEF Runs
  <2>4. CASE TidyRunDir(v)
    <3>1. PICK dir \in Removed(v, runDir[Place(v)]) :
                /\ runDir' = [runDir EXCEPT ![Place(v)] = dir]
                /\ Lapse(v, "run", dir.exists)
      BY <2>4 DEF TidyRunDir
    <3>2. Place(v) = <<s, SubmitId[v]>> /\ Place(v) \in Slots \X Ids
      BY <1>2, Places DEF Place
    <3>3. CASE dir = Absent
      BY <3>1, <3>2, <3>3 DEF OwnTypeOK
    <3>4. CASE dir.exists
      BY <3>1, <3>4 DEF Lapse, Runs
    <3> QED
      BY <3>1, <3>3, <3>4, RemovedOrNot
  <2>5. CASE Wake(v)
    BY <1>2, <2>5 DEF Wake, WakeAtCompiler, WakeAtWorker, WakeAtSlot, Pool!SpuriousWake,
                      Runs, poolVars
  <2> QED
    BY <2>1, <2>2, <2>3, <2>4, <2>5
<1> QED
  BY <1>1, <1>2 DEF Runs

LEMMA StepRunInv ==
    ASSUME OwnTypeOK, Pool!TypeOK, Balanced, FateInv, RunInv, [Next]_vars
    PROVE  RunInv'
<1>1. CASE UNCHANGED vars
  BY <1>1 DEF vars, diskVars, poolVars, RunInv, Runs, Leaked
<1> SUFFICES ASSUME NEW u \in Tasks, Acts(u), ~KeepRunDir, NEW s \in Slots, NEW i \in Ids,
                    runDir'[<<s, i>>].exists
             PROVE  \E v \in Tasks : SubmitId[v] = i /\ Runs(v, s)'
  BY <1>1, OneActs DEF RunInv
<1>2. CASE runDir'[<<s, i>>] = runDir[<<s, i>>]
  <2>1. PICK v \in Tasks : SubmitId[v] = i /\ Runs(v, s)
    BY <1>2 DEF RunInv
  <2>2. CASE v = u
    BY <2>1, <2>2, RunsStays DEF Absent
  <2>3. CASE v # u
    BY <2>1, <2>3, Bystander, LapsesKept, LeakedKept DEF Runs
  <2> QED
    BY <2>1, <2>2, <2>3
<1>3. CASE runDir'[<<s, i>>] # runDir[<<s, i>>]
  <2>1. PICK v \in Tasks : Stage(v) \/ StageFails(v) \/ RunThrows(v) \/ TidyRunDir(v)
    BY <1>3, WhoStages
  <2>2. PICK dir : /\ runDir' = [runDir EXCEPT ![Place(v)] = dir]
                   /\ TidyRunDir(v) => Lapse(v, "run", dir.exists)
    BY <1>3, <2>1 DEF Stage, StageFails, RunThrows, TidyRunDir
  <2>3. held[v] = s /\ SubmitId[v] = i /\ runDir'[<<s, i>>] = dir
    BY <1>3, <2>2 DEF Place, OwnTypeOK
  <2>4. CASE Stage(v)
    BY <2>3, <2>4 DEF Stage, Runs, Goto, OwnTypeOK, poolVars
  <2>5. CASE StageFails(v)
    BY <2>3, <2>5 DEF StageFails, Runs, Lapse
  <2>6. CASE RunThrows(v)
    BY <2>3, <2>6, ThrowLeaks DEF Runs
  <2>7. CASE TidyRunDir(v)
    BY <2>2, <2>3, <2>7 DEF Runs, Lapse
  <2> QED
    BY <2>1, <2>4, <2>5, <2>6, <2>7
<1> QED
  BY <1>2, <1>3
-----------------------------------------------------------------------------
\* Between its own compilation and its own run, a task that is alone with its
\* id finds in the directories what it has put there, whatever else is in them.
Holds(t, dir) == dir.exists /\ dir.src = t /\ (t \notin Interpreted => dir.exe = t)
BuiltAt == {"leaveCompiler", "run", "acquire", "stage"}
Own(t)  == \/ result[t].of = t
           \/ (EnvFails \/ MayThrow) /\ result[t].of = NoTask

Alone == \A t, u \in InFlight : SubmitId[t] = SubmitId[u] => t = u

Finds(t) ==
    /\ pc[t] \in {"source", "start", "compiling"} => buildDir[SubmitId[t]].exists
    /\ pc[t] \in {"start", "compiling"} => buildDir[SubmitId[t]].src = t
    /\ pc[t] = "compiling" => reading[t] = t
    /\ pc[t] \in BuiltAt /\ result[t] = Pending => Holds(t, buildDir[SubmitId[t]])
    /\ pc[t] = "cases" => Holds(t, runDir[Place(t)])
    /\ result[t] # Pending => Own(t)
    /\ pc[t] \in {"tidy", "release", "leaveWorker", "cleanup", "answered"} => result[t] # Pending

\* A linker that was left behind belongs to a task that has its answer, and to an
\* id that is not submitted again.
OrphansAlone == \A t \in Orphans, u \in Tasks : SubmitId[u] = SubmitId[t] => u = t
OrphanInv    == \A t \in Tasks : orphan[t] # NoTask => t \in Orphans /\ result[t] # Pending

OwnInv == Alone /\ OrphanInv /\ \A t \in Tasks : Finds(t)

LEMMA InitOwnInv == Init => OwnInv
BY DEF Init, OwnInv, OrphanInv, Alone, InFlight, Finds, BuiltAt

LEMMA StepOrphanInv ==
    ASSUME OwnTypeOK, FateInv, OrphanInv, [Next]_vars
    PROVE  OrphanInv'
<1>1. ASSUME NEW t \in Tasks, orphan'[t] # NoTask, orphan'[t] # orphan[t]
      PROVE  t \in Orphans /\ result'[t] # Pending
  <2>1. PICK u \in Tasks : CompilerOrphans(u) \/ OrphanEnds(u)
    BY <1>1, WhoOrphans
  <2>2. u = t /\ CompilerOrphans(t)
    BY <1>1, <2>1 DEF CompilerOrphans, OrphanEnds, OwnTypeOK
  <2> QED
    BY <2>2 DEF CompilerOrphans, Conclude, Verdict, Pending, OwnTypeOK
<1> QED
  BY <1>1, AnswersFinal DEF OrphanInv

\* Without twins the tasks in flight keep having different ids.
LEMMA StepAlone ==
    ASSUME InFlightTwins = FALSE, OwnTypeOK, Pool!TypeOK, Alone, [Next]_vars
    PROVE  Alone'
<1>1. CASE UNCHANGED vars
  BY <1>1 DEF vars, Alone, InFlight
<1> SUFFICES ASSUME NEW u \in Tasks, Acts(u)
             PROVE  Alone'
  BY <1>1, OneActs
<1>2. \A t \in Tasks \ {u} : pc'[t] = pc[t]
  BY Bystander
<1>3. CASE Submit(u)
  <2>1. \A v \in InFlight : SubmitId[v] # SubmitId[u]
    BY <1>3 DEF Submit
  <2>2. InFlight' \subseteq InFlight \cup {u}
    BY <1>2 DEF InFlight
  <2> QED
    BY <2>1, <2>2 DEF Alone
<1>4. CASE ~Submit(u)
  <2>1. pc[u] = "idle" => pc'[u] = "idle"
    BY <1>4 DEF Acts, OrphanEnds, Step, Wake, Refuse, Accept, LockSpj, SpjReady,
       SpjFails, EnterCompiler, WaitForCompiler, PrepareBuildDir, PrepareFails,
       WriteSource, WriteFails, StartCompiler, CompilerSucceeds, CompilerFails,
       CompilerThrows, CompilerOrphans, LeaveCompiler, EnterWorker, WaitForWorker, AcquireSlot,
       WaitForSlot, Stage, StageFails, RunCases, RunThrows, TidyRunDir, ReleaseSlot,
       LeaveWorker, Answer, WakeAtCompiler, WakeAtWorker, WakeAtSlot
  <2>2. pc[u] = "answered" => pc'[u] = "answered"
    BY <1>4 DEF Acts, OrphanEnds, Step, Wake, Refuse, Accept, LockSpj, SpjReady,
       SpjFails, EnterCompiler, WaitForCompiler, PrepareBuildDir, PrepareFails,
       WriteSource, WriteFails, StartCompiler, CompilerSucceeds, CompilerFails,
       CompilerThrows, CompilerOrphans, LeaveCompiler, EnterWorker, WaitForWorker, AcquireSlot,
       WaitForSlot, Stage, StageFails, RunCases, RunThrows, TidyRunDir, ReleaseSlot,
       LeaveWorker, Answer, WakeAtCompiler, WakeAtWorker, WakeAtSlot
  <2>3. InFlight' \subseteq InFlight
    BY <1>2, <2>1, <2>2 DEF InFlight
  <2> QED
    BY <2>3 DEF Alone
<1> QED
  BY <1>3, <1>4

\* A copy of the build is complete, whatever it is put over.
LEMMA CopyHolds ==
    ASSUME NEW t \in Tasks, NEW dir, NEW old, Holds(t, dir)
    PROVE  Holds(t, Over(dir, old))
BY TaskAssumption DEF Holds, Over

\* The others leave its directories alone, because they work on other ids.
LEMMA OthersKeepFinds ==
    ASSUME OwnTypeOK, Pool!TypeOK, Balanced, FateInv, Alone, OrphanInv, OrphansAlone, NEW t \in Tasks, Finds(t),
           NEW u \in Tasks, u # t, Acts(u), [Next]_vars
    PROVE  Finds(t)'
<1>1. /\ pc'[t] = pc[t] /\ result'[t] = result[t] /\ reading'[t] = reading[t]
      /\ guardPath'[t] = guardPath[t] /\ held'[t] = held[t]
  BY Bystander
<1>2. \A v \in Tasks : v # u => pc'[v] = pc[v]
  BY Bystander
<1>3. ASSUME t \in InFlight, result[t] = Pending
      PROVE  buildDir'[SubmitId[t]] = buildDir[SubmitId[t]]
  <2> SUFFICES ASSUME buildDir'[SubmitId[t]] # buildDir[SubmitId[t]] PROVE FALSE
    OBVIOUS
  <2>1. PICK v \in Tasks : /\ SubmitId[v] = SubmitId[t]
                           /\ \/ PrepareBuildDir(v) \/ PrepareFails(v) \/ WriteSource(v)
                              \/ CompilerSucceeds(v) \/ OrphanEnds(v) \/ Answer(v)
    BY OtherDirectories, Places
  <2>5. ~OrphanEnds(v)
    BY <1>3, <2>1 DEF OrphanEnds, OrphanInv, OrphansAlone
  <2>2. v \in InFlight
    BY <2>1, <2>5 DEF InFlight, PrepareBuildDir, PrepareFails, WriteSource, CompilerSucceeds, Answer
  <2>3. v = t
    BY <1>3, <2>1, <2>2 DEF Alone
  <2>4. pc'[v] # pc[v]
    BY <2>1, <2>5 DEF PrepareBuildDir, PrepareFails, WriteSource, CompilerSucceeds, Answer,
                Goto, OwnTypeOK
  <2> QED
    BY <1>1, <2>3, <2>4
<1>4. ASSUME pc[t] = "cases"
      PROVE  runDir'[Place(t)] = runDir[Place(t)]
  <2> SUFFICES ASSUME runDir'[Place(t)] # runDir[Place(t)] PROVE FALSE
    OBVIOUS
  <2>1. PICK v \in Tasks : Stage(v) \/ StageFails(v) \/ RunThrows(v) \/ TidyRunDir(v)
    BY WhoStages
  <2>a. Place(t) \in Slots \X Ids
    BY <1>4, PlaceHeld DEF HasSlot
  <2>b. PICK d : runDir' = [runDir EXCEPT ![Place(v)] = d]
    BY <2>1 DEF Stage, StageFails, RunThrows, TidyRunDir
  <2>2. SubmitId[v] = SubmitId[t]
    BY <2>a, <2>b DEF OwnTypeOK, Place
  <2>3. v \in InFlight /\ t \in InFlight
    BY <1>4, <2>1 DEF InFlight, Stage, StageFails, RunThrows, TidyRunDir
  <2>4. v = t
    BY <2>2, <2>3 DEF Alone
  <2> QED
    BY <1>4, <2>1, <2>4 DEF Stage, StageFails, RunThrows, TidyRunDir
<1>5. (Own(t) => Own(t)') /\ (result[t] # Pending => result'[t] # Pending)
  BY <1>1 DEF Own
<1>6. pc[t] \in {"source", "start", "compiling"} => t \in InFlight /\ result[t] = Pending
  BY DEF InFlight, FateInv, Undecided, Phases
<1>7. pc[t] \in BuiltAt => t \in InFlight
  BY DEF BuiltAt, InFlight
<1>8. Place(t)' = Place(t)
  BY <1>1 DEF Place
<1> QED
  BY <1>1, <1>3, <1>4, <1>5, <1>6, <1>7, <1>8 DEF Finds, Holds

LEMMA ActorKeepsFinds ==
    ASSUME OwnTypeOK, Pool!TypeOK, Balanced, FateInv, OrphanInv, NEW t \in Tasks, Finds(t), Acts(t)
    PROVE  Finds(t)'
<1>a. SubmitId[t] \in Ids /\ NoTask \notin Tasks
  BY Places, TaskAssumption
<1> USE DEF OwnTypeOK, Goto, Finds, BuiltAt
<1>1. CASE \/ Submit(t) \/ Accept(t) \/ LockSpj(t) \/ SpjReady(t) \/ EnterCompiler(t)
           \/ WaitForCompiler(t) \/ WakeAtCompiler(t)
  <2>1. /\ UNCHANGED <<buildDir, runDir, reading, result, held>>
        /\ \/ pc'[t] = pc[t]
           \/ /\ pc'[t] \in {"checking", "arrived", "spj", "compile", "prepare"}
              /\ pc[t] \in {"idle", "checking", "arrived", "spj", "compile"}
    BY <1>1 DEF Submit, Accept, LockSpj, SpjReady, EnterCompiler, WaitForCompiler,
                WakeAtCompiler, diskVars, poolVars
  <2> QED
    BY <2>1 DEF Own, Holds, Place
<1>2. CASE Refuse(t) \/ SpjFails(t) \/ PrepareFails(t)
  BY <1>2 DEF Refuse, SpjFails, PrepareFails, Conclude, Verdict, Pending, Own
<1>3. CASE PrepareBuildDir(t)
  <2>1. /\ pc'[t] = "source" /\ UNCHANGED result
        /\ \E old : buildDir' = [buildDir EXCEPT ![SubmitId[t]] = Over(Empty, old)]
    BY <1>3 DEF PrepareBuildDir
  <2> QED
    BY <1>a, <2>1 DEF Over, Own
<1>4. CASE WriteSource(t)
  BY <1>4, <1>a DEF WriteSource, Own, FateInv, Undecided, Phases
<1>5. CASE WriteFails(t)
  BY <1>5 DEF WriteFails, Conclude, Verdict, Pending, Own
<1>6. CASE StartCompiler(t)
  BY <1>6 DEF StartCompiler, diskVars, Own
<1>7. CASE CompilerSucceeds(t)
  <2>1. /\ reading[t] = t /\ buildDir[SubmitId[t]].src = t /\ buildDir[SubmitId[t]].exists
        /\ result'[t] = result[t] /\ pc'[t] = "leaveCompiler"
    BY <1>7 DEF CompilerSucceeds
  <2>2. Holds(t, buildDir'[SubmitId[t]])
    BY <1>7, <1>a, <2>1 DEF CompilerSucceeds, Holds
  <2> QED
    BY <2>1, <2>2 DEF Own, Holds
<1>8. CASE CompilerFails(t)
  BY <1>8, <1>a DEF CompilerFails, Conclude, Verdict, Pending, Own
<1>17. CASE CompilerOrphans(t)
  BY <1>17 DEF CompilerOrphans, Conclude, Verdict, Pending, Own
<1>18. CASE OrphanEnds(t)
  <2>1. /\ UNCHANGED <<pc, runDir, reading, result>> /\ Place(t)' = Place(t)
        /\ result[t] # Pending
    BY <1>18 DEF OrphanEnds, OrphanInv, Place, poolVars
  <2>2. pc[t] \notin {"source", "start", "compiling"}
    BY <2>1 DEF FateInv, Undecided, Phases
  <2> QED
    BY <2>1, <2>2 DEF Own, Holds
<1>9. CASE CompilerThrows(t)
  BY <1>9 DEF CompilerThrows, Conclude, Verdict, Pending, Own
<1>10. CASE LeaveCompiler(t)
  BY <1>10 DEF LeaveCompiler, diskVars, Own, Holds
<1>11. CASE \/ EnterWorker(t) \/ WaitForWorker(t) \/ WakeAtWorker(t)
            \/ AcquireSlot(t) \/ WaitForSlot(t) \/ WakeAtSlot(t)
  <2>1. /\ UNCHANGED <<buildDir, runDir, reading, result>>
        /\ \/ pc'[t] = pc[t] /\ held'[t] = held[t]
           \/ pc[t] \in {"run", "acquire"} /\ pc'[t] \in {"acquire", "stage"}
    BY <1>11 DEF EnterWorker, WaitForWorker, WakeAtWorker, AcquireSlot, WaitForSlot,
                 WakeAtSlot, Pool!Block, Pool!SpuriousWake, diskVars, poolVars
  <2> QED
    BY <2>1 DEF Own, Holds, Place
<1>12. CASE Stage(t)
  <2>1. result[t] = Pending
    BY <1>12 DEF Stage, FateInv, Undecided, Phases
  <2>2. Place(t) \in Slots \X Ids /\ Place(t)' = Place(t)
    BY <1>12, PlaceHeld DEF Stage, HasSlot, Place, poolVars
  <2>3. PICK old : runDir' = [runDir EXCEPT ![Place(t)] = Over(buildDir[SubmitId[t]], old)]
    BY <1>12 DEF Stage, Staged
  <2>4. Holds(t, runDir'[Place(t)])
    BY <1>12, <2>1, <2>2, <2>3, CopyHolds DEF Stage
  <2>5. pc'[t] = "cases" /\ result'[t] = result[t]
    BY <1>12 DEF Stage
  <2> QED
    BY <2>1, <2>2, <2>4, <2>5 DEF Holds
<1>13. CASE StageFails(t)
  <2>1. buildDir[SubmitId[t]].exists
    BY <1>13 DEF StageFails, FateInv, Undecided, Phases, Holds
  <2> QED
    BY <1>13, <2>1 DEF StageFails, Conclude, Verdict, Pending, Own
<1>14. CASE RunCases(t)
  <2>1. Artifact(t, runDir[Place(t)]) = t
    BY <1>14 DEF RunCases, Artifact, Holds
  <2> QED
    BY <1>14, <1>a, <2>1 DEF RunCases, Conclude, Verdict, Pending, Own
<1>15. CASE RunThrows(t)
  BY <1>15 DEF RunThrows, Pool!Abandon, Conclude, Verdict, Pending, Own
<1>16. CASE TidyRunDir(t) \/ ReleaseSlot(t) \/ LeaveWorker(t) \/ Answer(t)
  BY <1>16 DEF TidyRunDir, ReleaseSlot, LeaveWorker, Answer, Own
<1> QED
  BY <1>1, <1>2, <1>3, <1>4, <1>5, <1>6, <1>7, <1>8, <1>9, <1>10, <1>11, <1>12, <1>13,
     <1>14, <1>15, <1>16, <1>17, <1>18 DEF Acts, Step, Wake

LEMMA StepOwnInv ==
    ASSUME InFlightTwins = FALSE, OrphansAlone, OwnTypeOK, Pool!TypeOK, Balanced, FateInv, OwnInv,
           [Next]_vars
    PROVE  OwnInv'
<1>1. CASE UNCHANGED vars
  BY <1>1 DEF vars, diskVars, poolVars, OwnInv, OrphanInv, Alone, InFlight, Finds, Own, Holds, Place
<1>2. ASSUME NEW u \in Tasks, Acts(u), NEW t \in Tasks
      PROVE  Finds(t)'
  BY <1>2, ActorKeepsFinds, OthersKeepFinds DEF OwnInv
<1>3. Alone'
  BY StepAlone DEF OwnInv
<1> QED
  BY <1>1, <1>2, <1>3, StepOrphanInv, OneActs DEF OwnInv

-----------------------------------------------------------------------------
IInv ==
    /\ PoolsInv /\ OwnTypeOK /\ Balanced /\ FateInv
    /\ SlotsAccounted /\ AcquireNeverBlocks /\ BuildInv /\ RunInv

LEMMA InitSlots == Init => SlotsAccounted /\ AcquireNeverBlocks
<1> SUFFICES ASSUME Init PROVE SlotsAccounted /\ AcquireNeverBlocks
  OBVIOUS
<1>1. Pool!Used = {} /\ Pool!Holders = {} /\ Leaked = {}
  BY DEF Init, Pool!Init, Pool!Used, Pool!Holders, Pool!Slots, Leaked, Pending, Verdict
<1>2. AcquireNeverBlocks
  BY DEF Init, Pool!Init, AcquireNeverBlocks
<1> QED
  BY <1>1, <1>2, FS_EmptySet DEF SlotsAccounted

LEMMA InitIInv == Init => IInv
BY InitPoolsInv, InitOwnTypeOK, InitBalanced, InitFateInv, InitSlots, InitBuildInv, InitRunInv
   DEF IInv

LEMMA StepIInv == IInv /\ [Next]_vars => IInv'
<1> SUFFICES ASSUME IInv, [Next]_vars PROVE IInv'
  OBVIOUS
<1> USE DEF IInv
<1>1. Compilers!TypeOK /\ Workers!TypeOK /\ Pool!TypeOK
  BY PoolsTyped
<1>2. PoolsInv' /\ OwnTypeOK' /\ Balanced' /\ FateInv'
  BY <1>1, StepPoolsInv, StepOwnTypeOK, StepBalanced, StepFateInv
<1>3. SlotsAccounted' /\ AcquireNeverBlocks'
  BY StepSlotsAccounted, StepAcquireNeverBlocks
<1>4. BuildInv' /\ RunInv'
  BY <1>1, StepBuildInv, StepRunInv
<1> QED
  BY <1>2, <1>3, <1>4

\* The inductive invariant holds in every behaviour of the manager.
THEOREM ManagerInvariant == Spec => []IInv
BY InitIInv, StepIInv, PTL DEF Spec

\* Every state of the manager, its pools and its directories is well typed.
THEOREM TypeCorrect == Spec => []TypeOK
<1>1. IInv => TypeOK
  BY PoolsTyped DEF IInv, OwnTypeOK, TypeOK
<1> QED
  BY <1>1, ManagerInvariant, PTL

\* Through every failure and exception, a task counts in a pool, holds a slot
\* or owns gSpjMutex exactly in the phases in which it should, and the pools
\* admit no more than their size.
THEOREM GuardsAreBalanced == Spec => []GuardsBalanced
<1>1. IInv => GuardsBalanced
  BY PoolsTyped DEF IInv, Balanced, GuardsBalanced
<1> QED
  BY <1>1, ManagerInvariant, PTL

\* Every flag of SandboxPool that is set is owed to a task that holds the slot
\* or to one exception that left runProcess.
THEOREM SlotsAreAccounted == Spec => []SlotsAccounted
<1>1. IInv => SlotsAccounted
  BY DEF IInv
<1> QED
  BY <1>1, ManagerInvariant, PTL

\* Sizing the run pool by the capacity of the slot pool makes the second wait,
\* in SandboxPool::acquire, unreachable until an exception has lost a slot.
THEOREM NoSecondWait == Spec => []AcquireNeverBlocks
<1>1. IInv => AcquireNeverBlocks
  BY DEF IInv
<1> QED
  BY <1>1, ManagerInvariant, PTL

\* A build directory outlives the tasks of its id only through an exception
\* that left compile(), a remove_all that failed, or an earlier life.
THEOREM BuildDirsReclaimed == Spec => []BuildDirReclaimed
<1>1. IInv => BuildDirReclaimed
  BY Places DEF IInv, BuildInv, Owner, Building, InWorker, HasSlot, BuildDirReclaimed, InFlight
<1> QED
  BY <1>1, ManagerInvariant, PTL

\* A run directory outlives the task in its slot only when prepareSandbox failed,
\* an exception left runProcess, its remove_all failed, or an earlier life left it.
THEOREM RunDirsReclaimed == Spec => []RunDirReclaimed
<1>1. IInv => RunDirReclaimed
  BY Places DEF IInv, RunInv, Runs, RunDirReclaimed
<1> QED
  BY <1>1, ManagerInvariant, PTL

-----------------------------------------------------------------------------
(***************************************************************************)
(* The manager implements JudgeService.  What a task concludes on its way  *)
(* has to be one of the verdicts that are allowed at its stage.            *)
(***************************************************************************)
Justified(t) ==
    /\ pc[t] = "leaveCompiler" =>
            IF result[t] = Pending THEN t \in Compiles
            ELSE result[t] \in Service!CompileVerdicts(t)
    /\ pc[t] \in {"tidy", "release", "leaveWorker"} => result[t] \in Service!RunVerdicts(t)

JustInv == \A t \in Tasks : Justified(t)

LEMMA InitJustInv == Init => JustInv
BY DEF Init, JustInv, Justified

\* A verdict and the service's name for it.
LEMMA SameVerdicts ==
    ASSUME NEW status, NEW of
    PROVE  Service!About(status, of) = Verdict(status, of) /\ Service!Undecided = Pending
BY DEF Service!About, Service!Undecided, Verdict, Pending

\* What may be concluded about a task, in the manager's terms.
LEMMA AllowedVerdicts ==
    ASSUME NEW t \in Tasks
    PROVE  /\ EnvFails => /\ Verdict("SE", NoTask) \in Service!Refusals
                          /\ Verdict("SE", NoTask) \in Service!RunVerdicts(t)
                          /\ Verdict("CE", NoTask) \in Service!CompileVerdicts(t)
           /\ MayThrow => /\ Verdict("threw", NoTask) \in Service!Refusals
                          /\ Verdict("threw", NoTask) \in Service!RunVerdicts(t)
                          /\ Verdict("threw", NoTask) \in Service!CompileVerdicts(t)
           /\ t \notin Compiles => Verdict("CE", t) \in Service!CompileVerdicts(t)
           /\ Verdict("judged", t) \in Service!RunVerdicts(t)
BY SameVerdicts DEF Service!Refusals, Service!RunVerdicts, Service!CompileVerdicts, Service!Mishaps

LEMMA ActorKeepsJustified ==
    ASSUME OwnTypeOK, Pool!TypeOK, Balanced, FateInv, NEW t \in Tasks, Finds(t), Justified(t),
           Acts(t)
    PROVE  Justified(t)'
<1>a. NoTask \notin Tasks
  BY TaskAssumption
<1> USE DEF OwnTypeOK, Goto, Justified
<1>1. CASE \/ Submit(t) \/ Refuse(t) \/ Accept(t) \/ LockSpj(t) \/ SpjReady(t) \/ SpjFails(t)
           \/ EnterCompiler(t) \/ PrepareBuildDir(t) \/ WriteSource(t) \/ StartCompiler(t)
           \/ LeaveCompiler(t) \/ EnterWorker(t) \/ AcquireSlot(t) \/ Stage(t) \/ Answer(t)
  <2>1. pc'[t] \notin {"leaveCompiler", "tidy", "release", "leaveWorker"}
    BY <1>1 DEF Submit, Refuse, Accept, LockSpj, SpjReady, SpjFails, EnterCompiler,
                PrepareBuildDir, WriteSource, StartCompiler, LeaveCompiler, EnterWorker,
                AcquireSlot, Stage, Answer
  <2> QED
    BY <2>1
<1>2. CASE \/ WaitForCompiler(t) \/ WakeAtCompiler(t) \/ WaitForWorker(t) \/ WakeAtWorker(t)
           \/ WaitForSlot(t) \/ WakeAtSlot(t) \/ OrphanEnds(t)
  <2>1. UNCHANGED <<pc, result>>
    BY <1>2 DEF WaitForCompiler, WakeAtCompiler, WaitForWorker, WakeAtWorker,
                WaitForSlot, WakeAtSlot, OrphanEnds
  <2> QED
    BY <2>1
<1>3. CASE PrepareFails(t)
  BY <1>3, AllowedVerdicts DEF PrepareFails, Conclude, Verdict, Pending
<1>4. CASE WriteFails(t)
  <2>1. EnvFails /\ result'[t] = Verdict("CE", NoTask)
    BY <1>4 DEF WriteFails, Conclude, Finds
  <2>2. pc'[t] = "leaveCompiler" /\ result'[t] # Pending
    BY <1>4, <2>1 DEF WriteFails, Verdict, Pending
  <2> QED
    BY <2>1, <2>2, AllowedVerdicts
<1>5. CASE CompilerSucceeds(t)
  <2>1. t \in Compiles /\ result'[t] = Pending /\ pc'[t] = "leaveCompiler"
    BY <1>5 DEF CompilerSucceeds, Finds, FateInv, Undecided, Phases
  <2> QED
    BY <2>1
<1>6. CASE CompilerFails(t)
  <2>1. reading[t] = t /\ buildDir[SubmitId[t]].exists
    BY <1>6 DEF CompilerFails, Finds
  <2>2. \/ t \notin Compiles /\ result'[t] = Verdict("CE", t)
        \/ EnvFails /\ result'[t] = Verdict("CE", NoTask)
    BY <1>6, <1>a, <2>1 DEF CompilerFails, Conclude
  <2>3. pc'[t] = "leaveCompiler" /\ result'[t] # Pending
    BY <1>6, <2>2 DEF CompilerFails, Verdict, Pending
  <2> QED
    BY <2>2, <2>3, AllowedVerdicts
<1>7. CASE CompilerThrows(t)
  BY <1>7, AllowedVerdicts DEF CompilerThrows, Conclude, Verdict, Pending
<1>12. CASE CompilerOrphans(t)
  BY <1>12, AllowedVerdicts DEF CompilerOrphans, Conclude, Verdict, Pending
<1>8. CASE StageFails(t)
  <2>1. buildDir[SubmitId[t]].exists
    BY <1>8 DEF StageFails, Finds, BuiltAt, FateInv, Undecided, Phases, Holds
  <2> QED
    BY <1>8, <2>1, AllowedVerdicts DEF StageFails, Conclude, Verdict
<1>9. CASE RunCases(t)
  <2>1. Artifact(t, runDir[Place(t)]) = t
    BY <1>9 DEF RunCases, Finds, Artifact, Holds
  <2> QED
    <3>1. \/ result'[t] = Verdict("judged", t)
          \/ EnvFails /\ result'[t] = Verdict("SE", NoTask)
      BY <1>9, <1>a, <2>1 DEF RunCases, Conclude
    <3>2. pc'[t] = "tidy"
      BY <1>9 DEF RunCases
    <3> QED
      BY <3>1, <3>2, AllowedVerdicts
<1>10. CASE RunThrows(t)
  BY <1>10, AllowedVerdicts DEF RunThrows, Pool!Abandon, Conclude, Verdict
<1>11. CASE TidyRunDir(t) \/ ReleaseSlot(t) \/ LeaveWorker(t)
  BY <1>11 DEF TidyRunDir, ReleaseSlot, LeaveWorker
<1> QED
  BY <1>1, <1>2, <1>3, <1>4, <1>5, <1>6, <1>7, <1>8, <1>9, <1>10, <1>11, <1>12
  DEF Acts, Step, Wake

LEMMA StepJustInv ==
    ASSUME OwnTypeOK, Pool!TypeOK, Balanced, FateInv, OwnInv, JustInv, [Next]_vars
    PROVE  JustInv'
<1>1. CASE UNCHANGED vars
  BY <1>1 DEF vars, JustInv, Justified
<1>2. ASSUME NEW u \in Tasks, Acts(u), NEW t \in Tasks
      PROVE  Justified(t)'
  <2>1. CASE t = u
    BY <1>2, <2>1, ActorKeepsJustified DEF OwnInv, JustInv
  <2>2. CASE t # u
    BY <1>2, <2>2, Bystander DEF JustInv, Justified
  <2> QED
    BY <2>1, <2>2
<1> QED
  BY <1>1, <1>2, OneActs DEF JustInv

-----------------------------------------------------------------------------
\* The stages of the service that correspond to the phases of a thread.
LEMMA StageTable ==
    /\ StageOf("idle") = "new"
    /\ \A p \in {"checking", "arrived", "spj", "compile"} : StageOf(p) = "accepted"
    /\ \A p \in InCompiler : StageOf(p) = "compiling"
    /\ StageOf("run") = "built"
    /\ \A p \in InWorker : StageOf(p) = "running"
    /\ StageOf("cleanup") = "concluded"
    /\ StageOf("answered") = "answered"
BY DEF StageOf, InCompiler, InWorker, HasSlot

LEMMA Stages ==
    ASSUME OwnTypeOK, NEW t \in Tasks
    PROVE  /\ StageOf(pc[t]) = "compiling" <=> pc[t] \in InCompiler
           /\ StageOf(pc[t]) = "running" <=> pc[t] \in InWorker
BY StageTable DEF OwnTypeOK, Phases, InCompiler, InWorker, HasSlot

\* A thread that changes its phase takes its task from stage to stage.
LEMMA Moves ==
    ASSUME OwnTypeOK, NEW t \in Tasks, NEW phase, Goto(t, phase)
    PROVE  Service!Goes(t, StageOf(pc[t]), StageOf(phase))
<1>1. StageNow' = [u \in Tasks |-> StageOf(pc'[u])]
  BY DEF StageNow, StageOf
<1>2. \A u \in Tasks : pc'[u] = IF u = t THEN phase ELSE pc[u]
  BY DEF Goto, OwnTypeOK
<1>3. StageNow' = [StageNow EXCEPT ![t] = StageOf(phase)]
  BY <1>1, <1>2 DEF StageNow
<1>4. StageNow[t] = StageOf(pc[t])
  BY DEF StageNow
<1> QED
  BY <1>3, <1>4 DEF Service!Goes

\* A step within a stage is no step of the service.
LEMMA Stays ==
    ASSUME OwnTypeOK, NEW t \in Tasks, NEW phase, Goto(t, phase),
           StageOf(phase) = StageOf(pc[t])
    PROVE  UNCHANGED StageNow
BY Moves DEF Service!Goes, StageNow

Shown(p) == p \in {"cleanup", "answered"}

\* An answer becomes a verdict when its thread is done with both pools.
LEMMA VerdictKept ==
    ASSUME OwnTypeOK, NEW t \in Tasks,
           \A u \in Tasks \ {t} : pc'[u] = pc[u] /\ result'[u] = result[u],
           \/ ~Shown(pc[t]) /\ ~Shown(pc'[t])
           \/ (Shown(pc[t]) \/ result[t] = Pending) /\ Shown(pc'[t]) /\ result'[t] = result[t]
    PROVE  UNCHANGED VerdictNow
BY DEF VerdictNow, Shown, Pending, Verdict

LEMMA VerdictShown ==
    ASSUME OwnTypeOK, NEW t \in Tasks,
           \A u \in Tasks \ {t} : pc'[u] = pc[u] /\ result'[u] = result[u],
           Shown(pc'[t]), NEW verdicts, result'[t] \in verdicts
    PROVE  Service!Decides(t, verdicts)
<1>1. VerdictNow' = [VerdictNow EXCEPT ![t] = result'[t]]
  BY DEF VerdictNow, Shown, Pending, Verdict
<1> QED
  BY <1>1 DEF Service!Decides

\* The counters of the two pools count the tasks of the two busy stages.
LEMMA BusyCounted ==
    ASSUME OwnTypeOK, Balanced, PoolsInv
    PROVE  /\ Service!Cardinality(Service!In("compiling")) = compActive
           /\ Service!Cardinality(Service!In("running")) = workActive
<1>1. Service!In("compiling") = CompilersP!Inside
  BY Stages DEF Service!In, StageNow, CompilersP!Inside, Balanced
<1>2. compActive = CompilersP!Cardinality(CompilersP!Inside)
  BY DEF PoolsInv, CompilersP!IInv, CompilersP!ActiveCountExact
<1>3. Service!In("running") = WorkersP!Inside
  BY Stages DEF Service!In, StageNow, WorkersP!Inside, Balanced
<1>4. workActive = WorkersP!Cardinality(WorkersP!Inside)
  BY DEF PoolsInv, WorkersP!IInv, WorkersP!ActiveCountExact
<1> QED
  BY <1>1, <1>2, <1>3, <1>4
     DEF Service!Cardinality, CompilersP!Cardinality, WorkersP!Cardinality

ServiceInv == IInv /\ OwnInv /\ JustInv

LEMMA ServiceStep ==
    ASSUME ServiceInv, NEW t \in Tasks, Acts(t)
    PROVE  Service!Next \/ UNCHANGED <<StageNow, VerdictNow>>
<1>a. OwnTypeOK /\ Pool!TypeOK /\ Balanced /\ FateInv /\ PoolsInv /\ Finds(t) /\ Justified(t)
  BY PoolsTyped DEF ServiceInv, IInv, OwnInv, JustInv
<1>b. \A u \in Tasks \ {t} : pc'[u] = pc[u] /\ result'[u] = result[u]
  BY <1>a, Bystander
<1> USE DEF Shown
<1>1. CASE Submit(t)
  <2>1. /\ pc[t] = "idle" /\ Goto(t, "checking") /\ UNCHANGED result
        /\ ~Shown(pc[t]) /\ ~Shown(pc'[t])
    BY <1>1, <1>a DEF Submit, Goto, OwnTypeOK
  <2>2. Service!Goes(t, "new", "accepted")
    BY <1>a, <2>1, Moves, StageTable
  <2>3. UNCHANGED VerdictNow
    BY <1>a, <1>b, <2>1, VerdictKept
  <2> QED
    BY <2>2, <2>3 DEF Service!Accept, Service!Next
<1>2. CASE Refuse(t) \/ SpjFails(t)
  <2>1. /\ pc[t] \in {"checking", "spj"} /\ Goto(t, "answered") /\ pc'[t] = "answered"
        /\ \/ EnvFails /\ result'[t] = Verdict("SE", NoTask)
           \/ MayThrow /\ result'[t] = Verdict("threw", NoTask)
    BY <1>2, <1>a DEF Refuse, SpjFails, Goto, Conclude, OwnTypeOK
  <2>2. Service!Goes(t, "accepted", "answered")
    BY <1>a, <2>1, Moves, StageTable
  <2>3. result'[t] \in Service!Refusals
    BY <2>1, AllowedVerdicts
  <2>4. Service!Decides(t, Service!Refusals)
    BY <1>a, <1>b, <2>1, <2>3, VerdictShown
  <2> QED
    BY <2>2, <2>4 DEF Service!Refuse, Service!Next
<1>3. CASE EnterCompiler(t)
  <2>1. /\ pc[t] = "compile" /\ Goto(t, "prepare") /\ UNCHANGED result
        /\ ~Shown(pc[t]) /\ ~Shown(pc'[t]) /\ compActive < CompilerCount
    BY <1>3, <1>a DEF EnterCompiler, Compilers!Enter, Goto, OwnTypeOK
  <2>2. Service!Goes(t, "accepted", "compiling")
    BY <1>a, <2>1, Moves, StageTable DEF InCompiler
  <2>3. UNCHANGED VerdictNow
    BY <1>a, <1>b, <2>1, VerdictKept
  <2> QED
    BY <1>a, <2>1, <2>2, <2>3, BusyCounted DEF Service!StartCompiling, Service!Next
<1>4. CASE LeaveCompiler(t)
  <2>1. pc[t] = "leaveCompiler" /\ result'[t] = result[t]
    BY <1>4 DEF LeaveCompiler
  <2>2. CASE result[t] = Pending
    <3>1. Goto(t, "run") /\ t \in Compiles /\ ~Shown(pc[t]) /\ ~Shown(pc'[t])
      BY <1>4, <1>a, <2>1, <2>2 DEF LeaveCompiler, Justified, Goto, OwnTypeOK
    <3>2. Service!Goes(t, "compiling", "built")
      BY <1>a, <2>1, <3>1, Moves, StageTable DEF InCompiler
    <3>3. UNCHANGED VerdictNow
      BY <1>a, <1>b, <3>1, VerdictKept
    <3> QED
      BY <3>1, <3>2, <3>3 DEF Service!Compiled, Service!Next
  <2>3. CASE result[t] # Pending
    <3>1. Goto(t, "cleanup") /\ pc'[t] = "cleanup" /\ result'[t] \in Service!CompileVerdicts(t)
      BY <1>4, <1>a, <2>1, <2>3 DEF LeaveCompiler, Justified, Goto, OwnTypeOK
    <3>2. Service!Goes(t, "compiling", "concluded")
      BY <1>a, <2>1, <3>1, Moves, StageTable DEF InCompiler
    <3>3. Service!Decides(t, Service!CompileVerdicts(t))
      BY <1>a, <1>b, <3>1, VerdictShown
    <3> QED
      BY <3>2, <3>3 DEF Service!Compiled, Service!Next
  <2> QED
    BY <2>2, <2>3
<1>5. CASE EnterWorker(t)
  <2>1. /\ pc[t] = "run" /\ Goto(t, "acquire") /\ UNCHANGED result
        /\ ~Shown(pc[t]) /\ ~Shown(pc'[t]) /\ workActive < Capacity
    BY <1>5, <1>a DEF EnterWorker, Workers!Enter, Goto, OwnTypeOK
  <2>2. Service!Goes(t, "built", "running")
    BY <1>a, <2>1, Moves, StageTable DEF InWorker, HasSlot
  <2>3. UNCHANGED VerdictNow
    BY <1>a, <1>b, <2>1, VerdictKept
  <2> QED
    BY <1>a, <2>1, <2>2, <2>3, BusyCounted DEF Service!StartRunning, Service!Next
<1>6. CASE LeaveWorker(t)
  <2>1. /\ pc[t] = "leaveWorker" /\ Goto(t, "cleanup") /\ pc'[t] = "cleanup"
        /\ result'[t] \in Service!RunVerdicts(t)
    BY <1>6, <1>a DEF LeaveWorker, Goto, OwnTypeOK, Justified
  <2>2. Service!Goes(t, "running", "concluded")
    BY <1>a, <2>1, Moves, StageTable DEF InWorker, HasSlot
  <2>3. Service!Decides(t, Service!RunVerdicts(t))
    BY <1>a, <1>b, <2>1, VerdictShown
  <2> QED
    BY <2>2, <2>3 DEF Service!Ran, Service!Next
<1>7. CASE Answer(t)
  <2>1. /\ pc[t] = "cleanup" /\ Goto(t, "answered") /\ UNCHANGED result
        /\ Shown(pc[t]) /\ Shown(pc'[t])
    BY <1>7, <1>a DEF Answer, Goto, OwnTypeOK
  <2>2. Service!Goes(t, "concluded", "answered")
    BY <1>a, <2>1, Moves, StageTable
  <2>3. UNCHANGED VerdictNow
    BY <1>a, <1>b, <2>1, VerdictKept
  <2> QED
    BY <2>2, <2>3 DEF Service!Answer, Service!Next
<1>8. CASE \/ Accept(t) \/ LockSpj(t) \/ SpjReady(t)
           \/ PrepareBuildDir(t) \/ PrepareFails(t) \/ WriteSource(t) \/ WriteFails(t)
           \/ StartCompiler(t) \/ CompilerSucceeds(t) \/ CompilerFails(t) \/ CompilerThrows(t)
           \/ CompilerOrphans(t) \/ AcquireSlot(t) \/ Stage(t) \/ StageFails(t) \/ RunCases(t) \/ RunThrows(t)
           \/ TidyRunDir(t) \/ ReleaseSlot(t)
  <2>1. PICK phase \in Phases :
            /\ Goto(t, phase)
            /\ \/ pc[t] \in {"checking", "arrived", "spj"} /\ phase \in {"arrived", "spj", "compile"}
               \/ pc[t] \in InCompiler /\ phase \in InCompiler
               \/ pc[t] \in InWorker /\ phase \in InWorker
    BY <1>8 DEF Accept, LockSpj, SpjReady, PrepareBuildDir, PrepareFails, WriteSource,
                WriteFails, StartCompiler, CompilerSucceeds, CompilerFails, CompilerThrows,
                CompilerOrphans, AcquireSlot, Stage, StageFails, RunCases, RunThrows, TidyRunDir, ReleaseSlot,
                Phases, InCompiler, InWorker, HasSlot
  <2>2. StageOf(phase) = StageOf(pc[t])
    BY <2>1, StageTable
  <2>3. UNCHANGED StageNow
    BY <1>a, <2>1, <2>2, Stays
  <2>4. pc'[t] = phase
    BY <1>a, <2>1 DEF Goto, OwnTypeOK
  <2>5. ~Shown(pc[t]) /\ ~Shown(pc'[t])
    BY <2>1, <2>4 DEF InCompiler, InWorker, HasSlot
  <2>6. UNCHANGED VerdictNow
    BY <1>a, <1>b, <2>5, VerdictKept
  <2> QED
    BY <2>3, <2>6
<1>9. CASE \/ WaitForCompiler(t) \/ WakeAtCompiler(t) \/ WaitForWorker(t) \/ WakeAtWorker(t)
           \/ WaitForSlot(t) \/ WakeAtSlot(t) \/ OrphanEnds(t)
  <2>1. UNCHANGED <<pc, result>>
    BY <1>9 DEF WaitForCompiler, WakeAtCompiler, WaitForWorker, WakeAtWorker,
                WaitForSlot, WakeAtSlot, OrphanEnds
  <2> QED
    BY <2>1 DEF StageNow, StageOf, VerdictNow
<1> QED
  BY <1>1, <1>2, <1>3, <1>4, <1>5, <1>6, <1>7, <1>8, <1>9 DEF Acts, Step, Wake

\* As long as no id is in flight twice or submitted again after a compiler of it
\* has left its linker behind, submissions are compiled, run and
\* answered as if each were alone: whatever happens to the directories, slots
\* and locks they share, and however steps fail, every behaviour of the
\* manager is a behaviour of JudgeService.
THEOREM ImplementsService ==
    ASSUME InFlightTwins = FALSE, OrphansAlone
    PROVE  Spec => ServiceSpec
<1>1. Init => Service!Init
  <2> SUFFICES ASSUME Init PROVE Service!Init
    OBVIOUS
  <2>1. StageNow = [t \in Tasks |-> "new"]
    BY StageTable DEF Init, StageNow
  <2>2. VerdictNow = [t \in Tasks |-> Pending]
    BY DEF Init, VerdictNow
  <2> QED
    BY <2>1, <2>2, SameVerdicts DEF Service!Init
<1>2. Init => ServiceInv
  BY InitIInv, InitOwnInv, InitJustInv DEF ServiceInv
<1>3. ServiceInv /\ [Next]_vars => ServiceInv'
  <2> SUFFICES ASSUME ServiceInv, [Next]_vars PROVE ServiceInv'
    OBVIOUS
  <2>1. OwnTypeOK /\ Pool!TypeOK /\ Balanced /\ FateInv
    BY PoolsTyped DEF ServiceInv, IInv
  <2> QED
    BY <2>1, StepIInv, StepOwnInv, StepJustInv DEF ServiceInv
<1>4. ServiceInv /\ [Next]_vars => [Service!Next]_(Service!vars)
  <2> SUFFICES ASSUME ServiceInv, [Next]_vars PROVE [Service!Next]_(Service!vars)
    OBVIOUS
  <2>1. CASE UNCHANGED vars
    BY <2>1 DEF vars, Service!vars, StageNow, StageOf, VerdictNow
  <2>2. ASSUME NEW t \in Tasks, Acts(t) PROVE [Service!Next]_(Service!vars)
    BY <2>2, ServiceStep DEF Service!vars
  <2> QED
    BY <2>1, <2>2, OneActs
<1> QED
  BY <1>1, <1>2, <1>3, <1>4, PTL DEF Spec, ServiceSpec, Service!Spec

-----------------------------------------------------------------------------
(***************************************************************************)
(* What is known of the verdicts of JudgeService holds of the answers of   *)
(* the manager.                                                            *)
(***************************************************************************)
Deserved(t, verdict) ==
    \/ verdict = Verdict(IF t \in Compiles THEN "judged" ELSE "CE", t)
    \/ (EnvFails \/ MayThrow) /\ verdict.of = NoTask

DeservedAt(t) ==
    /\ StageNow[t] \in {"built", "running"} => t \in Compiles
    /\ StageNow[t] \in {"concluded", "answered"} => Deserved(t, VerdictNow[t])

DeservedInv == \A t \in Tasks : DeservedAt(t)

LEMMA VerdictsDeserved ==
    ASSUME NEW t \in Tasks
    PROVE  /\ \A v \in Service!Refusals : Deserved(t, v)
           /\ \A v \in Service!CompileVerdicts(t) : Deserved(t, v)
           /\ t \in Compiles => \A v \in Service!RunVerdicts(t) : Deserved(t, v)
<1>1. ASSUME NEW status, NEW v \in Service!Mishaps(status)
      PROVE  Deserved(t, v)
  BY <1>1, SameVerdicts DEF Service!Mishaps, Deserved, Verdict
<1> QED
  BY <1>1, SameVerdicts
     DEF Service!Refusals, Service!CompileVerdicts, Service!RunVerdicts, Deserved

LEMMA ServiceKeepsDeserved ==
    ASSUME DeservedInv, [Service!Next]_(Service!vars),
           StageNow = [t \in Tasks |-> StageNow[t]], VerdictNow = [t \in Tasks |-> VerdictNow[t]]
    PROVE  DeservedInv'
<1>1. CASE UNCHANGED Service!vars
  BY <1>1 DEF Service!vars, DeservedInv, DeservedAt
<1> SUFFICES ASSUME NEW t \in Tasks,
                    \/ Service!Accept(t) \/ Service!Refuse(t) \/ Service!StartCompiling(t)
                    \/ Service!Compiled(t) \/ Service!StartRunning(t) \/ Service!Ran(t)
                    \/ Service!Answer(t)
             PROVE  DeservedInv'
  BY <1>1 DEF Service!Next
<1> USE DEF DeservedInv, DeservedAt, Service!Goes, Service!Decides
<1>2. CASE Service!Accept(t) \/ Service!StartCompiling(t) \/ Service!StartRunning(t) \/ Service!Answer(t)
  BY <1>2 DEF Service!Accept, Service!StartCompiling, Service!StartRunning, Service!Answer
<1>3. CASE Service!Refuse(t)
  BY <1>3, VerdictsDeserved DEF Service!Refuse
<1>4. CASE Service!Compiled(t)
  BY <1>4, VerdictsDeserved DEF Service!Compiled
<1>5. CASE Service!Ran(t)
  BY <1>5, VerdictsDeserved DEF Service!Ran
<1> QED
  BY <1>2, <1>3, <1>4, <1>5

\* As long as no id is in flight twice or submitted again after a compiler of it
\* has left its linker behind, every answer speaks of the code of the
\* submission it answers and says of it what is true, or it speaks of no code
\* because something of the environment has failed; whatever earlier submissions
\* of the same id have left in the directories.
THEOREM VerdictsAreOwn ==
    ASSUME InFlightTwins = FALSE, OrphansAlone
    PROVE  Spec => []VerdictIsOwn
<1>1. Service!Init => DeservedInv
  BY DEF Service!Init, DeservedInv, DeservedAt
<1>2. DeservedInv /\ [Service!Next]_(Service!vars) => DeservedInv'
  BY ServiceKeepsDeserved DEF StageNow, VerdictNow
<1>3. DeservedInv => VerdictIsOwn
  BY StageTable DEF DeservedInv, DeservedAt, Deserved, StageNow, VerdictNow, VerdictIsOwn
<1> QED
  BY <1>1, <1>2, <1>3, ImplementsService, PTL DEF ServiceSpec, Service!Spec

-----------------------------------------------------------------------------
(***************************************************************************)
(* There is always a task that can go on.  Those who sleep at a pool are   *)
(* at its door, so what the pool's own invariant says of lost wake-ups     *)
(* leads to a thread that is inside or has been woken.                     *)
(***************************************************************************)
WaitersInv ==
    \A t \in Tasks : /\ compGate[t] \in {"blocked", "woken"} => pc[t] = "compile"
                     /\ workGate[t] \in {"blocked", "woken"} => pc[t] = "run"
                     /\ poolWait[t] # "none" => pc[t] = "acquire"

LEMMA InitWaitersInv == Init => WaitersInv
BY DEF Init, WaitersInv, Compilers!Init, Workers!Init, Pool!Init

\* Nobody falls asleep or is woken by a departure who was not asleep before.
LEMMA LeaveWakesSleepers ==
    ASSUME Compilers!TypeOK, Workers!TypeOK, NEW t \in Tasks, NEW u \in Tasks
    PROVE  /\ Compilers!Leave(t) /\ compGate'[u] \in {"blocked", "woken"} =>
                    compGate[u] \in {"blocked", "woken"}
           /\ Workers!Leave(t) /\ workGate'[u] \in {"blocked", "woken"} =>
                    workGate[u] \in {"blocked", "woken"}
<1>1. ASSUME Compilers!Leave(t), compGate'[u] \in {"blocked", "woken"}
      PROVE  compGate[u] \in {"blocked", "woken"}
  BY <1>1 DEF Compilers!TypeOK, Compilers!Leave, Compilers!NotifiedBy, Compilers!Blocked
<1>2. ASSUME Workers!Leave(t), workGate'[u] \in {"blocked", "woken"}
      PROVE  workGate[u] \in {"blocked", "woken"}
  BY <1>2 DEF Workers!TypeOK, Workers!Leave, Workers!NotifiedBy, Workers!Blocked
<1> QED
  BY <1>1, <1>2

LEMMA ReleaseWakesSleepers ==
    ASSUME Pool!TypeOK, NEW t \in Tasks, Pool!Release(t), NEW u \in Tasks, poolWait'[u] # "none"
    PROVE  poolWait[u] # "none"
BY DEF Pool!TypeOK, Pool!Release, Pool!Notified, Pool!Blocked

LEMMA StepWaitersInv ==
    ASSUME OwnTypeOK, Compilers!TypeOK, Workers!TypeOK, Pool!TypeOK, WaitersInv, [Next]_vars
    PROVE  WaitersInv'
<1>1. CASE UNCHANGED vars
  BY <1>1 DEF vars, compVars, workVars, poolVars, WaitersInv
<1> SUFFICES ASSUME NEW t \in Tasks, Acts(t) PROVE WaitersInv'
  BY <1>1, OneActs
<1> USE DEF WaitersInv, OwnTypeOK, Goto, compVars, workVars, poolVars
<1>2. CASE \/ Submit(t) \/ Refuse(t) \/ Accept(t) \/ LockSpj(t) \/ SpjReady(t) \/ SpjFails(t)
           \/ PrepareBuildDir(t) \/ PrepareFails(t) \/ WriteSource(t) \/ WriteFails(t)
           \/ StartCompiler(t) \/ CompilerSucceeds(t) \/ CompilerFails(t) \/ CompilerThrows(t)
           \/ CompilerOrphans(t)
           \/ Stage(t) \/ StageFails(t) \/ RunCases(t) \/ TidyRunDir(t) \/ Answer(t)
  <2>1. /\ pc[t] \notin {"compile", "run", "acquire"}
        /\ UNCHANGED <<compGate, workGate, poolWait>>
        /\ \E phase : Goto(t, phase)
    BY <1>2 DEF Submit, Refuse, Accept, LockSpj, SpjReady, SpjFails, PrepareBuildDir,
                PrepareFails, WriteSource, WriteFails, StartCompiler, CompilerSucceeds,
                CompilerFails, CompilerThrows, CompilerOrphans, Stage, StageFails, RunCases,
                TidyRunDir, Answer
  <2> QED
    BY <2>1
<1>3. CASE EnterCompiler(t)
  BY <1>3 DEF EnterCompiler, Compilers!Enter, Compilers!TypeOK
<1>4. CASE WaitForCompiler(t) \/ WakeAtCompiler(t)
  BY <1>4 DEF WaitForCompiler, WakeAtCompiler, Compilers!Block, Compilers!SpuriousWake,
              Compilers!TypeOK
<1>5. CASE LeaveCompiler(t)
  BY <1>5, LeaveWakesSleepers DEF LeaveCompiler
<1>6. CASE EnterWorker(t)
  BY <1>6 DEF EnterWorker, Workers!Enter, Workers!TypeOK
<1>7. CASE WaitForWorker(t) \/ WakeAtWorker(t)
  BY <1>7 DEF WaitForWorker, WakeAtWorker, Workers!Block, Workers!SpuriousWake,
              Workers!TypeOK
<1>8. CASE LeaveWorker(t)
  BY <1>8, LeaveWakesSleepers DEF LeaveWorker
<1>9. CASE AcquireSlot(t)
  BY <1>9 DEF AcquireSlot, Pool!Take, Pool!TypeOK
<1>10. CASE WaitForSlot(t) \/ WakeAtSlot(t)
  BY <1>10 DEF WaitForSlot, WakeAtSlot, Pool!Block, Pool!SpuriousWake, Pool!TypeOK
<1>11. CASE ReleaseSlot(t)
  BY <1>11, ReleaseWakesSleepers DEF ReleaseSlot
<1>12. CASE RunThrows(t)
  BY <1>12 DEF RunThrows, Pool!Abandon
<1>13. CASE OrphanEnds(t)
  BY <1>13 DEF OrphanEnds
<1> QED
  BY <1>2, <1>3, <1>4, <1>5, <1>6, <1>7, <1>8, <1>9, <1>10, <1>11, <1>12, <1>13 DEF Acts, Step, Wake

\* If somebody waits for the compilers, somebody is inside or can get in.
LEMMA CompilersServe ==
    ASSUME PoolsInv, Balanced, WaitersInv, CompilerCount # 0,
           NEW t \in Tasks, pc[t] = "compile"
    PROVE  \E u \in Tasks : pc[u] \in InCompiler \cup {"compile"} /\ ~Waits(u)
<1>1. Compilers!TypeOK /\ CompilerCount \in Nat
  BY PoolsTyped, TaskAssumption
<1>2. CASE compActive >= CompilerCount
  <2>1. CompilersP!Inside # {}
    <3> SUFFICES ASSUME CompilersP!Inside = {} PROVE FALSE
      OBVIOUS
    <3>1. CompilersP!Cardinality({}) = 0
      BY FS_EmptySet DEF CompilersP!Cardinality, Cardinality
    <3> QED
      BY <1>1, <1>2, <3>1 DEF PoolsInv, CompilersP!IInv, CompilersP!ActiveCountExact
  <2>2. PICK u \in Tasks : pc[u] \in InCompiler
    BY <2>1 DEF CompilersP!Inside, Balanced
  <2> QED
    BY <2>2 DEF Waits, InCompiler
<1>3. CASE compActive < CompilerCount /\ compGate[t] # "blocked"
  BY <1>1, <1>3 DEF Waits, Compilers!TypeOK
<1>4. CASE compActive < CompilerCount /\ compGate[t] = "blocked"
  <2>1. CompilersP!Woken # {}
    <3> SUFFICES ASSUME CompilersP!Woken = {} PROVE FALSE
      OBVIOUS
    <3>1. CompilersP!Cardinality({}) = 0
      BY FS_EmptySet DEF CompilersP!Cardinality, Cardinality
    <3>2. t \in CompilersP!Blocked
      BY <1>4 DEF CompilersP!Blocked
    <3>3. CompilerCount - compActive <= 0
      BY <3>1, <3>2 DEF PoolsInv, CompilersP!IInv, CompilersP!NoLostWakeup
    <3> QED
      BY <1>1, <1>4, <3>3 DEF Compilers!TypeOK
  <2>2. PICK u \in Tasks : compGate[u] = "woken"
    BY <2>1 DEF CompilersP!Woken
  <2>3. pc[u] = "compile"
    BY <2>2 DEF WaitersInv
  <2> QED
    BY <1>1, <1>4, <2>2, <2>3 DEF Waits, Compilers!TypeOK
<1> QED
  BY <1>1, <1>2, <1>3, <1>4 DEF Compilers!TypeOK

\* The same of the run pool; one who is inside may wait for a slot.
LEMMA WorkersServe ==
    ASSUME PoolsInv, Balanced, WaitersInv, Capacity # 0,
           NEW t \in Tasks, pc[t] = "run"
    PROVE  \E u \in Tasks : pc[u] \in InWorker \/ (pc[u] = "run" /\ ~Waits(u))
<1>1. Workers!TypeOK /\ Capacity \in Nat
  BY PoolsTyped, TaskAssumption
<1>2. CASE workActive >= Capacity
  <2>1. WorkersP!Inside # {}
    <3> SUFFICES ASSUME WorkersP!Inside = {} PROVE FALSE
      OBVIOUS
    <3>1. WorkersP!Cardinality({}) = 0
      BY FS_EmptySet DEF WorkersP!Cardinality, Cardinality
    <3> QED
      BY <1>1, <1>2, <3>1 DEF PoolsInv, WorkersP!IInv, WorkersP!ActiveCountExact
  <2> QED
    BY <2>1 DEF WorkersP!Inside, Balanced
<1>3. CASE workActive < Capacity /\ workGate[t] # "blocked"
  BY <1>1, <1>3 DEF Waits, Workers!TypeOK
<1>4. CASE workActive < Capacity /\ workGate[t] = "blocked"
  <2>1. WorkersP!Woken # {}
    <3> SUFFICES ASSUME WorkersP!Woken = {} PROVE FALSE
      OBVIOUS
    <3>1. WorkersP!Cardinality({}) = 0
      BY FS_EmptySet DEF WorkersP!Cardinality, Cardinality
    <3>2. t \in WorkersP!Blocked
      BY <1>4 DEF WorkersP!Blocked
    <3>3. Capacity - workActive <= 0
      BY <3>1, <3>2 DEF PoolsInv, WorkersP!IInv, WorkersP!NoLostWakeup
    <3> QED
      BY <1>1, <1>4, <3>3 DEF Workers!TypeOK
  <2>2. PICK u \in Tasks : workGate[u] = "woken"
    BY <2>1 DEF WorkersP!Woken
  <2>3. pc[u] = "run"
    BY <2>2 DEF WaitersInv
  <2> QED
    BY <1>1, <1>4, <2>2, <2>3 DEF Waits, Workers!TypeOK
<1> QED
  BY <1>1, <1>2, <1>3, <1>4 DEF Workers!TypeOK

\* If somebody waits for a slot, somebody has one or can take one, unless all
\* of them have leaked.
LEMMA SlotsServe ==
    ASSUME PoolsInv, Balanced, WaitersInv, SlotsAccounted, Cardinality(Leaked) # Capacity,
           NEW t \in Tasks, pc[t] = "acquire"
    PROVE  \E u \in Tasks : pc[u] \in InWorker /\ ~Waits(u)
<1>1. Pool!TypeOK /\ Capacity \in Nat
  BY PoolsTyped, TaskAssumption
<1>2. CASE Pool!Free = {}
  <2>1. Cardinality(Pool!Used) = Capacity
    <3>1. Pool!Used = 0 .. Capacity - 1
      BY <1>2 DEF Pool!Free, Pool!Used, Pool!Slots
    <3>2. Cardinality(0 .. Capacity - 1) =
              IF 0 > Capacity - 1 THEN 0 ELSE (Capacity - 1) - 0 + 1
      BY <1>1, FS_Interval
    <3> QED
      BY <1>1, <3>1, <3>2
  <2>2. Pool!Holders # {}
    BY <1>1, <2>1, CountsFinite, FS_EmptySet DEF SlotsAccounted
  <2>3. PICK u \in Tasks : pc[u] \in HasSlot
    BY <2>2 DEF Pool!Holders, Balanced
  <2> QED
    BY <2>3 DEF Waits, InWorker, HasSlot
<1>3. CASE Pool!Free # {} /\ poolWait[t] # "blocked"
  BY <1>3 DEF Waits, InWorker
<1>4. CASE Pool!Free # {} /\ poolWait[t] = "blocked"
  <2>1. PoolP!Woken # {}
    <3> SUFFICES ASSUME PoolP!Woken = {} PROVE FALSE
      OBVIOUS
    <3>1. PoolP!Cardinality({}) = 0 /\ PoolP!Cardinality(PoolP!Free) = Cardinality(Pool!Free)
      BY FS_EmptySet
         DEF PoolP!Cardinality, Cardinality, PoolP!Free, Pool!Free, PoolP!Used, Pool!Used,
             PoolP!Slots, Pool!Slots
    <3>2. t \in PoolP!Blocked
      BY <1>4 DEF PoolP!Blocked
    <3>3. Cardinality(Pool!Free) <= 0
      BY <3>1, <3>2 DEF PoolsInv, PoolP!IInv, PoolP!NoLostWakeup
    <3>4. IsFiniteSet(Pool!Free)
      <4>1. 0 \in Int /\ Capacity - 1 \in Int
        BY <1>1
      <4>2. IsFiniteSet(0 .. Capacity - 1)
        BY <4>1, FS_Interval
      <4> QED
        BY <4>2, FS_Subset DEF Pool!Free, Pool!Slots
    <3> QED
      BY <1>4, <3>3, <3>4, FS_EmptySet, FS_CardinalityType
  <2>2. PICK u \in Tasks : poolWait[u] = "woken"
    BY <2>1 DEF PoolP!Woken
  <2>3. pc[u] = "acquire"
    BY <2>2 DEF WaitersInv
  <2> QED
    BY <1>4, <2>2, <2>3 DEF Waits, InWorker
<1> QED
  BY <1>2, <1>3, <1>4

LEMMA SomeoneGoesOn ==
    ASSUME IInv, WaitersInv
    PROVE  NoStandstill
<1> SUFFICES ASSUME CompilerCount # 0, Cardinality(Leaked) # Capacity,
                    NEW t \in InFlight, Waits(t)
             PROVE  \E u \in InFlight : ~Waits(u)
  BY DEF NoStandstill
<1>1. PoolsInv /\ Balanced /\ SlotsAccounted
  BY DEF IInv
<1>2. InCompiler \cup InWorker \cup {"spj", "compile", "run"} \subseteq
            Phases \ {"idle", "answered"}
  BY DEF Phases, InCompiler, InWorker, HasSlot
<1>3. CASE pc[t] = "arrived"
  <2>1. spjMutex \in Tasks /\ pc[spjMutex] = "spj"
    BY <1>1, <1>3 DEF Waits, Balanced, IInv, OwnTypeOK
  <2> QED
    BY <2>1 DEF Waits, InFlight
<1>4. CASE pc[t] = "compile"
  BY <1>1, <1>2, <1>4, CompilersServe DEF InFlight
<1>5. ASSUME NEW u \in Tasks, pc[u] \in InWorker
      PROVE  \E v \in InFlight : ~Waits(v)
  <2>1. CASE pc[u] = "acquire"
    BY <1>1, <1>2, <2>1, SlotsServe DEF InFlight
  <2>2. CASE pc[u] # "acquire"
    BY <1>2, <1>5, <2>2 DEF Waits, InFlight, InWorker, HasSlot
  <2> QED
    BY <2>1, <2>2
<1>6. CASE pc[t] = "run"
  <2>1. Capacity # 0
    <3> SUFFICES ASSUME Capacity = 0 PROVE FALSE
      OBVIOUS
    <3>1. Cardinality(Pool!Used) = 0
      <4>1. Pool!Used = {}
        BY TaskAssumption DEF Pool!Used, Pool!Slots
      <4> QED
        BY <4>1, FS_EmptySet
    <3> QED
      BY <1>1, <3>1, CountsFinite DEF SlotsAccounted
  <2> QED
    BY <1>1, <1>2, <1>5, <1>6, <2>1, WorkersServe DEF InFlight
<1>7. CASE pc[t] = "acquire"
  BY <1>5, <1>7 DEF InWorker, InFlight
<1> QED
  BY <1>3, <1>4, <1>6, <1>7 DEF Waits

\* The threads never all wait for each other: whatever the pools, the mutex and
\* the slots are doing, one of the tasks in flight can go on, as long as there
\* are compilers and not every slot has been lost to an exception.  This is the
\* part of EveryTaskAnswered that does not need fairness.
THEOREM SomeoneAlwaysGoesOn == Spec => []NoStandstill
<1>1. IInv /\ WaitersInv /\ [Next]_vars => WaitersInv'
  BY StepWaitersInv, PoolsTyped DEF IInv
<1>2. IInv /\ WaitersInv => NoStandstill
  BY SomeoneGoesOn
<1> QED
  BY InitWaitersInv, ManagerInvariant, <1>1, <1>2, PTL DEF Spec

-----------------------------------------------------------------------------
\* The two worker pools of a running manager are the counting semaphores
\* that the design document (3.2) describes, and so is the pool of slots, from
\* which exceptions may take slots away but never add any.
THEOREM PoolsAreSemaphores ==
    Spec => CompilersP!SemaphoreSpec /\ WorkersP!SemaphoreSpec /\ PoolP!SemaphoreSpec
<1>1. Init => CompilersP!Init /\ WorkersP!Init /\ PoolP!Init
  BY DEF Init, Compilers!Init, Workers!Init, Pool!Init,
         CompilersP!Init, WorkersP!Init, PoolP!Init, Pool!Slots, PoolP!Slots
<1>2. CompilersP!Spec => CompilersP!SemaphoreSpec
  BY CompilersP!ImplementsSemaphore, PoolAssumptionsHold
     DEF CompilersP!GateAssumption, CompilersP!IsFiniteSet, IsFiniteSet
<1>3. WorkersP!Spec => WorkersP!SemaphoreSpec
  BY WorkersP!ImplementsSemaphore, PoolAssumptionsHold
     DEF WorkersP!GateAssumption, WorkersP!IsFiniteSet, IsFiniteSet
<1>4. PoolP!Spec => PoolP!SemaphoreSpec
  BY PoolP!ImplementsSemaphore, PoolAssumptionsHold
     DEF PoolP!PoolAssumption, PoolP!Slots, PoolP!IsFiniteSet, IsFiniteSet
<1> QED
  BY <1>1, <1>2, <1>3, <1>4, CompilersStep, WorkersStep, PoolStep, PTL
     DEF Spec, CompilersP!Spec, WorkersP!Spec, PoolP!Spec

-----------------------------------------------------------------------------
\* The phases in the order in which a thread goes through them.
Rank == [idle |-> 0, checking |-> 1, arrived |-> 2, spj |-> 3, compile |-> 4, prepare |-> 5,
         source |-> 6, start |-> 7, compiling |-> 8, leaveCompiler |-> 9, run |-> 10,
         acquire |-> 11, stage |-> 12, cases |-> 13, tidy |-> 14, release |-> 15,
         leaveWorker |-> 16, cleanup |-> 17, answered |-> 18]

Advances(t) == pc'[t] = pc[t] \/ Rank[pc'[t]] > Rank[pc[t]]

OnlyForward == [][\A t \in Tasks : Advances(t) /\ (result[t] # Pending => result'[t] = result[t])]_vars

\* No failure or exception sends a thread back to an earlier phase, and a verdict
\* that has been reached stays as it is.  A task therefore changes its phase at most
\* 18 times, and SomeoneAlwaysGoesOn says when there is one that can.
THEOREM TasksOnlyAdvance == Spec => OnlyForward
<1>1. IInv /\ [Next]_vars =>
        [\A t \in Tasks : Advances(t) /\ (result[t] # Pending => result'[t] = result[t])]_vars
  <2> SUFFICES ASSUME IInv, [Next]_vars, NEW t \in Tasks
               PROVE  Advances(t) /\ (result[t] # Pending => result'[t] = result[t])
    OBVIOUS
  <2>a. OwnTypeOK /\ Pool!TypeOK /\ FateInv
    BY PoolsTyped DEF IInv
  <2>1. CASE UNCHANGED vars
    BY <2>1 DEF vars, Advances
  <2>2. ASSUME NEW u \in Tasks, Acts(u), u # t
        PROVE  Advances(t)
    BY <2>2, <2>a, Bystander DEF Advances
  <2>3. ASSUME Acts(t)
        PROVE  Advances(t)
    <3> USE DEF Advances, Rank, Goto, OwnTypeOK
    <3>1. CASE \/ Submit(t) \/ Refuse(t) \/ Accept(t) \/ LockSpj(t) \/ SpjReady(t) \/ SpjFails(t)
      BY <3>1, <2>a DEF Submit, Refuse, Accept, LockSpj, SpjReady, SpjFails
    <3>2. CASE EnterCompiler(t) \/ PrepareBuildDir(t) \/ PrepareFails(t) \/ WriteSource(t)
      BY <3>2, <2>a DEF EnterCompiler, PrepareBuildDir, PrepareFails, WriteSource
    <3>3. CASE \/ WriteFails(t) \/ StartCompiler(t) \/ CompilerSucceeds(t) \/ CompilerFails(t)
               \/ CompilerThrows(t) \/ CompilerOrphans(t)
      BY <3>3, <2>a DEF WriteFails, StartCompiler, CompilerSucceeds, CompilerFails, CompilerThrows,
                        CompilerOrphans
    <3>4. CASE LeaveCompiler(t)
      BY <3>4, <2>a DEF LeaveCompiler
    <3>5. CASE EnterWorker(t) \/ AcquireSlot(t) \/ RunCases(t)
      BY <3>5, <2>a DEF EnterWorker, AcquireSlot, RunCases
    <3>8. CASE Stage(t) \/ StageFails(t)
      <4>1. pc[t] = "stage" /\ (Goto(t, "cases") \/ Goto(t, "release"))
        BY <3>8, Zenon DEF Stage, StageFails
      <4> QED
        BY <4>1, <2>a
    <3>6. CASE \/ RunThrows(t) \/ TidyRunDir(t) \/ ReleaseSlot(t) \/ LeaveWorker(t) \/ Answer(t)
      BY <3>6, <2>a DEF RunThrows, TidyRunDir, ReleaseSlot, LeaveWorker, Answer
    <3>7. CASE \/ WaitForCompiler(t) \/ WakeAtCompiler(t) \/ WaitForWorker(t) \/ WakeAtWorker(t)
               \/ WaitForSlot(t) \/ WakeAtSlot(t) \/ OrphanEnds(t)
      BY <3>7 DEF WaitForCompiler, WakeAtCompiler, WaitForWorker, WakeAtWorker,
                  WaitForSlot, WakeAtSlot, OrphanEnds
    <3> QED
      BY <2>3, <3>1, <3>2, <3>3, <3>4, <3>5, <3>6, <3>7, <3>8 DEF Acts, Step, Wake
  <2> QED
    BY <2>a, <2>1, <2>2, <2>3, OneActs, AnswersFinal
<1> QED
  BY <1>1, ManagerInvariant, PTL DEF Spec, OnlyForward
=============================================================================
