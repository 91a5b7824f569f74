------------------------ MODULE ProcessRunnerProofs ------------------------
(***************************************************************************)
(* Proofs about ProcessRunner, for any limits and whatever may fail.       *)
(***************************************************************************)
EXTENDS ProcessRunner, TLAPS

AfterWait == {"classifying", "cleaning", "removing", "flushing"}
AfterClassify == {"cleaning", "removing", "flushing"}

\* Where the child is, as far as the parent's place tells.
PlaceInv ==
    /\ parent = "forking" => child = "none"
    /\ child = "none" => parent \in {"forking", "returned"}
    /\ parent \in AfterWait => child \in {"reaped", "gone"}
    /\ parent = "returned" => child \in {"none", "reaped", "gone"}
    /\ child = "reaped" => parent \in AfterWait \cup {"returned"}

\* What the parent knows of the end of the child.
KnownInv ==
    /\ exit.signal # 0 => exit.exitCode = -1
    /\ parent \notin AfterClassify \cup {"returned"} =>
        result.exitCode = -1 /\ result.signal = 0
    /\ child = "reaped" => status = exit
    /\ child = "reaped" /\ parent \in AfterClassify \cup {"returned"} =>
        /\ result.exitCode = exit.exitCode
        /\ result.signal = exit.signal
        /\ result.overMemory = exit.overMemory

\* A timeout is reported for a reason, and a late child is reported.
TimeInv ==
    /\ result.timedOut => result.wallTime > TimeLimit /\ now > TimeLimit
                          /\ parent \in {"killing"} \cup AfterWait \cup {"returned"}
    /\ why = "late" => result.timedOut

\* An exit code 0 is the program's own, and a child of which wait4 knows nothing
\* is never taken for one that has exited with 0.
ZeroInv ==
    /\ child \in {"zombie", "reaped", "gone"} /\ exit.exitCode = 0 => why = "program"
    /\ parent = "killing" => result.timedOut
    /\ child = "none" => result.exitCode = -1
    /\ child = "gone" /\ parent \in AfterWait => result.timedOut
    /\ child = "gone" /\ parent = "returned" => result.timedOut \/ result.exitCode = -1

IInv == TypeOK /\ PlaceInv /\ KnownInv /\ TimeInv /\ ZeroInv

\* An ending that wait4 reports is an exit or a signal.
Proper(ending) == ending.signal # 0 \/ ending.exitCode # -1

\* Every ending is proper, and so is a result once it has been filled in.
SeenInv ==
    /\ Proper(exit) /\ Proper(status)
    /\ result.signal # 0 => result.exitCode = -1
    /\ parent \in AfterClassify \/ result.overMemory => Proper(result)
    /\ parent = "returned" /\ result.timedOut => Proper(result)

\* Whoever has been left behind in a cgroup is dead when the call returns, unless
\* cleanupCgroup was not reached or its kill was not written, and a cgroup that
\* could be removed was empty.
GroupInv ==
    /\ child = "none" => offspring = "none"
    /\ group = "removed" => /\ parent \in {"flushing", "returned"}
                            /\ offspring # "running"
    /\ killFile # "untried" => parent \in {"removing", "flushing", "returned"}
    /\ parent \in {"removing", "flushing"} => killFile \in {"open", "shut"}
    /\ parent = "returned" /\ group = "joined" /\ offspring = "running" =>
            \/ child = "gone" /\ killFile = "untried"
            \/ killFile \in {"shut", "refused"}

FullInv == IInv /\ SeenInv /\ GroupInv

Endings == [exitCode : {-1, 0, 1} \cup SetupCodes,
            signal : {0, SIGKILL, SIGSEGV, SIGXCPU},
            overMemory : BOOLEAN, oomText : BOOLEAN]

-----------------------------------------------------------------------------
LEMMA EndingsTyped ==
    /\ \A over, oom \in BOOLEAN :
        /\ \A code \in {0, 1, 247} : Ending(code, 0, over, oom) \in Endings
        /\ \A sig \in {SIGKILL, SIGSEGV, SIGXCPU} : Ending(-1, sig, over, oom) \in Endings
    /\ \A step \in Setup : Ending(SetupCode[step], 0, FALSE, FALSE) \in Endings
    /\ Nothing \in Endings
<1>1. 247 \in SetupCodes
  BY DEF SetupCodes, SetupCode
<1>2. \A step \in Setup : SetupCode[step] \in SetupCodes
  BY DEF SetupCodes, Setup
<1> QED
  BY <1>1, <1>2 DEF Ending, Endings, Nothing

LEMMA EndingFields ==
    ASSUME NEW code, NEW sig, NEW over, NEW oom
    PROVE  /\ Ending(code, sig, over, oom).exitCode = code
           /\ Ending(code, sig, over, oom).signal = sig
BY DEF Ending

LEMMA InitIInv == Init => IInv
<1> SUFFICES ASSUME Init PROVE IInv
  OBVIOUS
<1>1. result \in ProcessRunResults(MaxTime)
  BY RunnerAssumption DEF Init, ProcessRunResults
<1>2. TypeOK
  BY <1>1, EndingsTyped, RunnerAssumption DEF Init, TypeOK, Endings
<1> QED
  BY <1>2 DEF Init, IInv, PlaceInv, KnownInv, TimeInv, ZeroInv, AfterWait, AfterClassify,
              Nothing, Ending

\* How a child can end.
LEMMA ChildEnds ==
    ASSUME SetupFails \/ ProgramEnds \/ ProgramCrashes \/ KernelKills
    PROVE  /\ child \in Setup \cup {"running"} /\ child' = "zombie"
           /\ exit' \in Endings /\ (exit'.signal # 0 => exit'.exitCode = -1)
           /\ Proper(exit')
           /\ why' \in {"setup", "program", "limit"}
           /\ exit'.exitCode = 0 => why' = "program"
           /\ UNCHANGED <<now, parent, status, result, offspring, killFile>>
           /\ group' \in {group, "none", "empty", "joined"}
<1> USE DEF Proper
<1>1. CASE SetupFails
  <2>1. /\ child \in Setup /\ child' = "zombie" /\ why' = "setup"
        /\ exit' = Ending(SetupCode[child], 0, FALSE, FALSE)
        /\ UNCHANGED <<now, parent, status, result, offspring, killFile>>
        /\ group' \in {group, "none", "empty", "joined"}
    BY <1>1 DEF SetupFails, Ends
  <2>2. Ending(SetupCode[child], 0, FALSE, FALSE) \in Endings
    BY <2>1, EndingsTyped
  <2>3. exit' \in Endings /\ exit'.signal = 0 /\ exit'.exitCode = SetupCode[child]
    BY <2>1, <2>2 DEF Ending
  <2>4. SetupCode[child] \notin {0, -1}
    BY <2>1 DEF Setup, SetupCode
  <2> QED
    BY <2>1, <2>3, <2>4
<1>2. CASE ProgramEnds
  <2>1. PICK code \in {0, 1, 247}, over \in BOOLEAN, oom \in BOOLEAN :
            Ends(Ending(code, 0, over, oom), "program")
    BY <1>2 DEF ProgramEnds
  <2> QED
    BY <1>2, <2>1, EndingsTyped, EndingFields DEF ProgramEnds, Ends
<1>3. CASE ProgramCrashes
  <2>1. PICK over \in BOOLEAN, oom \in BOOLEAN :
            Ends(Ending(-1, SIGSEGV, over, oom), "program")
    BY <1>3 DEF ProgramCrashes
  <2> QED
    BY <1>3, <2>1, EndingsTyped, EndingFields DEF ProgramCrashes, Ends, SIGSEGV
<1>4. CASE KernelKills
  <2>1. PICK sig \in {SIGKILL, SIGXCPU}, over \in BOOLEAN :
            Ends(Ending(-1, sig, over, FALSE), "limit")
    BY <1>4 DEF KernelKills
  <2>2. exit' = Ending(-1, sig, over, FALSE)
    BY <2>1 DEF Ends
  <2>3. exit' \in Endings /\ exit'.exitCode = -1 /\ exit'.signal # 0
    BY <2>2 DEF Ending, Endings, SIGKILL, SIGXCPU
  <2>4. exit'.exitCode # 0
    BY <2>3
  <2> QED
    BY <1>4, <2>1, <2>3, <2>4 DEF KernelKills, Ends
<1> QED
  BY <1>1, <1>2, <1>3, <1>4

\* What the parent's look at the clock does.
LEMMA ClockChecked ==
    ASSUME TypeOK, PlaceInv, KnownInv, CheckClock
    PROVE  /\ parent = "checking" /\ parent' \in {"polling", "killing"}
           /\ result' \in ProcessRunResults(MaxTime)
           /\ result'.exitCode = result.exitCode /\ result'.signal = result.signal
           /\ result'.timedOut = (now > TimeLimit) /\ result'.wallTime = now
           /\ parent' = "killing" <=> now > TimeLimit
           /\ UNCHANGED <<now, status, offspring, group, killFile>>
           /\ \/ UNCHANGED childVars
              \/ /\ parent' = "killing" /\ why' = "late" /\ child' = "zombie"
                 /\ child \notin {"none", "zombie", "reaped", "gone"}
                 /\ exit' \in Endings /\ exit'.exitCode = -1 /\ exit'.signal # 0
<1>1. now \in 0 .. MaxTime /\ (now > TimeLimit) \in BOOLEAN
  BY DEF TypeOK
<1>2. result' \in ProcessRunResults(MaxTime)
  BY <1>1 DEF CheckClock, TypeOK, ProcessRunResults
<1>3. /\ result'.exitCode = result.exitCode /\ result'.signal = result.signal
      /\ result'.timedOut = (now > TimeLimit) /\ result'.wallTime = now
  BY DEF CheckClock, TypeOK, ProcessRunResults
<1>4. /\ parent = "checking" /\ parent' \in {"polling", "killing"}
      /\ parent' = "killing" <=> now > TimeLimit
      /\ UNCHANGED <<now, status, offspring, group, killFile>>
  BY DEF CheckClock
<1>5. ASSUME ~UNCHANGED childVars
      PROVE  /\ parent' = "killing" /\ why' = "late" /\ child' = "zombie"
             /\ child \notin {"none", "zombie", "reaped", "gone"}
             /\ exit' \in Endings /\ exit'.exitCode = -1 /\ exit'.signal # 0
  <2>1. now > TimeLimit /\ child \notin {"none", "zombie", "reaped", "gone"}
    BY <1>5 DEF CheckClock, PlaceInv, AfterWait
  <2>2. PICK over \in BOOLEAN, oom \in BOOLEAN :
            Ends(Ending(-1, SIGKILL, over, oom), "late")
    BY <1>5, <2>1 DEF CheckClock
  <2> QED
    BY <2>1, <2>2, <1>4, EndingsTyped, EndingFields DEF Ends, SIGKILL
<1> QED
  BY <1>2, <1>3, <1>4, <1>5

LEMMA Classified ==
    ASSUME TypeOK, KnownInv, Classify
    PROVE  /\ result' \in ProcessRunResults(MaxTime)
           /\ result'.timedOut = result.timedOut /\ result'.wallTime = now
           /\ result'.signal = status.signal
           /\ result'.overMemory = status.overMemory
           /\ result'.exitCode = IF status.signal = 0 THEN status.exitCode
                                 ELSE result.exitCode
BY RunnerAssumption DEF Classify, TypeOK, ProcessRunResults

LEMMA StepTypeOK == IInv /\ [Next]_vars => TypeOK'
<1> SUFFICES ASSUME TypeOK, PlaceInv, KnownInv, [Next]_vars PROVE TypeOK'
  BY DEF IInv
<1> USE DEF TypeOK
<1>1. CASE SetupFails \/ ProgramEnds \/ ProgramCrashes \/ KernelKills
  BY <1>1, ChildEnds DEF Endings
<1>2. CASE SetupStep
  <2>1. child' \in Setup \cup {"running"}
    BY <1>2 DEF SetupStep, Setup, After, SetupCode
  <2> QED
    BY <1>2, <2>1 DEF SetupStep
<1>3. CASE CheckClock
  BY <1>3, ClockChecked DEF Endings, childVars
<1>4. CASE Classify
  BY <1>4, Classified DEF Classify, childVars
<1>5. CASE Fork
  BY <1>5 DEF Fork, Setup, SetupCode
<1>6. CASE ForkFails
  BY <1>6 DEF ForkFails
<1>7. CASE Poll
  BY <1>7 DEF Poll, PollReaps, PollFindsAlive, PollFindsNothing
<1>8. CASE ReapKilled
  BY <1>8 DEF ReapKilled
<1>9. CASE Cleanup \/ RemoveGroup \/ FlushKill
  BY <1>9 DEF Cleanup, RemoveGroup, FlushKill, KillWritten, KillNotWritten, childVars
<1>10. CASE ProgramSpawns \/ OffspringEnds \/ HostReapsChild
  BY <1>10 DEF ProgramSpawns, OffspringEnds, HostReapsChild, childVars
<1>11. CASE Tick
  BY <1>11, RunnerAssumption DEF Tick, childVars
<1>12. CASE UNCHANGED vars
  BY <1>12 DEF vars, childVars
<1> QED
  BY <1>1, <1>2, <1>3, <1>4, <1>5, <1>6, <1>7, <1>8, <1>9, <1>10, <1>11, <1>12
     DEF Next, ParentStep, ChildStep, Returned

LEMMA StepPlaceInv == IInv /\ [Next]_vars => PlaceInv'
<1> SUFFICES ASSUME TypeOK, PlaceInv, KnownInv, [Next]_vars PROVE PlaceInv'
  BY DEF IInv
<1> USE DEF PlaceInv, AfterWait
<1>1. CASE SetupFails \/ ProgramEnds \/ ProgramCrashes \/ KernelKills
  BY <1>1, ChildEnds DEF Setup, SetupCode
<1>2. CASE SetupStep
  BY <1>2 DEF SetupStep, Setup, After, SetupCode
<1>3. CASE CheckClock
  BY <1>3, ClockChecked DEF childVars
<1>4. CASE Classify \/ ReapKilled
  BY <1>4 DEF Classify, ReapKilled, childVars
<1>5. CASE Fork \/ ForkFails
  BY <1>5 DEF Fork, ForkFails
<1>6. CASE Poll
  BY <1>6 DEF Poll, PollReaps, PollFindsAlive, PollFindsNothing
<1>7. CASE Cleanup \/ RemoveGroup \/ FlushKill
  BY <1>7 DEF Cleanup, RemoveGroup, FlushKill, KillWritten, KillNotWritten, childVars
<1>8. CASE ProgramSpawns \/ OffspringEnds \/ HostReapsChild \/ Tick
  BY <1>8 DEF ProgramSpawns, OffspringEnds, HostReapsChild, Tick, childVars
<1>9. CASE UNCHANGED vars
  BY <1>9 DEF vars, childVars
<1> QED
  BY <1>1, <1>2, <1>3, <1>4, <1>5, <1>6, <1>7, <1>8, <1>9
     DEF Next, ParentStep, ChildStep, Returned

LEMMA StepKnownInv == IInv /\ [Next]_vars => KnownInv'
<1> SUFFICES ASSUME TypeOK, PlaceInv, KnownInv, [Next]_vars PROVE KnownInv'
  BY DEF IInv
<1> USE DEF KnownInv, AfterWait, AfterClassify
<1>1. CASE SetupFails \/ ProgramEnds \/ ProgramCrashes \/ KernelKills
  BY <1>1, ChildEnds
<1>2. CASE SetupStep
  BY <1>2 DEF SetupStep, Setup, After, SetupCode
<1>3. CASE CheckClock
  BY <1>3, ClockChecked DEF PlaceInv, childVars
<1>4. CASE Classify
  <2>1. /\ parent = "classifying" /\ parent' = "cleaning"
        /\ UNCHANGED <<child, exit, status>>
    BY <1>4 DEF Classify, childVars
  <2>2. result.exitCode = -1
    BY <2>1
  <2> QED
    BY <1>4, <2>1, <2>2, Classified
<1>5. CASE ReapKilled
  BY <1>5 DEF ReapKilled, PlaceInv
<1>6. CASE Fork \/ ForkFails
  BY <1>6 DEF Fork, ForkFails, PlaceInv
<1>7. CASE Poll
  BY <1>7 DEF Poll, PollReaps, PollFindsAlive, PollFindsNothing, PlaceInv
<1>8. CASE Cleanup \/ RemoveGroup \/ FlushKill
  BY <1>8 DEF Cleanup, RemoveGroup, FlushKill, KillWritten, KillNotWritten, childVars
<1>9. CASE ProgramSpawns \/ OffspringEnds \/ HostReapsChild \/ Tick
  BY <1>9 DEF ProgramSpawns, OffspringEnds, HostReapsChild, Tick, childVars
<1>10. CASE UNCHANGED vars
  BY <1>10 DEF vars, childVars
<1> QED
  BY <1>1, <1>2, <1>3, <1>4, <1>5, <1>6, <1>7, <1>8, <1>9, <1>10
     DEF Next, ParentStep, ChildStep, Returned

LEMMA StepTimeInv == IInv /\ [Next]_vars => TimeInv'
<1> SUFFICES ASSUME TypeOK, PlaceInv, KnownInv, TimeInv, [Next]_vars PROVE TimeInv'
  BY DEF IInv
<1> USE DEF TimeInv, AfterWait
<1>1. CASE SetupFails \/ ProgramEnds \/ ProgramCrashes \/ KernelKills
  BY <1>1, ChildEnds
<1>2. CASE SetupStep
  BY <1>2 DEF SetupStep
<1>3. CASE CheckClock
  BY <1>3, ClockChecked DEF childVars
<1>4. CASE Classify
  BY <1>4, Classified DEF Classify, childVars
<1>5. CASE ReapKilled
  BY <1>5 DEF ReapKilled
<1>6. CASE Fork \/ ForkFails
  BY <1>6 DEF Fork, ForkFails
<1>7. CASE Poll
  BY <1>7 DEF Poll, PollReaps, PollFindsAlive, PollFindsNothing
<1>8. CASE Cleanup \/ RemoveGroup \/ FlushKill
  BY <1>8 DEF Cleanup, RemoveGroup, FlushKill, KillWritten, KillNotWritten, childVars
<1>9. CASE ProgramSpawns \/ OffspringEnds \/ HostReapsChild
  BY <1>9 DEF ProgramSpawns, OffspringEnds, HostReapsChild, childVars
<1>10. CASE Tick
  BY <1>10, RunnerAssumption DEF Tick, childVars, TypeOK
<1>11. CASE UNCHANGED vars
  BY <1>11 DEF vars, childVars
<1> QED
  BY <1>1, <1>2, <1>3, <1>4, <1>5, <1>6, <1>7, <1>8, <1>9, <1>10, <1>11
     DEF Next, ParentStep, ChildStep, Returned

LEMMA StepZeroInv == IInv /\ [Next]_vars => ZeroInv'
<1> SUFFICES ASSUME TypeOK, PlaceInv, KnownInv, TimeInv, ZeroInv, [Next]_vars
             PROVE  ZeroInv'
  BY DEF IInv
<1> USE DEF ZeroInv, AfterWait
<1>1. CASE SetupFails \/ ProgramEnds \/ ProgramCrashes \/ KernelKills
  BY <1>1, ChildEnds
<1>2. CASE SetupStep
  BY <1>2 DEF SetupStep, Setup, After, SetupCode
<1>3. CASE CheckClock
  <2>1. parent' = "killing" => result'.timedOut
    BY <1>3, ClockChecked
  <2>2. parent = "checking" /\ parent' \notin AfterWait \cup {"returned"}
    BY <1>3, ClockChecked
  <2>3. result'.exitCode = result.exitCode
    BY <1>3, ClockChecked
  <2>4. child' \in {"zombie", "reaped", "gone"} /\ exit'.exitCode = 0 => why' = "program"
    <3>1. CASE UNCHANGED childVars
      BY <3>1 DEF childVars
    <3>2. CASE exit'.exitCode = -1
      BY <3>2
    <3> QED
      BY <1>3, <3>1, <3>2, ClockChecked
  <2>5. child' = "none" => child = "none"
    BY <1>3, ClockChecked DEF childVars
  <2> QED
    BY <2>1, <2>2, <2>3, <2>4, <2>5
<1>4. CASE Classify
  BY <1>4, Classified DEF Classify, childVars, PlaceInv
<1>5. CASE ReapKilled
  BY <1>5 DEF ReapKilled
<1>6. CASE Fork \/ ForkFails
  BY <1>6 DEF Fork, ForkFails, KnownInv, AfterClassify, PlaceInv
<1>7. CASE Poll
  BY <1>7 DEF Poll, PollReaps, PollFindsAlive, PollFindsNothing, KnownInv,
              AfterClassify, PlaceInv
<1>8. CASE Cleanup \/ RemoveGroup \/ FlushKill
  BY <1>8 DEF Cleanup, RemoveGroup, FlushKill, KillWritten, KillNotWritten, childVars
<1>9. CASE ProgramSpawns \/ OffspringEnds \/ Tick
  BY <1>9 DEF ProgramSpawns, OffspringEnds, Tick, childVars
<1>10. CASE HostReapsChild
  BY <1>10 DEF HostReapsChild, PlaceInv
<1>11. CASE UNCHANGED vars
  BY <1>11 DEF vars, childVars
<1> QED
  BY <1>1, <1>2, <1>3, <1>4, <1>5, <1>6, <1>7, <1>8, <1>9, <1>10, <1>11
     DEF Next, ParentStep, ChildStep, Returned

LEMMA StepSeenInv == IInv /\ SeenInv /\ [Next]_vars => SeenInv'
<1> SUFFICES ASSUME TypeOK, PlaceInv, KnownInv, TimeInv, SeenInv, [Next]_vars
             PROVE  SeenInv'
  BY DEF IInv
<1> USE DEF SeenInv, Proper, AfterWait, AfterClassify
<1>1. CASE SetupFails \/ ProgramEnds \/ ProgramCrashes \/ KernelKills
  BY <1>1, ChildEnds
<1>2. CASE SetupStep
  BY <1>2 DEF SetupStep
<1>3. CASE CheckClock
  <2>1. result'.overMemory = result.overMemory
    BY <1>3 DEF CheckClock, TypeOK, ProcessRunResults
  <2>2. Proper(exit')
    BY <1>3, ClockChecked DEF childVars
  <2> QED
    BY <1>3, <2>1, <2>2, ClockChecked
<1>4. CASE Classify
  <2>1. /\ parent = "classifying" /\ parent' = "cleaning"
        /\ UNCHANGED <<exit, status>> /\ result.exitCode = -1
    BY <1>4 DEF Classify, childVars, KnownInv
  <2> QED
    BY <1>4, <2>1, Classified
<1>5. CASE ReapKilled
  BY <1>5 DEF ReapKilled
<1>6. CASE Fork \/ ForkFails
  BY <1>6 DEF Fork, ForkFails, TimeInv
<1>7. CASE Poll
  BY <1>7 DEF Poll, PollReaps, PollFindsAlive, PollFindsNothing, TimeInv
<1>8. CASE Cleanup \/ RemoveGroup \/ FlushKill
  BY <1>8 DEF Cleanup, RemoveGroup, FlushKill, KillWritten, KillNotWritten, childVars
<1>9. CASE ProgramSpawns \/ OffspringEnds \/ HostReapsChild \/ Tick
  BY <1>9 DEF ProgramSpawns, OffspringEnds, HostReapsChild, Tick, childVars
<1>10. CASE UNCHANGED vars
  BY <1>10 DEF vars, childVars
<1> QED
  BY <1>1, <1>2, <1>3, <1>4, <1>5, <1>6, <1>7, <1>8, <1>9, <1>10
     DEF Next, ParentStep, ChildStep, Returned

LEMMA StepGroupInv == IInv /\ GroupInv /\ [Next]_vars => GroupInv'
<1> SUFFICES ASSUME TypeOK, PlaceInv, KnownInv, GroupInv, [Next]_vars PROVE GroupInv'
  BY DEF IInv
<1> USE DEF GroupInv, PlaceInv, AfterWait
<1>1. CASE SetupFails \/ ProgramEnds \/ ProgramCrashes \/ KernelKills
  <2>1. child \notin {"none", "reaped", "gone"}
    BY <1>1, ChildEnds DEF Setup, SetupCode
  <2>2. group # "removed" /\ parent # "returned" /\ child' = "zombie"
    BY <1>1, <2>1, ChildEnds
  <2> QED
    BY <1>1, <2>2, ChildEnds
<1>2. CASE SetupStep
  <2>1. child \notin {"none", "reaped", "gone"} /\ child' # "none"
    BY <1>2 DEF SetupStep, Setup, After, SetupCode
  <2>2. group # "removed" /\ parent # "returned"
    BY <2>1
  <2> QED
    BY <1>2, <2>1, <2>2 DEF SetupStep
<1>3. CASE CheckClock
  <2>1. child' = "none" => child = "none"
    BY <1>3, ClockChecked DEF childVars
  <2> QED
    BY <1>3, <2>1, ClockChecked
<1>4. CASE Classify \/ ReapKilled
  BY <1>4 DEF Classify, ReapKilled, childVars
<1>5. CASE Fork \/ ForkFails
  BY <1>5 DEF Fork, ForkFails
<1>6. CASE Poll
  BY <1>6 DEF Poll, PollReaps, PollFindsAlive, PollFindsNothing
<1>7. CASE Cleanup \/ RemoveGroup \/ FlushKill
  BY <1>7 DEF Cleanup, RemoveGroup, FlushKill, KillWritten, KillNotWritten, childVars, TypeOK
<1>8. CASE ProgramSpawns \/ OffspringEnds
  BY <1>8 DEF ProgramSpawns, OffspringEnds, childVars
<1>9. CASE HostReapsChild \/ Tick
  BY <1>9 DEF HostReapsChild, Tick, childVars
<1>10. CASE UNCHANGED vars
  BY <1>10 DEF vars, childVars
<1> QED
  BY <1>1, <1>2, <1>3, <1>4, <1>5, <1>6, <1>7, <1>8, <1>9, <1>10
     DEF Next, ParentStep, ChildStep, Returned

-----------------------------------------------------------------------------
\* The inductive invariant: where the child is, what the parent knows of its
\* end, why a timeout is reported, whose an exit code 0 is, what a result can look
\* like, and what is left in the cgroup.
THEOREM RunnerInvariant == Spec => []FullInv
<1>1. Init => FullInv
  <2>1. Init => SeenInv /\ GroupInv
    BY DEF Init, SeenInv, GroupInv, Proper, Nothing, Ending, AfterClassify
  <2> QED
    BY <2>1, InitIInv DEF FullInv
<1>2. FullInv /\ [Next]_vars => FullInv'
  <2>1. IInv /\ [Next]_vars => IInv'
    BY StepTypeOK, StepPlaceInv, StepKnownInv, StepTimeInv, StepZeroInv DEF IInv
  <2> QED
    BY <2>1, StepSeenInv, StepGroupInv DEF FullInv
<1> QED
  BY <1>1, <1>2, PTL DEF Spec

\* The variables of a runProcessCommand call keep their types.
THEOREM TypeCorrect == Spec => []TypeOK
<1>1. FullInv => TypeOK
  BY DEF FullInv, IInv
<1> QED
  BY RunnerInvariant, <1>1, PTL

\* runProcessCommand returns only when its child has been reaped (or was never
\* forked), on every path: a normal end, a kill after the timeout, a failed poll.
THEOREM ChildIsReaped == Spec => []ChildReaped
<1>1. FullInv => ChildReaped
  BY DEF FullInv, IInv, PlaceInv, ChildReaped
<1> QED
  BY RunnerInvariant, <1>1, PTL

\* The result tells how the child ended: exit code and signal are those the
\* kernel recorded, and a timeout is reported only when the limit has passed and
\* always when the parent has killed the child.  A late end that the next poll sees
\* first is reported without a timeout.
THEOREM ResultsAreHonest == Spec => []ResultIsHonest
<1>1. FullInv => ResultIsHonest
  BY DEF FullInv, IInv, KnownInv, TimeInv, ResultIsHonest
<1> QED
  BY RunnerInvariant, <1>1, PTL

\* A run that detectCaseStatus accepts has run and exited with code 0, whatever
\* fails on the way and whoever reaps the child.
THEOREM AcceptedRunsEnded == Spec => []AcceptedRanToItsEnd
<1>1. FullInv => AcceptedRanToItsEnd
  <2> SUFFICES ASSUME FullInv, parent = "returned", DetectCaseStatus(result) = "AC"
               PROVE  why = "program" /\ exit.exitCode = 0
    BY DEF AcceptedRanToItsEnd
  <2>1. result.exitCode = 0 /\ ~result.timedOut
    BY DEF DetectCaseStatus
  <2>2. child = "reaped"
    BY <2>1 DEF FullInv, IInv, PlaceInv, ZeroInv
  <2> QED
    BY <2>1, <2>2 DEF FullInv, IInv, KnownInv, ZeroInv
<1> QED
  BY RunnerInvariant, <1>1, PTL

\* What has joined the cgroup of a run outlives the call only where wait4 has found
\* no child, cgroup.kill could not be opened or its late write was refused.
THEOREM NothingSurvives == Spec => []NoSurvivors
<1>1. FullInv => NoSurvivors
  BY DEF FullInv, GroupInv, NoSurvivors
<1> QED
  BY RunnerInvariant, <1>1, PTL

\* What SandboxRuntime is checked with is all that a call returns, for any limits.
THEOREM ResultsAreObservations == Spec => []ObservationsCovered
<1>1. FullInv => ObservationsCovered
  <2> SUFFICES ASSUME FullInv, parent = "returned"
               PROVE  result \in Observations(TimeLimit, MaxTime)
    BY DEF ObservationsCovered
  <2>1. result \in ProcessRunResults(MaxTime)
    BY DEF FullInv, IInv, TypeOK
  <2> QED
    BY <2>1 DEF FullInv, IInv, SeenInv, TimeInv, Proper, Observations
<1> QED
  BY RunnerInvariant, <1>1, PTL
=============================================================================
