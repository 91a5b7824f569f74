--------------------------- MODULE SpjCacheProofs ---------------------------
(***************************************************************************)
(* Theorems about SpjCache, for any number of threads and edits.           *)
(*                                                                         *)
(* That a judge can run although it runs outside the mutex rests on the    *)
(* time stamps: unless the source is dated ahead of the clock, a thread    *)
(* leaves the section with a whole executable that is not older than the   *)
(* source, and while nobody edits that, no later one has a reason to build *)
(* again.  With no linker lost, only the thread inside has a compiler.     *)
(* That the judge is the source's rests on versions: whatever is not older *)
(* than the source comes from it, unless time stamps could mislead.        *)
(***************************************************************************)
EXTENDS SpjCache, TLAPS

Active == {Reading, "linking", "writing"}

\* A compiler runs for the thread in the section, or has been lost.
JobInv ==
    /\ \A t \in Threads : job[t].stage \in Active => pc[t] = "building" \/ t \in lost
    /\ \A t \in Threads : pc[t] \in {"arrived", "exists", "stat", "compare"} =>
                            job[t].stage = "none"

\* With no linker lost, a file is partial only while the section's linker
\* writes it, and whole when that compiler has ended well.
FileInv ==
    lost = {} =>
        /\ exe.state = "partial" =>
                \E t \in Threads : pc[t] = "building" /\ job[t].stage = "writing"
        /\ \A t \in Threads : job[t].stage = "writing" => exe.state = "partial" /\ exe.by = t
        /\ \A t \in Threads : pc[t] = "building" /\ job[t].stage = "done" =>
                exe.state = "whole" /\ (t \in calm /\ ~early => exe.time >= src.time)

\* What a thread knows about the time stamps while the source is not edited.
StampInv ==
    /\ \A t \in calm : pc[t] = "compare" /\ src.ver # 0 => srcTime[t] = src.time
    /\ \A t \in calm, u \in Threads : pc[t] = "judging" /\ pc[u] \in Section => u \in calm

\* The executable can run and nobody has a reason to replace it.
Fresh == exe.state = "whole" /\ exe.time >= src.time

CalmInv ==
    /\ \A t \in Threads : pc[t] # "answered" => judged[t] = -1
    /\ lost = {} /\ ~early => \A t \in calm : pc[t] = "confirm" /\ src.ver # 0 => Fresh
    /\ lost = {} /\ ~early => \A t \in calm : pc[t] = "judging" /\ hasSpj[t] =>
            /\ src.ver # 0 /\ Fresh
            /\ \A u \in Threads : pc[u] # "building"

\* Whose version a file has: a compiler at work and an executable that is not
\* older than the source are the source's, unless the author was unlucky.  Every version of the source is a new one.
VersionInv ==
    /\ exe.time <= now
    /\ exe.state # "absent" => exe.ver # 0
    /\ src.ver <= edits + 1
    /\ \A t \in Threads : job[t].stage \in {"linking", "writing", "done"} =>
            job[t].ver # 0 /\ job[t].ver <= edits + 1
    /\ \A t \in Threads : job[t].stage = "writing" /\ exe.by = t => exe.ver = job[t].ver
    /\ ~unlucky /\ src.ver # 0 =>
            \A t \in Threads : job[t].stage \in {"linking", "writing"} => job[t].ver = src.ver
    /\ ~unlucky => (exe.state # "absent" /\ src.ver # 0 /\ exe.time >= src.time => exe.ver = src.ver)

\* Thread t has the executable for good, or is about to, unless it still builds.
Trusts(t) ==
    \/ pc[t] \in {"confirm", "judging"}
    \/ pc[t] = "building" /\ job[t].stage \in {"writing", "done"}
    \/ pc[t] = "compare" /\ exe.time >= srcTime[t]

\* What a thread trusts comes from a source it has seen, whoever writes it, and a
\* thread that has decided how to judge has seen the reason for it.
SeenInv ==
    \A t \in Threads : pc[t] \notin {"arrived", "answered"} =>
        /\ src.ver \in seen[t]
        /\ pc[t] = "judging" => IF hasSpj[t] THEN seen[t] # {0} ELSE 0 \in seen[t]
        /\ Trusts(t) /\ ~unlucky /\ 0 \notin seen[t] /\ exe.state # "absent" =>
                exe.ver \in seen[t]

\* With no linker lost, a source that has been compiled has its executable, no
\* compiler is at work for it, and no thread is about to find it stale.
OnceInv ==
    lost = {} /\ ~early => \A t \in Threads : job[t].stage = "done" =>
        /\ job[t].ver = src.ver =>
            /\ exe.state # "absent" /\ exe.time >= src.time
            /\ \A u \in Threads : job[u].stage \notin Active
            /\ \A u \in Threads : pc[u] = "compare" => srcTime[u] = src.time
        /\ \A u \in Threads :
                job[u].stage \in {"linking", "writing", "done"} /\ job[u].ver = job[t].ver => u = t

CacheInv ==
    /\ TypeOK /\ JobInv /\ FileInv /\ StampInv /\ CalmInv /\ JudgeRuns
    /\ VersionInv /\ SeenInv /\ OnceInv /\ JudgeIsCurrent

-----------------------------------------------------------------------------
\* Steps keep every variable in its type and the mutex with the thread in the section.
LEMMA StepTypeOK == TypeOK /\ [Next]_vars => TypeOK'
<1> SUFFICES ASSUME TypeOK, [Next]_vars PROVE TypeOK'
  OBVIOUS
<1> USE CacheAssumption DEF TypeOK, Section, Versions, Reading
<1>1. ASSUME NEW t \in Threads, Lock(t) PROVE TypeOK'
  BY <1>1 DEF Lock, Goto, fileVars, threadVars, historyVars
<1>2. ASSUME NEW t \in Threads, LookForSource(t) PROVE TypeOK'
  BY <1>2 DEF LookForSource, Goto, fileVars, threadVars, historyVars
<1>3. ASSUME NEW t \in Threads, MakeDirFails(t) PROVE TypeOK'
  BY <1>3 DEF MakeDirFails, Goto, fileVars, threadVars, historyVars
<1>4. ASSUME NEW t \in Threads, StatSource(t) PROVE TypeOK'
  <2>1. srcTime' \in [Threads -> {-1} \cup Times]
    BY <1>4 DEF StatSource
  <2>2. job' = job \/ job' = [job EXCEPT ![t].stage = Reading]
    BY <1>4 DEF StatSource, StartCompiler, Stage
  <2>3. job' \in [Threads -> [stage : {"none", Reading, "linking", "writing", "done", "failed"},
                               ver : Versions]]
    BY <2>2
  <2>4. \E p \in {"building", "compare"} : pc' = [pc EXCEPT ![t] = p]
    BY <1>4 DEF StatSource, StartCompiler, Goto
  <2>5. pc[t] = "stat" /\ mutex' = mutex
    BY <1>4 DEF StatSource
  <2>6. \A u \in Threads : mutex' = u <=> pc'[u] \in Section
    BY <2>4, <2>5
  <2> QED
    BY <1>4, <2>1, <2>3, <2>4, <2>6 DEF StatSource, fileVars, historyVars
<1>5. ASSUME NEW t \in Threads, Compare(t) PROVE TypeOK'
  <2>1. job' = job \/ job' = [job EXCEPT ![t].stage = Reading]
    BY <1>5 DEF Compare, StartCompiler, Stage
  <2>2. job' \in [Threads -> [stage : {"none", Reading, "linking", "writing", "done", "failed"},
                               ver : Versions]]
    BY <2>1
  <2>3. \E p \in {"building", "confirm"} : pc' = [pc EXCEPT ![t] = p]
    BY <1>5 DEF Compare, StartCompiler, Goto
  <2>4. pc[t] = "compare" /\ mutex' = mutex
    BY <1>5 DEF Compare
  <2>5. \A u \in Threads : mutex' = u <=> pc'[u] \in Section
    BY <2>3, <2>4
  <2> QED
    BY <1>5, <2>2, <2>3, <2>5 DEF Compare, fileVars, historyVars
<1>6. ASSUME NEW t \in Threads, BuildEnds(t) PROVE TypeOK'
  BY <1>6 DEF BuildEnds, Goto, fileVars, threadVars, historyVars
<1>7. ASSUME NEW t \in Threads, Timeout(t) PROVE TypeOK'
  BY <1>7 DEF Timeout, Goto, Stage, fileVars, threadVars, historyVars
<1>8. ASSUME NEW t \in Threads, Fail(t) PROVE TypeOK'
  BY <1>8 DEF Fail, Goto, fileVars, threadVars, historyVars
<1>9. ASSUME NEW t \in Threads, Confirm(t) PROVE TypeOK'
  BY <1>9 DEF Confirm, Goto, fileVars, threadVars, historyVars
<1>10. ASSUME NEW t \in Threads, Judge(t) PROVE TypeOK'
  BY <1>10 DEF Judge, Goto, fileVars, threadVars, historyVars
<1>11. ASSUME NEW t \in Threads, Compile(t) PROVE TypeOK'
  <2>1. \/ job' = [job EXCEPT ![t] = [stage |-> "linking", ver |-> src.ver]]
        \/ job' = [job EXCEPT ![t].stage = "failed"]
    BY <1>11 DEF Compile, Stage
  <2>2. job' \in [Threads -> [stage : {"none", Reading, "linking", "writing", "done", "failed"},
                               ver : Versions]]
    BY <2>1
  <2> QED
    BY <1>11, <2>2 DEF Compile, fileVars, threadVars, historyVars
<1>12. ASSUME NEW t \in Threads, LinkStarts(t) PROVE TypeOK'
  BY <1>12 DEF LinkStarts, Stage, fileVars, threadVars, historyVars
<1>13. ASSUME NEW t \in Threads, LinkEnds(t) PROVE TypeOK'
  <2>1. job' = [job EXCEPT ![t].stage = "done"]
    BY <1>13 DEF LinkEnds, Stage
  <2>2. job' \in [Threads -> [stage : {"none", Reading, "linking", "writing", "done", "failed"},
                               ver : Versions]]
    BY <2>1
  <2>3. exe' = exe \/ exe' = [exe EXCEPT !.state = "whole", !.time = now]
    BY <1>13 DEF LinkEnds
  <2>4. exe' \in [state : {"absent", "partial", "whole"}, by : Threads \cup {NoThread},
                  ver : Versions, time : 0 .. MaxTime]
    BY <2>3
  <2> QED
    BY <1>13, <2>2, <2>4 DEF LinkEnds, threadVars, historyVars
<1>14. ASSUME NEW t \in Threads, LinkerDies(t) PROVE TypeOK'
  BY <1>14 DEF LinkerDies, Stage, NoFile, fileVars, threadVars, historyVars
<1>15. ASSUME Replace PROVE TypeOK'
  <2>1. PICK time \in Times : Edit(edits + 2, time)
    BY <1>15 DEF Replace
  <2>2. edits' \in 0 .. MaxEdits /\ edits + 2 \in Versions
    BY <2>1 DEF Edit
  <2>3. src' = [ver |-> edits + 2, time |-> time]
    BY <2>1 DEF Edit
  <2>4. src' \in [ver : Versions, time : Times]
    BY <2>2, <2>3
  <2>5. unlucky' \in BOOLEAN /\ calm' \subseteq Threads /\ seen' \in [Threads -> SUBSET Versions]
    BY <1>15, <2>1, <2>2 DEF Replace, Edit
  <2> QED
    BY <2>1, <2>2, <2>4, <2>5 DEF Edit, threadVars
<1>16. ASSUME Remove PROVE TypeOK'
  BY <1>16 DEF Times, Remove, Edit, fileVars, threadVars, historyVars
<1>17. ASSUME Tick PROVE TypeOK'
  BY <1>17 DEF Tick, fileVars, threadVars, historyVars
<1>18. ASSUME Finished PROVE TypeOK'
  BY <1>18 DEF Finished, vars, fileVars, threadVars, historyVars
<1>19. CASE UNCHANGED vars
  BY <1>19 DEF vars, fileVars, threadVars, historyVars
<1> QED
  BY <1>1, <1>2, <1>3, <1>4, <1>5, <1>6, <1>7, <1>8, <1>9, <1>10, <1>11, <1>12, <1>13, <1>14, <1>15, <1>16, <1>17, <1>18, <1>19 DEF Next, Act

\* A compiler is started from the section and outlives it only when it is lost.
LEMMA StepJobInv == TypeOK /\ JobInv /\ [Next]_vars => JobInv'
<1> SUFFICES ASSUME TypeOK, JobInv, [Next]_vars PROVE JobInv'
  OBVIOUS
<1> USE DEF TypeOK, JobInv, Active, Section, Reading
<1>1. ASSUME NEW t \in Threads, Lock(t) PROVE JobInv'
  BY <1>1 DEF Lock, Goto, fileVars, threadVars, historyVars
<1>2. ASSUME NEW t \in Threads, LookForSource(t) PROVE JobInv'
  BY <1>2 DEF LookForSource, Goto, fileVars, threadVars, historyVars
<1>3. ASSUME NEW t \in Threads, MakeDirFails(t) PROVE JobInv'
  BY <1>3 DEF MakeDirFails, Goto, fileVars, threadVars, historyVars
<1>4. ASSUME NEW t \in Threads, StatSource(t) PROVE JobInv'
  BY <1>4 DEF StatSource, StartCompiler, Goto, Stage, fileVars, threadVars, historyVars
<1>5. ASSUME NEW t \in Threads, Compare(t) PROVE JobInv'
  BY <1>5 DEF Compare, UpToDate, StartCompiler, Goto, Stage, fileVars, threadVars, historyVars
<1>6. ASSUME NEW t \in Threads, BuildEnds(t) PROVE JobInv'
  BY <1>6 DEF BuildEnds, Goto, fileVars, threadVars, historyVars
<1>7. ASSUME NEW t \in Threads, Timeout(t) PROVE JobInv'
  BY <1>7 DEF Timeout, Goto, Stage, fileVars, threadVars, historyVars
<1>8. ASSUME NEW t \in Threads, Fail(t) PROVE JobInv'
  BY <1>8 DEF Fail, Goto, fileVars, threadVars, historyVars
<1>9. ASSUME NEW t \in Threads, Confirm(t) PROVE JobInv'
  BY <1>9 DEF Confirm, Goto, fileVars, threadVars, historyVars
<1>10. ASSUME NEW t \in Threads, Judge(t) PROVE JobInv'
  BY <1>10 DEF Judge, Goto, fileVars, threadVars, historyVars
<1>11. ASSUME NEW t \in Threads, Compile(t) PROVE JobInv'
  BY <1>11 DEF Compile, Stage, fileVars, threadVars, historyVars
<1>12. ASSUME NEW t \in Threads, LinkStarts(t) PROVE JobInv'
  BY <1>12 DEF LinkStarts, Stage, fileVars, threadVars, historyVars
<1>13. ASSUME NEW t \in Threads, LinkEnds(t) PROVE JobInv'
  BY <1>13 DEF LinkEnds, Stage, fileVars, threadVars, historyVars
<1>14. ASSUME NEW t \in Threads, LinkerDies(t) PROVE JobInv'
  BY <1>14 DEF LinkerDies, Stage, NoFile, fileVars, threadVars, historyVars
<1>15. ASSUME Replace PROVE JobInv'
  BY <1>15 DEF Replace, Edit, fileVars, threadVars, historyVars
<1>16. ASSUME Remove PROVE JobInv'
  BY <1>16 DEF Remove, Edit, fileVars, threadVars, historyVars
<1>17. ASSUME Tick PROVE JobInv'
  BY <1>17 DEF Tick, fileVars, threadVars, historyVars
<1>18. ASSUME Finished PROVE JobInv'
  BY <1>18 DEF Finished, vars, fileVars, threadVars, historyVars
<1>19. CASE UNCHANGED vars
  BY <1>19 DEF vars, fileVars, threadVars, historyVars
<1> QED
  BY <1>1, <1>2, <1>3, <1>4, <1>5, <1>6, <1>7, <1>8, <1>9, <1>10, <1>11, <1>12, <1>13, <1>14, <1>15, <1>16, <1>17, <1>18, <1>19 DEF Next, Act

\* Only the linker of the section touches the executable.
LEMMA StepFileInv == TypeOK /\ JobInv /\ FileInv /\ StampInv /\ [Next]_vars => FileInv'
<1> SUFFICES ASSUME TypeOK, JobInv, FileInv, StampInv, [Next]_vars PROVE FileInv'
  OBVIOUS
<1> USE DEF TypeOK, JobInv, FileInv, StampInv, Active, Section, Reading
<1>1. ASSUME NEW t \in Threads, Lock(t) PROVE FileInv'
  BY <1>1 DEF Lock, Goto, fileVars, threadVars, historyVars
<1>2. ASSUME NEW t \in Threads, LookForSource(t) PROVE FileInv'
  BY <1>2 DEF LookForSource, Goto, fileVars, threadVars, historyVars
<1>3. ASSUME NEW t \in Threads, MakeDirFails(t) PROVE FileInv'
  BY <1>3 DEF MakeDirFails, Goto, fileVars, threadVars, historyVars
<1>4. ASSUME NEW t \in Threads, StatSource(t) PROVE FileInv'
  BY <1>4 DEF StatSource, StartCompiler, Goto, Stage, fileVars, threadVars, historyVars
<1>5. ASSUME NEW t \in Threads, Compare(t) PROVE FileInv'
  <2>1. pc[t] \in Section /\ \A u \in Threads : pc[u] = "building" => u = t
    BY <1>5 DEF Compare
  <2>2. lost = {} => exe.state # "partial" /\ \A u \in Threads : job[u].stage # "writing"
    BY <1>5, <2>1 DEF Compare
  <2>3. \A u \in Threads : job'[u].stage # "writing" \/ lost # {}
    BY <1>5, <2>2 DEF Compare, StartCompiler, Stage
  <2>4. \A u \in Threads : pc'[u] = "building" => job'[u].stage # "done"
    BY <1>5, <2>1 DEF Compare, StartCompiler, Stage, Goto
  <2> QED
    BY <1>5, <2>2, <2>3, <2>4 DEF Compare, fileVars, historyVars
<1>6. ASSUME NEW t \in Threads, BuildEnds(t) PROVE FileInv'
  <2>1. pc[t] \in Section /\ \A u \in Threads : pc[u] = "building" => u = t
    BY <1>6 DEF BuildEnds
  <2>2. lost = {} => exe.state # "partial" /\ \A u \in Threads : job[u].stage # "writing"
    BY <1>6, <2>1 DEF BuildEnds
  <2>3. \A u \in Threads : pc'[u] # "building"
    BY <1>6, <2>1 DEF BuildEnds, Goto
  <2> QED
    BY <1>6, <2>2, <2>3 DEF BuildEnds, fileVars, historyVars
<1>7. ASSUME NEW t \in Threads, Timeout(t) PROVE FileInv'
  <2>1. pc[t] \in Section /\ \A u \in Threads : pc[u] = "building" => u = t
    BY <1>7 DEF Timeout
  <2>2. CASE lost' # {}
    BY <2>2
  <2>3. CASE lost' = {}
    <3>1. lost = {} /\ job[t].stage = Reading /\ job' = [job EXCEPT ![t].stage = "failed"]
      BY <1>7, <2>3 DEF Timeout, Stage
    <3>2. exe.state # "partial" /\ \A u \in Threads : job[u].stage # "writing"
      BY <2>1, <3>1
    <3>3. \A u \in Threads : pc'[u] # "building" /\ job'[u].stage # "writing"
      BY <1>7, <2>1, <3>1, <3>2 DEF Timeout, Goto
    <3> QED
      BY <1>7, <3>2, <3>3 DEF Timeout, fileVars
  <2> QED
    BY <2>2, <2>3
<1>8. ASSUME NEW t \in Threads, Fail(t) PROVE FileInv'
  BY <1>8 DEF Fail, Goto, fileVars, threadVars, historyVars
<1>9. ASSUME NEW t \in Threads, Confirm(t) PROVE FileInv'
  BY <1>9 DEF Confirm, Goto, fileVars, threadVars, historyVars
<1>10. ASSUME NEW t \in Threads, Judge(t) PROVE FileInv'
  BY <1>10 DEF Judge, Goto, fileVars, threadVars, historyVars
<1>11. ASSUME NEW t \in Threads, Compile(t) PROVE FileInv'
  BY <1>11 DEF Compile, Stage, fileVars, threadVars, historyVars
<1>12. ASSUME NEW t \in Threads, LinkStarts(t) PROVE FileInv'
  BY <1>12 DEF LinkStarts, Stage, fileVars, threadVars, historyVars
<1>13. ASSUME NEW t \in Threads, LinkEnds(t) PROVE FileInv'
  <2>1. UNCHANGED <<src, lost, pc, calm>> /\ (early' <=> early \/ src.time > now)
    BY <1>13 DEF LinkEnds, threadVars
  <2>2. /\ job[t].stage = "writing" /\ job'[t].stage = "done"
        /\ \A u \in Threads : u # t => job'[u] = job[u]
    BY <1>13 DEF LinkEnds, Stage
  <2> SUFFICES ASSUME lost = {} PROVE FileInv'
    BY <2>1
  <2>3. pc[t] = "building" /\ exe.by = t
    BY <2>2
  <2>4. \A u \in Threads : pc[u] = "building" => u = t
    BY <2>3
  <2>5. \A u \in Threads : job'[u].stage # "writing"
    BY <2>2, <2>4
  <2>6. exe'.state = "whole" /\ exe'.time = now
    BY <1>13, <2>3 DEF LinkEnds
  <2>7. ~early' => exe'.time >= src'.time
    <3>1. now \in Int /\ src.time \in Int
      BY DEF Times
    <3> QED
      BY <2>1, <2>6, <3>1
  <2> QED
    BY <2>1, <2>4, <2>5, <2>6, <2>7
<1>14. ASSUME NEW t \in Threads, LinkerDies(t) PROVE FileInv'
  BY <1>14 DEF LinkerDies, Stage, NoFile, fileVars, threadVars, historyVars
<1>15. ASSUME Replace PROVE FileInv'
  BY <1>15 DEF Replace, Edit, fileVars, threadVars, historyVars
<1>16. ASSUME Remove PROVE FileInv'
  BY <1>16 DEF Remove, Edit, fileVars, threadVars, historyVars
<1>17. ASSUME Tick PROVE FileInv'
  BY <1>17 DEF Tick, fileVars, threadVars, historyVars
<1>18. ASSUME Finished PROVE FileInv'
  BY <1>18 DEF Finished, vars, fileVars, threadVars, historyVars
<1>19. CASE UNCHANGED vars
  BY <1>19 DEF vars, fileVars, threadVars, historyVars
<1> QED
  BY <1>1, <1>2, <1>3, <1>4, <1>5, <1>6, <1>7, <1>8, <1>9, <1>10, <1>11, <1>12, <1>13, <1>14, <1>15, <1>16, <1>17, <1>18, <1>19 DEF Next, Act

\* An edit leaves no unfinished thread calm, so what calm threads have read is current.
LEMMA StepStampInv == TypeOK /\ StampInv /\ [Next]_vars => StampInv'
<1> SUFFICES ASSUME TypeOK, StampInv, [Next]_vars PROVE StampInv'
  OBVIOUS
<1> USE DEF TypeOK, StampInv, Section
<1>1. ASSUME NEW t \in Threads, Lock(t) PROVE StampInv'
  BY <1>1 DEF Lock, Goto, fileVars, threadVars, historyVars
<1>2. ASSUME NEW t \in Threads, LookForSource(t) PROVE StampInv'
  BY <1>2 DEF LookForSource, Goto, fileVars, threadVars, historyVars
<1>3. ASSUME NEW t \in Threads, MakeDirFails(t) PROVE StampInv'
  BY <1>3 DEF MakeDirFails, Goto, fileVars, threadVars, historyVars
<1>4. ASSUME NEW t \in Threads, StatSource(t) PROVE StampInv'
  BY <1>4 DEF StatSource, StartCompiler, Goto, Stage, fileVars, threadVars, historyVars
<1>5. ASSUME NEW t \in Threads, Compare(t) PROVE StampInv'
  BY <1>5 DEF Compare, UpToDate, StartCompiler, Goto, Stage, fileVars, threadVars, historyVars
<1>6. ASSUME NEW t \in Threads, BuildEnds(t) PROVE StampInv'
  BY <1>6 DEF BuildEnds, Goto, fileVars, threadVars, historyVars
<1>7. ASSUME NEW t \in Threads, Timeout(t) PROVE StampInv'
  BY <1>7 DEF Timeout, Goto, Stage, fileVars, threadVars, historyVars
<1>8. ASSUME NEW t \in Threads, Fail(t) PROVE StampInv'
  BY <1>8 DEF Fail, Goto, fileVars, threadVars, historyVars
<1>9. ASSUME NEW t \in Threads, Confirm(t) PROVE StampInv'
  BY <1>9 DEF Confirm, Goto, fileVars, threadVars, historyVars
<1>10. ASSUME NEW t \in Threads, Judge(t) PROVE StampInv'
  BY <1>10 DEF Judge, Goto, fileVars, threadVars, historyVars
<1>11. ASSUME NEW t \in Threads, Compile(t) PROVE StampInv'
  BY <1>11 DEF Compile, Stage, fileVars, threadVars, historyVars
<1>12. ASSUME NEW t \in Threads, LinkStarts(t) PROVE StampInv'
  BY <1>12 DEF LinkStarts, Stage, fileVars, threadVars, historyVars
<1>13. ASSUME NEW t \in Threads, LinkEnds(t) PROVE StampInv'
  BY <1>13 DEF LinkEnds, Stage, fileVars, threadVars, historyVars
<1>14. ASSUME NEW t \in Threads, LinkerDies(t) PROVE StampInv'
  BY <1>14 DEF LinkerDies, Stage, NoFile, fileVars, threadVars, historyVars
<1>15. ASSUME Replace PROVE StampInv'
  BY <1>15 DEF Replace, Edit, fileVars, threadVars, historyVars
<1>16. ASSUME Remove PROVE StampInv'
  BY <1>16 DEF Remove, Edit, fileVars, threadVars, historyVars
<1>17. ASSUME Tick PROVE StampInv'
  BY <1>17 DEF Tick, fileVars, threadVars, historyVars
<1>18. ASSUME Finished PROVE StampInv'
  BY <1>18 DEF Finished, vars, fileVars, threadVars, historyVars
<1>19. CASE UNCHANGED vars
  BY <1>19 DEF vars, fileVars, threadVars, historyVars
<1> QED
  BY <1>1, <1>2, <1>3, <1>4, <1>5, <1>6, <1>7, <1>8, <1>9, <1>10, <1>11, <1>12, <1>13, <1>14, <1>15, <1>16, <1>17, <1>18, <1>19 DEF Next, Act

\* The executable that a calm thread is going to run stays whole and fresh.
LEMMA StepCalmInv == TypeOK /\ JobInv /\ FileInv /\ StampInv /\ CalmInv /\ [Next]_vars => CalmInv'
<1> SUFFICES ASSUME TypeOK, JobInv, FileInv, StampInv, CalmInv, [Next]_vars PROVE CalmInv'
  OBVIOUS
<1> USE DEF TypeOK, JobInv, FileInv, StampInv, CalmInv, Fresh, Active, Section, Reading
<1>1. ASSUME NEW t \in Threads, Lock(t) PROVE CalmInv'
  BY <1>1 DEF Lock, Goto, fileVars, threadVars, historyVars
<1>2. ASSUME NEW t \in Threads, LookForSource(t) PROVE CalmInv'
  BY <1>2 DEF LookForSource, Goto, fileVars, threadVars, historyVars
<1>3. ASSUME NEW t \in Threads, MakeDirFails(t) PROVE CalmInv'
  BY <1>3 DEF MakeDirFails, Goto, fileVars, threadVars, historyVars
<1>4. ASSUME NEW t \in Threads, StatSource(t) PROVE CalmInv'
  BY <1>4 DEF StatSource, StartCompiler, Goto, Stage, fileVars, threadVars, historyVars
<1>5. ASSUME NEW t \in Threads, Compare(t) PROVE CalmInv'
  BY <1>5 DEF Compare, UpToDate, StartCompiler, Goto, Stage, fileVars, threadVars, historyVars
<1>6. ASSUME NEW t \in Threads, BuildEnds(t) PROVE CalmInv'
  BY <1>6 DEF BuildEnds, Goto, fileVars, threadVars, historyVars
<1>7. ASSUME NEW t \in Threads, Timeout(t) PROVE CalmInv'
  BY <1>7 DEF Timeout, Goto, Stage, fileVars, threadVars, historyVars
<1>8. ASSUME NEW t \in Threads, Fail(t) PROVE CalmInv'
  BY <1>8 DEF Fail, Goto, fileVars, threadVars, historyVars
<1>9. ASSUME NEW t \in Threads, Confirm(t) PROVE CalmInv'
  <2>1. \A u \in Threads : pc[u] # "building"
    BY <1>9 DEF Confirm
  <2>2. \A u \in Threads : pc'[u] # "building" /\ (pc'[u] = "confirm" => pc[u] = "confirm")
    BY <1>9, <2>1 DEF Confirm, Goto
  <2>3. UNCHANGED <<exe, src, calm, lost, early, judged>>
    BY <1>9 DEF Confirm, fileVars, historyVars
  <2>4. \A u \in Threads : pc'[u] # "answered" => judged'[u] = -1
    BY <1>9 DEF Confirm, Goto
  <2>5. lost = {} /\ ~early => \A u \in calm : pc'[u] = "confirm" /\ src.ver # 0 => Fresh
    BY <2>2 DEF Fresh
  <2>6. ASSUME lost = {}, ~early, NEW u \in calm, pc'[u] = "judging", hasSpj'[u]
        PROVE  src.ver # 0 /\ Fresh
    <3>1. CASE u = t
      BY <1>9, <2>6, <3>1 DEF Confirm, Fresh
    <3>2. CASE u # t
      BY <1>9, <2>6, <3>2 DEF Confirm, Goto, Fresh
    <3> QED
      BY <3>1, <3>2
  <2> QED
    BY <2>2, <2>3, <2>4, <2>5, <2>6 DEF CalmInv, Fresh
<1>10. ASSUME NEW t \in Threads, Judge(t) PROVE CalmInv'
  BY <1>10 DEF Judge, Goto, fileVars, threadVars, historyVars
<1>11. ASSUME NEW t \in Threads, Compile(t) PROVE CalmInv'
  BY <1>11 DEF Compile, Stage, fileVars, threadVars, historyVars
<1>12. ASSUME NEW t \in Threads, LinkStarts(t) PROVE CalmInv'
  BY <1>12 DEF LinkStarts, Stage, fileVars, threadVars, historyVars
<1>13. ASSUME NEW t \in Threads, LinkEnds(t) PROVE CalmInv'
  BY <1>13 DEF LinkEnds, Stage, fileVars, threadVars, historyVars
<1>14. ASSUME NEW t \in Threads, LinkerDies(t) PROVE CalmInv'
  BY <1>14 DEF LinkerDies, Stage, NoFile, fileVars, threadVars, historyVars
<1>15. ASSUME Replace PROVE CalmInv'
  BY <1>15 DEF Replace, Edit, fileVars, threadVars, historyVars
<1>16. ASSUME Remove PROVE CalmInv'
  BY <1>16 DEF Remove, Edit, fileVars, threadVars, historyVars
<1>17. ASSUME Tick PROVE CalmInv'
  BY <1>17 DEF Tick, fileVars, threadVars, historyVars
<1>18. ASSUME Finished PROVE CalmInv'
  BY <1>18 DEF Finished, vars, fileVars, threadVars, historyVars
<1>19. CASE UNCHANGED vars
  BY <1>19 DEF vars, fileVars, threadVars, historyVars
<1> QED
  BY <1>1, <1>2, <1>3, <1>4, <1>5, <1>6, <1>7, <1>8, <1>9, <1>10, <1>11, <1>12, <1>13, <1>14, <1>15, <1>16, <1>17, <1>18, <1>19 DEF Next, Act

\* A judge that cannot run means that a linker was lost or the source was edited.
LEMMA StepJudgeRuns == TypeOK /\ CalmInv /\ JudgeRuns /\ [Next]_vars => JudgeRuns'
<1> SUFFICES ASSUME TypeOK, CalmInv, JudgeRuns, [Next]_vars PROVE JudgeRuns'
  OBVIOUS
<1> USE DEF TypeOK, CalmInv, JudgeRuns, Fresh
<1>1. ASSUME NEW t \in Threads, Lock(t) PROVE JudgeRuns'
  BY <1>1 DEF Lock, Goto, fileVars, threadVars, historyVars
<1>2. ASSUME NEW t \in Threads, LookForSource(t) PROVE JudgeRuns'
  BY <1>2 DEF LookForSource, Goto, fileVars, threadVars, historyVars
<1>3. ASSUME NEW t \in Threads, MakeDirFails(t) PROVE JudgeRuns'
  BY <1>3 DEF MakeDirFails, Goto, fileVars, threadVars, historyVars
<1>4. ASSUME NEW t \in Threads, StatSource(t) PROVE JudgeRuns'
  BY <1>4 DEF StatSource, StartCompiler, Goto, Stage, fileVars, threadVars, historyVars
<1>5. ASSUME NEW t \in Threads, Compare(t) PROVE JudgeRuns'
  BY <1>5 DEF Compare, UpToDate, StartCompiler, Goto, Stage, fileVars, threadVars, historyVars
<1>6. ASSUME NEW t \in Threads, BuildEnds(t) PROVE JudgeRuns'
  BY <1>6 DEF BuildEnds, Goto, fileVars, threadVars, historyVars
<1>7. ASSUME NEW t \in Threads, Timeout(t) PROVE JudgeRuns'
  BY <1>7 DEF Timeout, Goto, Stage, fileVars, threadVars, historyVars
<1>8. ASSUME NEW t \in Threads, Fail(t) PROVE JudgeRuns'
  BY <1>8 DEF Fail, Goto, fileVars, threadVars, historyVars
<1>9. ASSUME NEW t \in Threads, Confirm(t) PROVE JudgeRuns'
  BY <1>9 DEF Confirm, Goto, fileVars, threadVars, historyVars
<1>10. ASSUME NEW t \in Threads, Judge(t) PROVE JudgeRuns'
  <2>1. UNCHANGED <<calm, lost, early>> /\ pc[t] = "judging"
    BY <1>10 DEF Judge, historyVars
  <2>2. ASSUME t \in calm, judged'[t] = -2 PROVE lost # {} \/ early
    <3>1. exe.ver # -2 /\ judged \in [Threads -> -2 .. MaxEdits + 1]
      BY CacheAssumption DEF Versions
    <3>2. hasSpj[t] /\ exe.state # "whole"
      BY <1>10, <2>2, <3>1 DEF Judge
    <3> QED
      BY <2>1, <2>2, <3>2
  <2>3. \A u \in Threads : u # t => judged'[u] = judged[u]
    BY <1>10 DEF Judge
  <2> QED
    BY <2>1, <2>2, <2>3
<1>11. ASSUME NEW t \in Threads, Compile(t) PROVE JudgeRuns'
  BY <1>11 DEF Compile, Stage, fileVars, threadVars, historyVars
<1>12. ASSUME NEW t \in Threads, LinkStarts(t) PROVE JudgeRuns'
  BY <1>12 DEF LinkStarts, Stage, fileVars, threadVars, historyVars
<1>13. ASSUME NEW t \in Threads, LinkEnds(t) PROVE JudgeRuns'
  BY <1>13 DEF LinkEnds, Stage, fileVars, threadVars, historyVars
<1>14. ASSUME NEW t \in Threads, LinkerDies(t) PROVE JudgeRuns'
  BY <1>14 DEF LinkerDies, Stage, NoFile, fileVars, threadVars, historyVars
<1>15. ASSUME Replace PROVE JudgeRuns'
  BY <1>15 DEF Replace, Edit, fileVars, threadVars, historyVars
<1>16. ASSUME Remove PROVE JudgeRuns'
  BY <1>16 DEF Remove, Edit, fileVars, threadVars, historyVars
<1>17. ASSUME Tick PROVE JudgeRuns'
  BY <1>17 DEF Tick, fileVars, threadVars, historyVars
<1>18. ASSUME Finished PROVE JudgeRuns'
  BY <1>18 DEF Finished, vars, fileVars, threadVars, historyVars
<1>19. CASE UNCHANGED vars
  BY <1>19 DEF vars, fileVars, threadVars, historyVars
<1> QED
  BY <1>1, <1>2, <1>3, <1>4, <1>5, <1>6, <1>7, <1>8, <1>9, <1>10, <1>11, <1>12, <1>13, <1>14, <1>15, <1>16, <1>17, <1>18, <1>19 DEF Next, Act

\* A compiler at work and a trusted executable have the version of the source.
LEMMA StepVersionInv == TypeOK /\ StampInv /\ VersionInv /\ [Next]_vars => VersionInv'
<1> SUFFICES ASSUME TypeOK, StampInv, VersionInv, [Next]_vars PROVE VersionInv'
  OBVIOUS
<1> USE CacheAssumption DEF TypeOK, StampInv, VersionInv, Reading, Versions
<1>1. ASSUME NEW t \in Threads, Lock(t) PROVE VersionInv'
  BY <1>1 DEF Lock, Goto, fileVars, threadVars, historyVars
<1>2. ASSUME NEW t \in Threads, LookForSource(t) PROVE VersionInv'
  BY <1>2 DEF LookForSource, Goto, fileVars, threadVars, historyVars
<1>3. ASSUME NEW t \in Threads, MakeDirFails(t) PROVE VersionInv'
  BY <1>3 DEF MakeDirFails, Goto, fileVars, threadVars, historyVars
<1>4. ASSUME NEW t \in Threads, StatSource(t) PROVE VersionInv'
  <2>1. \A u \in Threads : job'[u].stage \in {"linking", "writing", "done"} => job'[u] = job[u]
    BY <1>4 DEF StatSource, StartCompiler, Goto, Stage
  <2>2. UNCHANGED <<now, edits, src, exe, unlucky>>
    BY <1>4 DEF StatSource, fileVars, historyVars
  <2> QED
    BY <2>1, <2>2
<1>5. ASSUME NEW t \in Threads, Compare(t) PROVE VersionInv'
  <2>1. \A u \in Threads : job'[u].stage \in {"linking", "writing", "done"} => job'[u] = job[u]
    BY <1>5 DEF Compare, StartCompiler, Goto, Stage
  <2>2. UNCHANGED <<now, edits, src, exe, unlucky>>
    BY <1>5 DEF Compare, fileVars, historyVars
  <2> QED
    BY <2>1, <2>2
<1>6. ASSUME NEW t \in Threads, BuildEnds(t) PROVE VersionInv'
  BY <1>6 DEF BuildEnds, Goto, fileVars, threadVars, historyVars
<1>7. ASSUME NEW t \in Threads, Timeout(t) PROVE VersionInv'
  <2>1. \A u \in Threads : job'[u].stage \in {"linking", "writing", "done"} => job'[u] = job[u]
    BY <1>7 DEF Timeout, Stage
  <2>2. UNCHANGED <<now, edits, src, exe, unlucky>>
    BY <1>7 DEF Timeout, fileVars, historyVars
  <2> QED
    BY <2>1, <2>2
<1>8. ASSUME NEW t \in Threads, Fail(t) PROVE VersionInv'
  BY <1>8 DEF Fail, Goto, fileVars, threadVars, historyVars
<1>9. ASSUME NEW t \in Threads, Confirm(t) PROVE VersionInv'
  BY <1>9 DEF Confirm, Goto, fileVars, threadVars, historyVars
<1>10. ASSUME NEW t \in Threads, Judge(t) PROVE VersionInv'
  BY <1>10 DEF Judge, Goto, fileVars, threadVars, historyVars
<1>11. ASSUME NEW t \in Threads, Compile(t) PROVE VersionInv'
  <2>1. UNCHANGED <<now, edits, src, exe, unlucky>>
    BY <1>11 DEF Compile, fileVars, historyVars
  <2>2. CASE src.ver # 0 /\ job' = [job EXCEPT ![t] = [stage |-> "linking", ver |-> src.ver]]
    BY <2>1, <2>2
  <2>3. CASE job' = [job EXCEPT ![t].stage = "failed"]
    <3>1. \A u \in Threads : job'[u].stage \in {"linking", "writing", "done"} => job'[u] = job[u]
      BY <2>3
    <3> QED
      BY <2>1, <3>1
  <2> QED
    BY <1>11, <2>2, <2>3 DEF Compile, Stage
<1>12. ASSUME NEW t \in Threads, LinkStarts(t) PROVE VersionInv'
  BY <1>12 DEF LinkStarts, Stage, fileVars, threadVars, historyVars
<1>13. ASSUME NEW t \in Threads, LinkEnds(t) PROVE VersionInv'
  BY <1>13 DEF LinkEnds, Stage, fileVars, threadVars, historyVars
<1>14. ASSUME NEW t \in Threads, LinkerDies(t) PROVE VersionInv'
  BY <1>14 DEF LinkerDies, Stage, NoFile, fileVars, threadVars, historyVars
<1>15. ASSUME Replace PROVE VersionInv'
  <2>1. PICK time \in Times :
            /\ Edit(edits + 2, time)
            /\ ~unlucky' => /\ \A t \in Threads : job[t].stage \notin {"linking", "writing"}
                            /\ exe.state # "absent" => ~(exe.time >= time)
    BY <1>15 DEF Replace
  <2>2. /\ UNCHANGED <<now, exe, job>>
        /\ edits' = edits + 1 /\ src' = [ver |-> edits + 2, time |-> time]
    BY <2>1 DEF Edit
  <2>3. time \in Int
    BY DEF Times
  <2>4. src'.ver = edits' + 1 /\ src'.time = time
    BY <2>2
  <2>5. /\ exe'.time <= now' /\ (exe'.state # "absent" => exe'.ver # 0) /\ src'.ver <= edits' + 1
        /\ \A t \in Threads : job'[t].stage \in {"linking", "writing", "done"} =>
                job'[t].ver # 0 /\ job'[t].ver <= edits' + 1
        /\ \A t \in Threads : job'[t].stage = "writing" /\ exe'.by = t => exe'.ver = job'[t].ver
    BY <2>2, <2>4
  <2>6. ~unlucky' => \A t \in Threads : job'[t].stage \notin {"linking", "writing"}
    BY <2>1, <2>2
  <2>7. ~unlucky' /\ exe'.state # "absent" => ~(exe'.time >= src'.time)
    BY <2>1, <2>2, <2>4
  <2> QED
    BY <2>5, <2>6, <2>7
<1>16. ASSUME Remove PROVE VersionInv'
  BY <1>16 DEF Remove, Edit, fileVars, threadVars, historyVars
<1>17. ASSUME Tick PROVE VersionInv'
  BY <1>17 DEF Tick, fileVars, threadVars, historyVars
<1>18. ASSUME Finished PROVE VersionInv'
  BY <1>18 DEF Finished, vars, fileVars, threadVars, historyVars
<1>19. CASE UNCHANGED vars
  BY <1>19 DEF vars, fileVars, threadVars, historyVars
<1> QED
  BY <1>1, <1>2, <1>3, <1>4, <1>5, <1>6, <1>7, <1>8, <1>9, <1>10, <1>11, <1>12, <1>13, <1>14, <1>15, <1>16, <1>17, <1>18, <1>19 DEF Next, Act

\* What a thread trusts it has seen: a compiler takes the version of the source, and
\* what is not older than the source has its version.
LEMMA StepSeenInv == TypeOK /\ JobInv /\ VersionInv /\ SeenInv /\ [Next]_vars => SeenInv'
<1> SUFFICES ASSUME TypeOK, JobInv, VersionInv, SeenInv, [Next]_vars PROVE SeenInv'
  OBVIOUS
<1> USE DEF TypeOK, JobInv, SeenInv, Trusts, Active, Section, Reading
<1>1. ASSUME NEW t \in Threads, Lock(t) PROVE SeenInv'
  BY <1>1 DEF Lock, Goto, fileVars, threadVars, historyVars
<1>2. ASSUME NEW t \in Threads, LookForSource(t) PROVE SeenInv'
  BY <1>2 DEF LookForSource, Goto, fileVars, threadVars, historyVars
<1>3. ASSUME NEW t \in Threads, MakeDirFails(t) PROVE SeenInv'
  BY <1>3 DEF MakeDirFails, Goto, fileVars, threadVars, historyVars
<1>4. ASSUME NEW t \in Threads, StatSource(t) PROVE SeenInv'
  <2>1. UNCHANGED <<exe, src, hasSpj, seen, unlucky>> /\ pc[t] = "stat" /\ src.ver \in seen[t]
    BY <1>4 DEF StatSource, fileVars, historyVars
  <2>2. \A u \in Threads : u # t => pc'[u] = pc[u] /\ job'[u] = job[u] /\ srcTime'[u] = srcTime[u]
    BY <1>4 DEF StatSource, StartCompiler, Goto, Stage
  <2>3. \/ pc'[t] = "building" /\ job'[t].stage = "reading"
        \/ pc'[t] = "compare" /\ (src.ver # 0 => srcTime'[t] = src.time)
    BY <1>4 DEF StatSource, StartCompiler, Goto, Stage
  <2>4. Trusts(t)' /\ ~unlucky /\ 0 \notin seen[t] /\ exe.state # "absent" => exe.ver \in seen[t]
    BY <2>1, <2>3 DEF VersionInv
  <2> QED
    BY <2>1, <2>2, <2>3, <2>4
<1>5. ASSUME NEW t \in Threads, Compare(t) PROVE SeenInv'
  <2>1. UNCHANGED <<exe, src, hasSpj, srcTime, seen, unlucky>> /\ pc[t] = "compare"
    BY <1>5 DEF Compare, fileVars, historyVars
  <2>2. \A u \in Threads : u # t => pc'[u] = pc[u] /\ job'[u] = job[u]
    BY <1>5 DEF Compare, StartCompiler, Goto, Stage
  <2>3. \/ pc'[t] = "building" /\ job'[t].stage = "reading"
        \/ pc'[t] = "confirm" /\ exe.time >= srcTime[t]
    BY <1>5 DEF Compare, UpToDate, StartCompiler, Goto, Stage
  <2> QED
    BY <2>1, <2>2, <2>3
<1>6. ASSUME NEW t \in Threads, BuildEnds(t) PROVE SeenInv'
  BY <1>6 DEF BuildEnds, Goto, fileVars, threadVars, historyVars
<1>7. ASSUME NEW t \in Threads, Timeout(t) PROVE SeenInv'
  BY <1>7 DEF Timeout, Goto, Stage, fileVars, threadVars, historyVars
<1>8. ASSUME NEW t \in Threads, Fail(t) PROVE SeenInv'
  BY <1>8 DEF Fail, Goto, fileVars, threadVars, historyVars
<1>9. ASSUME NEW t \in Threads, Confirm(t) PROVE SeenInv'
  <2>1. UNCHANGED <<exe, src, job, srcTime, seen, unlucky>>
    BY <1>9 DEF Confirm, fileVars, historyVars
  <2>2. pc[t] = "confirm" /\ pc'[t] = "judging" /\ (hasSpj'[t] <=> src.ver # 0)
    BY <1>9 DEF Confirm, Goto
  <2>3. \A u \in Threads : u # t => pc'[u] = pc[u] /\ hasSpj'[u] = hasSpj[u]
    BY <1>9 DEF Confirm, Goto
  <2> QED
    BY <2>1, <2>2, <2>3
<1>10. ASSUME NEW t \in Threads, Judge(t) PROVE SeenInv'
  BY <1>10 DEF Judge, Goto, fileVars, threadVars, historyVars
<1>11. ASSUME NEW t \in Threads, Compile(t) PROVE SeenInv'
  BY <1>11 DEF Compile, Stage, fileVars, threadVars, historyVars
<1>12. ASSUME NEW t \in Threads, LinkStarts(t) PROVE SeenInv'
  <2>1. UNCHANGED <<src, pc, hasSpj, srcTime, seen, unlucky>>
    BY <1>12 DEF LinkStarts, threadVars, historyVars
  <2>2. exe'.ver = job[t].ver /\ (~unlucky /\ src.ver # 0 => exe'.ver = src.ver)
    BY <1>12 DEF LinkStarts, VersionInv
  <2>3. \A u \in Threads : pc'[u] \notin {"arrived", "answered"} /\ ~unlucky /\ 0 \notin seen[u]
                              => exe'.ver \in seen[u]
    BY <2>1, <2>2
  <2> QED
    BY <2>1, <2>3
<1>13. ASSUME NEW t \in Threads, LinkEnds(t) PROVE SeenInv'
  <2>1. UNCHANGED <<src, pc, hasSpj, srcTime, seen, unlucky>>
    BY <1>13 DEF LinkEnds, threadVars
  <2>2. \A u \in Threads : u # t => job'[u] = job[u]
    BY <1>13 DEF LinkEnds, Stage
  <2>3. job[t].stage = "writing" /\ job'[t].stage = "done"
    BY <1>13 DEF LinkEnds, Stage
  <2>4. CASE exe.by # t
    BY <1>13, <2>1, <2>2, <2>3, <2>4 DEF LinkEnds
  <2>5. CASE exe.by = t
    <3>1. exe'.ver = exe.ver /\ exe.ver = job[t].ver
      BY <1>13, <2>3, <2>5 DEF LinkEnds, VersionInv
    <3>2. ~unlucky /\ src.ver # 0 => exe'.ver = src.ver
      BY <2>3, <3>1 DEF VersionInv
    <3>3. \A u \in Threads : pc'[u] \notin {"arrived", "answered"} /\ ~unlucky /\ 0 \notin seen[u]
                                => exe'.ver \in seen[u]
      BY <2>1, <3>2
    <3> QED
      BY <2>1, <3>3
  <2> QED
    BY <2>4, <2>5
<1>14. ASSUME NEW t \in Threads, LinkerDies(t) PROVE SeenInv'
  BY <1>14 DEF LinkerDies, Stage, NoFile, fileVars, threadVars, historyVars
<1>15. ASSUME Replace \/ Remove PROVE SeenInv'
  <2>1. PICK ver, time : Edit(ver, time)
    BY <1>15 DEF Replace, Remove
  <2>2. /\ UNCHANGED <<exe, pc, job, srcTime, hasSpj>> /\ src'.ver = ver
        /\ \A u \in Threads : pc[u] \notin {"arrived", "answered"} => seen'[u] = seen[u] \cup {ver}
    BY <2>1 DEF Edit, threadVars
  <2>3. ~unlucky' => ~unlucky
    BY <1>15 DEF Replace, Remove
  <2>4. ASSUME NEW u \in Threads, pc'[u] \notin {"arrived", "answered"}
        PROVE  /\ src'.ver \in seen'[u]
               /\ pc'[u] = "judging" => IF hasSpj'[u] THEN seen'[u] # {0} ELSE 0 \in seen'[u]
               /\ Trusts(u)' /\ ~unlucky' /\ 0 \notin seen'[u] /\ exe'.state # "absent" =>
                        exe'.ver \in seen'[u]
    <3>1. seen'[u] = seen[u] \cup {ver} /\ pc'[u] = pc[u] /\ (Trusts(u)' <=> Trusts(u))
      BY <2>2, <2>4
    <3>2. src.ver \in seen[u] /\ (seen[u] # {0} => seen'[u] # {0})
      BY <2>4, <3>1
    <3>3. Trusts(u)' /\ ~unlucky' /\ 0 \notin seen'[u] /\ exe'.state # "absent" =>
                exe'.ver \in seen'[u]
      BY <2>2, <2>3, <2>4, <3>1
    <3> QED
      BY <2>2, <2>4, <3>1, <3>2, <3>3
  <2> QED
    BY <2>4 DEF SeenInv
<1>16. ASSUME Tick PROVE SeenInv'
  BY <1>16 DEF Tick, fileVars, threadVars, historyVars
<1>17. ASSUME Finished PROVE SeenInv'
  BY <1>17 DEF Finished, vars, fileVars, threadVars, historyVars
<1>18. CASE UNCHANGED vars
  BY <1>18 DEF vars, fileVars, threadVars, historyVars
<1> QED
  BY <1>1, <1>2, <1>3, <1>4, <1>5, <1>6, <1>7, <1>8, <1>9, <1>10, <1>11, <1>12, <1>13, <1>14, <1>15, <1>16, <1>17, <1>18 DEF Next, Act

\* The judge that has run was the one of the source, or was trusted wrongly.
LEMMA StepJudgeIsCurrent == TypeOK /\ CalmInv /\ StampInv /\ VersionInv /\ SeenInv /\ JudgeIsCurrent /\ [Next]_vars => JudgeIsCurrent'
<1> SUFFICES ASSUME TypeOK, CalmInv, StampInv, VersionInv, SeenInv, JudgeIsCurrent, [Next]_vars PROVE JudgeIsCurrent'
  OBVIOUS
<1> USE CacheAssumption DEF TypeOK, CalmInv, StampInv, VersionInv, SeenInv, JudgeIsCurrent, Versions
<1>1. ASSUME NEW t \in Threads, Lock(t) PROVE JudgeIsCurrent'
  BY <1>1 DEF Lock, Goto, fileVars, threadVars, historyVars
<1>2. ASSUME NEW t \in Threads, LookForSource(t) PROVE JudgeIsCurrent'
  BY <1>2 DEF LookForSource, Goto, fileVars, threadVars, historyVars
<1>3. ASSUME NEW t \in Threads, MakeDirFails(t) PROVE JudgeIsCurrent'
  BY <1>3 DEF MakeDirFails, Goto, fileVars, threadVars, historyVars
<1>4. ASSUME NEW t \in Threads, StatSource(t) PROVE JudgeIsCurrent'
  BY <1>4 DEF StatSource, StartCompiler, Goto, Stage, fileVars, threadVars, historyVars
<1>5. ASSUME NEW t \in Threads, Compare(t) PROVE JudgeIsCurrent'
  BY <1>5 DEF Compare, UpToDate, StartCompiler, Goto, Stage, fileVars, threadVars, historyVars
<1>6. ASSUME NEW t \in Threads, BuildEnds(t) PROVE JudgeIsCurrent'
  BY <1>6 DEF BuildEnds, Goto, fileVars, threadVars, historyVars
<1>7. ASSUME NEW t \in Threads, Timeout(t) PROVE JudgeIsCurrent'
  BY <1>7 DEF Timeout, Goto, Stage, fileVars, threadVars, historyVars
<1>8. ASSUME NEW t \in Threads, Fail(t) PROVE JudgeIsCurrent'
  BY <1>8 DEF Fail, Goto, fileVars, threadVars, historyVars
<1>9. ASSUME NEW t \in Threads, Confirm(t) PROVE JudgeIsCurrent'
  BY <1>9 DEF Confirm, Goto, fileVars, threadVars, historyVars
<1>10. ASSUME NEW t \in Threads, Judge(t) PROVE JudgeIsCurrent'
  <2>1. UNCHANGED <<seen, unlucky>> /\ pc[t] = "judging"
    BY <1>10 DEF Judge, historyVars
  <2>2. \A u \in Threads : u # t => judged'[u] = judged[u]
    BY <1>10 DEF Judge
  <2>3. judged'[t] = IF ~hasSpj[t] THEN 0 ELSE IF exe.state = "whole" THEN exe.ver ELSE -2
    BY <1>10 DEF Judge
  <2>4. judged'[t] >= 0 => \/ judged'[t] \in seen[t]
                           \/ judged'[t] # 0 /\ seen[t] # {0} /\ (unlucky \/ 0 \in seen[t])
    <3>1. CASE ~hasSpj[t]
      BY <2>1, <2>3, <3>1
    <3>2. CASE hasSpj[t] /\ exe.state # "whole"
      BY <2>3, <3>2
    <3>3. CASE hasSpj[t] /\ exe.state = "whole"
      BY <2>1, <2>3, <3>3 DEF Trusts
    <3> QED
      BY <3>1, <3>2, <3>3
  <2> QED
    BY <2>1, <2>2, <2>4
<1>11. ASSUME NEW t \in Threads, Compile(t) PROVE JudgeIsCurrent'
  BY <1>11 DEF Compile, Stage, fileVars, threadVars, historyVars
<1>12. ASSUME NEW t \in Threads, LinkStarts(t) PROVE JudgeIsCurrent'
  BY <1>12 DEF LinkStarts, Stage, fileVars, threadVars, historyVars
<1>13. ASSUME NEW t \in Threads, LinkEnds(t) PROVE JudgeIsCurrent'
  BY <1>13 DEF LinkEnds, Stage, fileVars, threadVars, historyVars
<1>14. ASSUME NEW t \in Threads, LinkerDies(t) PROVE JudgeIsCurrent'
  BY <1>14 DEF LinkerDies, Stage, NoFile, fileVars, threadVars, historyVars
<1>15. ASSUME Replace PROVE JudgeIsCurrent'
  BY <1>15 DEF Replace, Edit, fileVars, threadVars, historyVars
<1>16. ASSUME Remove PROVE JudgeIsCurrent'
  BY <1>16 DEF Remove, Edit, fileVars, threadVars, historyVars
<1>17. ASSUME Tick PROVE JudgeIsCurrent'
  BY <1>17 DEF Tick, fileVars, threadVars, historyVars
<1>18. ASSUME Finished PROVE JudgeIsCurrent'
  BY <1>18 DEF Finished, vars, fileVars, threadVars, historyVars
<1>19. CASE UNCHANGED vars
  BY <1>19 DEF vars, fileVars, threadVars, historyVars
<1> QED
  BY <1>1, <1>2, <1>3, <1>4, <1>5, <1>6, <1>7, <1>8, <1>9, <1>10, <1>11, <1>12, <1>13, <1>14, <1>15, <1>16, <1>17, <1>18, <1>19 DEF Next, Act

\* A source that has been compiled gives no thread a reason to compile it again.
LEMMA StepOnceInv == TypeOK /\ JobInv /\ FileInv /\ StampInv /\ VersionInv /\ OnceInv /\ [Next]_vars => OnceInv'
<1> SUFFICES ASSUME TypeOK, JobInv, FileInv, StampInv, VersionInv, OnceInv, [Next]_vars PROVE OnceInv'
  OBVIOUS
<1> USE CacheAssumption DEF TypeOK, JobInv, FileInv, StampInv, VersionInv, OnceInv, Active, Section, Reading, Versions
<1>1. ASSUME NEW t \in Threads, Lock(t) PROVE OnceInv'
  BY <1>1 DEF Lock, Goto, fileVars, threadVars, historyVars
<1>2. ASSUME NEW t \in Threads, LookForSource(t) PROVE OnceInv'
  BY <1>2 DEF LookForSource, Goto, fileVars, threadVars, historyVars
<1>3. ASSUME NEW t \in Threads, MakeDirFails(t) PROVE OnceInv'
  BY <1>3 DEF MakeDirFails, Goto, fileVars, threadVars, historyVars
<1>4. ASSUME NEW t \in Threads, StatSource(t) PROVE OnceInv'
  <2>1. UNCHANGED <<exe, src, lost, early>>
    BY <1>4 DEF StatSource, fileVars, historyVars
  <2>2. CASE exe.state = "absent" /\ StartCompiler(t) /\ UNCHANGED srcTime
    <3>1. job' = [job EXCEPT ![t].stage = Reading] /\ pc' = [pc EXCEPT ![t] = "building"]
      BY <2>2 DEF StartCompiler, Stage, Goto
    <3> QED
      BY <2>1, <2>2, <3>1
  <2>3. CASE /\ exe.state # "absent"
             /\ srcTime' = [srcTime EXCEPT ![t] = IF src.ver = 0 THEN -1 ELSE src.time]
             /\ Goto(t, "compare") /\ UNCHANGED job
    BY <2>1, <2>3 DEF Goto
  <2> QED
    BY <1>4, <2>2, <2>3 DEF StatSource
<1>5. ASSUME NEW t \in Threads, Compare(t) PROVE OnceInv'
  <2>1. UNCHANGED <<exe, src, srcTime, lost, early>> /\ pc[t] = "compare"
    BY <1>5 DEF Compare, fileVars, historyVars
  <2>2. \A u \in Threads : pc'[u] = "compare" => pc[u] = "compare"
    BY <1>5 DEF Compare, StartCompiler, Goto
  <2>3. CASE UpToDate(t)
    <3>1. UNCHANGED job
      BY <1>5, <2>3 DEF Compare
    <3> QED
      BY <2>1, <2>2, <3>1
  <2>4. CASE ~UpToDate(t)
    <3>1. job' = [job EXCEPT ![t].stage = "reading"]
      BY <1>5, <2>4 DEF Compare, StartCompiler, Stage
    <3>2. lost = {} /\ ~early => \A u \in Threads : job[u].stage = "done" => job[u].ver # src.ver
      BY <2>1, <2>4 DEF UpToDate
    <3>3. \A u \in Threads : job'[u].stage \in {"linking", "writing", "done"} => job'[u] = job[u]
      BY <3>1
    <3> QED
      BY <2>1, <2>2, <3>2, <3>3
  <2> QED
    BY <2>3, <2>4
<1>6. ASSUME NEW t \in Threads, BuildEnds(t) PROVE OnceInv'
  BY <1>6 DEF BuildEnds, Goto, fileVars, threadVars, historyVars
<1>7. ASSUME NEW t \in Threads, Timeout(t) PROVE OnceInv'
  <2>1. UNCHANGED <<exe, src, srcTime, early>> /\ pc' = [pc EXCEPT ![t] = "failing"]
    BY <1>7 DEF Timeout, fileVars, Goto
  <2>2. CASE lost' # {}
    BY <2>2
  <2>3. CASE lost' = {}
    <3>1. lost = {} /\ job' = [job EXCEPT ![t].stage = "failed"]
      BY <1>7, <2>3 DEF Timeout, Stage
    <3>2. \A u \in Threads : job'[u] = job[u] \/ job'[u].stage = "failed"
      BY <3>1
    <3> QED
      BY <2>1, <3>1, <3>2
  <2> QED
    BY <2>2, <2>3
<1>8. ASSUME NEW t \in Threads, Fail(t) PROVE OnceInv'
  BY <1>8 DEF Fail, Goto, fileVars, threadVars, historyVars
<1>9. ASSUME NEW t \in Threads, Confirm(t) PROVE OnceInv'
  BY <1>9 DEF Confirm, Goto, fileVars, threadVars, historyVars
<1>10. ASSUME NEW t \in Threads, Judge(t) PROVE OnceInv'
  BY <1>10 DEF Judge, Goto, fileVars, threadVars, historyVars
<1>11. ASSUME NEW t \in Threads, Compile(t) PROVE OnceInv'
  <2>1. UNCHANGED <<exe, src, lost, early, pc, srcTime>> /\ job[t].stage = Reading
    BY <1>11 DEF Compile, fileVars, threadVars, historyVars
  <2>2. CASE src.ver # 0 /\ job' = [job EXCEPT ![t] = [stage |-> "linking", ver |-> src.ver]]
    <3>1. job'[t].stage = "linking" /\ job'[t].ver = src.ver
      BY <2>2
    <3>2. \A u \in Threads : u # t => job'[u] = job[u]
      BY <2>2
    <3>3. lost = {} /\ ~early => \A u \in Threads : job[u].stage = "done" => job[u].ver # src.ver
      BY <2>1
    <3> QED
      BY <2>1, <3>1, <3>2, <3>3
  <2>3. CASE job' = [job EXCEPT ![t].stage = "failed"]
    <3>1. job'[t].stage = "failed" /\ \A u \in Threads : u # t => job'[u] = job[u]
      BY <2>3
    <3>2. ASSUME lost = {}, ~early, NEW v \in Threads, job'[v].stage = "done"
          PROVE  /\ job[v].stage = "done" /\ job'[v] = job[v]
                 /\ \A u \in Threads : job'[u].stage \in {"linking", "writing", "done"} => job'[u] = job[u]
                 /\ job[v].ver # src.ver
      BY <2>1, <3>1, <3>2
    <3> QED
      BY <2>1, <3>2
  <2> QED
    BY <1>11, <2>2, <2>3 DEF Compile, Stage
<1>12. ASSUME NEW t \in Threads, LinkStarts(t) PROVE OnceInv'
  BY <1>12 DEF LinkStarts, Stage, fileVars, threadVars, historyVars
<1>13. ASSUME NEW t \in Threads, LinkEnds(t) PROVE OnceInv'
  <2>1. UNCHANGED <<src, lost, pc, srcTime>> /\ (early' <=> early \/ src.time > now)
    BY <1>13 DEF LinkEnds, threadVars
  <2>2. /\ job[t].stage = "writing" /\ job'[t].stage = "done" /\ job'[t].ver = job[t].ver
        /\ \A u \in Threads : u # t => job'[u] = job[u]
    BY <1>13 DEF LinkEnds, Stage
  <2> SUFFICES ASSUME lost = {}, ~early, ~(src.time > now), NEW v \in Threads, job'[v].stage = "done"
               PROVE  /\ job'[v].ver = src'.ver =>
                        /\ exe'.state # "absent" /\ exe'.time >= src'.time
                        /\ \A u \in Threads : job'[u].stage \notin Active
                        /\ \A u \in Threads : pc'[u] = "compare" => srcTime'[u] = src'.time
                      /\ \A u \in Threads :
                            job'[u].stage \in {"linking", "writing", "done"} /\ job'[u].ver = job'[v].ver => u = v
    BY <2>1
  <2>3. pc[t] = "building" /\ exe.by = t /\ exe.state = "partial"
    BY <2>2
  <2>4. \A u \in Threads : pc[u] \in Section => u = t
    BY <2>3
  <2>5. \A u \in Threads : job'[u].stage \notin Active
    BY <2>2, <2>4
  <2>6. exe'.state = "whole" /\ exe'.time = now
    BY <1>13, <2>3 DEF LinkEnds
  <2>7. now >= src.time
    <3>1. now \in Int /\ src.time \in Int
      BY DEF Times
    <3> QED
      BY <3>1
  <2>8. \A u \in Threads : job[u].stage = "done" /\ job[u].ver = job[t].ver => FALSE
    BY <2>2
  <2>9. \A u \in Threads : job'[u].stage \in {"linking", "writing", "done"} /\ job'[u].ver = job'[v].ver => u = v
    BY <2>2, <2>8
  <2> QED
    <3>1. \A u \in Threads : pc'[u] # "compare"
      BY <2>1, <2>3, <2>4
    <3>2. exe'.state # "absent" /\ exe'.time >= src'.time
      BY <2>1, <2>6, <2>7
    <3> QED
      BY <3>1, <3>2, <2>5, <2>9
<1>14. ASSUME NEW t \in Threads, LinkerDies(t) PROVE OnceInv'
  BY <1>14 DEF LinkerDies, Stage, NoFile, fileVars, threadVars, historyVars
<1>15. ASSUME Replace PROVE OnceInv'
  BY <1>15 DEF Replace, Edit, fileVars, threadVars, historyVars
<1>16. ASSUME Remove PROVE OnceInv'
  BY <1>16 DEF Remove, Edit, fileVars, threadVars, historyVars
<1>17. ASSUME Tick PROVE OnceInv'
  BY <1>17 DEF Tick, fileVars, threadVars, historyVars
<1>18. ASSUME Finished PROVE OnceInv'
  BY <1>18 DEF Finished, vars, fileVars, threadVars, historyVars
<1>19. CASE UNCHANGED vars
  BY <1>19 DEF vars, fileVars, threadVars, historyVars
<1> QED
  BY <1>1, <1>2, <1>3, <1>4, <1>5, <1>6, <1>7, <1>8, <1>9, <1>10, <1>11, <1>12, <1>13, <1>14, <1>15, <1>16, <1>17, <1>18, <1>19 DEF Next, Act

-----------------------------------------------------------------------------
\* The inductive invariant of the cached judge.
THEOREM CacheInvariant == Spec => []CacheInv
<1>1. Init => CacheInv
  <2> SUFFICES ASSUME Init PROVE CacheInv
    OBVIOUS
  <2> USE CacheAssumption DEF Init
  <2>1. TypeOK
    <3>1. {0, 1} \subseteq Versions /\ 0 \in Times /\ 0 \in 0 .. MaxTime /\ 0 \in 0 .. MaxEdits
      BY DEF Versions, Times
    <3>2. src \in [ver : Versions, time : Times]
      BY <3>1
    <3>3. exe \in [state : {"absent", "partial", "whole"}, by : Threads \cup {NoThread},
                   ver : Versions, time : 0 .. MaxTime]
      BY <3>1 DEF NoFile
    <3>4. /\ srcTime \in [Threads -> {-1} \cup Times]
          /\ judged \in [Threads -> -2 .. MaxEdits + 1]
      OBVIOUS
    <3>5. \A t \in Threads : mutex = t <=> pc[t] \in Section
      BY DEF Section
    <3>6. /\ job \in [Threads -> [stage : {"none", Reading, "linking", "writing", "done", "failed"},
                                  ver : Versions]]
          /\ seen \in [Threads -> SUBSET Versions]
      BY <3>1
    <3> QED
      BY <3>1, <3>2, <3>3, <3>4, <3>5, <3>6 DEF TypeOK
  <2>2. JobInv /\ FileInv
    BY DEF JobInv, FileInv, Active, Reading, NoFile
  <2>3. StampInv /\ CalmInv /\ JudgeRuns
    BY DEF StampInv, CalmInv, JudgeRuns
  <2>4. VersionInv
    BY DEF VersionInv, NoFile
  <2>5. SeenInv /\ OnceInv /\ JudgeIsCurrent
    BY DEF SeenInv, OnceInv, JudgeIsCurrent
  <2> QED
    BY <2>1, <2>2, <2>3, <2>4, <2>5 DEF CacheInv
<1>2. CacheInv /\ [Next]_vars => CacheInv'
  BY StepTypeOK, StepJobInv, StepFileInv, StepStampInv, StepCalmInv, StepJudgeRuns,
     StepVersionInv, StepSeenInv, StepJudgeIsCurrent, StepOnceInv DEF CacheInv
<1> QED
  BY <1>1, <1>2, PTL DEF Spec

\* Every reachable state is well typed, and the mutex belongs to the thread in the
\* section.
THEOREM TypeCorrect == Spec => []TypeOK
<1>1. CacheInv => TypeOK
  BY DEF CacheInv
<1> QED
  BY <1>1, CacheInvariant, PTL

\* A judge that runs outside the mutex finds a whole executable, unless the source
\* was edited, a linker was lost, or a judge was built for a source dated ahead of
\* the clock.
THEOREM JudgesRun == Spec => []JudgeRuns
<1>1. CacheInv => JudgeRuns
  BY DEF CacheInv
<1> QED
  BY <1>1, CacheInvariant, PTL

\* A task is judged by a version of the source that its thread has seen since it took
\* the mutex, through any edits; time stamps mislead only where the author replaced
\* the source behind a compiler or by one not newer than the executable, and a source
\* that was missing for a time is not compared with anything.
THEOREM JudgesAreCurrent == Spec => []JudgeIsCurrent
<1>1. CacheInv => JudgeIsCurrent
  BY DEF CacheInv
<1> QED
  BY <1>1, CacheInvariant, PTL

\* However many threads meet a new source, one of them compiles it and the others
\* wait, as long as no linker is lost and no source is dated ahead of the clock.
THEOREM SourcesAreBuiltOnce == Spec => []BuiltOnce
<1>1. CacheInv => BuiltOnce
  BY DEF CacheInv, OnceInv, BuiltOnce
<1> QED
  BY <1>1, CacheInvariant, PTL
=============================================================================
