-------------------------- MODULE IsolationProofs --------------------------
(***************************************************************************)
(* Theorems about Isolation.  What holds at execvp is the work of several  *)
(* earlier calls, so each invariant is strengthened by what is known at    *)
(* every step before: which namespaces and maps there are when the step is *)
(* reached, and which files and limits it has behind it.                   *)
(***************************************************************************)
EXTENDS Isolation, TLAPS

InNamespace == {"setgroups", "uidMap", "gidMap", "setgid", "setuid", "private"}
InLimits    == {"RLIMIT_AS", "RLIMIT_CPU", "noNewPrivs", "load", "exec"}

\* The namespaces when a step is reached.
NamespaceInv ==
    /\ step = "unshare" => ~ns.unshared
    /\ step \in InNamespace => ns.unshared
    /\ step \in {"unshare", "setgroups", "uidMap"} => ns.maps = {}
    /\ step = "gidMap" => ns.maps \subseteq {"uid"}
    /\ step = "setuid" => "gid" \in ns.maps
    /\ step = "private" => ns.maps = Maps
    /\ step \in InNamespace => ~ns.private
    /\ ns.private => ns.maps = Maps
    /\ step \in {"mkdir"} \cup Files \cup InLimits =>
        ns.maps \in {{}, Maps} /\ (env.nsStrict => Whole)

\* The files that have been written to when a file comes next.
Behind(f) ==
    CASE f = "memory.max" -> {} [] f = "pids.max" -> {"memory.max"}
      [] f = "cpu.max" -> {"memory.max", "pids.max"} [] f = "cgroup.procs" -> Limits

GroupInv ==
    /\ \A f \in Files : step = f => Behind(f) \subseteq took \cup lost /\ ~Member
    /\ step \in {"unshare", "mkdir"} \cup InNamespace => ~Member
    /\ Member => Limits \subseteq took \cup lost
    /\ step \in InLimits /\ env.cgStrict => Files \subseteq took \cup lost

\* The limits and the filter behind each step.
LimitInv ==
    /\ step \in {"RLIMIT_CPU", "noNewPrivs", "load", "exec"} => "RLIMIT_AS" \in rlimits
    /\ step \in {"noNewPrivs", "load", "exec"} => "RLIMIT_CPU" \in rlimits
    /\ step \in {"load", "exec"} => seccomp.noNewPrivs
    /\ step = "exec" => seccomp.filter # "none"

IsolationInv == TypeOK /\ NamespaceInv /\ GroupInv /\ LimitInv

-----------------------------------------------------------------------------
\* A step leads from one call to the next and keeps every variable in its type.
LEMMA StepTypeOK == TypeOK /\ NamespaceInv /\ [Next]_vars => TypeOK'
<1> SUFFICES ASSUME TypeOK, NamespaceInv, [Next]_vars PROVE TypeOK'
  OBVIOUS
<1> USE DEF TypeOK, NamespaceInv, InNamespace, Files, Limits, FileAfter, Maps
<1>1. ASSUME Unshare PROVE TypeOK'
  BY <1>1 DEF Unshare, Goto, GoOnUnless
<1>2. ASSUME DenySetgroups PROVE TypeOK'
  BY <1>2 DEF DenySetgroups, Goto, Errnos
<1>3. ASSUME MapUid PROVE TypeOK'
  BY <1>3 DEF MapUid, Goto, GoOnUnless
<1>4. ASSUME MapGid PROVE TypeOK'
  BY <1>4 DEF MapGid, Goto, Errnos
<1>5. ASSUME SetGid PROVE TypeOK'
  BY <1>5 DEF SetGid, BecomeRoot, Goto
<1>6. ASSUME SetUid PROVE TypeOK'
  BY <1>6 DEF SetUid, BecomeRoot, Goto
<1>7. ASSUME MakePrivate PROVE TypeOK'
  BY <1>7 DEF MakePrivate, Goto, GoOnUnless
<1>8. ASSUME MakeGroup PROVE TypeOK'
  BY <1>8 DEF MakeGroup, Goto, GoOnUnless
<1>9. ASSUME NEW f \in Files, WriteFile(f) PROVE TypeOK'
  BY <1>9 DEF WriteFile, Goto, GoOnUnless
<1>10. ASSUME LimitMemory PROVE TypeOK'
  <2>1. rlimits' \in {rlimits, rlimits \cup {"RLIMIT_AS"}} /\ step' \in {"RLIMIT_CPU", "refused"}
    BY <1>10 DEF LimitMemory, SetRlimit, Goto
  <2>2. UNCHANGED <<env, ns, took, lost, seccomp>>
    BY <1>10 DEF LimitMemory, SetRlimit
  <2> QED
    BY <2>1, <2>2
<1>11. ASSUME LimitCpu PROVE TypeOK'
  <2>1. rlimits' \in {rlimits, rlimits \cup {"RLIMIT_CPU"}} /\ step' \in {"noNewPrivs", "refused"}
    BY <1>11 DEF LimitCpu, SetRlimit, Goto
  <2>2. UNCHANGED <<env, ns, took, lost, seccomp>>
    BY <1>11 DEF LimitCpu, SetRlimit
  <2> QED
    BY <2>1, <2>2
<1>12. ASSUME NoNewPrivs PROVE TypeOK'
  BY <1>12 DEF NoNewPrivs, Goto
<1>13. ASSUME LoadFilter PROVE TypeOK'
  BY <1>13 DEF LoadFilter, Goto
<1>14. ASSUME Over PROVE TypeOK'
  BY <1>14 DEF Over, vars
<1>15. CASE UNCHANGED vars
  BY <1>15 DEF vars
<1> QED
  BY <1>1, <1>2, <1>3, <1>4, <1>5, <1>6, <1>7, <1>8, <1>9, <1>10, <1>11, <1>12, <1>13, <1>14, <1>15 DEF Next

\* Only the calls of NamespaceManager change a namespace, and each knows what the
\* calls before it have done.
LEMMA StepNamespaceInv == TypeOK /\ NamespaceInv /\ [Next]_vars => NamespaceInv'
<1> SUFFICES ASSUME TypeOK, NamespaceInv, [Next]_vars PROVE NamespaceInv'
  OBVIOUS
<1> USE DEF TypeOK, NamespaceInv, InNamespace, InLimits, Files, Limits, FileAfter, Maps, Whole
<1>1. ASSUME Unshare PROVE NamespaceInv'
  BY <1>1 DEF Unshare, Goto, GoOnUnless
<1>2. ASSUME DenySetgroups PROVE NamespaceInv'
  BY <1>2 DEF DenySetgroups, Goto, Errnos
<1>3. ASSUME MapUid PROVE NamespaceInv'
  BY <1>3 DEF MapUid, Goto, GoOnUnless
<1>4. ASSUME MapGid PROVE NamespaceInv'
  BY <1>4 DEF MapGid, Goto, Errnos
<1>5. ASSUME SetGid PROVE NamespaceInv'
  BY <1>5 DEF SetGid, BecomeRoot, Goto
<1>6. ASSUME SetUid PROVE NamespaceInv'
  BY <1>6 DEF SetUid, BecomeRoot, Goto
<1>7. ASSUME MakePrivate PROVE NamespaceInv'
  BY <1>7 DEF MakePrivate, Goto, GoOnUnless
<1>8. ASSUME MakeGroup PROVE NamespaceInv'
  BY <1>8 DEF MakeGroup, Goto, GoOnUnless
<1>9. ASSUME NEW f \in Files, WriteFile(f) PROVE NamespaceInv'
  BY <1>9 DEF WriteFile, Goto, GoOnUnless
<1>10. ASSUME LimitMemory PROVE NamespaceInv'
  BY <1>10 DEF LimitMemory, SetRlimit, Goto
<1>11. ASSUME LimitCpu PROVE NamespaceInv'
  BY <1>11 DEF LimitCpu, SetRlimit, Goto
<1>12. ASSUME NoNewPrivs PROVE NamespaceInv'
  BY <1>12 DEF NoNewPrivs, Goto
<1>13. ASSUME LoadFilter PROVE NamespaceInv'
  BY <1>13 DEF LoadFilter, Goto
<1>14. ASSUME Over PROVE NamespaceInv'
  BY <1>14 DEF Over, vars
<1>15. CASE UNCHANGED vars
  BY <1>15 DEF vars
<1> QED
  BY <1>1, <1>2, <1>3, <1>4, <1>5, <1>6, <1>7, <1>8, <1>9, <1>10, <1>11, <1>12, <1>13, <1>14, <1>15 DEF Next

\* A file is reached only through all the files before it.
LEMMA StepGroupInv == TypeOK /\ GroupInv /\ [Next]_vars => GroupInv'
<1> SUFFICES ASSUME TypeOK, GroupInv, [Next]_vars PROVE GroupInv'
  OBVIOUS
<1> USE DEF TypeOK, GroupInv, Behind, Member, InNamespace, InLimits, Files, Limits, FileAfter
<1>1. ASSUME Unshare PROVE GroupInv'
  BY <1>1 DEF Unshare, Goto, GoOnUnless
<1>2. ASSUME DenySetgroups PROVE GroupInv'
  BY <1>2 DEF DenySetgroups, Goto, Errnos
<1>3. ASSUME MapUid PROVE GroupInv'
  BY <1>3 DEF MapUid, Goto, GoOnUnless
<1>4. ASSUME MapGid PROVE GroupInv'
  BY <1>4 DEF MapGid, Goto, Errnos
<1>5. ASSUME SetGid PROVE GroupInv'
  BY <1>5 DEF SetGid, BecomeRoot, Goto
<1>6. ASSUME SetUid PROVE GroupInv'
  BY <1>6 DEF SetUid, BecomeRoot, Goto
<1>7. ASSUME MakePrivate PROVE GroupInv'
  BY <1>7 DEF MakePrivate, Goto, GoOnUnless
<1>8. ASSUME MakeGroup PROVE GroupInv'
  BY <1>8 DEF MakeGroup, Goto, GoOnUnless
<1>9. ASSUME NEW f \in Files, WriteFile(f) PROVE GroupInv'
  BY <1>9 DEF WriteFile, Goto, GoOnUnless
<1>10. ASSUME LimitMemory PROVE GroupInv'
  BY <1>10 DEF LimitMemory, SetRlimit, Goto
<1>11. ASSUME LimitCpu PROVE GroupInv'
  BY <1>11 DEF LimitCpu, SetRlimit, Goto
<1>12. ASSUME NoNewPrivs PROVE GroupInv'
  BY <1>12 DEF NoNewPrivs, Goto
<1>13. ASSUME LoadFilter PROVE GroupInv'
  BY <1>13 DEF LoadFilter, Goto
<1>14. ASSUME Over PROVE GroupInv'
  BY <1>14 DEF Over, vars
<1>15. CASE UNCHANGED vars
  BY <1>15 DEF vars
<1> QED
  BY <1>1, <1>2, <1>3, <1>4, <1>5, <1>6, <1>7, <1>8, <1>9, <1>10, <1>11, <1>12, <1>13, <1>14, <1>15 DEF Next

\* Each resource limit and the filter are behind the steps that follow them.
LEMMA StepLimitInv == TypeOK /\ LimitInv /\ [Next]_vars => LimitInv'
<1> SUFFICES ASSUME TypeOK, LimitInv, [Next]_vars PROVE LimitInv'
  OBVIOUS
<1> USE DEF TypeOK, LimitInv, Files, Limits, FileAfter
<1>1. ASSUME Unshare PROVE LimitInv'
  BY <1>1 DEF Unshare, Goto, GoOnUnless
<1>2. ASSUME DenySetgroups PROVE LimitInv'
  BY <1>2 DEF DenySetgroups, Goto, Errnos
<1>3. ASSUME MapUid PROVE LimitInv'
  BY <1>3 DEF MapUid, Goto, GoOnUnless
<1>4. ASSUME MapGid PROVE LimitInv'
  BY <1>4 DEF MapGid, Goto, Errnos
<1>5. ASSUME SetGid PROVE LimitInv'
  BY <1>5 DEF SetGid, BecomeRoot, Goto
<1>6. ASSUME SetUid PROVE LimitInv'
  BY <1>6 DEF SetUid, BecomeRoot, Goto
<1>7. ASSUME MakePrivate PROVE LimitInv'
  BY <1>7 DEF MakePrivate, Goto, GoOnUnless
<1>8. ASSUME MakeGroup PROVE LimitInv'
  BY <1>8 DEF MakeGroup, Goto, GoOnUnless
<1>9. ASSUME NEW f \in Files, WriteFile(f) PROVE LimitInv'
  BY <1>9 DEF WriteFile, Goto, GoOnUnless
<1>10. ASSUME LimitMemory PROVE LimitInv'
  BY <1>10 DEF LimitMemory, SetRlimit, Goto
<1>11. ASSUME LimitCpu PROVE LimitInv'
  BY <1>11 DEF LimitCpu, SetRlimit, Goto
<1>12. ASSUME NoNewPrivs PROVE LimitInv'
  BY <1>12 DEF NoNewPrivs, Goto
<1>13. ASSUME LoadFilter PROVE LimitInv'
  BY <1>13 DEF LoadFilter, Goto
<1>14. ASSUME Over PROVE LimitInv'
  BY <1>14 DEF Over, vars
<1>15. CASE UNCHANGED vars
  BY <1>15 DEF vars
<1> QED
  BY <1>1, <1>2, <1>3, <1>4, <1>5, <1>6, <1>7, <1>8, <1>9, <1>10, <1>11, <1>12, <1>13, <1>14, <1>15 DEF Next

-----------------------------------------------------------------------------
\* The inductive invariant of the set-up: what is in force at every step.
THEOREM IsolationInvariant == Spec => []IsolationInv
<1>1. Init => IsolationInv
  BY DEF Init, IsolationInv, TypeOK, NamespaceInv, GroupInv, LimitInv, Behind, Member,
         InNamespace, InLimits, Files, Limits, Maps
<1>2. IsolationInv /\ [Next]_vars => IsolationInv'
  BY StepTypeOK, StepNamespaceInv, StepGroupInv, StepLimitInv DEF IsolationInv
<1> QED
  BY <1>1, <1>2, PTL DEF Spec

\* Every reachable state is well typed, and the maps are those of a namespace of
\* the child's own.
THEOREM TypeCorrect == Spec => []TypeOK
<1>1. IsolationInv => TypeOK
  BY DEF IsolationInv
<1> QED
  BY <1>1, IsolationInvariant, PTL

\* In strict mode execvp comes after all of NamespaceManager has taken effect.
THEOREM StrictNamespacesHold == Spec => []StrictNamespaces
<1>1. IsolationInv => StrictNamespaces
  BY DEF IsolationInv, NamespaceInv, StrictNamespaces, InLimits
<1> QED
  BY <1>1, IsolationInvariant, PTL

\* Both maps are in force at execvp, or none.
THEOREM MapsAreAllOrNone == Spec => []MapsAllOrNone
<1>1. IsolationInv => MapsAllOrNone
  BY DEF IsolationInv, NamespaceInv, MapsAllOrNone, InLimits
<1> QED
  BY <1>1, IsolationInvariant, PTL

\* No member of a cgroup without the limits of the cgroup.
THEOREM MembersLimited == Spec => []MembersAreLimited
<1>1. IsolationInv => MembersAreLimited
  BY DEF IsolationInv, GroupInv, MembersAreLimited
<1> QED
  BY <1>1, IsolationInvariant, PTL

\* In strict mode execvp comes after the membership has been written.
THEOREM StrictGroupsHold == Spec => []StrictGroups
<1>1. IsolationInv => StrictGroups
  BY DEF IsolationInv, GroupInv, StrictGroups, InLimits
<1> QED
  BY <1>1, IsolationInvariant, PTL

\* In every mode execvp comes after the limits and the filter.
THEOREM NeverRunsBare == Spec => []NeverBare
<1>1. IsolationInv => NeverBare
  <2> SUFFICES ASSUME IsolationInv, step = "exec"
               PROVE  /\ rlimits = {"RLIMIT_AS", "RLIMIT_CPU"}
                      /\ seccomp.noNewPrivs /\ seccomp.filter # "none"
    BY DEF NeverBare
  <2>1. rlimits \subseteq {"RLIMIT_AS", "RLIMIT_CPU"}
    BY DEF IsolationInv, TypeOK
  <2>2. "RLIMIT_AS" \in rlimits /\ "RLIMIT_CPU" \in rlimits
    BY DEF IsolationInv, LimitInv
  <2>3. seccomp.noNewPrivs /\ seccomp.filter # "none"
    BY DEF IsolationInv, LimitInv
  <2> QED
    BY <2>1, <2>2, <2>3
<1> QED
  BY <1>1, IsolationInvariant, PTL
=============================================================================
