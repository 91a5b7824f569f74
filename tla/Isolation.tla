----------------------------- MODULE Isolation -----------------------------
(***************************************************************************)
(* The beforeExec of a judged program (src/sandboxRuntime/                 *)
(* SandboxRuntime.cpp): NamespaceManager, CgroupManager and SeccompManager *)
(* applied one after the other in the child, one action per system call or *)
(* file, until execvp or a refusal.                                        *)
(*                                                                         *)
(* The calls may fail at any point.  A file may fail to open, which the    *)
(* code sees; what was put into a stream reaches the kernel only when the  *)
(* stream is destroyed, after out.good() has been asked, so a write that   *)
(* the kernel refuses is never seen.                                       *)
(***************************************************************************)
EXTENDS Naturals

VARIABLES
    env,            \* the service's environment variables and privileges
    step,           \* the call that comes next; "exec" and "refused" end it
    ns,             \* the namespaces of the child
    took, lost,     \* cgroup files whose value the kernel has taken, has refused
    rlimits,        \* the resource limits CgroupManager has set
    seccomp         \* no_new_privs, and the filter: "none", "partial" or "full"

vars == <<env, step, ns, took, lost, rlimits, seccomp>>

\* The files of the cgroup judge-<pid>, each with the one written after it;
\* a value in cgroup.procs makes the child a member.
Limits    == {"memory.max", "pids.max", "cpu.max"}
Files     == Limits \cup {"cgroup.procs"}
FileAfter == [f \in Files |->
    CASE f = "memory.max" -> "pids.max" [] f = "pids.max" -> "cpu.max"
      [] f = "cpu.max" -> "cgroup.procs" [] f = "cgroup.procs" -> "RLIMIT_AS"]

\* errno after a failed open: the three that the code tells apart, or another.
Errnos == {"ENOENT", "EPERM", "EACCES", "EMFILE"}
Maps   == {"uid", "gid"}

Init ==
    /\ env \in [nsStrict : BOOLEAN, cgStrict : BOOLEAN, cgRoot : BOOLEAN, privileged : BOOLEAN]
    /\ step = "unshare"
    /\ ns = [unshared |-> FALSE, denied |-> FALSE, maps |-> {}, private |-> FALSE]
    /\ took = {} /\ lost = {}
    /\ rlimits = {}
    /\ seccomp = [noNewPrivs |-> FALSE, filter |-> "none"]

Goto(s) == step' = s
GoOnUnless(strict, s) == step' = IF strict THEN "refused" ELSE s

-----------------------------------------------------------------------------
\* Slips of the code below, for the mutation runs.

\* Any error of setgid(0) or setuid(0) is tolerated.
BecomeRootOrNot(id, map, next) ==
    /\ step = id
    /\ Goto(next)
    /\ UNCHANGED <<env, ns, took, lost, rlimits, seccomp>>

\* Without a gid map setgid and setuid are not even tried.
MapGidOrSkip ==
    /\ step = "gidMap"
    /\ \/ ns' = [ns EXCEPT !.maps = @ \cup {"gid"}] /\ Goto("setgid")
       \/ ns' = ns /\ Goto("private")
    /\ UNCHANGED <<env, took, lost, rlimits, seccomp>>

\* Every file is tried, whatever became of those before it.
WriteEvery(f) ==
    /\ step = f
    /\ took' \in {took, took \cup {f}}
    /\ Goto(FileAfter[f])
    /\ UNCHANGED <<env, ns, lost, rlimits, seccomp>>

\* Strict mode says nothing about a root that is not set.
MakeGroupIfAsked ==
    /\ step = "mkdir"
    /\ \/ env.cgRoot /\ Goto("memory.max")
       \/ env.cgRoot /\ GoOnUnless(env.cgStrict, "RLIMIT_AS")
       \/ ~env.cgRoot /\ Goto("RLIMIT_AS")
    /\ UNCHANGED <<env, ns, took, lost, rlimits, seccomp>>

\* Without a cgroup apply() returns at once, as NamespaceManager does.
MakeGroupOrReturn ==
    /\ step = "mkdir"
    /\ \/ env.cgRoot /\ Goto("memory.max")
       \/ GoOnUnless(env.cgStrict, "noNewPrivs")
    /\ UNCHANGED <<env, ns, took, lost, rlimits, seccomp>>

-----------------------------------------------------------------------------
\* NamespaceManager::apply.  Outside strict mode a failure returns true, which
\* leaves the rest of the namespace set-up out.
Unshare ==
    /\ step = "unshare"
    /\ \/ ns' = [ns EXCEPT !.unshared = TRUE] /\ Goto("setgroups")
       \/ ns' = ns /\ GoOnUnless(env.nsStrict, "mkdir")
    /\ UNCHANGED <<env, took, lost, rlimits, seccomp>>

\* A kernel that has no setgroups file asks for no denial.
DenySetgroups ==
    /\ step = "setgroups"
    /\ \/ ns' \in {ns, [ns EXCEPT !.denied = TRUE]} /\ Goto("uidMap")
       \/ \E errno \in Errnos :
            /\ ns' = [ns EXCEPT !.denied = errno = "ENOENT"]
            /\ Goto(IF errno \in {"ENOENT", "EPERM", "EACCES"} THEN "uidMap" ELSE "refused")
    /\ UNCHANGED <<env, took, lost, rlimits, seccomp>>

MapUid ==
    /\ step = "uidMap"
    /\ \/ ns' \in {ns, [ns EXCEPT !.maps = @ \cup {"uid"}]} /\ Goto("gidMap")
       \/ ns' = ns /\ GoOnUnless(env.nsStrict, "mkdir")
    /\ UNCHANGED <<env, took, lost, rlimits, seccomp>>

\* The kernel takes a gid map only after the denial, or from a privileged caller.
MapGid ==
    /\ step = "gidMap"
    /\ \/ ns' = ns /\ Goto("setgid")
       \/ /\ ns.denied \/ env.privileged
          /\ ns' = [ns EXCEPT !.maps = @ \cup {"gid"}]
          /\ Goto("setgid")
       \/ \E errno \in Errnos :
            /\ Goto(IF errno \in {"EPERM", "EACCES"} THEN "setgid" ELSE "refused")
            /\ ns' = ns
    /\ UNCHANGED <<env, took, lost, rlimits, seccomp>>

\* setgid(0) and setuid(0): an id without a map is EINVAL, and only EPERM is
\* tolerated.
BecomeRoot(id, map, next) ==
    /\ step = id
    /\ \/ map \in ns.maps /\ Goto(next)
       \/ map \notin ns.maps /\ Goto("refused")
    /\ UNCHANGED <<env, ns, took, lost, rlimits, seccomp>>

SetGid == BecomeRoot("setgid", "gid", "setuid")
SetUid == BecomeRoot("setuid", "uid", "private")

\* mount(MS_REC | MS_PRIVATE); the sethostname after it is not looked at.
MakePrivate ==
    /\ step = "private"
    /\ \/ ns' = [ns EXCEPT !.private = TRUE] /\ Goto("mkdir")
       \/ ns' = ns /\ GoOnUnless(env.nsStrict, "mkdir")
    /\ UNCHANGED <<env, took, lost, rlimits, seccomp>>

-----------------------------------------------------------------------------
\* CgroupManager::apply.
MakeGroup ==
    /\ step = "mkdir"
    /\ \/ env.cgRoot /\ Goto("memory.max")
       \/ GoOnUnless(env.cgStrict, "RLIMIT_AS")
    /\ UNCHANGED <<env, ns, took, lost, rlimits, seccomp>>

\* writeValue: the first file that cannot be opened ends the series.
WriteFile(f) ==
    /\ step = f
    /\ \/ took' = took \cup {f} /\ UNCHANGED lost /\ Goto(FileAfter[f])
       \/ lost' = lost \cup {f} /\ UNCHANGED took /\ Goto(FileAfter[f])
       \/ UNCHANGED <<took, lost>> /\ GoOnUnless(env.cgStrict, "RLIMIT_AS")
    /\ UNCHANGED <<env, ns, rlimits, seccomp>>

\* The limits of a task are positive (SandboxService), so both are set.
SetRlimit(r, next) ==
    /\ step = r
    /\ \/ rlimits' = rlimits \cup {r} /\ Goto(next)
       \/ rlimits' = rlimits /\ Goto("refused")
    /\ UNCHANGED <<env, ns, took, lost, seccomp>>

LimitMemory == SetRlimit("RLIMIT_AS", "RLIMIT_CPU")
LimitCpu    == SetRlimit("RLIMIT_CPU", "noNewPrivs")

-----------------------------------------------------------------------------
\* SeccompManager::apply.  What seccomp_rule_add returns is not looked at.
NoNewPrivs ==
    /\ step = "noNewPrivs"
    /\ \/ seccomp' = [seccomp EXCEPT !.noNewPrivs = TRUE] /\ Goto("load")
       \/ seccomp' = seccomp /\ Goto("refused")
    /\ UNCHANGED <<env, ns, took, lost, rlimits>>

LoadFilter ==
    /\ step = "load"
    /\ \/ /\ \E filter \in {"partial", "full"} :
                 seccomp' = [seccomp EXCEPT !.filter = filter]
          /\ Goto("exec")
       \/ seccomp' = seccomp /\ Goto("refused")
    /\ UNCHANGED <<env, ns, took, lost, rlimits>>

\* beforeExec has returned: execvp, or _exit(246).
Over ==
    /\ step \in {"exec", "refused"}
    /\ UNCHANGED vars

Next ==
    \/ Unshare \/ DenySetgroups \/ MapUid \/ MapGid \/ SetGid \/ SetUid \/ MakePrivate
    \/ MakeGroup \/ (\E f \in Files : WriteFile(f)) \/ LimitMemory \/ LimitCpu
    \/ NoNewPrivs \/ LoadFilter \/ Over

Spec == Init /\ [][Next]_vars

-----------------------------------------------------------------------------
Member == "cgroup.procs" \in took
Whole  == ns.unshared /\ ns.maps = Maps /\ ns.private

\* The variables have their types, and only a namespace of its own has maps.
TypeOK ==
    /\ env \in [nsStrict : BOOLEAN, cgStrict : BOOLEAN, cgRoot : BOOLEAN, privileged : BOOLEAN]
    /\ step \in {"unshare", "setgroups", "uidMap", "gidMap", "setgid", "setuid", "private",
                 "mkdir", "RLIMIT_AS", "RLIMIT_CPU", "noNewPrivs", "load", "exec", "refused"}
                \cup Files
    /\ ns \in [unshared : BOOLEAN, denied : BOOLEAN, maps : SUBSET Maps, private : BOOLEAN]
    /\ took \in SUBSET Files /\ lost \in SUBSET Files
    /\ rlimits \in SUBSET {"RLIMIT_AS", "RLIMIT_CPU"}
    /\ seccomp \in [noNewPrivs : BOOLEAN, filter : {"none", "partial", "full"}]
    /\ ns.maps # {} => ns.unshared

\* With XDOJ_NAMESPACE_STRICT=1 a program runs only with all its namespaces, both
\* ids mapped and its mounts private, although a refused write of a map is not
\* seen: setgid(0) and setuid(0) catch it.
StrictNamespaces == step = "exec" /\ env.nsStrict => Whole

\* In either mode no program runs with one id mapped and the other not; it runs
\* without maps only where a failure was tolerated before gid_map was written.
MapsAllOrNone == step = "exec" => ns.maps \in {{}, Maps} /\ (ns.private => ns.maps = Maps)

\* A member of a cgroup has all the limits of the cgroup, up to writes that the
\* kernel has refused: no child joins a group whose set-up was given up.
MembersAreLimited == Member => Limits \subseteq took \cup lost

\* With XDOJ_CGROUP_STRICT=1 a program runs only as a member of its cgroup, up to
\* writes that the kernel has refused.
StrictGroups == step = "exec" /\ env.cgStrict => Files \subseteq took \cup lost

\* Whatever is tolerated outside strict mode, no program runs without its resource
\* limits, no_new_privs and the filter.
NeverBare ==
    step = "exec" => /\ rlimits = {"RLIMIT_AS", "RLIMIT_CPU"}
                     /\ seccomp.noNewPrivs /\ seccomp.filter # "none"

\* Design 4.2, "with XDOJ_CGROUP_STRICT=1 a failure to create the cgroup or to
\* write to it refuses the run".
StrictRefusesLostWrites == step = "exec" /\ env.cgStrict => lost = {}
=============================================================================
