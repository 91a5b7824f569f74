---------------------------- MODULE SandboxPool ----------------------------
(***************************************************************************)
(* The pool of sandbox slots (src/workerPools/SandboxPool.cpp): a vector   *)
(* of inUse flags behind a mutex and a condition variable.  acquire waits  *)
(* until some flag is clear and takes the lowest one; release clears the   *)
(* flag of the slot it is given and notifies one waiter.                   *)
(*                                                                         *)
(* As in WorkerGate, a section under the mutex is one step.  A caller that *)
(* leaves by an exception between acquire and release                      *)
(* (SandboxWorkerPool::execute has no guard there) abandons its slot.      *)
(***************************************************************************)
EXTENDS Integers, FiniteSets

CONSTANTS Threads,       \* the request threads
          Capacity,      \* the constructor's argument
          NoSlot,        \* a SandboxInstance that acquire has not filled in
          MayAbandon     \* whether runProcess may leave by an exception

Slots == 0 .. Capacity - 1

ASSUME PoolAssumption ==
    /\ IsFiniteSet(Threads)
    /\ Capacity \in Nat
    /\ NoSlot \notin Slots
    /\ MayAbandon \in BOOLEAN

VARIABLES inUse,         \* SandboxPool::inUse
          wait,          \* each thread with respect to the condition variable
          held           \* the slotId of each thread's SandboxInstance

vars == <<inUse, wait, held>>

Used    == {s \in Slots : inUse[s]}
Free    == Slots \ Used
Holders == {t \in Threads : held[t] # NoSlot}
Blocked == {t \in Threads : wait[t] = "blocked"}
Woken   == {t \in Threads : wait[t] = "woken"}

Init ==
    /\ inUse = [s \in Slots |-> FALSE]
    /\ wait = [t \in Threads |-> "none"]
    /\ held = [t \in Threads |-> NoSlot]

\* wait after notify_one has picked a member of the wait set, if there is one.
Notified ==
    IF Blocked = {} THEN {wait}
    ELSE {[wait EXCEPT ![u] = "woken"] : u \in Blocked}

-----------------------------------------------------------------------------
\* Slips of the code below, for the mutation runs: a first-fit scan that does
\* not test the flag, a release that wakes nobody, and one that also returns the
\* neighbouring slot.
TakeAnySlot(t) ==
    /\ held[t] = NoSlot
    /\ wait[t] \in {"none", "woken"}
    /\ Free # {}
    /\ inUse' = [inUse EXCEPT ![0] = TRUE]
    /\ held' = [held EXCEPT ![t] = 0]
    /\ wait' = [wait EXCEPT ![t] = "none"]

ReleaseSilently(t) ==
    /\ held[t] # NoSlot
    /\ inUse' = [inUse EXCEPT ![held[t]] = FALSE]
    /\ held' = [held EXCEPT ![t] = NoSlot]
    /\ UNCHANGED wait

ReleaseOffByOne(t) ==
    /\ held[t] # NoSlot
    /\ inUse' = [s \in Slots |-> inUse[s] /\ s \notin {held[t], held[t] + 1}]
    /\ held' = [held EXCEPT ![t] = NoSlot]
    /\ wait' \in Notified

-----------------------------------------------------------------------------
\* acquire: the predicate holds, the lowest clear flag is set.
Take(t) ==
    /\ held[t] = NoSlot
    /\ wait[t] \in {"none", "woken"}
    /\ \E s \in Free :
        /\ \A r \in Free : s <= r
        /\ inUse' = [inUse EXCEPT ![s] = TRUE]
        /\ held' = [held EXCEPT ![t] = s]
    /\ wait' = [wait EXCEPT ![t] = "none"]

\* acquire: every flag is set, the thread joins the wait set.
Block(t) ==
    /\ held[t] = NoSlot
    /\ wait[t] \in {"none", "woken"}
    /\ Free = {}
    /\ wait' = [wait EXCEPT ![t] = "blocked"]
    /\ UNCHANGED <<inUse, held>>

SpuriousWake(t) ==
    /\ wait[t] = "blocked"
    /\ wait' = [wait EXCEPT ![t] = "woken"]
    /\ UNCHANGED <<inUse, held>>

Release(t) ==
    /\ held[t] # NoSlot
    /\ inUse' = [inUse EXCEPT ![held[t]] = FALSE]
    /\ held' = [held EXCEPT ![t] = NoSlot]
    /\ wait' \in Notified

\* An exception between acquire and release: the SandboxInstance is gone, the
\* flag stays set.
Abandon(t) ==
    /\ MayAbandon
    /\ held[t] # NoSlot
    /\ held' = [held EXCEPT ![t] = NoSlot]
    /\ UNCHANGED <<inUse, wait>>

Next == \E t \in Threads :
    Take(t) \/ Block(t) \/ SpuriousWake(t) \/ Release(t) \/ Abandon(t)

Spec == Init /\ [][Next]_vars

-----------------------------------------------------------------------------
\* Flags, waiters and instances have their types, and only a thread without a
\* slot waits for one.
TypeOK ==
    /\ inUse \in [Slots -> BOOLEAN]
    /\ wait \in [Threads -> {"none", "blocked", "woken"}]
    /\ held \in [Threads -> Slots \cup {NoSlot}]
    /\ \A t \in Threads : wait[t] # "none" => held[t] = NoSlot

\* A slot directory has one user at a time, and the flag of a slot in use is
\* set whatever other threads acquire, release or abandon.
SlotExclusive ==
    /\ \A t \in Holders : inUse[held[t]]
    /\ \A t, u \in Holders : held[t] = held[u] => t = u

\* Without exceptions the flags that are set are exactly the slots held: none
\* is lost, however long the service runs.
NoSlotLost == ~MayAbandon => Used = {held[t] : t \in Holders}

\* While some thread sleeps in acquire(), every free slot is matched by a
\* woken thread that has yet to look.
NoLostWakeup == Blocked # {} => Cardinality(Free) <= Cardinality(Woken)

\* The pool admits at most Capacity holders, like a counting semaphore; a slot
\* abandoned by an exception never makes it admit more.
Sem == INSTANCE Semaphore WITH Permits <- Capacity, holders <- Holders
SemaphoreSpec == Sem!Spec
=============================================================================
