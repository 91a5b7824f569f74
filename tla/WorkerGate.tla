----------------------------- MODULE WorkerGate -----------------------------
(***************************************************************************)
(* The admission protocol that CompilerPool::compile and                   *)
(* SandboxWorkerPool::execute share line for line: a counter of active     *)
(* workers, a mutex and a condition variable.                              *)
(*                                                                         *)
(* Every access to the counter is made under the mutex and no section that *)
(* holds the mutex blocks, so each section is one atomic step and the      *)
(* mutex itself needs no variable.  What is kept in full is the condition  *)
(* variable: a thread that finds the predicate false joins the wait set, a *)
(* notify_one moves an arbitrary member out of it, a member may also wake  *)
(* for no reason, and a woken thread has to win the mutex and test the     *)
(* predicate again, against threads that have only just arrived.           *)
(***************************************************************************)
EXTENDS Integers, FiniteSets

CONSTANTS Threads,       \* the request threads that call the pool
          WorkerCount    \* CompilerPool::workerCount, SandboxWorkerPool::workerCount

ASSUME GateAssumption == IsFiniteSet(Threads) /\ WorkerCount \in Nat

VARIABLES activeWorkers, \* the pool's counter
          gate           \* where each thread is with respect to the pool

vars == <<activeWorkers, gate>>

Inside  == {t \in Threads : gate[t] = "inside"}
Blocked == {t \in Threads : gate[t] = "blocked"}
Woken   == {t \in Threads : gate[t] = "woken"}

Init ==
    /\ activeWorkers = 0
    /\ gate = [t \in Threads |-> "outside"]

\* gate after t has left and notify_one has picked a member of the wait set,
\* if there is one.
NotifiedBy(t) ==
    IF Blocked = {} THEN {[gate EXCEPT ![t] = "outside"]}
    ELSE {[gate EXCEPT ![t] = "outside", ![u] = "woken"] : u \in Blocked}

-----------------------------------------------------------------------------
\* Slips of the code below, for the mutation runs: the predicate written with
\* <=, and a guard that forgets to notify.
EnterOneTooMany(t) ==
    /\ gate[t] \in {"outside", "woken"}
    /\ activeWorkers <= WorkerCount
    /\ activeWorkers' = activeWorkers + 1
    /\ gate' = [gate EXCEPT ![t] = "inside"]

LeaveSilently(t) ==
    /\ gate[t] = "inside"
    /\ activeWorkers' = activeWorkers - 1
    /\ gate' = [gate EXCEPT ![t] = "outside"]

-----------------------------------------------------------------------------
\* A thread that arrives, or has been woken, holds the mutex and finds a slot.
Enter(t) ==
    /\ gate[t] \in {"outside", "woken"}
    /\ activeWorkers < WorkerCount
    /\ activeWorkers' = activeWorkers + 1
    /\ gate' = [gate EXCEPT ![t] = "inside"]

\* The same test fails: wait() gives the mutex up and joins the wait set.
Block(t) ==
    /\ gate[t] \in {"outside", "woken"}
    /\ ~(activeWorkers < WorkerCount)
    /\ gate' = [gate EXCEPT ![t] = "blocked"]
    /\ UNCHANGED activeWorkers

\* A condition variable may wake a thread without any notification.
SpuriousWake(t) ==
    /\ gate[t] = "blocked"
    /\ gate' = [gate EXCEPT ![t] = "woken"]
    /\ UNCHANGED activeWorkers

\* The destructor of the local SlotGuard.
Leave(t) ==
    /\ gate[t] = "inside"
    /\ activeWorkers' = activeWorkers - 1
    /\ gate' \in NotifiedBy(t)

Next == \E t \in Threads : Enter(t) \/ Block(t) \/ SpuriousWake(t) \/ Leave(t)

Spec == Init /\ [][Next]_vars

\* Only woken threads are assumed to be scheduled: an arrival may never come
\* and a thread may stay inside for ever.
FairSpec == Spec /\ \A t \in Threads : WF_vars(gate[t] = "woken" /\ (Enter(t) \/ Block(t)))

-----------------------------------------------------------------------------
\* The counter is a natural number, and every thread is in one known place.
TypeOK ==
    /\ activeWorkers \in Nat
    /\ gate \in [Threads -> {"outside", "blocked", "woken", "inside"}]

\* The counter is exactly the number of threads between ++activeWorkers and
\* the guard's --activeWorkers, and never exceeds workerCount, however newcomers
\* and woken threads overtake each other.
ActiveCountExact ==
    /\ activeWorkers = Cardinality(Inside)
    /\ activeWorkers <= WorkerCount

\* While some thread sleeps in wait(), every free slot is matched by a thread
\* that has been woken and has yet to test the predicate.  One notify_one per
\* departure is therefore enough, although a newcomer may take the slot the
\* notification was meant for.
NoLostWakeup ==
    Blocked # {} => WorkerCount - activeWorkers <= Cardinality(Woken)

\* The pool is the counting semaphore the design document describes.
Sem == INSTANCE Semaphore WITH Permits <- WorkerCount, holders <- Inside
SemaphoreSpec == Sem!Spec

\* A sleeping thread and a free slot do not coexist for ever, even if nobody
\* ever leaves again.
FreeSlotHandedOver ==
    (Blocked # {} /\ activeWorkers < WorkerCount)
        ~> (Blocked = {} \/ activeWorkers = WorkerCount)
=============================================================================
