-------------------------- MODULE WorkerGateProofs --------------------------
(***************************************************************************)
(* Proofs about WorkerGate, for every finite set of threads and every      *)
(* worker count.  The counter equals the number of threads inside (the     *)
(* inductive core), from which the bound, the absence of lost wake-ups and *)
(* the refinement of the counting semaphore follow.                        *)
(***************************************************************************)
EXTENDS WorkerGate, FiniteSetTheorems, TLAPS

\* Subsets of Threads are finite and their cardinalities are naturals.
LEMMA ThreadSetsFinite ==
    ASSUME NEW S \in SUBSET Threads
    PROVE  IsFiniteSet(S) /\ Cardinality(S) \in Nat
BY GateAssumption, FS_Subset, FS_CardinalityType

\* The four operations, described by what they do to the sets of threads
\* inside, blocked and woken.
LEMMA EnterEffect ==
    ASSUME TypeOK, NEW t \in Threads, Enter(t)
    PROVE  /\ t \notin Inside
           /\ Inside' = Inside \cup {t}
           /\ Blocked' = Blocked
           /\ Woken' = Woken \ {t}
BY DEF TypeOK, Enter, Inside, Blocked, Woken

LEMMA BlockEffect ==
    ASSUME TypeOK, NEW t \in Threads, Block(t)
    PROVE  /\ Inside' = Inside
           /\ Blocked' = Blocked \cup {t}
           /\ Woken' = Woken \ {t}
BY DEF TypeOK, Block, Inside, Blocked, Woken

LEMMA WakeEffect ==
    ASSUME TypeOK, NEW t \in Threads, SpuriousWake(t)
    PROVE  /\ Inside' = Inside
           /\ Blocked' = Blocked \ {t}
           /\ Woken' = Woken \cup {t}
BY DEF TypeOK, SpuriousWake, Inside, Blocked, Woken

\* A departure wakes nobody only if nobody sleeps.
LEMMA LeaveEffect ==
    ASSUME TypeOK, NEW t \in Threads, Leave(t)
    PROVE  /\ t \in Inside
           /\ Inside' = Inside \ {t}
           /\ \/ Blocked = {} /\ Blocked' = {} /\ Woken' = Woken
              \/ \E u \in Blocked : /\ u \notin Woken
                                    /\ Blocked' = Blocked \ {u}
                                    /\ Woken' = Woken \cup {u}
<1>1. t \in Inside /\ t \notin Blocked /\ t \notin Woken
  BY DEF Leave, Inside, Blocked, Woken
<1>2. CASE Blocked = {}
  <2>1. gate' = [gate EXCEPT ![t] = "outside"]
    BY <1>2 DEF Leave, NotifiedBy
  <2> QED
    BY <1>1, <1>2, <2>1 DEF TypeOK, Inside, Blocked, Woken
<1>3. CASE Blocked # {}
  <2>1. PICK u \in Blocked : gate' = [gate EXCEPT ![t] = "outside", ![u] = "woken"]
    BY <1>3 DEF Leave, NotifiedBy
  <2>2. u \in Threads /\ u # t /\ u \notin Woken /\ u \notin Inside
    BY <1>1 DEF Blocked, Woken, Inside
  <2>3. Inside' = Inside \ {t} /\ Blocked' = Blocked \ {u} /\ Woken' = Woken \cup {u}
    BY <1>1, <2>1, <2>2 DEF TypeOK, Inside, Blocked, Woken
  <2> QED
    BY <1>1, <2>2, <2>3
<1> QED
  BY <1>2, <1>3

-----------------------------------------------------------------------------
THEOREM InitTypeOK == Init => TypeOK
BY DEF Init, TypeOK

\* The counter and the places keep their types.  Leave needs the count: the
\* counter it decrements is positive because a thread is inside.
LEMMA StepTypeOK ==
    ASSUME TypeOK, activeWorkers = Cardinality(Inside), [Next]_vars
    PROVE  TypeOK'
<1>1. CASE UNCHANGED vars
  BY <1>1 DEF TypeOK, vars
<1>2. ASSUME NEW t \in Threads, Enter(t) PROVE TypeOK'
  BY <1>2 DEF TypeOK, Enter
<1>3. ASSUME NEW t \in Threads, Block(t) PROVE TypeOK'
  BY <1>3 DEF TypeOK, Block
<1>4. ASSUME NEW t \in Threads, SpuriousWake(t) PROVE TypeOK'
  BY <1>4 DEF TypeOK, SpuriousWake
<1>5. ASSUME NEW t \in Threads, Leave(t) PROVE TypeOK'
  <2>1. Inside \in SUBSET Threads /\ t \in Inside
    BY <1>5 DEF Inside, Leave
  <2>2. Cardinality(Inside) # 0
    BY <2>1, ThreadSetsFinite, FS_EmptySet
  <2>3. activeWorkers' \in Nat
    BY <1>5, <2>2 DEF TypeOK, Leave
  <2>4. gate' \in [Threads -> {"outside", "blocked", "woken", "inside"}]
    BY <1>5 DEF TypeOK, Leave, NotifiedBy, Blocked
  <2> QED
    BY <2>3, <2>4 DEF TypeOK
<1> QED
  BY <1>1, <1>2, <1>3, <1>4, <1>5 DEF Next

\* What one step does to the count and to its bound.
LEMMA StepActiveCountExact ==
    ASSUME TypeOK, ActiveCountExact, [Next]_vars
    PROVE  ActiveCountExact'
<1>0. Inside \in SUBSET Threads /\ IsFiniteSet(Inside) /\ Cardinality(Inside) \in Nat
  BY ThreadSetsFinite DEF Inside
<1>1. CASE UNCHANGED vars
  BY <1>1 DEF ActiveCountExact, Inside, vars
<1>2. ASSUME NEW t \in Threads, Enter(t) PROVE ActiveCountExact'
  <2>1. t \notin Inside /\ Inside' = Inside \cup {t}
    BY <1>2, EnterEffect
  <2>2. Cardinality(Inside') = Cardinality(Inside) + 1
    BY <1>0, <2>1, FS_AddElement
  <2> QED
    BY <1>0, <1>2, <2>2, GateAssumption DEF ActiveCountExact, Enter
<1>3. ASSUME NEW t \in Threads, Block(t) PROVE ActiveCountExact'
  BY <1>3, BlockEffect DEF ActiveCountExact, Block
<1>4. ASSUME NEW t \in Threads, SpuriousWake(t) PROVE ActiveCountExact'
  BY <1>4, WakeEffect DEF ActiveCountExact, SpuriousWake
<1>5. ASSUME NEW t \in Threads, Leave(t) PROVE ActiveCountExact'
  <2>1. t \in Inside /\ Inside' = Inside \ {t}
    BY <1>5, LeaveEffect
  <2>2. Cardinality(Inside') = Cardinality(Inside) - 1
    BY <1>0, <2>1, FS_RemoveElement
  <2> QED
    BY <1>0, <1>5, <2>2, GateAssumption DEF ActiveCountExact, Leave
<1> QED
  BY <1>1, <1>2, <1>3, <1>4, <1>5 DEF Next

\* A free slot is matched by a woken thread: an admission uses up one of each,
\* a thread only falls asleep when nothing is free, and a departure that frees
\* a slot wakes somebody if anybody sleeps.
LEMMA StepNoLostWakeup ==
    ASSUME TypeOK, NoLostWakeup, [Next]_vars
    PROVE  NoLostWakeup'
<1>0. /\ Woken \in SUBSET Threads /\ IsFiniteSet(Woken) /\ Cardinality(Woken) \in Nat
      /\ Woken' \in SUBSET Threads /\ IsFiniteSet(Woken') /\ Cardinality(Woken') \in Nat
  BY ThreadSetsFinite DEF Woken
<1>a. activeWorkers \in Nat /\ WorkerCount \in Nat
  BY GateAssumption DEF TypeOK
<1>1. CASE UNCHANGED vars
  BY <1>1 DEF NoLostWakeup, Blocked, Woken, vars
<1>2. ASSUME NEW t \in Threads, Enter(t) PROVE NoLostWakeup'
  <2>1. Blocked' = Blocked /\ Woken' = Woken \ {t}
    BY <1>2, EnterEffect
  <2>2. Cardinality(Woken') >= Cardinality(Woken) - 1
    BY <1>0, <2>1, FS_RemoveElement
  <2> QED
    BY <1>0, <1>a, <1>2, <2>1, <2>2 DEF NoLostWakeup, Enter
<1>3. ASSUME NEW t \in Threads, Block(t) PROVE NoLostWakeup'
  BY <1>0, <1>a, <1>3 DEF NoLostWakeup, Block
<1>4. ASSUME NEW t \in Threads, SpuriousWake(t) PROVE NoLostWakeup'
  <2>1. Blocked' = Blocked \ {t} /\ Woken' = Woken \cup {t} /\ activeWorkers' = activeWorkers
    BY <1>4, WakeEffect DEF SpuriousWake
  <2>2. Cardinality(Woken') >= Cardinality(Woken)
    BY <1>0, <2>1, FS_AddElement
  <2> QED
    BY <1>0, <1>a, <2>1, <2>2 DEF NoLostWakeup
<1>5. ASSUME NEW t \in Threads, Leave(t) PROVE NoLostWakeup'
  <2>1. activeWorkers' = activeWorkers - 1
    BY <1>5 DEF Leave
  <2>2. CASE Blocked' = {}
    BY <2>2 DEF NoLostWakeup
  <2>3. CASE Blocked' # {}
    <3>1. PICK u \in Blocked : u \notin Woken /\ Woken' = Woken \cup {u}
      BY <1>5, <2>3, LeaveEffect
    <3>2. Cardinality(Woken') = Cardinality(Woken) + 1
      BY <1>0, <3>1, FS_AddElement
    <3>3. WorkerCount - activeWorkers <= Cardinality(Woken)
      BY <3>1 DEF NoLostWakeup
    <3> QED
      BY <1>0, <1>a, <2>1, <3>2, <3>3 DEF NoLostWakeup
  <2> QED
    BY <2>2, <2>3
<1> QED
  BY <1>1, <1>2, <1>3, <1>4, <1>5 DEF Next

IInv == TypeOK /\ ActiveCountExact /\ NoLostWakeup

LEMMA InitIInv == Init => IInv
<1> SUFFICES ASSUME Init PROVE IInv
  OBVIOUS
<1>1. Inside = {} /\ Blocked = {}
  BY DEF Init, Inside, Blocked
<1>2. ActiveCountExact
  BY <1>1, FS_EmptySet, GateAssumption DEF Init, ActiveCountExact
<1> QED
  BY <1>1, <1>2, InitTypeOK DEF IInv, NoLostWakeup

LEMMA StepIInv == IInv /\ [Next]_vars => IInv'
BY StepTypeOK, StepActiveCountExact, StepNoLostWakeup DEF IInv, ActiveCountExact

\* The inductive invariant holds in every behaviour of the gate.
THEOREM GateInvariant == Spec => []IInv
BY InitIInv, StepIInv, PTL DEF Spec

\* Every state of a gate is well typed.
THEOREM TypeCorrect == Spec => []TypeOK
<1>1. IInv => TypeOK
  BY DEF IInv
<1> QED
  BY <1>1, GateInvariant, PTL

\* compile() and execute() count exactly the threads inside them and admit at
\* most workerCount of them, for every number of threads and workers.
THEOREM CountIsExact == Spec => []ActiveCountExact
<1>1. IInv => ActiveCountExact
  BY DEF IInv
<1> QED
  BY <1>1, GateInvariant, PTL

\* notify_one never leaves a free slot and only sleeping threads behind.
THEOREM WakeupsAreNotLost == Spec => []NoLostWakeup
<1>1. IInv => NoLostWakeup
  BY DEF IInv
<1> QED
  BY <1>1, GateInvariant, PTL

\* The activeWorkers counter with its condition variable implements the
\* counting semaphore of the design document (3.2).
THEOREM ImplementsSemaphore == Spec => SemaphoreSpec
<1>1. Init => Sem!Init
  BY DEF Init, Sem!Init, Inside
<1>2. IInv /\ [Next]_vars => [Sem!Next]_Inside
  <2> SUFFICES ASSUME IInv, [Next]_vars PROVE Sem!Next \/ Inside' = Inside
    OBVIOUS
  <2>0. TypeOK /\ ActiveCountExact
    BY DEF IInv
  <2>1. CASE UNCHANGED vars
    BY <2>1 DEF vars, Inside
  <2>2. ASSUME NEW t \in Threads, Enter(t) PROVE Sem!Next
    <3>1. t \notin Inside /\ Inside' = Inside \cup {t}
      BY <2>0, <2>2, EnterEffect
    <3>2. Cardinality(Inside) < WorkerCount
      BY <2>0, <2>2 DEF Enter, ActiveCountExact
    <3>3. Sem!Cardinality(Inside) = Cardinality(Inside)
      BY DEF Sem!Cardinality, Cardinality
    <3> QED
      BY <3>1, <3>2, <3>3 DEF Sem!Next, Sem!Acquire
  <2>3. ASSUME NEW t \in Threads, Block(t) \/ SpuriousWake(t) PROVE Inside' = Inside
    BY <2>0, <2>3, BlockEffect, WakeEffect
  <2>4. ASSUME NEW t \in Threads, Leave(t) PROVE Sem!Next
    <3>1. t \in Inside /\ Inside' = Inside \ {t}
      BY <2>0, <2>4, LeaveEffect
    <3> QED
      BY <3>1 DEF Sem!Next, Sem!Release
  <2> QED
    BY <2>1, <2>2, <2>3, <2>4 DEF Next
<1> QED
  BY <1>1, <1>2, GateInvariant, PTL DEF Spec, SemaphoreSpec, Sem!Spec
=============================================================================
