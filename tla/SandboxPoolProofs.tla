------------------------- MODULE SandboxPoolProofs -------------------------
(***************************************************************************)
(* Proofs about SandboxPool, for every capacity and every finite set of    *)
(* threads, with and without exceptions in the callers.                    *)
(***************************************************************************)
EXTENDS SandboxPool, FiniteSetTheorems, TLAPS

LEMMA ThreadSetsFinite ==
    ASSUME NEW S \in SUBSET Threads
    PROVE  IsFiniteSet(S) /\ Cardinality(S) \in Nat
BY PoolAssumption, FS_Subset, FS_CardinalityType

LEMMA SlotsFinite == IsFiniteSet(Slots) /\ Cardinality(Slots) = Capacity
BY PoolAssumption, FS_Interval DEF Slots

LEMMA SlotSetsFinite ==
    ASSUME NEW S \in SUBSET Slots
    PROVE  IsFiniteSet(S) /\ Cardinality(S) \in Nat
BY SlotsFinite, FS_Subset, FS_CardinalityType

\* One element more, one element less.
LEMMA AddOne ==
    ASSUME NEW S, IsFiniteSet(S), NEW x
    PROVE  /\ Cardinality(S \cup {x}) \in Nat
           /\ Cardinality(S) <= Cardinality(S \cup {x})
           /\ Cardinality(S \cup {x}) <= Cardinality(S) + 1
           /\ x \notin S => Cardinality(S \cup {x}) = Cardinality(S) + 1
<1>1. Cardinality(S) \in Nat
  BY FS_CardinalityType
<1>2. Cardinality(S \cup {x}) = IF x \in S THEN Cardinality(S) ELSE Cardinality(S) + 1
  BY FS_AddElement
<1> QED
  BY <1>1, <1>2

LEMMA RemoveOne ==
    ASSUME NEW S, IsFiniteSet(S), NEW x
    PROVE  /\ Cardinality(S \ {x}) \in Nat
           /\ Cardinality(S \ {x}) >= Cardinality(S) - 1
           /\ x \in S => Cardinality(S \ {x}) = Cardinality(S) - 1
<1>1. Cardinality(S) \in Nat /\ Cardinality(S \ {x}) \in Nat
  BY FS_CardinalityType, FS_RemoveElement
<1>2. Cardinality(S \ {x}) = IF x \in S THEN Cardinality(S) - 1 ELSE Cardinality(S)
  BY FS_RemoveElement
<1> QED
  BY <1>1, <1>2

\* The operations, described by what they do to the sets the properties use.
LEMMA TakeEffect ==
    ASSUME TypeOK, NEW t \in Threads, Take(t)
    PROVE  \E s \in Slots :
            /\ s \notin Used /\ Used' = Used \cup {s} /\ Free' = Free \ {s}
            /\ t \notin Holders /\ Holders' = Holders \cup {t}
            /\ held' = [held EXCEPT ![t] = s]
            /\ inUse' = [inUse EXCEPT ![s] = TRUE]
            /\ Blocked' = Blocked /\ Woken' = Woken \ {t}
<1>1. PICK s \in Free : /\ inUse' = [inUse EXCEPT ![s] = TRUE]
                        /\ held' = [held EXCEPT ![t] = s]
  BY DEF Take
<1>2. s \in Slots /\ s \notin Used /\ s # NoSlot
  BY PoolAssumption DEF Free
<1>3. Used' = Used \cup {s}
  BY <1>1, <1>2 DEF TypeOK, Used
<1>4. Free' = Free \ {s}
  BY <1>3 DEF Free
<1>5. t \notin Holders /\ Holders' = Holders \cup {t}
  BY <1>1, <1>2 DEF TypeOK, Take, Holders
<1>6. Blocked' = Blocked /\ Woken' = Woken \ {t}
  BY DEF TypeOK, Take, Blocked, Woken
<1> QED
  BY <1>1, <1>2, <1>3, <1>4, <1>5, <1>6

\* notify_one wakes somebody if anybody sleeps.
LEMMA NotifiedEffect ==
    ASSUME TypeOK, wait' \in Notified
    PROVE  /\ wait' \in [Threads -> {"none", "blocked", "woken"}]
           /\ \A t \in Threads : wait'[t] = "none" <=> wait[t] = "none"
           /\ \/ Blocked = {} /\ Blocked' = {} /\ Woken' = Woken
              \/ \E u \in Blocked : u \notin Woken /\ Woken' = Woken \cup {u}
<1>1. CASE Blocked = {}
  BY <1>1 DEF TypeOK, Notified, Blocked, Woken
<1>2. CASE Blocked # {}
  <2>1. PICK u \in Blocked : wait' = [wait EXCEPT ![u] = "woken"]
    BY <1>2 DEF Notified
  <2> QED
    BY <2>1 DEF TypeOK, Blocked, Woken
<1> QED
  BY <1>1, <1>2

LEMMA ReleaseEffect ==
    ASSUME TypeOK, NEW t \in Threads, Release(t)
    PROVE  /\ held[t] \in Slots
           /\ Used' = Used \ {held[t]}
           /\ t \in Holders /\ Holders' = Holders \ {t}
<1>1. held[t] \in Slots
  BY DEF TypeOK, Release
<1>2. Used' = Used \ {held[t]}
  BY <1>1 DEF TypeOK, Release, Used
<1>3. t \in Holders /\ Holders' = Holders \ {t}
  BY DEF TypeOK, Release, Holders
<1> QED
  BY <1>1, <1>2, <1>3

LEMMA AbandonEffect ==
    ASSUME TypeOK, NEW t \in Threads, Abandon(t)
    PROVE  Used' = Used /\ t \in Holders /\ Holders' = Holders \ {t}
<1>1. Used' = Used
  BY DEF Abandon, Used
<1>2. t \in Holders /\ Holders' = Holders \ {t}
  BY DEF TypeOK, Abandon, Holders
<1> QED
  BY <1>1, <1>2

-----------------------------------------------------------------------------
\* The flags set are at least as many as the holders.
HoldersCounted == Cardinality(Holders) <= Cardinality(Used)

IInv == TypeOK /\ SlotExclusive /\ NoSlotLost /\ NoLostWakeup /\ HoldersCounted

LEMMA InitIInv == Init => IInv
<1> SUFFICES ASSUME Init PROVE IInv
  OBVIOUS
<1>1. TypeOK
  BY DEF Init, TypeOK
<1>2. Holders = {} /\ Used = {} /\ Blocked = {}
  BY DEF Init, Holders, Used, Blocked
<1>3. HoldersCounted
  BY <1>2, FS_EmptySet DEF HoldersCounted
<1> QED
  BY <1>1, <1>2, <1>3 DEF IInv, SlotExclusive, NoSlotLost, NoLostWakeup

LEMMA StepTypeOK ==
    ASSUME TypeOK, [Next]_vars
    PROVE  TypeOK'
<1>1. CASE UNCHANGED vars
  BY <1>1 DEF TypeOK, vars
<1>2. ASSUME NEW t \in Threads, Take(t) PROVE TypeOK'
  <2>1. PICK s \in Slots : /\ inUse' = [inUse EXCEPT ![s] = TRUE]
                           /\ held' = [held EXCEPT ![t] = s]
    BY <1>2 DEF Take, Free
  <2>2. wait' = [wait EXCEPT ![t] = "none"]
    BY <1>2 DEF Take
  <2> QED
    BY <2>1, <2>2 DEF TypeOK
<1>3. ASSUME NEW t \in Threads, Block(t) PROVE TypeOK'
  BY <1>3 DEF TypeOK, Block
<1>4. ASSUME NEW t \in Threads, SpuriousWake(t) PROVE TypeOK'
  BY <1>4 DEF TypeOK, SpuriousWake
<1>5. ASSUME NEW t \in Threads, Release(t) PROVE TypeOK'
  <2>1. /\ wait' \in [Threads -> {"none", "blocked", "woken"}]
        /\ \A u \in Threads : wait'[u] = "none" <=> wait[u] = "none"
    BY <1>5, NotifiedEffect DEF Release
  <2>2. /\ inUse' \in [Slots -> BOOLEAN]
        /\ held' \in [Threads -> Slots \cup {NoSlot}]
        /\ \A u \in Threads : held[u] = NoSlot => held'[u] = NoSlot
    BY <1>5 DEF TypeOK, Release
  <2> QED
    BY <2>1, <2>2 DEF TypeOK
<1>6. ASSUME NEW t \in Threads, Abandon(t) PROVE TypeOK'
  BY <1>6 DEF TypeOK, Abandon
<1> QED
  BY <1>1, <1>2, <1>3, <1>4, <1>5, <1>6 DEF Next

\* A slot is taken only while its flag is clear, so nobody holds it; a release
\* clears the flag of the one slot its caller holds.
LEMMA StepSlotExclusive ==
    ASSUME TypeOK, SlotExclusive, [Next]_vars
    PROVE  SlotExclusive'
<1>1. CASE UNCHANGED vars
  BY <1>1 DEF SlotExclusive, Holders, vars
<1>2. ASSUME NEW t \in Threads, Take(t) PROVE SlotExclusive'
  <2>1. PICK s \in Slots :
          /\ s \notin Used /\ held' = [held EXCEPT ![t] = s]
          /\ inUse' = [inUse EXCEPT ![s] = TRUE] /\ Holders' = Holders \cup {t}
    BY <1>2, TakeEffect
  <2>2. \A u \in Holders : held[u] \in Slots /\ held[u] # s
    BY <2>1 DEF TypeOK, SlotExclusive, Holders, Used
  <2> QED
    BY <2>1, <2>2 DEF TypeOK, SlotExclusive, Holders
<1>3. ASSUME NEW t \in Threads, Block(t) \/ SpuriousWake(t) PROVE SlotExclusive'
  BY <1>3 DEF SlotExclusive, Holders, Block, SpuriousWake
<1>4. ASSUME NEW t \in Threads, Release(t) PROVE SlotExclusive'
  <2>1. /\ held' = [held EXCEPT ![t] = NoSlot]
        /\ inUse' = [inUse EXCEPT ![held[t]] = FALSE]
        /\ t \in Holders /\ Holders' = Holders \ {t}
    BY <1>4, ReleaseEffect DEF Release
  <2>2. \A u \in Holders' : held'[u] = held[u] /\ held[u] # held[t] /\ held[u] \in Slots
    BY <2>1 DEF TypeOK, SlotExclusive, Holders
  <2> QED
    BY <2>1, <2>2 DEF TypeOK, SlotExclusive
<1>5. ASSUME NEW t \in Threads, Abandon(t) PROVE SlotExclusive'
  <2>1. Holders' = Holders \ {t} /\ inUse' = inUse /\ held' = [held EXCEPT ![t] = NoSlot]
    BY <1>5, AbandonEffect DEF Abandon
  <2> QED
    BY <2>1 DEF TypeOK, SlotExclusive, Holders
<1> QED
  BY <1>1, <1>2, <1>3, <1>4, <1>5 DEF Next

\* Without exceptions the flags set are the slots held; a release gives back
\* the slot of nobody else.
LEMMA StepNoSlotLost ==
    ASSUME TypeOK, SlotExclusive, NoSlotLost, [Next]_vars
    PROVE  NoSlotLost'
<1> SUFFICES ASSUME ~MayAbandon, Used = {held[t] : t \in Holders}
             PROVE  Used' = {held'[t] : t \in Holders'}
  BY DEF NoSlotLost
<1>1. CASE UNCHANGED vars
  BY <1>1 DEF Used, Holders, vars
<1>2. ASSUME NEW t \in Threads, Take(t) PROVE Used' = {held'[u] : u \in Holders'}
  <2>1. PICK s \in Slots :
          /\ Used' = Used \cup {s} /\ t \notin Holders
          /\ held' = [held EXCEPT ![t] = s] /\ Holders' = Holders \cup {t}
    BY <1>2, TakeEffect
  <2>2. held'[t] = s /\ \A u \in Holders : held'[u] = held[u]
    BY <2>1 DEF TypeOK, Holders
  <2> QED
    BY <2>1, <2>2
<1>3. ASSUME NEW t \in Threads, Block(t) \/ SpuriousWake(t)
      PROVE  Used' = {held'[u] : u \in Holders'}
  BY <1>3 DEF Used, Holders, Block, SpuriousWake
<1>4. ASSUME NEW t \in Threads, Release(t) PROVE Used' = {held'[u] : u \in Holders'}
  <2>1. /\ held' = [held EXCEPT ![t] = NoSlot] /\ t \in Holders
        /\ Used' = Used \ {held[t]} /\ Holders' = Holders \ {t}
    BY <1>4, ReleaseEffect DEF Release
  <2>2. \A u \in Holders' : held'[u] = held[u] /\ held[u] # held[t]
    BY <2>1 DEF TypeOK, SlotExclusive, Holders
  <2> QED
    BY <2>1, <2>2
<1>5. ASSUME NEW t \in Threads, Abandon(t) PROVE Used' = {held'[u] : u \in Holders'}
  BY <1>5 DEF Abandon
<1> QED
  BY <1>1, <1>2, <1>3, <1>4, <1>5 DEF Next

LEMMA StepNoLostWakeup ==
    ASSUME TypeOK, TypeOK', NoLostWakeup, [Next]_vars
    PROVE  NoLostWakeup'
<1>0. /\ IsFiniteSet(Woken) /\ Cardinality(Woken) \in Nat /\ Cardinality(Woken') \in Nat
      /\ IsFiniteSet(Free) /\ Cardinality(Free) \in Nat
  BY ThreadSetsFinite, SlotSetsFinite DEF Woken, Free
<1>1. CASE UNCHANGED vars
  BY <1>1 DEF NoLostWakeup, Blocked, Woken, Free, Used, vars
<1>2. ASSUME NEW t \in Threads, Take(t) PROVE NoLostWakeup'
  <2>1. PICK s \in Slots : /\ s \notin Used /\ Free' = Free \ {s}
                           /\ Blocked' = Blocked /\ Woken' = Woken \ {t}
    BY <1>2, TakeEffect
  <2>2. Cardinality(Free') = Cardinality(Free) - 1
    BY <1>0, <2>1, RemoveOne DEF Free
  <2>3. Cardinality(Woken') >= Cardinality(Woken) - 1
    BY <1>0, <2>1, RemoveOne
  <2> QED
    BY <1>0, <2>1, <2>2, <2>3 DEF NoLostWakeup
<1>3. ASSUME NEW t \in Threads, Block(t) PROVE NoLostWakeup'
  <2>1. Free' = {}
    BY <1>3 DEF Block, Free, Used
  <2>2. Cardinality(Free') = 0
    BY <2>1, FS_EmptySet
  <2> QED
    BY <1>0, <2>2 DEF NoLostWakeup
<1>4. ASSUME NEW t \in Threads, SpuriousWake(t) PROVE NoLostWakeup'
  <2>1. Free' = Free /\ Blocked' = Blocked \ {t} /\ Woken' = Woken \cup {t}
    BY <1>4 DEF TypeOK, SpuriousWake, Free, Used, Blocked, Woken
  <2>2. Cardinality(Woken') >= Cardinality(Woken)
    BY <1>0, <2>1, AddOne
  <2> QED
    BY <1>0, <2>1, <2>2 DEF NoLostWakeup
<1>5. ASSUME NEW t \in Threads, Release(t) PROVE NoLostWakeup'
  <2>1. CASE Blocked' = {}
    BY <2>1 DEF NoLostWakeup
  <2>2. CASE Blocked' # {}
    <3>1. PICK u \in Blocked : u \notin Woken /\ Woken' = Woken \cup {u}
      BY <1>5, <2>2, NotifiedEffect DEF Release
    <3>2. Cardinality(Woken') = Cardinality(Woken) + 1
      BY <1>0, <3>1, AddOne
    <3>3. Free' = Free \cup {held[t]}
      BY <1>5, ReleaseEffect DEF Free
    <3>4. Cardinality(Free') <= Cardinality(Free) + 1 /\ Cardinality(Free') \in Nat
      BY <1>0, <3>3, AddOne
    <3>5. Cardinality(Free) <= Cardinality(Woken)
      BY <3>1 DEF NoLostWakeup
    <3> QED
      BY <1>0, <3>2, <3>4, <3>5 DEF NoLostWakeup
  <2> QED
    BY <2>1, <2>2
<1>6. ASSUME NEW t \in Threads, Abandon(t) PROVE NoLostWakeup'
  BY <1>6 DEF NoLostWakeup, Abandon, Blocked, Woken, Free, Used
<1> QED
  BY <1>1, <1>2, <1>3, <1>4, <1>5, <1>6 DEF Next

\* A holder comes and goes with its flag, except that an abandoned flag stays.
LEMMA StepHoldersCounted ==
    ASSUME TypeOK, SlotExclusive, HoldersCounted, [Next]_vars
    PROVE  HoldersCounted'
<1>0. /\ IsFiniteSet(Used) /\ Cardinality(Used) \in Nat
      /\ IsFiniteSet(Holders) /\ Cardinality(Holders) \in Nat
  BY ThreadSetsFinite, SlotSetsFinite DEF Used, Holders
<1>1. CASE UNCHANGED vars
  BY <1>1 DEF HoldersCounted, Used, Holders, vars
<1>2. ASSUME NEW t \in Threads, Take(t) PROVE HoldersCounted'
  <2>1. PICK s \in Slots : /\ s \notin Used /\ Used' = Used \cup {s}
                           /\ t \notin Holders /\ Holders' = Holders \cup {t}
    BY <1>2, TakeEffect
  <2> QED
    <3>1. /\ Cardinality(Used') = Cardinality(Used) + 1
          /\ Cardinality(Holders') = Cardinality(Holders) + 1
      BY <1>0, <2>1, AddOne
    <3> QED
      BY <1>0, <3>1 DEF HoldersCounted
<1>3. ASSUME NEW t \in Threads, Block(t) \/ SpuriousWake(t) PROVE HoldersCounted'
  BY <1>3 DEF HoldersCounted, Used, Holders, Block, SpuriousWake
<1>4. ASSUME NEW t \in Threads, Release(t) PROVE HoldersCounted'
  <2>1. /\ Used' = Used \ {held[t]} /\ t \in Holders /\ Holders' = Holders \ {t}
        /\ held[t] \in Slots
    BY <1>4, ReleaseEffect
  <2>2. held[t] \in Used
    BY <2>1 DEF SlotExclusive, Used
  <2> QED
    <3>1. /\ Cardinality(Used') = Cardinality(Used) - 1
          /\ Cardinality(Holders') = Cardinality(Holders) - 1
      BY <1>0, <2>1, <2>2, RemoveOne
    <3> QED
      BY <1>0, <3>1 DEF HoldersCounted
<1>5. ASSUME NEW t \in Threads, Abandon(t) PROVE HoldersCounted'
  <2>1. Used' = Used /\ t \in Holders /\ Holders' = Holders \ {t}
    BY <1>5, AbandonEffect
  <2> QED
    <3>1. /\ Cardinality(Used') = Cardinality(Used)
          /\ Cardinality(Holders') = Cardinality(Holders) - 1
      BY <1>0, <2>1, RemoveOne
    <3> QED
      BY <1>0, <3>1 DEF HoldersCounted
<1> QED
  BY <1>1, <1>2, <1>3, <1>4, <1>5 DEF Next

LEMMA StepIInv == IInv /\ [Next]_vars => IInv'
BY StepTypeOK, StepSlotExclusive, StepNoSlotLost, StepNoLostWakeup, StepHoldersCounted
   DEF IInv

\* The inductive invariant holds in every behaviour of the pool.
THEOREM PoolInvariant == Spec => []IInv
BY InitIInv, StepIInv, PTL DEF Spec

\* The pool's variables keep their types: a slot handed out is one of the pool's.
THEOREM TypeCorrect == Spec => []TypeOK
<1>1. IInv => TypeOK
  BY DEF IInv
<1> QED
  BY <1>1, PoolInvariant, PTL

\* No two threads ever use one slot directory, and a slot in use is flagged,
\* also after callers have been left by exceptions.
THEOREM SlotsAreExclusive == Spec => []SlotExclusive
<1>1. IInv => SlotExclusive
  BY DEF IInv
<1> QED
  BY <1>1, PoolInvariant, PTL

\* If callers never leave by an exception, the pool never loses a slot.
THEOREM SlotsAreNotLost == Spec => []NoSlotLost
<1>1. IInv => NoSlotLost
  BY DEF IInv
<1> QED
  BY <1>1, PoolInvariant, PTL

\* release never leaves a free slot and only sleeping threads behind.
THEOREM WakeupsAreNotLost == Spec => []NoLostWakeup
<1>1. IInv => NoLostWakeup
  BY DEF IInv
<1> QED
  BY <1>1, PoolInvariant, PTL

\* The pool implements a semaphore of Capacity permits, abandoned slots or not.
THEOREM ImplementsSemaphore == Spec => SemaphoreSpec
<1>1. Init => Sem!Init
  BY DEF Init, Sem!Init, Holders
<1>2. IInv /\ [Next]_vars => [Sem!Next]_Holders
  <2> SUFFICES ASSUME IInv, [Next]_vars PROVE Sem!Next \/ Holders' = Holders
    OBVIOUS
  <2>0. TypeOK /\ HoldersCounted
    BY DEF IInv
  <2>1. CASE UNCHANGED vars
    BY <2>1 DEF vars, Holders
  <2>2. ASSUME NEW t \in Threads, Take(t) PROVE Sem!Next
    <3>1. PICK s \in Slots : s \notin Used /\ t \notin Holders /\ Holders' = Holders \cup {t}
      BY <2>0, <2>2, TakeEffect
    <3>2. Used \in SUBSET Slots /\ Used # Slots
      BY <3>1 DEF Used
    <3>3. Cardinality(Used) < Capacity
      BY <3>2, SlotsFinite, SlotSetsFinite, FS_Subset, PoolAssumption
    <3>4. Cardinality(Holders) < Capacity
      BY <2>0, <3>2, <3>3, ThreadSetsFinite, SlotSetsFinite, PoolAssumption
         DEF HoldersCounted, Holders
    <3>5. Sem!Cardinality(Holders) = Cardinality(Holders)
      BY DEF Sem!Cardinality, Cardinality
    <3> QED
      BY <3>1, <3>4, <3>5 DEF Sem!Next, Sem!Acquire
  <2>3. ASSUME NEW t \in Threads, Block(t) \/ SpuriousWake(t) PROVE Holders' = Holders
    BY <2>3 DEF Holders, Block, SpuriousWake
  <2>4. ASSUME NEW t \in Threads, Release(t) \/ Abandon(t) PROVE Sem!Next
    <3>1. t \in Holders /\ Holders' = Holders \ {t}
      BY <2>0, <2>4, ReleaseEffect, AbandonEffect
    <3> QED
      BY <3>1 DEF Sem!Next, Sem!Release
  <2> QED
    BY <2>1, <2>2, <2>3, <2>4 DEF Next
<1> QED
  BY <1>1, <1>2, PoolInvariant, PTL DEF Spec, SemaphoreSpec, Sem!Spec
=============================================================================
