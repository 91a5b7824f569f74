----------------------------- MODULE Semaphore -----------------------------
(***************************************************************************)
(* What the design document promises of a worker pool (section 3.2, a      *)
(* "counting semaphore model"): at most Permits threads are admitted at    *)
(* the same time, and nothing else is said about who gets in when.         *)
(***************************************************************************)
EXTENDS Integers, FiniteSets

CONSTANTS Threads, Permits

VARIABLE holders

Init == holders = {}

Acquire(t) ==
    /\ t \notin holders
    /\ Cardinality(holders) < Permits
    /\ holders' = holders \cup {t}

Release(t) ==
    /\ t \in holders
    /\ holders' = holders \ {t}

Next == \E t \in Threads : Acquire(t) \/ Release(t)

Spec == Init /\ [][Next]_holders
=============================================================================
