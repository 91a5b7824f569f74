CONSTANTS
    Threads = {t1, t2, t3, t4}
    Capacity = 2
    NoSlot = NoSlot
    MayAbandon = TRUE
SPECIFICATION Spec
INVARIANTS SlotExclusive NoLostWakeup
PROPERTIES SemaphoreSpec
