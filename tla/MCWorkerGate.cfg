CONSTANTS
    Threads = {t1, t2, t3, t4}
    WorkerCount = 2
SPECIFICATION FairSpec
INVARIANTS ActiveCountExact NoLostWakeup
PROPERTIES SemaphoreSpec FreeSlotHandedOver
