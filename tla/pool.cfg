SPECIFICATION FairSpec
CONSTANTS
    Threads = 2
    ThreadpoolMaxNum = 16
    Committers = {c1, c2}
    MaxTasks = 3
    None = None
CHECK_DEADLOCK FALSE
INVARIANTS NoLostWakeup NeverFrontOfEmpty
PROPERTIES PoolIsFifo TasksRun
