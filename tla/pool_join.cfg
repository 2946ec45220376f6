SPECIFICATION FairSpec
CONSTANTS
    Threads = 2
    ThreadpoolMaxNum = 16
    Committers = {c1}
    MaxTasks = 1
    None = None
CHECK_DEADLOCK FALSE
PROPERTIES JoinReturns
