SPECIFICATION MulPortSpec
CONSTANTS
    Workers = {w1, w2, w3}
    MaxJobs = 4
    None = None
    Clients = {c1, c2}
    Nobody = Nobody
    MaxFd = 2
    MaxSends = 2
    Loop = Loop
    Serving = {w1, w2}
    Crowd = 1
    MaxServed = 2
CHECK_DEADLOCK FALSE
INVARIANTS JobsInOnePlace NobodySleepsOverAJob InputHasAJob
PROPERTIES JobsRun
