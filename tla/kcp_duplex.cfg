SPECIFICATION Spec
CONSTANTS
    A = A
    B = B
    WndRcv = 2
    SndWnd = 2
    RcvWnd = 2
    Mtu = 1400
    Stream = FALSE
    NoCwnd = TRUE
    FastResend = 0
    FastLimit = 0
    DeadLink = 1
    Lens = {1}
    SendsA = 1
    SendsB = 1
    CapA = 2
    CapB = 2
    MaxSends <- Budget
    NetCap <- Capacity
CHECK_DEADLOCK FALSE
PROPERTIES ProgressKept
