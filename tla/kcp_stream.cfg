SPECIFICATION Spec
CONSTANTS
    A = A
    B = B
    WndRcv = 3
    SndWnd = 2
    RcvWnd = 3
    Mtu = 1400
    Stream = TRUE
    NoCwnd = TRUE
    FastResend = 0
    FastLimit = 0
    DeadLink = 1
    Lens = {700, 3453}
    SendsA = 3
    SendsB = 0
    CapA = 1
    CapB = 1
    MaxSends <- Budget
    NetCap <- Capacity
CHECK_DEADLOCK FALSE
INVARIANTS BytesInOrder
