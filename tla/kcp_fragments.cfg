SPECIFICATION Spec
CONSTANTS
    A = A
    B = B
    WndRcv = 3
    SndWnd = 2
    RcvWnd = 3
    Mtu = 1400
    Stream = FALSE
    NoCwnd = TRUE
    FastResend = 0
    FastLimit = 0
    DeadLink = 1
    Lens = {1, 1377}
    SendsA = 2
    SendsB = 0
    CapA = 1
    CapB = 2
    MaxSends <- Budget
    NetCap <- Capacity
CHECK_DEADLOCK FALSE
PROPERTIES MessagesImplemented
