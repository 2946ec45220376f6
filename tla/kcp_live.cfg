SPECIFICATION FairSpec
CONSTANTS
    A = A
    B = B
    WndRcv = 2
    SndWnd = 2
    RcvWnd = 2
    Mtu = 1400
    Stream = FALSE
    NoCwnd = FALSE
    FastResend = 0
    FastLimit = 0
    DeadLink = 1
    Lens = {1}
    SendsA = 3
    SendsB = 0
    CapA = 1
    CapB = 1
    MaxSends <- Budget
    NetCap <- Capacity
CHECK_DEADLOCK FALSE
PROPERTIES EventuallyRead EventuallyAcked WindowReopens
