SPECIFICATION Spec
CONSTANTS
    A = A
    B = B
    WndRcv = 2
    SndWnd = 2
    RcvWnd = 2
    Mtu = 1400
    Stream = FALSE
    NoCwnd = FALSE
    FastResend = 1
    FastLimit = 1
    DeadLink = 2
    Lens = {1}
    SendsA = 3
    SendsB = 0
    CapA = 1
    CapB = 2
    MaxSends <- Budget
    NetCap <- Capacity
CHECK_DEADLOCK FALSE
INVARIANTS TypeOK NothingForgotten InOrderDelivery ReceiveBounded NothingStuck CwndTracksIncr
