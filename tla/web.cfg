SPECIFICATION Spec
CONSTANTS
    Clients = {c1, c2}
    Nobody = nobody
    MaxFd = 2
    MaxSends = 3
    Payloads <- SomePayloads
    Masks <- SomeMasks
    Alphabet <- SomeBytes
    MaxText = 4
    Quiet = c2
INVARIANTS FramesInOrder OwnRequest CodecsInvert
PROPERTIES FramesAnswered ConnectionsEnd
CHECK_DEADLOCK FALSE
