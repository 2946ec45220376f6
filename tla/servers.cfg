SPECIFICATION Spec
CONSTANTS
    Clients = {c1, c2, c3}
    Latecomer = c3
    Nobody = nobody
    MaxFd = 2
    MaxSends = 2
INVARIANTS EchoInOrder TablesAgree NoZombieForgotten
PROPERTIES Answered DescriptorsReturned
CHECK_DEADLOCK FALSE
