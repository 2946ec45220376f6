SPECIFICATION ClientSpec
CONSTANTS
    Corrections = {0, 9}
    MaxComp = 3
    ClientTimeOut = 1
    MaxUnsigned = 3
CHECK_DEADLOCK FALSE
PROPERTY DriftBounded
