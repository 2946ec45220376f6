SPECIFICATION Spec
CONSTANTS
    Corrections <- FarApart
    MaxComp = 3
    ClientTimeOut = 2
    MaxUnsigned = 3
    Keys = {k1, k2}
    SyncKeys = {k1}
    Samples <- TwoSamples
    TimeOut = 1
    MinPoints = 2
    MaxPoints = 2
    MaxDelayDiff = 20
    NoKey = NoKey
    Modulus = 16
    Interval = 2
    RtoNdl = 1
    RtoMin = 2
    RtoDef = 3
    RtoMax = 3
    MaxSlap = 6
    MaxLate = 1
    Steps <- SomeSteps
    MaxXmit = 2
    MaxRto = 3
CHECK_DEADLOCK FALSE
INVARIANTS IteratorValid CorrectionIsBest TimeoutsInRange TimeoutInRange CorrectionInHull FlushedInTime
PROPERTIES NeverEarly ToldOnce SilentDropped DestructorEnds
