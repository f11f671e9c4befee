CONSTANTS
    f1 = f1
    f2 = f2
    f3 = f3
    Frames = {f1, f2, f3}
    Globals = Globals
    Null = Null
    Functions = {1, 2}
    StartIps <- ApartStartIps
    MethodNames = {3}
    MaxClosures = 2
    Lines = 3
SYMMETRY Symmetric
SPECIFICATION Spec
INVARIANTS
    TypeOK
    ControlChainSound
    EnvironmentOfLiveRecordKept
    EnvironmentsKeptInScript
    CapturesHome
CHECK_DEADLOCK FALSE
