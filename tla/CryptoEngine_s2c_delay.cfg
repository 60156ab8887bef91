CONSTANTS
    CmpAlgs <- MC_NoneDelayed
    InitialDelay <- MC_Cleared
    MaxKex = 1
    MaxPackets = 0
    MaxCloses = 0
SPECIFICATION Spec
CHECK_DEADLOCK FALSE
INVARIANT CompressionAgrees
