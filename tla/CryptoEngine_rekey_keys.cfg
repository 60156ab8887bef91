CONSTANTS
    CmpAlgs <- MC_None
    InitialDelay <- MC_Cleared
    MaxKex = 2
    MaxPackets = 1
    MaxCloses = 0
SPECIFICATION Spec
CHECK_DEADLOCK FALSE
PROPERTY PacketsUnderAgreedKeys
