CONSTANTS
    CmpAlgs <- MC_AllAlgs
    InitialDelay <- MC_AnyFlag
    MaxKex = 3
    MaxPackets = 1
    MaxCloses = 1
SPECIFICATION Spec
CHECK_DEADLOCK FALSE
INVARIANT TypeOK
INVARIANT DelayedCompressionWaitsForAuth
INVARIANT SeqAgree
