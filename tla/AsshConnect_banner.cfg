CONSTANTS
    AgentKeys = 1
    OfferedMethods <- MC_Offered_Pk
    HostVersions <- MC_Ssh2
    KexAgreement <- MC_AgreeOnly
    MaxIgnore = 0
    MaxBanner = 1
    MaxDisconnect = 0
SPECIFICATION Spec
CHECK_DEADLOCK FALSE
PROPERTY ConnectTerminates
