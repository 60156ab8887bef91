CONSTANTS
    o1 = o1
    o2 = o2
    Openers <- MC_Openers
    AgentKeys = 0
    HostVersions <- MC_Ssh2
    KexAgreement <- MC_AgreeOnly
    MaxBanner = 0
    OfferedMethods <- MC_Offered_KbdPwd
    MaxIgnore = 0
    MaxDisconnect = 0
SPECIFICATION Spec
CHECK_DEADLOCK FALSE
INVARIANT SingleAuthRequestInFlight
