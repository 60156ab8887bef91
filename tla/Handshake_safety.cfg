CONSTANTS
    o1 = o1
    o2 = o2
    Openers <- MC_Openers
    AgentKeys = 1
    OfferedMethods <- MC_Offered_PkPwd_KbdPwd
    HostVersions <- MC_Versions
    KexAgreement <- MC_Agree
    MaxIgnore = 1
    MaxBanner = 1
    MaxDisconnect = 1
SPECIFICATION Spec
CHECK_DEADLOCK FALSE
INVARIANT TypeOK
INVARIANT NoCredentialsBeforeHostKey
INVARIANT AuthBudgetRespected
INVARIANT OpenSucceedsOnlyWhenAuthenticated
PROPERTY HandshakeCompletesUnlessStranded
