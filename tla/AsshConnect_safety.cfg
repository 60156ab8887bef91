CONSTANTS
    AgentKeys = 2
    OfferedMethods <- MC_Offered
    HostVersions <- MC_Versions
    KexAgreement <- MC_Agree
    MaxIgnore = 1
    MaxBanner = 1
    MaxDisconnect = 1
SPECIFICATION Spec
CHECK_DEADLOCK FALSE
INVARIANT TypeOK
INVARIANT EachKeyProbedOnce
PROPERTY CompletesUnlessStranded
