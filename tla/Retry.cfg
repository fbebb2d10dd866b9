SPECIFICATION Spec
CONSTANTS
    None = None
    NullText = n0
    a1 = a1
    a2 = a2
    n0 = n0
    t1 = t1
    t2 = t2
    k1 = k1
    k2 = k2
    v1 = v1
    v2 = v2
    v3 = v3
    e1 = e1
    e2 = e2
    Accounts <- AllAccounts
    Targets <- AllTargets
    Keys <- AllKeys
    Values <- AllValues
    SealingKeys <- AllSealingKeys
    Configs <- RetryConfigs
    Calls <- RetryCalls
    MaxAttempts = 2
    MaxFaults = 2
INVARIANTS
    EffectsAccounted
    AtMostOncePlusFaults
    AnswersAreRecorded
PROPERTIES
    SettledStaysSettled
    ReplacedStaysReplaced
    KeepsLedger
CHECK_DEADLOCK FALSE
