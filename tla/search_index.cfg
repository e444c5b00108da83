CONSTANTS
    Assets <- TwoAssets
    BatchSize = 2
    KnownAtStart <- OneOrBoth
    MaxJobs = 2
    Budget = 3
SPECIFICATION SFairSpec
INVARIANTS STypeOK  SignatureIsCurrent
PROPERTY JobsEnd
CHECK_DEADLOCK FALSE
