SPECIFICATION FairSpec
CONSTANTS
    Chain <- FullChain
    Requests = {1}
    Conditions <- MCConditions
    MaxActions = 4
    MaxAttempts = 3
    MaxCrashes = 1
CHECK_DEADLOCK FALSE
INVARIANTS FailedMeansAbsent UnknownBlocks
PROPERTIES ImplementsPublication EffectsAreClassified
