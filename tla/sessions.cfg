SPECIFICATION FairSpec
CONSTANTS
    StepPolicy <- ThreeSteps
    MaxChildren = 3
    MaxQuestions = 1
    MaxRequests = 1
    MaxRestarts = 1
CHECK_DEADLOCK FALSE
INVARIANTS NoOrphan RecordedPolicy StatusAgrees
PROPERTIES HandoffNeverInterrupts StepEnds
