SPECIFICATION Spec
CONSTANTS
    Order <- DeliverOrder
    Kind <- DeliverKind
    Dests <- DeliverDests
    MaxVisits <- DeliverMax
    OnExhausted <- DeliverEscape
    Evidence <- DeliverEvidence
    Drivers = {1, 2}
    MaxCrashes = 2
    MaxAttempts = 8
    ServeDuringRecovery = FALSE
CHECK_DEADLOCK FALSE
INVARIANTS VisitBound OneOpenAttempt EvidenceIsFresh
PROPERTY TerminalIsFinal
