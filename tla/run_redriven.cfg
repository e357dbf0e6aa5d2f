SPECIFICATION Spec
CONSTANTS
    Order <- DeliverOrder
    Kind <- DeliverKind
    Dests <- DeliverDests
    MaxVisits <- DeliverMax
    OnExhausted <- DeliverEscape
    Evidence <- DeliverEvidence
    Drivers = {1}
    MaxCrashes = 1
    MaxAttempts = 6
    ServeDuringRecovery = TRUE
CHECK_DEADLOCK FALSE
PROPERTY TerminalIsFinal
