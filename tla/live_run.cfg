SPECIFICATION LiveSpec
CONSTANTS
    Order <- PlainOrder
    Kind <- PlainKind
    Dests <- PlainDests
    MaxVisits <- PlainMax
    OnExhausted <- PlainEscape
    Evidence <- PlainEvidence
    Drivers = {1, 2}
    MaxCrashes = 1
    MaxAttempts = 5
    ServeDuringRecovery = FALSE
CHECK_DEADLOCK FALSE
INVARIANT WaitIsHeld
PROPERTIES RunSettles GateIsArmed
