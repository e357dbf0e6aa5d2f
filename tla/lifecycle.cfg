SPECIFICATION Spec
CHECK_DEADLOCK FALSE
CONSTANTS
    Tasks = {t1, t2}
    Kinds = {"plain", "attached"}
    MaxEdits = 1
    MaxStops = 1
    CleanupOnce = TRUE
INVARIANTS RunsInItsClone ReadyHasCheckout
PROPERTIES  PreparationEnds
