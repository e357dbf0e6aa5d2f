SPECIFICATION Spec
CHECK_DEADLOCK FALSE
CONSTANTS
    Operators = {o1, o2}
    Values = {"opus", "haiku"}
    Revisions <- MCRevisions
    Definition <- MCDefinition
    Histories <- MCHistories
    MaxEdits = 1
    MaxRestarts = 2
    Returns = FALSE
INVARIANTS BlockedUntilAcknowledged PinnedIsReviewed
