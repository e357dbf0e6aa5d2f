SPECIFICATION RFairSpec
CONSTANTS
    Step = step
    Cleanup = cleanup
    deliver = deliver
    r1 = r1
    r2 = r2
    turn = turn
    Hosts <- MCHosts
    Reviews <- MCReviews
    Turns <- MCTurns
    LoopBack = TRUE
    TeardownFails = TRUE
    MaxAttempts = 2
    MaxRounds = 3
    MaxStops = 1
    ByHand = FALSE
    LateTurns = FALSE
CHECK_DEADLOCK FALSE
INVARIANTS HostExclusive OneVerdict
PROPERTY ReviewStepEnds
