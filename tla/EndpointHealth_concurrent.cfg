\* One endpoint, the scheduled sweep and two query handlers, passive checks on.
CONSTANTS
    Endpoints = {e1}
    Ticker = ticker
    Probers = {}
    Queriers = {q1, q2}
    Rise = 2
    Fall = 2
    MaxRun = 3
    Bootstraps = TRUE
    Passive = TRUE
SPECIFICATION FairSpec
INVARIANTS TypeOK VerdictBacked
PROPERTIES ReturnsToRotation LeavesRotation
