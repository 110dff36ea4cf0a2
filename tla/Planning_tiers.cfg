\* Every strategy, with up to two changes while a plan is being made.
CONSTANTS
    Upstreams <- MCUpstreams
    Paths <- MCPaths
    Strategies <- MCStrategies
    MaxLatency = 2
    TicketPeriod = 2
    MaxChanges = 2
    None = none
SPECIFICATION Spec
INVARIANTS TypeOK QuietPlanTiered PreferredPathFirst DownPathsKept DrainedSkipped
