\* Outages and queries over a few windows.
CONSTANTS
    Servers = {s1, s2}
    MaxTime = 5
    MaxQueries = 2
    MaxEpisodes = 2
SPECIFICATION Spec
INVARIANTS OutageConserved SummaryCoherent QueriesAccounted
CHECK_DEADLOCK FALSE
