\* Five local clocks over a ring of two periods; two Pi-holes are removed and added
\* while a query is in flight.
CONSTANTS
    Names = {n1, n2}
    Queries = {q1}
    Period = 2
    Slots = 2
    Zones <- MCZones
    MaxTime = 5
    MaxRecords = 2
SPECIFICATION Spec
INVARIANTS SeriesSound SeriesExact TotalsAccounted GhostsBounded
