\* Changes, failed saves and power cuts in any order.
CONSTANTS
    Candidates <- MCCandidates
    Initial <- MCInitial
    Strategies = {"failover", "random"}
    ServerLists <- MCServerLists
    Nobody = nobody
SPECIFICATION Spec
INVARIANTS TypeOK LiveAsConfigured SavedOrUndone FileLoads
PROPERTIES BackupFirst
