\* The scheduled sweep and a reporting goroutine observe a pool of two Pi-holes,
\* one of them with two paths.
CONSTANTS
    Owner <- ThreePaths
    Checker = checker
    Reporters = {r1}
SPECIFICATION FairSpec
INVARIANTS OutageJustified
PROPERTIES OutageEndsAtLast OutageBeginsAtLast
