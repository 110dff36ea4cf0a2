\* The TCP accept loop fails for good.
CONSTANTS
    Conns = {}
    Datagrams = {}
    Sweeps = {}
    Configs <- MCConfigs
    Faults = {"accept"}
SPECIFICATION FairSpec
PROPERTIES FailureStops
