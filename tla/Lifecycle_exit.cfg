\* Every configuration and every fault; one connection, datagram and sweep.
CONSTANTS
    Conns = {c1}
    Datagrams = {d1}
    Sweeps = {s1}
    Configs <- MCConfigs
    Faults = {"udp", "tcp", "accept", "admin"}
SPECIFICATION FairSpec
INVARIANTS ErrorsSurface EarlyUseReported ConnectionsServed
PROPERTIES ShutdownCompletes
