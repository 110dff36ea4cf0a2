\* A datagram and a connection compete for one slot; the environment changes once.
CONSTANTS
    quad9 = quad9
    cloudflare = cloudflare
    Owner <- OnePath
    PublicServers <- TwoServers
    UDPClients = {udp1}
    TCPClients = {tcp1}
    MaxAttempts = 2
    MaxConcurrent = 1
    MaxChanges = 1
SPECIFICATION FairSpec
INVARIANTS ReplyComposed SlotsAccounted NoNeedlessFailure
PROPERTIES EveryQueryEnds
