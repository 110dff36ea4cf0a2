\* One query at a time over two paths; servers, verdicts, marks, fallback list and
\* shutdown change, verdicts also while Plan runs.
CONSTANTS
    quad9 = quad9
    cloudflare = cloudflare
    Owner <- TwoPaths
    PublicServers <- OneServer
    UDPClients = {udp1}
    TCPClients = {}
    MaxAttempts = 2
    MaxConcurrent = 1
    MaxChanges = 3
SPECIFICATION Spec
INVARIANTS TypeOK PublicOnlyAfterAttempts NoNeedlessFailure
