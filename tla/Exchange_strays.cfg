\* Two callers over two ports; two exchanges, current or earlier, can have messages at large.
CONSTANTS
    Callers = {c1, c2}
    Numbers = {n1, n2}
    Ports = {p1, p2}
    Ids = {i1, i2}
    Protos = {"udp", "tcp"}
    Bufs = {b1, b2}
    None = None
SPECIFICATION FairSpec
INVARIANTS AnswersQuery CancelReported
PROPERTIES ExchangeEnds
