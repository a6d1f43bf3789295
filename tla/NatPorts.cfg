CONSTANTS
    Endpoints = {e1, e2}
    Protocols = {"tcp"}
    WordBits = 4
    PortNum = 6
    SynTick = 2
    TimeOutTicks = {2}
    PubIps = {0, 1}
    Buckets = 4
    NoMap = NoMap
SPECIFICATION Spec
INVARIANTS AllocatedIsSet
