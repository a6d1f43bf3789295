CONSTANTS
    Endpoints = {e1, e2}
    Protocols = {"tcp", "udp"}
    WordBits = 4
    PortNum = 6
    SynTick = 2
    TimeOutTicks = {1, 3}
    PubIps = {0, 1}
    Buckets = 4
    NoMap = NoMap
SPECIFICATION FairSpec
INVARIANTS TypeOK TablesAgree TimersFit
PROPERTIES ClosedByBoth OnlyForward AgesOut
