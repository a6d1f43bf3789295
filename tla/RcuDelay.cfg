CONSTANTS
    Readers = {r1, r2}
    Writers = {w1}
    Nodes = {n1, n2}
    Timer = Timer
    None = None
SPECIFICATION FairSpec
INVARIANTS TypeOK
PROPERTIES IsReclaim RetiredIsFreed WaitEnds
