CONSTANTS
    Threads = {t1, t2, t3}
    Nodes = {n1, n2}
    Out = Out
SPECIFICATION FairSpec
INVARIANTS TypeOK GraceHolds OnePlace NoOrphans
PROPERTIES IsReclaim RetiredIsFreed
