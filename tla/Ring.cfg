CONSTANTS
    Producers = {p1, p2}
    Consumers = {c1, c2}
    Size = 2
    IndexMod = 8
    MaxBatch = 2
    MaxSent = 3
    Starts = {7}
    Empty = Empty
SPECIFICATION FairSpec
INVARIANTS TypeOK ClaimsDisjoint
PROPERTIES IsFifo ClaimFinishes
