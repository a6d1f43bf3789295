CONSTANTS
    Timers = {t1, t2}
    Scale = 2
    Levels = 3
    TickMod = 8
    Firsts = {0, 3}
    Periods = {0, 5}
    NotInList = NotInList
    Nobody = Nobody
SPECIFICATION FairSpec
INVARIANTS TypeOK NoneBehind
PROPERTIES OnTime StepEnds
