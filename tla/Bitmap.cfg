CONSTANTS
    WordBits = 3
    BitNum = 8
SPECIFICATION Spec
INVARIANTS TypeOK CycleFinds FreeIsLowest
