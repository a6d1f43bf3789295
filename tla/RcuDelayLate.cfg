CONSTANTS
    Readers = {r1}
    Writers = {w1}
    Nodes = {n1}
    Timer = Timer
    None = None
SPECIFICATION Spec
INVARIANT HeldIsNotFreed
