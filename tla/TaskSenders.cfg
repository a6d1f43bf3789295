CONSTANTS
    Senders = {s1, s2}
    Timer = timer
    Creator = creator
    Writers = {s1, s2, timer, creator}
    Users = {0}
    Bits = {0, 29, 30, 31}
    Capacity = 2
    Slots = 2
    IndexMod = 4
    Starts = {3}
    Empty = Empty
    MaxSent = 1
    MaxTokens = 2
SPECIFICATION Spec
CHECK_DEADLOCK FALSE
INVARIANT OneProducer
