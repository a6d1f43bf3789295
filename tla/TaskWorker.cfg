CONSTANTS
    Senders = {s1}
    Timer = timer
    Creator = creator
    Writers = {s1, timer, creator}
    Users = {0, 1}
    Bits = {0, 1, 29, 30, 31}
    Capacity = 2
    Slots = 2
    IndexMod = 4
    Starts = {3}
    Empty = Empty
    MaxSent = 3
    MaxTokens = 2
SPECIFICATION FairSpec
CHECK_DEADLOCK FALSE
INVARIANTS TypeOK NoLostWakeup
PROPERTIES IsFifo MsgHandled EventServed QuitEnds
