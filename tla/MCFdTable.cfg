SPECIFICATION FairSpec
CONSTANTS
    c1 = c1
    c2 = c2
    c3 = c3
    Conns = {c1, c2, c3}
    OwnFds = {0, 1, 2, 3, 4, 5, 7}
    UDPfd = 5
    MaxFds = 11
\* The context is destroyed and the program ends.
CHECK_DEADLOCK FALSE
INVARIANTS
    TableConsistent
    EventsAsWanted
    MirroredInServer
PROPERTIES
    DestroyEnds
    WaitingAccepted
