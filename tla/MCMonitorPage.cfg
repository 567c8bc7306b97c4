SPECIFICATION PageFairSpec
CONSTANTS
    Sockets = {s1, s2, s3, s4, s5}
    Messages <- MCMessages
    MaxClicks = 2
    MaxTimers = 2
INVARIANTS
    ConnectionsAccounted
    DrawnAsTold
PROPERTY Reconnects
