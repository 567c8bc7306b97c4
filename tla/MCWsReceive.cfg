SPECIFICATION Spec
CONSTANTS
    Frames <- EveryKind
    MaxFrames = 3
    RxBufferSize = 3
    ReadMax = 6
    Xor <- MCXor
INVARIANTS
    NothingLost
    SplitsExplained
    DroppedIffIllegal
    PongsEcho
\* The client stops after MaxFrames frames.
CHECK_DEADLOCK FALSE
