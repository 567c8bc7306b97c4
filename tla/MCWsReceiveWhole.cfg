SPECIFICATION Spec
CONSTANTS
    Frames <- OnePacket
    MaxFrames = 1
    RxBufferSize = 8
    ReadMax = 12
    Xor <- MCXor
INVARIANT MessagesWhole
CHECK_DEADLOCK FALSE
