SPECIFICATION Spec
CONSTANTS
    CharSigned = TRUE
    UIntRange = 65536
    ConfigLights <- MCConfigLights
    PacketSize = 24
    Packets <- MCPackets
    Pieces <- MCPieces
    MaxPieces = 5
INVARIANTS
    ReadsInBounds
    ParserIsLoop
    HandlerIsLoop
\* A packet is handled once.
CHECK_DEADLOCK FALSE
