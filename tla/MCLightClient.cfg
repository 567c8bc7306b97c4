SPECIFICATION Spec
CONSTANTS
    CharSigned = TRUE
    UIntRange = 65536
    ConfigLights <- MCConfigLights
    PacketSize = 16
    Nick <- MCNick
    Commands <- MCCommands
    BufLen = 19
    MaxCommands = 3
    MaxInFlight = 1
INVARIANTS
    Intended
