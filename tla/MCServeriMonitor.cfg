SPECIFICATION Spec
CONSTANTS
    c1 = c1
    c2 = c2
    Conns = {c1}
    Readers = {}
    Pingers = {"default", "monitor", "http"}
    Packets <- RedAndUV
    UdpCap = 1
    RxCap = 1
    TxCap = 2
    Requests = {"default", "monitor", "http", "unknown", "none"}
    Faults = {"poll", "recvfrom", "vanish"}
    CharSigned = TRUE
    UIntRange = 65536
    ConfigLights <- MCConfigLights
    PacketSize = 16
INVARIANTS
    TypeOK
    MessageCurrent
    MonitorsUpToDate
    FrameWritten
    TagIsClean
    LightsMatchDMX
    DMXFramed
PROPERTY ImplementsShow
\* run() returns when poll fails, and assert(false) aborts: the program ends.
CHECK_DEADLOCK FALSE
