SPECIFICATION FairSpec
CONSTANTS
    c1 = c1
    c2 = c2
    Conns = {c1}
    Readers = {c1}
    Pingers = {"monitor"}
    Packets <- OnlyRed
    UdpCap = 1
    RxCap = 1
    TxCap = 2
    Requests = {"default", "monitor", "http", "unknown", "none"}
    Faults = {"tty", "vanish"}
    CharSigned = TRUE
    UIntRange = 65536
    ConfigLights <- MCConfigLights
    PacketSize = 16
PROPERTIES
    MonitorsConverge
    GoneConnectionsReaped
    Quiesces
    UdpServed
    CloseAnswered
    LostMonitorsReaped
    TtyRecovers
