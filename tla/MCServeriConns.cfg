SPECIFICATION Spec
CONSTANTS
    c1 = c1
    c2 = c2
    Conns = {c1, c2}
    Readers = {}
    Pingers = {}
    Packets <- OnlyBad
    UdpCap = 1
    RxCap = 1
    TxCap = 1
    Requests = {"default", "monitor", "http", "unknown", "none"}
    Faults = {}
    CharSigned = TRUE
    UIntRange = 65536
    ConfigLights <- MCConfigLights
    PacketSize = 16
SYMMETRY Symm
INVARIANTS
    Bookkeeping
    MonitorsAreLive
    PollfdsMirrorLws
    SnapshotFresh
