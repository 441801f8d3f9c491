SPECIFICATION MixSpec
CONSTANTS
    Actors = {a1, a2}
    HANDOFF_SLOTS = 2
    Slabs = {b1}
    NoSlab = none
    NET_SOCKET_RX_MAX = 2
    Batch = 1
    MaxCalls = 2
    MaxArrivals = 1
    MaxSignals = 1
    First = a1
    Mixes <- Pairs
INVARIANTS
    SlabOwn
    ExactlyOnce
PROPERTIES
    CallsEnd
