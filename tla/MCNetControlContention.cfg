SPECIFICATION MixSpec
CONSTANTS
    HANDOFF_SLOTS = 2
    HANDOFF_CREDITS = 1
    HANDOFF_DATA_CREDITS = 1
    Batch = 1
    Actors = {a1, a2}
    NoActor = none
    NoKind = "none"
    Kinds = {"if", "ping", "fw"}
    ControlKinds = {"if", "ping", "fw"}
    RetainedKinds = {"fw"}
    Statuses = {"OK", "EINTR", "EIO", "EAGAIN"}
    MaxTicket = 2
    MaxGeneration = 1
    WIFI_RECORDS = 2
    Mixes <- OneKind
SYMMETRY ActorSymmetry
INVARIANTS
    ProbeHeld
    NoLostWakeup
    AdmissionSleep
    RecordFence
    FirmwareFence
