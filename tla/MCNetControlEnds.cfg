SPECIFICATION MixFairSpec
CONSTANTS
    HANDOFF_SLOTS = 1
    HANDOFF_CREDITS = 1
    HANDOFF_DATA_CREDITS = 1
    Batch = 1
    Actors = {a1, a2}
    NoActor = none
    NoKind = "none"
    Kinds = {"ping", "wifi"}
    ControlKinds = {"ping", "wifi"}
    RetainedKinds = {"wifi"}
    Statuses = {"OK", "EINTR", "EIO", "EAGAIN"}
    MaxTicket = 2
    MaxGeneration = 2
    WIFI_RECORDS = 1
    Mixes <- Split
INVARIANTS
    AnswerOwn
PROPERTIES
    Spec
    AbandonedReclaimed
    CallReturns
