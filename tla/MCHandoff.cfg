SPECIFICATION Spec
CONSTANTS
    HANDOFF_SLOTS = 3
    HANDOFF_CREDITS = 2
    HANDOFF_DATA_CREDITS = 1
    Batch = 1
    Actors = {a1, a2, a3}
    NoActor = none
    NoKind = "none"
    Kinds = {"net", "udp"}
    ControlKinds = {"net"}
    RetainedKinds = {"udp"}
    Statuses = {"OK"}
    MaxTicket = 3
    MaxGeneration = 1
SYMMETRY ActorSymmetry
INVARIANTS
    HeldClaimed
    CreditLedger
    RegistrationSafe
    FifoAdmission
    OwnerHint
    TypeOK
PROPERTIES
    ClaimInOrder
