SPECIFICATION PipeSpec
CONSTANTS
    Threads = {t1, t2}
    Process <- OwnProcess
    PIPE_CAPACITY = 3
    PIPE_BUF = 2
    MaxCount = 3
    Modes = {TRUE, FALSE}
SYMMETRY ThreadSymmetry
INVARIANTS
    PipeTypeOK
    PipeNoLostWakeup
    SingleThreadedNoUseAfterFree
PROPERTIES
    ImplementsStream
