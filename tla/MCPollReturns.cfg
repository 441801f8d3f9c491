SPECIFICATION PollFairSpec
CONSTANTS
    Threads = {t1, t2}
    Process <- OwnProcess
    PIPE_CAPACITY = 1
    PIPE_BUF = 1
    MaxCount = 1
    Modes = {FALSE}
    Pollers = {t1}
    MaxTicks = 2
    Timeouts = {"ticks", "forever"}
PROPERTIES
    PollReturns
    HangUpSeen
