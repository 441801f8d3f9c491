-------------------------------- MODULE Poll --------------------------------
(***************************************************************************)
(* The readiness system call, src/src/kernel/poll.c, over the pipe of      *)
(* Pipe: sys_poll, pipe_poll, and the timer tick that wakes the pollers.   *)
(*                                                                         *)
(* A poll watches one descriptor of the pipe: a scan of several is a       *)
(* sequence of such queries, and what becomes ready behind the scan is     *)
(* exactly what becomes ready after the only query here.                   *)
(*                                                                         *)
(* g_poll_wake_seq matters only as equal to or different from the value a  *)
(* poller has sampled: "noticed" holds the pollers for which it differs.   *)
(* The clock matters only as the ticks left before a poller's deadline.    *)
(* Left out: the copies from and to user memory and their errors, invalid  *)
(* descriptors, and the other kinds of files.                              *)
(***************************************************************************)
EXTENDS Pipe

CONSTANTS
    Pollers,     \* the threads that poll; all of them read and write
    MaxTicks,    \* bound: the longest timeout, in ticks
    Timeouts     \* which of timeout_ms = 0, > 0 and < 0 the calls use

ASSUME PollAssumption ==
    /\ Pollers \subseteq Threads
    /\ MaxTicks \in Nat
    /\ Timeouts \subseteq {"zero", "ticks", "forever"}

VARIABLES
    poll,       \* per thread: the descriptor, the event and the timeout asked for
    ticks,      \* per thread: ticks left before its deadline
    noticed,    \* threads that would see g_poll_wake_seq changed
    timer       \* the timer interrupt: idle, or the step it has reached

pollVars == <<pipeVars, poll, ticks, noticed, timer>>

NoPoll == [end |-> "read", wanted |-> FALSE, timeout |-> "zero"]

PollInit ==
    /\ PipeInit
    /\ poll = [t \in Threads |-> NoPoll]
    /\ ticks = [t \in Threads |-> 0]
    /\ noticed = {}
    /\ timer = "idle"

-----------------------------------------------------------------------------
(* pipe_poll, called with p->lock free; wanted is POLLIN on the read end,  *)
(* POLLOUT on the write end, and the other events never come.              *)

pipe_poll(e, wanted) ==
    IF e = "read"
    THEN {r \in {"POLLIN", "POLLHUP"} :
            \/ r = "POLLIN" /\ count > 0 /\ (wanted \/ writers = 0)
            \/ r = "POLLHUP" /\ writers = 0}
    ELSE {r \in {"POLLOUT", "POLLERR"} :
            \/ r = "POLLERR" /\ readers = 0
            \/ r = "POLLOUT" /\ readers # 0 /\ wanted /\ PIPE_CAPACITY - count > 0}

-----------------------------------------------------------------------------
(* sys_poll                                                                *)

Polling(t) == op[t].kind = "poll"
Expired(t) == poll[t].timeout = "ticks" /\ ticks[t] = 0

sys_poll(t) ==
    /\ pc[t] = "idle" /\ t \in Pollers
    /\ \E e \in Ends, wanted \in BOOLEAN, timeout \in Timeouts :
        /\ Holds(t, e)
        /\ poll' = [poll EXCEPT ![t] = [end |-> e, wanted |-> wanted, timeout |-> timeout]]
        /\ \E n \in 1 .. MaxTicks :
              ticks' = [ticks EXCEPT ![t] = IF timeout = "ticks" THEN n ELSE 0]
    /\ op' = [op EXCEPT ![t] = [NoOp EXCEPT !.kind = "poll"]]
    /\ Goto(t, "loop")
    /\ UNCHANGED <<ring, mirrors, peers, life, signal, answer, noticed, timer>>

\* The sequence is sampled before the scan.
PollSample(t) ==
    /\ pc[t] = "loop" /\ t \notin signal /\ Polling(t)
    /\ noticed' = noticed \ {t}
    /\ Goto(t, "scan")
    /\ UNCHANGED <<ring, mirrors, peers, life, op, signal, answer, poll, ticks, timer>>

PollReady(t) == pipe_poll(poll[t].end, poll[t].wanted) # {}

PollDone(t) == PollReady(t) \/ poll[t].timeout = "zero" \/ Expired(t)

poll_scan(t) ==
    /\ pc[t] = "scan" /\ LockFree
    /\ IF PollDone(t) THEN Return(t, None)
       ELSE Goto(t, "wait") /\ UNCHANGED <<op, signal, answer>>
    /\ UNCHANGED <<ring, mirrors, peers, life, poll, ticks, noticed, timer>>

poll_wake_predicate(t) == Expired(t) \/ t \in noticed

PollWait(t) ==
    /\ pc[t] = "wait" /\ Polling(t)
    /\ Goto(t, IF poll_wake_predicate(t) \/ t \in signal THEN "loop" ELSE "asleep")
    /\ UNCHANGED <<ring, mirrors, peers, life, op, signal, answer, poll, ticks, noticed, timer>>

-----------------------------------------------------------------------------
(* apic_timer_handler on the boot processor, time_timer_tick and           *)
(* poll_wake_notify                                                        *)

Sleepers == {t \in Threads : Polling(t)}

TimerTick ==
    /\ timer = "idle" /\ Sleepers # {}
    /\ ticks' = [t \in Threads |-> IF ticks[t] > 0 THEN ticks[t] - 1 ELSE 0]
    /\ timer' = "notify"
    /\ UNCHANGED <<pipeVars, poll, noticed>>

\* Mutant: the sleep channel is woken and the sequence left alone.
NotifyQuiet ==
    /\ timer = "notify"
    /\ timer' = "wake"
    /\ UNCHANGED <<pipeVars, poll, ticks, noticed>>

poll_wake_notify ==
    /\ timer = "notify"
    /\ noticed' = Sleepers
    /\ timer' = "wake"
    /\ UNCHANGED <<pipeVars, poll, ticks>>

TimerWake ==
    /\ timer = "wake"
    /\ pc' = sched_wake_all("poll")
    /\ timer' = "idle"
    /\ UNCHANGED <<ring, mirrors, peers, life, op, signal, answer, poll, ticks, noticed>>

Timer == TimerTick \/ poll_wake_notify \/ TimerWake

-----------------------------------------------------------------------------
\* The arguments live on the kernel stack of the call.
Forget(t) ==
    IF pc'[t] = "idle"
    THEN /\ poll' = [poll EXCEPT ![t] = NoPoll]
         /\ ticks' = [ticks EXCEPT ![t] = 0]
         /\ noticed' = noticed \ {t}
    ELSE UNCHANGED <<poll, ticks, noticed>>

PollStep(t) ==
    \/ PollSample(t) \/ poll_scan(t) \/ PollWait(t)
    \/ Step(t) /\ Forget(t) /\ UNCHANGED timer

PollNext ==
    \/ Timer
    \/ \E t \in Threads :
        \/ PollStep(t) \/ sys_poll(t)
        \/ Call(t) /\ UNCHANGED <<poll, ticks, noticed, timer>>

PollSpec == PollInit /\ [][PollNext]_pollVars

\* The timer keeps interrupting, and a running thread is scheduled again.
PollFairSpec ==
    /\ PollSpec
    /\ WF_pollVars(Timer)
    /\ \A t \in Threads : SF_pollVars(PollStep(t))

-----------------------------------------------------------------------------
(* Properties                                                              *)

\* A poll with a deadline returns, whatever the pipe does, and one without
\* returns once its descriptor has hung up: neither sleeps through the tick
\* that changes its predicate, although the tick moves the clock, then the
\* sequence, and only then wakes the sleepers.
PollReturns ==
    \A t \in Threads :
        Polling(t) /\ (poll[t].timeout = "ticks" \/ HungUp(poll[t].end)) ~> ~Polling(t)
=============================================================================
