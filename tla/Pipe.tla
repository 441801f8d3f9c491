-------------------------------- MODULE Pipe --------------------------------
(***************************************************************************)
(* Anonymous pipes: src/src/fs/pipe.c, with the descriptor references of   *)
(* fd_clone_table and vfs_close that decide when an endpoint closes, and   *)
(* the scheduler's sched_wait_until / sched_wake_all.                      *)
(*                                                                         *)
(* One pipe, created and freed again and again.  The threads of a process  *)
(* share its descriptor table; dup and spawn share the file_t.  A step is  *)
(* what runs under one acquisition of p->lock or of a scheduler lock, with *)
(* two refinements: pipe_publish's two stores are two steps, because the   *)
(* wait predicates read them without p->lock, and each sched_wake_all      *)
(* after the unlock is a step of its own (together with the wake-up of the *)
(* sleep channel that follows it).  A byte stands for its place in the     *)
(* request that wrote it.                                                  *)
(*                                                                         *)
(* fd_get takes no reference, so a thread may close a descriptor that      *)
(* another thread of its process is blocked in, and free the pipe under    *)
(* it.  What the code does from there on is undefined and not modelled:    *)
(* the lifetime is checked, and everything is proved, of processes that    *)
(* are SingleThreaded.                                                     *)
(*                                                                         *)
(* Left out: the transfer profile, requests of zero bytes (returned before *)
(* any state is touched), SIGPIPE's delivery after -VFS_EPIPE, and the     *)
(* failures of pipe_create, which undo their own allocations.              *)
(***************************************************************************)
EXTENDS Integers, Sequences

CONSTANTS
    Threads,
    Process,          \* thread -> its process, which has the descriptor table
    PIPE_CAPACITY,    \* 65536 in the code
    PIPE_BUF,         \* 4096 in the code
    MaxCount,         \* bound: the largest request
    Modes             \* whether calls may be blocking, VFS_O_NONBLOCK, or both

ASSUME PipeAssumption ==
    /\ Modes \subseteq BOOLEAN
    /\ PIPE_CAPACITY \in Nat \ {0}
    /\ PIPE_BUF \in 1 .. PIPE_CAPACITY
    /\ MaxCount \in Nat \ {0}

ASSUME ProcessAssumption == DOMAIN Process = Threads

VARIABLES
    allocated,                    \* pipe_t, its nodes and pages exist
    buffer, head, tail, count,
    data_bytes, space_bytes,      \* what the wait predicates read
    readers, writers, active_endpoints,
    files,     \* per end: the processes whose descriptors share its file_t
    pc, op,    \* per thread: where it is, in which operation
    signal,    \* threads with a deliverable signal pending
    answer     \* per thread: what its call is about to return

ring == <<buffer, head, tail, count>>
mirrors == <<data_bytes, space_bytes>>
peers == <<readers, writers>>
life == <<allocated, active_endpoints, files>>
pipeVars == <<ring, mirrors, peers, life, pc, op, signal, answer>>

Procs == {Process[t] : t \in Threads}

\* No two threads share a descriptor table: what sys_pipe takes for granted.
SingleThreaded == \A t, u \in Threads : Process[t] = Process[u] => t = u

Ends == {"read", "write"}
Index == 0 .. PIPE_CAPACITY - 1
Counts == 1 .. MaxCount
NoByte == 0       \* what fresh pages hold is never read
Smaller(a, b) == IF a < b THEN a ELSE b

None == [status |-> "none", bytes |-> <<>>]
Status(s) == [status |-> s, bytes |-> <<>>]
NoOp == [kind |-> "none", count |-> 0, nonblock |-> FALSE]

PipeInit ==
    /\ allocated = FALSE
    /\ buffer = [i \in Index |-> NoByte]
    /\ head = 0 /\ tail = 0 /\ count = 0
    /\ data_bytes = 0 /\ space_bytes = 0
    /\ readers = 0 /\ writers = 0 /\ active_endpoints = 0
    /\ files = [e \in Ends |-> {}]
    /\ pc = [t \in Threads |-> "idle"]
    /\ op = [t \in Threads |-> NoOp]
    /\ signal = {}
    /\ answer = [t \in Threads |-> None]

Goto(t, l) == pc' = [pc EXCEPT ![t] = l]

\* spin_lock_irqsave(&p->lock): only a transfer keeps it beyond one step.
LockFree == \A t \in Threads : pc[t] # "publish"

\* The call has its result, and hands it over on its way to user mode, where
\* a pending signal is delivered too.
Return(t, result) ==
    /\ Goto(t, "return")
    /\ answer' = [answer EXCEPT ![t] = result]
    /\ UNCHANGED <<op, signal>>

HandOver(t) ==
    /\ op' = [op EXCEPT ![t] = NoOp]
    /\ answer' = [answer EXCEPT ![t] = None]
    /\ signal' = signal \ {t}

-----------------------------------------------------------------------------
(* Descriptors: sys_pipe, fd_clone_table, fd_free and vfs_close            *)

pipe_create(t) ==
    /\ ~allocated /\ pc[t] = "idle"
    /\ allocated' = TRUE
    /\ buffer' = [i \in Index |-> NoByte]
    /\ head' = 0 /\ tail' = 0 /\ count' = 0
    /\ readers' = 1 /\ writers' = 1 /\ active_endpoints' = 2
    /\ data_bytes' = 0 /\ space_bytes' = PIPE_CAPACITY
    /\ files' = [e \in Ends |-> {Process[t]}]
    /\ UNCHANGED <<pc, op, signal, answer>>

\* fd_get, for the only descriptor a process has of an end.
Holds(t, e) == Process[t] \in files[e]

\* A process p spawned by t shares every descriptor of t; what it keeps of them
\* it decides itself (FD_FLAG_CLOEXEC, dup2 and close come to vfs_close).
fd_clone_table(t, p) ==
    /\ pc[t] = "idle" /\ \A u \in Threads : Process[u] = p => pc[u] = "idle"
    /\ \A e \in Ends : p \notin files[e]
    /\ \E e \in Ends : Holds(t, e)
    /\ files' = [e \in Ends |-> files[e] \cup (IF Holds(t, e) THEN {p} ELSE {})]
    /\ UNCHANGED <<ring, mirrors, peers, allocated, active_endpoints, pc, op, signal, answer>>

\* fd_free: the descriptor that drops the last reference runs node->close.  It
\* does not ask whether another thread of the process is in a call on it.  The
\* table entry, cleared after vfs_close in the code, goes with the reference.
vfs_close(t, e) ==
    /\ pc[t] = "idle" /\ Holds(t, e)
    /\ files' = [files EXCEPT ![e] = @ \ {Process[t]}]
    /\ IF files'[e] = {}
       THEN /\ Goto(t, "close")
            /\ op' = [op EXCEPT ![t] = [kind |-> e, count |-> 0, nonblock |-> FALSE]]
       ELSE UNCHANGED <<pc, op>>
    /\ UNCHANGED <<ring, mirrors, peers, allocated, active_endpoints, signal, answer>>

-----------------------------------------------------------------------------
(* Waiting and waking                                                      *)

\* Mutant: a small write waits for PIPE_BUF bytes instead of its own size.
NeededPipeBuf(t) == IF op[t].count <= PIPE_BUF THEN PIPE_BUF ELSE 1

NeededSpace(t) == IF op[t].count <= PIPE_BUF THEN op[t].count ELSE 1
pipe_read_ready == data_bytes > 0 \/ writers = 0
pipe_write_ready(t) == space_bytes >= NeededSpace(t) \/ readers = 0
Ready(t) == \/ op[t].kind = "read" /\ pipe_read_ready
            \/ op[t].kind = "write" /\ pipe_write_ready(t)

\* sched_wait_until: the predicate is evaluated and the thread blocked in one
\* scheduler transaction; a woken thread evaluates it again.
sched_wait_until(t) ==
    /\ pc[t] = "wait" /\ op[t].kind \in Ends
    /\ Goto(t, IF Ready(t) \/ t \in signal THEN "loop" ELSE "asleep")
    /\ UNCHANGED <<ring, mirrors, peers, life, op, signal, answer>>

\* Readers sleep on &p->data_bytes, writers on &p->space_bytes and pollers on
\* the sleep channel, which every wake-up of this file wakes as well.
Sleeping(u, kind) == pc[u] = "asleep" /\ op[u].kind \in {kind, "poll"}
sched_wake_all(kind) ==
    [u \in Threads |-> IF Sleeping(u, kind) THEN "wait" ELSE pc[u]]

thread_wake_for_signal(t) ==
    /\ pc[t] \in {"loop", "wait", "asleep"} /\ t \notin signal
    /\ signal' = signal \cup {t}
    /\ Goto(t, IF pc[t] = "asleep" THEN "wait" ELSE pc[t])
    /\ UNCHANGED <<ring, mirrors, peers, life, op, answer>>

-----------------------------------------------------------------------------
(* Transfers                                                               *)

Enter(t, e) ==
    /\ pc[t] = "idle" /\ Holds(t, e)
    /\ \E k \in Counts, nonblock \in Modes :
        op' = [op EXCEPT ![t] = [kind |-> e, count |-> k, nonblock |-> nonblock]]
    /\ Goto(t, "loop")
    /\ UNCHANGED <<ring, mirrors, peers, life, signal, answer>>

process_signal_interrupt(t) ==
    /\ pc[t] = "loop" /\ t \in signal
    /\ Return(t, Status("EINTR"))
    /\ UNCHANGED <<ring, mirrors, peers, life>>

InSection(t, kind) ==
    pc[t] = "loop" /\ t \notin signal /\ op[t].kind = kind /\ LockFree

\* Mutant: the index runs over the end of the ring.
AdvanceFlat(i, n) == i + n
Advance(i, n) == (i + n) % PIPE_CAPACITY

\* The two memcpy calls of pipe_read: up to the end of the ring, then from
\* its start.
CopyOut(n) ==
    LET first == Smaller(PIPE_CAPACITY - tail, n)
    IN  [i \in 1 .. n |-> IF i <= first THEN buffer[tail + i - 1]
                                        ELSE buffer[i - first - 1]]

ReadTransfer(t) ==
    /\ InSection(t, "read") /\ count > 0
    /\ LET n == Smaller(op[t].count, count)
       IN  /\ tail' = Advance(tail, n)
           /\ count' = count - n
           /\ answer' = [answer EXCEPT ![t] = [status |-> "ok", bytes |-> CopyOut(n)]]
    /\ data_bytes' = count'
    /\ Goto(t, "publish")
    /\ UNCHANGED <<buffer, head, space_bytes, peers, life, op, signal>>

\* Those of pipe_write.
Payload(n) == [i \in 1 .. n |-> i]
CopyIn(n) ==
    LET first == Smaller(PIPE_CAPACITY - head, n)
    IN  [i \in Index |->
            CASE i \in head .. head + first - 1 -> Payload(n)[i - head + 1]
              [] i \in 0 .. n - first - 1 -> Payload(n)[first + i + 1]
              [] OTHER -> buffer[i]]

\* Mutant: any free byte will do for a small write as well.
FitsPart(k, space) == space > 0

Fits(k, space) == space > 0 /\ (k > PIPE_BUF \/ space >= k)

WriteTransfer(t) ==
    /\ InSection(t, "write") /\ readers # 0
    /\ Fits(op[t].count, PIPE_CAPACITY - count)
    /\ LET n == Smaller(op[t].count, PIPE_CAPACITY - count)
       IN  /\ buffer' = CopyIn(n)
           /\ head' = Advance(head, n)
           /\ count' = count + n
           /\ answer' = [answer EXCEPT ![t] = [status |-> "ok", bytes |-> Payload(n)]]
    /\ data_bytes' = count'
    /\ Goto(t, "publish")
    /\ UNCHANGED <<tail, space_bytes, peers, life, op, signal>>

\* The rest of pipe_publish, and the unlock.
pipe_publish(t) ==
    /\ pc[t] = "publish"
    /\ space_bytes' = PIPE_CAPACITY - count
    /\ Goto(t, "wake")
    /\ UNCHANGED <<ring, data_bytes, peers, life, op, signal, answer>>

\* A read wakes the writers, a write the readers.
Other(e) == IF e = "read" THEN "write" ELSE "read"
TransferWake(t) ==
    /\ pc[t] = "wake"
    /\ pc' = [sched_wake_all(Other(op[t].kind)) EXCEPT ![t] = "idle"]
    /\ HandOver(t)
    /\ UNCHANGED <<ring, mirrors, peers, life>>

\* Nothing to transfer: hang-up, O_NONBLOCK, or sleep.
HungUp(kind) == IF kind = "read" THEN writers = 0 ELSE readers = 0
Blocked(t) == \/ op[t].kind = "read" /\ count = 0
              \/ op[t].kind = "write" /\ ~Fits(op[t].count, PIPE_CAPACITY - count)

ReadEnd(t) ==
    /\ InSection(t, "read") /\ count = 0 /\ HungUp("read")
    /\ Return(t, Status("EOF"))
    /\ UNCHANGED <<ring, mirrors, peers, life>>

WriteBroken(t) ==
    /\ InSection(t, "write") /\ HungUp("write")
    /\ Return(t, Status("EPIPE"))
    /\ UNCHANGED <<ring, mirrors, peers, life>>

WouldBlock(t) ==
    /\ \E kind \in Ends : InSection(t, kind) /\ ~HungUp(kind)
    /\ Blocked(t)
    /\ IF op[t].nonblock THEN Return(t, Status("EAGAIN"))
       ELSE Goto(t, "wait") /\ UNCHANGED <<op, signal, answer>>
    /\ UNCHANGED <<ring, mirrors, peers, life>>

Leave(t) ==
    /\ pc[t] = "return"
    /\ Goto(t, "idle")
    /\ HandOver(t)
    /\ UNCHANGED <<ring, mirrors, peers, life>>

-----------------------------------------------------------------------------
(* pipe_close_endpoint                                                     *)

\* Mutant: the second hang-up frees the pipe at once.
CloseEndpointFrees(t) ==
    /\ pc[t] = "close" /\ LockFree
    /\ readers' = readers - (IF op[t].kind = "read" THEN 1 ELSE 0)
    /\ writers' = writers - (IF op[t].kind = "write" THEN 1 ELSE 0)
    /\ allocated' = (readers' + writers' # 0)
    /\ Goto(t, "close_data")
    /\ UNCHANGED <<ring, mirrors, active_endpoints, files, op, signal, answer>>

CloseEndpoint(t) ==
    /\ pc[t] = "close" /\ LockFree
    /\ readers' = readers - (IF op[t].kind = "read" THEN 1 ELSE 0)
    /\ writers' = writers - (IF op[t].kind = "write" THEN 1 ELSE 0)
    /\ Goto(t, "close_data")
    /\ UNCHANGED <<ring, mirrors, life, op, signal, answer>>

\* Mutant: closing wakes only the other direction's channel.
CloseQuiet(t) ==
    /\ pc[t] = "close_data"
    /\ Goto(t, "close_space")
    /\ UNCHANGED <<ring, mirrors, peers, life, op, signal, answer>>

CloseWakeData(t) ==
    /\ pc[t] = "close_data"
    /\ pc' = [sched_wake_all("read") EXCEPT ![t] = "close_space"]
    /\ UNCHANGED <<ring, mirrors, peers, life, op, signal, answer>>

CloseWakeSpace(t) ==
    /\ pc[t] = "close_space"
    /\ pc' = [sched_wake_all("write") EXCEPT ![t] = "close_drop"]
    /\ UNCHANGED <<ring, mirrors, peers, life, op, signal, answer>>

\* The endpoint's lifetime reference outlives its wake-ups.
CloseDrop(t) ==
    /\ pc[t] = "close_drop"
    /\ active_endpoints' = active_endpoints - 1
    /\ allocated' = (active_endpoints' # 0)
    /\ Goto(t, "idle")
    /\ op' = [op EXCEPT ![t] = NoOp]
    /\ UNCHANGED <<ring, mirrors, peers, files, signal, answer>>

-----------------------------------------------------------------------------
\* What a thread does once it is inside a call.
Step(t) ==
    \/ sched_wait_until(t) \/ process_signal_interrupt(t)
    \/ ReadTransfer(t) \/ WriteTransfer(t) \/ pipe_publish(t) \/ TransferWake(t)
    \/ ReadEnd(t) \/ WriteBroken(t) \/ WouldBlock(t) \/ Leave(t)
    \/ CloseEndpoint(t) \/ CloseWakeData(t) \/ CloseWakeSpace(t) \/ CloseDrop(t)

\* What it may decide to do.
Call(t) ==
    \/ pipe_create(t)
    \/ \E p \in Procs \ {Process[t]} : fd_clone_table(t, p)
    \/ \E e \in Ends : Enter(t, e) \/ vfs_close(t, e)
    \/ thread_wake_for_signal(t)

PipeNext == \E t \in Threads : Step(t) \/ Call(t)

PipeSpec == PipeInit /\ [][PipeNext]_pipeVars

-----------------------------------------------------------------------------
(* Properties                                                              *)

Labels == {"idle", "loop", "wait", "asleep", "publish", "wake", "return",
           "close", "close_data", "close_space", "close_drop", "scan"}

\* Types, and the bounds that the ring arithmetic of pipe_read and pipe_write
\* and the counters of pipe_close_endpoint must not leave.
PipeTypeOK ==
    /\ allocated \in BOOLEAN
    /\ buffer \in [Index -> Counts \cup {NoByte}]
    /\ head \in Index /\ tail \in Index
    /\ count \in 0 .. PIPE_CAPACITY
    /\ data_bytes \in 0 .. PIPE_CAPACITY /\ space_bytes \in 0 .. PIPE_CAPACITY
    /\ readers \in 0 .. 1 /\ writers \in 0 .. 1 /\ active_endpoints \in 0 .. 2
    /\ files \in [Ends -> SUBSET Procs]
    /\ pc \in [Threads -> Labels]
    /\ op \in [Threads -> [kind : Ends \cup {"none", "poll"}, count : 0 .. MaxCount,
                         nonblock : BOOLEAN]]
    /\ signal \subseteq Threads

\* The threads about to wake the sleepers of one direction.
Wakers(kind) ==
    {u \in Threads : \/ pc[u] \in {"publish", "wake"} /\ op[u].kind = Other(kind)
                     \/ pc[u] = "close_data"
                     \/ pc[u] = "close_space" /\ kind = "write"}

\* No lost wake-up: a thread asleep in pipe_read or pipe_write whose request
\* could be served (judged by the ring and the peer counts, not by the mirrors
\* its predicate read without p->lock) has its wake-up under way, and nobody
\* sleeps on a pending signal.  Every wake-up comes only after the unlock.
PipeNoLostWakeup ==
    \A t \in Threads : pc[t] = "asleep" /\ op[t].kind \in Ends =>
        /\ (Blocked(t) /\ ~HungUp(op[t].kind)) \/ Wakers(op[t].kind) # {}
        /\ t \notin signal

\* A freed pipe has nobody left who may touch it: no thread inside a call, the
\* wake-ups of a closing endpoint included, and no open descriptor.
NoUseAfterFree ==
    ~allocated => /\ \A t \in Threads : pc[t] = "idle"
                  /\ \A e \in Ends : files[e] = {}

\* When no two threads share a descriptor table, pipe_close_endpoint frees the
\* pipe after its last use: the last of the two endpoints does, whichever closes
\* first.  Threads that share a table break it: one closes both ends while
\* another is blocked in pipe_read.
SingleThreadedNoUseAfterFree == SingleThreaded => NoUseAfterFree

\* The ring implements the promise of pipe.h: first in first out, atomic writes
\* of up to PIPE_BUF bytes, end of file and EPIPE only after the hang-ups.
Promise == INSTANCE Stream WITH
    stream <- [k \in 1 .. count |-> buffer[(tail + k - 1) % PIPE_CAPACITY]],
    request <- [t \in Threads |-> op[t].count],
    open <- {e \in Ends : IF e = "read" THEN readers > 0 ELSE writers > 0}
ImplementsStream == Promise!StreamSpec

\* A thread blocked in a transfer learns of the hang-up of the other end.
HangUpSeen ==
    \A t \in Threads, e \in Ends :
        (pc[t] \in {"wait", "asleep"} /\ op[t].kind = e /\ HungUp(e)) ~> pc[t] = "idle"
=============================================================================
