# TLA+ models of the FortressOS kernel

FortressOS is an x86-64 SMP operating system: a preemptive kernel, a network
stack run by one worker thread, ext4 with a journal, and user programs. This
directory models the parts of the kernel, and of its thread library, where
several threads or CPUs, the timer, power cuts and other failures meet, checks
them with TLC on small instances, and proves the safety of the request
transport and its callers, the UDP sockets, the pipes, the scheduler, the locks with
the TLB shootdown, and the thread library for every instance with TLAPS.

    tlc -workers 2 -config MCHandoff.cfg MCHandoff    # one run
    tlapm HandoffProofs.tla                           # one component's proofs;
        # likewise NetControlProofs, PipeProofs, PthreadProofs, SchedProofs, TlbProofs, UdpProofs

`PROJECT.json` lists components, runs, mutants, theorems, hazards, findings and,
for every definition, the source lines it stands for.

## 1. Inventory

The kernel is under `src/src/`. Components that carry its own control logic:

| component | state | operations | who it meets | what makes it correct |
|---|---|---|---|---|
| Request transport, `kernel/handoff.c` | 64 slots with generation, ticket, state, cancel and caller flags; credits; `work` hint | begin, publish, cancel, release, collect for callers; acknowledge, claim, pending, finish, inspect, cleaned for the owner; fail | its lock against lock-free readers of `work` and slot states; signals cancel, failure cancels all | no slot recycled under a caller; credits balance; FIFO per class; the owner never sleeps on work |
| Network control calls, `net/net_control.c`, `net/net_wifi_owner.c`, `net/net_ping.c` | unlocked argument records, 4 Wi-Fi records, `firmware_busy`, one ping engine, admission sequence, three cursors | the system calls' admission loops and waits; the worker's typed steps, maintenance, wake-ups | caller and worker share records ordered only by the slot's state | answers reach their own caller; nothing is leaked by an abandoned call; no lost wake-up; calls return |
| Network worker, `net/net.c` | turn, budget, deadline | acknowledge, maintenance, service, receive, timers | the timer wakes it each tick | the turn goes on |
| Pipes, `fs/pipe.c` | ring, two mirrors of its fill level, peer counts, endpoint count | create, read, write, close, poll | predicates read the mirrors without the lock; wake-ups follow the unlock; signals; spawn and dup share files | FIFO stream, atomic writes up to `PIPE_BUF`, EOF and EPIPE, no lost wake-up, freed once and last |
| Poll and tick, `kernel/poll.c`, `kernel/time.c` | `g_poll_wake_seq`, deadlines | sys_poll, poll_wake_notify, the tick's wake of the sleep channel | pipes, PTYs, sockets, timer interrupt | a ready, expired or hung-up poll returns |
| Scheduler, `kernel/thread.c`, `arch/x86_64/context.asm`, address spaces of `mm/vmm.c` | per CPU: current thread, run queue, blocked, zombie and dead lists, the hand-off of the last switch; per thread `context_busy`; per space a CPU mask and references | yield, steal, wait, wake, exit, switch, post-switch, reap, deferred destruction | every CPU; preemption by the tick | one CPU per stack; nothing freed in use; no thread lost or queued twice |
| Futexes and join, `kernel/thread.c` | 64 waiter slots, channels, join records | FUTEX_WAIT, FUTEX_WAKE, thread exit and join | signals, deadlines, the scheduler's wait and wake | a wake-up reaches a waiter; one joiner gets the value |
| User threads library, `user/pthread.h` | the futex words of mutex, condition, barrier, once | lock, trylock, unlock, wait, signal, broadcast, barrier, once, join | the kernel's futexes | mutual exclusion; nobody passes a barrier or a once too early; threads end |
| UDP sockets, `net/net_udp_owner.c`, `net/net_socket.c`, `net/net_socket_syscall.c` | request records with phase, pin and lease; 8 payload slabs and their tickets; per socket a receive queue and two operations | send and receive; offer, pin, copy, commit; the worker's sweep and steps | the transport, the worker, the link, signals | a slab is never reused under a copy; datagrams sent and received exactly once; calls end |
| TCP, `net/net_tcp.c`, `net/tcp_tcb.c` | connection blocks | connect, accept, retransmit, close | the transport, the worker, timers | TCP states |
| Ranked spinlocks, `kernel/spinlock.c` | lock words, per-CPU chain of held locks | acquire, release | every component | no circle of waiting CPUs |
| TLB shootdown, `arch/x86_64/smp.c`, `mm/vmm.c` | per-CPU mailboxes and acknowledgement masks | shootdown, IPI handler, polls of the spin loops | CPUs with interrupts off, page tables, frames | no frame reused under a stale translation, no mutual wait |
| Journal, `fs/jbd2.c`, `fs/jbd2_write.inc` | log blocks, superblock with sequence, tail and head; staged images | begin, stage, commit, checkpoint, analyze, replay | power failure and I/O errors between any two writes; a device cache | a transaction is there whole or not at all, and for good once reported |
| PTY, `drivers/pty.c`; shared memory, `kernel/shm.c` | rings, session, reference counts | read, write, hang up; map, unmap | as pipes | as pipes |
| Packages, `fs/pkg_executor.inc` | plan, forward log | execute, resume | power failure | the resumed plan ends where the uninterrupted one does |

The rest (drivers, file system formats, memory allocators, boot and installer,
accounts, ELF loading, user programs) is sequential code over device registers
or on-disk formats, or third-party code, and is listed in `PROJECT.json` with
the reason it is left out. The list of hazards there names, line by line, what
in this code a test hardly reaches.

## 2. Modules

| module | models | composes |
|---|---|---|
| `Handoff` | `handoff.c`, callers free within the contract of `handoff.h` | |
| `HandoffProofs` | its theorems | `Handoff` |
| `NetControl` | `net_control_call`, `net_wifi_syscall`, the worker's turn, ping engine | extends `Handoff`, and implements it |
| `NetControlProofs` | its theorems, the refinement of `Handoff` included | `NetControl`, `HandoffProofs` |
| `Udp` | UDP send and receive: system call, owner, socket, transmission | stands on `Handoff`'s guarantees |
| `UdpProofs` | its theorems | `Udp` |
| `Stream` | abstract: what a pipe promises | |
| `Pipe` | `pipe.c`, descriptor references, sleeping and waking | implements `Stream` |
| `PipeProofs` | its theorems, the refinement of `Stream` included | `Pipe` |
| `Poll` | `sys_poll` on a pipe, the timer tick | extends `Pipe` |
| `Store` | abstract: a block store with atomic, durable transactions | |
| `Jbd2` | `jbd2.c`, `jbd2_write.inc`, a device with a volatile cache | implements `Store` |
| `Tlb` | ranked spinlocks, TLB shootdown, and the heap, unmapping, switching and stealing paths that use both | |
| `TlbProofs` | its theorems | `Tlb` |
| `Sched` | the scheduler's queues, the context switch, reaping, address-space lifetime | |
| `SchedProofs` | its theorems | `Sched` |
| `Futex` | `sys_futex`, thread exit and join in the kernel | |
| `Pthread` | `user/pthread.h` | extends `Futex` |
| `PthreadProofs` | its theorems | `Pthread` |
| `MC...` | instances for TLC: symmetry sets, mixes of calls, disks, programs | |

### Handoff

Each function of `handoff.c` runs under one spinlock and is one action, named as
the function. `handoff_acknowledge` is a loop under the lock: it is the sequence
`AckEnter`, `AckScan`, `AckGrant`, `AckLeave`, during which all locked actions
are shut out (`Unlocked`) but lock-free reads go on. An actor is a thread in a
call, the owner is the worker; `owner` records where it is and which token it
holds. A slot in state RETIRED is one whose generation is exhausted. Counters
that are 64 bits wide in the code are bounded by `MaxTicket` and
`MaxGeneration`, and what the code does at `UINT64_MAX` (EXHAUSTED, RETIRED) is
what the model does at these bounds, so they are reached in every run. Left out:
the statistics and the hook by which a test exhausts the counters.

### NetControl

A caller runs `Call`, `BeginCall`, `Fill` (or `FillFirmware`), `PublishCall`,
`WaitLoop`, `Collect`, with the sleeps of the two admission loops
(`AdmissionWait`) and of the wait for completion between them; `Interrupted` is
a signal. The worker's turn is `Acknowledge`, `AcknowledgeWake`, `Maintenance`, then `Claim` or
`Pending`, `Step` and `Finish`. Arguments and answers are represented by the
token of the request they belong to, which makes every mix-up visible. The
admission sequence matters only through comparison with a caller's snapshot:
`moved` holds the callers whose snapshot is outdated. `Fail` is the owner's
failure. The wake-ups of `handoff_acknowledge`, which follow its unlock
(`handoff.c:250`-252), are a step of their own: callers may come, go and fall asleep
before it. Those of `handoff_claim`, `handoff_finish` and `handoff_fail` are taken
with their critical sections. Left out: packet contents, address configuration, checks for a clock
that runs backwards, and the echo probe of the boot self test.

### Udp

A caller runs `net_udp_begin`, then `Wait` until it has a reply, a signal, a user
range that is gone, or the pin of an offered slab; `CopyUnpin` is the copy and the
commit, `terminal` the wait for the worker's last word. The worker's turn is
`Protocols` (link, arrivals, the two socket ticks with the transmission between
them), `Housekeeping` (acknowledge and maintenance) and the two service loops,
whose step is cut in two: `StepBegin` is its first section under the lock, where
the phase is read and an offer taken back, `Step` is everything after it. The
caller may act between them, and the hazard is there. What a step does is a
function of the record, the pool and the socket, composed as the code's branches
are (`StepWork`). A `net_ipv4_udp_start` that fails (`net_socket.c:386`) ends the
request with the EIO of a failing transmission and is not told apart from it.

The transport is reduced to slot states: tokens, recycling and admission are
proved of `Handoff` and `NetControl`, so a call here begins QUEUED, and
any queued request may be claimed next. Of the tickets for a slab only their order is
kept: who waits (`waiting`), and who of two came first (`older`). Time is the choice of a step or a sweep to
find a lease, a deadline or a transmission expired. All slots are acknowledged and
maintained in one step. The sleeps are merged with what follows them, since the
worker's own hints (`copy_decisions`, `tcp_runnable`, `slab_waiters`) only decide
how soon it turns: it turns at each tick in any case. Left out: creating, binding
and closing sockets, the TCP requests that share the slabs, `UDP_ABORT` (no UDP
caller publishes it), a clock that runs backwards, and exhausted 64-bit counters.

### Pipe and Stream

One pipe, created and freed repeatedly. A step is what runs under one
acquisition of `p->lock` or a scheduler lock; the two stores of `pipe_publish`
are two steps because the wait predicates read them without the lock, and each
wake-up after the unlock is a step. A byte is its place in the request that
wrote it, which is enough for the stream to show lost, repeated, reordered or
interleaved bytes. A process holds an end at most once (`dup` adds the same holder
again). `sched_wake_all` scans all CPUs in one step.

`Process` says which thread uses whose descriptor table. `vfs_close` asks nothing of
the other threads of the process, and a transfer takes no reference, as in the code
(`fd_get`, `kernel/thread.c:2571`): when two threads share a table, one can free the
pipe under the other, and what the code does after that is undefined and not
modelled. The runs and theorems are therefore about processes of one thread each,
by name: `SingleThreaded`, the premise of every theorem and of
`SingleThreadedNoUseAfterFree`. It is what `sys_pipe` takes for granted
(`kernel/syscall.c:893`) and what the code no longer guarantees; see the findings.
`fd_free` clears the table entry after `vfs_close`, the model with it, which only
another thread of the process could tell.
Left out: the transfer profile, requests of zero bytes, delivery of SIGPIPE, and
the failures of `pipe_create`.

`Stream` has a sequence of bytes, the open ends, and per process its request and
answer. It promises that a write of up to `PIPE_BUF` bytes goes in whole, that a
read takes a prefix, that end of file is answered only after the last writer and
the last byte, and EPIPE only after the last reader. `Pipe` implements it with
the stream read off the ring.

### Poll

A poll watches one descriptor: what becomes ready behind a scan of several is
what becomes ready after the only query here. `g_poll_wake_seq` is the set
`noticed` of pollers whose sample differs from it; the clock is the number of
ticks each poller has left. A tick is three steps in the order of
`kernel/time.c`: clock, sequence, wake-up. Other kinds of files and a clock
frequency of zero are left out.

### Jbd2 and Store

`sb`, `log` and `home` are what a read of the device returns; `lostSb`, `lostLog`
and `lostHome` are what a power cut may leave of each block instead: any older
contents since the last flush, or a torn block. `PowerCut` chooses for every
block independently, so writes persist in any order. A flush empties the sets.
The steps of commit, checkpoint and replay are the batches of writes between two
flushes, in the order of the code; a cut or an I/O error inside a batch leaves a
subset of it, which the cut after the batch can leave too. The fields of the
superblock, and a commit record written over the zeroed block, change one
512-byte sector and are assumed not to tear. An image is its value and whether
its leading magic number was escaped; a checksum holds iff the contents are
those that were sealed. The analysis is a recursive function over the log, as
`jbd2_analyze` walks it: its early returns are the "stop" and "fail" ends.

`Store` promises that a submitted transaction lands whole or not at all, that
one reported DURABLE stays, and that a landed one has its ordered data. The
refinement reads the store as what the next recovery would leave (`Logical`),
which is how the file system above sees it through `jbd2_preview_read_sectors`.

Left out: reads and writes below a sector, the EFBIG refusals, `validate_home`
(true), 64-bit tags, and checksum arithmetic. A restart is a power cycle; a warm
reset that keeps the device's cache is not modelled.

### Tlb

A CPU runs one kernel path at a time, a sequence of instructions (lock, unlock,
map, unmap, shoot, free, enter, cr3), each one atomic access of the code.
Interrupts are on iff the CPU holds no lock and sends no shootdown, since irqsave
and irqrestore nest. `Cache` is the processor filling its TLB at any time from
the page tables it can walk. `smp_tlb_service_local` is read, invalidate,
acknowledge, with the snapshot of active initiators before it, and is entered
from the IPI when interrupts are on and from the spin and wait loops when they
are off. A multi-page unmapping is modelled for one page. `Other` stands for
every other path of the kernel that nests two locks, in any order: what
`can_acquire` must stop. An IPI that is sent arrives; the panic after a long wait
for acknowledgements is left out, and so are CPUs that go online later.

### Sched

A step is what one holder of a scheduler lock does, or one section with
interrupts off between two locks. `cur` is what the scheduler believes, `on` the
stack the CPU executes on; they differ between `Switch` and `SwitchContext`.
`prev` is what a switch leaves for `sched_post_switch`. A new thread's first
frame has interrupts on, so it may be preempted before it calls
`sched_post_switch` (phases "first" and "late"): the next switch then overwrites
parts of the hand-off. A theft is two steps with the thread in nobody's queue in
between (`got`). Deferred destruction of spaces is part of `Reap`, which calls
it. Left out: creating threads and processes while others run, priorities and
time slices, channels (a `Wake` may come at any time) and signals.

### Futex and Pthread

A step is one critical section of the futex, join or scheduler lock, or one
atomic access of the library to a shared word. A thread runs a program, a list
of library operations; the operations of `pthread_cond_wait` are listed one by
one ("seq", "unlock", "wait", "lock"). `sched_wake_all` rouses every sleeper of
the channel, who then re-checks its own slot. `Deadline` only makes the deadline
pass: nothing wakes the sleeper for it, as in the code. Left out: recursive
mutexes, `pthread_create`, the user spinlock, and a process that exits as a whole.

## 3. Runs

Sizes are distinct states. Deadlock is checked except in `jbd2`, `tlb`, `pthread`
and `futex_lost`, which end when their bounded commits, paths or programs do.

| run | instance | properties | shows |
|---|---|---|---|
| `handoff` | 3 slots, 3 actors, 2 credits of which 1 data | TypeOK, CreditLedger, RegistrationSafe, HeldClaimed, FifoAdmission, OwnerHint, ClaimInOrder | the transport under every interleaving of callers, owner, cancellation and failure (1.8M) |
| `netcontrol_contention` | 2 slots, 1 credit, 2 callers both of interface, ping or firmware calls | ProbeHeld, NoLostWakeup, AdmissionSleep, RecordFence, FirmwareFence | the ping engine, the records and `firmware_busy` contended; the sleeps against the wake-ups (2.9M) |
| `netcontrol_ends` | 1 slot used twice, a ping and a Wi-Fi caller; only the worker is fair | AnswerOwn, Spec, AbandonedReclaimed, CallReturns | unlocked records across recycling; every step is a step of `Handoff`; the worker alone reclaims; calls return (0.27M) |
| `udp` | 1 socket, 1 slab, 2 slots, 2 callers: two sends, a receive and a send, two receives, or a receive and a nonblocking one; 1 arrival, 1 signal | SlabOwn, ExactlyOnce, CallsEnd | offers, pins and leases against signals, a link that comes and goes, and a caller that stops (0.24M) |
| `pipe_stream` | 2 processes of one thread, ring of 3, `PIPE_BUF` 2, requests up to 3, blocking and not | PipeTypeOK, PipeNoLostWakeup, SingleThreadedNoUseAfterFree, ImplementsStream | the ring is a FIFO stream with atomic small writes; large writes sleep for one byte and are woken; freed once and last (2.7M) |
| `poll_returns` | 1 poller, 2 processes of one thread, fair | PollReturns, HangUpSeen | a poll that has expired or hung up ends, and so does every sleep in a pipe with no peer (0.1M) |
| `jbd2` | 2 home blocks, log of 5, one tag per descriptor, 2 commits, 2 power cuts; a fresh disk, and two left by another ext4 implementation: a block logged and then revoked, or revoked and then logged | NeverRefused, NoFutureRecord, AtomicStore | atomic, durable transactions through cuts anywhere, torn and reordered writes, interrupted replay, I/O errors, wrapped log and sequence; a found log is recovered to what was committed (1.8M) |
| `tlb` | 3 CPUs, a kernel page and a user page, 2 frames, 2 paths | NoStaleUse, NoLockCycle, PathsOrdered, PathsEnd | shootdowns that cross, that meet a lock spinner and a switch; ranks stop every circle (0.33M) |
| `sched` | 2 CPUs, the boot thread, a process of two threads | OneStack, StackKept, SpaceKept, OnePlace | switching, stealing, waking, exit and reaping (73k) |
| `sched_residency` | as `sched`; violation | MaskCurrent | finding 2 |
| `pthread` | 3 threads, 2 slots, 1 signal, two programs | Exclusion, BarrierTogether, OnceDone, JoinOnce | the library is safe over a futex that returns early or has no slot (0.7M) |
| `futex_lost` | 3 threads that lock and unlock, 3 slots, fair; violation | ThreadsEnd | finding 1 |

Why the bounds are enough. Three slots and three actors are the fewest with an
earlier offer waiting, a credit becoming free and a later offer, which a FIFO
violation needs; two credits of which one is data reach both limits. One slot
with two generations makes every second request a recycled one, and makes every
second caller sleep for a slot. One credit for two slots makes the second caller
sleep in `handoff_publish`. A ring of three with requests up to three wraps at
every position, splits copies, and is found full, empty and partly free, with
requests below, at and above `PIPE_BUF`. A log of five holds the longest
transaction (two images with a descriptor each, and the commit), so all but the
shortest second transactions wrap over the records of the first; sequence numbers are
modulo 16 and start at 14, so they wrap too; two cuts reach a cut during the
replay after a cut. Three CPUs are the fewest with two crossing shootdowns and a
third CPU that answers both, or a lock holder, a spinner and an initiator; two
paths make all pairs of paths meet. Two CPUs and three threads give a theft of a
thread that its old CPU has just switched away from, and an exit of the last
thread of a process while the other CPU still has its root loaded. Two futex
slots for three threads make the table run out. One slab for two UDP calls makes
the second wait for the first one's lease, and one datagram for two receives makes
them compete for the head of the queue.

With one arrival, `udp` cannot see two datagrams out of order: that part of
`ExactlyOnce` rests on the theorem. The disks of `jbd2` say by hand what must be
found in their blocks (`store`), so the revoke rule of `j_revoked` is not checked
against itself: with a rule that ignores revokes, or the order of the transactions,
`AtomicStore` fails at the first mount.

Symmetry is used over actors and threads in safety runs only.

Every property of a passing run has a mutant in `PROJECT.json`: a definition
that models code, changed as a plausible bug would change it (a wake-up that is
dropped, a credit returned twice, a slot recycled too early), for which TLC
finds the property violated.

### Fairness

* The worker (`WF` of `OwnerNext`): a kernel thread that sleeps at most until
  the next tick (`net/net.c:436`), so its turn always goes on.
* A probe resolves (`SF` of `PingResolved`): `s_expire` of `net_ping.c` ends it
  after a fixed number of ticks. The acknowledge step that expires it may be
  interrupted by others of the worker's steps, hence strong fairness.
* A caller (`FairCallers`, `SF`): a runnable thread is scheduled again, and gets
  the spinlock in the end. The lock is not FIFO, so this is an assumption about
  contention, not something the code enforces. `CallReturns` is the only
  property of NetControl that needs it, and states it as its premise. A stopped
  thread simply takes no step otherwise.
* UDP (`Fairness` of `Udp`): the worker as above; one of its actions is always
  enabled, so it is said to act for ever. Some sweep finds the transmission
  and the receive over (3 and 5 seconds, `net_ipv4.c:249`, `net_socket.c:373`), some
  step finds an offer that nobody pins past its lease of a second
  (`net_udp_owner.c:510`): strong fairness, since between the sweeps that could find
  it others come that do not. A caller that has pinned a slab unpins it
  (`WF` of `CopyUnpin`): it neither sleeps nor looks at signals in between. Nothing
  else is asked of callers; `CallsEnd` has the scheduling of the caller it speaks of
  as its premise, strongly fair because an offer may be withdrawn before the caller
  comes to pin it, and the other caller may stop for ever.
* Pollers and pipe threads (`SF` of `PollStep`): the same, for `p->lock`. The
  timer (`WF`) interrupts for ever.
* CPUs (`FairSpec` of `Tlb`): some CPU that can execute its path or its service
  routine does. No path has to start.
* Threads of a process (`FairSpec` of `Pthread`): the scheduler runs every thread
  that is not asleep. It is what the violation `futex_lost` is shown under, so a
  thread that never ends is one that nobody wakes.

Nobody is ever obliged to make a call, to close an end or to send a signal.

### Findings

1. `futex_lost`. FUTEX_WAKE clears `active` (`kernel/thread.c:3598`), which frees the
   slot while its waiter has not run. A new FUTEX_WAIT takes the slot
   (`thread.c:3636`) and the first waiter, when it runs, clears `active` in it at
   the end of its own wait (`thread.c:3670`). The new waiter is then counted by no
   FUTEX_WAKE, which skips `sched_wake_all` when it counts nobody
   (`thread.c:3603`), so the last waiter sleeps for ever on a free mutex: three
   threads that lock and unlock one mutex do not all end, where
   `user/pthread_test.c:97` joins such threads and line 104 reports
   "PASS (counter=2000)", and `docs/plans/USERLAND_THREADS_PLAN.md:136` plans a
   mutex on these futexes.
2. `sched_residency`. `mm/vmm.h:52` calls `active_cpus_mask` the "Bitmask of CPUs
   currently using this CR3". A new thread starts with interrupts on
   (`thread.c:773`); if the tick preempts it before `sched_post_switch`
   (`thread.c:115`), the hand-off of the switch to it is overwritten and the CPU
   stays in the mask of the space it left. `SpaceKept` holds all the same: the
   stale bit delays the destruction of the space and never hastens it.

Differences between text and code that need no run:

* Threads of a process share `process->fd_table` (`kernel/thread.c:2573`, 3358) and
  `fd_get` takes no reference (`thread.c:2571`). While one thread is in `pipe_read` or
  `pipe_write`, another may close both ends, and `pipe_close_endpoint` frees the pipe
  under the first. `kernel/syscall.c:893` still says "Each process has one thread and
  owns its fd table", and `docs/plans/S6_AUDIT.md:119` concludes from it that the table
  needs no locks. `NoUseAfterFree` states what is lost: with `Process` mapping two
  threads to one process, TLC reaches its violation in 12 steps (create, enter a read,
  and the sibling's two closes).
* `pipe_poll` reports POLLOUT for one free byte (`fs/pipe.c:242`), a write of up to
  `PIPE_BUF` bytes waits until all of it fits (`fs/pipe.c:118`), and
  `syscall_abi.h:178` defines POLLOUT as "Ready to write without blocking".
* A transfer wakes the sleep channel without changing `g_poll_wake_seq`, so a woken
  poller sleeps on until the next tick (`kernel/poll.c:35`), where
  `docs/plans/READINESS_POLL_PLAN.md:24` says poll "Returns immediately when
  requested events are ready".
* A futex deadline is no part of the wait's predicate and wakes nobody
  (`thread.c:3666`); `docs/plans/USERLAND_THREADS_PLAN.md:31` has FUTEX_WAIT "with
  optional millisecond timeout".
* If the link is lost between a transmission (`net_ipv4.c:288`) and the second socket
  tick of the same sweep, the tick takes the result and puts EIO over it
  (`net_socket.c:390`): the send, interrupted, returns EINTR though its datagram went
  out, where `docs/plans/UDP_SOCKET_ABI.md:146` "preserves any accepted nonnegative
  count". `ExactlyOnce` excepts the case by name (`wire.down`).
* `pthread_create` takes one of 16 stack slots (`user/pthread.h:181`) that nothing
  gives back after a successful creation.

## 4. Proofs

Seven components have a proof module. In each, a theorem `Spec => []IInv` carries
the inductive invariant, which TLC confirmed on the run's instance before it was
proved, and the listed theorems follow from it. The proofs have one lemma per
action, and lemmas on what the actions have in common.

### HandoffProofs

`HandoffProofs` proves, from `HandoffAssumption` alone (a nonempty table, data
credits among the credits, a batch no larger than the table, distinct model
values), for every number of slots, credits, actors and kinds:

| theorem | states |
|---|---|
| TypeCorrect | `Spec => []TypeOK`, which bounds the credits by their limits |
| CreditsBalance | the counters count the QUEUED slots of each class |
| TokensSafe | no slot is recycled under an interested caller, no stale token matches another request |
| OwnerHolds | the owner's token stays valid until it gives it back, and nothing else is CLAIMED |
| AdmissionFifo | no offer of a class is passed by a later one |
| HintLevel | `work` is up whenever there is something to do |
| ClaimsInOrder | an action property: requests of a class are claimed in ticket order |

All rest on `Invariance`: `Spec => []IInv`, where `IInv` is the conjunction of
the invariants above and of four parts none of them can do without:

* `Registered`: a live slot names an actor, whose registration holds the slot's
  token. Without it release and publish could touch another's slot.
* `Generations`: a token never runs ahead of its slot's generation and is behind
  that of a FREE slot. It is what makes recycling safe: the token of a new
  request in the slot is new to everyone.
* `Tickets`: tickets are at most `next_ticket`, distinct, and given to every
  QUEUED slot. A new ticket is thus later than all, which keeps FIFO.
* `ScanCount`: the acknowledge loop has iterations left while it scans; `TypeOK`
  of its counter needs it.

The ledger is about cardinalities: `LedgerKept`, `LedgerTaken` and
`LedgerDropped` say what a step that moves no slot, or one, into or out of QUEUED
does to it, from the library's facts on finite sets. `IdentityKept`, `FifoKept`
and `TicketsKept` do the same for the parts about tokens and tickets. Then there
is one lemma per action, `InitInv` and `StepInv`. The theorems that follow are
one line each except `ClaimsInOrder`, which argues from `ClaimNext`.

### NetControlProofs

From `HandoffAssumption` and `NetControlAssumption` (at least one Wi-Fi record; the
kinds of call, all of them control, and of them the Wi-Fi kinds retained, as
`net_control.c` and `net_wifi_owner.c` submit them; the statuses the typed steps
reply with), for every number of slots, credits, callers and records:

| theorem | states |
|---|---|
| ControlRefinesHandoff | `NCSpec => Spec`: every step is one of `Handoff` or leaves it alone |
| AnswersOwn | a caller collects the answer to its own request exactly when the reply says OK |
| RecordsFenced | a Wi-Fi record in use belongs to one live request |
| FirmwareFenced | `firmware_busy` is set exactly while one call uploads |
| ProbesHeld | the ping engine is in use only for a request that knows its probe |
| CallersWoken | no caller sleeps through its completion or a move of the sequence |
| AdmissionSleeps | a caller asleep in admission could not get further, or the owner will admit it |

The invariant `NCIInv` is that of `HandoffProofs` and the parts below. The
refinement comes first (`StepSimulates`): a step keeps the transport's half because
it is a step of the transport, and only the parts are left to the lemmas.

* `CallOf`: where a call is tells whether it is registered, for which kind, and
  that a request without a filled-in record has no ticket. So the owner cannot have
  claimed it, and answers it only with EINTR.
* `AnswerIn`: until a complete slot loses its caller, its record shows the answer
  exactly when the reply says OK. In between, the outcome the step has decided
  stands for the reply (`Said`); before, the record is another request's (`Unfilled`).
* `HeldBack`: a record in use keeps its slot from being declared clean, so the slot
  is not recycled; `RecordFence` needs it.
* `ProbeEnds`: a probe is forgotten before its request is answered. Without it
  `handoff_finish` could leave the engine to nobody.
* `OneUpload`: FirmwareFence, by cases.
* `Admission`: why a caller waits, until the sequence moves: the table is full or it
  is busy, or it has an offer the owner will grant.

`Advances`, `Recycled` and `Opened` say what any step of the transport does to one
slot; `AnswersKept`, `HoldersKept`, `CallKept`, `SleepKept` and `AdmissionKept` derive
the parts from that, so most actions only show which of the three they are. The
typed steps, `handoff_finish` and the steps that fill in or wipe records change the
parts themselves and have proofs of their own. That `Statuses` contains what the
typed steps reply with is needed for `handoff_finish` to be a step of `Handoff`.

### PipeProofs

From `PipeAssumption` (a ring of at least one byte, `PIPE_BUF` no larger than the
ring, requests of at least one byte), for every set of processes of one thread each
(`SingleThreaded` is a premise of every theorem):

| theorem | states |
|---|---|
| PipeTypes | the ring, the mirrors and the counts stay within their types |
| PipeWakeups | nobody sleeps on a predicate that holds unless a wake-up is on its way |
| SingleThreadedLifetime | no call is on a freed pipe, and it is freed when the last endpoint goes |
| PipeRefinesStream | the refinement: every step is one of `Stream` or a stutter |

The invariant `PipeIInv` needs, besides types and the wake-up property itself:
`Calls` (which label goes with which operation, and that a transfer runs on a
descriptor its process holds, which a second thread of the process would break),
`OnePublisher` and `Mirrors` (the mirrors are exact
except between the two stores of `pipe_publish`, where `space_bytes` errs on a known
side), `OneCloser` and `Lifetime` (the three counts are functions of who holds and
who closes each end), and `RingIndex` (`head` is `tail + count`). The refinement
rests on three lemmas about the ring read as a sequence (`Bytes`): a write appends,
a read drops a prefix, and anything else leaves it alone.

### PthreadProofs

From `PthreadAssumption`, for every finite set of threads, size of the waiter
table, number of signals and set of programs: a program is well formed
(`unlock` and the condition's `seq` follow a `lock`, a `trylock` is followed by its
`unlock`, nothing comes after `exit`, which is `_Noreturn` in `pthread.h:225`), and a
barrier or a once is called equally often by all threads or by none, as the
barrier's threshold, the number of threads, requires.

| theorem | states |
|---|---|
| MutexExclusive | two threads never both have the mutex |
| BarrierHolds | nobody leaves a round of the barrier before all have arrived |
| OnceRuns | nobody returns from `pthread_once` before the routine ran; it runs once |
| JoinExclusive | one joiner at most gets a thread's value, after its exit |

`PthreadIInv` says nothing of the waiter table: safety of the library may not rest
on a futex, which returns early, has no slot, or (finding 1) loses a waiter. Its
parts: `Places` (the label tells the operation; what is left of a program is well
formed), `Held` (a mutex that somebody has is not 0), `OnceWord` (0, 1 and 2 mean that
nobody, exactly one thread, or nobody any more is in the routine), `Records` (the join
record follows the thread and a value taken is gone), and `Barrier`: `in_count` is
the number of those who wait for the current cycle until the last one resets
it, and all threads have equally many rounds to go once a thread that has been
released counts as having left (`Due`).

### SchedProofs

From `SchedAssumption` (finite sets of CPUs and threads, one idle thread per CPU,
distinct from every other thread), for every number of CPUs, threads and processes:

| theorem | states |
|---|---|
| ThreadsPlaced | a thread is in exactly one place: a queue, a list, a CPU, a theft, or reaped |
| StackExclusive | two CPUs never execute on one kernel stack |
| StackNotFreed | no CPU executes on a reaped thread's stack |
| SpaceOutlives | a space is torn down after its last thread, and under no CPU |

`SchedIInv` adds to OnePlace: `HandOff`, which says for each CPU what its switch
has left to do (until `SwitchContext` it executes on the stack of its idle thread, of
the thread that is exiting, or of one whose `context_busy` is set and which has not
left the CPU's queues, so nobody else may run it), and `Counted`: the references of a
space cover its living threads and the exits that `sched_post_switch` has not
accounted for yet. It is an inequality, because a preempted first run (finding 2)
loses part of the hand-off: references may be too many, never too few.

### TlbProofs

From `TlbAssumption` (finitely many CPUs, numbered; at least one frame;
`MAX_HELD_LOCKS` at least 2, where the code has 16 and the modelled paths nest two),
for every number of CPUs, spaces, pages, frames and paths:

| theorem | states |
|---|---|
| LocksAcyclic | no circle of CPUs each spinning for a lock the next one owns |
| ModelledPathsOrdered | the paths modelled never ask for a lock `can_acquire` refuses |
| FramesOutliveEntries | a frame behind a stale TLB entry is still kept by the path that unmapped it |

`TlbIInv` has two halves. `LockInv`: each CPU is at some place of a path whose chain
of locks before every instruction is fixed (`Planned`), the chain is in the strict
order of `can_acquire` (`Chain`), and holds every lock the CPU owns in front of the
one it spins for (`Owned`). In a circle the lock spun for would grow for ever along
a strict order of finitely many. This includes the paths of `Other`, which nest
locks in any order: those the check refuses. `MemInv`: a page is the business of one
CPU (`Apart`); what a CPU caches is of the kernel or of its root, and that root is
marked as used (`Loaded`), so the shortcut for spaces that were never active skips
nobody; and every stale entry has a keeper, a path that still has the frame and a
shootdown before it, whose acknowledgement mask has the CPU in it once it waits
(`Fresh`). What a CPU has read of a mailbox is the current request or has an older
generation (`Asked`). An older one does not occur while services run with interrupts
off and an initiator waits for every acknowledgement; the invariant does not need to
know it.

### UdpProofs

From `UdpAssumption` (at least one slot, one datagram of queue and one request per
batch; finitely many slabs, the absent one not among them), for every number of
callers, slots, slabs, calls, arrivals and signals:

| theorem | states |
|---|---|
| UdpInvariant | `Spec => []UInv`, the inductive invariant |
| SlabOwned | a slab in use has one owner, what has ended holds nothing, a pinned slab is neither taken back nor overwritten |
| DeliveredOnce | a datagram reaches exactly one call, and the status of a send tells if it went out |

`UInv` follows the record through the worker's step, whose two halves the caller may
come between:

* `Registered`, `Numbered`: a call in progress has a slot of its own, and no two live
  slots carry one number; so a token names one request.
* `InStep`: what the first half has read is still so in the second, except that an
  offer may have been committed. `Was` is the phase before the first half took it
  back, and the parts below speak of `Was`: between the halves the record says IO,
  while slab and operation are still those of the offer.
* `Phased`: what a live request holds in each phase. An offered receive has the head
  of the queue in its slab, and a committed one has its operation, so the datagram its
  caller copied is the one that is consumed. `AtRest`: what is not live holds nothing.
* `Operations`, `Owned`: the socket's two operations and the slabs in use are exactly
  those of the records. `Pinned`: a pin is a caller's, on an offer that stands.
* `Places`: a caller that has committed finds its request committed, submitted or
  complete, and a receive then has the reply OK; one that still waits finds none of
  these. It is what excludes a second delivery after an expired lease.
* `Transmission`, `OnWire`: the entry of the IPv4 engine and the operation agree on
  the stage of a send, and the stage on whether its datagram is on the wire. Between
  the two ticks of a sweep they may disagree (`Unsettled`), so a sweep is proved as
  three steps.
* `Queue`, `Once`, `Arrived`: the queue is the newest arrivals, and every older
  datagram is with one call, in its buffer or returned.

A step either leaves its request pending (`Stays`) or ends it (`Ends`); `StaysKeeps`
and `EndsKeeps` show once that both preserve `UInv`, and the branches of
`net_udp_step` only show which of the two they are (`SendStep`, `RecvStep`,
`CommitReceives`, `CancelEnds`). `Slabbed` is what they share about the slab.

### Only model-checked

All liveness (`PathsEnd`, `CallReturns`, `AbandonedReclaimed`, `CallsEnd`,
`PollReturns`, `HangUpSeen`): fairness and ENABLED are out of the prover's reach.
Poll adds only liveness to
`Pipe`. `NeverRefused`, `NoFutureRecord` and `AtomicStore` of Jbd2 are about the
recursive analysis of the log, whose value for every log needs an induction over
data. The two violation runs are counterexamples and need no proof.

## 5. Not modelled, and the plan

The models assume that spinlocks exclude (`Tlb` models how they are taken) and
are not starved, that memory is sequentially consistent (the lock-free reads
modelled are acquire loads of release stores), and that the scheduler's wait and
wake are atomic per thread, as `sched_wait_until` makes them by checking the
predicate under the run queue's lock.

The repository is mostly drivers, file formats, third-party libraries (BearSSL,
Monocypher, a game and others under `user/`), tests and the sequential code of
user programs. The models cover the concurrent and crash-prone core, a few
thousand lines, and the mapped share of the whole is small for that reason.
Of that core, these are left, with what each would add:

1. The rest of `net/net_udp_owner.c`: TCP requests on the same records and slabs,
   accept with its staged file, and the close of a socket under a request.
2. What the threads of a process that share descriptors can still rely on: `Pipe`
   lets a close free the pipe under a blocked call and stops there.
3. Creation in `Sched`: spawn, thread creation, process groups, signals; and
   the atomic wait and wake of the other modules as a refinement of it.
4. TCP (`net/tcp_tcb.c`, `net/net_tcp.c`): a window of the state machine against a
   network that loses, repeats and reorders.
5. `Pty`, shared memory, and the resumable plans of the package engine.
6. Fault models: a warm reset that keeps the disk's cache (`fs/jbd2.c:226` reads
   the superblock back through it); an IPI that is not delivered
   (`arch/x86_64/smp.c:541` ignores the result of sending it).

Every invariant a passing run checks is proved except those of `Jbd2`, which rest on
the recursive analysis of the log.
