----------------------------- MODULE Futex -----------------------------
(***************************************************************************)
(* SYS_FUTEX and SYS_THREAD_JOIN (kernel/thread.c): the static table of    *)
(* waiter slots, the sleep on a channel with a lock-free predicate, the    *)
(* two-step wake-up, signals and deadlines, and the join records.          *)
(*                                                                         *)
(* The module has the kernel's half; Pthread.tla is the caller.  A step is *)
(* one critical section of g_futex_lock, g_thread_join_lock or the         *)
(* scheduler lock.                                                         *)
(***************************************************************************)
EXTENDS Integers, Sequences, FiniteSets
LOCAL INSTANCE FiniteSetsExt

CONSTANTS Threads,
          Addrs,               \* futex words of the process
          MAX_FUTEX_WAITERS,
          MaxSignals,          \* bound: signals sent to the threads
          None

ASSUME FutexAssumption ==
    /\ MAX_FUTEX_WAITERS \in Nat \ {0} /\ MaxSignals \in Nat
    /\ Threads \cap Addrs = {} /\ None \notin Threads \cup Addrs

VARIABLES word,    \* the futex words
          slot,    \* g_futex_waiters
          at,      \* per thread: where it is, in the kernel or in the library
          fut,     \* per thread: the FUTEX_WAIT it is inside: address, value, slot, timeout
          chan,    \* per thread: the channel it sleeps on, or None
          sig,     \* threads with a pending signal
          signals, \* signals sent so far
          late,    \* threads whose deadline has passed
          join     \* per thread: its join record

kernel == <<slot, fut, chan, sig, signals, late, join>>

Slots == 1 .. MAX_FUTEX_WAITERS
NoWait == [uaddr |-> None, val |-> 0, slot |-> 0, timed |-> FALSE]
FreeSlot == [uaddr |-> None, woken |-> FALSE, active |-> FALSE]

KernelInit ==
    /\ slot = [i \in Slots |-> FreeSlot]
    /\ fut = [t \in Threads |-> NoWait]
    /\ chan = [t \in Threads |-> None]
    /\ sig = {} /\ signals = 0 /\ late = {}
    /\ join = [t \in Threads |-> "running"]

Goto(t, l) == at' = [at EXCEPT ![t] = l]

--------------------------------------------------------------------------
(* FUTEX_WAIT *)

\* The library calls FUTEX_WAIT.
Enter(t, ua, val, timed) ==
    /\ fut' = [fut EXCEPT ![t] = [uaddr |-> ua, val |-> val, slot |-> 0, timed |-> timed]]
    /\ Goto(t, "fwait")

\* Under the futex lock: EAGAIN, ENOMEM, or the first slot that is not active.
TakeSlot(t) ==
    /\ at[t] = "fwait"
    /\ LET free == {i \in Slots : ~slot[i].active}
           i == Min(free)
       IN IF word[fut[t].uaddr] = fut[t].val /\ free # {}
          THEN /\ slot' = [slot EXCEPT ![i] = [uaddr |-> fut[t].uaddr,
                                               woken |-> FALSE, active |-> TRUE]]
               /\ fut' = [fut EXCEPT ![t].slot = i]
               /\ Goto(t, "check")
          ELSE UNCHANGED <<slot, fut>> /\ Goto(t, "return")
    /\ UNCHANGED <<word, chan, sig, signals, late, join>>

\* futex_ready_predicate, on the slot the caller took.
Ready(t) == slot[fut[t].slot].woken \/ ~slot[fut[t].slot].active

\* The loop around sched_wait_until, and sched_wait_event's test before the
\* thread is published as blocked.
Check(t) ==
    /\ at[t] = "check"
    /\ IF Ready(t) \/ t \in late \cup sig
       THEN Goto(t, "clear") /\ chan' = chan
       ELSE Goto(t, "asleep") /\ chan' = [chan EXCEPT ![t] = fut[t].uaddr]
    /\ UNCHANGED <<word, slot, fut, sig, signals, late, join>>

\* sched_wait_event after a wake-up: it knows of no deadline.
Recheck(t) ==
    /\ at[t] = "awake"
    /\ IF Ready(t) \/ t \in sig
       THEN Goto(t, "check") /\ chan' = chan
       ELSE Goto(t, "asleep") /\ chan' = [chan EXCEPT ![t] = fut[t].uaddr]
    /\ UNCHANGED <<word, slot, fut, sig, signals, late, join>>

\* The end of every wait: the slot is given up, whoever has it now.
Clear(t) ==
    /\ at[t] = "clear"
    /\ slot' = [slot EXCEPT ![fut[t].slot].active = FALSE]
    /\ Goto(t, "return")
    /\ UNCHANGED <<word, fut, chan, sig, signals, late, join>>

--------------------------------------------------------------------------
(* FUTEX_WAKE and sched_wake_all *)

\* The slots a wake of at most n takes, lowest first.
Chosen(ua, n) ==
    LET match == {i \in Slots : slot[i].active /\ slot[i].uaddr = ua}
    IN {i \in match : Cardinality({j \in match : j < i}) < n}

\* FUTEX_WAKE under the futex lock.
Mark(ua, n) ==
    slot' = [i \in Slots |-> IF i \in Chosen(ua, n)
                             THEN [slot[i] EXCEPT !.woken = TRUE, !.active = FALSE]
                             ELSE slot[i]]

\* sched_wake_all
Roused(c) == {u \in Threads : chan[u] = c}
Rouse(t, c, l) ==
    /\ chan' = [u \in Threads |-> IF u \in Roused(c) THEN None ELSE chan[u]]
    /\ at' = [u \in Threads |-> IF u = t THEN l
                                ELSE IF u \notin Roused(c) THEN at[u]
                                ELSE IF at[u] = "asleep" THEN "awake" ELSE "jcheck"]

--------------------------------------------------------------------------
(* Signals, deadlines *)

\* A signal wakes its thread whatever it sleeps on.
Signal(t) ==
    /\ signals < MaxSignals /\ t \notin sig
    /\ sig' = sig \cup {t}
    /\ signals' = signals + 1
    /\ IF chan[t] = None THEN UNCHANGED <<at, chan>>
       ELSE chan' = [chan EXCEPT ![t] = None]
            /\ Goto(t, IF at[t] = "asleep" THEN "awake" ELSE "jcheck")
    /\ UNCHANGED <<word, slot, fut, late, join>>

\* The deadline passes; nobody is told.
Deadline(t) ==
    /\ fut[t].timed /\ t \notin late
    /\ late' = late \cup {t}
    /\ UNCHANGED <<word, slot, at, fut, chan, sig, signals, join>>

--------------------------------------------------------------------------
(* SYS_THREAD_EXIT and SYS_THREAD_JOIN *)

Publish(t) ==
    /\ join' = [join EXCEPT ![t] = "exited"]
    /\ Goto(t, "tell")
    /\ UNCHANGED <<word, slot, fut, chan, sig, signals, late>>

\* The record of a joinable thread, before the first sleep: ESRCH without one.
JoinFind(t, u) ==
    /\ Goto(t, IF join[u] = "collected" THEN "jreturn" ELSE "jcheck")
    /\ UNCHANGED <<word, kernel>>

\* thread_join_predicate and the sleep; EINTR.
JoinCheck(t, u) ==
    /\ at[t] = "jcheck"
    /\ IF join[u] # "running" THEN Goto(t, "jtake") /\ chan' = chan
       ELSE IF t \in sig THEN Goto(t, "jreturn") /\ chan' = chan
       ELSE Goto(t, "jasleep") /\ chan' = [chan EXCEPT ![t] = u]
    /\ UNCHANGED <<word, slot, fut, sig, signals, late, join>>

\* Mutant: the second of two joiners takes the value too.
TakenTwice(u) == join[u] # "running"

Takes(u) == join[u] = "exited"

JoinTake(t, u) ==
    /\ at[t] = "jtake"
    /\ join' = IF Takes(u) THEN [join EXCEPT ![u] = "collected"] ELSE join
    /\ Goto(t, "jreturn")
    /\ UNCHANGED <<word, slot, fut, chan, sig, signals, late>>
=============================================================================
