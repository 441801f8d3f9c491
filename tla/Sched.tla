----------------------------- MODULE Sched -----------------------------
(***************************************************************************)
(* The per-CPU scheduler (kernel/thread.c), the context switch             *)
(* (arch/x86_64/context.asm) and the life of address spaces (mm/vmm.c):    *)
(* run queues, work stealing, sleeping, exit, the hand-off a switch leaves *)
(* for sched_post_switch, reaping, and deferred destruction.               *)
(*                                                                         *)
(* A step is what one holder of a scheduler lock does, or one section with *)
(* interrupts off between two locks.                                       *)
(***************************************************************************)
EXTENDS Integers, Sequences, FiniteSets, SequencesExt

CONSTANTS Cpus,
          Threads,   \* threads other than the idle ones
          Idle,      \* CPU -> its idle thread
          Procs,     \* processes with an address space
          ProcOf,    \* thread -> its process, or None for a kernel thread
          Home,      \* thread -> the CPU whose queue it starts in
          Bsp, Main, \* the boot CPU and the boot thread, adopted as its first thread
          None

All == Threads \cup {Idle[c] : c \in Cpus}
Members(p) == {t \in Threads : ProcOf[t] = p}

ASSUME SchedAssumption ==
    /\ IsFiniteSet(Threads) /\ IsFiniteSet(Cpus)
    /\ \A c \in Cpus : Idle[c] \notin Threads /\ Idle[c] # None
    /\ \A c, d \in Cpus : Idle[c] = Idle[d] => c = d
    /\ Bsp \in Cpus /\ Main \in Threads /\ ProcOf[Main] = None
    /\ None \notin Cpus /\ None \notin Threads /\ None \notin Procs
    /\ ProcOf \in [Threads -> Procs \cup {None}] /\ Home \in [Threads -> Cpus]

VARIABLES cur,      \* per CPU: g_current_thread
          on,       \* per CPU: the thread whose kernel stack it executes on
          cr3,      \* per CPU: the process whose root is loaded; None: the kernel's
          phase,    \* per CPU: where it is between two threads
          prev,     \* per CPU: prev_cr3, prev_terminated, prev_cr3_changed, prev_context
          runq,     \* per CPU: run queue
          blocked,  \* per CPU: blocked_threads
          zombie,   \* per CPU: zombie_thread
          dead,     \* per CPU: dead_threads
          busy,     \* per thread: context_busy
          new,      \* threads that have not run yet: their frame has IF = 1
          got,      \* per thread: what the thread_yield it is inside has stolen
          reaped,   \* threads whose stack and control block are freed
          group,    \* per process: thread_count and ref_count
          space     \* per process: its vmm_space_t

cpu == <<cur, on, cr3, phase, prev>>
queues == <<runq, blocked, zombie, dead>>
vars == <<cpu, queues, busy, new, got, reaped, group, space>>

NoPrev == [root |-> None, term |-> FALSE, changed |-> FALSE, ctx |-> None]
RootOf(t) == IF t \in Threads THEN ProcOf[t] ELSE None

--------------------------------------------------------------------------
(* mm/vmm.c: the space's references. *)

\* vmm_space_enter, when the root changes; the caller ignores a refusal.
Entered(s, c, r) ==
    IF r \in {None, cr3[c]} THEN s
    ELSE IF s[r].state = "dead" THEN s
    ELSE [s EXCEPT ![r].cpus = @ \cup {c}]

\* Mutant: a thread that is only switched away from gives up its reference.
LeftAlways(s, c, h) ==
    IF h.root = None THEN s
    ELSE [s EXCEPT ![h.root].cpus = @ \ {c}, ![h.root].refs = IF @ > 0 THEN @ - 1 ELSE 0]

\* vmm_space_leave
Left(s, c, h) ==
    IF h.root = None THEN s
    ELSE IF s[h.root].state = "dead" THEN s
    ELSE [s EXCEPT ![h.root].cpus = IF h.changed THEN @ \ {c} ELSE @,
                   ![h.root].refs = IF h.term /\ @ > 0 THEN @ - 1 ELSE @]

Held(sp) == sp.cpus # {} \/ sp.refs # 0

\* vmm_destroy_pml4: torn down, or deferred while referenced.
Destroyed(sp) ==
    IF Held(sp) THEN [sp EXCEPT !.state = "dying", !.queued = TRUE]
    ELSE [sp EXCEPT !.state = "dead", !.queued = FALSE]

\* vmm_drain_deferred_destructions
Drained(s) == [p \in Procs |-> IF s[p].queued THEN Destroyed(s[p]) ELSE s[p]]

--------------------------------------------------------------------------
(* The switch, from its decision under the scheduler lock to the release   *)
(* of the outgoing context.                                                *)

\* cur, cr3 and the hand-off; why is "yield", "block" or "exit".
Switch(c, next, why) ==
    LET old == cur[c]
        changed == cr3[c] # RootOf(next)
        saves == why = "block" \/ (why = "yield" /\ old \in Threads)
    IN /\ cur' = [cur EXCEPT ![c] = next]
       /\ cr3' = [cr3 EXCEPT ![c] = RootOf(next)]
       /\ prev' = [prev EXCEPT ![c] = [root |-> RootOf(old), term |-> why = "exit",
                                       changed |-> changed,
                                       ctx |-> IF saves THEN old ELSE @.ctx]]
       /\ busy' = IF saves THEN [busy EXCEPT ![old] = TRUE] ELSE busy
       /\ phase' = [phase EXCEPT ![c] = "switch"]
       /\ UNCHANGED on

\* switch_context: a thread's first frame turns interrupts on at once.
SwitchContext(c) ==
    /\ phase[c] = "switch"
    /\ on' = [on EXCEPT ![c] = cur[c]]
    /\ phase' = [phase EXCEPT ![c] = IF cur[c] \in new THEN "first" ELSE "post"]
    /\ new' = new \ {cur[c]}
    /\ UNCHANGED <<cur, cr3, prev, queues, busy, got, reaped, group, space>>

\* sched_post_switch, first half: cli, the hand-off, vmm_space_leave.
PostLeave(c) ==
    /\ phase[c] \in {"first", "late", "post"}
    /\ space' = Left(space, c, prev[c])
    /\ prev' = [prev EXCEPT ![c] = [NoPrev EXCEPT !.ctx = prev[c].ctx]]
    /\ phase' = [phase EXCEPT ![c] = "release"]
    /\ UNCHANGED <<cur, on, cr3, queues, busy, new, got, reaped, group>>

\* Second half: the zombie to the dead list, the outgoing context released.
PostRelease(c) ==
    /\ phase[c] = "release"
    /\ dead' = [dead EXCEPT ![c] = @ \cup ({zombie[c]} \ {None})]
    /\ zombie' = [zombie EXCEPT ![c] = None]
    /\ busy' = [t \in Threads |-> busy[t] /\ t # prev[c].ctx]
    /\ prev' = [prev EXCEPT ![c] = NoPrev]
    /\ phase' = [phase EXCEPT ![c] = "run"]
    /\ UNCHANGED <<cur, on, cr3, runq, blocked, new, got, reaped, group, space>>

--------------------------------------------------------------------------
(* thread_yield, called by the thread or from its timer tick. *)

\* The first tick of a new thread that has not called sched_post_switch yet:
\* it has two; an idle thread is preempted at once.
FirstTick(c) ==
    /\ phase[c] = "first" /\ cur[c] \in Threads
    /\ phase' = [phase EXCEPT ![c] = "late"]
    /\ UNCHANGED <<cur, on, cr3, prev, queues, busy, new, got, reaped, group, space>>

CanYield(c) ==
    \/ phase[c] \in {"run", "late"}
    \/ phase[c] = "first" /\ cur[c] \notin Threads

\* old goes behind the queue it was taken from, unless it is an idle thread.
Requeued(q, old) == IF old \in Threads THEN Append(q, old) ELSE q

YieldLocal(c) ==
    /\ CanYield(c) /\ runq[c] # << >>
    /\ runq' = [runq EXCEPT ![c] = Requeued(Tail(@), cur[c])]
    /\ Switch(c, Head(runq[c]), "yield")
    /\ space' = Entered(space, c, RootOf(Head(runq[c])))
    /\ UNCHANGED <<blocked, zombie, dead, new, got, reaped, group>>

\* Mutant: any queued thread may be stolen.
StealAny(v) == {i \in DOMAIN runq[v] : TRUE}

\* The positions of the victim's queue a thief may take.
Stealable(v) == {i \in DOMAIN runq[v] : ~busy[runq[v][i]]}

\* sched_steal_work: the last candidate of the victim's queue; it is in no
\* queue until its thief has the scheduler lock again.
YieldSteal(c, v) ==
    /\ CanYield(c) /\ runq[c] = << >> /\ v # c /\ Stealable(v) # {}
    /\ LET i == CHOOSE i \in Stealable(v) : \A j \in Stealable(v) : j <= i
       IN /\ got' = [got EXCEPT ![cur[c]] = Append(@, runq[v][i])]
          /\ runq' = [runq EXCEPT ![v] = RemoveAt(@, i)]
    /\ UNCHANGED <<cpu, blocked, zombie, dead, busy, new, reaped, group, space>>

YieldStolen(c) ==
    /\ CanYield(c) /\ got[cur[c]] # << >>
    /\ LET next == Last(got[cur[c]])
       IN /\ got' = [got EXCEPT ![cur[c]] = Front(@)]
          /\ runq' = [runq EXCEPT ![c] = Requeued(@, cur[c])]
          /\ Switch(c, next, "yield")
          /\ space' = Entered(space, c, RootOf(next))
    /\ UNCHANGED <<blocked, zombie, dead, new, reaped, group>>

--------------------------------------------------------------------------
(* Sleeping, waking, exit. *)

\* The thread that takes over when one stops running.
NextOf(c) == IF runq[c] = << >> THEN Idle[c] ELSE Head(runq[c])

\* Mutant: the thread that takes over stays in the queue.
RestUnpopped(c) == runq[c]

Rest(c) == IF runq[c] = << >> THEN << >> ELSE Tail(runq[c])

Acts(c) == phase[c] = "run" /\ cur[c] \in Threads /\ got[cur[c]] = << >>

\* sched_wait_event with a false predicate; sched_stop_current.
Block(c) ==
    /\ Acts(c)
    /\ blocked' = [blocked EXCEPT ![c] = @ \cup {cur[c]}]
    /\ runq' = [runq EXCEPT ![c] = Rest(c)]
    /\ Switch(c, NextOf(c), "block")
    /\ space' = Entered(space, c, RootOf(NextOf(c)))
    /\ UNCHANGED <<zombie, dead, new, got, reaped, group>>

\* sched_wake_all and its like, on any CPU that runs: onto the queue of the
\* CPU the thread sleeps on.
Wake(c, t) ==
    /\ t \in blocked[c] /\ \E d \in Cpus : phase[d] \in {"run", "first", "late"}
    /\ blocked' = [blocked EXCEPT ![c] = @ \ {t}]
    /\ runq' = [runq EXCEPT ![c] = Append(@, t)]
    /\ UNCHANGED <<cpu, zombie, dead, busy, new, got, reaped, group, space>>

\* Mutant: the exiting thread is listed as dead before the switch away from it.
StashDead(c) == dead' = [dead EXCEPT ![c] = @ \cup {cur[c]}] /\ zombie' = zombie

\* The exiting thread waits for the switch away from it.
Stash(c) == zombie' = [zombie EXCEPT ![c] = cur[c]] /\ dead' = dead

\* thread_exit: the last thread of a group retires the space.
Exit(c) ==
    /\ Acts(c) /\ cur[c] # Main
    /\ LET p == ProcOf[cur[c]]
           last == p # None /\ group[p].threads = 1
           retired == IF last /\ space[p].state # "dead"
                      THEN [space EXCEPT ![p].state = "dying"] ELSE space
       IN /\ group' = IF p = None THEN group ELSE [group EXCEPT ![p].threads = @ - 1]
          /\ space' = Entered(retired, c, RootOf(NextOf(c)))
    /\ Stash(c)
    /\ runq' = [runq EXCEPT ![c] = Rest(c)]
    /\ Switch(c, NextOf(c), "exit")
    /\ UNCHANGED <<blocked, new, got, reaped>>

--------------------------------------------------------------------------
(* sched_reap_dead, by whoever runs. *)

\* One thread of a dead list: its stack, its reference on the group, with the
\* last reference the space; then the deferred spaces.
Reap(c, d, t) ==
    /\ CanYield(c) /\ t \in dead[d]
    /\ dead' = [dead EXCEPT ![d] = @ \ {t}]
    /\ reaped' = reaped \cup {t}
    /\ LET p == ProcOf[t]
       IN IF p = None THEN group' = group /\ space' = Drained(space)
          ELSE /\ group' = [group EXCEPT ![p].refs = @ - 1]
               /\ space' = Drained(IF group[p].refs = 1
                                   THEN [space EXCEPT ![p] = Destroyed(@)] ELSE space)
    /\ UNCHANGED <<cpu, runq, blocked, zombie, busy, new, got>>

--------------------------------------------------------------------------
Init ==
    /\ cur = [c \in Cpus |-> IF c = Bsp THEN Main ELSE Idle[c]]
    /\ on = cur
    /\ cr3 = [c \in Cpus |-> None]
    /\ phase = [c \in Cpus |-> "run"]
    /\ prev = [c \in Cpus |-> NoPrev]
    /\ runq = [c \in Cpus |-> SetToSeq({t \in Threads \ {Main} : Home[t] = c})]
    /\ blocked = [c \in Cpus |-> {}]
    /\ zombie = [c \in Cpus |-> None]
    /\ dead = [c \in Cpus |-> {}]
    /\ busy = [t \in Threads |-> FALSE]
    /\ new = (Threads \ {Main}) \cup {Idle[Bsp]}
    /\ got = [t \in All |-> << >>]
    /\ reaped = {}
    /\ group = [p \in Procs |-> [threads |-> Cardinality(Members(p)),
                                 refs |-> Cardinality(Members(p))]]
    /\ space = [p \in Procs |-> [state |-> "live", cpus |-> {},
                                 refs |-> Cardinality(Members(p)), queued |-> FALSE]]

Next == \E c \in Cpus :
    \/ SwitchContext(c) \/ PostLeave(c) \/ PostRelease(c) \/ FirstTick(c)
    \/ YieldLocal(c) \/ YieldStolen(c) \/ Block(c) \/ Exit(c)
    \/ \E v \in Cpus : YieldSteal(c, v)
    \/ \E t \in Threads : Wake(c, t)
    \/ \E d \in Cpus, t \in Threads : Reap(c, d, t)

Spec == Init /\ [][Next]_vars

--------------------------------------------------------------------------
(* No two CPUs execute on one kernel stack: a thread that another CPU      *)
(* steals, or that is woken while its old CPU still saves its context, is  *)
(* not resumed before the save is done (thread.c, sched_post_switch: "must *)
(* not be stolen until its saved RSP ... complete").                       *)
OneStack == \A c, d \in Cpus : c # d => on[c] # on[d]

(* The stack and control block a CPU executes on, or is switching to, are  *)
(* not freed: an exiting thread is reaped only after the switch away.      *)
StackKept == \A c \in Cpus : {on[c], cur[c]} \cap reaped = {}

(* The page tables of a process outlive every use: no CPU has a torn-down  *)
(* root loaded, and until a space is torn down its sched_refs covers every *)
(* thread that can still run in it, wherever the thread waits.             *)
Alive(t) == ~ \E c \in Cpus : t = zombie[c] \/ t \in dead[c] \cup reaped
SpaceKept ==
    \A p \in Procs :
        /\ Cardinality({t \in Members(p) : Alive(t)}) <= space[p].refs
        /\ space[p].state = "dead" =>
             /\ \A c \in Cpus : cr3[c] # p
             /\ \A t \in Members(p) : ~Alive(t)

(* Every thread is in one place: running, queued, asleep, stolen and not   *)
(* yet switched to, exiting, dead or reaped.  None is lost between two     *)
(* queues and none is queued twice.                                        *)
Spots == ({"running", "queued", "asleep", "exiting", "dead"} \X Cpus)
            \cup ({"stolen"} \X All) \cup {<<"reaped", None>>}
Here(p) ==
    CASE p[1] = "running" -> {cur[p[2]]}
      [] p[1] = "queued"  -> Range(runq[p[2]])
      [] p[1] = "asleep"  -> blocked[p[2]]
      [] p[1] = "exiting" -> {zombie[p[2]]}
      [] p[1] = "dead"    -> dead[p[2]]
      [] p[1] = "stolen"  -> Range(got[p[2]])
      [] OTHER            -> reaped
OnePlace ==
    /\ \A t \in Threads : \E p \in Spots : \A q \in Spots : t \in Here(q) <=> q = p
    /\ \A c \in Cpus : IsInjective(runq[c])
    /\ \A h \in All : IsInjective(got[h])

(* vmm.h calls active_cpus_mask the "Bitmask of CPUs currently using this  *)
(* CR3": a CPU in the mask has the root loaded, or is about to leave it.   *)
MaskCurrent ==
    \A p \in Procs : \A c \in space[p].cpus : cr3[c] = p \/ prev[c].root = p
=============================================================================
