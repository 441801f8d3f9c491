----------------------------- MODULE Tlb -----------------------------
(***************************************************************************)
(* Ranked spinlocks (include/spinlock.h, kernel/spinlock.c) and TLB        *)
(* shootdown (arch/x86_64/smp.c), composed with the kernel paths that use  *)
(* both: heap growth, kernel-stack release, user unmapping, the address-   *)
(* space switch and the scheduler's pair of locks.                         *)
(*                                                                         *)
(* A CPU runs one path at a time, a sequence of instructions; every one    *)
(* is one atomic access of the code.  A CPU has interrupts on iff it holds *)
(* no lock and sends no shootdown: irqsave and irqrestore nest.            *)
(***************************************************************************)
EXTENDS Integers, Sequences, FiniteSets, FiniteSetsExt

CONSTANTS Cpus,      \* ids of the online CPUs
          UserRoots, \* page-table roots of processes
          Pages,     \* virtual pages
          RootOf,    \* page -> its root; Kernel for the shared upper half
          Frames,
          Kernel,    \* the kernel root; as a shootdown argument, "every root"
          None,
          MAX_HELD_LOCKS,
          OtherAddrs, \* bound: the locks the rest of the kernel nests, by address
          MaxPaths   \* bound: kernel paths started

ASSUME TlbAssumption ==
    /\ Cpus \subseteq Nat /\ IsFiniteSet(Cpus)
    /\ Kernel \notin UserRoots /\ Frames # {} /\ None \notin Frames /\ None \notin Cpus
    /\ RootOf \in [Pages -> UserRoots \cup {Kernel}]
    /\ MAX_HELD_LOCKS \in Nat /\ MAX_HELD_LOCKS >= 2 /\ MaxPaths \in Nat

VARIABLES code,    \* per CPU: what is left of its kernel path
          held,    \* per CPU: held_locks, the one spun for included
          owner,   \* per lock: None, or the CPU whose test_and_set won
          pte,     \* per page: the frame mapped, or None
          pool,    \* frames handed back to the physical allocator
          taken,   \* per CPU: the frame its path unmapped and still keeps
          inval,   \* per CPU: needs_invalidation of its last change
          ever,    \* per user root: ever_active
          cr3,     \* per CPU: the root loaded
          tlb,     \* per CPU: cached translations <<page, frame>>
          slot,    \* per CPU: its mailbox
          active,  \* g_smp_tlb_active_initiators
          phase,   \* per CPU: how far its shootdown is
          svc,     \* per CPU: smp_tlb_service_local in progress
          ipi,     \* per CPU: the TLB vector is pending
          panic,   \* None, or the CPU that halted the system
          paths,
          other    \* CPUs whose path is one of the rest of the kernel

vmem == <<pte, pool, taken, inval, ever>>
mail == <<slot, active, phase>>
vars == <<code, held, owner, vmem, cr3, tlb, mail, svc, ipi, panic, paths, other>>

--------------------------------------------------------------------------
(* The locks, and the paths that take them. *)

Sched(c) == [rank |-> 1, kind |-> "sched", addr |-> c]
Plain == [rank |-> 1, kind |-> "ordinary", addr |-> 90]   \* any other rank-1 lock
Heap == [rank |-> 2, kind |-> "ordinary", addr |-> 91]
Vmm == [rank |-> 3, kind |-> "ordinary", addr |-> 92]
Locks == {Sched(c) : c \in Cpus} \cup {Plain, Heap, Vmm}

Lock(l) == [op |-> "lock", arg |-> l]
Unlock(l) == [op |-> "unlock", arg |-> l]
Do(op, x) == [op |-> op, arg |-> x]

vmm_space_put_op == <<Lock(Vmm), Unlock(Vmm)>>

vmm_map_page(p) ==
    <<Lock(Vmm), Do("map", p), Unlock(Vmm), Do("shoot", p)>> \o vmm_space_put_op

vmm_unmap_page(p) ==
    <<Lock(Vmm), Do("unmap", p), Unlock(Vmm), Do("shoot", p)>> \o vmm_space_put_op

\* heap_expand under kmalloc's lock; a later page that fails rolls this one back.
HeapGrow(p) == <<Lock(Heap)>> \o vmm_map_page(p) \o <<Unlock(Heap)>>
HeapRollback(p) ==
    <<Lock(Heap)>> \o vmm_unmap_page(p) \o <<Do("free", p), Unlock(Heap)>>

\* kmalloc and kfree that need no growth.
HeapUse == <<Lock(Heap), Unlock(Heap)>>

\* kstack_free, and the release of a user page.
Release(p) == vmm_unmap_page(p) \o <<Do("free", p)>>

\* thread_yield and its like: vmm_space_enter, then CR3, under the CPU's own lock.
SwitchTo(c, r) ==
    <<Lock(Sched(c))>>
    \o (IF r = Kernel THEN << >> ELSE <<Lock(Vmm), Do("enter", r), Unlock(Vmm)>>)
    \o <<Do("cr3", r), Unlock(Sched(c))>>

Nested(a, b) == <<Lock(a), Lock(b), Unlock(b), Unlock(a)>>

\* Mutant: the two locks are taken in the caller's order.
LockPairAsGiven(a, b) == Nested(Sched(a), Sched(b))

\* sched_lock_pair and sched_unlock_pair, as sched_steal_work calls them.
LockPair(a, b) == IF a < b THEN Nested(Sched(a), Sched(b)) ELSE Nested(Sched(b), Sched(a))

--------------------------------------------------------------------------
(* kernel/spinlock.c and the loops of spinlock.h. *)

\* Mutant: two locks of one rank are let through in either order.
CanAcquireEqual(c, l) ==
    /\ Len(held[c]) < MAX_HELD_LOCKS
    /\ \A i \in DOMAIN held[c] : held[c][i] # l /\ held[c][i].rank <= l.rank

\* can_acquire
CanAcquire(c, l) ==
    /\ Len(held[c]) < MAX_HELD_LOCKS
    /\ \A i \in DOMAIN held[c] :
         LET h == held[c][i]
         IN \/ h.rank < l.rank
            \/ /\ h.rank = l.rank
               /\ h.kind = l.kind /\ l.kind \in {"sched", "process"}
               /\ h.addr < l.addr

Idle(c) == svc[c].todo = {}                  \* not inside smp_tlb_service_local
Running(c) == panic = None /\ Idle(c)
At(c, op) == code[c] # << >> /\ Head(code[c]).op = op
Arg(c) == Head(code[c]).arg
Step(c) == code' = [code EXCEPT ![c] = Tail(@)]

Spinning(c) ==
    At(c, "lock") /\ held[c] # << >> /\ held[c][Len(held[c])] = Arg(c)

\* spin_debug_acquire: a refused lock halts every CPU.
Acquire(c) ==
    /\ Running(c) /\ At(c, "lock") /\ ~Spinning(c)
    /\ IF CanAcquire(c, Arg(c))
       THEN held' = [held EXCEPT ![c] = Append(@, Arg(c))] /\ UNCHANGED panic
       ELSE panic' = c /\ UNCHANGED held
    /\ UNCHANGED <<code, owner, vmem, cr3, tlb, mail, svc, ipi, paths, other>>

\* The test_and_set that wins.
Take(c) ==
    /\ Running(c) /\ Spinning(c) /\ owner[Arg(c)] = None
    /\ owner' = [owner EXCEPT ![Arg(c)] = c]
    /\ Step(c)
    /\ UNCHANGED <<held, vmem, cr3, tlb, mail, svc, ipi, panic, paths, other>>

\* spin_debug_release; the paths release in LIFO order.
Drop(c) ==
    /\ Running(c) /\ At(c, "unlock")
    /\ held' = [held EXCEPT ![c] = SubSeq(@, 1, Len(@) - 1)]
    /\ owner' = [owner EXCEPT ![Arg(c)] = None]
    /\ Step(c)
    /\ UNCHANGED <<vmem, cr3, tlb, mail, svc, ipi, panic, paths, other>>

--------------------------------------------------------------------------
(* Page tables, under g_vmm_lock, and the frames behind them. *)

\* needs_invalidation
NeedsInvalidation(p) == RootOf[p] = Kernel \/ ever[RootOf[p]]

\* vmm_map_page under the lock: the page is not mapped yet and a frame is free.
Map(c) ==
    /\ Running(c) /\ At(c, "map")
    /\ \E f \in pool :
         /\ pte' = [pte EXCEPT ![Arg(c)] = f]
         /\ pool' = pool \ {f}
    /\ inval' = [inval EXCEPT ![c] = NeedsInvalidation(Arg(c))]
    /\ Step(c)
    /\ UNCHANGED <<taken, ever, held, owner, cr3, tlb, mail, svc, ipi, panic, paths, other>>

\* vmm_unmap_page_unlocked: clears the entry, does not free the frame.
Unmap(c) ==
    /\ Running(c) /\ At(c, "unmap")
    /\ taken' = [taken EXCEPT ![c] = pte[Arg(c)]]
    /\ pte' = [pte EXCEPT ![Arg(c)] = None]
    /\ inval' = [inval EXCEPT ![c] = NeedsInvalidation(Arg(c))]
    /\ Step(c)
    /\ UNCHANGED <<pool, ever, held, owner, cr3, tlb, mail, svc, ipi, panic, paths, other>>

\* pmm_free_page of what the unmapping returned.
Free(c) ==
    /\ Running(c) /\ At(c, "free")
    /\ pool' = pool \cup {taken[c]}
    /\ taken' = [taken EXCEPT ![c] = None]
    /\ Step(c)
    /\ UNCHANGED <<pte, inval, ever, held, owner, cr3, tlb, mail, svc, ipi, panic, paths, other>>

\* vmm_space_enter
Enter(c) ==
    /\ Running(c) /\ At(c, "enter")
    /\ ever' = [ever EXCEPT ![Arg(c)] = TRUE]
    /\ Step(c)
    /\ UNCHANGED <<pte, pool, taken, inval, held, owner, cr3, tlb, mail, svc, ipi, panic, paths, other>>

\* vmm_switch_pml4: there are no global pages, so loading CR3 drops everything.
LoadCr3(c) ==
    /\ Running(c) /\ At(c, "cr3")
    /\ cr3' = [cr3 EXCEPT ![c] = Arg(c)]
    /\ tlb' = [tlb EXCEPT ![c] = {}]
    /\ Step(c)
    /\ UNCHANGED <<vmem, held, owner, mail, svc, ipi, panic, paths, other>>

\* The processor caches a translation it can walk to, at any time.
Cache(c, p) ==
    /\ panic = None
    /\ pte[p] # None /\ RootOf[p] \in {Kernel, cr3[c]}
    /\ <<p, pte[p]>> \notin tlb[c]
    /\ tlb' = [tlb EXCEPT ![c] = @ \cup {<<p, pte[p]>>}]
    /\ UNCHANGED <<code, held, owner, vmem, cr3, mail, svc, ipi, panic, paths, other>>

--------------------------------------------------------------------------
(* smp_tlb_shootdown_impl *)

\* tlb_invalidate_local of one page.
Without(c, p) == {e \in tlb[c] : e[1] # p}

\* The caller skips the shootdown of a root no CPU ever loaded.
ShootSkip(c) ==
    /\ Running(c) /\ At(c, "shoot") /\ phase[c] = "none" /\ ~inval[c]
    /\ Step(c)
    /\ UNCHANGED <<held, owner, vmem, cr3, tlb, mail, svc, ipi, panic, paths, other>>

\* cli; the generation and the parameters.
ShootBegin(c) ==
    /\ Running(c) /\ At(c, "shoot") /\ phase[c] = "none" /\ inval[c]
    /\ slot' = [slot EXCEPT ![c] = [gen |-> slot[c].gen + 1, page |-> Arg(c),
                                    root |-> RootOf[Arg(c)], ack |-> slot[c].ack]]
    /\ phase' = [phase EXCEPT ![c] = "params"]
    /\ UNCHANGED <<code, held, owner, vmem, cr3, tlb, active, svc, ipi, panic, paths, other>>

ShootActive(c) ==
    /\ Running(c) /\ phase[c] = "params"
    /\ active' = active \cup {c}
    /\ phase' = [phase EXCEPT ![c] = "active"]
    /\ UNCHANGED <<code, held, owner, vmem, cr3, tlb, slot, svc, ipi, panic, paths, other>>

\* ack_mask, the IPI to all others, the initiator's own invalidation.
ShootSend(c) ==
    /\ Running(c) /\ phase[c] = "active"
    /\ slot' = [slot EXCEPT ![c].ack = Cpus \ {c}]
    /\ ipi' = [d \in Cpus |-> ipi[d] \/ d # c]
    /\ tlb' = [tlb EXCEPT ![c] = Without(c, slot[c].page)]
    /\ phase' = [phase EXCEPT ![c] = "wait"]
    /\ UNCHANGED <<code, held, owner, vmem, cr3, active, svc, panic, paths, other>>

\* The wait loop ends; interrupts as before.
ShootEnd(c) ==
    /\ Running(c) /\ phase[c] = "wait" /\ slot[c].ack = {}
    /\ active' = active \ {c}
    /\ phase' = [phase EXCEPT ![c] = "none"]
    /\ Step(c)
    /\ UNCHANGED <<held, owner, vmem, cr3, tlb, slot, svc, ipi, panic, paths, other>>

--------------------------------------------------------------------------
(* smp_tlb_service_local, from the IPI, a spin loop and the wait loop. *)

IrqOn(c) == held[c] = << >> /\ phase[c] = "none"

\* Mutant: only the initiators' wait loop polls.
PollsWaiting(c) == phase[c] = "wait" /\ slot[c].ack # {}

\* The places with interrupts off that poll.
Polls(c) ==
    \/ Spinning(c) /\ owner[Arg(c)] # None
    \/ phase[c] = "wait" /\ slot[c].ack # {}

\* The snapshot of the active initiators.  A poll of a loop that finds no bit
\* of its own changes nothing: it is a stuttering step.
ServicePoll(c) ==
    /\ Running(c) /\ Polls(c) /\ \E i \in active \ {c} : c \in slot[i].ack
    /\ svc' = [svc EXCEPT ![c].todo = active \ {c}]
    /\ UNCHANGED <<code, held, owner, vmem, cr3, tlb, mail, ipi, panic, paths, other>>

ServiceIpi(c) ==
    /\ Running(c) /\ IrqOn(c) /\ ipi[c]
    /\ ipi' = [ipi EXCEPT ![c] = FALSE]
    /\ svc' = [svc EXCEPT ![c].todo = active \ {c}]
    /\ UNCHANGED <<code, held, owner, vmem, cr3, tlb, mail, panic, paths, other>>

From(c) == Min(svc[c].todo)
Skip(c) == svc' = [svc EXCEPT ![c] = [todo |-> @.todo \ {From(c)}, req |-> None]]

\* The next mailbox does not ask for this CPU.
ServiceNone(c) ==
    /\ panic = None /\ ~Idle(c) /\ svc[c].req = None
    /\ c \notin slot[From(c)].ack
    /\ Skip(c)
    /\ UNCHANGED <<code, held, owner, vmem, cr3, tlb, mail, ipi, panic, paths, other>>

\* The generation, then the parameters.
ServiceRead(c) ==
    /\ panic = None /\ ~Idle(c) /\ svc[c].req = None
    /\ c \in slot[From(c)].ack
    /\ LET s == slot[From(c)]
       IN svc' = [svc EXCEPT ![c].req = [gen |-> s.gen, page |-> s.page, root |-> s.root]]
    /\ UNCHANGED <<code, held, owner, vmem, cr3, tlb, mail, ipi, panic, paths, other>>

\* Mutant: a kernel page is taken for one of another address space.
OnlyOwnRoot(c, req) == req.root = cr3[c]

Applies(c, req) == req.root = Kernel \/ req.root = cr3[c]

\* The invalidation, the generation again, the acknowledgement.
ServiceAck(c) ==
    /\ panic = None /\ ~Idle(c) /\ svc[c].req # None
    /\ LET req == svc[c].req
           i == From(c)
       IN /\ tlb' = IF Applies(c, req) THEN [tlb EXCEPT ![c] = Without(c, req.page)] ELSE tlb
          /\ slot' = IF req.gen = slot[i].gen THEN [slot EXCEPT ![i].ack = @ \ {c}] ELSE slot
    /\ Skip(c)
    /\ UNCHANGED <<code, held, owner, vmem, cr3, active, phase, ipi, panic, paths, other>>

--------------------------------------------------------------------------
(* A page is the business of one path at a time: a heap page of the heap   *)
(* lock's holder, a stack of its reaper, a user page of its process.       *)

Busy(p) == \E c \in Cpus : \E i \in DOMAIN code[c] :
             code[c][i].op \in {"map", "unmap", "shoot", "free"} /\ code[c][i].arg = p

Started(c, path, isOther) ==
    /\ panic = None /\ Idle(c) /\ code[c] = << >> /\ paths < MaxPaths
    /\ code' = [code EXCEPT ![c] = path]
    /\ paths' = paths + 1
    /\ other' = IF isOther THEN other \cup {c} ELSE other \ {c}
    /\ UNCHANGED <<held, owner, vmem, cr3, tlb, mail, svc, ipi, panic>>

Grow(c) == \E p \in Pages : /\ RootOf[p] = Kernel /\ pte[p] = None /\ ~Busy(p) /\ pool # {}
                            /\ Started(c, HeapGrow(p), FALSE)
Kmalloc(c) == Started(c, HeapUse, FALSE)
Rollback(c) == \E p \in Pages : /\ RootOf[p] = Kernel /\ pte[p] # None /\ ~Busy(p)
                                /\ Started(c, HeapRollback(p), FALSE)
Reap(c) == \E p \in Pages : pte[p] # None /\ ~Busy(p) /\ Started(c, Release(p), FALSE)
Yield(c) == \E r \in UserRoots \cup {Kernel} : r # cr3[c] /\ Started(c, SwitchTo(c, r), FALSE)
Steal(c) == \E v \in Cpus \ {c} : Started(c, LockPair(c, v), FALSE)

\* A path of the rest of the kernel that nests two locks in an order of its own.
Other(c) ==
    \E a, b \in Locks : a # b /\ {a.addr, b.addr} \subseteq OtherAddrs /\ Started(c, Nested(a, b), TRUE)

--------------------------------------------------------------------------
Init ==
    /\ code = [c \in Cpus |-> << >>]
    /\ held = [c \in Cpus |-> << >>]
    /\ owner = [l \in Locks |-> None]
    /\ LET f == CHOOSE f \in Frames : TRUE
       IN \E p \in Pages :                   \* one page in use, the rest unmapped
            /\ pool = Frames \ {f}
            /\ pte = [q \in Pages |-> IF q = p THEN f ELSE None]
            /\ \E r \in {Kernel, RootOf[p]} : \* a CPU may already run on its root
                 /\ cr3 = [c \in Cpus |-> IF c = Min(Cpus) THEN r ELSE Kernel]
                 /\ ever = [q \in UserRoots |-> q = r]
    /\ taken = [c \in Cpus |-> None]
    /\ inval = [c \in Cpus |-> FALSE]
    /\ tlb = [c \in Cpus |-> {}]
    /\ slot = [c \in Cpus |-> [gen |-> 0, page |-> None, root |-> Kernel, ack |-> {}]]
    /\ active = {}
    /\ phase = [c \in Cpus |-> "none"]
    /\ svc = [c \in Cpus |-> [todo |-> {}, req |-> None]]
    /\ ipi = [c \in Cpus |-> FALSE]
    /\ panic = None
    /\ paths = 0
    /\ other = {}

Service(c) == ServicePoll(c) \/ ServiceIpi(c) \/ ServiceNone(c) \/ ServiceRead(c) \/ ServiceAck(c)

Path(c) ==
    \/ Acquire(c) \/ Take(c) \/ Drop(c)
    \/ Map(c) \/ Unmap(c) \/ Free(c) \/ Enter(c) \/ LoadCr3(c)
    \/ ShootSkip(c) \/ ShootBegin(c) \/ ShootActive(c) \/ ShootSend(c) \/ ShootEnd(c)

Begin(c) == Grow(c) \/ Kmalloc(c) \/ Rollback(c) \/ Reap(c) \/ Yield(c) \/ Steal(c) \/ Other(c)

Next == \E c \in Cpus :
    Path(c) \/ Service(c) \/ Begin(c) \/ \E p \in Pages : Cache(c, p)

Spec == Init /\ [][Next]_vars

\* Some processor executes its path or its service routine.  Nothing obliges
\* a path to start or a translation to be cached.
FairSpec == Spec /\ WF_vars(\E c \in Cpus : Path(c) \/ Service(c))

--------------------------------------------------------------------------
(* A translation some CPU still caches is the current one, or the frame    *)
(* behind it is still kept by the path that unmaps it: no frame is handed  *)
(* back, to be given to someone else, while a CPU can write to it through  *)
(* a stale entry (smp.c, "we must NEVER return or allow the caller to      *)
(* free/reuse the physical frame").                                        *)
NoStaleUse ==
    \A c \in Cpus : \A e \in tlb[c] :
        pte[e[1]] = e[2] \/ \E d \in Cpus : taken[d] = e[2]

(* No circle of CPUs each spinning for a lock the next one holds, whatever *)
(* order the kernel's paths nest their locks in: can_acquire halts the     *)
(* system before the circle closes.                                        *)
NoLockCycle ==
    \A S \in (SUBSET Cpus) \ {{}} :
        ~ \A c \in S : Spinning(c) /\ owner[Arg(c)] \in S

(* The modelled paths keep the order by themselves: only a path of the     *)
(* rest of the kernel is ever refused a lock.                              *)
PathsOrdered == panic # None => panic \in other

(* Every path that starts comes to its end (or the system is halted): no   *)
(* CPU waits for an acknowledgement of one that spins for a lock with      *)
(* interrupts off, or that itself waits for an acknowledgement.            *)
PathsEnd == []<>(panic # None \/ \A c \in Cpus : code[c] = << >>)
==========================================================================
