----------------------------- MODULE Pthread -----------------------------
(***************************************************************************)
(* The user library (user/pthread.h) over the kernel's futexes: mutex,     *)
(* condition variable, barrier, once, join.  Every thread runs a list of   *)
(* library operations; a step is one atomic access to a shared word, or    *)
(* one step of the kernel (Futex.tla).                                     *)
(***************************************************************************)
EXTENDS Futex

CONSTANTS Programs,  \* what the threads may run: thread -> the operations it calls
          JoinOf     \* thread -> the thread its "join" names

VARIABLES todo,      \* per thread: operations left, the first one in progress
          reg,       \* per thread: the value an operation has read
          in_count,  \* the barrier's
          ran,       \* how often init_routine has been called
          value      \* per thread: its join returned the exit value

vars == <<word, kernel, at, todo, reg, in_count, ran, value>>

Ops == {"lock", "trylock", "unlock", "seq", "wait", "timedwait", "signal", "broadcast",
        "barrier", "once", "join", "exit"}

\* A thread reads the condition and unlocks only what it has locked, a failed
\* trylock skips the unlock, and pthread_exit does not return.
WellFormed(s) ==
    \A i \in DOMAIN s :
        /\ s[i] \in {"seq", "unlock"} => i > 1 /\ s[i - 1] \in {"lock", "trylock", "seq"}
        /\ s[i] = "trylock" => i < Len(s) /\ s[i + 1] = "unlock"
        /\ s[i] = "exit" => i = Len(s)

ASSUME PthreadAssumption ==
    /\ Addrs = {"lock", "seq", "cycle", "once"}
    /\ IsFiniteSet(Threads)
    /\ JoinOf \in [Threads -> Threads]
    /\ \A p \in Programs :
        /\ p \in [Threads -> Seq(Ops)]
        /\ \A t \in Threads : WellFormed(p[t])
        /\ \A t, u \in Threads, op \in {"barrier", "once"} :   \* for all threads or for none
            Cardinality({i \in DOMAIN p[t] : p[t][i] = op})
              = Cardinality({i \in DOMAIN p[u] : p[u][i] = op})

Op(t) == IF todo[t] = << >> THEN "none" ELSE Head(todo[t])
Calls(t, op) == Op(t) = op /\ at[t] = "start"
threshold == Cardinality(Threads)
AllWaiters == Cardinality(Threads) + 1   \* 0x7FFFFFFF: more than there are

\* The operation is over.
Done(t) ==
    /\ todo' = [todo EXCEPT ![t] = Tail(@)]
    /\ Goto(t, "start")

Put(a, v) == word' = [word EXCEPT ![a] = v]
LibraryOnly == UNCHANGED <<kernel, value>>

--------------------------------------------------------------------------
(* pthread_mutex_t *)

\* The fast path; 1 -> the exchange, 2 -> the futex.
Lock(t) ==
    /\ Calls(t, "lock")
    /\ \/ word["lock"] = 0 /\ Put("lock", 1) /\ Done(t) /\ fut' = fut
       \/ word["lock"] = 1 /\ Goto(t, "xchg") /\ UNCHANGED <<word, todo, fut>>
       \/ word["lock"] = 2 /\ Enter(t, "lock", 2, FALSE) /\ UNCHANGED <<word, todo>>
    /\ UNCHANGED <<slot, chan, sig, signals, late, join, reg, in_count, ran, value>>

\* Mutant: a lock nobody waits for is taken as free.
FreeUncontended == word["lock"] # 2

Free == word["lock"] = 0

LockExchange(t) ==
    /\ Op(t) = "lock" /\ at[t] = "xchg"
    /\ Put("lock", 2)
    /\ IF Free THEN Done(t) /\ fut' = fut
       ELSE Enter(t, "lock", 2, FALSE) /\ todo' = todo
    /\ UNCHANGED <<slot, chan, sig, signals, late, join, reg, in_count, ran, value>>

\* EBUSY: the caller skips the unlock that follows.
TryLock(t) ==
    /\ Calls(t, "trylock")
    /\ IF word["lock"] = 0 THEN Put("lock", 1) /\ Done(t)
       ELSE /\ todo' = [todo EXCEPT ![t] = Tail(Tail(@))]
            /\ UNCHANGED <<word, at>>
    /\ UNCHANGED <<reg, in_count, ran>> /\ LibraryOnly

Unlock(t) ==
    /\ Calls(t, "unlock")
    /\ Put("lock", 0)
    /\ IF word["lock"] = 2 THEN Goto(t, "wake") /\ todo' = todo ELSE Done(t)
    /\ UNCHANGED <<reg, in_count, ran>> /\ LibraryOnly

--------------------------------------------------------------------------
(* pthread_cond_t: "seq", "unlock", "wait" and "lock" are pthread_cond_wait. *)

ReadSeq(t) ==
    /\ Calls(t, "seq")
    /\ reg' = [reg EXCEPT ![t] = word["seq"]]
    /\ Done(t)
    /\ UNCHANGED <<word, in_count, ran>> /\ LibraryOnly

CondWait(t) ==
    /\ at[t] = "start" /\ Op(t) \in {"wait", "timedwait"}
    /\ Enter(t, "seq", reg[t], Op(t) = "timedwait")
    /\ UNCHANGED <<word, slot, chan, sig, signals, late, join, todo, reg, in_count, ran, value>>

CondSignal(t) ==
    /\ at[t] = "start" /\ Op(t) \in {"signal", "broadcast"}
    /\ Put("seq", word["seq"] + 1)
    /\ Goto(t, "wake")
    /\ UNCHANGED <<todo, reg, in_count, ran>> /\ LibraryOnly

--------------------------------------------------------------------------
(* pthread_barrier_t *)

BarrierRead(t) ==
    /\ Calls(t, "barrier")
    /\ reg' = [reg EXCEPT ![t] = word["cycle"]]
    /\ Goto(t, "arrive")
    /\ UNCHANGED <<word, todo, in_count, ran>> /\ LibraryOnly

\* Mutant: the last thread does not wait for itself.
LastOffByOne == in_count + 2 = threshold

IsLast == in_count + 1 = threshold

BarrierArrive(t) ==
    /\ Op(t) = "barrier" /\ at[t] = "arrive"
    /\ in_count' = in_count + 1
    /\ Goto(t, IF IsLast THEN "reset" ELSE "loop")
    /\ UNCHANGED <<word, todo, reg, ran>> /\ LibraryOnly

\* The last thread: in_count, then cycle, then the wake-up.
BarrierReset(t) ==
    /\ Op(t) = "barrier" /\ at[t] = "reset"
    /\ in_count' = 0
    /\ Goto(t, "bump")
    /\ UNCHANGED <<word, todo, reg, ran>> /\ LibraryOnly

BarrierBump(t) ==
    /\ Op(t) = "barrier" /\ at[t] = "bump"
    /\ Put("cycle", word["cycle"] + 1)
    /\ Goto(t, "wake")
    /\ UNCHANGED <<todo, reg, in_count, ran>> /\ LibraryOnly

BarrierLoop(t) ==
    /\ Op(t) = "barrier" /\ at[t] = "loop"
    /\ IF word["cycle"] = reg[t] THEN Enter(t, "cycle", reg[t], FALSE) /\ todo' = todo
       ELSE Done(t) /\ fut' = fut
    /\ UNCHANGED <<word, slot, chan, sig, signals, late, join, reg, in_count, ran, value>>

--------------------------------------------------------------------------
(* pthread_once: 0, 1 while init_routine runs, 2 *)

\* Mutant: a thread that finds the routine running does not wait for it.
OnceFirst(t) ==
    /\ Calls(t, "once")
    /\ IF word["once"] = 0 THEN Put("once", 1) /\ Goto(t, "init") /\ todo' = todo
       ELSE word' = word /\ Done(t)
    /\ UNCHANGED <<reg, in_count, ran>> /\ LibraryOnly

Once(t) ==
    /\ Calls(t, "once")
    /\ \/ word["once"] = 2 /\ Done(t) /\ word' = word
       \/ word["once"] = 0 /\ Put("once", 1) /\ Goto(t, "init") /\ todo' = todo
       \/ word["once"] = 1 /\ Goto(t, "loop") /\ UNCHANGED <<word, todo>>
    /\ UNCHANGED <<reg, in_count, ran>> /\ LibraryOnly

OnceInit(t) ==
    /\ Op(t) = "once" /\ at[t] = "init"
    /\ ran' = ran + 1
    /\ Goto(t, "publish")
    /\ UNCHANGED <<word, todo, reg, in_count>> /\ LibraryOnly

OncePublish(t) ==
    /\ Op(t) = "once" /\ at[t] = "publish"
    /\ Put("once", 2)
    /\ Goto(t, "wake")
    /\ UNCHANGED <<todo, reg, in_count, ran>> /\ LibraryOnly

OnceLoop(t) ==
    /\ Op(t) = "once" /\ at[t] = "loop"
    /\ IF word["once"] = 1 THEN Enter(t, "once", 1, FALSE) /\ todo' = todo
       ELSE Done(t) /\ fut' = fut
    /\ UNCHANGED <<word, slot, chan, sig, signals, late, join, reg, in_count, ran, value>>

--------------------------------------------------------------------------
(* In and out of the kernel. *)

WakeAddr(t) ==
    CASE Op(t) = "unlock" -> "lock" [] Op(t) \in {"signal", "broadcast"} -> "seq"
      [] Op(t) = "barrier" -> "cycle" [] OTHER -> "once"

WakeCount(t) == IF Op(t) \in {"unlock", "signal"} THEN 1 ELSE AllWaiters

\* With a count, the sleepers on the address come next.
Wake(t) ==
    /\ at[t] = "wake"
    /\ Mark(WakeAddr(t), WakeCount(t))
    /\ IF Chosen(WakeAddr(t), 1) = {} THEN Done(t)
       ELSE Goto(t, "wakeall") /\ todo' = todo
    /\ UNCHANGED <<word, fut, chan, sig, signals, late, join, reg, in_count, ran, value>>

WakeAll(t) ==
    /\ at[t] = "wakeall"
    /\ Rouse(t, WakeAddr(t), "start")
    /\ todo' = [todo EXCEPT ![t] = Tail(@)]
    /\ UNCHANGED <<word, slot, fut, sig, signals, late, join, reg, in_count, ran, value>>

\* FUTEX_WAIT returns to its caller; a signal is handled on the way.
Return(t) ==
    /\ at[t] = "return"
    /\ IF Op(t) \in {"wait", "timedwait"} THEN Done(t)
       ELSE Goto(t, IF Op(t) = "lock" THEN "xchg" ELSE "loop") /\ todo' = todo
    /\ fut' = [fut EXCEPT ![t] = NoWait]
    /\ sig' = sig \ {t}
    /\ late' = late \ {t}
    /\ UNCHANGED <<word, slot, chan, signals, join, reg, in_count, ran, value>>

Exit(t) ==
    /\ Calls(t, "exit") /\ Publish(t)
    /\ UNCHANGED <<todo, reg, in_count, ran, value>>

ExitTell(t) ==
    /\ at[t] = "tell"
    /\ Rouse(t, t, "gone")
    /\ todo' = [todo EXCEPT ![t] = << >>]
    /\ UNCHANGED <<word, slot, fut, sig, signals, late, join, reg, in_count, ran, value>>

Join(t) ==
    /\ \/ Calls(t, "join") /\ JoinFind(t, JoinOf[t]) /\ value' = value
       \/ JoinCheck(t, JoinOf[t]) /\ value' = value
       \/ JoinTake(t, JoinOf[t]) /\ value' = [value EXCEPT ![t] = Takes(JoinOf[t])]
    /\ UNCHANGED <<todo, reg, in_count, ran>>

JoinReturn(t) ==
    /\ at[t] = "jreturn"
    /\ Done(t)
    /\ sig' = sig \ {t}
    /\ UNCHANGED <<word, slot, fut, chan, signals, late, join, reg, in_count, ran, value>>

Kernel(t) ==
    /\ TakeSlot(t) \/ Check(t) \/ Recheck(t) \/ Clear(t)
    /\ UNCHANGED <<todo, reg, in_count, ran, value>>

Outside(t) ==
    /\ Signal(t) \/ Deadline(t)
    /\ UNCHANGED <<todo, reg, in_count, ran, value>>

--------------------------------------------------------------------------
Init ==
    /\ word = [a \in Addrs |-> 0]
    /\ KernelInit
    /\ at = [t \in Threads |-> "start"]
    /\ todo \in Programs
    /\ reg = [t \in Threads |-> 0]
    /\ in_count = 0 /\ ran = 0
    /\ value = [t \in Threads |-> FALSE]

Step(t) ==
    \/ Lock(t) \/ LockExchange(t) \/ TryLock(t) \/ Unlock(t)
    \/ ReadSeq(t) \/ CondWait(t) \/ CondSignal(t)
    \/ BarrierRead(t) \/ BarrierArrive(t) \/ BarrierReset(t) \/ BarrierBump(t) \/ BarrierLoop(t)
    \/ Once(t) \/ OnceInit(t) \/ OncePublish(t) \/ OnceLoop(t)
    \/ Wake(t) \/ WakeAll(t) \/ Return(t) \/ Exit(t) \/ ExitTell(t) \/ Join(t) \/ JoinReturn(t)
    \/ Kernel(t)

Next == \E t \in Threads : Step(t) \/ Outside(t)

Spec == Init /\ [][Next]_vars

\* The scheduler runs every thread that is not asleep again and again.
FairSpec == Spec /\ \A t \in Threads : WF_vars(Step(t))

--------------------------------------------------------------------------
\* t has the mutex: its lock has returned and its unlock has not begun.
HasMutex(t) == at[t] = "start" /\ Op(t) \in {"seq", "unlock"}

(* pthread_mutex_lock gives the mutex to one thread at a time, whatever    *)
(* the futex does: a wait may return early, for a signal, for want of a    *)
(* slot or because another waiter's slot was cleared.                      *)
Exclusion == \A t, u \in Threads : HasMutex(t) /\ HasMutex(u) => t = u

\* Barriers t has not left yet.
Rounds(t) == Cardinality({i \in DOMAIN todo[t] : todo[t][i] = "barrier"})
Arrived(t) == Op(t) = "barrier" /\ at[t] \notin {"start", "arrive"}

(* No thread leaves pthread_barrier_wait before every thread has arrived   *)
(* in the same round, in the second use of the barrier as in the first.    *)
BarrierTogether ==
    \A t, u \in Threads :
        Rounds(t) < Rounds(u) => Arrived(u) /\ Rounds(u) = Rounds(t) + 1

(* pthread_once returns only after the one call of init_routine.           *)
PastOnce(t) == word["once"] # 0 /\ \A i \in DOMAIN todo[t] : todo[t][i] # "once"
OnceDone == ran <= 1 /\ ((\E t \in Threads : PastOnce(t)) => ran = 1)

(* SYS_THREAD_JOIN hands a thread's exit value to one joiner, after the    *)
(* thread has published it.                                                *)
JoinOnce ==
    \A t, u \in Threads : value[t] =>
        /\ at[JoinOf[t]] \in {"tell", "gone"}
        /\ value[u] /\ JoinOf[t] = JoinOf[u] => t = u

(* user/pthread_test.c, worker_mutex: threads that only lock and unlock a  *)
(* mutex all end, and are joined ("PASS (counter=2000)").                  *)
ThreadsEnd == <>(\A t \in Threads : todo[t] = << >>)
=============================================================================
