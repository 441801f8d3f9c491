----------------------------- MODULE PipeProofs -----------------------------
(***************************************************************************)
(* Proofs about the anonymous pipe, for every number of processes of one   *)
(* thread each (SingleThreaded), ring size, PIPE_BUF and request.          *)
(***************************************************************************)
EXTENDS Pipe, TLAPS

-----------------------------------------------------------------------------
(* The inductive invariant                                                 *)

Transferring == {"loop", "wait", "asleep", "publish", "wake", "return"}
Closing == {"close", "close_data", "close_space", "close_drop"}

\* A thread has an operation while it is inside a call, and a result only
\* from the transfer or the refusal to the return.  A transfer runs on a
\* descriptor that its process holds until it returns, which is so only because
\* no other thread of the process can close it.
CallOf(t) ==
    /\ pc[t] \in {"idle"} \cup Transferring \cup Closing
    /\ pc[t] = "idle" => op[t] = NoOp
    /\ pc[t] \in Transferring => /\ op[t].kind \in Ends /\ op[t].count \in Counts
                                 /\ Holds(t, op[t].kind)
    /\ pc[t] \in Closing => op[t].kind \in Ends /\ op[t].count = 0
    /\ pc[t] \notin {"publish", "wake", "return"} => answer[t] = None

Calls ==
    /\ answer = [t \in Threads |-> answer[t]]
    /\ \A t \in Threads : CallOf(t)

\* p->lock excludes: one transfer at a time is between its two stores.
OnePublisher ==
    \A t, u \in Threads : pc[t] = "publish" /\ pc[u] = "publish" => t = u

\* The mirrors agree with the ring, except between the two stores: then a
\* reader's transfer has made room that space_bytes does not show, or a
\* writer's has taken room that it still shows.
Mirrors ==
    /\ data_bytes = count
    /\ allocated /\ LockFree => space_bytes = PIPE_CAPACITY - count
    /\ \A t \in Threads : pc[t] = "publish" /\ op[t].kind = "write" =>
          space_bytes >= PIPE_CAPACITY - count

\* The thread that closes an end is the only one, and nobody has the end open.
ClosersOf(e) == {t \in Threads : pc[t] \in Closing /\ op[t].kind = e}
OneCloser ==
    \A e \in Ends : /\ files[e] # {} => ClosersOf(e) = {}
                    /\ \A t, u \in ClosersOf(e) : t = u

\* An endpoint is counted in readers or writers until it hangs up, and in
\* active_endpoints until its wake-ups are done.
Peer(e) == IF files[e] # {} \/ \E t \in ClosersOf(e) : pc[t] = "close" THEN 1 ELSE 0
Alive(e) == IF files[e] # {} \/ ClosersOf(e) # {} THEN 1 ELSE 0
Lifetime ==
    /\ readers = Peer("read") /\ writers = Peer("write")
    /\ active_endpoints = Alive("read") + Alive("write")
    /\ allocated <=> active_endpoints # 0

\* The write index is the read index and what lies between them.
RingIndex == head = (tail + count) % PIPE_CAPACITY

PipeIInv ==
    /\ PipeTypeOK /\ Calls /\ OnePublisher /\ Mirrors /\ OneCloser /\ Lifetime
    /\ RingIndex /\ PipeNoLostWakeup

-----------------------------------------------------------------------------
(* What most steps leave alone                                             *)

Ops == [kind : Ends \cup {"none", "poll"}, count : 0 .. MaxCount, nonblock : BOOLEAN]

\* A step that touches neither the ring nor the counters nor the descriptors,
\* and enters or leaves neither a publication nor a close, keeps everything
\* but the facts about calls and sleepers.
LEMMA SharedKept ==
    ASSUME PipeIInv, UNCHANGED <<ring, mirrors, peers, life>>,
           pc' \in [Threads -> Labels], op' \in [Threads -> Ops], signal' \subseteq Threads,
           \A u \in Threads : /\ pc'[u] = "publish" <=> pc[u] = "publish"
                              /\ pc'[u] = "close" <=> pc[u] = "close"
                              /\ pc'[u] \in Closing <=> pc[u] \in Closing
                              /\ pc[u] \in Closing \cup {"publish"} => op'[u] = op[u]
    PROVE  PipeTypeOK' /\ OnePublisher' /\ Mirrors' /\ OneCloser' /\ Lifetime' /\ RingIndex'
<1> USE DEF PipeIInv, ring, mirrors, peers, life
<1>1. PipeTypeOK'
  BY DEF PipeTypeOK, Index, Ops
<1>2. OnePublisher' /\ RingIndex'
  BY DEF OnePublisher, RingIndex
<1>3. Mirrors'
  BY DEF Mirrors, LockFree
<1>4. \A e \in Ends : ClosersOf(e)' = ClosersOf(e)
  BY DEF ClosersOf
<1>5. OneCloser'
  BY <1>4 DEF OneCloser
<1>6. \A e \in Ends : Peer(e)' = Peer(e) /\ Alive(e)' = Alive(e)
  BY <1>4 DEF Peer, Alive, ClosersOf
<1>7. Lifetime'
  BY <1>6 DEF Lifetime, Ends
<1> QED
  BY <1>1, <1>2, <1>3, <1>5, <1>7

\* A step that leaves the ring and the peer counts alone loses no wake-up when
\* whoever it leaves asleep keeps its wakers and has no signal.
LEMMA SleepersKept ==
    ASSUME PipeNoLostWakeup, UNCHANGED <<count, readers, writers>>,
           \A u \in Threads : pc'[u] = "asleep" /\ op'[u].kind \in Ends =>
               /\ pc[u] = "asleep" /\ op'[u] = op[u]
               /\ u \in signal' => u \in signal
               /\ \A w \in Wakers(op[u].kind) : w \in Wakers(op[u].kind)'
    PROVE  PipeNoLostWakeup'
BY DEF PipeNoLostWakeup, Blocked, HungUp, Fits

-----------------------------------------------------------------------------
(* One lemma per operation                                                 *)

\* sched_wait_until keeps the invariant: who falls asleep found neither bytes
\* nor room in the mirrors, and where those are stale the one who publishes
\* them wakes it.
LEMMA WaitInv ==
    ASSUME PipeIInv, NEW t \in Threads, sched_wait_until(t)
    PROVE  PipeIInv'
<1> USE PipeAssumption DEF PipeIInv, sched_wait_until, Goto
<1>1. /\ pc' \in [Threads -> Labels] /\ pc'[t] \in {"loop", "asleep"} /\ pc[t] = "wait"
      /\ \A u \in Threads \ {t} : pc'[u] = pc[u]
  BY DEF PipeTypeOK, Labels
<1>2. PipeTypeOK' /\ OnePublisher' /\ Mirrors' /\ OneCloser' /\ Lifetime' /\ RingIndex'
  BY <1>1, SharedKept DEF PipeTypeOK, Ops, Closing
<1>3. Calls'
  BY <1>1 DEF Calls, CallOf, Holds, Transferring, Closing, life
<1>4. ASSUME NEW k \in Ends PROVE Wakers(k)' = Wakers(k)
  BY <1>1 DEF Wakers
<1>5. CASE pc'[t] = "loop"
  BY <1>1, <1>2, <1>3, <1>4, <1>5, SleepersKept DEF ring, peers
<1>6. CASE pc'[t] = "asleep"
  <2>1. ~Ready(t) /\ t \notin signal /\ op[t].kind \in Ends
    BY <1>1, <1>6 DEF PipeTypeOK
  <2>2. op[t].count \in Counts /\ count \in 0 .. PIPE_CAPACITY /\ space_bytes \in Int
        /\ PIPE_CAPACITY \in Nat /\ PIPE_BUF \in Nat /\ MaxCount \in Nat
        /\ readers \in 0 .. 1 /\ writers \in 0 .. 1
    BY <1>1 DEF PipeTypeOK, Calls, CallOf, Transferring
  <2>3. ~HungUp(op[t].kind)
    BY <2>1, <2>2 DEF Ready, pipe_read_ready, pipe_write_ready, HungUp, Ends
  <2>4. Blocked(t) \/ Wakers(op[t].kind) # {}
    <3>1. CASE op[t].kind = "read"
      BY <2>1, <2>2, <3>1 DEF Ready, pipe_read_ready, Blocked, Mirrors
    <3>2. CASE op[t].kind = "write"
      <4>1. space_bytes < NeededSpace(t)
        BY <2>1, <2>2, <3>2 DEF Ready, pipe_write_ready, NeededSpace, Counts
      <4>2. CASE space_bytes >= PIPE_CAPACITY - count
        BY <4>1, <4>2, <2>2, <3>2 DEF NeededSpace, Blocked, Fits, Counts
      <4>3. CASE ~(space_bytes >= PIPE_CAPACITY - count)
        <5>1. allocated
          BY <1>1 DEF Calls, CallOf, Holds, Transferring, Lifetime, Alive, Ends
        <5>2. PICK u \in Threads : pc[u] = "publish"
          BY <5>1, <4>3, <2>2 DEF Mirrors, LockFree
        <5>3. op[u].kind = "read"
          BY <5>2, <4>3 DEF Mirrors, Calls, CallOf, Transferring, Ends
        <5> QED
          BY <5>2, <5>3, <3>2 DEF Wakers, Other
      <4> QED
        BY <4>2, <4>3
    <3> QED
      BY <3>1, <3>2, <2>1 DEF Ends
  <2>5. PipeNoLostWakeup'
    BY <1>1, <1>4, <2>1, <2>3, <2>4 DEF PipeNoLostWakeup, Blocked, HungUp, Fits, ring, peers
  <2> QED
    BY <1>2, <1>3, <2>5
<1> QED
  BY <1>1, <1>5, <1>6

\* A refusal keeps the invariant: EINTR, end of file, EPIPE and EAGAIN.
LEMMA ReturnInv ==
    ASSUME PipeIInv, NEW t \in Threads, pc[t] = "loop", NEW result, Return(t, result),
           UNCHANGED <<ring, mirrors, peers, life>>
    PROVE  PipeIInv'
<1> USE DEF PipeIInv, Return, Goto
<1>1. /\ pc' \in [Threads -> Labels] /\ pc'[t] = "return"
      /\ \A u \in Threads \ {t} : pc'[u] = pc[u]
  BY DEF PipeTypeOK, Labels
<1>2. PipeTypeOK' /\ OnePublisher' /\ Mirrors' /\ OneCloser' /\ Lifetime' /\ RingIndex'
  BY <1>1, SharedKept DEF PipeTypeOK, Ops, Closing
<1>3. Calls'
  BY <1>1 DEF Calls, CallOf, Holds, Transferring, Closing, life
<1>4. PipeNoLostWakeup'
  BY <1>1, SleepersKept DEF ring, peers, Wakers
<1> QED
  BY <1>2, <1>3, <1>4

\* WouldBlock keeps the invariant: EAGAIN, or the caller goes to wait.
LEMMA WouldBlockInv ==
    ASSUME PipeIInv, NEW t \in Threads, WouldBlock(t)
    PROVE  PipeIInv'
<1>1. CASE op[t].nonblock
  BY <1>1, ReturnInv DEF WouldBlock, InSection
<1>2. CASE ~op[t].nonblock
  <2> USE <1>2 DEF PipeIInv, WouldBlock, InSection, Goto
  <2>1. /\ pc' \in [Threads -> Labels] /\ pc[t] = "loop" /\ pc'[t] = "wait"
        /\ \A u \in Threads \ {t} : pc'[u] = pc[u]
    BY DEF PipeTypeOK, Labels
  <2>2. PipeTypeOK' /\ OnePublisher' /\ Mirrors' /\ OneCloser' /\ Lifetime' /\ RingIndex'
    BY <2>1, SharedKept DEF PipeTypeOK, Ops, Closing
  <2>3. Calls'
    BY <2>1 DEF Calls, CallOf, Holds, Transferring, Closing, life
  <2>4. PipeNoLostWakeup'
    BY <2>1, SleepersKept DEF ring, peers, Wakers
  <2> QED
    BY <2>2, <2>3, <2>4
<1> QED
  BY <1>1, <1>2

\* A call that begins keeps the invariant.
LEMMA EnterInv ==
    ASSUME PipeIInv, NEW t \in Threads, NEW e \in Ends, Enter(t, e)
    PROVE  PipeIInv'
<1> USE PipeAssumption DEF PipeIInv, Enter, Goto
<1>1. PICK k \in Counts, b \in Modes :
          op' = [op EXCEPT ![t] = [kind |-> e, count |-> k, nonblock |-> b]]
  OBVIOUS
<1>2. /\ pc' \in [Threads -> Labels] /\ pc[t] = "idle" /\ pc'[t] = "loop"
      /\ op' \in [Threads -> Ops] /\ op'[t].kind = e /\ op'[t].count = k
      /\ \A u \in Threads \ {t} : pc'[u] = pc[u] /\ op'[u] = op[u]
  BY <1>1 DEF PipeTypeOK, Labels, Ops, Counts, Ends
<1>3. PipeTypeOK' /\ OnePublisher' /\ Mirrors' /\ OneCloser' /\ Lifetime' /\ RingIndex'
  BY <1>2, SharedKept DEF PipeTypeOK, Closing
<1>4. Calls'
  BY <1>2 DEF Calls, CallOf, Holds, Transferring, Closing, life
<1>5. PipeNoLostWakeup'
  BY <1>2, SleepersKept DEF ring, peers, Wakers
<1> QED
  BY <1>3, <1>4, <1>5

\* A return to user mode keeps the invariant.
LEMMA LeaveInv ==
    ASSUME PipeIInv, NEW t \in Threads, Leave(t)
    PROVE  PipeIInv'
<1> USE DEF PipeIInv, Leave, HandOver, Goto
<1>1. /\ pc' \in [Threads -> Labels] /\ pc[t] = "return" /\ pc'[t] = "idle"
      /\ op' \in [Threads -> Ops] /\ op'[t] = NoOp /\ signal' \subseteq signal
      /\ \A u \in Threads \ {t} : pc'[u] = pc[u] /\ op'[u] = op[u]
  BY PipeAssumption DEF PipeTypeOK, Labels, Ops, NoOp
<1>2. PipeTypeOK' /\ OnePublisher' /\ Mirrors' /\ OneCloser' /\ Lifetime' /\ RingIndex'
  BY <1>1, SharedKept DEF PipeTypeOK, Closing
<1>3. Calls'
  BY <1>1 DEF Calls, CallOf, Holds, Transferring, Closing, life
<1>4. PipeNoLostWakeup'
  BY <1>1, SleepersKept DEF ring, peers, Wakers
<1> QED
  BY <1>2, <1>3, <1>4

\* A signal keeps the invariant: whoever gets one is woken.
LEMMA SignalInv ==
    ASSUME PipeIInv, NEW t \in Threads, thread_wake_for_signal(t)
    PROVE  PipeIInv'
<1> USE DEF PipeIInv, thread_wake_for_signal, Goto
<1>1. /\ pc' \in [Threads -> Labels] /\ pc[t] \in {"loop", "wait", "asleep"}
      /\ pc'[t] \in {"loop", "wait"} /\ signal' = signal \cup {t}
      /\ \A u \in Threads \ {t} : pc'[u] = pc[u]
  BY DEF PipeTypeOK, Labels
<1>2. PipeTypeOK' /\ OnePublisher' /\ Mirrors' /\ OneCloser' /\ Lifetime' /\ RingIndex'
  BY <1>1, SharedKept DEF PipeTypeOK, Ops, Closing
<1>3. Calls'
  BY <1>1 DEF Calls, CallOf, Holds, Transferring, Closing, life
<1>4. PipeNoLostWakeup'
  BY <1>1, SleepersKept DEF ring, peers, Wakers
<1> QED
  BY <1>2, <1>3, <1>4

\* What a wake-up of one direction by t does to every process: the sleepers of
\* that direction wait again, everyone else but t stays where it is.
LEMMA WakeAll ==
    ASSUME PipeIInv, NEW t \in Threads, NEW kind \in Ends, NEW l \in Labels, pc[t] # "asleep",
           pc' = [sched_wake_all(kind) EXCEPT ![t] = l]
    PROVE  /\ pc' \in [Threads -> Labels] /\ pc'[t] = l
           /\ \A u \in Threads \ {t} :
                \/ pc'[u] = pc[u] /\ (pc[u] = "asleep" => op[u].kind # kind)
                \/ pc[u] = "asleep" /\ pc'[u] = "wait"
BY DEF sched_wake_all, Sleeping, PipeIInv, PipeTypeOK, Labels

\* The wake-up after a transfer keeps the invariant: it wakes the direction
\* that the transfer served, and was no waker of the other.
LEMMA TransferWakeInv ==
    ASSUME PipeIInv, NEW t \in Threads, TransferWake(t)
    PROVE  PipeIInv'
<1> USE DEF PipeIInv, TransferWake, HandOver
<1>1. op[t].kind \in Ends /\ Other(op[t].kind) \in Ends /\ Other(op[t].kind) # op[t].kind
  BY DEF Calls, CallOf, Transferring, Other, Ends
<1>2. /\ pc' \in [Threads -> Labels] /\ pc'[t] = "idle"
      /\ \A u \in Threads \ {t} :
           \/ pc'[u] = pc[u] /\ (pc[u] = "asleep" => op[u].kind # Other(op[t].kind))
           \/ pc[u] = "asleep" /\ pc'[u] = "wait"
  BY <1>1, WakeAll DEF Labels
<1>3. /\ op' \in [Threads -> Ops] /\ op'[t] = NoOp /\ signal' \subseteq signal /\ pc[t] = "wake"
      /\ \A u \in Threads \ {t} : op'[u] = op[u]
  BY PipeAssumption DEF PipeTypeOK, Labels, Ops, NoOp
<1>4. PipeTypeOK' /\ OnePublisher' /\ Mirrors' /\ OneCloser' /\ Lifetime' /\ RingIndex'
  BY <1>2, <1>3, SharedKept DEF PipeTypeOK, Closing
<1>5. Calls'
  BY <1>2, <1>3 DEF Calls, CallOf, Holds, Transferring, Closing, life
<1>6. ASSUME NEW u \in Threads, pc'[u] = "asleep", op'[u].kind \in Ends
      PROVE  /\ pc[u] = "asleep" /\ op'[u] = op[u]
             /\ u \in signal' => u \in signal
             /\ \A w \in Wakers(op[u].kind) : w \in Wakers(op[u].kind)'
  <2>1. pc[u] = "asleep" /\ op'[u] = op[u] /\ op[u].kind = op[t].kind /\ u # t
    BY <1>1, <1>2, <1>3, <1>6 DEF Other, Ends
  <2>2. t \notin Wakers(op[u].kind)
    BY <1>1, <1>3, <2>1 DEF Wakers
  <2> QED
    BY <1>2, <1>3, <2>1, <2>2 DEF Wakers
<1>7. PipeNoLostWakeup'
  BY <1>3, <1>6, <1>2, SleepersKept DEF ring, peers
<1> QED
  BY <1>4, <1>5, <1>7

\* The first wake-up of a closing endpoint keeps the invariant: the writers it
\* leaves asleep have its second one to come.
LEMMA CloseWakeDataInv ==
    ASSUME PipeIInv, NEW t \in Threads, CloseWakeData(t)
    PROVE  PipeIInv'
<1> USE DEF PipeIInv, CloseWakeData
<1>1. /\ pc' \in [Threads -> Labels] /\ pc'[t] = "close_space" /\ pc[t] = "close_data"
      /\ \A u \in Threads \ {t} :
           \/ pc'[u] = pc[u] /\ (pc[u] = "asleep" => op[u].kind # "read")
           \/ pc[u] = "asleep" /\ pc'[u] = "wait"
  BY WakeAll DEF Labels, Ends
<1>2. PipeTypeOK' /\ OnePublisher' /\ Mirrors' /\ OneCloser' /\ Lifetime' /\ RingIndex'
  BY <1>1, SharedKept DEF PipeTypeOK, Ops, Closing
<1>3. Calls'
  BY <1>1 DEF Calls, CallOf, Holds, Transferring, Closing, life
<1>4. PipeNoLostWakeup'
  BY <1>1, SleepersKept DEF ring, peers, Wakers, Ends
<1> QED
  BY <1>2, <1>3, <1>4

\* The second keeps it too: it was no waker of the readers any more.
LEMMA CloseWakeSpaceInv ==
    ASSUME PipeIInv, NEW t \in Threads, CloseWakeSpace(t)
    PROVE  PipeIInv'
<1> USE DEF PipeIInv, CloseWakeSpace
<1>1. /\ pc' \in [Threads -> Labels] /\ pc'[t] = "close_drop" /\ pc[t] = "close_space"
      /\ \A u \in Threads \ {t} :
           \/ pc'[u] = pc[u] /\ (pc[u] = "asleep" => op[u].kind # "write")
           \/ pc[u] = "asleep" /\ pc'[u] = "wait"
  BY WakeAll DEF Labels, Ends
<1>2. PipeTypeOK' /\ OnePublisher' /\ Mirrors' /\ OneCloser' /\ Lifetime' /\ RingIndex'
  BY <1>1, SharedKept DEF PipeTypeOK, Ops, Closing
<1>3. Calls'
  BY <1>1 DEF Calls, CallOf, Holds, Transferring, Closing, life
<1>4. PipeNoLostWakeup'
  BY <1>1, SleepersKept DEF ring, peers, Wakers, Ends
<1> QED
  BY <1>2, <1>3, <1>4

-----------------------------------------------------------------------------
(* The ring                                                                *)

\* Ring arithmetic needs one wrap at most.
LEMMA Wrap ==
    ASSUME NEW a \in 0 .. PIPE_CAPACITY - 1, NEW n \in 0 .. PIPE_CAPACITY
    PROVE  /\ Advance(a, n) \in Index
           /\ a + n < PIPE_CAPACITY => Advance(a, n) = a + n
           /\ a + n >= PIPE_CAPACITY => Advance(a, n) = a + n - PIPE_CAPACITY
BY PipeAssumption DEF Advance, Index

\* Two advances are one.
LEMMA WrapSum ==
    ASSUME NEW a \in Index, NEW n \in Nat, NEW m \in Nat, n + m <= PIPE_CAPACITY
    PROVE  Advance(Advance(a, n), m) = Advance(a, n + m)
<1> USE PipeAssumption DEF Index
<1>1. n \in 0 .. PIPE_CAPACITY /\ m \in 0 .. PIPE_CAPACITY /\ n + m \in 0 .. PIPE_CAPACITY
  OBVIOUS
<1>2. CASE a + n < PIPE_CAPACITY
  <2>1. Advance(a, n) = a + n
    BY <1>1, <1>2, Wrap
  <2> QED
    BY <2>1 DEF Advance
<1>3. CASE a + n >= PIPE_CAPACITY
  <2>1. Advance(a, n) = a + n - PIPE_CAPACITY /\ a + n - PIPE_CAPACITY \in 0 .. PIPE_CAPACITY - 1
    BY <1>1, <1>3, Wrap
  <2>2. Advance(a + n - PIPE_CAPACITY, m) = a + n - PIPE_CAPACITY + m
    BY <1>1, <1>3, <2>1, Wrap
  <2> QED
    BY <1>1, <1>3, <2>1, <2>2, Wrap
<1> QED
  BY <1>1, <1>2, <1>3

\* What a transfer of t may assume of the ring.
LEMMA RingFacts ==
    ASSUME PipeIInv, NEW t \in Threads, pc[t] = "loop"
    PROVE  /\ op[t].count \in Counts /\ op[t].kind \in Ends /\ allocated
           /\ head \in Index /\ tail \in Index /\ count \in 0 .. PIPE_CAPACITY
           /\ head = Advance(tail, count)
           /\ PIPE_CAPACITY \in Nat \ {0} /\ PIPE_BUF \in Nat /\ MaxCount \in Nat
<1>1. op[t].count \in Counts /\ op[t].kind \in Ends /\ Holds(t, op[t].kind)
  BY DEF PipeIInv, Calls, CallOf, Transferring
<1>2. files[op[t].kind] # {}
  BY <1>1 DEF Holds
<1>3. allocated
  BY <1>1, <1>2 DEF PipeIInv, Lifetime, Alive, Ends
<1> QED
  BY <1>1, <1>3, PipeAssumption DEF PipeIInv, PipeTypeOK, RingIndex, Advance

\* The control part of a transfer: t takes p->lock and leaves it to publish.
LEMMA TransferControl ==
    ASSUME PipeIInv, NEW t \in Threads, pc[t] = "loop", LockFree, Goto(t, "publish"),
           NEW r, answer' = [answer EXCEPT ![t] = r], UNCHANGED <<peers, life, op, signal>>
    PROVE  /\ pc' \in [Threads -> Labels] /\ pc'[t] = "publish"
           /\ \A u \in Threads \ {t} : pc'[u] = pc[u]
           /\ Calls' /\ OnePublisher' /\ OneCloser' /\ Lifetime'
<1> USE DEF PipeIInv, Goto, peers, life
<1>1. /\ pc' \in [Threads -> Labels] /\ pc'[t] = "publish"
      /\ \A u \in Threads \ {t} : pc'[u] = pc[u]
  BY DEF PipeTypeOK, Labels
<1>2. Calls'
  BY <1>1 DEF Calls, CallOf, Holds, Transferring, Closing
<1>3. OnePublisher'
  BY <1>1 DEF OnePublisher, LockFree
<1>4. \A e \in Ends : ClosersOf(e)' = ClosersOf(e)
  BY <1>1 DEF ClosersOf, Closing
<1>5. OneCloser'
  BY <1>4 DEF OneCloser
<1>6. \A e \in Ends : Peer(e)' = Peer(e) /\ Alive(e)' = Alive(e)
  BY <1>1, <1>4 DEF Peer, Alive, ClosersOf
<1>7. Lifetime'
  BY <1>6 DEF Lifetime, Ends
<1> QED
  BY <1>1, <1>2, <1>3, <1>5, <1>7

\* pipe_read's transfer keeps the invariant: the room it makes is announced by
\* the wake-up it still has to send.
LEMMA ReadTransferInv ==
    ASSUME PipeIInv, NEW t \in Threads, ReadTransfer(t)
    PROVE  PipeIInv'
<1> USE DEF ReadTransfer, InSection
<1> DEFINE n == Smaller(op[t].count, count)
<1>1. n \in 1 .. count /\ count \in 1 .. PIPE_CAPACITY /\ tail \in Index /\ allocated
  BY RingFacts DEF Smaller, Counts
<1>2. count' = count - n /\ tail' = Advance(tail, n) /\ data_bytes' = count'
  OBVIOUS
<1> HIDE DEF n
<1>3. /\ pc' \in [Threads -> Labels] /\ pc'[t] = "publish"
      /\ \A u \in Threads \ {t} : pc'[u] = pc[u]
      /\ Calls' /\ OnePublisher' /\ OneCloser' /\ Lifetime'
  BY TransferControl
<1>4. count' \in 0 .. PIPE_CAPACITY /\ count' < count /\ tail' \in Index
  <2>1. tail \in 0 .. PIPE_CAPACITY - 1 /\ n \in 0 .. PIPE_CAPACITY
    BY ONLY <1>1, PipeAssumption DEF Index
  <2>2. Advance(tail, n) \in Index
    BY ONLY <2>1, Wrap
  <2>3. count' \in 0 .. PIPE_CAPACITY /\ count' < count
    BY ONLY <1>1, <1>2, PipeAssumption
  <2> QED
    BY ONLY <2>2, <2>3, <1>2
<1>5. PipeTypeOK'
  BY <1>2, <1>3, <1>4 DEF PipeIInv, PipeTypeOK, peers, life, Index
<1>6. Mirrors'
  BY <1>2, <1>3 DEF PipeIInv, Mirrors, LockFree
<1>7. RingIndex'
  <2>1. Advance(Advance(tail, n), count - n) = Advance(tail, n + (count - n))
    BY <1>1, WrapSum, PipeAssumption
  <2>2. n + (count - n) = count
    BY <1>1
  <2> QED
    BY <1>2, <2>1, <2>2 DEF PipeIInv, RingIndex, Advance
<1>8. PipeNoLostWakeup'
  <2> SUFFICES ASSUME NEW u \in Threads, pc'[u] = "asleep", op[u].kind \in Ends
               PROVE  Wakers(op[u].kind)' # {} /\ u \notin signal
    BY DEF PipeNoLostWakeup
  <2>1. pc[u] = "asleep" /\ u # t
    BY <1>3
  <2>2. CASE op[u].kind = "write"
    BY <1>3, <2>1, <2>2 DEF Wakers, Other, PipeIInv, PipeNoLostWakeup
  <2>3. CASE op[u].kind = "read"
    <3>1. ~Blocked(u)
      BY <2>3, <1>1 DEF Blocked
    <3>2. PICK w \in Wakers("read") : TRUE
      BY <2>1, <2>3, <3>1 DEF PipeIInv, PipeNoLostWakeup
    <3>3. w # t /\ w \in Wakers("read")'
      BY <3>2, <1>3 DEF Wakers
    <3> QED
      BY <2>1, <2>3, <3>3 DEF PipeIInv, PipeNoLostWakeup
  <2> QED
    BY <2>2, <2>3 DEF Ends
<1> QED
  BY <1>3, <1>5, <1>6, <1>7, <1>8 DEF PipeIInv

\* pipe_write's transfer keeps the invariant: it writes inside the ring, takes
\* room that no sleeping writer could use, and has the readers to wake.
LEMMA WriteTransferInv ==
    ASSUME PipeIInv, NEW t \in Threads, WriteTransfer(t)
    PROVE  PipeIInv'
<1> USE DEF WriteTransfer, InSection
<1> DEFINE n == Smaller(op[t].count, PIPE_CAPACITY - count)
<1>1. /\ n \in 1 .. PIPE_CAPACITY - count /\ n \in 1 .. MaxCount
      /\ count \in 0 .. PIPE_CAPACITY - 1 /\ head \in Index /\ allocated
  BY RingFacts DEF Smaller, Counts, Fits
<1>2. count' = count + n /\ head' = Advance(head, n) /\ data_bytes' = count' /\ buffer' = CopyIn(n)
  OBVIOUS
<1> HIDE DEF n
<1>3. /\ pc' \in [Threads -> Labels] /\ pc'[t] = "publish"
      /\ \A u \in Threads \ {t} : pc'[u] = pc[u]
      /\ Calls' /\ OnePublisher' /\ OneCloser' /\ Lifetime'
  BY TransferControl
<1>4. count' \in 0 .. PIPE_CAPACITY /\ count' > count /\ head' \in Index
  <2>1. head \in 0 .. PIPE_CAPACITY - 1 /\ n \in 0 .. PIPE_CAPACITY
    BY ONLY <1>1, PipeAssumption DEF Index
  <2>2. Advance(head, n) \in Index
    BY ONLY <2>1, Wrap
  <2>3. count' \in 0 .. PIPE_CAPACITY /\ count' > count
    BY ONLY <1>1, <1>2, PipeAssumption
  <2> QED
    BY ONLY <2>2, <2>3, <1>2
<1>5. CopyIn(n) \in [Index -> Counts \cup {NoByte}]
  <2> DEFINE first == Smaller(PIPE_CAPACITY - head, n)
  <2>1. first \in 1 .. n /\ n \in Nat /\ MaxCount \in Nat /\ n <= MaxCount
    BY <1>1, PipeAssumption DEF Smaller, Index
  <2>2. \A i \in head .. head + first - 1 : Payload(n)[i - head + 1] \in Counts
    BY <1>1, <2>1 DEF Payload, Counts, Index
  <2>3. \A i \in 0 .. n - first - 1 : Payload(n)[first + i + 1] \in Counts
    BY <1>1, <2>1 DEF Payload, Counts, Index
  <2>4. \A i \in Index : buffer[i] \in Counts \cup {NoByte}
    BY DEF PipeIInv, PipeTypeOK
  <2> HIDE DEF first
  <2> QED
    BY <2>2, <2>3, <2>4 DEF CopyIn, first
<1>6. PipeTypeOK'
  BY <1>2, <1>3, <1>4, <1>5 DEF PipeIInv, PipeTypeOK, peers, life, Index
<1>7. Mirrors'
  <2>1. space_bytes = PIPE_CAPACITY - count
    BY <1>1 DEF PipeIInv, Mirrors
  <2>2. space_bytes' >= PIPE_CAPACITY - count'
    BY <2>1, <1>1, <1>2, PipeAssumption
  <2> QED
    BY <1>2, <1>3, <2>2 DEF Mirrors, LockFree
<1>8. RingIndex'
  <2>1. Advance(Advance(tail, count), n) = Advance(tail, count + n)
    BY <1>1, RingFacts, WrapSum, PipeAssumption
  <2> QED
    BY <1>2, <2>1 DEF PipeIInv, RingIndex, Advance
<1>9. PipeNoLostWakeup'
  <2> SUFFICES ASSUME NEW u \in Threads, pc'[u] = "asleep", op[u].kind \in Ends
               PROVE  /\ (Blocked(u)' /\ ~HungUp(op[u].kind)) \/ Wakers(op[u].kind)' # {}
                      /\ u \notin signal
    BY DEF PipeNoLostWakeup, HungUp, peers
  <2>1. pc[u] = "asleep" /\ u # t /\ u \notin signal
    BY <1>3 DEF PipeIInv, PipeNoLostWakeup
  <2>2. CASE op[u].kind = "read"
    BY <1>3, <2>1, <2>2 DEF Wakers, Other
  <2>3. CASE op[u].kind = "write"
    <3>1. CASE Wakers("write") # {}
      <4>1. PICK w \in Wakers("write") : TRUE
        BY <3>1
      <4>2. w # t /\ w \in Wakers("write")'
        BY <4>1, <1>3 DEF Wakers
      <4> QED
        BY <2>1, <2>3, <4>2
    <3>2. CASE Wakers("write") = {}
      <4>1. Blocked(u) /\ ~HungUp("write")
        BY <2>1, <2>3, <3>2 DEF PipeIInv, PipeNoLostWakeup
      <4>2. op[u].count \in Nat
        BY PipeAssumption DEF PipeIInv, PipeTypeOK
      <4>3. ~Fits(op[u].count, PIPE_CAPACITY - count')
        BY <4>1, <4>2, <2>3, <1>1, <1>2, PipeAssumption DEF Blocked, Fits
      <4> QED
        BY <2>1, <2>3, <4>1, <4>3 DEF Blocked
    <3> QED
      BY <3>1, <3>2
  <2> QED
    BY <2>2, <2>3 DEF Ends
<1> QED
  BY <1>3, <1>6, <1>7, <1>8, <1>9 DEF PipeIInv

\* The second store keeps the invariant: the mirrors agree again.
LEMMA PublishInv ==
    ASSUME PipeIInv, NEW t \in Threads, pipe_publish(t)
    PROVE  PipeIInv'
<1> USE DEF PipeIInv, pipe_publish, Goto, ring, peers, life
<1>1. /\ pc' \in [Threads -> Labels] /\ pc'[t] = "wake" /\ pc[t] = "publish"
      /\ \A u \in Threads \ {t} : pc'[u] = pc[u]
  BY DEF PipeTypeOK, Labels
<1>2. PipeTypeOK'
  BY <1>1, PipeAssumption DEF PipeTypeOK, Index
<1>3. Calls'
  BY <1>1 DEF Calls, CallOf, Holds, Transferring, Closing
<1>4. \A u \in Threads : pc'[u] # "publish"
  BY <1>1 DEF OnePublisher
<1>5. OnePublisher' /\ Mirrors' /\ RingIndex'
  BY <1>4 DEF OnePublisher, Mirrors, LockFree, RingIndex
<1>6. \A e \in Ends : ClosersOf(e)' = ClosersOf(e)
  BY <1>1 DEF ClosersOf, Closing
<1>7. OneCloser'
  BY <1>6 DEF OneCloser
<1>8. \A e \in Ends : Peer(e)' = Peer(e) /\ Alive(e)' = Alive(e)
  BY <1>1, <1>6 DEF Peer, Alive, ClosersOf
<1>9. Lifetime'
  BY <1>8 DEF Lifetime, Ends
<1>10. PipeNoLostWakeup'
  BY <1>1, SleepersKept DEF Wakers
<1> QED
  BY <1>2, <1>3, <1>5, <1>7, <1>9, <1>10

-----------------------------------------------------------------------------
(* Endpoints                                                               *)

\* Nobody is inside a call and no descriptor is open once the pipe is freed.
LEMMA Unreferenced ==
    ASSUME PipeIInv
    PROVE  NoUseAfterFree
<1> SUFFICES ASSUME ~allocated
             PROVE  (\A t \in Threads : pc[t] = "idle") /\ (\A e \in Ends : files[e] = {})
  BY DEF NoUseAfterFree
<1>1. Alive("read") + Alive("write") = 0
  BY DEF PipeIInv, Lifetime
<1>2. \A e \in Ends : files[e] = {} /\ ClosersOf(e) = {}
  BY <1>1 DEF Alive, Ends
<1>3. ASSUME NEW t \in Threads PROVE pc[t] = "idle"
  BY <1>2 DEF PipeIInv, Calls, CallOf, Holds, Transferring, Closing, ClosersOf
<1> QED
  BY <1>2, <1>3

\* pipe_create keeps the invariant: there is nobody to disturb.
LEMMA CreateInv ==
    ASSUME PipeIInv, NEW t \in Threads, pipe_create(t)
    PROVE  PipeIInv'
<1> USE DEF pipe_create
<1>1. \A u \in Threads : pc[u] = "idle" /\ op[u] = NoOp
  BY Unreferenced DEF NoUseAfterFree, PipeIInv, Calls, CallOf
<1>2. PipeTypeOK'
  BY PipeAssumption DEF PipeIInv, PipeTypeOK, Index, Ends, Procs
<1>3. Calls'
  BY <1>1 DEF PipeIInv, Calls, CallOf, Transferring, Closing
<1>4. OnePublisher'
  BY <1>1 DEF OnePublisher
<1>5. Mirrors'
  BY <1>1, PipeAssumption DEF Mirrors, LockFree
<1>6. \A e \in Ends : ClosersOf(e)' = {} /\ files'[e] = {Process[t]}
  BY <1>1 DEF ClosersOf, Closing
<1>7. OneCloser'
  BY <1>6 DEF OneCloser
<1>8. \A e \in Ends : Peer(e)' = 1 /\ Alive(e)' = 1
  BY <1>6 DEF Peer, Alive
<1>9. Lifetime'
  BY <1>8 DEF Lifetime, Ends
<1>10. RingIndex'
  BY PipeAssumption DEF RingIndex
<1>11. PipeNoLostWakeup'
  BY <1>1 DEF PipeNoLostWakeup
<1> QED
  BY <1>2, <1>3, <1>4, <1>5, <1>7, <1>9, <1>10, <1>11 DEF PipeIInv

\* A spawned process keeps the invariant: it shares only ends that are open.
LEMMA CloneInv ==
    ASSUME PipeIInv, NEW t \in Threads, NEW p \in Procs, fd_clone_table(t, p)
    PROVE  PipeIInv'
<1> USE DEF PipeIInv, fd_clone_table, ring, mirrors, peers
<1>1. \A e \in Ends : /\ files[e] \subseteq files'[e] /\ files'[e] \subseteq Procs
                      /\ files'[e] = {} <=> files[e] = {}
  BY DEF PipeTypeOK, Holds
<1>2. PipeTypeOK'
  BY <1>1 DEF PipeTypeOK, Index
<1>3. Calls'
  BY <1>1 DEF Calls, CallOf, Transferring, Holds
<1>4. OnePublisher' /\ Mirrors' /\ RingIndex'
  BY DEF OnePublisher, Mirrors, LockFree, RingIndex
<1>5. OneCloser'
  BY <1>1 DEF OneCloser, ClosersOf
<1>6. Lifetime'
  BY <1>1 DEF Lifetime, Peer, Alive, ClosersOf, Ends
<1>7. PipeNoLostWakeup'
  BY SleepersKept DEF Wakers
<1> QED
  BY <1>2, <1>3, <1>4, <1>5, <1>6, <1>7

\* vfs_close keeps the invariant: whoever closes the last descriptor of an end
\* becomes its only closer, and no other thread was using the descriptor.
LEMMA VfsCloseInv ==
    ASSUME SingleThreaded, PipeIInv, NEW t \in Threads, NEW e \in Ends, vfs_close(t, e)
    PROVE  PipeIInv'
<1> USE DEF PipeIInv, vfs_close, ring, mirrors, peers, Goto
<1>1. /\ files' \in [Ends -> SUBSET Procs] /\ files'[e] = files[e] \ {Process[t]}
      /\ \A d \in Ends \ {e} : files'[d] = files[d]
      /\ pc[t] = "idle" /\ op[t] = NoOp /\ Process[t] \in files[e]
  BY DEF PipeTypeOK, Calls, CallOf, Holds
<1>0. ASSUME NEW u \in Threads \ {t}, NEW d \in Ends, Holds(u, d) PROVE Holds(u, d)'
  BY <1>1, <1>0 DEF Holds, SingleThreaded
<1>2. ClosersOf(e) = {}
  BY <1>1 DEF OneCloser
<1>3. CASE files'[e] # {}
  <2> USE <1>3
  <2>1. PipeTypeOK'
    BY <1>1 DEF PipeTypeOK, Index
  <2>2. Calls'
    BY <1>0, <1>1 DEF Calls, CallOf, Transferring
  <2>3. OnePublisher' /\ Mirrors' /\ RingIndex'
    BY DEF OnePublisher, Mirrors, LockFree, RingIndex
  <2>4. OneCloser'
    BY <1>1, <1>2 DEF OneCloser, ClosersOf
  <2>5. Lifetime'
    BY <1>1 DEF Lifetime, Peer, Alive, ClosersOf, Ends
  <2>6. PipeNoLostWakeup'
    BY SleepersKept DEF Wakers
  <2> QED
    BY <2>1, <2>2, <2>3, <2>4, <2>5, <2>6
<1>4. CASE files'[e] = {}
  <2>1. /\ pc' \in [Threads -> Labels] /\ pc'[t] = "close" /\ op' \in [Threads -> Ops]
        /\ op'[t].kind = e /\ op'[t].count = 0
        /\ \A u \in Threads \ {t} : pc'[u] = pc[u] /\ op'[u] = op[u]
    <3>1. /\ pc' = [pc EXCEPT ![t] = "close"]
          /\ op' = [op EXCEPT ![t] = [kind |-> e, count |-> 0, nonblock |-> FALSE]]
      BY <1>4
    <3>2. [kind |-> e, count |-> 0, nonblock |-> FALSE] \in Ops
      BY PipeAssumption DEF Ops
    <3> QED
      BY <3>1, <3>2 DEF PipeTypeOK, Labels, Ops
  <2>2. PipeTypeOK'
    BY <1>1, <2>1 DEF PipeTypeOK, Index, Ops
  <2>3. Calls'
    BY <1>0, <1>1, <2>1 DEF Calls, CallOf, Transferring, Closing
  <2>4. OnePublisher' /\ Mirrors' /\ RingIndex'
    BY <1>1, <2>1 DEF OnePublisher, Mirrors, LockFree, RingIndex
  <2>5. ClosersOf(e)' = {t} /\ \A d \in Ends \ {e} : ClosersOf(d)' = ClosersOf(d)
    BY <1>1, <1>2, <2>1 DEF ClosersOf, Closing
  <2>6. OneCloser'
    BY <1>1, <1>4, <2>5 DEF OneCloser
  <2>7. Peer(e) = 1 /\ Alive(e) = 1 /\ Peer(e)' = 1 /\ Alive(e)' = 1
    BY <1>1, <2>1, <2>5 DEF Peer, Alive
  <2>8. \A d \in Ends \ {e} : Peer(d)' = Peer(d) /\ Alive(d)' = Alive(d)
    BY <1>1, <2>1, <2>5 DEF Peer, Alive, ClosersOf
  <2>9. Lifetime'
    BY <2>7, <2>8 DEF Lifetime, Ends
  <2>10. PipeNoLostWakeup'
    BY <1>1, <2>1, SleepersKept DEF Wakers
  <2> QED
    BY <2>2, <2>3, <2>4, <2>6, <2>9, <2>10
<1> QED
  BY <1>3, <1>4

\* The hang-up keeps the invariant: its wake-ups for both directions follow.
LEMMA CloseEndpointInv ==
    ASSUME PipeIInv, NEW t \in Threads, CloseEndpoint(t)
    PROVE  PipeIInv'
<1> USE DEF PipeIInv, CloseEndpoint, ring, mirrors, life, Goto
<1>1. /\ pc' \in [Threads -> Labels] /\ pc[t] = "close" /\ pc'[t] = "close_data"
      /\ \A u \in Threads \ {t} : pc'[u] = pc[u]
      /\ op[t].kind \in Ends
  BY DEF PipeTypeOK, Labels, Calls, CallOf, Closing
<1>2. \A e \in Ends : ClosersOf(e)' = ClosersOf(e)
  BY <1>1 DEF ClosersOf, Closing
<1>3. t \in ClosersOf(op[t].kind)
  BY <1>1 DEF ClosersOf, Closing
<1>4. Peer(op[t].kind) = 1 /\ Peer(op[t].kind)' = 0
  BY <1>1, <1>2, <1>3 DEF Peer, OneCloser
<1>5. \A e \in Ends : /\ Alive(e)' = Alive(e)
                      /\ e # op[t].kind => Peer(e)' = Peer(e)
  BY <1>1, <1>2 DEF Alive, Peer, ClosersOf
<1>6. OneCloser'
  BY <1>2 DEF OneCloser
<1>7. readers' = Peer("read")' /\ writers' = Peer("write")'
  <2>1. CASE op[t].kind = "read"
    BY <1>4, <1>5, <2>1 DEF Lifetime, Ends, PipeTypeOK
  <2>2. CASE op[t].kind = "write"
    BY <1>4, <1>5, <2>2 DEF Lifetime, Ends, PipeTypeOK
  <2> QED
    BY <1>1, <2>1, <2>2 DEF Ends
<1>8. Lifetime'
  BY <1>5, <1>7 DEF Lifetime, Ends
<1>9. PipeTypeOK'
  BY <1>1, <1>8 DEF PipeTypeOK, Index, Lifetime, Peer
<1>10. Calls'
  BY <1>1 DEF Calls, CallOf, Holds, Transferring, Closing
<1>11. OnePublisher' /\ Mirrors' /\ RingIndex'
  BY <1>1 DEF OnePublisher, Mirrors, LockFree, RingIndex
<1>12. PipeNoLostWakeup'
  BY <1>1 DEF PipeNoLostWakeup, Wakers
<1> QED
  BY <1>6, <1>8, <1>9, <1>10, <1>11, <1>12

\* The last reference of an endpoint keeps the invariant: the endpoint is gone,
\* and the pipe too if it was the last one.
LEMMA CloseDropInv ==
    ASSUME PipeIInv, NEW t \in Threads, CloseDrop(t)
    PROVE  PipeIInv'
<1> USE DEF PipeIInv, CloseDrop, ring, mirrors, peers, Goto
<1>1. /\ pc' \in [Threads -> Labels] /\ pc[t] = "close_drop" /\ pc'[t] = "idle"
      /\ op' \in [Threads -> Ops] /\ op'[t] = NoOp /\ op[t].kind \in Ends
      /\ \A u \in Threads \ {t} : pc'[u] = pc[u] /\ op'[u] = op[u]
  BY PipeAssumption DEF PipeTypeOK, Labels, Ops, NoOp, Calls, CallOf, Closing
<1>2. PICK e \in Ends : op[t].kind = e
  BY <1>1
<1>3. t \in ClosersOf(e)
  BY <1>1, <1>2 DEF ClosersOf, Closing
<1>4. ClosersOf(e)' = {} /\ files[e] = {} /\ \A d \in Ends \ {e} : ClosersOf(d)' = ClosersOf(d)
  BY <1>1, <1>2, <1>3 DEF OneCloser, ClosersOf, Closing
<1>5. Alive(e) = 1 /\ Alive(e)' = 0 /\ Peer(e) = 0 /\ Peer(e)' = 0
  BY <1>1, <1>3, <1>4 DEF Alive, Peer, OneCloser
<1>6. \A d \in Ends \ {e} : Alive(d)' = Alive(d) /\ Peer(d)' = Peer(d)
  BY <1>1, <1>4 DEF Alive, Peer, ClosersOf
<1>7. OneCloser'
  BY <1>4 DEF OneCloser
<1>8. active_endpoints' = Alive("read")' + Alive("write")'
  <2>1. CASE e = "read"
    BY <1>5, <1>6, <2>1 DEF Lifetime, Ends, Alive
  <2>2. CASE e = "write"
    BY <1>5, <1>6, <2>2 DEF Lifetime, Ends, Alive
  <2> QED
    BY <2>1, <2>2 DEF Ends
<1>9. Lifetime'
  <2>1. readers' = Peer("read")' /\ writers' = Peer("write")'
    BY <1>5, <1>6 DEF Lifetime, Ends
  <2> QED
    BY <1>8, <2>1 DEF Lifetime
<1>10. PipeTypeOK'
  <2>1. active_endpoints' \in 0 .. 2
    <3>1. Alive("read")' \in 0 .. 1 /\ Alive("write")' \in 0 .. 1
      BY DEF Alive
    <3> HIDE DEF PipeIInv, CloseDrop
    <3> QED
      BY <1>8, <3>1
  <2>2. allocated' \in BOOLEAN
    OBVIOUS
  <2> QED
    BY <1>1, <2>1, <2>2 DEF PipeTypeOK, Index, Ops
<1>11. Calls'
  BY <1>1 DEF Calls, CallOf, Holds, Transferring, Closing
<1>12. OnePublisher' /\ RingIndex'
  BY <1>1 DEF OnePublisher, RingIndex
<1>13. Mirrors'
  <2>1. allocated' => allocated
    BY <1>5, <1>6 DEF Lifetime, Alive, Ends
  <2> QED
    BY <1>1, <2>1 DEF Mirrors, LockFree
<1>14. PipeNoLostWakeup'
  BY <1>1, SleepersKept DEF Wakers
<1> QED
  BY <1>7, <1>9, <1>10, <1>11, <1>12, <1>13, <1>14

-----------------------------------------------------------------------------
(* Invariance                                                              *)

\* The invariant holds before the first pipe.
LEMMA PipeInitInv == PipeInit => PipeIInv
<1> SUFFICES ASSUME PipeInit PROVE PipeIInv
  OBVIOUS
<1> USE PipeAssumption DEF PipeInit
<1>1. PipeTypeOK
  <2>1. NoOp \in Ops
    BY DEF Ops, NoOp
  <2>2. op \in [Threads -> Ops] /\ pc \in [Threads -> Labels] /\ signal \subseteq Threads
    BY <2>1 DEF Labels
  <2>3. buffer \in [Index -> Counts \cup {NoByte}] /\ 0 \in Index /\ 0 \in 0 .. PIPE_CAPACITY
    BY DEF Index
  <2>4. allocated \in BOOLEAN /\ files \in [Ends -> SUBSET Procs]
    OBVIOUS
  <2>5. /\ head \in Index /\ tail \in Index /\ count \in 0 .. PIPE_CAPACITY
        /\ data_bytes \in 0 .. PIPE_CAPACITY /\ space_bytes \in 0 .. PIPE_CAPACITY
        /\ readers \in 0 .. 1 /\ writers \in 0 .. 1 /\ active_endpoints \in 0 .. 2
    BY <2>3
  <2> QED
    BY <2>2, <2>3, <2>4, <2>5 DEF PipeTypeOK, Ops
<1>2. Calls /\ OnePublisher /\ Mirrors /\ PipeNoLostWakeup
  BY DEF Calls, CallOf, Transferring, Closing, OnePublisher, Mirrors, PipeNoLostWakeup
<1>3. \A e \in Ends : ClosersOf(e) = {} /\ files[e] = {}
  BY DEF ClosersOf, Closing
<1>4. OneCloser /\ Lifetime
  BY <1>3 DEF OneCloser, Lifetime, Peer, Alive, Ends
<1>5. RingIndex
  BY DEF RingIndex
<1> QED
  BY <1>1, <1>2, <1>4, <1>5 DEF PipeIInv

\* Every step keeps it.
LEMMA PipeStepInv == SingleThreaded /\ PipeIInv /\ [PipeNext]_pipeVars => PipeIInv'
<1> SUFFICES ASSUME SingleThreaded, PipeIInv, [PipeNext]_pipeVars PROVE PipeIInv'
  OBVIOUS
<1>1. CASE UNCHANGED pipeVars
  <2>1. PipeTypeOK' /\ Calls' /\ OnePublisher' /\ Mirrors' /\ OneCloser'
    BY <1>1 DEF PipeIInv, pipeVars, ring, mirrors, peers, life, PipeTypeOK, Index, Calls, CallOf, Holds,
                OnePublisher, Mirrors, LockFree, OneCloser, ClosersOf
  <2>2. Lifetime' /\ RingIndex' /\ PipeNoLostWakeup'
    BY <1>1 DEF PipeIInv, pipeVars, ring, mirrors, peers, life, Lifetime, Peer, Alive, ClosersOf,
                RingIndex, PipeNoLostWakeup, Blocked, HungUp, Wakers
  <2> QED
    BY <2>1, <2>2 DEF PipeIInv
<1>2. ASSUME NEW t \in Threads, Step(t) PROVE PipeIInv'
  <2>1. CASE process_signal_interrupt(t) \/ ReadEnd(t) \/ WriteBroken(t)
    BY <2>1, ReturnInv DEF process_signal_interrupt, ReadEnd, WriteBroken, InSection
  <2>2. CASE sched_wait_until(t) \/ WouldBlock(t) \/ Leave(t)
    BY <2>2, WaitInv, WouldBlockInv, LeaveInv
  <2>3. CASE ReadTransfer(t) \/ WriteTransfer(t) \/ pipe_publish(t) \/ TransferWake(t)
    BY <2>3, ReadTransferInv, WriteTransferInv, PublishInv, TransferWakeInv
  <2>4. CASE CloseEndpoint(t) \/ CloseWakeData(t) \/ CloseWakeSpace(t) \/ CloseDrop(t)
    BY <2>4, CloseEndpointInv, CloseWakeDataInv, CloseWakeSpaceInv, CloseDropInv
  <2> QED
    BY <1>2, <2>1, <2>2, <2>3, <2>4 DEF Step
<1>3. ASSUME NEW t \in Threads, Call(t) PROVE PipeIInv'
  BY <1>3, CreateInv, CloneInv, EnterInv, VfsCloseInv, SignalInv DEF Call
<1> QED
  BY <1>1, <1>2, <1>3 DEF PipeNext

\* The inductive invariant holds in every behaviour of the pipe, as long as no
\* two threads share a descriptor table.
THEOREM PipeInvariance == SingleThreaded /\ PipeSpec => []PipeIInv
<1> DEFINE Kept == SingleThreaded /\ PipeIInv
<1>1. SingleThreaded /\ PipeInit => Kept
  BY PipeInitInv
<1>2. Kept /\ [PipeNext]_pipeVars => Kept'
  BY PipeStepInv DEF SingleThreaded
<1> QED
  BY <1>1, <1>2, PTL DEF PipeSpec

\* With one thread per process, the ring's indices and counts and the endpoint
\* counters never leave their bounds, for every ring size, PIPE_BUF and number
\* of processes.
THEOREM PipeTypes == SingleThreaded /\ PipeSpec => []PipeTypeOK
<1>1. PipeIInv => PipeTypeOK
  BY DEF PipeIInv
<1> QED
  BY <1>1, PipeInvariance, PTL

\* With one thread per process, nobody sleeps in pipe_read or pipe_write on
\* bytes, room, a hang-up or a signal that no pending wake-up announces.
THEOREM PipeWakeups == SingleThreaded /\ PipeSpec => []PipeNoLostWakeup
<1>1. PipeIInv => PipeNoLostWakeup
  BY DEF PipeIInv
<1> QED
  BY <1>1, PipeInvariance, PTL

\* With one thread per process, the pipe is freed only when no call, no pending
\* wake-up of a closing end and no descriptor can reach it.  Of processes whose
\* threads share a descriptor table it says nothing: there it is false.
THEOREM SingleThreadedLifetime == PipeSpec => []SingleThreadedNoUseAfterFree
<1> DEFINE Kept == SingleThreaded => PipeIInv
<1>1. PipeInit => Kept
  BY PipeInitInv
<1>2. Kept /\ [PipeNext]_pipeVars => Kept'
  BY PipeStepInv DEF SingleThreaded
<1>3. Kept => SingleThreadedNoUseAfterFree
  BY Unreferenced DEF SingleThreadedNoUseAfterFree
<1> QED
  BY <1>1, <1>2, <1>3, PTL DEF PipeSpec

-----------------------------------------------------------------------------
(* Refinement of the stream: what lies between tail and head               *)

\* The bytes written and not yet read: what Promise substitutes for stream.
Bytes == [k \in 1 .. count |-> buffer[(tail + k - 1) % PIPE_CAPACITY]]
Byte == Counts \cup {NoByte}

\* Different distances from an index are different places of the ring.
LEMMA WrapInjective ==
    ASSUME NEW a \in Index, NEW m \in Index, NEW n \in Index, m # n
    PROVE  Advance(a, m) # Advance(a, n)
<1> USE PipeAssumption DEF Index
<1>1. m \in 0 .. PIPE_CAPACITY /\ n \in 0 .. PIPE_CAPACITY
  OBVIOUS
<1>2. Advance(a, m) = IF a + m < PIPE_CAPACITY THEN a + m ELSE a + m - PIPE_CAPACITY
  BY <1>1, Wrap
<1>3. Advance(a, n) = IF a + n < PIPE_CAPACITY THEN a + n ELSE a + n - PIPE_CAPACITY
  BY <1>1, Wrap
<1> QED
  BY <1>2, <1>3

\* The pending bytes, one by one.
LEMMA BytesAt ==
    ASSUME PipeIInv
    PROVE  /\ Bytes \in Seq(Byte) /\ Len(Bytes) = count
           /\ \A k \in 1 .. count : Bytes[k] = buffer[Advance(tail, k - 1)]
           /\ tail \in Index /\ count \in 0 .. PIPE_CAPACITY
<1> USE PipeAssumption DEF PipeIInv, PipeTypeOK
<1>1. tail \in Index /\ count \in 0 .. PIPE_CAPACITY /\ buffer \in [Index -> Byte]
  BY DEF Byte
<1>2. ASSUME NEW k \in 1 .. count
      PROVE  /\ Bytes[k] = buffer[Advance(tail, k - 1)]
             /\ Bytes[k] \in Byte
  <2>1. tail + k - 1 = tail + (k - 1) /\ k - 1 \in 0 .. PIPE_CAPACITY
    BY <1>1 DEF Index
  <2>2. Bytes[k] = buffer[Advance(tail, k - 1)]
    BY <2>1 DEF Bytes, Advance
  <2>3. Advance(tail, k - 1) \in Index
    BY <1>1, <2>1, Wrap DEF Index
  <2> QED
    BY <1>1, <2>2, <2>3
<1>3. Bytes \in [1 .. count -> Byte]
  BY <1>2 DEF Bytes
<1>4. Bytes \in Seq(Byte) /\ Len(Bytes) = count
  BY <1>1, <1>3
<1> QED
  BY <1>1, <1>2, <1>4

\* The two memcpy calls of pipe_read copy the first n pending bytes, and what
\* stays in the ring is the rest.
LEMMA ReadBytes ==
    ASSUME PipeIInv, NEW n \in 1 .. count,
           tail' = Advance(tail, n), count' = count - n, buffer' = buffer
    PROVE  /\ CopyOut(n) = SubSeq(Bytes, 1, n)
           /\ Bytes' = SubSeq(Bytes, n + 1, count)
<1> USE PipeAssumption
<1>1. tail \in Index /\ count \in 0 .. PIPE_CAPACITY /\ Len(Bytes) = count /\ Bytes \in Seq(Byte)
  BY BytesAt
<1>2. ASSUME NEW i \in 1 .. n PROVE CopyOut(n)[i] = Bytes[i]
  <2>1. Bytes[i] = buffer[Advance(tail, i - 1)]
    BY <1>1, BytesAt
  <2>2. CASE tail + (i - 1) < PIPE_CAPACITY
    <3>1. Advance(tail, i - 1) = tail + i - 1
      BY <1>1, <2>2, Wrap DEF Index
    <3> QED
      BY <1>1, <2>1, <2>2, <3>1 DEF CopyOut, Smaller, Index
  <2>3. CASE tail + (i - 1) >= PIPE_CAPACITY
    <3>1. Advance(tail, i - 1) = tail + i - 1 - PIPE_CAPACITY
      BY <1>1, <2>3, Wrap DEF Index
    <3>2. Smaller(PIPE_CAPACITY - tail, n) = PIPE_CAPACITY - tail
      BY <1>1, <2>3 DEF Smaller, Index
    <3>3. i - (PIPE_CAPACITY - tail) - 1 = tail + i - 1 - PIPE_CAPACITY /\ i > PIPE_CAPACITY - tail
      BY <1>1, <2>3 DEF Index
    <3> QED
      BY <1>1, <2>1, <3>1, <3>2, <3>3 DEF CopyOut, Index
  <2> QED
    BY <1>1, <2>2, <2>3 DEF Index
<1>3. CopyOut(n) = SubSeq(Bytes, 1, n)
  <2>1. CopyOut(n) = [i \in 1 .. n |-> CopyOut(n)[i]]
    BY DEF CopyOut
  <2>2. SubSeq(Bytes, 1, n) = [i \in 1 .. n |-> Bytes[i]]
    BY <1>1
  <2> QED
    BY <1>2, <2>1, <2>2
<1>4. ASSUME NEW k \in 1 .. count - n PROVE Bytes'[k] = Bytes[k + n]
  <2>1. Bytes[k + n] = buffer[Advance(tail, n + (k - 1))]
    BY <1>1, BytesAt
  <2>2. Advance(Advance(tail, n), k - 1) = Advance(tail, n + (k - 1))
    BY <1>1, WrapSum
  <2>3. Bytes'[k] = buffer[(tail' + k - 1) % PIPE_CAPACITY]
    BY DEF Bytes
  <2>4. tail' + k - 1 = tail' + (k - 1)
    BY <1>1, Wrap DEF Index
  <2> QED
    BY <2>1, <2>2, <2>3, <2>4 DEF Advance
<1>5. Bytes' = SubSeq(Bytes, n + 1, count)
  <2>1. Bytes' = [k \in 1 .. count - n |-> Bytes'[k]]
    BY DEF Bytes
  <2>2. SubSeq(Bytes, n + 1, count) = [k \in 1 .. count - n |-> Bytes[k + n]]
    BY <1>1
  <2> QED
    BY <1>4, <2>1, <2>2
<1> QED
  BY <1>3, <1>5

\* The two memcpy calls of pipe_write put the i-th byte i - 1 places after head
\* and touch nothing else.
LEMMA CopyInAt ==
    ASSUME NEW n \in 1 .. PIPE_CAPACITY, head \in Index
    PROVE  /\ \A j \in 0 .. n - 1 : CopyIn(n)[Advance(head, j)] = j + 1
           /\ \A i \in Index : (\A j \in 0 .. n - 1 : i # Advance(head, j)) => CopyIn(n)[i] = buffer[i]
<1> USE PipeAssumption DEF Index
<1> DEFINE first == Smaller(PIPE_CAPACITY - head, n)
<1>1. /\ first \in 1 .. n
      /\ first = n => head + n <= PIPE_CAPACITY
      /\ first # n => first = PIPE_CAPACITY - head /\ n > PIPE_CAPACITY - head
  BY DEF Smaller
<1>2. \A i \in Index :
          /\ i \in head .. head + first - 1 => CopyIn(n)[i] = Payload(n)[i - head + 1]
          /\ i \notin head .. head + first - 1 /\ i \in 0 .. n - first - 1
               => CopyIn(n)[i] = Payload(n)[first + i + 1]
          /\ i \notin head .. head + first - 1 /\ i \notin 0 .. n - first - 1
               => CopyIn(n)[i] = buffer[i]
  <2>1. \A i \in 0 .. n - first - 1 : i \notin head .. head + first - 1
    BY <1>1
  <2> HIDE DEF first
  <2> QED
    BY <2>1 DEF CopyIn, first
<1> HIDE DEF first
<1>3. ASSUME NEW j \in 0 .. n - 1 PROVE CopyIn(n)[Advance(head, j)] = j + 1
  <2>1. CASE j < first
    <3>1. Advance(head, j) = head + j /\ head + j \in Index
      BY <1>1, <2>1, Wrap
    <3>2. head + j \in head .. head + first - 1 /\ head + j - head + 1 = j + 1
      BY <1>1, <2>1
    <3>3. CopyIn(n)[head + j] = Payload(n)[j + 1]
      BY <1>2, <3>1, <3>2
    <3> QED
      BY <3>1, <3>3 DEF Payload
  <2>2. CASE j >= first
    <3>1. first = PIPE_CAPACITY - head
      BY <1>1, <2>2
    <3>2. Advance(head, j) = j - first /\ j - first \in Index
      BY <1>1, <2>2, <3>1, Wrap
    <3>3. j - first < head
      BY <1>1, <3>1
    <3>4. /\ j - first \in 0 .. n - first - 1 /\ first + (j - first) + 1 = j + 1
          /\ j - first \notin head .. head + first - 1
      BY <1>1, <2>2, <3>3
    <3>5. CopyIn(n)[j - first] = Payload(n)[j + 1]
      BY <1>2, <3>2, <3>4
    <3> QED
      BY <1>1, <3>2, <3>5 DEF Payload
  <2> QED
    BY <1>1, <2>1, <2>2
<1>4. ASSUME NEW i \in Index, \A j \in 0 .. n - 1 : i # Advance(head, j)
      PROVE  CopyIn(n)[i] = buffer[i]
  <2>1. i \notin head .. head + first - 1
    <3> SUFFICES ASSUME i \in head .. head + first - 1 PROVE FALSE
      OBVIOUS
    <3>1. i - head \in 0 .. n - 1 /\ head + (i - head) = i
      BY <1>1
    <3>2. Advance(head, i - head) = i
      BY <1>1, <3>1, Wrap
    <3> QED
      BY <1>4, <3>1, <3>2
  <2>2. i \notin 0 .. n - first - 1
    <3> SUFFICES ASSUME i \in 0 .. n - first - 1 PROVE FALSE
      OBVIOUS
    <3>1. first = PIPE_CAPACITY - head /\ first + i \in 0 .. n - 1
      BY <1>1
    <3>2. Advance(head, first + i) = i
      BY <1>1, <3>1, Wrap
    <3> QED
      BY <1>4, <3>1, <3>2
  <2> QED
    BY <1>2, <2>1, <2>2
<1> QED
  BY <1>3, <1>4

\* A write appends its payload to the pending bytes.
LEMMA WriteBytes ==
    ASSUME PipeIInv, NEW n \in 1 .. PIPE_CAPACITY - count,
           tail' = tail, count' = count + n, buffer' = CopyIn(n)
    PROVE  Bytes' = Bytes \o Payload(n)
<1> USE PipeAssumption
<1>1. /\ tail \in Index /\ count \in 0 .. PIPE_CAPACITY /\ Len(Bytes) = count /\ Bytes \in Seq(Byte)
      /\ head \in Index /\ head = Advance(tail, count)
  BY BytesAt DEF PipeIInv, PipeTypeOK, RingIndex, Advance
<1>2. n \in 1 .. PIPE_CAPACITY
  BY <1>1
<1>3. ASSUME NEW k \in 1 .. count + n
      PROVE  Bytes'[k] = CopyIn(n)[Advance(tail, k - 1)]
  <2>1. tail + k - 1 = tail + (k - 1)
    BY <1>1 DEF Index
  <2> QED
    BY <2>1 DEF Bytes, Advance
<1>4. ASSUME NEW j \in 0 .. n - 1 PROVE Advance(head, j) = Advance(tail, count + j)
  BY <1>1, WrapSum
<1>5. ASSUME NEW k \in 1 .. count PROVE Bytes'[k] = Bytes[k]
  <2>1. k - 1 \in Index /\ k - 1 \in 0 .. PIPE_CAPACITY
    BY <1>1 DEF Index
  <2>2. ASSUME NEW j \in 0 .. n - 1 PROVE Advance(tail, k - 1) # Advance(head, j)
    <3>1. count + j \in Index /\ k - 1 # count + j
      BY <1>1 DEF Index
    <3> QED
      BY <1>1, <1>4, <2>1, <3>1, WrapInjective
  <2>3. Advance(tail, k - 1) \in Index
    BY <1>1, <2>1, Wrap DEF Index
  <2>4. CopyIn(n)[Advance(tail, k - 1)] = buffer[Advance(tail, k - 1)]
    BY <1>1, <1>2, <2>2, <2>3, CopyInAt
  <2> QED
    BY <1>1, <1>3, <2>4, BytesAt
<1>6. ASSUME NEW j \in 1 .. n, NEW k \in 1 .. count + n, k = count + j PROVE Bytes'[k] = j
  <2>1. j - 1 \in 0 .. n - 1 /\ k - 1 = count + (j - 1)
    BY <1>1, <1>6
  <2>2. CopyIn(n)[Advance(head, j - 1)] = j - 1 + 1
    BY <1>1, <1>2, <2>1, CopyInAt
  <2>3. Bytes'[k] = CopyIn(n)[Advance(tail, count + (j - 1))]
    BY <1>3, <2>1
  <2> QED
    BY <1>4, <2>1, <2>2, <2>3
<1>7. Bytes' = [k \in 1 .. count + n |-> Bytes'[k]]
  BY DEF Bytes
<1>8. Bytes \o Payload(n) = [k \in 1 .. count + n |-> IF k <= count THEN Bytes[k] ELSE k - count]
  BY <1>1, <1>2 DEF Payload
<1>9. ASSUME NEW k \in 1 .. count + n
      PROVE  Bytes'[k] = IF k <= count THEN Bytes[k] ELSE k - count
  <2>1. CASE k <= count
    BY <1>1, <1>5, <2>1
  <2>2. CASE k > count
    <3>1. k - count \in 1 .. n /\ count + (k - count) = k
      BY <1>1, <2>2
    <3> QED
      BY <1>1, <1>6, <2>2, <3>1
  <2> QED
    BY <1>1, <2>1, <2>2
<1> QED
  BY <1>7, <1>8, <1>9

-----------------------------------------------------------------------------
(* Every step of the pipe is a step of the stream, or none                 *)

Asked == [t \in Threads |-> op[t].count]
OpenEnds == {e \in Ends : IF e = "read" THEN readers > 0 ELSE writers > 0}

\* A step that changes no byte, count, result or request is none of the stream's.
LEMMA StreamStutter ==
    ASSUME UNCHANGED <<ring, peers, answer>>, \A t \in Threads : op'[t].count = op[t].count
    PROVE  UNCHANGED Promise!streamVars
<1>1. Bytes' = Bytes /\ Asked' = Asked /\ OpenEnds' = OpenEnds
  BY DEF Bytes, Asked, OpenEnds, ring, peers
<1> QED
  BY <1>1 DEF Promise!streamVars, Bytes, Asked, OpenEnds

\* The initial states correspond.
LEMMA StreamInitStep == PipeInit => Promise!StreamInit
<1> SUFFICES ASSUME PipeInit PROVE Promise!StreamInit
  OBVIOUS
<1>1. Bytes = <<>>
  BY DEF PipeInit, Bytes
<1>2. OpenEnds = {}
  BY DEF PipeInit, OpenEnds
<1>3. Asked = [t \in Threads |-> 0]
  BY DEF PipeInit, Asked, NoOp
<1> QED
  BY <1>1, <1>2, <1>3 DEF Promise!StreamInit, Promise!None, PipeInit, None, Bytes, OpenEnds, Asked

\* A read takes the first bytes of the stream, all it asked for or all there are.
LEMMA ReadTakes ==
    ASSUME PipeIInv, NEW t \in Threads, ReadTransfer(t)
    PROVE  Promise!Take(t)
<1> USE DEF ReadTransfer, InSection
<1> DEFINE n == Smaller(op[t].count, count)
<1>1. /\ n \in 1 .. count /\ op[t].count \in Counts /\ n \in 1 .. op[t].count
      /\ n < op[t].count => n = count
      /\ count \in Nat /\ answer[t] = None
  BY RingFacts, PipeAssumption DEF Smaller, Counts, PipeIInv, Calls, CallOf
<1>2. /\ tail' = Advance(tail, n) /\ count' = count - n /\ buffer' = buffer
      /\ answer' = [answer EXCEPT ![t] = [status |-> "ok", bytes |-> CopyOut(n)]]
  OBVIOUS
<1> HIDE DEF n
<1>3. CopyOut(n) = SubSeq(Bytes, 1, n) /\ Bytes' = SubSeq(Bytes, n + 1, count) /\ Len(Bytes) = count
  BY <1>1, <1>2, ReadBytes, BytesAt
<1>4. Asked' = Asked /\ OpenEnds' = OpenEnds /\ Asked[t] = op[t].count
  BY DEF Asked, OpenEnds, peers
<1>5. answer' = [answer EXCEPT ![t] = Promise!Transferred(SubSeq(Bytes, 1, n))]
  BY <1>2, <1>3 DEF Promise!Transferred
<1>6. /\ answer[t] = Promise!None /\ n \in 1 .. Asked[t] /\ n <= Len(Bytes)
      /\ n < Asked[t] => n = Len(Bytes)
      /\ Bytes' = SubSeq(Bytes, n + 1, Len(Bytes))
  BY <1>1, <1>3, <1>4 DEF Promise!None, None
<1> QED
  BY <1>4, <1>5, <1>6 DEF Promise!Take, Bytes, Asked, OpenEnds

\* A write puts its first bytes at the end of the stream, all of them when they
\* are no more than PIPE_BUF.
LEMMA WritePuts ==
    ASSUME PipeIInv, NEW t \in Threads, WriteTransfer(t)
    PROVE  Promise!Put(t)
<1> USE DEF WriteTransfer, InSection
<1> DEFINE n == Smaller(op[t].count, PIPE_CAPACITY - count)
<1>1. /\ n \in 1 .. PIPE_CAPACITY - count /\ n \in 1 .. op[t].count
      /\ op[t].count <= PIPE_BUF => n = op[t].count
      /\ answer[t] = None /\ count \in Nat /\ op[t].count \in Nat
  BY RingFacts, PipeAssumption DEF Smaller, Counts, Fits, PipeIInv, Calls, CallOf
<1>2. /\ tail' = tail /\ count' = count + n /\ buffer' = CopyIn(n)
      /\ answer' = [answer EXCEPT ![t] = [status |-> "ok", bytes |-> Payload(n)]]
  OBVIOUS
<1> HIDE DEF n
<1>3. Bytes' = Bytes \o Payload(n) /\ Len(Bytes) = count
  BY <1>1, <1>2, WriteBytes, BytesAt
<1>4. Asked' = Asked /\ OpenEnds' = OpenEnds /\ Asked[t] = op[t].count
  BY DEF Asked, OpenEnds, peers
<1>5. "read" \in OpenEnds
  BY DEF OpenEnds, Ends, PipeIInv, PipeTypeOK
<1>6. Promise!Payload(n) = Payload(n)
  BY DEF Promise!Payload, Payload
<1>7. answer' = [answer EXCEPT ![t] = Promise!Transferred(Promise!Payload(n))]
  BY <1>2, <1>6 DEF Promise!Transferred
<1>8. /\ answer[t] = Promise!None /\ n \in 1 .. Asked[t] /\ n <= PIPE_CAPACITY - Len(Bytes)
      /\ Asked[t] <= PIPE_BUF => n = Asked[t]
      /\ Bytes' = Bytes \o Promise!Payload(n)
  BY <1>1, <1>3, <1>4, <1>6 DEF Promise!None, None
<1> QED
  BY <1>4, <1>5, <1>7, <1>8 DEF Promise!Put, Bytes, Asked, OpenEnds

\* A refusal of the pipe is one of the stream, for the same reason.
LEMMA RefusalRefuses ==
    ASSUME PipeIInv, NEW t \in Threads, pc[t] = "loop", NEW s, Return(t, Status(s)),
           UNCHANGED <<ring, mirrors, peers, life>>,
           \/ s = "EOF" /\ count = 0 /\ writers = 0
           \/ s = "EPIPE" /\ readers = 0
           \/ s \in {"EINTR", "EAGAIN"}
    PROVE  Promise!Refuse(t)
<1>1. Bytes' = Bytes /\ OpenEnds' = OpenEnds /\ Asked' = Asked
  BY DEF Bytes, OpenEnds, Asked, ring, peers, Return
<1>2. answer' = [answer EXCEPT ![t] = Promise!Status(s)] /\ answer[t] = Promise!None
  BY DEF Return, Status, Promise!Status, Promise!None, None, PipeIInv, Calls, CallOf
<1>3. CASE s = "EOF" /\ count = 0 /\ writers = 0
  <2>1. Bytes = <<>> /\ "write" \notin OpenEnds
    BY <1>3 DEF Bytes, OpenEnds
  <2> QED
    BY <1>1, <1>2, <1>3, <2>1 DEF Promise!Refuse, Bytes, OpenEnds, Asked
<1>4. CASE s = "EPIPE" /\ readers = 0
  <2>1. "read" \notin OpenEnds
    BY <1>4 DEF OpenEnds
  <2> QED
    BY <1>1, <1>2, <1>4, <2>1 DEF Promise!Refuse, Bytes, OpenEnds, Asked
<1>5. CASE s \in {"EINTR", "EAGAIN"}
  BY <1>1, <1>2, <1>5 DEF Promise!Refuse, Bytes, OpenEnds, Asked
<1> QED
  BY <1>3, <1>4, <1>5

\* A return to user mode hands the result over.
LEMMA ReturnHandsOver ==
    ASSUME PipeIInv, NEW t \in Threads, HandOver(t), UNCHANGED <<ring, peers>>
    PROVE  Promise!HandOver(t)
<1>1. Bytes' = Bytes /\ OpenEnds' = OpenEnds
  BY DEF Bytes, OpenEnds, ring, peers
<1>2. Asked' = [Asked EXCEPT ![t] = 0]
  BY DEF Asked, HandOver, NoOp, PipeIInv, PipeTypeOK
<1>3. answer' = [answer EXCEPT ![t] = Promise!None]
  BY DEF HandOver, None, Promise!None
<1> QED
  BY <1>1, <1>2, <1>3 DEF Promise!HandOver, Bytes, OpenEnds, Asked

\* A hang-up of the pipe is one of the stream.
LEMMA CloseHangsUp ==
    ASSUME PipeIInv, NEW t \in Threads, CloseEndpoint(t)
    PROVE  \E e \in Ends : Promise!HangUp(e)
<1> USE DEF CloseEndpoint
<1>1. PICK e \in Ends : op[t].kind = e
  BY DEF PipeIInv, Calls, CallOf, Closing
<1>2. t \in ClosersOf(e)
  BY <1>1 DEF ClosersOf, Closing
<1>3. Peer(e) = 1
  BY <1>2 DEF Peer
<1>4. /\ e = "read" => readers = 1 /\ readers' = 0 /\ writers' = writers
      /\ e = "write" => writers = 1 /\ writers' = 0 /\ readers' = readers
  BY <1>1, <1>3 DEF PipeIInv, PipeTypeOK, Lifetime
<1>5. e \in OpenEnds /\ OpenEnds' = OpenEnds \ {e}
  BY <1>4 DEF OpenEnds, Ends
<1>6. Bytes' = Bytes /\ Asked' = Asked /\ answer' = answer
  BY DEF Bytes, Asked, ring
<1> QED
  BY <1>5, <1>6 DEF Promise!HangUp, Bytes, OpenEnds, Asked

\* A new pipe is a new stream.
LEMMA CreateOpens ==
    ASSUME PipeIInv, NEW t \in Threads, pipe_create(t)
    PROVE  Promise!Open
<1> USE DEF pipe_create
<1>1. Alive("read") + Alive("write") = 0
  BY DEF PipeIInv, Lifetime
<1>2. readers = 0 /\ writers = 0
  BY <1>1 DEF Alive, Peer, PipeIInv, Lifetime
<1>3. OpenEnds = {} /\ OpenEnds' = Ends
  BY <1>2 DEF OpenEnds
<1>4. Bytes' = <<>>
  BY DEF Bytes
<1>5. Asked' = Asked /\ answer' = answer
  BY DEF Asked
<1> QED
  BY <1>3, <1>4, <1>5 DEF Promise!Open, Promise!Ends, Ends, Bytes, OpenEnds, Asked

\* A call asks for its bytes.
LEMMA EnterAsks ==
    ASSUME PipeIInv, NEW t \in Threads, NEW e \in Ends, Enter(t, e)
    PROVE  \E k \in Counts : Promise!Ask(t, k)
<1> USE DEF Enter
<1>1. PICK k \in Counts, b \in Modes :
          op' = [op EXCEPT ![t] = [kind |-> e, count |-> k, nonblock |-> b]]
  OBVIOUS
<1>2. Asked' = [Asked EXCEPT ![t] = k]
  BY <1>1 DEF Asked, PipeIInv, PipeTypeOK
<1>3. Asked[t] = 0
  BY DEF Asked, PipeIInv, Calls, CallOf, NoOp
<1>4. Bytes' = Bytes /\ OpenEnds' = OpenEnds /\ answer' = answer
  BY DEF Bytes, OpenEnds, ring, peers
<1> QED
  BY <1>2, <1>3, <1>4 DEF Promise!Ask, Bytes, OpenEnds, Asked

\* Every step of the pipe is a step of the stream or leaves it alone.
LEMMA StreamSimulation ==
    PipeIInv /\ [PipeNext]_pipeVars => [Promise!StreamNext]_Promise!streamVars
<1> SUFFICES ASSUME PipeIInv, [PipeNext]_pipeVars
             PROVE  Promise!StreamNext \/ UNCHANGED Promise!streamVars
  OBVIOUS
<1> USE DEF Promise!StreamNext
<1>1. CASE UNCHANGED pipeVars
  BY <1>1, StreamStutter DEF pipeVars
<1>2. ASSUME NEW t \in Threads, Step(t)
      PROVE  Promise!StreamNext \/ UNCHANGED Promise!streamVars
  <2>1. CASE process_signal_interrupt(t)
    BY <2>1, RefusalRefuses DEF process_signal_interrupt
  <2>2. CASE ReadEnd(t) \/ WriteBroken(t)
    BY <2>2, RefusalRefuses DEF ReadEnd, WriteBroken, InSection, HungUp
  <2>3. CASE WouldBlock(t)
    <3>1. CASE op[t].nonblock
      BY <2>3, <3>1, RefusalRefuses DEF WouldBlock, InSection
    <3>2. CASE ~op[t].nonblock
      BY <2>3, <3>2, StreamStutter DEF WouldBlock
    <3> QED
      BY <3>1, <3>2
  <2>4. CASE Leave(t) \/ TransferWake(t)
    BY <2>4, ReturnHandsOver DEF Leave, TransferWake
  <2>5. CASE ReadTransfer(t) \/ WriteTransfer(t)
    BY <2>5, ReadTakes, WritePuts
  <2>6. CASE CloseEndpoint(t)
    BY <2>6, CloseHangsUp DEF Promise!Ends, Ends
  <2>7. CASE sched_wait_until(t) \/ pipe_publish(t) \/ CloseWakeData(t) \/ CloseWakeSpace(t)
    BY <2>7, StreamStutter DEF sched_wait_until, pipe_publish, CloseWakeData, CloseWakeSpace
  <2>8. CASE CloseDrop(t)
    <3>1. \A u \in Threads : op'[u].count = op[u].count
      BY <2>8 DEF CloseDrop, NoOp, PipeIInv, PipeTypeOK, Calls, CallOf, Closing
    <3> QED
      BY <2>8, <3>1, StreamStutter DEF CloseDrop
  <2> QED
    BY <1>2, <2>1, <2>2, <2>3, <2>4, <2>5, <2>6, <2>7, <2>8 DEF Step
<1>3. ASSUME NEW t \in Threads, Call(t)
      PROVE  Promise!StreamNext \/ UNCHANGED Promise!streamVars
  <2>1. CASE pipe_create(t)
    BY <2>1, CreateOpens
  <2>2. ASSUME NEW e \in Ends, Enter(t, e)
        PROVE  Promise!StreamNext
    BY <2>2, EnterAsks DEF Promise!Counts, Counts
  <2>3. ASSUME NEW p \in Procs, fd_clone_table(t, p)
        PROVE  UNCHANGED Promise!streamVars
    BY <2>3, StreamStutter DEF fd_clone_table
  <2>4. CASE thread_wake_for_signal(t)
    BY <2>4, StreamStutter DEF thread_wake_for_signal
  <2>5. ASSUME NEW e \in Ends, vfs_close(t, e)
        PROVE  UNCHANGED Promise!streamVars
    <3>1. \A u \in Threads : op'[u].count = op[u].count
      <4>1. op[t].count = 0 /\ op \in [Threads -> Ops]
        BY <2>5 DEF vfs_close, NoOp, PipeIInv, PipeTypeOK, Ops, Calls, CallOf
      <4>2. CASE files'[e] = {}
        <5>1. op' = [op EXCEPT ![t] = [kind |-> e, count |-> 0, nonblock |-> FALSE]]
          BY <2>5, <4>2 DEF vfs_close
        <5> QED
          BY <4>1, <5>1
      <4>3. CASE files'[e] # {}
        BY <2>5, <4>3 DEF vfs_close
      <4> QED
        BY <4>2, <4>3
    <3> QED
      BY <2>5, <3>1, StreamStutter DEF vfs_close
  <2> QED
    BY <1>3, <2>1, <2>2, <2>3, <2>4, <2>5 DEF Call
<1> QED
  BY <1>1, <1>2, <1>3 DEF PipeNext

\* With one thread per process, the ring keeps the promise of pipe.h: first in
\* first out with no byte lost, repeated or misplaced, atomic writes of up to
\* PIPE_BUF bytes, end of file and EPIPE only after the hang-ups.
THEOREM PipeRefinesStream == SingleThreaded /\ PipeSpec => ImplementsStream
<1>1. SingleThreaded /\ PipeSpec => Promise!StreamSpec
  BY StreamInitStep, StreamSimulation, PipeInvariance, PTL DEF PipeSpec, Promise!StreamSpec
<1> QED
  BY <1>1 DEF ImplementsStream
=============================================================================
