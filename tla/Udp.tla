------------------------------- MODULE Udp -------------------------------
(***************************************************************************)
(* UDP send and receive on one socket: the system call                     *)
(* (net/net_socket_syscall.c), the typed requests and their payload slabs  *)
(* (net/net_udp_owner.c), the socket's operations (net/net_socket.c) and   *)
(* the transmission behind them (net/net_ipv4.c), run by the network       *)
(* worker (net/net.c).                                                     *)
(*                                                                         *)
(* Caller and worker share a request record and a slab: the worker offers  *)
(* the slab with a lease of a second, the caller pins it, copies and       *)
(* commits, and the worker may take back an offer that is not pinned.      *)
(*                                                                         *)
(* The transport below is Handoff.tla.  Here it is reduced to the states   *)
(* of its slots: a registered caller's slot is never recycled              *)
(* (HandoffProofs), and what happens on the way to QUEUED is NetControl's. *)
(* Calls are numbered, and so are the datagrams that arrive; a datagram    *)
(* that is sent is the number of its call.  Time appears as the choice of  *)
(* a step to find a lease, a deadline or a transmission expired.           *)
(***************************************************************************)
EXTENDS Integers, Sequences, FiniteSets

CONSTANTS Actors,
          HANDOFF_SLOTS,
          Slabs,               \* the payload slabs, 8 in the code
          NoSlab,              \* slab -1
          NET_SOCKET_RX_MAX,
          Batch,               \* 8: requests claimed, and pending ones served, per turn
          MaxCalls,            \* bound: calls made
          MaxArrivals,         \* bound: datagrams queued
          MaxSignals           \* bound: signals sent

ASSUME UdpAssumption ==
    /\ HANDOFF_SLOTS \in Nat \ {0} /\ NET_SOCKET_RX_MAX \in Nat \ {0} /\ Batch \in Nat \ {0}
    /\ MaxCalls \in Nat /\ MaxArrivals \in Nat /\ MaxSignals \in Nat
    /\ IsFiniteSet(Slabs) /\ NoSlab \notin Slabs

VARIABLES pc,        \* per actor: where it is in its system call
          reg,       \* per actor: the slot of its registration, or 0
          buf,       \* per actor: the user's buffer of a receive
          sig,       \* actors with a pending signal
          signals,   \* signals sent so far
          ret,       \* per call made: its status, and the datagram it received
          slot,      \* per slot: the transport's state
          v,         \* per slot: udp_request_t
          pool,      \* the slabs: used, their contents; the slots with a ticket for
                     \* one (waiting), and pairs of them whose first is the older
          sock,      \* the socket, and the IPv4 engine's entry for it
          wire,      \* per call: datagrams transmitted, and if the link was lost with one
          arrivals,  \* datagrams queued so far
          turn       \* the worker: phase of its turn, and the step in progress

call == <<pc, reg, buf, sig, signals, ret>>
transport == <<slot, v, pool>>
network == <<sock, wire, arrivals>>
vars == <<call, transport, network, turn>>

Slots == 1 .. HANDOFF_SLOTS
NoReply == "none"
FreeSlot == [state |-> "FREE", caller |-> FALSE, cancel |-> FALSE, cleaned |-> FALSE,
             reply |-> NoReply]
\* id stands for the generation of the slot and for the token of its operation.
Request(id, kind, nb) ==
    [id |-> id, kind |-> kind, nonblocking |-> nb, phase |-> "IO", pin |-> FALSE,
     slab |-> NoSlab, active |-> FALSE]
NoRequest == Request(0, "none", FALSE)

\* operation_t: token 0 is a free operation; data is what a send submits.
NoOp == [token |-> 0, published |-> FALSE, done |-> FALSE, result |-> NoReply, data |-> 0]
\* s_udp and s_pending of the socket.
NoEntry == [token |-> 0, active |-> FALSE, done |-> FALSE, result |-> NoReply, data |-> 0]
NoStep == [s |-> 0, p |-> "none", cancel |-> FALSE, expiry |-> FALSE]

Init ==
    /\ pc = [a \in Actors |-> "idle"] /\ reg = [a \in Actors |-> 0]
    /\ buf = [a \in Actors |-> 0] /\ sig = {} /\ signals = 0 /\ ret = <<>>
    /\ slot = [s \in Slots |-> FreeSlot] /\ v = [s \in Slots |-> NoRequest]
    /\ pool = [used |-> {}, payload |-> [b \in Slabs |-> 0],
               waiting |-> {}, older |-> {}]
    /\ sock = [rx |-> <<>>, receive |-> NoOp, tx |-> NoOp, ip |-> NoEntry, online |-> TRUE]
    /\ wire = [c \in 1 .. MaxCalls |-> [sent |-> 0, down |-> FALSE]]
    /\ arrivals = 0
    /\ turn = [phase |-> "protocols", n |-> 0, cursor |-> HANDOFF_SLOTS, step |-> NoStep]

--------------------------------------------------------------------------
(* The system call *)

Goto(a, l) == pc' = [pc EXCEPT ![a] = l]
Rec(a) == v[reg[a]]
Completed(a) == slot[reg[a]].state = "COMPLETED"

\* net_tcp_owner_begin: the first FREE slot, its record, and its publication.
net_udp_begin(a, kind, nb) ==
    /\ pc[a] = "idle" /\ Len(ret) < MaxCalls
    /\ kind = "send" => ~nb
    /\ \E s \in Slots :
         /\ slot[s].state = "FREE" /\ \A w \in 1 .. s - 1 : slot[w].state # "FREE"
         /\ slot' = [slot EXCEPT ![s] = [FreeSlot EXCEPT !.state = "QUEUED", !.caller = TRUE]]
         /\ v' = [v EXCEPT ![s] = Request(Len(ret) + 1, kind, nb)]
         /\ reg' = [reg EXCEPT ![a] = s]
    /\ ret' = Append(ret, [status |-> NoReply, data |-> 0])
    /\ Goto(a, "wait")
    /\ UNCHANGED <<buf, sig, signals, pool, network, turn>>

\* handoff_release or handoff_abandon, and the call returns.
Return(a, status) ==
    /\ slot' = [slot EXCEPT ![reg[a]].caller = FALSE,
                            ![reg[a]].cancel = @ \/ ~Completed(a)]
    /\ ret' = [ret EXCEPT ![Rec(a).id] = [status |-> status,
                  data |-> IF status = "OK" /\ Rec(a).kind = "recv" THEN buf[a] ELSE 0]]
    /\ reg' = [reg EXCEPT ![a] = 0]
    /\ buf' = [buf EXCEPT ![a] = 0]
    /\ sig' = sig \ {a}
    /\ Goto(a, "idle")
    /\ UNCHANGED <<signals, v, pool, network, turn>>

\* net_udp_ready
net_udp_ready(a) == Completed(a) \/ Rec(a).phase = "COPY"

\* net_udp_pin
net_udp_pin(a) ==
    /\ Rec(a).phase = "COPY" /\ ~Rec(a).pin /\ Rec(a).slab # NoSlab
    /\ v' = [v EXCEPT ![reg[a]].pin = TRUE]
    /\ Goto(a, "pinned")
    /\ UNCHANGED <<reg, buf, sig, signals, ret, slot, pool, network, turn>>

\* The loop of the call up to the pin, with its sleep: the reply, a signal,
\* a user range that another thread has unmapped, or the pin.  An offer
\* withdrawn between the wake-up and the pin leaves the caller where it is.
Wait(a) ==
    /\ pc[a] = "wait"
    /\ \/ Completed(a) /\ Return(a, slot[reg[a]].reply)
       \/ a \in sig /\ Return(a, "EINTR")
       \/ a \notin sig /\ net_udp_ready(a) /\ Return(a, "EFAULT")
       \/ a \notin sig /\ net_udp_pin(a)

\* The copy in or out of the slab, and net_udp_unpin(true).
CopyUnpin(a) ==
    /\ pc[a] = "pinned"
    /\ IF Rec(a).kind = "send"
       THEN pool' = [pool EXCEPT !.payload[Rec(a).slab] = Rec(a).id] /\ buf' = buf
       ELSE buf' = [buf EXCEPT ![a] = pool.payload[Rec(a).slab]] /\ pool' = pool
    /\ v' = [v EXCEPT ![reg[a]].pin = FALSE, ![reg[a]].phase = "COMMIT"]
    /\ Goto(a, "terminal")
    /\ UNCHANGED <<reg, sig, signals, ret, slot, network, turn>>

\* terminal(true): the reply, or a signal, which cancels and then waits for
\* the worker's answer.
terminal(a) ==
    \/ pc[a] \in {"terminal", "ack"} /\ Completed(a) /\ Return(a, slot[reg[a]].reply)
    \/ /\ pc[a] = "terminal" /\ ~Completed(a) /\ a \in sig
       /\ slot' = [slot EXCEPT ![reg[a]].cancel = TRUE]
       /\ Goto(a, "ack")
       /\ UNCHANGED <<reg, buf, sig, signals, ret, v, pool, network, turn>>

Signal(a) ==
    /\ signals < MaxSignals /\ a \notin sig /\ pc[a] # "idle"
    /\ sig' = sig \cup {a}
    /\ signals' = signals + 1
    /\ UNCHANGED <<pc, reg, buf, ret, transport, network, turn>>

--------------------------------------------------------------------------
(* The protocol sweep of the worker's loop *)

\* net_socket_worker_tick: the receive operation, whose deadline is over or not.
ReceiveTick(k, on, over) ==
    IF k.receive.token # 0 /\ ~k.receive.done /\ (~on \/ over \/ k.rx # <<>>)
    THEN [k EXCEPT !.receive.done = TRUE,
                   !.receive.result = IF ~on THEN "EIO" ELSE IF over THEN "EAGAIN" ELSE "OK"]
    ELSE k

\* net_ipv4_udp_sync
Sync(k, token) == IF k.ip.token = token THEN k ELSE [k EXCEPT !.ip = NoEntry]

\* The submission, the result of the transmission, and the link going down.  A
\* net_ipv4_udp_start that fails completes the send with EIO, as an entry that
\* the next Ipv4Tick Fails does.
Submit(k, on) ==
    IF k.tx.published /\ ~k.tx.done /\ on
    THEN [k EXCEPT !.tx.published = FALSE,
                   !.ip = [NoEntry EXCEPT !.token = k.tx.token, !.active = TRUE, !.data = k.tx.data]]
    ELSE [k EXCEPT !.tx.published = FALSE]
TransmitTick(k, on) ==
    IF k.tx.token = 0 \/ k.tx.done THEN k
    ELSE IF ~on THEN [Sync(k, 0) EXCEPT !.tx.done = TRUE, !.tx.result = "EIO"]
    ELSE IF k.ip.done THEN [k EXCEPT !.tx.done = TRUE, !.tx.result = k.ip.result, !.ip.done = FALSE]
    ELSE k
SocketTick(k, on, over) ==
    TransmitTick(Submit(Sync(ReceiveTick([k EXCEPT !.online = on], on, over), k.tx.token), on), on)

\* net_ipv4_link_down and net_ipv4_tick, for the socket's entry.
Fails(k) == [k EXCEPT !.ip.active = FALSE, !.ip.done = TRUE, !.ip.result = "EIO"]
LinkDown(k) == IF k.ip.active THEN Fails(k) ELSE k
Ipv4Tick(k) ==
    IF ~k.ip.active THEN {k} ELSE {k, Fails(k), [k EXCEPT !.ip.active = FALSE, !.ip.done = TRUE, !.ip.result = "OK"]}

\* net_socket_input; a full queue drops the datagram.
Input(k) == IF Len(k.rx) < NET_SOCKET_RX_MAX THEN [k EXCEPT !.rx = Append(@, arrivals + 1)] ELSE k

\* The link is asked three times in a sweep.
Protocols ==
    /\ turn.phase = "protocols"
    /\ \E k0 \in {sock} \cup (IF arrivals < MaxArrivals THEN {Input(sock)} ELSE {}),
         on0, on1, on2, over \in BOOLEAN :
        LET k1 == SocketTick(IF on0 THEN k0 ELSE LinkDown(k0), on1, over)
        IN  \E k2 \in Ipv4Tick(k1) :
              /\ arrivals' = arrivals + Len(k0.rx) - Len(sock.rx)
              /\ sock' = SocketTick(k2, on2, over)
              /\ wire' = IF k1.ip.active /\ k2.ip.done /\ k2.ip.result = "OK"
                         THEN [wire EXCEPT ![k2.ip.data] = [sent |-> @.sent + 1, down |-> ~on2]]
                         ELSE wire
    /\ turn' = [turn EXCEPT !.phase = "housekeeping"]
    /\ UNCHANGED <<call, transport>>

--------------------------------------------------------------------------
(* net_control_service *)

\* The pool without what the requests of S hold of it: slabs and tickets.
slab_put(q, S, slabs) ==
    [q EXCEPT !.used = @ \ slabs, !.waiting = @ \ S,
              !.older = {p \in @ : p[1] \notin S /\ p[2] \notin S}]

\* cleanup: the operations of the requests in R end, the one that holds the
\* head of the queue consuming it or not.
Ops(R, kind) == {r.id : r \in {x \in R : x.active /\ x.kind = kind}}
cleanup(k, R, consume) ==
    LET mine == k.receive.token \in Ops(R, "recv")
    IN  [k EXCEPT !.receive = IF mine THEN NoOp ELSE @,
                  !.rx = IF mine /\ consume /\ @ # <<>> THEN Tail(@) ELSE @,
                  !.tx = IF @.token \in Ops(R, "send") THEN NoOp ELSE @,
                  !.ip = IF Ops(R, "send") # {} /\ @.token # 0 THEN NoEntry ELSE @]

\* handoff_acknowledge, then net_udp_maintenance.  A request that was not
\* claimed holds nothing yet.  The record of a FREE slot is blanked here;
\* nothing reads it before the next begin overwrites it.
Acknowledged(s) ==
    IF slot[s].state = "QUEUED" /\ slot[s].cancel
    THEN [slot[s] EXCEPT !.state = "COMPLETED", !.reply = "EINTR"]
    ELSE IF slot[s].state = "COMPLETED" /\ ~slot[s].caller /\ slot[s].cleaned
    THEN FreeSlot ELSE slot[s]
Disposable(s) == Acknowledged(s).state = "COMPLETED" /\ ~slot[s].caller
Housekeeping ==
    /\ turn.phase = "housekeeping"
    /\ slot' = [s \in Slots |-> [Acknowledged(s) EXCEPT !.cleaned = Disposable(s)]]
    /\ v' = [s \in Slots |-> IF Acknowledged(s) = FreeSlot THEN NoRequest
                             ELSE IF Disposable(s) THEN [v[s] EXCEPT !.active = FALSE, !.slab = NoSlab]
                             ELSE v[s]]
    /\ LET gone == {s \in Slots : Disposable(s)}
       IN  /\ pool' = slab_put(pool, gone, {v[s].slab : s \in gone})
           /\ sock' = cleanup(sock, {v[s] : s \in gone}, FALSE)
    /\ turn' = [turn EXCEPT !.phase = "claim"]
    /\ UNCHANGED <<call, wire, arrivals>>

\* The loops over handoff_claim and handoff_pending, each with its step, end
\* after Batch steps or when nothing is left.
LoopEnds(t) == [t EXCEPT !.phase = IF @ = "claim" THEN "pending" ELSE "protocols", !.n = 0]
Served(t) == IF t.n = Batch THEN LoopEnds(t) ELSE t

\* Mutant: the offer is only sampled under the lock, and revoked later.
RevokeLate(s, expiry, cursor) ==
    LET p == v[s].phase
    IN  IF v[s].pin
        THEN /\ ~expiry
             /\ slot' = [slot EXCEPT ![s].state = "PENDING"]
             /\ turn' = Served([turn EXCEPT !.n = @ + 1, !.cursor = cursor])
             /\ UNCHANGED <<call, v, pool, network>>
        ELSE /\ expiry => p = "COPY"
             /\ slot' = [slot EXCEPT ![s].state = "CLAIMED"]
             /\ turn' = [turn EXCEPT !.n = @ + 1, !.cursor = cursor,
                             !.step = [s |-> s, p |-> IF expiry THEN "IO" ELSE p,
                                       cancel |-> slot[s].cancel, expiry |-> expiry]]
             /\ UNCHANGED <<call, v, pool, network>>

\* The first half of net_udp_step: the phase is read, and an offer taken
\* back, under the lock.  The caller may act before the second half.
StepBegin(s, expiry, cursor) ==
    LET p == v[s].phase
    IN  IF v[s].pin
        THEN /\ ~expiry
             /\ slot' = [slot EXCEPT ![s].state = "PENDING"]
             /\ turn' = Served([turn EXCEPT !.n = @ + 1, !.cursor = cursor])
             /\ UNCHANGED <<call, v, pool, network>>
        ELSE /\ expiry => p = "COPY"
             /\ slot' = [slot EXCEPT ![s].state = "CLAIMED"]
             /\ v' = [v EXCEPT ![s].phase = IF expiry \/ slot[s].cancel THEN "IO" ELSE @]
             /\ turn' = [turn EXCEPT !.n = @ + 1, !.cursor = cursor,
                             !.step = [s |-> s, p |-> IF expiry THEN "IO" ELSE p,
                                       cancel |-> slot[s].cancel, expiry |-> expiry]]
             /\ UNCHANGED <<call, pool, network>>

Nothing == turn' = LoopEnds(turn) /\ UNCHANGED <<call, transport, network>>

Claimable == {s \in Slots : slot[s].state = "QUEUED" /\ ~slot[s].cancel}
Claim ==
    /\ turn.phase = "claim" /\ turn.step = NoStep
    /\ IF Claimable = {} THEN Nothing
       ELSE \E s \in Claimable : StepBegin(s, FALSE, turn.cursor)

\* The scan for a pending request goes on behind the one served last.
Waiting == {s \in Slots : slot[s].state = "PENDING"}
After(s) == (s - turn.cursor - 1) % HANDOFF_SLOTS

\* Mutant: an offer has no lease.
PendingNoLease(expiry) ==
    /\ turn.phase = "pending" /\ turn.step = NoStep /\ ~expiry
    /\ IF Waiting = {} THEN Nothing
       ELSE \E s \in Waiting :
              (\A w \in Waiting : After(s) <= After(w)) /\ StepBegin(s, FALSE, s)

Pending(expiry) ==
    /\ turn.phase = "pending" /\ turn.step = NoStep
    /\ IF Waiting = {} THEN ~expiry /\ Nothing
       ELSE \E s \in Waiting :
              (\A w \in Waiting : After(s) <= After(w)) /\ StepBegin(s, expiry, s)

--------------------------------------------------------------------------
(* net_udp_step, after the lock *)

\* What a step has done so far: the record, the pool, the socket, and the
\* reply, if the request is no longer pending.
Work(s) == [r |-> v[s], q |-> pool, k |-> sock, reply |-> NoReply]
Reply(w, what) == [w EXCEPT !.reply = what]
Over(w) == w.reply # NoReply
Cleanup(w, consume) == [w EXCEPT !.k = cleanup(w.k, {w.r}, consume), !.r.active = FALSE]
Put(w, s) == [w EXCEPT !.q = slab_put(w.q, {s}, {w.r.slab}), !.r.slab = NoSlab]

\* slab_get: a ticket on the first try, and a slab for the oldest ticket.
slab_get(w, s) ==
    LET q == IF s \in w.q.waiting THEN w.q
             ELSE [w.q EXCEPT !.waiting = @ \cup {s}, !.older = @ \cup (w.q.waiting \X {s})]
        free == Slabs \ q.used
        slab == CHOOSE b \in free : TRUE
    IN  IF (\A i \in q.waiting : <<i, s>> \notin q.older) /\ free # {}
        THEN [w EXCEPT !.r.slab = slab,
                       !.q = [slab_put(q, {s}, {}) EXCEPT !.used = @ \cup {slab}]]
        ELSE [w EXCEPT !.q = q]

HasSlab(w) == w.r.slab # NoSlab
Offer(w) == [w EXCEPT !.r.phase = "COPY"]

\* net_socket_ready and net_socket_result of a send.
SendReady(w) == w.k.tx.token # w.r.id \/ w.k.tx.done
SendResult(w) == IF w.k.tx.token # w.r.id THEN "EINTR" ELSE w.k.tx.result

\* Mutant: a cancelled send never looks at its result.
CancelledBlind(w) == Reply(Cleanup(w, FALSE), "EINTR")

\* A signal: nothing is undone that was accepted.
Cancelled(w) ==
    LET accepted == w.r.kind = "send" /\ w.r.active /\ SendReady(w) /\ SendResult(w) = "OK"
    IN  Reply(Cleanup(w, FALSE), IF accepted THEN "OK" ELSE "EINTR")

\* net_socket_send
net_socket_send(w) ==
    CASE ~w.k.online -> Reply(w, "EIO")
      [] w.k.online /\ w.k.tx.token # 0 -> Reply(w, "EAGAIN")
      [] OTHER -> [w EXCEPT !.k.tx = [NoOp EXCEPT !.token = w.r.id, !.published = TRUE,
                                                  !.data = w.q.payload[w.r.slab]],
                            !.r.active = TRUE]

SendWork(s, p, expiry) ==
    LET w == IF expiry THEN Put(Work(s), s) ELSE Work(s)
        got == slab_get(w, s)
    IN  CASE p = "IO" -> IF ~w.k.online THEN Reply(w, "EIO")
                         ELSE IF HasSlab(got) THEN Offer(got) ELSE got
          [] p = "COMMIT" -> [Put(net_socket_send(w), s) EXCEPT !.r.phase = "SUBMITTED"]
          [] p = "SUBMITTED" -> IF SendReady(w) THEN Reply(Cleanup(w, FALSE), SendResult(w)) ELSE w
          [] p = "COPY" -> w

\* The deadline of the call, and net_socket_receive, once a nonblocking call
\* has its slab.
Reserve(w, s, over) ==
    LET got == IF w.r.nonblocking /\ ~HasSlab(w) THEN slab_get(w, s) ELSE w
    IN  IF w.r.active THEN w
        ELSE IF ~w.k.online THEN Reply(w, "EIO")
        ELSE IF over THEN Reply(w, "EAGAIN")
        ELSE IF \/ w.r.nonblocking /\ (~HasSlab(got) \/ w.k.rx = <<>>)
                \/ w.k.receive.token # 0 THEN Reply(got, "EAGAIN")
        ELSE [got EXCEPT !.r.active = TRUE,
                         !.k.receive = [NoOp EXCEPT !.token = w.r.id, !.done = w.k.rx # <<>>,
                                                    !.result = "OK"]]

\* The head of the queue is staged in a slab and offered; it stays queued.
Stage(w, s) ==
    LET got == IF HasSlab(w) THEN w ELSE slab_get(w, s)
        failed == IF w.k.receive.token # w.r.id THEN "EINTR"
                  ELSE IF ~w.k.online THEN "EIO" ELSE w.k.receive.result
    IN  IF w.k.receive.token = w.r.id /\ ~w.k.receive.done THEN w
        ELSE IF failed # "OK" THEN Reply(Cleanup(w, FALSE), failed)
        ELSE IF ~HasSlab(got)
        THEN IF w.r.nonblocking THEN Reply(Cleanup(got, FALSE), "EAGAIN") ELSE got
        ELSE Offer([got EXCEPT !.q.payload[got.r.slab] = Head(w.k.rx)])

RecvWork(s, p, expiry, over) ==
    LET w0 == IF expiry THEN Put(Cleanup(Work(s), FALSE), s) ELSE Work(s)
        w1 == Reserve(w0, s, over)
    IN  IF Over(w1) \/ p = "COPY" THEN w1 ELSE Stage(w1, s)

\* A copy that is committed is consumed even when a signal comes with it.
StepWork(s, step, over) ==
    IF v[s].kind = "recv" /\ step.p = "COMMIT" THEN Reply(Cleanup(Work(s), TRUE), "OK")
    ELSE IF step.cancel THEN Cancelled(Work(s))
    ELSE IF v[s].kind = "send" THEN SendWork(s, step.p, step.expiry)
    ELSE RecvWork(s, step.p, step.expiry, over)

\* The work, then the end of the request or its return to PENDING.
Step ==
    /\ turn.step # NoStep
    /\ \E over \in BOOLEAN :
        LET s == turn.step.s
            w == StepWork(s, turn.step, over)
            e == IF Over(w) THEN [Put(w, s) EXCEPT !.r.phase = "IO"] ELSE w
        IN  /\ v' = [v EXCEPT ![s] = e.r]
            /\ pool' = e.q
            /\ sock' = e.k
            /\ slot' = [slot EXCEPT ![s].state = IF Over(w) THEN "COMPLETED" ELSE "PENDING",
                                    ![s].reply = w.reply]
    /\ turn' = Served([turn EXCEPT !.step = NoStep])
    /\ UNCHANGED <<call, wire, arrivals>>

--------------------------------------------------------------------------
Caller(a) == Wait(a) \/ CopyUnpin(a) \/ terminal(a)
Owner == Protocols \/ Housekeeping \/ Claim \/ (\E expiry \in BOOLEAN : Pending(expiry)) \/ Step

Next ==
    \/ Owner
    \/ \E a \in Actors :
        \/ Caller(a) \/ Signal(a)
        \/ \E kind \in {"send", "recv"}, nb \in BOOLEAN : net_udp_begin(a, kind, nb)
Spec == Init /\ [][Next]_vars

(* Fairness.  The worker is a scheduled thread that the timer tick wakes,  *)
(* and some action of it is always enabled: it takes steps for ever.       *)
(* Some sweep finds the transmission and the receive past their deadlines  *)
(* and some step finds an offer past its lease.  No caller is stopped      *)
(* while it holds a pin; elsewhere callers may be stopped for ever.        *)
Settles == Protocols /\ ~sock'.ip.active /\ (sock'.receive.token # 0 => sock'.receive.done)
Fairness ==
    /\ []<><<Owner>>_vars /\ SF_vars(Settles) /\ SF_vars(Pending(TRUE))
    /\ \A a \in Actors : WF_vars(CopyUnpin(a))

--------------------------------------------------------------------------
(* Properties *)

Ended(s) == slot[s].state \notin {"CLAIMED", "PENDING"}

(* Every slab in use is held by one live request, and a request that ended *)
(* by whatever path keeps neither slab, ticket nor operation.  While a     *)
(* caller copies, the offer stands, the slab is its own, and a receive's   *)
(* slab holds the head of the queue, whatever leases, arrivals and the     *)
(* other caller do ("cannot overwrite/reuse pinned bytes",                 *)
(* docs/plans/NETWORK_SMP_PHASE0_CONTRACTS.md).                            *)
SlabOwn ==
    /\ pool.used = {v[s].slab : s \in Slots} \ {NoSlab}
    /\ \A s, w \in Slots : s # w /\ v[s].slab = v[w].slab => v[s].slab = NoSlab
    /\ \A s \in Slots : Ended(s) =>
          v[s].slab = NoSlab /\ ~v[s].active /\ s \notin pool.waiting
    /\ \A op \in {sock.tx, sock.receive} : op.token # 0 =>
          \E s \in Slots : v[s].id = op.token /\ v[s].active
    /\ \A a \in Actors : pc[a] = "pinned" =>
          /\ ~Ended(reg[a]) /\ Rec(a).pin /\ Rec(a).phase = "COPY" /\ Rec(a).slab # NoSlab
          /\ Rec(a).kind = "recv" =>
                sock.rx # <<>> /\ pool.payload[Rec(a).slab] = Head(sock.rx)

Delivered(d) == {c \in DOMAIN ret : ret[c].data = d}
HandedOver(d) == {a \in Actors : pc[a] # "idle" /\ Completed(a)
                                  /\ slot[reg[a]].reply = "OK" /\ buf[a] = d}

(* Receiving: what is left in the queue is the newest datagrams in order,  *)
(* each older one went to exactly one call, and a call whose copy is       *)
(* committed succeeds, also when a signal or an expired lease came between *)
(* ("commit consumes whole datagram once").  Sending: a call that returns  *)
(* success has put its datagram on the wire once, and one that returns     *)
(* EINTR, EAGAIN or EFAULT has not ("preserves already accepted            *)
(* datagrams"), unless the link went down in the sweep that transmitted.   *)
ExactlyOnce ==
    /\ sock.rx = [i \in 1 .. Len(sock.rx) |-> arrivals - Len(sock.rx) + i]
    /\ \A d \in 1 .. arrivals :
          Cardinality(Delivered(d)) + Cardinality(HandedOver(d))
             = IF d <= arrivals - Len(sock.rx) THEN 1 ELSE 0
    /\ \A a \in Actors : pc[a] \in {"terminal", "ack"} /\ Rec(a).kind = "recv" /\ Completed(a)
          => slot[reg[a]].reply = "OK"
    /\ \A c \in DOMAIN ret :
          /\ wire[c].sent <= 1
          /\ ret[c].status = "OK" /\ ret[c].data = 0 => wire[c].sent = 1
          /\ ret[c].status \in {"EINTR", "EAGAIN", "EFAULT"} => wire[c].sent = 0 \/ wire[c].down

(* A caller that keeps being scheduled within a lease has its call end,    *)
(* also when another caller is stopped for ever between the offer of the   *)
(* only slab and its pin, or gives up while it waits for a slab            *)
(* ("abandoned reservations therefore cannot indefinitely monopolize a     *)
(* slab").                                                                 *)
CallsEnd ==
    \A a \in Actors : SF_vars(Caller(a)) => (pc[a] = "wait" ~> pc[a] = "idle")
=============================================================================
