----------------------------- MODULE UdpProofs -----------------------------
(***************************************************************************)
(* Proofs about Udp.tla, for any number of callers, slots, slabs, calls,   *)
(* arrivals and signals.                                                   *)
(***************************************************************************)
EXTENDS Udp, FiniteSetTheorems, TLAPS

--------------------------------------------------------------------------
(* The inductive invariant *)

Statuses == {NoReply, "OK", "EIO", "EINTR", "EAGAIN", "EFAULT"}
PhasesOf == {"IO", "COPY", "COMMIT", "SUBMITTED"}
SlotRec == [state : {"FREE", "QUEUED", "CLAIMED", "PENDING", "COMPLETED"},
            caller : BOOLEAN, cancel : BOOLEAN, cleaned : BOOLEAN, reply : Statuses]
RequestRec == [id : Nat, kind : {"none", "send", "recv"}, nonblocking : BOOLEAN,
               phase : PhasesOf, pin : BOOLEAN, slab : Slabs \cup {NoSlab}, active : BOOLEAN]
PoolRec == [used : SUBSET Slabs, payload : [Slabs -> Nat], waiting : SUBSET Slots,
            older : SUBSET (Slots \X Slots)]
OpRec == [token : Nat, published : BOOLEAN, done : BOOLEAN, result : Statuses, data : Nat]
EntryRec == [token : Nat, active : BOOLEAN, done : BOOLEAN, result : Statuses, data : Nat]
SockRec == [rx : Seq(Nat), receive : OpRec, tx : OpRec, ip : EntryRec, online : BOOLEAN]
StepRec == [s : Slots \cup {0}, p : PhasesOf \cup {"none"}, cancel : BOOLEAN, expiry : BOOLEAN]
TurnRec == [phase : {"protocols", "housekeeping", "claim", "pending"}, n : Nat,
            cursor : Nat, step : StepRec]

(* The type of the variables. *)
UType ==
    /\ pc \in [Actors -> {"idle", "wait", "pinned", "terminal", "ack"}]
    /\ reg \in [Actors -> Slots \cup {0}]
    /\ buf \in [Actors -> Nat]
    /\ ret \in Seq([status : Statuses, data : Nat]) /\ Len(ret) <= MaxCalls
    /\ slot \in [Slots -> SlotRec] /\ v \in [Slots -> RequestRec]
    /\ pool \in PoolRec /\ sock \in SockRec
    /\ wire \in [1 .. MaxCalls -> [sent : Nat, down : BOOLEAN]]
    /\ arrivals \in Nat /\ turn \in TurnRec

(* A call in progress is registered at a slot of its own. *)
Registered ==
    /\ \A a \in Actors : reg[a] = 0 <=> pc[a] = "idle"
    /\ \A a \in Actors : reg[a] # 0 => slot[reg[a]].caller /\ slot[reg[a]].state # "FREE"
    /\ \A a, b \in Actors : reg[a] # 0 /\ reg[a] = reg[b] => a = b
    /\ \A s \in Slots : slot[s].caller => \E a \in Actors : reg[a] = s

(* A slot that is not free holds the record of a call made, and no two     *)
(* slots hold the same one; a call in progress has no status yet.          *)
Numbered ==
    /\ \A s \in Slots : slot[s].state = "FREE" => slot[s] = FreeSlot /\ v[s] = NoRequest
    /\ \A s \in Slots : slot[s].state # "FREE" =>
          v[s].id \in 1 .. Len(ret) /\ v[s].kind \in {"send", "recv"}
    /\ \A s, w \in Slots : slot[s].state # "FREE" /\ slot[w].state # "FREE"
                              /\ v[s].id = v[w].id => s = w
    /\ \A a \in Actors : reg[a] # 0 => ret[v[reg[a]].id] = [status |-> NoReply, data |-> 0]

(* The claimed slot is the one of the step in progress, and its phase is   *)
(* the one the step read, unless the step took it back or the caller has   *)
(* committed since.                                                        *)
InStep ==
    /\ \A s \in Slots : slot[s].state = "CLAIMED" <=> turn.step.s = s
    /\ turn.step.s = 0 <=> turn.step = NoStep
    /\ turn.step.s # 0 => turn.phase \in {"claim", "pending"}
    /\ turn.step.s # 0 =>
          LET t == turn.step
              p == v[t.s].phase
          IN  /\ t.p \in PhasesOf
              /\ t.expiry => t.p = "IO"
              /\ t.cancel \/ t.p = "IO" => p = "IO"
              /\ ~t.cancel /\ t.p \in {"COMMIT", "SUBMITTED"} => p = t.p
              /\ ~t.cancel /\ t.p = "COPY" => p \in {"COPY", "COMMIT"}

\* The phase of a request, before the step in progress took it back.
Was(s) == IF turn.step.s = s /\ v[s].phase = "IO"
          THEN IF turn.step.expiry THEN "COPY" ELSE turn.step.p
          ELSE v[s].phase

\* The call behind slot s has copied and waits for the end of its request.
Committed(s) == \E a \in Actors : reg[a] = s /\ pc[a] \in {"terminal", "ack"}
HoldsHead(s) == sock.rx # <<>> /\ pool.payload[v[s].slab] = Head(sock.rx)

(* What a live request holds, by its phase. *)
ByPhase(s) ==
    /\ Was(s) = "IO" => (v[s].kind = "send" => ~v[s].active /\ v[s].slab = NoSlab)
    /\ Was(s) = "COPY" => /\ v[s].slab # NoSlab
                          /\ v[s].kind = "send" => ~v[s].active
                          /\ v[s].kind = "recv" => v[s].active /\ HoldsHead(s)
    /\ Was(s) = "COMMIT" => /\ Committed(s)
                            /\ v[s].kind = "send" => /\ ~v[s].active /\ v[s].slab # NoSlab
                                                     /\ pool.payload[v[s].slab] = v[s].id
                            /\ v[s].kind = "recv" => v[s].active /\ sock.rx # <<>>
    /\ Was(s) = "SUBMITTED" => /\ Committed(s) /\ v[s].kind = "send"
                               /\ v[s].active /\ v[s].slab = NoSlab
Phased == \A s \in Slots : ~Ended(s) => ByPhase(s)

(* A request that is not live holds nothing. *)
AtRest ==
    \A s \in Slots : Ended(s) =>
       /\ v[s].slab = NoSlab /\ ~v[s].active /\ ~v[s].pin /\ v[s].phase = "IO"
       /\ s \notin pool.waiting

(* The slabs in use are the slabs of the requests, one each. *)
Owned ==
    /\ pool.used = {v[s].slab : s \in Slots} \ {NoSlab}
    /\ \A s, w \in Slots : s # w /\ v[s].slab = v[w].slab => v[s].slab = NoSlab

(* The socket's operations are those of the active requests. *)
Operations ==
    /\ \A s \in Slots : v[s].active =>
          /\ v[s].kind = "send" => sock.tx.token = v[s].id
          /\ v[s].kind = "recv" => sock.receive.token = v[s].id
    /\ sock.tx.token # 0 =>
          \E s \in Slots : v[s].active /\ v[s].kind = "send" /\ v[s].id = sock.tx.token
    /\ sock.receive.token # 0 =>
          \E s \in Slots : v[s].active /\ v[s].kind = "recv" /\ v[s].id = sock.receive.token
    /\ sock.receive.token # 0 /\ sock.receive.done =>
          sock.receive.result # NoReply /\ (sock.receive.result = "OK" => sock.rx # <<>>)

(* Where a caller is, and what it has in its buffer. *)
Places ==
    \A a \in Actors :
       /\ pc[a] = "idle" => buf[a] = 0
       /\ pc[a] = "wait" =>
             /\ buf[a] = 0
             /\ slot[reg[a]].state = "COMPLETED" => slot[reg[a]].reply # "OK"
             /\ ~Ended(reg[a]) => Was(reg[a]) \in {"IO", "COPY"}
       /\ pc[a] = "pinned" => buf[a] = 0 /\ ~Ended(reg[a])
       /\ pc[a] \in {"terminal", "ack"} =>
             /\ slot[reg[a]].state # "QUEUED"
             /\ ~Ended(reg[a]) => Was(reg[a]) \in {"COMMIT", "SUBMITTED"}
             /\ v[reg[a]].kind = "send" => buf[a] = 0
             /\ v[reg[a]].kind = "recv" =>
                   /\ buf[a] # 0
                   /\ ~Ended(reg[a]) => buf[a] = Head(sock.rx)
                   /\ slot[reg[a]].state = "COMPLETED" => slot[reg[a]].reply = "OK"

(* A pin is a caller's, on an offer that stands. *)
Pinned ==
    /\ \A a \in Actors : pc[a] = "pinned" => v[reg[a]].pin
    /\ \A s \in Slots : v[s].pin =>
          v[s].phase = "COPY" /\ \E a \in Actors : reg[a] = s /\ pc[a] = "pinned"

(* The transmission of the send in progress; W is wire.  Unsettled is the  *)
(* state between the two ticks of a sweep.                                 *)
Unsettled(k, W) ==
    /\ k.ip.token = 0 => k.ip = NoEntry
    /\ k.ip.token # 0 => k.ip.token = k.tx.token
    /\ k.tx.token = 0 => ~k.tx.published
    /\ k.tx.token # 0 =>
          /\ k.tx.data = k.tx.token
          /\ k.tx.published => ~k.tx.done /\ k.ip = NoEntry /\ W[k.tx.token].sent = 0
          /\ k.tx.done => /\ ~k.tx.published /\ ~k.ip.active /\ ~k.ip.done
                          /\ k.tx.result \in {"OK", "EIO"}
                          /\ k.tx.result = "OK" => W[k.tx.token].sent = 1
                          /\ k.tx.result = "EIO" =>
                                \/ W[k.tx.token].sent = 0
                                \/ W[k.tx.token].sent = 1 /\ W[k.tx.token].down
          /\ ~k.tx.published /\ ~k.tx.done =>
                /\ k.ip.token = k.tx.token /\ k.ip.data = k.tx.token
                /\ \/ k.ip.active /\ ~k.ip.done /\ W[k.tx.token].sent = 0
                   \/ ~k.ip.active /\ k.ip.done /\ k.ip.result = "OK" /\ W[k.tx.token].sent = 1
                   \/ ~k.ip.active /\ k.ip.done /\ k.ip.result = "EIO" /\ W[k.tx.token].sent = 0
Transmission == Unsettled(sock, wire) /\ ~sock.ip.done

(* What is on the wire, for the calls in progress and for those that have  *)
(* returned.                                                               *)
OnWire ==
    /\ \A c \in 1 .. MaxCalls : wire[c].sent <= 1
    /\ \A c \in 1 .. MaxCalls : c > Len(ret) => wire[c].sent = 0
    /\ \A s \in Slots : slot[s].state # "FREE" /\ v[s].kind = "recv" => wire[v[s].id].sent = 0
    /\ \A s \in Slots : ~Ended(s) /\ ~v[s].active => wire[v[s].id].sent = 0
    /\ \A s \in Slots : slot[s].state = "QUEUED" => wire[v[s].id].sent = 0
    /\ \A a \in Actors : pc[a] \in {"wait", "pinned"} => wire[v[reg[a]].id].sent = 0
    /\ \A a \in Actors : reg[a] # 0 /\ slot[reg[a]].state = "COMPLETED" /\ v[reg[a]].kind = "send" =>
          /\ slot[reg[a]].reply = "OK" => wire[v[reg[a]].id].sent = 1
          /\ slot[reg[a]].reply \in {"EINTR", "EAGAIN", "EFAULT"} =>
                wire[v[reg[a]].id].sent = 0 \/ wire[v[reg[a]].id].down
    /\ \A c \in DOMAIN ret :
          /\ ret[c].status = "OK" /\ ret[c].data = 0 => wire[c].sent = 1
          /\ ret[c].status \in {"EINTR", "EAGAIN", "EFAULT"} => wire[c].sent = 0 \/ wire[c].down

(* The queue is the newest datagrams in order. *)
Queue ==
    /\ Len(sock.rx) <= arrivals
    /\ sock.rx = [i \in 1 .. Len(sock.rx) |-> arrivals - Len(sock.rx) + i]

(* Every datagram that left the queue is with one call. *)
Once ==
    \A d \in 1 .. arrivals :
       IF d <= arrivals - Len(sock.rx)
       THEN \/ HandedOver(d) = {} /\ \E c \in DOMAIN ret : Delivered(d) = {c}
            \/ Delivered(d) = {} /\ \E a \in Actors : HandedOver(d) = {a}
       ELSE Delivered(d) = {} /\ HandedOver(d) = {}
Arrived ==
    /\ \A a \in Actors : buf[a] <= arrivals
    /\ \A c \in DOMAIN ret : ret[c].data <= arrivals

UInv ==
    /\ UType /\ Registered /\ Numbered /\ InStep /\ Phased /\ AtRest /\ Owned
    /\ Operations /\ Places /\ Pinned /\ Transmission /\ OnWire /\ Queue /\ Once /\ Arrived

--------------------------------------------------------------------------
(* Init, and the steps that leave the state of the invariant alone *)

Parts == <<pc, reg, buf, ret, slot, v, pool, sock, wire, arrivals, turn>>

LEMMA InitInv == Init => UInv
<1> SUFFICES ASSUME Init PROVE UInv
  OBVIOUS
<1> USE UdpAssumption
<1>1. /\ pc = [a \in Actors |-> "idle"] /\ reg = [a \in Actors |-> 0]
      /\ buf = [a \in Actors |-> 0] /\ ret = <<>>
      /\ slot = [s \in Slots |-> FreeSlot] /\ v = [s \in Slots |-> NoRequest]
      /\ pool = [used |-> {}, payload |-> [b \in Slabs |-> 0], waiting |-> {}, older |-> {}]
      /\ sock = [rx |-> <<>>, receive |-> NoOp, tx |-> NoOp, ip |-> NoEntry, online |-> TRUE]
      /\ wire = [c \in 1 .. MaxCalls |-> [sent |-> 0, down |-> FALSE]]
      /\ arrivals = 0
      /\ turn = [phase |-> "protocols", n |-> 0, cursor |-> HANDOFF_SLOTS, step |-> NoStep]
  BY DEF Init
<1>2. FreeSlot \in SlotRec /\ FreeSlot.state = "FREE" /\ ~FreeSlot.caller
  BY DEF FreeSlot, SlotRec, Statuses, NoReply
<1>3. /\ NoRequest \in RequestRec /\ NoRequest.slab = NoSlab /\ ~NoRequest.active
      /\ ~NoRequest.pin /\ NoRequest.phase = "IO"
  BY DEF NoRequest, Request, RequestRec, PhasesOf
<1>4. /\ NoOp \in OpRec /\ NoOp.token = 0 /\ ~NoOp.published /\ NoEntry \in EntryRec
      /\ NoEntry.token = 0 /\ ~NoEntry.done
  BY DEF NoOp, OpRec, NoEntry, EntryRec, Statuses, NoReply
<1>5. NoStep \in StepRec /\ NoStep.s = 0
  BY DEF NoStep, StepRec
<1>6. \A s \in Slots : slot[s] = FreeSlot /\ v[s] = NoRequest
  BY <1>1
<1>7. Slots \subseteq Nat \ {0}
  BY DEF Slots
<1>8. UType
  <2>1. ret \in Seq([status : Statuses, data : Nat]) /\ Len(ret) <= MaxCalls
    BY <1>1
  <2>2. pool \in PoolRec
    BY <1>1 DEF PoolRec
  <2>3. sock \in SockRec
    BY <1>1, <1>4 DEF SockRec
  <2>4. turn \in TurnRec
    BY <1>1, <1>5 DEF TurnRec
  <2> QED BY <1>1, <1>2, <1>3, <2>1, <2>2, <2>3, <2>4 DEF UType
<1>9. Registered
  BY <1>1, <1>2, <1>6 DEF Registered
<1>10. Numbered
  BY <1>1, <1>2, <1>6 DEF Numbered
<1>11. InStep
  BY <1>1, <1>2, <1>5, <1>6, <1>7 DEF InStep
<1>12. Phased /\ AtRest
  BY <1>1, <1>2, <1>3, <1>6 DEF Phased, AtRest, Ended
<1>13. Owned
  BY <1>1, <1>3, <1>6 DEF Owned
<1>14. Operations
  BY <1>1, <1>3, <1>4, <1>6 DEF Operations
<1>15. Places
  BY <1>1 DEF Places
<1>16. Pinned
  BY <1>1, <1>3, <1>6 DEF Pinned
<1>17. Transmission
  BY <1>1, <1>4 DEF Transmission, Unsettled
<1>18. OnWire
  BY <1>1, <1>2, <1>6 DEF OnWire, Ended
<1>19. Queue /\ Once /\ Arrived
  BY <1>1 DEF Queue, Once, Arrived
<1> QED BY <1>8, <1>9, <1>10, <1>11, <1>12, <1>13, <1>14, <1>15, <1>16, <1>17, <1>18, <1>19
        DEF UInv

LEMMA StutterKeeps == ASSUME UInv, UNCHANGED Parts PROVE UInv'
<1>1. /\ pc' = pc /\ reg' = reg /\ buf' = buf /\ ret' = ret /\ slot' = slot /\ v' = v
      /\ pool' = pool /\ sock' = sock /\ wire' = wire /\ arrivals' = arrivals /\ turn' = turn
  BY DEF Parts
<1>2. UType' /\ Registered' /\ Numbered' /\ InStep'
  BY <1>1 DEF UInv, UType, Registered, Numbered, InStep
<1>3. Phased' /\ AtRest' /\ Owned' /\ Operations'
  BY <1>1 DEF UInv, Phased, AtRest, Owned, Operations, Ended, ByPhase, Was, Committed, HoldsHead
<1>4. Places' /\ Pinned'
  BY <1>1 DEF UInv, Places, Pinned, Ended, Was
<1>5. Transmission' /\ OnWire'
  BY <1>1 DEF UInv, Transmission, Unsettled, OnWire, Ended
<1>6. Queue' /\ Once' /\ Arrived'
  BY <1>1 DEF UInv, Queue, Once, Arrived, HandedOver, Delivered, Completed
<1> QED BY <1>2, <1>3, <1>4, <1>5, <1>6 DEF UInv

LEMMA SignalKeeps == ASSUME UInv, NEW a \in Actors, Signal(a) PROVE UInv'
BY StutterKeeps DEF Signal, Parts, transport, network

\* Without a step in progress the phase of a request is what its record says.
LEMMA WasPhase == ASSUME UInv, NEW s \in Slots, turn.step.s # s PROVE Was(s) = v[s].phase
BY DEF Was

LEMMA StepType ==
    ASSUME UInv
    PROVE  /\ turn \in TurnRec /\ turn.step \in StepRec /\ turn.step.s \in Slots \cup {0}
           /\ turn.phase \in {"protocols", "housekeeping", "claim", "pending"} /\ turn.n \in Nat
           /\ 0 \notin Slots
BY UdpAssumption DEF UInv, UType, TurnRec, StepRec, Slots

LEMMA NothingKeeps == ASSUME UInv, turn.step = NoStep, Nothing PROVE UInv'
<1>1. /\ pc' = pc /\ reg' = reg /\ buf' = buf /\ ret' = ret /\ slot' = slot /\ v' = v
      /\ pool' = pool /\ sock' = sock /\ wire' = wire /\ arrivals' = arrivals
  BY DEF Nothing, call, transport, network
<1>2. turn' \in TurnRec /\ turn'.step = turn.step
  BY StepType DEF Nothing, LoopEnds, TurnRec
<1>3. turn.step.s = 0
  BY DEF NoStep
<1>4. UType' /\ Registered' /\ Numbered'
  BY <1>1, <1>2 DEF UInv, UType, Registered, Numbered
<1>5. InStep'
  BY <1>1, <1>2, <1>3 DEF UInv, InStep
<1>6. Phased' /\ AtRest' /\ Owned' /\ Operations'
  BY <1>1, <1>2 DEF UInv, Phased, AtRest, Owned, Operations, Ended, ByPhase, Was, Committed, HoldsHead
<1>7. Places' /\ Pinned'
  BY <1>1, <1>2 DEF UInv, Places, Pinned, Ended, Was
<1>8. Transmission' /\ OnWire'
  BY <1>1 DEF UInv, Transmission, Unsettled, OnWire, Ended
<1>9. Queue' /\ Once' /\ Arrived'
  BY <1>1 DEF UInv, Queue, Once, Arrived, HandedOver, Delivered, Completed
<1> QED BY <1>4, <1>5, <1>6, <1>7, <1>8, <1>9 DEF UInv

--------------------------------------------------------------------------
(* The first half of a step *)

\* The facts about one slot and one record that most proofs start from.
LEMMA SlotType ==
    ASSUME UInv, NEW s \in Slots
    PROVE  /\ slot[s] \in SlotRec /\ v[s] \in RequestRec
           /\ slot[s].state \in {"FREE", "QUEUED", "CLAIMED", "PENDING", "COMPLETED"}
           /\ slot[s].caller \in BOOLEAN /\ slot[s].cancel \in BOOLEAN
           /\ slot[s].cleaned \in BOOLEAN /\ slot[s].reply \in Statuses
           /\ v[s].id \in Nat /\ v[s].kind \in {"none", "send", "recv"}
           /\ v[s].nonblocking \in BOOLEAN /\ v[s].phase \in PhasesOf /\ v[s].pin \in BOOLEAN
           /\ v[s].slab \in Slabs \cup {NoSlab} /\ v[s].active \in BOOLEAN
BY DEF UInv, UType, SlotRec, RequestRec

LEMMA PinnedLive ==
    ASSUME UInv, NEW s \in Slots, v[s].pin
    PROVE  ~Ended(s)
BY DEF UInv, AtRest

\* Steps that leave the calls and the numbers of the requests alone.
LEMMA NumbersKept ==
    ASSUME UInv, reg' = reg, ret' = ret,
           \A w \in Slots : /\ v'[w].id = v[w].id /\ v'[w].kind = v[w].kind
                            /\ slot'[w].state = "FREE" <=> slot[w].state = "FREE"
                            /\ slot[w].state = "FREE" => slot'[w] = slot[w] /\ v'[w] = v[w]
    PROVE  Numbered'
<1>1. /\ \A s \in Slots : slot[s].state = "FREE" => slot[s] = FreeSlot /\ v[s] = NoRequest
      /\ \A s \in Slots : slot[s].state # "FREE" =>
            v[s].id \in 1 .. Len(ret) /\ v[s].kind \in {"send", "recv"}
      /\ \A s, w \in Slots : slot[s].state # "FREE" /\ slot[w].state # "FREE"
                                /\ v[s].id = v[w].id => s = w
      /\ \A a \in Actors : reg[a] # 0 => ret[v[reg[a]].id] = [status |-> NoReply, data |-> 0]
  BY DEF UInv, Numbered
<1>2. \A a \in Actors : reg[a] # 0 => reg[a] \in Slots
  BY DEF UInv, UType
<1>3. \A a \in Actors : reg[a] # 0 => v'[reg[a]].id = v[reg[a]].id
  BY <1>2
<1>4. \A a \in Actors : reg'[a] # 0 => ret'[v'[reg'[a]].id] = [status |-> NoReply, data |-> 0]
  BY <1>1, <1>3
<1> QED BY <1>1, <1>4 DEF Numbered

LEMMA RepliesKept ==
    ASSUME UInv, reg' = reg, wire' = wire,
           \A w \in Slots : /\ v'[w].id = v[w].id /\ v'[w].kind = v[w].kind
                            /\ slot'[w].state = "COMPLETED" =>
                                  slot[w].state = "COMPLETED" /\ slot'[w].reply = slot[w].reply
    PROVE  OnWire!7'
<1>1. OnWire!7
  BY DEF UInv, OnWire
<1>2. \A a \in Actors : reg[a] # 0 => reg[a] \in Slots
  BY DEF UInv, UType
<1>3. \A a \in Actors : reg[a] # 0 =>
         /\ v'[reg[a]].id = v[reg[a]].id /\ v'[reg[a]].kind = v[reg[a]].kind
         /\ slot'[reg[a]].state = "COMPLETED" =>
               slot[reg[a]].state = "COMPLETED" /\ slot'[reg[a]].reply = slot[reg[a]].reply
  BY <1>2
<1> QED BY <1>1, <1>3

LEMMA StepPinned ==
    ASSUME UInv, turn.step = NoStep, turn.phase \in {"claim", "pending"}, NEW s \in Slots,
           slot[s].state \in {"QUEUED", "PENDING"}, NEW cursor \in Nat, v[s].pin,
           slot' = [slot EXCEPT ![s].state = "PENDING"],
           turn' = Served([turn EXCEPT !.n = @ + 1, !.cursor = cursor]),
           UNCHANGED <<call, v, pool, network>>
    PROVE  UInv'
<1>1. slot[s].state = "PENDING"
  BY PinnedLive DEF Ended
<1>2. slot' = slot
  <2>1. slot[s] \in SlotRec /\ slot \in [Slots -> SlotRec]
    BY DEF UInv, UType
  <2>2. [slot[s] EXCEPT !.state = "PENDING"] = slot[s]
    BY <1>1, <2>1 DEF SlotRec
  <2> QED BY <2>1, <2>2
<1>3. turn' \in TurnRec /\ turn'.step = NoStep
  <2>1. PICK t : t = [turn EXCEPT !.n = @ + 1, !.cursor = cursor]
    OBVIOUS
  <2>2. /\ t.phase = turn.phase /\ t.n = turn.n + 1 /\ t.cursor = cursor /\ t.step = turn.step
        /\ t = [phase |-> t.phase, n |-> t.n, cursor |-> t.cursor, step |-> t.step]
    BY <2>1, StepType DEF TurnRec
  <2>3. t \in TurnRec /\ t.step = NoStep
    BY <2>2, StepType DEF TurnRec
  <2>4. LoopEnds(t) \in TurnRec /\ LoopEnds(t).step = NoStep
    BY <2>3 DEF LoopEnds, TurnRec
  <2>5. turn' = t \/ turn' = LoopEnds(t)
    BY <2>1 DEF Served
  <2> QED BY <2>3, <2>4, <2>5
<1>4. /\ pc' = pc /\ reg' = reg /\ buf' = buf /\ ret' = ret /\ v' = v
      /\ pool' = pool /\ sock' = sock /\ wire' = wire /\ arrivals' = arrivals
  BY DEF call, network
<1>5. turn.step.s = 0
  BY DEF NoStep
<1>6. UType' /\ Registered' /\ Numbered'
  BY <1>2, <1>3, <1>4 DEF UInv, UType, Registered, Numbered
<1>7. InStep'
  BY <1>2, <1>3, <1>4, <1>5 DEF UInv, InStep
<1>8. Phased' /\ AtRest' /\ Owned' /\ Operations'
  BY <1>2, <1>3, <1>4 DEF UInv, Phased, AtRest, Owned, Operations, Ended, ByPhase, Was, Committed, HoldsHead
<1>9. Places' /\ Pinned'
  BY <1>2, <1>3, <1>4 DEF UInv, Places, Pinned, Ended, Was
<1>10. Transmission' /\ OnWire'
  BY <1>2, <1>4 DEF UInv, Transmission, Unsettled, OnWire, Ended
<1>11. Queue' /\ Once' /\ Arrived'
  BY <1>2, <1>4 DEF UInv, Queue, Once, Arrived, HandedOver, Delivered, Completed
<1> QED BY <1>6, <1>7, <1>8, <1>9, <1>10, <1>11 DEF UInv

LEMMA StepClaims ==
    ASSUME UInv, turn.step = NoStep, turn.phase \in {"claim", "pending"}, NEW s \in Slots,
           slot[s].state \in {"QUEUED", "PENDING"}, NEW cursor \in Nat, NEW expiry \in BOOLEAN,
           ~v[s].pin, expiry => v[s].phase = "COPY",
           slot' = [slot EXCEPT ![s].state = "CLAIMED"],
           v' = [v EXCEPT ![s].phase = IF expiry \/ slot[s].cancel THEN "IO" ELSE @],
           turn' = [turn EXCEPT !.n = @ + 1, !.cursor = cursor,
                        !.step = [s |-> s, p |-> IF expiry THEN "IO" ELSE v[s].phase,
                                  cancel |-> slot[s].cancel, expiry |-> expiry]],
           UNCHANGED <<call, pool, network>>
    PROVE  UInv'
<1> USE UdpAssumption
<1>1. /\ pc' = pc /\ reg' = reg /\ buf' = buf /\ ret' = ret
      /\ pool' = pool /\ sock' = sock /\ wire' = wire /\ arrivals' = arrivals
  BY DEF call, network
<1>2. turn.step.s = 0 /\ \A w \in Slots : slot[w].state # "CLAIMED"
  BY StepType DEF NoStep, UInv, InStep
<1>3. slot \in [Slots -> SlotRec] /\ v \in [Slots -> RequestRec]
  BY DEF UInv, UType
<1>4. /\ slot' \in [Slots -> SlotRec] /\ slot'[s].state = "CLAIMED"
      /\ slot'[s].caller = slot[s].caller /\ slot'[s].cancel = slot[s].cancel
      /\ \A w \in Slots : w # s => slot'[w] = slot[w]
  BY <1>3 DEF SlotRec
<1>5. /\ v' \in [Slots -> RequestRec]
      /\ \A w \in Slots : w # s => v'[w] = v[w]
      /\ v'[s].phase = IF expiry \/ slot[s].cancel THEN "IO" ELSE v[s].phase
      /\ \A w \in Slots : /\ v'[w].id = v[w].id /\ v'[w].kind = v[w].kind
                          /\ v'[w].pin = v[w].pin /\ v'[w].slab = v[w].slab
                          /\ v'[w].active = v[w].active
  BY <1>3 DEF RequestRec, PhasesOf
<1>6. /\ turn' \in TurnRec /\ turn'.phase = turn.phase /\ turn'.step.s = s
      /\ turn'.step.p = IF expiry THEN "IO" ELSE v[s].phase
      /\ turn'.step.cancel = slot[s].cancel /\ turn'.step.expiry = expiry
  <2>1. turn'.step = [s |-> s, p |-> IF expiry THEN "IO" ELSE v[s].phase,
                      cancel |-> slot[s].cancel, expiry |-> expiry]
    BY StepType DEF TurnRec
  <2>2. turn'.step \in StepRec
    BY <2>1, SlotType DEF StepRec, PhasesOf
  <2>3. /\ turn'.phase = turn.phase /\ turn'.n = turn.n + 1 /\ turn'.cursor = cursor
        /\ turn' = [phase |-> turn'.phase, n |-> turn'.n, cursor |-> turn'.cursor, step |-> turn'.step]
    BY StepType DEF TurnRec
  <2>4. turn' \in TurnRec
    BY <2>2, <2>3, StepType DEF TurnRec
  <2> QED BY <2>1, <2>3, <2>4
<1>7. \A w \in Slots : w # s => (Ended(w)' <=> Ended(w))
  BY <1>4 DEF Ended
<1>8. ~Ended(s)'
  BY <1>4 DEF Ended
<1>9. s \in Nat /\ s # 0
  BY DEF Slots
<1>10. \A w \in Slots : Was(w)' = Was(w)
  BY <1>2, <1>5, <1>6, <1>9 DEF Was, Slots
<1>11. Was(s) = v[s].phase
  BY <1>2, <1>9 DEF Was
<1>12. ASSUME slot[s].state = "QUEUED" PROVE Phased' /\ Places' /\ OnWire'
  <2>1. /\ v[s].slab = NoSlab /\ ~v[s].active /\ ~v[s].pin /\ v[s].phase = "IO"
        /\ s \notin pool.waiting
    BY <1>12 DEF UInv, AtRest, Ended
  <2>2. wire[v[s].id].sent = 0
    BY <1>12 DEF UInv, OnWire
  <2>3. \A a \in Actors : reg[a] = s => pc[a] \in {"wait", "idle"}
    BY <1>12 DEF UInv, UType, Places, Ended
  <2>4. Phased'
    <3> SUFFICES ASSUME NEW w \in Slots, ~Ended(w)' PROVE ByPhase(w)'
      BY DEF Phased
    <3>1. CASE w = s
      BY <3>1, <1>5, <1>10, <1>11, <2>1 DEF ByPhase
    <3>2. CASE w # s
      <4>1. ByPhase(w)
        BY <3>2, <1>7 DEF UInv, Phased
      <4> QED BY <4>1, <3>2, <1>1, <1>5, <1>10 DEF ByPhase, Committed, HoldsHead
    <3> QED BY <3>1, <3>2
  <2>5. Places'
    <3> SUFFICES ASSUME NEW a \in Actors
                 PROVE  Places!(a)'
      BY DEF Places
    <3>1. CASE reg[a] = s
      BY <3>1, <1>1, <1>4, <1>5, <1>7, <1>8, <1>10, <1>11, <2>1, <2>3 DEF UInv, Places
    <3>2. CASE reg[a] # s
      BY <3>2, <1>1, <1>4, <1>5, <1>7, <1>10 DEF UInv, UType, Places, Registered
    <3> QED BY <3>1, <3>2
  <2>6. OnWire'
    <3>1. OnWire!1' /\ OnWire!2' /\ OnWire!8'
      BY <1>1, <1>2, <1>4, <1>5, <1>7, <2>2 DEF UInv, UType, OnWire, Registered, Ended
    <3>2. OnWire!3'
      BY <1>1, <1>2, <1>4, <1>5, <1>7, <2>2 DEF UInv, UType, OnWire, Registered, Ended
    <3>3. OnWire!4' /\ OnWire!5'
      BY <1>1, <1>2, <1>4, <1>5, <1>7, <2>2 DEF UInv, UType, OnWire, Registered, Ended
    <3>4. OnWire!6'
      BY <1>1, <1>2, <1>4, <1>5, <1>7, <2>2 DEF UInv, UType, OnWire, Registered, Ended
    <3>5. OnWire!7'
      BY <1>1, <1>4, <1>5, RepliesKept
    <3> QED BY <3>1, <3>2, <3>3, <3>4, <3>5 DEF OnWire
  <2> QED BY <2>4, <2>5, <2>6
<1>13. ASSUME slot[s].state = "PENDING" PROVE Phased' /\ Places' /\ OnWire'
  <2>1. ~Ended(s) /\ \A w \in Slots : Ended(w)' <=> Ended(w)
    BY <1>13, <1>7, <1>8 DEF Ended
  <2>2. Phased'
    <3> SUFFICES ASSUME NEW w \in Slots, ~Ended(w)' PROVE ByPhase(w)'
      BY DEF Phased
    <3>1. ByPhase(w)
      BY <2>1 DEF UInv, Phased
    <3> QED BY <3>1, <1>1, <1>5, <1>10 DEF ByPhase, Committed, HoldsHead
  <2>3. Places'
    <3> SUFFICES ASSUME NEW a \in Actors
                 PROVE  Places!(a)'
      BY DEF Places
    <3>1. CASE reg[a] = s
      BY <3>1, <1>1, <1>4, <1>5, <2>1, <1>10, <1>13 DEF UInv, Places
    <3>2. CASE reg[a] # s
      BY <3>2, <1>1, <1>4, <1>5, <2>1, <1>10 DEF UInv, UType, Places, Registered
    <3> QED BY <3>1, <3>2
  <2>4. OnWire'
    <3>1. OnWire!1' /\ OnWire!2' /\ OnWire!8'
      BY <1>1, <1>2, <1>4, <1>5, <2>1, <1>13 DEF UInv, UType, OnWire, Registered, Ended
    <3>2. OnWire!3'
      BY <1>1, <1>2, <1>4, <1>5, <2>1, <1>13 DEF UInv, UType, OnWire, Registered, Ended
    <3>3. OnWire!4' /\ OnWire!5'
      BY <1>1, <1>2, <1>4, <1>5, <2>1, <1>13 DEF UInv, UType, OnWire, Registered, Ended
    <3>4. OnWire!6'
      BY <1>1, <1>2, <1>4, <1>5, <2>1, <1>13 DEF UInv, UType, OnWire, Registered, Ended
    <3>5. OnWire!7'
      BY <1>1, <1>4, <1>5, RepliesKept
    <3> QED BY <3>1, <3>2, <3>3, <3>4, <3>5 DEF OnWire
  <2> QED BY <2>2, <2>3, <2>4
<1>14. Phased' /\ Places' /\ OnWire'
  BY <1>12, <1>13
<1>15. UType'
  BY <1>1, <1>4, <1>5, <1>6 DEF UInv, UType
<1>16. Registered'
  BY <1>1, <1>2, <1>4 DEF UInv, UType, Registered
<1>17. Numbered'
  BY <1>1, <1>4, <1>5, NumbersKept
<1>18. InStep'
  <2>1. turn'.step # NoStep
    BY <1>6, <1>9 DEF NoStep
  <2>2. v[s].phase \in PhasesOf
    BY SlotType
  <2> QED BY <1>2, <1>4, <1>5, <1>6, <1>9, <2>1, <2>2 DEF InStep, PhasesOf
<1>19. AtRest'
  BY <1>1, <1>4, <1>5, <1>7, <1>8 DEF UInv, AtRest
<1>20. Owned' /\ Operations'
  BY <1>1, <1>5 DEF UInv, Owned, Operations
<1>21. Pinned'
  BY <1>1, <1>5 DEF UInv, Pinned
<1>22. Transmission' /\ Queue' /\ Arrived'
  BY <1>1 DEF UInv, Transmission, Unsettled, Queue, Arrived
<1>23. Once'
  <2>1. \A d : HandedOver(d)' = HandedOver(d)
    BY <1>1, <1>4 DEF UInv, UType, HandedOver, Completed, Registered
  <2> QED BY <1>1, <2>1 DEF UInv, Once, Delivered
<1> QED BY <1>14, <1>15, <1>16, <1>17, <1>18, <1>19, <1>20, <1>21, <1>22, <1>23 DEF UInv

LEMMA StepBeginKeeps ==
    ASSUME UInv, turn.step = NoStep, turn.phase \in {"claim", "pending"}, NEW s \in Slots,
           slot[s].state \in {"QUEUED", "PENDING"}, NEW cursor \in Nat, NEW expiry \in BOOLEAN,
           StepBegin(s, expiry, cursor)
    PROVE  UInv'
<1>1. CASE v[s].pin
  BY <1>1, StepPinned DEF StepBegin
<1>2. CASE ~v[s].pin
  BY <1>2, StepClaims DEF StepBegin
<1> QED BY <1>1, <1>2

LEMMA ClaimKeeps == ASSUME UInv, Claim PROVE UInv'
<1>1. CASE Claimable = {}
  BY <1>1, NothingKeeps DEF Claim
<1>2. CASE Claimable # {}
  <2>1. PICK s \in Claimable : StepBegin(s, FALSE, turn.cursor)
    BY <1>2 DEF Claim
  <2>2. turn.cursor \in Nat
    BY StepType DEF TurnRec
  <2> QED BY <2>1, <2>2, StepBeginKeeps DEF Claim, Claimable
<1> QED BY <1>1, <1>2

LEMMA PendingKeeps == ASSUME UInv, NEW expiry \in BOOLEAN, Pending(expiry) PROVE UInv'
<1>1. CASE Waiting = {}
  BY <1>1, NothingKeeps DEF Pending
<1>2. CASE Waiting # {}
  <2>1. PICK s \in Waiting : StepBegin(s, expiry, s)
    BY <1>2 DEF Pending
  <2> QED BY <2>1, StepBeginKeeps, UdpAssumption DEF Pending, Waiting, Slots
<1> QED BY <1>1, <1>2

--------------------------------------------------------------------------
(* The callers *)

\* Where a registered caller is, and that nobody else is there.
LEMMA CallerAt ==
    ASSUME UInv, NEW a \in Actors, pc[a] # "idle"
    PROVE  /\ reg[a] \in Slots /\ reg[a] # 0 /\ slot[reg[a]].caller /\ slot[reg[a]].state # "FREE"
           /\ v[reg[a]].id \in 1 .. Len(ret) /\ v[reg[a]].kind \in {"send", "recv"}
           /\ \A b \in Actors : reg[b] = reg[a] => b = a
           /\ ret[v[reg[a]].id] = [status |-> NoReply, data |-> 0]
           /\ \A b \in Actors : b # a /\ reg[b] # 0 => v[reg[b]].id # v[reg[a]].id
<1>1. reg[a] \in Slots /\ reg[a] # 0 /\ slot[reg[a]].caller /\ slot[reg[a]].state # "FREE"
  BY DEF UInv, UType, Registered
<1>2. \A b \in Actors : reg[b] = reg[a] => b = a
  BY <1>1 DEF UInv, Registered
<1>3. /\ v[reg[a]].id \in 1 .. Len(ret) /\ v[reg[a]].kind \in {"send", "recv"}
      /\ ret[v[reg[a]].id] = [status |-> NoReply, data |-> 0]
  BY <1>1 DEF UInv, Numbered
<1>4. ASSUME NEW b \in Actors, b # a, reg[b] # 0 PROVE v[reg[b]].id # v[reg[a]].id
  <2>1. reg[b] \in Slots /\ slot[reg[b]].state # "FREE" /\ reg[b] # reg[a]
    BY <1>2, <1>4 DEF UInv, UType, Registered
  <2> QED BY <1>1, <2>1 DEF UInv, Numbered
<1> QED BY <1>1, <1>2, <1>3, <1>4

LEMMA BeginKeeps ==
    ASSUME UInv, NEW a \in Actors, NEW kind \in {"send", "recv"}, NEW nb \in BOOLEAN,
           net_udp_begin(a, kind, nb)
    PROVE  UInv'
<1> USE UdpAssumption
<1>1. PICK s \in Slots :
         /\ slot[s].state = "FREE"
         /\ slot' = [slot EXCEPT ![s] = [FreeSlot EXCEPT !.state = "QUEUED", !.caller = TRUE]]
         /\ v' = [v EXCEPT ![s] = Request(Len(ret) + 1, kind, nb)]
         /\ reg' = [reg EXCEPT ![a] = s]
  BY DEF net_udp_begin
<1>2. /\ pc[a] = "idle" /\ Len(ret) < MaxCalls
      /\ ret' = Append(ret, [status |-> NoReply, data |-> 0])
      /\ pc' = [pc EXCEPT ![a] = "wait"]
      /\ buf' = buf /\ pool' = pool /\ sock' = sock /\ wire' = wire /\ arrivals' = arrivals
      /\ turn' = turn
  BY DEF net_udp_begin, Goto, network
<1>3. /\ pc \in [Actors -> {"idle", "wait", "pinned", "terminal", "ack"}]
      /\ reg \in [Actors -> Slots \cup {0}] /\ buf \in [Actors -> Nat]
      /\ ret \in Seq([status : Statuses, data : Nat])
      /\ slot \in [Slots -> SlotRec] /\ v \in [Slots -> RequestRec]
  BY DEF UInv, UType
<1>4. reg[a] = 0 /\ \A b \in Actors : reg[b] # s
  <2>1. slot[s] = FreeSlot
    BY <1>1 DEF UInv, Numbered
  <2>2. ~slot[s].caller /\ s # 0
    BY <2>1 DEF FreeSlot, Slots
  <2>3. \A b \in Actors : reg[b] # 0 => slot[reg[b]].caller
    BY DEF UInv, Registered
  <2>4. reg[a] = 0
    BY <1>2 DEF UInv, Registered
  <2> QED BY <2>2, <2>3, <2>4
<1>5. /\ pc' \in [Actors -> {"idle", "wait", "pinned", "terminal", "ack"}]
      /\ pc'[a] = "wait" /\ \A b \in Actors : b # a => pc'[b] = pc[b]
  BY <1>2, <1>3
<1>6. /\ reg' \in [Actors -> Slots \cup {0}]
      /\ reg'[a] = s /\ \A b \in Actors : b # a => reg'[b] = reg[b]
  BY <1>1, <1>3
<1>7. /\ slot' \in [Slots -> SlotRec] /\ slot'[s].state = "QUEUED" /\ slot'[s].caller
      /\ \A w \in Slots : w # s => slot'[w] = slot[w]
  <2> DEFINE n == [FreeSlot EXCEPT !.state = "QUEUED", !.caller = TRUE]
  <2>1. n \in SlotRec /\ n.state = "QUEUED" /\ n.caller
    BY DEF FreeSlot, SlotRec, Statuses, NoReply
  <2> HIDE DEF n
  <2>2. slot' = [slot EXCEPT ![s] = n]
    BY <1>1 DEF n
  <2> QED BY <1>3, <2>1, <2>2
<1>8. /\ v' \in [Slots -> RequestRec]
      /\ v'[s].id = Len(ret) + 1 /\ v'[s].kind = kind /\ v'[s].phase = "IO"
      /\ ~v'[s].pin /\ v'[s].slab = NoSlab /\ ~v'[s].active
      /\ \A w \in Slots : w # s => v'[w] = v[w]
  <2> DEFINE n == Request(Len(ret) + 1, kind, nb)
  <2>1. /\ n \in RequestRec /\ n.id = Len(ret) + 1 /\ n.kind = kind /\ n.phase = "IO"
        /\ ~n.pin /\ n.slab = NoSlab /\ ~n.active
    BY <1>3 DEF Request, RequestRec, PhasesOf
  <2> HIDE DEF n
  <2>2. v' = [v EXCEPT ![s] = n]
    BY <1>1 DEF n
  <2> QED BY <1>3, <2>1, <2>2
<1>9. /\ ret' \in Seq([status : Statuses, data : Nat]) /\ Len(ret') = Len(ret) + 1
      /\ ret'[Len(ret) + 1] = [status |-> NoReply, data |-> 0]
      /\ \A c \in 1 .. Len(ret) : ret'[c] = ret[c]
      /\ DOMAIN ret' = 1 .. Len(ret) + 1 /\ DOMAIN ret = 1 .. Len(ret) /\ Len(ret) \in Nat
  <2>1. [status |-> NoReply, data |-> 0] \in [status : Statuses, data : Nat]
    BY DEF Statuses
  <2> QED BY <1>2, <1>3, <2>1
<1>10. /\ v[s].slab = NoSlab /\ ~v[s].active /\ ~v[s].pin /\ s \notin pool.waiting /\ Ended(s)
       /\ turn.step.s # s
  BY <1>1 DEF UInv, AtRest, Ended, InStep
<1>11. Ended(s)' /\ \A w \in Slots : w # s => (Ended(w)' <=> Ended(w)) /\ Was(w)' = Was(w)
  BY <1>2, <1>7, <1>8 DEF Ended, Was
<1>12. \A w \in Slots : w # s => (Committed(w)' <=> Committed(w))
  BY <1>2, <1>5, <1>6, <1>4 DEF Committed
<1>13. UType'
  <2>1. Len(ret') <= MaxCalls
    BY <1>2, <1>9
  <2> QED BY <1>2, <1>5, <1>6, <1>7, <1>8, <1>9, <2>1 DEF UInv, UType
<1>14. Registered'
  <2> USE DEF Slots
  <2>1. \A b \in Actors : reg'[b] = 0 <=> pc'[b] = "idle"
    BY <1>5, <1>6 DEF UInv, Registered
  <2>2. \A b \in Actors : reg'[b] # 0 => slot'[reg'[b]].caller /\ slot'[reg'[b]].state # "FREE"
    BY <1>4, <1>6, <1>7, <1>3 DEF UInv, Registered
  <2>3. \A b, c \in Actors : reg'[b] # 0 /\ reg'[b] = reg'[c] => b = c
    BY <1>4, <1>6 DEF UInv, Registered
  <2>4. \A w \in Slots : slot'[w].caller => \E b \in Actors : reg'[b] = w
    <3> TAKE w \in Slots
    <3>1. CASE w = s
      BY <3>1, <1>6
    <3>2. CASE w # s
      <4> SUFFICES ASSUME slot[w].caller PROVE \E b \in Actors : reg'[b] = w
        BY <3>2, <1>7
      <4>1. PICK b \in Actors : reg[b] = w
        BY DEF UInv, Registered
      <4>2. b # a
        BY <4>1, <1>4
      <4> QED BY <4>1, <4>2, <1>6
    <3> QED BY <3>1, <3>2
  <2> QED BY <2>1, <2>2, <2>3, <2>4 DEF Registered
<1>15. Numbered'
  <2>1. \A w \in Slots : slot'[w].state = "FREE" => slot'[w] = FreeSlot /\ v'[w] = NoRequest
    BY <1>7, <1>8 DEF UInv, Numbered
  <2>2. \A w \in Slots : slot'[w].state # "FREE" =>
           v'[w].id \in 1 .. Len(ret') /\ v'[w].kind \in {"send", "recv"}
    BY <1>7, <1>8, <1>9 DEF UInv, Numbered
  <2>3. ASSUME NEW w \in Slots, NEW x \in Slots, slot'[w].state # "FREE", slot'[x].state # "FREE",
               v'[w].id = v'[x].id
        PROVE  w = x
    <3>1. \A y \in Slots : y # s /\ slot'[y].state # "FREE" => v[y].id # Len(ret) + 1
      BY <1>7, <1>9 DEF UInv, Numbered
    <3> QED BY <2>3, <3>1, <1>7, <1>8 DEF UInv, Numbered
  <2>4. ASSUME NEW b \in Actors, reg'[b] # 0
        PROVE  ret'[v'[reg'[b]].id] = [status |-> NoReply, data |-> 0]
    <3>1. CASE b = a
      BY <3>1, <1>6, <1>8, <1>9
    <3>2. CASE b # a
      <4>1. reg'[b] = reg[b] /\ reg[b] \in Slots /\ reg[b] # s
        BY <3>2, <2>4, <1>3, <1>4, <1>6
      <4>2. v[reg[b]].id \in 1 .. Len(ret) /\ ret[v[reg[b]].id] = [status |-> NoReply, data |-> 0]
        BY <4>1, <2>4 DEF UInv, Registered, Numbered
      <4> QED BY <4>1, <4>2, <1>8, <1>9
    <3> QED BY <3>1, <3>2
  <2> QED BY <2>1, <2>2, <2>3, <2>4 DEF Numbered
<1>16. InStep'
  <2>1. \A w \in Slots : slot'[w].state = "CLAIMED" <=> turn'.step.s = w
    BY <1>2, <1>7, <1>10 DEF UInv, InStep
  <2>2. turn.step.s # 0 => v'[turn.step.s] = v[turn.step.s]
    BY <1>8, <1>10, StepType
  <2> QED BY <1>2, <2>1, <2>2 DEF UInv, InStep
<1>17. Phased'
  <2> SUFFICES ASSUME NEW w \in Slots, ~Ended(w)' PROVE ByPhase(w)'
    BY DEF Phased
  <2>1. w # s /\ ByPhase(w)
    BY <1>11 DEF UInv, Phased
  <2> QED BY <2>1, <1>2, <1>8, <1>11, <1>12 DEF ByPhase, HoldsHead
<1>18. AtRest'
  BY <1>2, <1>8, <1>10, <1>11 DEF UInv, AtRest
<1>19. Owned'
  <2>1. \A w \in Slots : v'[w].slab = v[w].slab
    BY <1>8, <1>10
  <2> QED BY <2>1, <1>2 DEF UInv, Owned
<1>20. Operations'
  BY <1>2, <1>8, <1>10 DEF UInv, Operations
<1>21. Places'
  <2> SUFFICES ASSUME NEW b \in Actors PROVE Places!(b)'
    BY DEF Places
  <2>1. CASE b = a
    BY <2>1, <1>2, <1>5, <1>6, <1>7, <1>11 DEF UInv, Places
  <2>2. CASE b # a
    <3>1. pc'[b] = pc[b] /\ reg'[b] = reg[b] /\ buf'[b] = buf[b]
      BY <2>2, <1>2, <1>5, <1>6
    <3>2. CASE pc[b] = "idle"
      BY <3>1, <3>2 DEF UInv, Places
    <3>3. CASE pc[b] # "idle"
      <4>1. reg[b] \in Slots /\ reg[b] # s
        BY <3>3, <1>4, CallerAt
      <4> QED BY <4>1, <3>1, <3>3, <1>2, <1>7, <1>8, <1>11 DEF UInv, Places
    <3> QED BY <3>2, <3>3
  <2> QED BY <2>1, <2>2
<1>22. Pinned'
  <2>1. \A b \in Actors : pc'[b] = "pinned" => v'[reg'[b]].pin
    <3> SUFFICES ASSUME NEW b \in Actors, pc'[b] = "pinned" PROVE v'[reg'[b]].pin
      OBVIOUS
    <3>1. b # a /\ pc[b] = "pinned"
      BY <1>5
    <3>2. reg[b] \in Slots /\ reg[b] # s
      BY <3>1, <1>4, CallerAt
    <3> QED BY <3>1, <3>2, <1>6, <1>8 DEF UInv, Pinned
  <2>2. ASSUME NEW w \in Slots, v'[w].pin
        PROVE  v'[w].phase = "COPY" /\ \E b \in Actors : reg'[b] = w /\ pc'[b] = "pinned"
    <3>1. w # s /\ v[w].pin
      BY <2>2, <1>8
    <3>2. PICK b \in Actors : reg[b] = w /\ pc[b] = "pinned"
      BY <3>1 DEF UInv, Pinned
    <3> QED BY <3>1, <3>2, <1>2, <1>5, <1>6, <1>8 DEF UInv, Pinned
  <2> QED BY <2>1, <2>2 DEF Pinned
<1>23. Transmission' /\ Queue'
  BY <1>2 DEF UInv, Transmission, Unsettled, Queue
<1>24. OnWire'
  <2>1. \A c \in 1 .. MaxCalls : wire'[c].sent <= 1 /\ (c > Len(ret') => wire'[c].sent = 0)
    BY <1>2, <1>9 DEF UInv, OnWire
  <2>2. Len(ret) + 1 \in 1 .. MaxCalls /\ wire[Len(ret) + 1].sent = 0
    BY <1>2, <1>9 DEF UInv, OnWire
  <2>3. \A w \in Slots : slot'[w].state # "FREE" /\ v'[w].kind = "recv" => wire'[v'[w].id].sent = 0
    BY <2>2, <1>2, <1>7, <1>8 DEF UInv, OnWire
  <2>4. \A w \in Slots : ~Ended(w)' /\ ~v'[w].active => wire'[v'[w].id].sent = 0
    BY <1>2, <1>8, <1>11 DEF UInv, OnWire
  <2>5. \A w \in Slots : slot'[w].state = "QUEUED" => wire'[v'[w].id].sent = 0
    BY <2>2, <1>2, <1>7, <1>8 DEF UInv, OnWire
  <2>6. ASSUME NEW b \in Actors
        PROVE  /\ pc'[b] \in {"wait", "pinned"} => wire'[v'[reg'[b]].id].sent = 0
               /\ reg'[b] # 0 /\ slot'[reg'[b]].state = "COMPLETED" /\ v'[reg'[b]].kind = "send" =>
                     /\ slot'[reg'[b]].reply = "OK" => wire'[v'[reg'[b]].id].sent = 1
                     /\ slot'[reg'[b]].reply \in {"EINTR", "EAGAIN", "EFAULT"} =>
                           wire'[v'[reg'[b]].id].sent = 0 \/ wire'[v'[reg'[b]].id].down
    <3>1. CASE b = a
      BY <3>1, <2>2, <1>2, <1>5, <1>6, <1>7, <1>8
    <3>2. CASE b # a /\ pc[b] = "idle"
      BY <3>2, <1>5, <1>6 DEF UInv, Registered
    <3>3. CASE b # a /\ pc[b] # "idle"
      <4>1. reg[b] \in Slots /\ reg[b] # s /\ reg[b] # 0
        BY <3>3, <1>4, CallerAt
      <4> QED BY <4>1, <3>3, <1>2, <1>5, <1>6, <1>7, <1>8 DEF UInv, OnWire
    <3> QED BY <3>1, <3>2, <3>3
  <2>7. \A c \in DOMAIN ret' :
          /\ ret'[c].status = "OK" /\ ret'[c].data = 0 => wire'[c].sent = 1
          /\ ret'[c].status \in {"EINTR", "EAGAIN", "EFAULT"} => wire'[c].sent = 0 \/ wire'[c].down
    BY <1>2, <1>9 DEF UInv, OnWire, NoReply
  <2> QED BY <2>1, <2>3, <2>4, <2>5, <2>6, <2>7 DEF OnWire
<1>25. Once'
  <2>1. ASSUME NEW d \in 1 .. arrivals PROVE Delivered(d)' = Delivered(d)
    <3>1. d # 0 /\ arrivals \in Nat
      BY DEF UInv, UType
    <3> QED BY <3>1, <1>9 DEF Delivered
  <2>2. ASSUME NEW d PROVE HandedOver(d)' = HandedOver(d)
    <3>1. ASSUME NEW b \in Actors
          PROVE  (pc'[b] # "idle" /\ Completed(b)' /\ slot'[reg'[b]].reply = "OK" /\ buf'[b] = d)
                   <=> (pc[b] # "idle" /\ Completed(b) /\ slot[reg[b]].reply = "OK" /\ buf[b] = d)
      <4>1. CASE b = a
        BY <4>1, <1>2, <1>5, <1>6, <1>7 DEF Completed
      <4>2. CASE b # a /\ pc[b] = "idle"
        BY <4>2, <1>5
      <4>3. CASE b # a /\ pc[b] # "idle"
        <5>1. reg[b] \in Slots /\ reg[b] # s
          BY <4>3, <1>4, CallerAt
        <5> QED BY <5>1, <4>3, <1>2, <1>5, <1>6, <1>7 DEF Completed
      <4> QED BY <4>1, <4>2, <4>3
    <3> QED BY <3>1 DEF HandedOver
  <2>3. DOMAIN ret \subseteq DOMAIN ret'
    BY <1>9
  <2> SUFFICES ASSUME NEW d \in 1 .. arrivals PROVE Once!(d)'
    BY <1>2 DEF Once
  <2>4. Once!(d)
    BY DEF UInv, Once
  <2> QED BY <1>2, <2>1, <2>2, <2>3, <2>4
<1>26. Arrived'
  BY <1>2, <1>9 DEF UInv, UType, Arrived
<1> QED BY <1>13, <1>14, <1>15, <1>16, <1>17, <1>18, <1>19, <1>20, <1>21, <1>22, <1>23,
           <1>24, <1>25, <1>26 DEF UInv

LEMMA ReturnKeeps ==
    ASSUME UInv, NEW a \in Actors, NEW status \in Statuses, Return(a, status),
           pc[a] \in {"wait", "terminal", "ack"},
           \/ Completed(a) /\ status = slot[reg[a]].reply
           \/ pc[a] = "wait" /\ status \in {"EINTR", "EFAULT"}
    PROVE  UInv'
<1> USE UdpAssumption
<1>1. PICK s \in Slots : s = reg[a]
  BY CallerAt
<1>2. PICK c : c = v[s].id
  OBVIOUS
<1>3. /\ slot[s].caller /\ slot[s].state # "FREE" /\ c \in 1 .. Len(ret)
      /\ v[s].kind \in {"send", "recv"} /\ reg[a] # 0 /\ pc[a] # "idle" /\ pc[a] # "pinned"
      /\ ret[c] = [status |-> NoReply, data |-> 0]
      /\ \A b \in Actors : b # a => reg[b] # s
      /\ \A b \in Actors : b # a /\ reg[b] # 0 => v[reg[b]].id # c
  BY <1>1, <1>2, CallerAt
<1>4. PICK data : data = IF status = "OK" /\ v[s].kind = "recv" THEN buf[a] ELSE 0
  OBVIOUS
<1>5. /\ slot' = [slot EXCEPT ![s].caller = FALSE, ![s].cancel = @ \/ ~Completed(a)]
      /\ ret' = [ret EXCEPT ![c] = [status |-> status, data |-> data]]
      /\ reg' = [reg EXCEPT ![a] = 0] /\ buf' = [buf EXCEPT ![a] = 0]
      /\ pc' = [pc EXCEPT ![a] = "idle"]
      /\ v' = v /\ pool' = pool /\ sock' = sock /\ wire' = wire /\ arrivals' = arrivals
      /\ turn' = turn
  BY <1>1, <1>2, <1>4 DEF Return, Goto, network, Rec
<1>6. /\ pc \in [Actors -> {"idle", "wait", "pinned", "terminal", "ack"}]
      /\ reg \in [Actors -> Slots \cup {0}] /\ buf \in [Actors -> Nat]
      /\ ret \in Seq([status : Statuses, data : Nat]) /\ slot \in [Slots -> SlotRec]
  BY DEF UInv, UType
<1>7. /\ slot' \in [Slots -> SlotRec] /\ ~slot'[s].caller
      /\ \A w \in Slots : slot'[w].state = slot[w].state /\ slot'[w].reply = slot[w].reply
      /\ \A w \in Slots : w # s => slot'[w] = slot[w]
  <2>1. PICK n : n = [slot[s] EXCEPT !.caller = FALSE, !.cancel = @ \/ ~Completed(a)]
    OBVIOUS
  <2>2. slot[s] \in SlotRec /\ Completed(a) \in BOOLEAN
    BY <1>6 DEF Completed
  <2>3. n \in SlotRec /\ ~n.caller /\ n.state = slot[s].state /\ n.reply = slot[s].reply
    BY <2>1, <2>2 DEF SlotRec
  <2>4. slot' = [slot EXCEPT ![s] = n]
    BY <2>1, <1>5, <1>6
  <2> QED BY <2>3, <2>4, <1>6
<1>8. /\ pc' \in [Actors -> {"idle", "wait", "pinned", "terminal", "ack"}]
      /\ reg' \in [Actors -> Slots \cup {0}] /\ buf' \in [Actors -> Nat]
      /\ pc'[a] = "idle" /\ reg'[a] = 0 /\ buf'[a] = 0
      /\ \A b \in Actors : b # a => pc'[b] = pc[b] /\ reg'[b] = reg[b] /\ buf'[b] = buf[b]
  BY <1>5, <1>6
<1>9. /\ ret' \in Seq([status : Statuses, data : Nat]) /\ Len(ret') = Len(ret)
      /\ DOMAIN ret' = DOMAIN ret /\ DOMAIN ret = 1 .. Len(ret)
      /\ ret'[c].status = status /\ ret'[c].data = data
      /\ \A x \in DOMAIN ret : x # c => ret'[x] = ret[x]
  <2>1. [status |-> status, data |-> data] \in [status : Statuses, data : Nat]
    BY <1>4, <1>6
  <2> QED BY <2>1, <1>3, <1>5, <1>6
<1>10. \A w \in Slots : (Ended(w)' <=> Ended(w)) /\ Was(w)' = Was(w)
  BY <1>5, <1>7 DEF Ended, Was
<1>11. \A w \in Slots : w # s => (Committed(w)' <=> Committed(w))
  BY <1>1, <1>3, <1>8 DEF Committed, Slots
<1>12. UType'
  BY <1>5, <1>7, <1>8, <1>9 DEF UInv, UType
<1>13. Registered'
  <2>1. \A b \in Actors : reg'[b] = 0 <=> pc'[b] = "idle"
    BY <1>8 DEF UInv, Registered
  <2>2. \A b \in Actors : reg'[b] # 0 => slot'[reg'[b]].caller /\ slot'[reg'[b]].state # "FREE"
    <3> SUFFICES ASSUME NEW b \in Actors, reg'[b] # 0
                 PROVE  slot'[reg'[b]].caller /\ slot'[reg'[b]].state # "FREE"
      OBVIOUS
    <3>1. b # a /\ reg'[b] = reg[b] /\ reg[b] # s /\ reg[b] # 0
      BY <1>3, <1>8
    <3>2. PICK w \in Slots : w = reg[b]
      BY <3>1, <1>6
    <3>3. slot[w].caller /\ slot[w].state # "FREE"
      BY <3>1, <3>2 DEF UInv, Registered
    <3> QED BY <3>1, <3>2, <3>3, <1>7
  <2>3. \A b, x \in Actors : reg'[b] # 0 /\ reg'[b] = reg'[x] => b = x
    BY <1>8 DEF UInv, Registered
  <2>4. \A w \in Slots : slot'[w].caller => \E b \in Actors : reg'[b] = w
    <3> SUFFICES ASSUME NEW w \in Slots, slot'[w].caller PROVE \E b \in Actors : reg'[b] = w
      OBVIOUS
    <3>1. w # s /\ slot[w].caller
      BY <1>7
    <3>2. PICK b \in Actors : reg[b] = w
      BY <3>1 DEF UInv, Registered
    <3> QED BY <3>1, <3>2, <1>1, <1>8
  <2> QED BY <2>1, <2>2, <2>3, <2>4 DEF Registered
<1>14. Numbered'
  <2>1. /\ \A w \in Slots : slot'[w].state = "FREE" => slot'[w] = FreeSlot /\ v'[w] = NoRequest
        /\ \A w \in Slots : slot'[w].state # "FREE" =>
              v'[w].id \in 1 .. Len(ret') /\ v'[w].kind \in {"send", "recv"}
        /\ \A w, x \in Slots : slot'[w].state # "FREE" /\ slot'[x].state # "FREE"
              /\ v'[w].id = v'[x].id => w = x
    BY <1>3, <1>5, <1>7, <1>9 DEF UInv, Numbered
  <2>2. ASSUME NEW b \in Actors, reg'[b] # 0
        PROVE  ret'[v'[reg'[b]].id] = [status |-> NoReply, data |-> 0]
    <3>1. b # a /\ reg'[b] = reg[b] /\ reg[b] # 0
      BY <2>2, <1>8
    <3>2. v[reg[b]].id # c /\ v[reg[b]].id \in DOMAIN ret
      BY <3>1, <1>3, <1>6, <1>9 DEF UInv, Registered, Numbered
    <3> QED BY <3>1, <3>2, <1>5, <1>9 DEF UInv, Numbered
  <2> QED BY <2>1, <2>2 DEF Numbered
<1>15. InStep'
  BY <1>5, <1>7 DEF UInv, InStep
<1>16. Phased'
  <2> SUFFICES ASSUME NEW w \in Slots, ~Ended(w)' PROVE ByPhase(w)'
    BY DEF Phased
  <2>1. ByPhase(w) /\ ~Ended(w)
    BY <1>10 DEF UInv, Phased
  <2>2. CASE w # s
    BY <2>1, <2>2, <1>5, <1>10, <1>11 DEF ByPhase, HoldsHead
  <2>3. CASE w = s
    <3>1. pc[a] = "wait"
      BY <2>1, <2>3, <1>1 DEF Completed, Ended
    <3>2. Was(s) \in {"IO", "COPY"}
      BY <3>1, <2>1, <2>3, <1>1 DEF UInv, Places
    <3> QED BY <2>1, <2>3, <3>2, <1>5, <1>10 DEF ByPhase, HoldsHead
  <2> QED BY <2>2, <2>3
<1>17. AtRest' /\ Owned' /\ Operations'
  BY <1>5, <1>10 DEF UInv, AtRest, Owned, Operations
<1>18. Places'
  <2> SUFFICES ASSUME NEW b \in Actors PROVE Places!(b)'
    BY DEF Places
  <2>1. CASE b = a
    BY <2>1, <1>8
  <2>2. CASE b # a /\ pc[b] = "idle"
    BY <2>2, <1>8 DEF UInv, Places
  <2>3. CASE b # a /\ pc[b] # "idle"
    <3>1. reg[b] \in Slots
      BY <2>3, CallerAt
    <3> QED BY <3>1, <2>3, <1>5, <1>7, <1>8, <1>10 DEF UInv, Places
  <2> QED BY <2>1, <2>2, <2>3
<1>19. Pinned'
  BY <1>3, <1>5, <1>8 DEF UInv, Pinned
<1>20. Transmission' /\ Queue'
  BY <1>5 DEF UInv, Transmission, Unsettled, Queue
<1>21. status = "OK" => Completed(a) /\ pc[a] \in {"terminal", "ack"} /\ slot[s].reply = "OK"
  BY <1>1 DEF UInv, Places, Completed
<1>22. OnWire'
  <2>1. \A x \in 1 .. MaxCalls : wire'[x].sent <= 1 /\ (x > Len(ret') => wire'[x].sent = 0)
    BY <1>5, <1>9 DEF UInv, OnWire
  <2>2. /\ \A w \in Slots : slot'[w].state # "FREE" /\ v'[w].kind = "recv" => wire'[v'[w].id].sent = 0
        /\ \A w \in Slots : ~Ended(w)' /\ ~v'[w].active => wire'[v'[w].id].sent = 0
        /\ \A w \in Slots : slot'[w].state = "QUEUED" => wire'[v'[w].id].sent = 0
    BY <1>5, <1>7, <1>10 DEF UInv, OnWire
  <2>3. ASSUME NEW b \in Actors
        PROVE  /\ pc'[b] \in {"wait", "pinned"} => wire'[v'[reg'[b]].id].sent = 0
               /\ reg'[b] # 0 /\ slot'[reg'[b]].state = "COMPLETED" /\ v'[reg'[b]].kind = "send" =>
                     /\ slot'[reg'[b]].reply = "OK" => wire'[v'[reg'[b]].id].sent = 1
                     /\ slot'[reg'[b]].reply \in {"EINTR", "EAGAIN", "EFAULT"} =>
                           wire'[v'[reg'[b]].id].sent = 0 \/ wire'[v'[reg'[b]].id].down
    <3>1. CASE b = a
      BY <3>1, <1>8
    <3>2. CASE b # a /\ pc[b] = "idle"
      BY <3>2, <1>8 DEF UInv, Registered
    <3>3. CASE b # a /\ pc[b] # "idle"
      <4>1. reg[b] \in Slots /\ reg[b] # 0
        BY <3>3, CallerAt
      <4> QED BY <4>1, <3>3, <1>5, <1>7, <1>8 DEF UInv, OnWire
    <3> QED BY <3>1, <3>2, <3>3
  <2>4. status = "OK" /\ data = 0 => wire[c].sent = 1
    <3> SUFFICES ASSUME status = "OK", data = 0 PROVE wire[c].sent = 1
      OBVIOUS
    <3>1. v[s].kind = "send"
      BY <1>1, <1>3, <1>4, <1>21 DEF UInv, Places
    <3> QED BY <3>1, <1>1, <1>2, <1>3, <1>21 DEF UInv, OnWire, Completed
  <2>5. status \in {"EINTR", "EAGAIN", "EFAULT"} => wire[c].sent = 0 \/ wire[c].down
    <3>1. CASE pc[a] = "wait"
      BY <3>1, <1>1, <1>2 DEF UInv, OnWire
    <3>2. CASE Completed(a) /\ status = slot[s].reply /\ v[s].kind = "send"
      BY <3>2, <1>1, <1>2, <1>3 DEF UInv, OnWire, Completed
    <3>3. CASE v[s].kind = "recv"
      BY <3>3, <1>2, <1>3 DEF UInv, OnWire
    <3> QED BY <3>1, <3>2, <3>3, <1>1, <1>3
  <2>6. \A x \in DOMAIN ret' :
          /\ ret'[x].status = "OK" /\ ret'[x].data = 0 => wire'[x].sent = 1
          /\ ret'[x].status \in {"EINTR", "EAGAIN", "EFAULT"} => wire'[x].sent = 0 \/ wire'[x].down
    BY <2>4, <2>5, <1>5, <1>9 DEF UInv, OnWire
  <2> QED BY <2>1, <2>2, <2>3, <2>6 DEF OnWire
<1>23. Arrived'
  BY <1>4, <1>5, <1>8, <1>9 DEF UInv, UType, Arrived
<1>24. Once'
  <2>1. \A d, b : b # a => (b \in HandedOver(d)' <=> b \in HandedOver(d))
    <3> SUFFICES ASSUME NEW d, NEW b \in Actors, b # a, pc[b] # "idle"
                 PROVE  Completed(b)' <=> Completed(b)
      BY <1>7, <1>8, CallerAt DEF HandedOver
    <3> QED BY <1>7, <1>8, CallerAt DEF Completed
  <2>2. \A d : a \notin HandedOver(d)'
    BY <1>8 DEF HandedOver
  <2>3. \A d, x : x # c => (x \in Delivered(d)' <=> x \in Delivered(d))
    BY <1>9 DEF Delivered
  <2>4. \A d : c \in Delivered(d)' <=> data = d
    BY <1>3, <1>9 DEF Delivered
  <2>5. \A d : d # 0 => c \notin Delivered(d)
    BY <1>3 DEF Delivered
  <2> SUFFICES ASSUME NEW d \in 1 .. arrivals PROVE Once!(d)'
    BY <1>5 DEF Once
  <2>6. d # 0 /\ Once!(d)
    <3>1. d # 0
      BY DEF UInv, UType
    <3> QED BY <3>1 DEF UInv, Once
  <2>7. a \in HandedOver(d) <=> data = d
    <3>1. CASE a \in HandedOver(d)
      <4>1. Completed(a) /\ slot[s].reply = "OK" /\ buf[a] = d
        BY <3>1, <1>1 DEF HandedOver
      <4>2. pc[a] # "wait"
        BY <4>1, <2>6 DEF UInv, Places
      <4>3. v[s].kind = "recv"
        BY <4>1, <4>2, <2>6, <1>1, <1>3 DEF UInv, Places
      <4> QED BY <3>1, <4>1, <4>2, <4>3, <1>1, <1>4
    <3>2. CASE data = d
      BY <3>2, <1>1, <1>3, <1>4, <1>21, <2>6 DEF HandedOver
    <3> QED BY <3>1, <3>2
  <2>8. CASE data = d
    <3>1. HandedOver(d) = {a} /\ Delivered(d) = {} /\ d <= arrivals - Len(sock.rx)
      BY <2>6, <2>7, <2>8
    <3>2. HandedOver(d)' = {} /\ Delivered(d)' = {c}
      BY <3>1, <2>1, <2>2, <2>3, <2>4, <2>8
    <3> QED BY <3>1, <3>2, <1>3, <1>5, <1>9
  <2>9. CASE data # d
    <3>1. HandedOver(d)' = HandedOver(d) /\ Delivered(d)' = Delivered(d)
      <4>1. \A b : b \in HandedOver(d)' <=> b \in HandedOver(d)
        BY <2>1, <2>2, <2>7, <2>9
      <4>2. \A x : x \in Delivered(d)' <=> x \in Delivered(d)
        BY <2>3, <2>4, <2>5, <2>6, <2>9
      <4> QED BY <4>1, <4>2 DEF HandedOver, Delivered
    <3> QED BY <3>1, <2>6, <1>5, <1>9
  <2> QED BY <2>8, <2>9
<1> QED BY <1>12, <1>13, <1>14, <1>15, <1>16, <1>17, <1>18, <1>19, <1>20, <1>22, <1>23, <1>24
        DEF UInv

\* A step of the caller that leaves the transport's states, the network and
\* the worker alone keeps what is said about them.
LEMMA PinKeeps == ASSUME UInv, NEW a \in Actors, pc[a] = "wait", net_udp_pin(a) PROVE UInv'
<1> USE UdpAssumption
<1>1. PICK s \in Slots : s = reg[a]
  BY CallerAt
<1>2. /\ v[s].phase = "COPY" /\ ~v[s].pin /\ v[s].slab # NoSlab
      /\ v' = [v EXCEPT ![s].pin = TRUE] /\ pc' = [pc EXCEPT ![a] = "pinned"]
      /\ reg' = reg /\ buf' = buf /\ ret' = ret /\ slot' = slot /\ pool' = pool /\ sock' = sock
      /\ wire' = wire /\ arrivals' = arrivals /\ turn' = turn
  BY <1>1 DEF net_udp_pin, Goto, network, Rec
<1>3. /\ slot[s].state # "FREE" /\ \A b \in Actors : b # a => reg[b] # s
      /\ ~Ended(s)
  BY <1>1, <1>2, CallerAt DEF UInv, AtRest
<1>4. /\ v \in [Slots -> RequestRec]
      /\ pc \in [Actors -> {"idle", "wait", "pinned", "terminal", "ack"}]
  BY DEF UInv, UType
<1>5. /\ v' \in [Slots -> RequestRec] /\ v'[s].pin
      /\ \A w \in Slots : w # s => v'[w] = v[w]
      /\ \A w \in Slots : /\ v'[w].id = v[w].id /\ v'[w].kind = v[w].kind
                          /\ v'[w].phase = v[w].phase /\ v'[w].slab = v[w].slab
                          /\ v'[w].active = v[w].active
  <2>1. PICK n : n = [v[s] EXCEPT !.pin = TRUE]
    OBVIOUS
  <2>2. /\ n \in RequestRec /\ n.pin /\ n.id = v[s].id /\ n.kind = v[s].kind
        /\ n.phase = v[s].phase /\ n.slab = v[s].slab /\ n.active = v[s].active
    BY <2>1, <1>4 DEF RequestRec
  <2>3. v' = [v EXCEPT ![s] = n]
    BY <2>1, <1>2, <1>4
  <2> QED BY <2>2, <2>3, <1>4
<1>6. /\ pc' \in [Actors -> {"idle", "wait", "pinned", "terminal", "ack"}]
      /\ pc'[a] = "pinned" /\ \A b \in Actors : b # a => pc'[b] = pc[b]
  BY <1>2, <1>4
<1>7. \A w \in Slots : (Ended(w)' <=> Ended(w)) /\ Was(w)' = Was(w)
  BY <1>2, <1>5 DEF Ended, Was
<1>8. \A w \in Slots : Committed(w)' <=> Committed(w)
  BY <1>2, <1>6 DEF Committed
<1>9. UType'
  BY <1>2, <1>5, <1>6 DEF UInv, UType
<1>10. Registered'
  BY <1>2, <1>6 DEF UInv, Registered
<1>11. \A w \in Slots : slot[w].state = "FREE" => v'[w] = v[w]
  BY <1>3, <1>5
<1>12. Numbered'
  BY <1>2, <1>5, <1>11, NumbersKept
<1>13. InStep'
  <2>1. turn.step.s # 0 => v'[turn.step.s].phase = v[turn.step.s].phase
    BY <1>5, StepType
  <2> QED BY <1>2, <2>1 DEF UInv, InStep
<1>14. Phased'
  BY <1>2, <1>5, <1>7, <1>8 DEF UInv, Phased, ByPhase, HoldsHead
<1>15. AtRest'
  BY <1>2, <1>3, <1>5, <1>7 DEF UInv, AtRest
<1>16. Owned' /\ Operations'
  BY <1>2, <1>5 DEF UInv, Owned, Operations
<1>17. Places'
  <2> SUFFICES ASSUME NEW b \in Actors PROVE Places!(b)'
    BY DEF Places
  <2>1. CASE b = a
    BY <2>1, <1>1, <1>2, <1>3, <1>6, <1>7 DEF UInv, Places
  <2>2. CASE b # a /\ pc[b] = "idle"
    BY <2>2, <1>2, <1>6 DEF UInv, Places
  <2>3. CASE b # a /\ pc[b] # "idle"
    <3>1. reg[b] \in Slots
      BY <2>3, CallerAt
    <3> QED BY <3>1, <2>3, <1>2, <1>5, <1>6, <1>7 DEF UInv, Places
  <2> QED BY <2>1, <2>2, <2>3
<1>18. Pinned'
  <2>1. ASSUME NEW b \in Actors, pc'[b] = "pinned" PROVE v'[reg'[b]].pin
    <3>1. CASE b = a
      BY <3>1, <1>1, <1>2, <1>5
    <3>2. CASE b # a
      <4>1. pc[b] = "pinned" /\ reg[b] \in Slots /\ reg[b] # s
        BY <3>2, <2>1, <1>3, <1>6, CallerAt
      <4> QED BY <4>1, <1>2, <1>5 DEF UInv, Pinned
    <3> QED BY <3>1, <3>2
  <2>2. ASSUME NEW w \in Slots, v'[w].pin
        PROVE  v'[w].phase = "COPY" /\ \E b \in Actors : reg'[b] = w /\ pc'[b] = "pinned"
    <3>1. CASE w = s
      BY <3>1, <1>1, <1>2, <1>5, <1>6
    <3>2. CASE w # s
      <4>1. v[w].pin
        BY <3>2, <2>2, <1>5
      <4>2. PICK b \in Actors : reg[b] = w /\ pc[b] = "pinned"
        BY <4>1 DEF UInv, Pinned
      <4> QED BY <4>1, <4>2, <1>2, <1>5, <1>6 DEF UInv, Pinned
    <3> QED BY <3>1, <3>2
  <2> QED BY <2>1, <2>2 DEF Pinned
<1>19. Transmission' /\ Queue' /\ Arrived'
  BY <1>2 DEF UInv, Transmission, Unsettled, Queue, Arrived
<1>20. OnWire'
  <2>1. OnWire!1' /\ OnWire!2' /\ OnWire!8'
    BY <1>2, <1>5, <1>6, <1>7, <1>4 DEF UInv, UType, Registered, OnWire
  <2>2. OnWire!3'
    BY <1>2, <1>5, <1>6, <1>7, <1>4 DEF UInv, UType, Registered, OnWire
  <2>3. OnWire!4' /\ OnWire!5'
    BY <1>2, <1>5, <1>6, <1>7, <1>4 DEF UInv, UType, Registered, OnWire
  <2>4. OnWire!6'
    BY <1>2, <1>5, <1>6, <1>7, <1>4 DEF UInv, UType, Registered, OnWire
  <2>5. OnWire!7'
    BY <1>2, <1>5, RepliesKept
  <2> QED BY <2>1, <2>2, <2>3, <2>4, <2>5 DEF OnWire
<1>21. Once'
  <2>1. \A d : HandedOver(d)' = HandedOver(d)
    BY <1>2, <1>6 DEF HandedOver, Completed
  <2> QED BY <1>2, <2>1 DEF UInv, Once, Delivered
<1> QED BY <1>9, <1>10, <1>12, <1>13, <1>14, <1>15, <1>16, <1>17, <1>18, <1>19, <1>20, <1>21
        DEF UInv

\* The head of a queue that is not empty is a datagram that has arrived.
LEMMA HeadArrived ==
    ASSUME UInv, sock.rx # <<>>
    PROVE  /\ sock.rx \in Seq(Nat) /\ Len(sock.rx) \in Nat /\ Len(sock.rx) >= 1 /\ arrivals \in Nat
           /\ Len(sock.rx) <= arrivals
           /\ Head(sock.rx) = arrivals - Len(sock.rx) + 1
           /\ Head(sock.rx) \in 1 .. arrivals
<1>1. sock.rx \in Seq(Nat) /\ arrivals \in Nat
  BY DEF UInv, UType, SockRec
<1>2. Len(sock.rx) \in Nat /\ Len(sock.rx) >= 1
  BY <1>1
<1>3. Len(sock.rx) <= arrivals /\ sock.rx[1] = arrivals - Len(sock.rx) + 1
  <2>1. 1 \in 1 .. Len(sock.rx)
    BY <1>2
  <2> QED BY <2>1, <1>1 DEF UInv, Queue
<1>4. Head(sock.rx) = arrivals - Len(sock.rx) + 1
  <2>1. Head(sock.rx) = sock.rx[1]
    BY <1>1
  <2> QED BY <2>1, <1>3
<1>5. ASSUME NEW n \in Nat, NEW m \in Nat, n >= 1, n <= m PROVE m - n + 1 \in 1 .. m
  BY <1>5
<1>6. Head(sock.rx) \in 1 .. arrivals
  BY <1>1, <1>2, <1>3, <1>4, <1>5
<1> QED BY <1>1, <1>2, <1>3, <1>4, <1>6

LEMMA CopyUnpinKeeps == ASSUME UInv, NEW a \in Actors, CopyUnpin(a) PROVE UInv'
<1> USE UdpAssumption
<1>1. PICK s \in Slots : s = reg[a]
  BY CallerAt DEF CopyUnpin
<1>2. pc[a] = "pinned" /\ v[s].pin /\ v[s].phase = "COPY" /\ ~Ended(s) /\ Was(s) = "COPY"
  BY <1>1 DEF CopyUnpin, UInv, Pinned, Places, Was
<1>3. /\ v[s].slab # NoSlab /\ v[s].slab \in Slabs
      /\ v[s].kind = "send" => ~v[s].active
      /\ v[s].kind = "recv" => v[s].active /\ HoldsHead(s)
  BY <1>2, SlotType DEF UInv, Phased, ByPhase
<1>4. /\ slot[s].state # "FREE" /\ \A b \in Actors : b # a => reg[b] # s
      /\ v[s].kind \in {"send", "recv"} /\ v[s].id \in Nat
  BY <1>1, <1>2, CallerAt, SlotType
<1>5. /\ v' = [v EXCEPT ![s].pin = FALSE, ![s].phase = "COMMIT"]
      /\ pc' = [pc EXCEPT ![a] = "terminal"]
      /\ reg' = reg /\ ret' = ret /\ slot' = slot /\ sock' = sock
      /\ wire' = wire /\ arrivals' = arrivals /\ turn' = turn
  BY <1>1 DEF CopyUnpin, Goto, network, Rec
<1>6. /\ v \in [Slots -> RequestRec] /\ buf \in [Actors -> Nat] /\ pool \in PoolRec
      /\ pc \in [Actors -> {"idle", "wait", "pinned", "terminal", "ack"}]
  BY DEF UInv, UType
<1>7. /\ v' \in [Slots -> RequestRec] /\ ~v'[s].pin /\ v'[s].phase = "COMMIT"
      /\ \A w \in Slots : w # s => v'[w] = v[w]
      /\ \A w \in Slots : /\ v'[w].id = v[w].id /\ v'[w].kind = v[w].kind
                          /\ v'[w].slab = v[w].slab /\ v'[w].active = v[w].active
  <2>1. PICK n : n = [v[s] EXCEPT !.pin = FALSE, !.phase = "COMMIT"]
    OBVIOUS
  <2>2. /\ n \in RequestRec /\ ~n.pin /\ n.phase = "COMMIT" /\ n.id = v[s].id /\ n.kind = v[s].kind
        /\ n.slab = v[s].slab /\ n.active = v[s].active
    <3>1. PICK r \in RequestRec : r = v[s]
      BY <1>6
    <3>2. n = [r EXCEPT !.pin = FALSE, !.phase = "COMMIT"]
      BY <2>1, <3>1
    <3>3. /\ n \in RequestRec /\ ~n.pin /\ n.phase = "COMMIT" /\ n.id = r.id /\ n.kind = r.kind
          /\ n.slab = r.slab /\ n.active = r.active
      BY ONLY r \in RequestRec, <3>2 DEF RequestRec, PhasesOf
    <3> QED BY <3>1, <3>3
  <2>3. v' = [v EXCEPT ![s] = n]
    BY <2>1, <1>5, <1>6
  <2> QED BY <2>2, <2>3, <1>6
<1>8. /\ pc' \in [Actors -> {"idle", "wait", "pinned", "terminal", "ack"}]
      /\ pc'[a] = "terminal" /\ \A b \in Actors : b # a => pc'[b] = pc[b]
  BY <1>5, <1>6
<1>9. /\ pool' \in PoolRec /\ pool'.used = pool.used /\ pool'.waiting = pool.waiting
      /\ \A b \in Slabs : b # v[s].slab => pool'.payload[b] = pool.payload[b]
      /\ v[s].kind = "send" => pool'.payload[v[s].slab] = v[s].id /\ buf' = buf
      /\ v[s].kind = "recv" => /\ pool' = pool /\ buf' = [buf EXCEPT ![a] = Head(sock.rx)]
  <2>1. CASE v[s].kind = "send"
    <3>1. pool' = [pool EXCEPT !.payload[v[s].slab] = v[s].id] /\ buf' = buf
      BY <2>1, <1>1 DEF CopyUnpin, Rec
    <3> QED BY <3>1, <2>1, <1>3, <1>4, <1>6 DEF PoolRec
  <2>2. CASE v[s].kind = "recv"
    BY <2>2, <1>1, <1>3, <1>6 DEF CopyUnpin, Rec, HoldsHead
  <2> QED BY <2>1, <2>2, <1>4
<1>10. /\ buf' \in [Actors -> Nat] /\ \A b \in Actors : b # a => buf'[b] = buf[b]
       /\ v[s].kind = "send" => buf'[a] = 0
       /\ v[s].kind = "recv" => buf'[a] = Head(sock.rx) /\ buf'[a] # 0 /\ buf'[a] <= arrivals
  <2>1. CASE v[s].kind = "send"
    BY <2>1, <1>2, <1>6, <1>9 DEF UInv, Places
  <2>2. CASE v[s].kind = "recv"
    <3>1. Head(sock.rx) \in 1 .. arrivals /\ arrivals \in Nat
      BY <2>2, <1>3, HeadArrived DEF HoldsHead
    <3>2. PICK h : h = Head(sock.rx)
      OBVIOUS
    <3>3. h \in Nat /\ h # 0 /\ h <= arrivals
      BY <3>1, <3>2
    <3>4. buf' = [buf EXCEPT ![a] = h]
      BY <2>2, <3>2, <1>9
    <3> QED BY <2>2, <3>2, <3>3, <3>4, <1>6
  <2> QED BY <2>1, <2>2, <1>4
<1>11. \A w \in Slots : Ended(w)' <=> Ended(w)
  BY <1>5 DEF Ended
<1>12. Was(s)' = "COMMIT" /\ \A w \in Slots : w # s => Was(w)' = Was(w)
  BY <1>5, <1>7 DEF Was
<1>13. Committed(s)' /\ \A w \in Slots : w # s => (Committed(w)' <=> Committed(w))
  BY <1>1, <1>4, <1>5, <1>8 DEF Committed
<1>14. UType'
  BY <1>5, <1>7, <1>8, <1>9, <1>10 DEF UInv, UType
<1>15. Registered'
  BY <1>2, <1>5, <1>8 DEF UInv, Registered
<1>16. Numbered'
  <2>1. \A w \in Slots : slot[w].state = "FREE" => v'[w] = v[w]
    BY <1>4, <1>7
  <2>2. \A b \in Actors : reg[b] # 0 => reg[b] \in Slots
    BY DEF UInv, UType
  <2>3. \A w \in Slots : slot'[w].state = "FREE" => slot'[w] = FreeSlot /\ v'[w] = NoRequest
    BY <2>1, <1>5 DEF UInv, Numbered
  <2>4. \A b \in Actors : reg'[b] # 0 => ret'[v'[reg'[b]].id] = [status |-> NoReply, data |-> 0]
    BY <2>2, <1>5, <1>7 DEF UInv, Numbered
  <2>5. \A w \in Slots : slot'[w].state # "FREE" =>
           v'[w].id \in 1 .. Len(ret') /\ v'[w].kind \in {"send", "recv"}
    BY <1>5, <1>7 DEF UInv, Numbered
  <2>6. \A w, x \in Slots : slot'[w].state # "FREE" /\ slot'[x].state # "FREE"
                                /\ v'[w].id = v'[x].id => w = x
    BY <1>5, <1>7 DEF UInv, Numbered
  <2> QED BY <2>3, <2>4, <2>5, <2>6 DEF Numbered
<1>17. InStep'
  <2>1. CASE turn.step.s = s
    <3>1. ~turn.step.cancel /\ turn.step.p = "COPY" /\ turn.step.s # 0
      BY <2>1, <1>2, StepType DEF UInv, InStep, PhasesOf
    <3> QED BY <2>1, <3>1, <1>5, <1>7 DEF UInv, InStep
  <2>2. CASE turn.step.s # s
    <3>1. turn.step.s # 0 => v'[turn.step.s] = v[turn.step.s]
      BY <2>2, <1>7, StepType
    <3> QED BY <3>1, <1>5 DEF UInv, InStep
  <2> QED BY <2>1, <2>2
<1>18. Phased'
  <2> SUFFICES ASSUME NEW w \in Slots, ~Ended(w)' PROVE ByPhase(w)'
    BY DEF Phased
  <2>1. CASE w = s
    BY <2>1, <1>3, <1>4, <1>5, <1>7, <1>9, <1>12, <1>13 DEF ByPhase, HoldsHead
  <2>2. CASE w # s
    <3>1. ByPhase(w)
      BY <1>11 DEF UInv, Phased
    <3>2. v[w].slab # NoSlab => pool'.payload[v[w].slab] = pool.payload[v[w].slab]
      BY <2>2, <1>3, <1>9, SlotType DEF UInv, Owned
    <3> QED BY <2>2, <3>1, <3>2, <1>5, <1>7, <1>12, <1>13 DEF ByPhase, HoldsHead
  <2> QED BY <2>1, <2>2
<1>19. AtRest'
  BY <1>2, <1>7, <1>9, <1>11 DEF UInv, AtRest
<1>20. Owned' /\ Operations'
  BY <1>5, <1>7, <1>9 DEF UInv, Owned, Operations
<1>21. Places'
  <2> SUFFICES ASSUME NEW b \in Actors PROVE Places!(b)'
    BY DEF Places
  <2>1. CASE b = a
    <3>1. slot[s].state \notin {"QUEUED", "COMPLETED"}
      BY <1>2 DEF Ended
    <3> QED BY <2>1, <3>1, <1>1, <1>5, <1>7, <1>8, <1>10, <1>12
  <2>2. CASE b # a /\ pc[b] = "idle"
    BY <2>2, <1>8, <1>10 DEF UInv, Places
  <2>3. CASE b # a /\ pc[b] # "idle"
    <3>1. reg[b] \in Slots /\ reg[b] # s
      BY <2>3, <1>4, CallerAt
    <3> QED BY <3>1, <2>3, <1>5, <1>7, <1>8, <1>10, <1>11, <1>12 DEF UInv, Places
  <2> QED BY <2>1, <2>2, <2>3
<1>22. Pinned'
  <2>1. ASSUME NEW b \in Actors, pc'[b] = "pinned" PROVE v'[reg'[b]].pin
    <3>1. b # a /\ pc[b] = "pinned"
      BY <2>1, <1>8
    <3>2. reg[b] \in Slots /\ reg[b] # s
      BY <3>1, <1>4, CallerAt
    <3> QED BY <3>1, <3>2, <1>5, <1>7 DEF UInv, Pinned
  <2>2. ASSUME NEW w \in Slots, v'[w].pin
        PROVE  v'[w].phase = "COPY" /\ \E b \in Actors : reg'[b] = w /\ pc'[b] = "pinned"
    <3>1. w # s /\ v[w].pin
      BY <2>2, <1>7
    <3>2. PICK b \in Actors : reg[b] = w /\ pc[b] = "pinned"
      BY <3>1 DEF UInv, Pinned
    <3> QED BY <3>1, <3>2, <1>1, <1>5, <1>7, <1>8 DEF UInv, Pinned
  <2> QED BY <2>1, <2>2 DEF Pinned
<1>23. Transmission' /\ Queue' /\ Arrived'
  <2>1. Arrived'
    <3>1. arrivals \in Nat
      BY DEF UInv, UType
    <3>2. buf'[a] <= arrivals
      BY <3>1, <1>4, <1>10
    <3> QED BY <3>2, <1>5, <1>10 DEF UInv, Arrived
  <2> QED BY <2>1, <1>5 DEF UInv, Transmission, Unsettled, Queue
<1>24. OnWire'
  <2>1. \A b \in Actors : reg[b] # 0 => reg[b] \in Slots
    BY DEF UInv, UType
  <2>2. \A b \in Actors : pc[b] # "idle" => reg[b] # 0
    BY DEF UInv, Registered
  <2>3. OnWire!1' /\ OnWire!2' /\ OnWire!8'
    BY <2>1, <2>2, <1>5, <1>7, <1>8, <1>11 DEF UInv, OnWire
  <2>4. OnWire!3'
    BY <2>1, <2>2, <1>5, <1>7, <1>8, <1>11 DEF UInv, OnWire
  <2>5. OnWire!4' /\ OnWire!5'
    BY <2>1, <2>2, <1>5, <1>7, <1>8, <1>11 DEF UInv, OnWire
  <2>6. OnWire!6'
    BY <2>1, <2>2, <1>5, <1>7, <1>8, <1>11 DEF UInv, OnWire
  <2>7. OnWire!7'
    BY <1>5, <1>7, RepliesKept
  <2> QED BY <2>3, <2>4, <2>5, <2>6, <2>7 DEF OnWire
<1>25. Once'
  <2>1. \A d : HandedOver(d)' = HandedOver(d)
    <3>1. ~Completed(a) /\ \A b \in Actors : Completed(b)' <=> Completed(b)
      BY <1>1, <1>2, <1>5 DEF Completed, Ended
    <3> QED BY <3>1, <1>5, <1>8, <1>10 DEF HandedOver
  <2> QED BY <1>5, <2>1 DEF UInv, Once, Delivered
<1> QED BY <1>14, <1>15, <1>16, <1>17, <1>18, <1>19, <1>20, <1>21, <1>22, <1>23, <1>24, <1>25
        DEF UInv

LEMMA CancelKeeps ==
    ASSUME UInv, NEW a \in Actors, pc[a] = "terminal", ~Completed(a),
           slot' = [slot EXCEPT ![reg[a]].cancel = TRUE], Goto(a, "ack"),
           UNCHANGED <<reg, buf, ret, v, pool, network, turn>>
    PROVE  UInv'
<1>1. PICK s \in Slots : s = reg[a]
  BY CallerAt
<1>2. /\ slot' = [slot EXCEPT ![s].cancel = TRUE] /\ pc' = [pc EXCEPT ![a] = "ack"]
      /\ reg' = reg /\ buf' = buf /\ ret' = ret /\ v' = v /\ pool' = pool /\ sock' = sock
      /\ wire' = wire /\ arrivals' = arrivals /\ turn' = turn
  BY <1>1 DEF Goto, network
<1>3. /\ slot \in [Slots -> SlotRec]
      /\ pc \in [Actors -> {"idle", "wait", "pinned", "terminal", "ack"}]
      /\ reg \in [Actors -> Slots \cup {0}]
  BY DEF UInv, UType
<1>4. /\ slot' \in [Slots -> SlotRec]
      /\ \A w \in Slots : w # s => slot'[w] = slot[w]
      /\ \A w \in Slots : /\ slot'[w].state = slot[w].state /\ slot'[w].caller = slot[w].caller
                          /\ slot'[w].reply = slot[w].reply
  <2>1. PICK n : n = [slot[s] EXCEPT !.cancel = TRUE]
    OBVIOUS
  <2>2. slot[s] \in SlotRec
    BY <1>3
  <2>3. /\ n \in SlotRec /\ n.caller = slot[s].caller /\ n.state = slot[s].state
        /\ n.reply = slot[s].reply
    BY <2>1, <2>2 DEF SlotRec
  <2>4. slot' = [slot EXCEPT ![s] = n]
    BY <2>1, <1>2, <1>3
  <2> QED BY <2>3, <2>4, <1>3
<1>5. /\ pc' \in [Actors -> {"idle", "wait", "pinned", "terminal", "ack"}]
      /\ pc'[a] = "ack" /\ \A b \in Actors : b # a => pc'[b] = pc[b]
  BY <1>2, <1>3
<1>6. \A w \in Slots : (Ended(w)' <=> Ended(w)) /\ Was(w)' = Was(w)
  BY <1>2, <1>4 DEF Ended, Was
<1>7. \A w \in Slots : Committed(w)' <=> Committed(w)
  BY <1>2, <1>5 DEF Committed
<1>8. slot[s].state # "FREE"
  BY <1>1, CallerAt
<1>9. UType'
  BY <1>2, <1>4, <1>5 DEF UInv, UType
<1>10. Registered'
  BY <1>2, <1>3, <1>4, <1>5 DEF UInv, Registered
<1>11. Numbered'
  BY <1>2, <1>4, <1>8 DEF UInv, Numbered
<1>12. InStep'
  BY <1>2, <1>4 DEF UInv, InStep
<1>13. Phased'
  BY <1>2, <1>6, <1>7 DEF UInv, Phased, ByPhase, HoldsHead
<1>14. AtRest' /\ Owned' /\ Operations'
  BY <1>2, <1>6 DEF UInv, AtRest, Owned, Operations
<1>15. Places'
  <2> SUFFICES ASSUME NEW b \in Actors PROVE Places!(b)'
    BY DEF Places
  <2>1. CASE pc[b] = "idle"
    BY <2>1, <1>2, <1>5 DEF UInv, Places
  <2>2. CASE pc[b] # "idle"
    <3>1. reg[b] \in Slots
      BY <2>2, CallerAt
    <3> QED BY <3>1, <2>2, <1>2, <1>4, <1>5, <1>6 DEF UInv, Places
  <2> QED BY <2>1, <2>2
<1>16. Pinned'
  BY <1>2, <1>5 DEF UInv, Pinned
<1>17. Transmission' /\ Queue' /\ Arrived'
  BY <1>2 DEF UInv, Transmission, Unsettled, Queue, Arrived
<1>18. OnWire'
  BY <1>2, <1>3, <1>4, <1>5, <1>6 DEF UInv, Registered, OnWire
<1>19. Once'
  <2>1. \A d : HandedOver(d)' = HandedOver(d)
    <3>1. \A b \in Actors : pc[b] # "idle" => reg[b] \in Slots
      BY CallerAt
    <3> QED BY <3>1, <1>2, <1>4, <1>5 DEF HandedOver, Completed
  <2> QED BY <1>2, <2>1 DEF UInv, Once, Delivered
<1> QED BY <1>9, <1>10, <1>11, <1>12, <1>13, <1>14, <1>15, <1>16, <1>17, <1>18, <1>19 DEF UInv

LEMMA CallerKeeps == ASSUME UInv, NEW a \in Actors, Caller(a) PROVE UInv'
<1>1. \A s \in Slots : slot[s].reply \in Statuses
  BY SlotType
<1>2. {"EINTR", "EFAULT"} \subseteq Statuses
  BY DEF Statuses
<1>3. pc[a] # "idle" => slot[reg[a]].reply \in Statuses
  BY <1>1, CallerAt
<1>4. CASE Wait(a)
  <2>1. pc[a] = "wait"
    BY <1>4 DEF Wait
  <2>2. CASE Completed(a) /\ Return(a, slot[reg[a]].reply)
    BY <2>1, <2>2, <1>3, ReturnKeeps
  <2>3. CASE Return(a, "EINTR")
    BY <2>1, <2>3, <1>2, ReturnKeeps
  <2>4. CASE Return(a, "EFAULT")
    BY <2>1, <2>4, <1>2, ReturnKeeps
  <2>5. CASE net_udp_pin(a)
    BY <2>1, <2>5, PinKeeps
  <2> QED BY <1>4, <2>2, <2>3, <2>4, <2>5 DEF Wait
<1>5. CASE CopyUnpin(a)
  BY <1>5, CopyUnpinKeeps
<1>6. CASE terminal(a)
  <2>1. CASE pc[a] \in {"terminal", "ack"} /\ Completed(a) /\ Return(a, slot[reg[a]].reply)
    BY <2>1, <1>3, ReturnKeeps
  <2>2. CASE ~(pc[a] \in {"terminal", "ack"} /\ Completed(a) /\ Return(a, slot[reg[a]].reply))
    BY <1>6, <2>2, CancelKeeps DEF terminal
  <2> QED BY <2>1, <2>2
<1> QED BY <1>4, <1>5, <1>6 DEF Caller

--------------------------------------------------------------------------
(* Housekeeping *)

\* What handoff_acknowledge and net_udp_maintenance make of one slot: a
\* cancelled request that was not claimed ends, and an ended one that its
\* caller has left goes free at the next visit.
LEMMA Kept ==
    ASSUME UInv, Housekeeping, NEW s \in Slots
    PROVE  /\ slot'[s] \in SlotRec
           /\ \/ slot'[s] = FreeSlot /\ v'[s] = NoRequest /\ ~slot[s].caller /\ Ended(s)
              \/ /\ slot[s].state # "FREE" /\ v'[s] = v[s]
                 /\ slot'[s].caller = slot[s].caller
                 /\ \/ slot'[s].state = slot[s].state /\ slot'[s].reply = slot[s].reply
                    \/ slot[s].state = "QUEUED" /\ slot'[s].state = "COMPLETED"
                       /\ slot'[s].reply = "EINTR"
<1>1. PICK ack : ack = Acknowledged(s)
  OBVIOUS
<1>2. PICK gone \in BOOLEAN : gone = Disposable(s)
  BY DEF Disposable
<1>3. slot[s] \in SlotRec /\ v[s] \in RequestRec
  BY SlotType
<1>4. slot'[s] = [ack EXCEPT !.cleaned = gone]
  BY <1>1, <1>2 DEF Housekeeping
<1>5. v'[s] = IF ack = FreeSlot THEN NoRequest
              ELSE IF gone THEN [v[s] EXCEPT !.active = FALSE, !.slab = NoSlab] ELSE v[s]
  BY <1>1, <1>2 DEF Housekeeping
<1>6. gone => Ended(s)
  BY <1>1, <1>2, <1>3 DEF Disposable, Acknowledged, Ended, FreeSlot
<1>7. gone => [v[s] EXCEPT !.active = FALSE, !.slab = NoSlab] = v[s]
  <2> SUFFICES ASSUME gone PROVE [v[s] EXCEPT !.active = FALSE, !.slab = NoSlab] = v[s]
    OBVIOUS
  <2>1. v[s].active = FALSE /\ v[s].slab = NoSlab
    BY <1>6, SlotType DEF UInv, AtRest
  <2> QED BY <2>1, <1>3 DEF RequestRec
<1>0. [FreeSlot EXCEPT !.cleaned = FALSE] = FreeSlot
  <2>1. FreeSlot \in SlotRec /\ FreeSlot.cleaned = FALSE
    BY DEF FreeSlot, SlotRec, Statuses, NoReply
  <2> QED BY <2>1 DEF SlotRec
<1>8. CASE slot[s].state = "QUEUED" /\ slot[s].cancel
  <2>1. ack = [slot[s] EXCEPT !.state = "COMPLETED", !.reply = "EINTR"]
    BY <1>1, <1>8 DEF Acknowledged
  <2>2. /\ ack \in SlotRec /\ ack.state = "COMPLETED" /\ ack.reply = "EINTR"
        /\ ack.caller = slot[s].caller
    BY <2>1, <1>3 DEF SlotRec, Statuses
  <2>3. ack # FreeSlot
    BY <2>2 DEF FreeSlot
  <2>4. /\ slot'[s] \in SlotRec /\ slot'[s].state = "COMPLETED" /\ slot'[s].reply = "EINTR"
        /\ slot'[s].caller = slot[s].caller
    BY <2>2, <1>4 DEF SlotRec
  <2> QED BY <2>3, <2>4, <1>5, <1>7, <1>8
<1>9. CASE ~(slot[s].state = "QUEUED" /\ slot[s].cancel)
           /\ slot[s].state = "COMPLETED" /\ ~slot[s].caller /\ slot[s].cleaned
  <2>1. ack = FreeSlot
    BY <1>1, <1>9 DEF Acknowledged
  <2>2. gone = FALSE
    <3>1. ack.state # "COMPLETED"
      BY <2>1 DEF FreeSlot
    <3>2. ~Disposable(s)
      BY <3>1, <1>1 DEF Disposable
    <3> QED BY <3>2, <1>2
  <2>3. slot'[s] = FreeSlot
    BY <2>1, <2>2, <1>4, <1>0
  <2>4. FreeSlot \in SlotRec
    BY DEF FreeSlot, SlotRec, Statuses, NoReply
  <2> QED BY <2>1, <2>3, <2>4, <1>5, <1>9 DEF Ended
<1>10. CASE ~(slot[s].state = "QUEUED" /\ slot[s].cancel)
            /\ ~(slot[s].state = "COMPLETED" /\ ~slot[s].caller /\ slot[s].cleaned)
  <2>1. ack = slot[s]
    BY <1>1, <1>10 DEF Acknowledged
  <2>2. /\ slot'[s] \in SlotRec /\ slot'[s].state = slot[s].state
        /\ slot'[s].reply = slot[s].reply /\ slot'[s].caller = slot[s].caller
    BY <2>1, <1>3, <1>4 DEF SlotRec
  <2>3. CASE slot[s].state = "FREE"
    <3>1. slot[s] = FreeSlot
      BY <2>3 DEF UInv, Numbered
    <3>2. gone = FALSE
      BY <2>1, <2>3, <1>1, <1>2 DEF Disposable
    <3>3. slot'[s] = FreeSlot
      BY <2>1, <3>1, <3>2, <1>4, <1>0
    <3>4. ~slot[s].caller
      BY <3>1 DEF FreeSlot
    <3> QED BY <2>1, <2>2, <2>3, <3>1, <3>3, <3>4, <1>5 DEF Ended
  <2>4. CASE slot[s].state # "FREE"
    <3>1. ack # FreeSlot
      BY <2>1, <2>4 DEF FreeSlot
    <3> QED BY <2>2, <2>4, <3>1, <1>5, <1>7
  <2> QED BY <2>3, <2>4
<1> QED BY <1>8, <1>9, <1>10

\* Maintenance finds nothing left to release.
LEMMA NothingLeft ==
    ASSUME UInv, Housekeeping
    PROVE  /\ pool' \in PoolRec /\ pool'.used = pool.used /\ pool'.payload = pool.payload
           /\ pool'.waiting = pool.waiting /\ sock' = sock
<1>1. PICK gone : gone = {s \in Slots : Disposable(s)}
  OBVIOUS
<1>2. /\ pool' = slab_put(pool, gone, {v[s].slab : s \in gone})
      /\ sock' = cleanup(sock, {v[s] : s \in gone}, FALSE)
  BY <1>1 DEF Housekeeping
<1>3. ASSUME NEW s \in gone
      PROVE  s \in Slots /\ v[s].slab = NoSlab /\ ~v[s].active /\ s \notin pool.waiting
  <2>1. s \in Slots /\ Disposable(s)
    BY <1>1
  <2>2. slot[s] \in SlotRec
    BY <2>1, SlotType
  <2>3. Ended(s)
    BY <2>1, <2>2 DEF Disposable, Acknowledged, Ended, FreeSlot
  <2> QED BY <2>1, <2>3 DEF UInv, AtRest
<1>4. pool \in PoolRec /\ sock \in SockRec
  BY DEF UInv, UType
<1>5. {v[s].slab : s \in gone} \subseteq {NoSlab}
  BY <1>3
<1>6. /\ pool.used \ {v[s].slab : s \in gone} = pool.used /\ pool.waiting \ gone = pool.waiting
  BY <1>3, <1>4, <1>5, UdpAssumption DEF PoolRec
<1>7. /\ pool' \in PoolRec /\ pool'.used = pool.used /\ pool'.payload = pool.payload
      /\ pool'.waiting = pool.waiting
  <2>1. PICK slabs : slabs = {v[s].slab : s \in gone}
    OBVIOUS
  <2>2. pool' = [pool EXCEPT !.used = @ \ slabs, !.waiting = @ \ gone,
                     !.older = {p \in @ : p[1] \notin gone /\ p[2] \notin gone}]
    BY <1>2, <2>1 DEF slab_put
  <2>3. pool.used \ slabs = pool.used
    BY <1>6, <2>1
  <2> QED BY <2>2, <2>3, <1>4, <1>6 DEF PoolRec
<1>8. \A kind : Ops({v[s] : s \in gone}, kind) = {}
  BY <1>3 DEF Ops
<1>9. sock' = sock
  <2>1. PICK R : R = {v[s] : s \in gone}
    OBVIOUS
  <2>2. Ops(R, "recv") = {} /\ Ops(R, "send") = {}
    BY <1>8, <2>1
  <2>3. sock' = [sock EXCEPT !.receive = @, !.rx = @, !.tx = @, !.ip = @]
    BY <1>2, <1>4, <2>1, <2>2 DEF cleanup, SockRec
  <2> QED BY <2>3, <1>4 DEF SockRec
<1> QED BY <1>7, <1>9

LEMMA HousekeepingKeeps == ASSUME UInv, Housekeeping PROVE UInv'
<1> USE UdpAssumption
<1>1. /\ pc' = pc /\ reg' = reg /\ buf' = buf /\ ret' = ret /\ wire' = wire
      /\ arrivals' = arrivals /\ sock' = sock
      /\ pool' \in PoolRec /\ pool'.used = pool.used /\ pool'.payload = pool.payload
      /\ pool'.waiting = pool.waiting
  BY NothingLeft DEF Housekeeping, call
<1>2. /\ turn' \in TurnRec /\ turn'.step = turn.step /\ turn'.phase = "claim"
      /\ turn.step.s = 0
  <2>1. turn' = [turn EXCEPT !.phase = "claim"] /\ turn.phase = "housekeeping"
    BY DEF Housekeeping
  <2> QED BY <2>1, StepType DEF TurnRec, UInv, InStep
<1>3. /\ NoRequest \in RequestRec /\ NoRequest.slab = NoSlab /\ NoRequest.active = FALSE
      /\ NoRequest.pin = FALSE /\ NoRequest.phase = "IO" /\ NoRequest.id = 0
  BY DEF NoRequest, Request, RequestRec, PhasesOf
<1>4. FreeSlot.state = "FREE" /\ FreeSlot.caller = FALSE
  BY DEF FreeSlot
<1>5. \A s \in Slots :
         /\ slot'[s] \in SlotRec /\ v'[s] \in RequestRec
         /\ slot'[s].caller = slot[s].caller
         /\ Ended(s)' <=> Ended(s)
         /\ v'[s].slab = v[s].slab /\ v'[s].active = v[s].active /\ v'[s].pin = v[s].pin
         /\ v'[s].phase = v[s].phase
  <2> TAKE s \in Slots
  <2>1. CASE slot'[s] = FreeSlot /\ v'[s] = NoRequest /\ ~slot[s].caller /\ Ended(s)
    <3>1. /\ v[s].slab = NoSlab /\ v[s].active = FALSE /\ v[s].pin = FALSE /\ v[s].phase = "IO"
          /\ slot[s].caller = FALSE
      BY <2>1, SlotType DEF UInv, AtRest
    <3> QED BY <2>1, <3>1, <1>3, <1>4, Kept DEF Ended
  <2>2. CASE ~(slot'[s] = FreeSlot /\ v'[s] = NoRequest /\ ~slot[s].caller /\ Ended(s))
    BY <2>2, Kept, SlotType DEF Ended
  <2> QED BY <2>1, <2>2
<1>6. ASSUME NEW s \in Slots, slot'[s].state # "FREE"
      PROVE  /\ slot[s].state # "FREE" /\ v'[s] = v[s]
             /\ \/ slot'[s].state = slot[s].state /\ slot'[s].reply = slot[s].reply
                \/ slot[s].state = "QUEUED" /\ slot'[s].state = "COMPLETED"
                   /\ slot'[s].reply = "EINTR"
  BY <1>4, <1>6, Kept
<1>7. ASSUME NEW s \in Slots, slot'[s].state = "FREE"
      PROVE  slot'[s] = FreeSlot /\ v'[s] = NoRequest
  BY <1>7, Kept
<1>8. ASSUME NEW s \in Slots, slot[s].caller PROVE slot'[s].state # "FREE"
  BY <1>4, <1>5, <1>7, <1>8
<1>9. ASSUME NEW s \in Slots, ~Ended(s) PROVE slot'[s].state # "FREE" /\ slot'[s].state = slot[s].state
  <2>1. ~Ended(s)'
    BY <1>5, <1>9
  <2>2. slot'[s].state # "FREE"
    BY <2>1 DEF Ended
  <2> QED BY <2>2, <1>6, <1>9 DEF Ended
<1>10. \A s \in Slots : Was(s)' = Was(s)
  BY <1>2, <1>5 DEF Was
<1>11. ASSUME NEW a \in Actors, pc[a] # "idle"
       PROVE  /\ reg[a] \in Slots /\ reg[a] # 0 /\ slot'[reg[a]].state # "FREE"
              /\ v'[reg[a]] = v[reg[a]]
  BY <1>6, <1>8, <1>11, CallerAt
<1>12. UType'
  <2>1. slot' \in [Slots -> SlotRec] /\ v' \in [Slots -> RequestRec]
    <3>1. DOMAIN slot' = Slots /\ slot' = [s \in Slots |-> slot'[s]]
      BY DEF Housekeeping
    <3>2. DOMAIN v' = Slots /\ v' = [s \in Slots |-> v'[s]]
      BY DEF Housekeeping
    <3> QED BY <3>1, <3>2, <1>5
  <2> QED BY <2>1, <1>1, <1>2 DEF UInv, UType
<1>13. Registered'
  <2>1. \A a \in Actors : reg[a] # 0 => pc[a] # "idle"
    BY DEF UInv, Registered
  <2> QED BY <2>1, <1>1, <1>5, <1>11 DEF UInv, Registered
<1>14. Numbered'
  <2>1. \A a \in Actors : reg[a] # 0 => pc[a] # "idle"
    BY DEF UInv, Registered
  <2>2. \A a \in Actors : reg'[a] # 0 => ret'[v'[reg'[a]].id] = [status |-> NoReply, data |-> 0]
    BY <2>1, <1>1, <1>11 DEF UInv, Numbered
  <2>3. \A s \in Slots : slot'[s].state # "FREE" =>
           v'[s].id \in 1 .. Len(ret') /\ v'[s].kind \in {"send", "recv"}
    BY <1>1, <1>6 DEF UInv, Numbered
  <2>4. \A s, w \in Slots : slot'[s].state # "FREE" /\ slot'[w].state # "FREE"
                               /\ v'[s].id = v'[w].id => s = w
    BY <1>6 DEF UInv, Numbered
  <2> QED BY <2>2, <2>3, <2>4, <1>7 DEF Numbered
<1>15. InStep'
  <2>1. \A s \in Slots : slot'[s].state # "CLAIMED"
    <3> TAKE s \in Slots
    <3>1. slot[s].state # "CLAIMED"
      BY <1>2, StepType DEF UInv, InStep
    <3> QED BY <3>1, <1>6
  <2> QED BY <2>1, <1>2, StepType DEF UInv, InStep
<1>16. Phased'
  <2> SUFFICES ASSUME NEW s \in Slots, ~Ended(s)' PROVE ByPhase(s)'
    BY DEF Phased
  <2>1. ~Ended(s) /\ ByPhase(s) /\ v'[s] = v[s]
    BY <1>5, <1>6, <1>9 DEF UInv, Phased
  <2> QED BY <2>1, <1>1, <1>10 DEF ByPhase, Committed, HoldsHead
<1>17. AtRest' /\ Owned'
  BY <1>1, <1>5 DEF UInv, AtRest, Owned
<1>18. \A s \in Slots : v[s].active => v'[s] = v[s]
  <2> SUFFICES ASSUME NEW s \in Slots, v[s].active PROVE v'[s] = v[s]
    OBVIOUS
  <2>1. ~Ended(s)
    BY DEF UInv, AtRest
  <2> QED BY <2>1, <1>6, <1>9
<1>19. Operations'
  BY <1>1, <1>5, <1>18 DEF UInv, Operations
<1>20. Places'
  <2> SUFFICES ASSUME NEW a \in Actors PROVE Places!(a)'
    BY DEF Places
  <2>1. CASE pc[a] = "idle"
    BY <2>1, <1>1 DEF UInv, Places
  <2>2. CASE pc[a] # "idle"
    <3>1. /\ reg[a] \in Slots /\ v'[reg[a]] = v[reg[a]]
          /\ \/ slot'[reg[a]].state = slot[reg[a]].state /\ slot'[reg[a]].reply = slot[reg[a]].reply
             \/ slot[reg[a]].state = "QUEUED" /\ slot'[reg[a]].state = "COMPLETED"
                /\ slot'[reg[a]].reply = "EINTR"
      BY <2>2, <1>6, <1>11
    <3> QED BY <2>2, <3>1, <1>1, <1>5, <1>10 DEF UInv, Places
  <2> QED BY <2>1, <2>2
<1>21. Pinned'
  <2>1. \A a \in Actors : pc[a] = "pinned" => reg[a] \in Slots
    BY CallerAt
  <2> QED BY <2>1, <1>1, <1>5 DEF UInv, Pinned
<1>22. Transmission' /\ Queue' /\ Arrived'
  BY <1>1 DEF UInv, Transmission, Unsettled, Queue, Arrived
<1>23. OnWire'
  <2>1. \A s \in Slots : slot'[s].state # "FREE" /\ v'[s].kind = "recv" => wire'[v'[s].id].sent = 0
    BY <1>1, <1>6 DEF UInv, OnWire
  <2>2. \A s \in Slots : ~Ended(s)' /\ ~v'[s].active => wire'[v'[s].id].sent = 0
    BY <1>1, <1>5, <1>6, <1>9 DEF UInv, OnWire
  <2>3. \A s \in Slots : slot'[s].state = "QUEUED" => wire'[v'[s].id].sent = 0
    BY <1>1, <1>6 DEF UInv, OnWire
  <2>4. ASSUME NEW a \in Actors
        PROVE  /\ pc'[a] \in {"wait", "pinned"} => wire'[v'[reg'[a]].id].sent = 0
               /\ reg'[a] # 0 /\ slot'[reg'[a]].state = "COMPLETED" /\ v'[reg'[a]].kind = "send" =>
                     /\ slot'[reg'[a]].reply = "OK" => wire'[v'[reg'[a]].id].sent = 1
                     /\ slot'[reg'[a]].reply \in {"EINTR", "EAGAIN", "EFAULT"} =>
                           wire'[v'[reg'[a]].id].sent = 0 \/ wire'[v'[reg'[a]].id].down
    <3>1. CASE pc[a] = "idle"
      BY <3>1, <1>1 DEF UInv, Registered
    <3>2. CASE pc[a] # "idle"
      <4>1. /\ reg[a] \in Slots /\ reg[a] # 0 /\ v'[reg[a]] = v[reg[a]]
            /\ \/ slot'[reg[a]].state = slot[reg[a]].state /\ slot'[reg[a]].reply = slot[reg[a]].reply
               \/ slot[reg[a]].state = "QUEUED" /\ slot'[reg[a]].state = "COMPLETED"
                  /\ slot'[reg[a]].reply = "EINTR"
        BY <3>2, <1>6, <1>11
      <4> QED BY <4>1, <3>2, <1>1 DEF UInv, OnWire
    <3> QED BY <3>1, <3>2
  <2> QED BY <2>1, <2>2, <2>3, <2>4, <1>1 DEF UInv, OnWire
<1>24. Once'
  <2>1. ASSUME NEW d, NEW a \in Actors
        PROVE  (pc'[a] # "idle" /\ Completed(a)' /\ slot'[reg'[a]].reply = "OK" /\ buf'[a] = d)
                 <=> (pc[a] # "idle" /\ Completed(a) /\ slot[reg[a]].reply = "OK" /\ buf[a] = d)
    <3>1. CASE pc[a] = "idle"
      BY <3>1, <1>1
    <3>2. CASE pc[a] # "idle"
      <4>1. \/ slot'[reg[a]].state = slot[reg[a]].state /\ slot'[reg[a]].reply = slot[reg[a]].reply
            \/ slot[reg[a]].state = "QUEUED" /\ slot'[reg[a]].state = "COMPLETED"
               /\ slot'[reg[a]].reply = "EINTR"
        BY <3>2, <1>6, <1>11
      <4> QED BY <4>1, <1>1 DEF Completed
    <3> QED BY <3>1, <3>2
  <2>2. \A d : HandedOver(d)' = HandedOver(d)
    BY <2>1 DEF HandedOver
  <2> QED BY <1>1, <2>2 DEF UInv, Once, Delivered
<1> QED BY <1>12, <1>13, <1>14, <1>15, <1>16, <1>17, <1>19, <1>20, <1>21, <1>22, <1>23, <1>24
        DEF UInv

--------------------------------------------------------------------------
(* The protocol sweep *)

RxOk(k) ==
    k.receive.token # 0 /\ k.receive.done =>
       k.receive.result # NoReply /\ (k.receive.result = "OK" => k.rx # <<>>)

LEMMA NoneType ==
    /\ NoOp \in OpRec /\ NoOp.token = 0 /\ NoOp.published = FALSE /\ NoOp.done = FALSE
    /\ NoEntry \in EntryRec /\ NoEntry.token = 0 /\ NoEntry.active = FALSE /\ NoEntry.done = FALSE
BY DEF NoOp, OpRec, NoEntry, EntryRec, Statuses, NoReply

\* The fields of a socket, and that they are all there is of it.
LEMMA SockFields ==
    ASSUME NEW k \in SockRec
    PROVE  /\ k.rx \in Seq(Nat) /\ k.receive \in OpRec /\ k.tx \in OpRec /\ k.ip \in EntryRec
           /\ k.online \in BOOLEAN
BY DEF SockRec

LEMMA ReceiveTicked ==
    ASSUME NEW k \in SockRec, NEW on \in BOOLEAN, NEW over \in BOOLEAN, RxOk(k)
    PROVE  LET n == ReceiveTick(k, on, over)
           IN  /\ n \in SockRec /\ RxOk(n) /\ n.rx = k.rx /\ n.receive.token = k.receive.token
               /\ n.tx = k.tx /\ n.ip = k.ip /\ n.online = k.online
<1>1. CASE k.receive.token # 0 /\ ~k.receive.done /\ (~on \/ over \/ k.rx # <<>>)
  <2>1. PICK res : res = IF ~on THEN "EIO" ELSE IF over THEN "EAGAIN" ELSE "OK"
    OBVIOUS
  <2>2. PICK op : op = [k.receive EXCEPT !.done = TRUE, !.result = res]
    OBVIOUS
  <2>3. ReceiveTick(k, on, over) = [k EXCEPT !.receive = op]
    <3>1. ReceiveTick(k, on, over) = [k EXCEPT !.receive.done = TRUE, !.receive.result = res]
      BY <1>1, <2>1 DEF ReceiveTick
    <3> QED BY <3>1, <2>2, SockFields DEF SockRec, OpRec
  <2>4. op \in OpRec /\ op.token = k.receive.token /\ op.result = res
    BY <2>1, <2>2, SockFields DEF OpRec, Statuses
  <2>5. res # NoReply /\ (res = "OK" => k.rx # <<>>)
    BY <1>1, <2>1 DEF NoReply
  <2> QED BY <2>3, <2>4, <2>5, SockFields DEF SockRec, RxOk
<1>2. CASE ~(k.receive.token # 0 /\ ~k.receive.done /\ (~on \/ over \/ k.rx # <<>>))
  BY <1>2 DEF ReceiveTick
<1> QED BY <1>1, <1>2

\* A socket that only its transmission tells from k.
Like(n, k) ==
    /\ n \in SockRec /\ n.rx = k.rx /\ n.receive = k.receive /\ n.online = k.online
    /\ n.tx.token = k.tx.token /\ n.tx.data = k.tx.data

LEMMA Synced ==
    ASSUME NEW k \in SockRec, NEW token
    PROVE  LET n == Sync(k, token)
           IN  /\ Like(n, k) /\ n.tx = k.tx
               /\ n.ip = IF k.ip.token = token THEN k.ip ELSE NoEntry
<1>1. CASE k.ip.token = token
  BY <1>1 DEF Sync, Like
<1>2. CASE k.ip.token # token
  BY <1>2, SockFields, NoneType DEF Sync, Like, SockRec
<1> QED BY <1>1, <1>2

LEMMA Submitted ==
    ASSUME NEW k \in SockRec, NEW on \in BOOLEAN
    PROVE  LET n == Submit(k, on)
           IN  /\ Like(n, k) /\ ~n.tx.published
               /\ n.tx.done = k.tx.done /\ n.tx.result = k.tx.result
               /\ IF k.tx.published /\ ~k.tx.done /\ on
                  THEN n.ip.token = k.tx.token /\ n.ip.data = k.tx.data /\ n.ip.active /\ ~n.ip.done
                  ELSE n.ip = k.ip
<1>1. PICK t : t = [k.tx EXCEPT !.published = FALSE]
  OBVIOUS
<1>2. /\ t \in OpRec /\ t.published = FALSE /\ t.done = k.tx.done /\ t.result = k.tx.result
      /\ t.token = k.tx.token /\ t.data = k.tx.data
  BY <1>1, SockFields DEF OpRec
<1>3. PICK e : e = [NoEntry EXCEPT !.token = k.tx.token, !.active = TRUE, !.data = k.tx.data]
  OBVIOUS
<1>4. e \in EntryRec /\ e.token = k.tx.token /\ e.data = k.tx.data /\ e.active /\ ~e.done
  BY <1>3, SockFields DEF NoEntry, EntryRec, OpRec, Statuses, NoReply
<1>5. CASE k.tx.published /\ ~k.tx.done /\ on
  <2>1. Submit(k, on) = [k EXCEPT !.tx = t, !.ip = e]
    <3>1. Submit(k, on) = [k EXCEPT !.tx.published = FALSE, !.ip = e]
      BY <1>3, <1>5 DEF Submit
    <3> QED BY <3>1, <1>1, SockFields DEF SockRec, OpRec
  <2> QED BY <2>1, <1>2, <1>4, <1>5, SockFields DEF Like, SockRec
<1>6. CASE ~(k.tx.published /\ ~k.tx.done /\ on)
  <2>1. Submit(k, on) = [k EXCEPT !.tx = t]
    <3>1. Submit(k, on) = [k EXCEPT !.tx.published = FALSE]
      BY <1>6 DEF Submit
    <3> QED BY <3>1, <1>1, SockFields DEF SockRec, OpRec
  <2> QED BY <2>1, <1>2, <1>6, SockFields DEF Like, SockRec
<1> QED BY <1>5, <1>6

LEMMA Transmitted ==
    ASSUME NEW k \in SockRec, NEW on \in BOOLEAN
    PROVE  LET n == TransmitTick(k, on)
           IN  /\ Like(n, k) /\ n.tx.published = k.tx.published
               /\ \/ (k.tx.token = 0 \/ k.tx.done) /\ n = k
                  \/ /\ k.tx.token # 0 /\ ~k.tx.done /\ ~on
                     /\ n.tx.done /\ n.tx.result = "EIO"
                     /\ n.ip = IF k.ip.token = 0 THEN k.ip ELSE NoEntry
                  \/ /\ k.tx.token # 0 /\ ~k.tx.done /\ on /\ k.ip.done
                     /\ n.tx.done /\ n.tx.result = k.ip.result
                     /\ ~n.ip.done /\ n.ip.token = k.ip.token /\ n.ip.active = k.ip.active
                  \/ k.tx.token # 0 /\ ~k.tx.done /\ on /\ ~k.ip.done /\ n = k
<1>1. CASE k.tx.token = 0 \/ k.tx.done
  BY <1>1 DEF TransmitTick, Like
<1>2. CASE k.tx.token # 0 /\ ~k.tx.done /\ ~on
  <2>1. PICK m : m = Sync(k, 0)
    OBVIOUS
  <2>2. Like(m, k) /\ m.tx = k.tx /\ m.ip = IF k.ip.token = 0 THEN k.ip ELSE NoEntry
    BY <2>1, Synced
  <2>3. PICK t : t = [m.tx EXCEPT !.done = TRUE, !.result = "EIO"]
    OBVIOUS
  <2>4. m \in SockRec /\ m.tx \in OpRec
    BY <2>2, SockFields DEF Like
  <2>5. /\ t \in OpRec /\ t.done /\ t.result = "EIO" /\ t.token = k.tx.token
        /\ t.data = k.tx.data /\ t.published = k.tx.published
    BY <2>2, <2>3, <2>4 DEF OpRec, Statuses
  <2>6. TransmitTick(k, on) = [m EXCEPT !.tx = t]
    <3>1. TransmitTick(k, on) = [m EXCEPT !.tx.done = TRUE, !.tx.result = "EIO"]
      BY <1>2, <2>1 DEF TransmitTick
    <3> QED BY <3>1, <2>3, <2>4 DEF SockRec, OpRec
  <2>7. PICK n : n = [m EXCEPT !.tx = t]
    OBVIOUS
  <2>8. n \in SockRec /\ n.tx = t /\ n.ip = m.ip /\ n.rx = m.rx /\ n.receive = m.receive
        /\ n.online = m.online
    BY <2>4, <2>5, <2>7 DEF SockRec
  <2> QED BY <1>2, <2>2, <2>5, <2>6, <2>7, <2>8 DEF Like
<1>3. CASE k.tx.token # 0 /\ ~k.tx.done /\ on /\ k.ip.done
  <2>1. PICK t : t = [k.tx EXCEPT !.done = TRUE, !.result = k.ip.result]
    OBVIOUS
  <2>2. PICK e : e = [k.ip EXCEPT !.done = FALSE]
    OBVIOUS
  <2>3. /\ t \in OpRec /\ t.done /\ t.result = k.ip.result /\ t.token = k.tx.token
        /\ t.data = k.tx.data /\ t.published = k.tx.published
    BY <2>1, SockFields DEF OpRec, EntryRec
  <2>4. e \in EntryRec /\ ~e.done /\ e.token = k.ip.token /\ e.active = k.ip.active
    BY <2>2, SockFields DEF EntryRec
  <2>5. TransmitTick(k, on) = [k EXCEPT !.tx = t, !.ip = e]
    <3>1. TransmitTick(k, on) = [k EXCEPT !.tx.done = TRUE, !.tx.result = k.ip.result, !.ip.done = FALSE]
      BY <1>3 DEF TransmitTick
    <3> QED BY <3>1, <2>1, <2>2, SockFields DEF SockRec, OpRec, EntryRec
  <2>6. PICK n : n = [k EXCEPT !.tx = t, !.ip = e]
    OBVIOUS
  <2>7. n \in SockRec /\ n.tx = t /\ n.ip = e /\ n.rx = k.rx /\ n.receive = k.receive
        /\ n.online = k.online
    BY <2>3, <2>4, <2>6, SockFields DEF SockRec
  <2> QED BY <1>3, <2>3, <2>4, <2>5, <2>6, <2>7 DEF Like
<1>4. CASE k.tx.token # 0 /\ ~k.tx.done /\ on /\ ~k.ip.done
  BY <1>4 DEF TransmitTick, Like
<1> QED BY <1>1, <1>2, <1>3, <1>4

\* One tick of the socket, with what it may find: a datagram transmitted
\* after which the link went down was recorded as such.
LEMMA SocketTicked ==
    ASSUME NEW k \in SockRec, NEW on \in BOOLEAN, NEW over \in BOOLEAN, NEW W,
           Unsettled(k, W), RxOk(k),
           k.ip.done /\ k.ip.result = "OK" => on \/ W[k.tx.token].down
    PROVE  LET n == SocketTick(k, on, over)
           IN  /\ n \in SockRec /\ Unsettled(n, W) /\ ~n.ip.done /\ RxOk(n) /\ n.rx = k.rx
               /\ n.receive.token = k.receive.token /\ n.tx.token = k.tx.token
<1>1. PICK k0 : k0 = [k EXCEPT !.online = on]
  OBVIOUS
<1>2. /\ k0 \in SockRec /\ k0.rx = k.rx /\ k0.receive = k.receive /\ k0.tx = k.tx /\ k0.ip = k.ip
      /\ RxOk(k0)
  BY <1>1 DEF SockRec, RxOk
<1>3. PICK k1 : k1 = ReceiveTick(k0, on, over)
  OBVIOUS
<1>4. /\ k1 \in SockRec /\ RxOk(k1) /\ k1.rx = k.rx /\ k1.receive.token = k.receive.token
      /\ k1.tx = k.tx /\ k1.ip = k.ip
  BY <1>2, <1>3, ReceiveTicked
<1>5. PICK k2 : k2 = Sync(k1, k.tx.token)
  OBVIOUS
<1>6. /\ k2 \in SockRec /\ k2.rx = k1.rx /\ k2.receive = k1.receive /\ k2.tx = k.tx
      /\ k2.ip = IF k.ip.token = k.tx.token THEN k.ip ELSE NoEntry
  BY <1>4, <1>5, Synced DEF Like
<1>7. Unsettled(k2, W)
  BY <1>6, NoneType DEF Unsettled
<1>8. PICK k3 : k3 = Submit(k2, on)
  OBVIOUS
<1>9. /\ k3 \in SockRec /\ k3.rx = k1.rx /\ k3.receive = k1.receive
      /\ k3.tx.token = k.tx.token /\ k3.tx.data = k.tx.data /\ ~k3.tx.published
      /\ k3.tx.done = k.tx.done /\ k3.tx.result = k.tx.result
      /\ IF k.tx.published /\ ~k.tx.done /\ on
         THEN k3.ip.token = k.tx.token /\ k3.ip.data = k.tx.data /\ k3.ip.active /\ ~k3.ip.done
         ELSE k3.ip = k2.ip
  BY <1>6, <1>8, Submitted DEF Like
<1>10. PICK n : n = TransmitTick(k3, on)
  OBVIOUS
<1>11. SocketTick(k, on, over) = n
  BY <1>1, <1>3, <1>5, <1>8, <1>10 DEF SocketTick
<1>12. /\ n \in SockRec /\ n.rx = k1.rx /\ n.receive = k1.receive /\ n.tx.token = k.tx.token
       /\ n.tx.data = k.tx.data /\ n.tx.published = k3.tx.published
       /\ \/ (k3.tx.token = 0 \/ k3.tx.done) /\ n = k3
          \/ /\ k3.tx.token # 0 /\ ~k3.tx.done /\ ~on
             /\ n.tx.done /\ n.tx.result = "EIO"
             /\ n.ip = IF k3.ip.token = 0 THEN k3.ip ELSE NoEntry
          \/ /\ k3.tx.token # 0 /\ ~k3.tx.done /\ on /\ k3.ip.done
             /\ n.tx.done /\ n.tx.result = k3.ip.result
             /\ ~n.ip.done /\ n.ip.token = k3.ip.token /\ n.ip.active = k3.ip.active
          \/ k3.tx.token # 0 /\ ~k3.tx.done /\ on /\ ~k3.ip.done /\ n = k3
  BY <1>9, <1>10, Transmitted DEF Like
<1>13. RxOk(n)
  BY <1>4, <1>12 DEF RxOk
<1>14. Unsettled(n, W) /\ ~n.ip.done
  <2>1. CASE k.tx.token = 0
    <3>1. k2.ip = NoEntry /\ ~k.tx.published
      BY <2>1, <1>6, <1>7 DEF Unsettled
    <3>2. n = k3 /\ n.ip = NoEntry
      BY <2>1, <3>1, <1>9, <1>12
    <3> QED BY <2>1, <3>2, <1>9, NoneType DEF Unsettled
  <2>2. CASE k.tx.token # 0 /\ k.tx.done
    <3>1. n = k3 /\ n.ip = k2.ip
      BY <2>2, <1>9, <1>12
    <3> QED BY <2>2, <3>1, <1>6, <1>7, <1>9, NoneType DEF Unsettled
  <2>3. CASE k.tx.token # 0 /\ ~k.tx.done /\ ~on
    <3>1. n.tx.done /\ n.tx.result = "EIO" /\ n.ip = NoEntry
      <4>1. k3.ip.token = 0 => k3.ip = NoEntry
        BY <2>3, <1>7, <1>9 DEF Unsettled
      <4> QED BY <2>3, <4>1, <1>9, <1>12
    <3>2. W[k.tx.token].sent = 0 \/ (W[k.tx.token].sent = 1 /\ W[k.tx.token].down)
      BY <2>3 DEF Unsettled
    <3>3. k.tx.data = k.tx.token
      BY <2>3 DEF Unsettled
    <3> QED BY <2>3, <3>1, <3>2, <3>3, <1>9, <1>12, NoneType DEF Unsettled
  <2>4. CASE k.tx.token # 0 /\ ~k.tx.done /\ on /\ k.tx.published
    <3>1. n = k3 /\ n.ip.active /\ ~n.ip.done /\ n.ip.token = k.tx.token /\ n.ip.data = k.tx.data
      BY <2>4, <1>9, <1>12
    <3>2. k.tx.data = k.tx.token /\ W[k.tx.token].sent = 0
      BY <2>4 DEF Unsettled
    <3> QED BY <2>4, <3>1, <3>2, <1>9 DEF Unsettled
  <2>5. CASE k.tx.token # 0 /\ ~k.tx.done /\ on /\ ~k.tx.published
    <3>1. k3.ip = k.ip /\ k.ip.token = k.tx.token /\ k.ip.data = k.tx.token /\ k.tx.data = k.tx.token
      BY <2>5, <1>6, <1>9 DEF Unsettled
    <3>2. CASE k.ip.done
      <4>1. n.tx.done /\ n.tx.result = k.ip.result /\ ~n.ip.done /\ n.ip.token = k.tx.token /\ ~n.ip.active
        BY <2>5, <3>1, <3>2, <1>9, <1>12 DEF Unsettled
      <4>2. \/ k.ip.result = "OK" /\ W[k.tx.token].sent = 1
            \/ k.ip.result = "EIO" /\ W[k.tx.token].sent = 0
        BY <2>5, <3>2 DEF Unsettled
      <4> QED BY <2>5, <3>1, <4>1, <4>2, <1>9, <1>12 DEF Unsettled
    <3>3. CASE ~k.ip.done
      <4>1. n = k3
        BY <2>5, <3>1, <3>3, <1>9, <1>12
      <4> QED BY <2>5, <3>1, <3>3, <4>1, <1>9 DEF Unsettled
    <3> QED BY <3>2, <3>3
  <2> QED BY <2>1, <2>2, <2>3, <2>4, <2>5
<1> QED BY <1>4, <1>11, <1>12, <1>13, <1>14

\* The link going down before the tick, and the engine's own tick.
LEMMA LinkedDown ==
    ASSUME NEW k \in SockRec, NEW W, Unsettled(k, W), ~k.ip.done, RxOk(k)
    PROVE  /\ Fails(k) \in SockRec
           /\ Fails(k).rx = k.rx /\ Fails(k).receive = k.receive /\ Fails(k).tx = k.tx
           /\ Fails(k).ip.done /\ Fails(k).ip.result = "EIO"
           /\ k.ip.active => Unsettled(Fails(k), W) /\ RxOk(Fails(k))
<1>1. PICK e : e = [k.ip EXCEPT !.active = FALSE, !.done = TRUE, !.result = "EIO"]
  OBVIOUS
<1>2. /\ e \in EntryRec /\ e.token = k.ip.token /\ e.data = k.ip.data /\ e.done /\ ~e.active
      /\ e.result = "EIO"
  BY <1>1, SockFields DEF EntryRec, Statuses
<1>3. Fails(k) = [k EXCEPT !.ip = e]
  BY <1>1, SockFields DEF Fails, SockRec, EntryRec
<1>4. PICK n : n = Fails(k)
  OBVIOUS
<1>5. n \in SockRec /\ n.rx = k.rx /\ n.receive = k.receive /\ n.tx = k.tx /\ n.ip = e
  BY <1>2, <1>3, <1>4, SockFields DEF SockRec
<1>6. k.ip.active => k.ip.token # 0 /\ k.ip.token = k.tx.token /\ ~k.tx.published /\ ~k.tx.done
  BY NoneType DEF Unsettled
<1>7. k.ip.active => Unsettled(n, W) /\ RxOk(n)
  BY <1>2, <1>5, <1>6 DEF Unsettled, RxOk
<1> QED BY <1>2, <1>4, <1>5, <1>7

\* The request of the send in progress.
LEMMA Sender ==
    ASSUME UInv, sock.tx.token # 0
    PROVE  /\ sock.tx.token \in 1 .. Len(ret) /\ sock.tx.token \in 1 .. MaxCalls
           /\ \E s \in Slots : /\ v[s].active /\ v[s].kind = "send" /\ v[s].id = sock.tx.token
                               /\ ~Ended(s) /\ Committed(s)
<1>1. PICK s \in Slots : v[s].active /\ v[s].kind = "send" /\ v[s].id = sock.tx.token
  BY DEF UInv, Operations
<1>2. ~Ended(s)
  BY <1>1 DEF UInv, AtRest
<1>3. slot[s].state # "FREE"
  BY <1>2 DEF Ended
<1>4. v[s].id \in 1 .. Len(ret) /\ Len(ret) \in Nat /\ Len(ret) <= MaxCalls
  BY <1>3 DEF UInv, Numbered, UType
<1>5. Was(s) \in PhasesOf
  BY SlotType, StepType DEF Was, UInv, InStep, PhasesOf
<1>6. Committed(s)
  BY <1>1, <1>2, <1>5 DEF UInv, Phased, ByPhase, PhasesOf
<1>7. sock.tx.token \in 1 .. MaxCalls
  BY <1>1, <1>4, UdpAssumption
<1> QED BY <1>1, <1>2, <1>4, <1>6, <1>7

\* What a sweep does.
LEMMA Swept ==
    ASSUME UInv, Protocols
    PROVE  /\ sock' \in SockRec /\ Unsettled(sock', wire') /\ ~sock'.ip.done /\ RxOk(sock')
           /\ sock'.receive.token = sock.receive.token /\ sock'.tx.token = sock.tx.token
           /\ wire' \in [1 .. MaxCalls -> [sent : Nat, down : BOOLEAN]]
           /\ \A c \in 1 .. MaxCalls : wire'[c] # wire[c] => c = sock.tx.token /\ wire'[c].sent = 1
           /\ \/ sock'.rx = sock.rx /\ arrivals' = arrivals
              \/ sock'.rx = Append(sock.rx, arrivals + 1) /\ arrivals' = arrivals + 1
<1> USE UdpAssumption
<1>1. PICK k0 \in {sock} \cup (IF arrivals < MaxArrivals THEN {Input(sock)} ELSE {}),
           on0 \in BOOLEAN, on1 \in BOOLEAN, on2 \in BOOLEAN, over \in BOOLEAN :
         \E k2 \in Ipv4Tick(SocketTick(IF on0 THEN k0 ELSE LinkDown(k0), on1, over)) :
            /\ arrivals' = arrivals + Len(k0.rx) - Len(sock.rx)
            /\ sock' = SocketTick(k2, on2, over)
            /\ wire' = IF SocketTick(IF on0 THEN k0 ELSE LinkDown(k0), on1, over).ip.active
                          /\ k2.ip.done /\ k2.ip.result = "OK"
                       THEN [wire EXCEPT ![k2.ip.data] = [sent |-> @.sent + 1, down |-> ~on2]]
                       ELSE wire
  BY DEF Protocols
<1>2. PICK b : b = IF on0 THEN k0 ELSE LinkDown(k0)
  OBVIOUS
<1>3. PICK k1 : k1 = SocketTick(b, on1, over)
  OBVIOUS
<1>4. PICK k2 \in Ipv4Tick(k1) :
         /\ arrivals' = arrivals + Len(k0.rx) - Len(sock.rx)
         /\ sock' = SocketTick(k2, on2, over)
         /\ wire' = IF k1.ip.active /\ k2.ip.done /\ k2.ip.result = "OK"
                    THEN [wire EXCEPT ![k2.ip.data] = [sent |-> @.sent + 1, down |-> ~on2]]
                    ELSE wire
  BY <1>1, <1>2, <1>3
<1>5. /\ sock \in SockRec /\ sock.rx \in Seq(Nat) /\ arrivals \in Nat
      /\ wire \in [1 .. MaxCalls -> [sent : Nat, down : BOOLEAN]]
      /\ Unsettled(sock, wire) /\ ~sock.ip.done /\ RxOk(sock)
  BY SockFields DEF UInv, UType, Transmission, Operations, RxOk
<1>6. /\ k0 \in SockRec /\ k0.receive = sock.receive /\ k0.tx = sock.tx /\ k0.ip = sock.ip
      /\ \/ k0.rx = sock.rx /\ arrivals' = arrivals
         \/ k0.rx = Append(sock.rx, arrivals + 1) /\ arrivals' = arrivals + 1
  <2>1. CASE k0 = sock
    BY <2>1, <1>4, <1>5
  <2>2. CASE k0 # sock
    <3>1. k0 = Input(sock)
      BY <2>2, <1>1
    <3>2. k0 = [sock EXCEPT !.rx = Append(@, arrivals + 1)]
      BY <2>2, <3>1 DEF Input
    <3>3. PICK q : q = Append(sock.rx, arrivals + 1)
      OBVIOUS
    <3>4. q \in Seq(Nat) /\ Len(q) = Len(sock.rx) + 1 /\ Len(sock.rx) \in Nat
      BY <3>3, <1>5
    <3>5. k0 = [sock EXCEPT !.rx = q]
      BY <3>2, <3>3, <1>5
    <3>6. /\ k0 \in SockRec /\ k0.receive = sock.receive /\ k0.tx = sock.tx /\ k0.ip = sock.ip
          /\ k0.rx = q
      BY <3>4, <3>5, <1>5 DEF SockRec
    <3>7. arrivals' = arrivals + 1
      BY <3>4, <3>6, <1>4, <1>5
    <3> QED BY <3>3, <3>6, <3>7
  <2> QED BY <2>1, <2>2
<1>7. Unsettled(k0, wire) /\ RxOk(k0) /\ ~k0.ip.done
  <2>1. sock.rx # <<>> => k0.rx # <<>>
    <3>1. Append(sock.rx, arrivals + 1) # <<>>
      <4>1. PICK q : q = Append(sock.rx, arrivals + 1)
        OBVIOUS
      <4>2. Len(q) = Len(sock.rx) + 1 /\ Len(sock.rx) \in Nat
        BY <4>1, <1>5
      <4>3. Len(q) # 0
        BY <4>2
      <4>4. q # <<>>
        BY <4>3
      <4> QED BY <4>1, <4>4
    <3> QED BY <3>1, <1>6
  <2> QED BY <2>1, <1>5, <1>6 DEF Unsettled, RxOk
<1>8. /\ b \in SockRec /\ Unsettled(b, wire) /\ RxOk(b) /\ b.rx = k0.rx /\ b.receive = sock.receive
      /\ b.tx = sock.tx /\ ~(b.ip.done /\ b.ip.result = "OK")
  <2>1. CASE b = k0
    BY <2>1, <1>6, <1>7
  <2>2. CASE b # k0
    <3>1. b = Fails(k0) /\ k0.ip.active
      BY <2>2, <1>2 DEF LinkDown
    <3> QED BY <3>1, <1>6, <1>7, LinkedDown
  <2> QED BY <2>1, <2>2
<1>9. /\ k1 \in SockRec /\ Unsettled(k1, wire) /\ ~k1.ip.done /\ RxOk(k1) /\ k1.rx = k0.rx
      /\ k1.receive.token = sock.receive.token /\ k1.tx.token = sock.tx.token
  BY <1>3, <1>8, SocketTicked
<1>10. CASE ~(k1.ip.active /\ k2.ip.done /\ k2.ip.result = "OK")
  <2>1. wire' = wire
    BY <1>4, <1>10
  <2>2. /\ k2 \in SockRec /\ Unsettled(k2, wire) /\ RxOk(k2) /\ k2.rx = k0.rx
        /\ k2.receive.token = sock.receive.token /\ k2.tx.token = sock.tx.token
        /\ ~(k2.ip.done /\ k2.ip.result = "OK")
    <3>1. CASE k2 = k1
      BY <3>1, <1>9
    <3>2. CASE k2 # k1
      <4>1. /\ k1.ip.active
            /\ k2 \in {Fails(k1), [k1 EXCEPT !.ip.active = FALSE, !.ip.done = TRUE, !.ip.result = "OK"]}
        BY <3>2, <1>4 DEF Ipv4Tick
      <4>2. [k1 EXCEPT !.ip.active = FALSE, !.ip.done = TRUE, !.ip.result = "OK"].ip.done
            /\ [k1 EXCEPT !.ip.active = FALSE, !.ip.done = TRUE, !.ip.result = "OK"].ip.result = "OK"
        BY <1>9, SockFields DEF SockRec, EntryRec
      <4>3. k2 = Fails(k1)
        BY <4>1, <4>2, <1>10
      <4> QED BY <4>1, <4>3, <1>9, LinkedDown
    <3> QED BY <3>1, <3>2
  <2>3. /\ sock' \in SockRec /\ Unsettled(sock', wire) /\ ~sock'.ip.done /\ RxOk(sock')
        /\ sock'.rx = k0.rx
        /\ sock'.receive.token = sock.receive.token /\ sock'.tx.token = sock.tx.token
    <3>1. PICK W : W = wire
      OBVIOUS
    <3>2. PICK n : n = SocketTick(k2, on2, over)
      OBVIOUS
    <3>3. Unsettled(k2, W) /\ W \in [1 .. MaxCalls -> [sent : Nat, down : BOOLEAN]]
      BY <2>2, <3>1, <1>5
    <3>4. /\ n \in SockRec /\ Unsettled(n, W) /\ ~n.ip.done /\ RxOk(n)
          /\ n.rx = k2.rx /\ n.receive.token = k2.receive.token /\ n.tx.token = k2.tx.token
      BY <2>2, <3>2, <3>3, SocketTicked
    <3>5. sock' = n
      BY <3>2, <1>4
    <3> QED BY <2>2, <3>1, <3>4, <3>5
  <2> QED BY <2>1, <2>3, <1>5, <1>6
<1>11. CASE k1.ip.active /\ k2.ip.done /\ k2.ip.result = "OK"
  <2>1. k2 = [k1 EXCEPT !.ip.active = FALSE, !.ip.done = TRUE, !.ip.result = "OK"]
    <3>1. k2 # k1
      BY <1>9, <1>11
    <3>2. Fails(k1).ip.result = "EIO"
      BY <1>9, LinkedDown
    <3>3. k2 # Fails(k1)
      BY <3>2, <1>11
    <3> QED BY <3>1, <3>3, <1>4, <1>11 DEF Ipv4Tick
  <2>2. sock.tx.token \in 1 .. MaxCalls
    <3>1. sock.tx.token # 0
      BY <1>9, <1>11, NoneType DEF Unsettled
    <3> QED BY <3>1, Sender
  <2>3. PICK d \in BOOLEAN : d = ~on2
    OBVIOUS
  <2>4. wire' = [wire EXCEPT ![k2.ip.data] = [sent |-> @.sent + 1, down |-> d]]
    BY <2>3, <1>4, <1>11
  <2>5. PICK V : V = wire'
    OBVIOUS
  <2>6. /\ k2 \in SockRec /\ k2.rx = k1.rx /\ k2.receive = k1.receive /\ k2.tx = k1.tx
        /\ Unsettled(k2, V) /\ RxOk(k2)
        /\ V \in [1 .. MaxCalls -> [sent : Nat, down : BOOLEAN]]
        /\ V[k1.tx.token].sent = 1 /\ V[k1.tx.token].down = d
        /\ \A c \in 1 .. MaxCalls : c # k1.tx.token => V[c] = wire[c]
    <3>1. PICK W : W = wire
      OBVIOUS
    <3>2. Unsettled(k1, W) /\ W \in [1 .. MaxCalls -> [sent : Nat, down : BOOLEAN]]
      BY <3>1, <1>5, <1>9
    <3>3. k1.tx.token \in 1 .. MaxCalls
      BY <2>2, <1>9
    <3>4. V = [W EXCEPT ![k2.ip.data] = [sent |-> @.sent + 1, down |-> d]]
      BY <2>4, <2>5, <3>1
    <3>5. k1 \in SockRec /\ ~k1.ip.done /\ RxOk(k1) /\ k1.ip.active
      BY <1>9, <1>11
    <3>6. PICK e : e = [k1.ip EXCEPT !.active = FALSE, !.done = TRUE, !.result = "OK"]
      OBVIOUS
    <3>7. /\ e \in EntryRec /\ e.token = k1.ip.token /\ e.data = k1.ip.data /\ e.done /\ ~e.active
          /\ e.result = "OK"
      BY <3>5, <3>6, SockFields DEF EntryRec, Statuses
    <3>8. k2 = [k1 EXCEPT !.ip = e]
      BY <2>1, <3>5, <3>6, SockFields DEF SockRec, EntryRec
    <3>9. k2 \in SockRec /\ k2.rx = k1.rx /\ k2.receive = k1.receive /\ k2.tx = k1.tx /\ k2.ip = e
      BY <3>5, <3>7, <3>8, SockFields DEF SockRec
    <3>10. /\ k1.ip.token # 0 /\ k1.ip.token = k1.tx.token /\ ~k1.tx.published /\ ~k1.tx.done
           /\ k1.ip.data = k1.tx.token /\ k1.tx.data = k1.tx.token /\ W[k1.tx.token].sent = 0
      BY <3>2, <3>5, NoneType DEF Unsettled
    <3>11. PICK x : x = [sent |-> 1, down |-> d]
      OBVIOUS
    <3>12. x \in [sent : Nat, down : BOOLEAN] /\ x.sent = 1 /\ x.down = d
      BY <2>3, <3>11
    <3>13. V = [W EXCEPT ![k1.tx.token] = x]
      <4>1. k2.ip.data = k1.tx.token /\ W[k1.tx.token].sent + 1 = 1
        BY <3>7, <3>9, <3>10
      <4> QED BY <3>4, <3>11, <4>1
    <3>14. V[k1.tx.token] = x /\ \A c \in 1 .. MaxCalls : c # k1.tx.token => V[c] = W[c]
      BY <3>2, <3>3, <3>13
    <3>15. V \in [1 .. MaxCalls -> [sent : Nat, down : BOOLEAN]]
      BY <3>2, <3>3, <3>12, <3>13
    <3>16. Unsettled(k2, V) /\ RxOk(k2)
      BY <3>2, <3>5, <3>7, <3>9, <3>10, <3>12, <3>14 DEF Unsettled, RxOk
    <3> QED BY <3>1, <3>9, <3>12, <3>14, <3>15, <3>16
  <2>7. k2.ip.done /\ k2.ip.result = "OK" => on2 \/ V[k2.tx.token].down
    BY <2>3, <2>6
  <2>8. /\ sock' \in SockRec /\ Unsettled(sock', V) /\ ~sock'.ip.done /\ RxOk(sock')
        /\ sock'.rx = k0.rx
        /\ sock'.receive.token = sock.receive.token /\ sock'.tx.token = sock.tx.token
    <3>1. PICK n : n = SocketTick(k2, on2, over)
      OBVIOUS
    <3>2. /\ n \in SockRec /\ Unsettled(n, V) /\ ~n.ip.done /\ RxOk(n)
          /\ n.rx = k2.rx /\ n.receive.token = k2.receive.token /\ n.tx.token = k2.tx.token
      <4>1. /\ k2 \in SockRec /\ Unsettled(k2, V) /\ RxOk(k2)
            /\ k2.ip.done /\ k2.ip.result = "OK" => on2 \/ V[k2.tx.token].down
        BY <2>6, <2>7
      <4> QED BY <4>1, <3>1, SocketTicked
    <3>3. sock' = n
      BY <3>1, <1>4
    <3> QED BY <2>6, <3>2, <3>3, <1>9
  <2> QED BY <2>5, <2>6, <2>8, <1>5, <1>6, <1>9
<1> QED BY <1>10, <1>11

LEMMA RetData == UInv => \A c \in DOMAIN ret : ret[c].data \in Nat
<1> SUFFICES ASSUME UInv, NEW c \in DOMAIN ret PROVE ret[c].data \in Nat
  OBVIOUS
<1>1. PICK S : S = [status : Statuses, data : Nat]
  OBVIOUS
<1>2. ret \in Seq(S)
  BY <1>1 DEF UInv, UType
<1>3. ret[c] \in S
  BY <1>2
<1> QED BY <1>1, <1>3

LEMMA ProtocolsKeeps == ASSUME UInv, Protocols PROVE UInv'
<1> USE UdpAssumption
<1>1. /\ pc' = pc /\ reg' = reg /\ buf' = buf /\ ret' = ret /\ slot' = slot /\ v' = v
      /\ pool' = pool
  BY DEF Protocols, call, transport
<1>2. turn' \in TurnRec /\ turn'.step = turn.step /\ turn.step.s = 0 /\ turn.step = NoStep
  <2>1. turn' = [turn EXCEPT !.phase = "housekeeping"] /\ turn.phase = "protocols"
    BY DEF Protocols
  <2>2. turn' \in TurnRec /\ turn'.step = turn.step
    BY <2>1, StepType DEF TurnRec
  <2> QED BY <2>1, <2>2 DEF UInv, InStep
<1>3. /\ sock' \in SockRec /\ Unsettled(sock', wire') /\ ~sock'.ip.done /\ RxOk(sock')
      /\ sock'.receive.token = sock.receive.token /\ sock'.tx.token = sock.tx.token
      /\ wire' \in [1 .. MaxCalls -> [sent : Nat, down : BOOLEAN]]
      /\ \A c \in 1 .. MaxCalls : wire'[c] # wire[c] => c = sock.tx.token /\ wire'[c].sent = 1
      /\ \/ sock'.rx = sock.rx /\ arrivals' = arrivals
         \/ sock'.rx = Append(sock.rx, arrivals + 1) /\ arrivals' = arrivals + 1
  BY Swept
<1>4. sock.rx \in Seq(Nat) /\ arrivals \in Nat /\ Len(sock.rx) \in Nat /\ Len(sock.rx) <= arrivals
  BY DEF UInv, UType, SockRec, Queue
<1>5. sock.rx # <<>> => sock'.rx # <<>> /\ Head(sock'.rx) = Head(sock.rx)
  <2>1. sock.rx # <<>> => Head(Append(sock.rx, arrivals + 1)) = Head(sock.rx)
                          /\ Append(sock.rx, arrivals + 1) # <<>>
    BY <1>4
  <2> QED BY <2>1, <1>3
<1>6. arrivals' \in Nat /\ arrivals <= arrivals' /\ Len(sock'.rx) \in Nat
      /\ arrivals' - Len(sock'.rx) = arrivals - Len(sock.rx) /\ Len(sock'.rx) <= arrivals'
  <2>1. Len(Append(sock.rx, arrivals + 1)) = Len(sock.rx) + 1
    BY <1>4
  <2>2. CASE sock'.rx = sock.rx /\ arrivals' = arrivals
    BY <2>2, <1>4
  <2>3. CASE sock'.rx = Append(sock.rx, arrivals + 1) /\ arrivals' = arrivals + 1
    <3>1. PICK n \in Nat : n = Len(sock.rx)
      BY <1>4
    <3>2. Len(sock'.rx) = n + 1
      <4>1. PICK q : q = Append(sock.rx, arrivals + 1)
        OBVIOUS
      <4>2. Len(q) = n + 1 /\ sock'.rx = q
        BY <4>1, <2>1, <2>3, <3>1
      <4> QED BY <4>2
    <3>3. arrivals' = arrivals + 1 /\ arrivals \in Nat /\ n <= arrivals
      BY <2>3, <3>1, <1>4
    <3> QED BY <3>1, <3>2, <3>3
  <2> QED BY <2>2, <2>3, <1>3
<1>7. \A s \in Slots : (Ended(s)' <=> Ended(s)) /\ Was(s)' = Was(s) /\ (Committed(s)' <=> Committed(s))
  BY <1>1, <1>2 DEF Ended, Was, Committed
<1>8. \A s \in Slots : HoldsHead(s) => HoldsHead(s)'
  BY <1>1, <1>5 DEF HoldsHead
<1>9. UType'
  BY <1>1, <1>2, <1>3, <1>6 DEF UInv, UType
<1>10. Registered' /\ Numbered'
  BY <1>1 DEF UInv, Registered, Numbered
<1>11. InStep'
  BY <1>1, <1>2 DEF UInv, InStep
<1>12. Phased'
  <2> SUFFICES ASSUME NEW s \in Slots, ~Ended(s)' PROVE ByPhase(s)'
    BY DEF Phased
  <2>1. ByPhase(s)
    BY <1>7 DEF UInv, Phased
  <2> QED BY <2>1, <1>1, <1>5, <1>7, <1>8 DEF ByPhase
<1>13. AtRest' /\ Owned' /\ Pinned'
  BY <1>1, <1>7 DEF UInv, AtRest, Owned, Pinned
<1>14. Operations'
  BY <1>1, <1>3 DEF UInv, Operations, RxOk
<1>15. Places'
  <2> SUFFICES ASSUME NEW a \in Actors PROVE Places!(a)'
    BY DEF Places
  <2>1. CASE pc[a] = "idle"
    BY <2>1, <1>1 DEF UInv, Places
  <2>2. CASE pc[a] # "idle"
    <3>1. reg[a] \in Slots /\ v[reg[a]].kind \in {"send", "recv"}
      BY <2>2, CallerAt
    <3>2. ASSUME pc[a] \in {"terminal", "ack"}, v[reg[a]].kind = "recv", ~Ended(reg[a])
          PROVE  sock.rx # <<>>
      <4>1. Was(reg[a]) \in {"COMMIT", "SUBMITTED"} /\ ByPhase(reg[a])
        BY <3>1, <3>2 DEF UInv, Places, Phased
      <4> QED BY <4>1, <3>2 DEF ByPhase
    <3> QED BY <2>2, <3>1, <3>2, <1>1, <1>5, <1>7 DEF UInv, Places
  <2> QED BY <2>1, <2>2
<1>16. Transmission'
  BY <1>3 DEF Transmission
<1>17. ASSUME NEW c \in 1 .. MaxCalls, wire'[c] # wire[c]
       PROVE  /\ wire'[c].sent = 1 /\ c <= Len(ret) /\ ret[c].status = NoReply
              /\ \A s \in Slots : slot[s].state # "FREE" /\ v[s].id = c =>
                    v[s].active /\ v[s].kind = "send" /\ ~Ended(s)
              /\ \A a \in Actors : reg[a] # 0 /\ v[reg[a]].id = c => pc[a] \in {"terminal", "ack"}
  <2>1. c = sock.tx.token /\ wire'[c].sent = 1 /\ sock.tx.token # 0
    BY <1>3, <1>17
  <2>2. PICK s \in Slots : /\ v[s].active /\ v[s].kind = "send" /\ v[s].id = c
                           /\ ~Ended(s) /\ Committed(s)
    BY <2>1, Sender
  <2>3. PICK a \in Actors : reg[a] = s /\ pc[a] \in {"terminal", "ack"}
    BY <2>2 DEF Committed
  <2>4. \A w \in Slots : slot[w].state # "FREE" /\ v[w].id = c => w = s
    <3>1. slot[s].state # "FREE"
      BY <2>2 DEF Ended
    <3> QED BY <2>2, <3>1 DEF UInv, Numbered
  <2>5. ret[c].status = NoReply
    BY <2>2, <2>3, CallerAt
  <2>6. \A b \in Actors : reg[b] # 0 /\ v[reg[b]].id = c => b = a
    BY <2>2, <2>3, CallerAt
  <2>7. c <= Len(ret)
    BY <2>1, Sender
  <2> QED BY <2>1, <2>2, <2>3, <2>4, <2>5, <2>6, <2>7
<1>18. OnWire'
  <2>1. Len(ret) \in Nat /\ Len(ret) <= MaxCalls /\ DOMAIN ret = 1 .. Len(ret)
    BY DEF UInv, UType
  <2>2. \A c \in 1 .. MaxCalls : wire'[c].sent <= 1 /\ (c > Len(ret') => wire'[c].sent = 0)
    <3> TAKE c \in 1 .. MaxCalls
    <3>1. CASE wire'[c] = wire[c]
      BY <3>1, <1>1 DEF UInv, OnWire
    <3>2. CASE wire'[c] # wire[c]
      BY <3>2, <1>1, <1>17, <2>1
    <3> QED BY <3>1, <3>2
  <2>3. \A s \in Slots : slot[s].state # "FREE" => v[s].id \in 1 .. MaxCalls
    <3> SUFFICES ASSUME NEW s \in Slots, slot[s].state # "FREE" PROVE v[s].id \in 1 .. MaxCalls
      OBVIOUS
    <3>1. v[s].id \in 1 .. Len(ret)
      BY DEF UInv, Numbered
    <3> QED BY <3>1, <2>1
  <2>4. ASSUME NEW s \in Slots
        PROVE  /\ slot'[s].state # "FREE" /\ v'[s].kind = "recv" => wire'[v'[s].id].sent = 0
               /\ ~Ended(s)' /\ ~v'[s].active => wire'[v'[s].id].sent = 0
               /\ slot'[s].state = "QUEUED" => wire'[v'[s].id].sent = 0
    <3>1. CASE slot[s].state = "FREE"
      BY <3>1, <1>1, <1>7 DEF Ended
    <3>2. CASE slot[s].state # "FREE" /\ wire'[v[s].id] = wire[v[s].id]
      BY <3>2, <1>1, <1>7 DEF UInv, OnWire
    <3>3. CASE slot[s].state # "FREE" /\ wire'[v[s].id] # wire[v[s].id]
      <4>1. v[s].active /\ v[s].kind = "send" /\ ~Ended(s)
        BY <3>3, <2>3, <1>17
      <4> QED BY <4>1, <1>1, <1>7 DEF Ended
    <3> QED BY <3>1, <3>2, <3>3
  <2>5. ASSUME NEW a \in Actors
        PROVE  /\ pc'[a] \in {"wait", "pinned"} => wire'[v'[reg'[a]].id].sent = 0
               /\ reg'[a] # 0 /\ slot'[reg'[a]].state = "COMPLETED" /\ v'[reg'[a]].kind = "send" =>
                     /\ slot'[reg'[a]].reply = "OK" => wire'[v'[reg'[a]].id].sent = 1
                     /\ slot'[reg'[a]].reply \in {"EINTR", "EAGAIN", "EFAULT"} =>
                           wire'[v'[reg'[a]].id].sent = 0 \/ wire'[v'[reg'[a]].id].down
    <3>1. CASE pc[a] = "idle"
      BY <3>1, <1>1 DEF UInv, Registered
    <3>2. CASE pc[a] # "idle"
      <4>1. reg[a] \in Slots /\ reg[a] # 0 /\ slot[reg[a]].state # "FREE"
        BY <3>2, CallerAt
      <4>2. CASE wire'[v[reg[a]].id] = wire[v[reg[a]].id]
        BY <4>1, <4>2, <1>1 DEF UInv, OnWire
      <4>3. CASE wire'[v[reg[a]].id] # wire[v[reg[a]].id]
        <5>1. pc[a] \in {"terminal", "ack"} /\ ~Ended(reg[a])
          BY <4>1, <4>3, <2>3, <1>17
        <5> QED BY <5>1, <1>1 DEF Ended
      <4> QED BY <4>2, <4>3
    <3> QED BY <3>1, <3>2
  <2>6. ASSUME NEW c \in DOMAIN ret'
        PROVE  /\ ret'[c].status = "OK" /\ ret'[c].data = 0 => wire'[c].sent = 1
               /\ ret'[c].status \in {"EINTR", "EAGAIN", "EFAULT"} => wire'[c].sent = 0 \/ wire'[c].down
    <3>1. c \in 1 .. MaxCalls /\ c \in DOMAIN ret
      BY <2>1, <1>1
    <3>2. CASE wire'[c] = wire[c]
      BY <3>1, <3>2, <1>1 DEF UInv, OnWire
    <3>3. CASE wire'[c] # wire[c]
      BY <3>1, <3>3, <1>1, <1>17 DEF NoReply
    <3> QED BY <3>2, <3>3
  <2> QED BY <2>2, <2>4, <2>5, <2>6 DEF OnWire
<1>19. Queue'
  <2>1. CASE sock'.rx = sock.rx /\ arrivals' = arrivals
    BY <2>1 DEF UInv, Queue
  <2>2. CASE sock'.rx = Append(sock.rx, arrivals + 1) /\ arrivals' = arrivals + 1
    <3>1. PICK n \in Nat : n = Len(sock.rx)
      BY <1>4
    <3>2. \A i \in 1 .. n : sock.rx[i] = arrivals - n + i
      BY <3>1 DEF UInv, Queue
    <3>3. PICK q : q = Append(sock.rx, arrivals + 1)
      OBVIOUS
    <3>4. /\ q \in Seq(Nat) /\ Len(q) = n + 1 /\ q[n + 1] = arrivals + 1
          /\ \A i \in 1 .. n : q[i] = sock.rx[i]
      BY <3>1, <3>3, <1>4
    <3>5. \A i \in 1 .. n + 1 : q[i] = arrivals + 1 - (n + 1) + i
      <4>1. \A i \in 1 .. n + 1 : i \in 1 .. n \/ i = n + 1
        OBVIOUS
      <4>2. \A i \in 1 .. n : q[i] = arrivals + 1 - (n + 1) + i
        <5>1. \A i \in 1 .. n : arrivals - n + i = arrivals + 1 - (n + 1) + i
          BY <1>4
        <5> QED BY <3>2, <3>4, <5>1
      <4>3. arrivals + 1 - (n + 1) + (n + 1) = arrivals + 1
        BY <1>4
      <4> QED BY <3>4, <4>1, <4>2, <4>3
    <3>6. q = [i \in 1 .. n + 1 |-> arrivals + 1 - (n + 1) + i]
      BY <3>4, <3>5
    <3>7. sock'.rx = q /\ Len(sock'.rx) = n + 1 /\ arrivals' = arrivals + 1
      BY <2>2, <3>3, <3>4
    <3>8. PICK A, L : A = arrivals' /\ L = Len(sock'.rx)
      OBVIOUS
    <3>9. A = arrivals + 1 /\ L = n + 1
      BY <3>7, <3>8
    <3>10. q = [i \in 1 .. L |-> A - L + i]
      <4>1. 1 .. L = 1 .. n + 1 /\ \A i \in 1 .. n + 1 : A - L + i = arrivals + 1 - (n + 1) + i
        BY <3>9, <1>4
      <4>2. DOMAIN q = 1 .. L /\ \A i \in 1 .. L : q[i] = A - L + i
        BY <3>4, <3>5, <3>9, <4>1
      <4>3. q = [i \in DOMAIN q |-> q[i]]
        BY <3>4
      <4> QED BY <4>2, <4>3
    <3>11. sock'.rx = [i \in 1 .. Len(sock'.rx) |-> arrivals' - Len(sock'.rx) + i]
      BY <3>7, <3>8, <3>10
    <3> QED BY <3>11, <1>6 DEF Queue
  <2> QED BY <2>1, <2>2, <1>3
<1>20. Once'
  <2>1. \A d : HandedOver(d)' = HandedOver(d) /\ Delivered(d)' = Delivered(d)
    BY <1>1 DEF HandedOver, Delivered, Completed
  <2> SUFFICES ASSUME NEW d \in 1 .. arrivals' PROVE Once!(d)'
    BY DEF Once
  <2>2. CASE d <= arrivals
    <3>1. d \in 1 .. arrivals
      BY <2>2, <1>4, <1>6
    <3>2. Once!(d)
      BY <3>1 DEF UInv, Once
    <3> QED BY <3>2, <2>1, <1>1, <1>6
  <2>3. CASE d > arrivals
    <3>1. Delivered(d) = {} /\ HandedOver(d) = {}
      <4>1. \A c \in DOMAIN ret : ret[c].data # d
        <5>1. \A c \in DOMAIN ret : ret[c].data \in Nat /\ ret[c].data <= arrivals
          BY RetData DEF UInv, Arrived
        <5> QED BY <5>1, <2>3, <1>4, <1>6
      <4>2. \A a \in Actors : buf[a] # d
        <5>1. \A a \in Actors : buf[a] \in Nat /\ buf[a] <= arrivals
          BY DEF UInv, UType, Arrived
        <5> QED BY <5>1, <2>3, <1>4, <1>6
      <4> QED BY <4>1, <4>2 DEF Delivered, HandedOver
    <3>2. ~(d <= arrivals' - Len(sock'.rx))
      BY <2>3, <1>4, <1>6
    <3> QED BY <3>1, <3>2, <2>1
  <2> QED BY <2>2, <2>3, <1>4, <1>6
<1>21. Arrived'
  <2>1. \A a \in Actors : buf[a] \in Nat
    BY DEF UInv, UType
  <2>2. \A c \in DOMAIN ret : ret[c].data \in Nat
    BY RetData
  <2> QED BY <2>1, <2>2, <1>1, <1>4, <1>6 DEF UInv, Arrived
<1> QED BY <1>9, <1>10, <1>11, <1>12, <1>13, <1>14, <1>15, <1>16, <1>18, <1>19, <1>20, <1>21
        DEF UInv

--------------------------------------------------------------------------
(* The second half of a step *)

\* What a live request holds by its phase: ByPhase, of the parts of a step.
Holds(r, q, k) ==
    /\ r.phase = "IO" => (r.kind = "send" => ~r.active /\ r.slab = NoSlab)
    /\ r.phase = "COPY" => /\ r.slab # NoSlab
                           /\ r.kind = "send" => ~r.active
                           /\ r.kind = "recv" =>
                                 r.active /\ k.rx # <<>> /\ q.payload[r.slab] = Head(k.rx)
    /\ r.phase = "COMMIT" => /\ r.kind = "send" => /\ ~r.active /\ r.slab # NoSlab
                                                   /\ q.payload[r.slab] = r.id
                             /\ r.kind = "recv" => r.active /\ k.rx # <<>>
    /\ r.phase = "SUBMITTED" => r.kind = "send" /\ r.active /\ r.slab = NoSlab

(* A step leaves the request pending with the record r, the pool q and the *)
(* socket k.                                                               *)
Stays(s, r, q, k) ==
    /\ r \in RequestRec /\ r.id = v[s].id /\ r.kind = v[s].kind /\ r.pin = v[s].pin
    /\ r.pin => r.phase = "COPY"
    /\ r.phase \in {"IO", "COPY"} <=> Was(s) \in {"IO", "COPY"}
    /\ v[s].active => r.active
    /\ Holds(r, q, k)
    /\ q \in PoolRec /\ q.used = (pool.used \ {v[s].slab}) \cup ({r.slab} \ {NoSlab})
    /\ r.slab \in pool.used => r.slab = v[s].slab
    /\ \A b \in Slabs : b # r.slab => q.payload[b] = pool.payload[b]
    /\ q.waiting \subseteq pool.waiting \cup {s}
    /\ k \in SockRec /\ k.rx = sock.rx /\ RxOk(k) /\ Unsettled(k, wire) /\ ~k.ip.done
    /\ \/ k.tx.token = sock.tx.token
       \/ sock.tx.token = 0 /\ k.tx.token = r.id /\ r.kind = "send" /\ r.active
    /\ \/ k.receive.token = sock.receive.token
       \/ sock.receive.token = 0 /\ k.receive.token = r.id /\ r.kind = "recv" /\ r.active
    /\ r.active => /\ r.kind = "send" => k.tx.token = r.id
                   /\ r.kind = "recv" => k.receive.token = r.id

\* The slot of the step in progress, and who may be behind it.
LEMMA InProgress ==
    ASSUME UInv, NEW s \in Slots, turn.step.s = s
    PROVE  /\ slot[s].state = "CLAIMED" /\ ~Ended(s) /\ s # 0
           /\ v[s].id \in Nat /\ v[s].id # 0 /\ v[s].kind \in {"send", "recv"}
           /\ Was(s) \in PhasesOf /\ ByPhase(s)
           /\ \A w \in Slots : w # s => v[w].id # v[s].id \/ slot[w].state = "FREE"
           /\ \A a \in Actors : reg[a] = s =>
                 /\ pc[a] \in {"wait", "pinned", "terminal", "ack"}
                 /\ pc[a] = "wait" => Was(s) \in {"IO", "COPY"}
                 /\ pc[a] \in {"terminal", "ack"} => Was(s) \in {"COMMIT", "SUBMITTED"}
<1>1. slot[s].state = "CLAIMED" /\ s # 0
  BY StepType DEF UInv, InStep
<1>2. ~Ended(s) /\ slot[s].state # "FREE"
  BY <1>1 DEF Ended
<1>3. v[s].id \in Nat /\ v[s].id # 0 /\ v[s].kind \in {"send", "recv"}
  <2>1. v[s].id \in 1 .. Len(ret) /\ v[s].kind \in {"send", "recv"}
    BY <1>2 DEF UInv, Numbered
  <2> QED BY <2>1, SlotType
<1>4. Was(s) \in PhasesOf
  BY <1>1, SlotType, StepType DEF Was, UInv, InStep, PhasesOf
<1>5. ByPhase(s)
  BY <1>2 DEF UInv, Phased
<1>6. \A w \in Slots : w # s => v[w].id # v[s].id \/ slot[w].state = "FREE"
  BY <1>2 DEF UInv, Numbered
<1>7. ASSUME NEW a \in Actors, reg[a] = s
      PROVE  /\ pc[a] \in {"wait", "pinned", "terminal", "ack"}
             /\ pc[a] = "wait" => Was(s) \in {"IO", "COPY"}
             /\ pc[a] \in {"terminal", "ack"} => Was(s) \in {"COMMIT", "SUBMITTED"}
  <2>1. pc[a] \in {"idle", "wait", "pinned", "terminal", "ack"} /\ pc[a] # "idle"
    BY <1>1, <1>7 DEF UInv, UType, Registered
  <2> QED BY <2>1, <1>2, <1>7 DEF UInv, Places
<1> QED BY <1>1, <1>2, <1>3, <1>4, <1>5, <1>6, <1>7

\* Only one request receives at a time, and it is the one of the step if
\* that one is active.
LEMMA OneActive ==
    ASSUME UInv, NEW s \in Slots, v[s].active, NEW w \in Slots, v[w].active, v[w].kind = v[s].kind
    PROVE  w = s
<1>1. ~Ended(s) /\ ~Ended(w)
  BY DEF UInv, AtRest
<1>2. slot[s].state # "FREE" /\ slot[w].state # "FREE" /\ v[s].kind \in {"send", "recv"}
  BY <1>1 DEF Ended, UInv, Numbered
<1>3. v[s].id = v[w].id
  BY <1>2 DEF UInv, Operations
<1> QED BY <1>2, <1>3 DEF UInv, Numbered

\* What every step does with the parts it has worked on.
Leaves(s, r, q, k, state, reply) ==
    /\ v' = [v EXCEPT ![s] = r] /\ pool' = q /\ sock' = k
    /\ slot' = [slot EXCEPT ![s].state = state, ![s].reply = reply]
    /\ turn' \in TurnRec /\ turn'.step = NoStep
    /\ pc' = pc /\ reg' = reg /\ buf' = buf /\ ret' = ret
    /\ wire' = wire /\ arrivals' = arrivals

LEMMA SlotLeft ==
    ASSUME UInv, NEW s \in Slots, NEW r, NEW q, NEW k,
           NEW state \in {"PENDING", "COMPLETED"}, NEW reply \in Statuses,
           Leaves(s, r, q, k, state, reply)
    PROVE  /\ slot' \in [Slots -> SlotRec] /\ slot'[s].state = state /\ slot'[s].reply = reply
           /\ slot'[s].caller = slot[s].caller
           /\ \A w \in Slots : w # s => slot'[w] = slot[w]
<1>1. slot \in [Slots -> SlotRec] /\ slot[s] \in SlotRec
  BY DEF UInv, UType
<1>2. PICK n : n = [slot[s] EXCEPT !.state = state, !.reply = reply]
  OBVIOUS
<1>3. n \in SlotRec /\ n.state = state /\ n.reply = reply /\ n.caller = slot[s].caller
  BY <1>1, <1>2 DEF SlotRec
<1>4. slot' = [slot EXCEPT ![s].state = state, ![s].reply = reply]
  BY DEF Leaves
<1>5. slot' = [slot EXCEPT ![s] = n]
  BY <1>1, <1>2, <1>4 DEF SlotRec
<1> QED BY <1>1, <1>3, <1>5

LEMMA StaysKeeps ==
    ASSUME UInv, NEW s \in Slots, turn.step.s = s, NEW r, NEW q, NEW k, Stays(s, r, q, k),
           Leaves(s, r, q, k, "PENDING", NoReply)
    PROVE  UInv'
<1> USE UdpAssumption
<1>0. /\ v' = [v EXCEPT ![s] = r] /\ pool' = q /\ sock' = k
      /\ pc' = pc /\ reg' = reg /\ buf' = buf /\ ret' = ret
      /\ wire' = wire /\ arrivals' = arrivals
      /\ turn' \in TurnRec /\ turn'.step = NoStep
  BY DEF Leaves
<1>1. slot \in [Slots -> SlotRec] /\ v \in [Slots -> RequestRec]
  BY DEF UInv, UType
<1>2. /\ slot' \in [Slots -> SlotRec] /\ slot'[s].state = "PENDING"
      /\ slot'[s].caller = slot[s].caller
      /\ \A w \in Slots : w # s => slot'[w] = slot[w]
  <2>1. NoReply \in Statuses
    BY DEF Statuses
  <2> QED BY <2>1, SlotLeft
<1>3. /\ v'[s] = r /\ \A w \in Slots : w # s => v'[w] = v[w]
      /\ \A w \in Slots : v'[w].id = v[w].id /\ v'[w].kind = v[w].kind /\ v'[w].pin = v[w].pin
  BY <1>0, <1>1 DEF Stays
<1>4. v' \in [Slots -> RequestRec]
  BY <1>0, <1>1 DEF Stays
<1>5. slot[s].state = "CLAIMED" /\ ~Ended(s) /\ s # 0 /\ v[s].id # 0 /\ v[s].kind \in {"send", "recv"}
  BY InProgress
<1>6. \A w \in Slots : Ended(w)' <=> Ended(w)
  BY <1>0, <1>2, <1>5 DEF Ended
<1>7. turn'.step.s = 0
  BY <1>0 DEF NoStep
<1>8. /\ Was(s)' = r.phase /\ \A w \in Slots : w # s => Was(w)' = Was(w)
  BY <1>0, <1>3, <1>5, <1>7, StepType DEF Was
<1>9. \A w \in Slots : Committed(w)' <=> Committed(w)
  BY <1>0 DEF Committed
<1>10. \A w \in Slots : (slot'[w].state = "FREE" <=> slot[w].state = "FREE")
                        /\ (slot'[w].state = "COMPLETED" <=> slot[w].state = "COMPLETED")
                        /\ (slot'[w].state = "QUEUED" <=> slot[w].state = "QUEUED")
                        /\ slot'[w].caller = slot[w].caller
  BY <1>0, <1>2, <1>5
<1>11. UType'
  BY <1>0, <1>2, <1>4 DEF UInv, UType, Stays
<1>12. Registered'
  <2>1. \A a \in Actors : reg[a] # 0 => reg[a] \in Slots
    BY <1>0 DEF UInv, UType
  <2> QED BY <1>0, <2>1, <1>10 DEF UInv, Registered
<1>13. Numbered'
  <2>1. \A a \in Actors : reg[a] # 0 => reg[a] \in Slots
    BY <1>0 DEF UInv, UType
  <2>2. \A w \in Slots : slot'[w].state = "FREE" => slot'[w] = FreeSlot /\ v'[w] = NoRequest
    BY <1>0, <1>2, <1>3, <1>5 DEF UInv, Numbered
  <2> QED BY <1>0, <2>1, <2>2, <1>3, <1>10 DEF UInv, Numbered
<1>14. InStep'
  <2>1. \A w \in Slots : slot'[w].state # "CLAIMED"
    BY <1>0, <1>2 DEF UInv, InStep
  <2> QED BY <1>0, <2>1, <1>7, StepType DEF InStep
<1>15. Phased'
  <2> SUFFICES ASSUME NEW w \in Slots, ~Ended(w)' PROVE ByPhase(w)'
    BY <1>0 DEF Phased
  <2>1. CASE w = s
    <3>1. r.phase \in {"COMMIT", "SUBMITTED"} => Committed(s)
      <4>1. r.phase \in {"COMMIT", "SUBMITTED"} => Was(s) \in {"COMMIT", "SUBMITTED"}
        BY InProgress DEF Stays, PhasesOf
      <4> QED BY <4>1, InProgress DEF ByPhase
    <3>2. Holds(r, q, k)
      BY <1>0 DEF Stays
    <3> QED BY <1>0, <2>1, <3>1, <3>2, <1>3, <1>8, <1>9 DEF ByPhase, Holds, HoldsHead
  <2>2. CASE w # s
    <3>1. ByPhase(w) /\ v'[w] = v[w] /\ Was(w)' = Was(w)
      BY <1>0, <2>2, <1>3, <1>6, <1>8 DEF UInv, Phased
    <3>2. v[w].slab # NoSlab => pool'.payload[v[w].slab] = pool.payload[v[w].slab]
      <4> SUFFICES ASSUME v[w].slab # NoSlab
                   PROVE  pool'.payload[v[w].slab] = pool.payload[v[w].slab]
        OBVIOUS
      <4>1. v[w].slab \in Slabs /\ v[w].slab \in pool.used
        BY <1>0, SlotType DEF UInv, Owned
      <4>2. v[w].slab # v[s].slab
        BY <1>0, <2>2 DEF UInv, Owned
      <4> QED BY <1>0, <4>1, <4>2 DEF Stays
    <3>3. sock'.rx = sock.rx
      BY <1>0 DEF Stays
    <3> QED BY <1>0, <3>1, <3>2, <3>3, <1>9 DEF ByPhase, HoldsHead
  <2> QED BY <1>0, <2>1, <2>2
<1>16. AtRest'
  <2> SUFFICES ASSUME NEW w \in Slots, Ended(w)'
               PROVE  /\ v'[w].slab = NoSlab /\ ~v'[w].active /\ ~v'[w].pin /\ v'[w].phase = "IO"
                      /\ w \notin pool'.waiting
    BY <1>0 DEF AtRest
  <2>1. w # s /\ Ended(w)
    BY <1>0, <1>5, <1>6
  <2> QED BY <1>0, <2>1, <1>3 DEF UInv, AtRest, Stays
<1>17. Owned'
  <2>1. r.slab # NoSlab => \A w \in Slots : w # s => v[w].slab # r.slab
    <3> SUFFICES ASSUME r.slab # NoSlab, NEW w \in Slots, w # s, v[w].slab = r.slab PROVE FALSE
      OBVIOUS
    <3>1. r.slab \in pool.used
      BY <1>0 DEF UInv, Owned
    <3>2. v[s].slab = v[w].slab
      BY <1>0, <3>1 DEF Stays
    <3> QED BY <1>0, <3>2 DEF UInv, Owned
  <2>2. \A x, w \in Slots : x # w /\ v'[x].slab = v'[w].slab => v'[x].slab = NoSlab
    BY <1>0, <2>1, <1>3 DEF UInv, Owned
  <2>3. \A b : b \in pool'.used <=> b # NoSlab /\ \E w \in Slots : v'[w].slab = b
    <3> TAKE b
    <3>1. b \in pool'.used <=> (b \in pool.used /\ b # v[s].slab) \/ (b = r.slab /\ b # NoSlab)
      BY <1>0 DEF Stays
    <3>2. b \in pool.used /\ b # v[s].slab <=> b # NoSlab /\ \E w \in Slots : w # s /\ v[w].slab = b
      <4>1. b \in pool.used <=> b # NoSlab /\ \E w \in Slots : v[w].slab = b
        BY <1>0 DEF UInv, Owned
      <4> QED BY <1>0, <4>1 DEF UInv, Owned
    <3> QED BY <1>0, <3>1, <3>2, <1>3
  <2>4. pool'.used = {v'[w].slab : w \in Slots} \ {NoSlab}
    BY <1>0, <2>3
  <2> QED BY <1>0, <2>2, <2>4 DEF Owned
<1>18. Operations'
  <2>1. \A w \in Slots : v[w].active => v[w].id # 0
    <3> SUFFICES ASSUME NEW w \in Slots, v[w].active PROVE v[w].id # 0
      OBVIOUS
    <3>1. slot[w].state # "FREE"
      BY <1>0 DEF UInv, AtRest, Ended
    <3>2. v[w].id \in 1 .. Len(ret)
      BY <1>0, <3>1 DEF UInv, Numbered
    <3> QED BY <1>0, <3>2
  <2>2. ASSUME NEW w \in Slots, v'[w].active
        PROVE  /\ v'[w].kind = "send" => sock'.tx.token = v'[w].id
               /\ v'[w].kind = "recv" => sock'.receive.token = v'[w].id
    <3>1. CASE w = s
      BY <1>0, <3>1, <1>3, <2>2 DEF Stays
    <3>2. CASE w # s
      <4>1. v[w].active /\ v'[w] = v[w]
        BY <1>0, <3>2, <1>3, <2>2
      <4> QED BY <1>0, <4>1, <2>1 DEF UInv, Operations, Stays
    <3> QED BY <1>0, <3>1, <3>2
  <2>3. \A w \in Slots : v[w].active => v'[w].active
    BY <1>0, <1>3 DEF Stays
  <2>4. sock'.tx.token # 0 =>
          \E w \in Slots : v'[w].active /\ v'[w].kind = "send" /\ v'[w].id = sock'.tx.token
    BY <1>0, <1>3, <2>3 DEF UInv, Operations, Stays
  <2>5. sock'.receive.token # 0 =>
          \E w \in Slots : v'[w].active /\ v'[w].kind = "recv" /\ v'[w].id = sock'.receive.token
    BY <1>0, <1>3, <2>3 DEF UInv, Operations, Stays
  <2> QED BY <1>0, <2>2, <2>4, <2>5 DEF Operations, Stays, RxOk
<1>19. Places'
  <2> SUFFICES ASSUME NEW a \in Actors PROVE Places!(a)'
    BY <1>0 DEF Places
  <2>0. sock'.rx = sock.rx
    BY <1>0 DEF Stays
  <2>1. CASE pc[a] = "idle"
    BY <1>0, <2>1 DEF UInv, Places
  <2>2. CASE pc[a] # "idle" /\ reg[a] = s
    <3>1. /\ pc[a] = "wait" => r.phase \in {"IO", "COPY"}
          /\ pc[a] \in {"terminal", "ack"} => r.phase \in {"COMMIT", "SUBMITTED"}
      <4>1. r.phase \in PhasesOf /\ (r.phase \in {"IO", "COPY"} <=> Was(s) \in {"IO", "COPY"})
        BY <1>0 DEF Stays, RequestRec
      <4> QED BY <4>1, <2>2, InProgress DEF PhasesOf
    <3> QED BY <1>0, <2>0, <2>2, <3>1, <1>2, <1>3, <1>5, <1>6, <1>8 DEF UInv, Places
  <2>3. CASE pc[a] # "idle" /\ reg[a] # s
    <3>1. reg[a] \in Slots
      BY <2>3, CallerAt
    <3> QED BY <1>0, <2>0, <2>3, <3>1, <1>2, <1>3, <1>6, <1>8 DEF UInv, Places
  <2> QED BY <1>0, <2>1, <2>2, <2>3
<1>20. Pinned'
  <2>1. \A a \in Actors : pc[a] = "pinned" => reg[a] \in Slots
    BY CallerAt
  <2>2. \A w \in Slots : v'[w].pin => v'[w].phase = "COPY"
    BY <1>0, <1>3 DEF UInv, Pinned, Stays
  <2> QED BY <1>0, <2>1, <2>2, <1>3 DEF UInv, Pinned
<1>21. Transmission'
  BY <1>0 DEF Transmission, Stays
<1>22. OnWire'
  <2>1. \A w \in Slots : slot'[w].state # "FREE" /\ v'[w].kind = "recv" => wire'[v'[w].id].sent = 0
    BY <1>0, <1>3, <1>10 DEF UInv, OnWire
  <2>2. \A w \in Slots : ~Ended(w)' /\ ~v'[w].active => wire'[v'[w].id].sent = 0
    <3>1. \A w \in Slots : v[w].active => v'[w].active
      BY <1>0, <1>3 DEF Stays
    <3> QED BY <1>0, <3>1, <1>3, <1>6 DEF UInv, OnWire
  <2>3. \A w \in Slots : slot'[w].state = "QUEUED" => wire'[v'[w].id].sent = 0
    BY <1>0, <1>3, <1>10 DEF UInv, OnWire
  <2>4. ASSUME NEW a \in Actors
        PROVE  /\ pc'[a] \in {"wait", "pinned"} => wire'[v'[reg'[a]].id].sent = 0
               /\ reg'[a] # 0 /\ slot'[reg'[a]].state = "COMPLETED" /\ v'[reg'[a]].kind = "send" =>
                     /\ slot'[reg'[a]].reply = "OK" => wire'[v'[reg'[a]].id].sent = 1
                     /\ slot'[reg'[a]].reply \in {"EINTR", "EAGAIN", "EFAULT"} =>
                           wire'[v'[reg'[a]].id].sent = 0 \/ wire'[v'[reg'[a]].id].down
    <3>1. CASE pc[a] = "idle"
      BY <1>0, <3>1 DEF UInv, Registered
    <3>2. CASE pc[a] # "idle"
      <4>1. reg[a] \in Slots /\ reg[a] # 0
        BY <3>2, CallerAt
      <4> QED BY <1>0, <3>2, <4>1, <1>2, <1>3 DEF UInv, OnWire
    <3> QED BY <1>0, <3>1, <3>2
  <2> QED BY <1>0, <2>1, <2>2, <2>3, <2>4 DEF UInv, OnWire
<1>23. Queue' /\ Arrived'
  BY <1>0 DEF UInv, Queue, Arrived, Stays
<1>24. Once'
  <2>1. ASSUME NEW d, NEW a \in Actors
        PROVE  (pc'[a] # "idle" /\ Completed(a)' /\ slot'[reg'[a]].reply = "OK" /\ buf'[a] = d)
                 <=> (pc[a] # "idle" /\ Completed(a) /\ slot[reg[a]].reply = "OK" /\ buf[a] = d)
    <3>1. CASE pc[a] = "idle"
      BY <1>0, <3>1
    <3>2. CASE pc[a] # "idle"
      <4>1. reg[a] \in Slots
        BY <3>2, CallerAt
      <4> QED BY <1>0, <4>1, <1>2, <1>5 DEF Completed
    <3> QED BY <1>0, <3>1, <3>2
  <2>2. \A d : HandedOver(d)' = HandedOver(d)
    BY <1>0, <2>1 DEF HandedOver
  <2>3. sock'.rx = sock.rx
    BY <1>0 DEF Stays
  <2> QED BY <1>0, <2>2, <2>3 DEF UInv, Once, Delivered
<1> QED BY <1>11, <1>12, <1>13, <1>14, <1>15, <1>16, <1>17, <1>18, <1>19, <1>20, <1>21, <1>22,
           <1>23, <1>24 DEF UInv

(* A step ends the request with reply and the socket k.  The commit of a   *)
(* receive consumes.                                                       *)
Answers(s, k, reply) ==
    /\ k \in SockRec /\ RxOk(k) /\ Unsettled(k, wire) /\ ~k.ip.done
    /\ k.tx.token = IF v[s].active /\ v[s].kind = "send" THEN 0 ELSE sock.tx.token
    /\ k.receive.token = IF v[s].active /\ v[s].kind = "recv" THEN 0 ELSE sock.receive.token
    /\ reply \in Statuses /\ reply # NoReply
    /\ IF v[s].kind = "recv" /\ Was(s) = "COMMIT"
       THEN k.rx = Tail(sock.rx) /\ reply = "OK"
       ELSE k.rx = sock.rx /\ (v[s].kind = "recv" => reply # "OK")
    /\ v[s].kind = "send" =>
          /\ reply = "OK" => wire[v[s].id].sent = 1
          /\ reply \in {"EINTR", "EAGAIN", "EFAULT"} =>
                wire[v[s].id].sent = 0 \/ wire[v[s].id].down
    /\ ~v[s].pin

\* It holds nothing any more, with the pool q.
Ends(s, q, k, reply) ==
    /\ q \in PoolRec /\ q.used = pool.used \ {v[s].slab} /\ q.payload = pool.payload
    /\ q.waiting = pool.waiting \ {s}
    /\ Answers(s, k, reply)

EndedRecord(s) == [v[s] EXCEPT !.active = FALSE, !.slab = NoSlab, !.phase = "IO"]

\* The queue after a step that ends a request.
LEMMA QueueLeft ==
    ASSUME UInv, NEW s \in Slots, turn.step.s = s, NEW q, NEW k, NEW reply, Ends(s, q, k, reply)
    PROVE  /\ k.rx \in Seq(Nat) /\ Len(k.rx) \in Nat /\ Len(k.rx) <= arrivals
           /\ k.rx = [i \in 1 .. Len(k.rx) |-> arrivals - Len(k.rx) + i]
           /\ IF v[s].kind = "recv" /\ Was(s) = "COMMIT"
              THEN sock.rx # <<>> /\ Len(k.rx) = Len(sock.rx) - 1
              ELSE k.rx = sock.rx
<1>1. sock.rx \in Seq(Nat) /\ Len(sock.rx) \in Nat /\ arrivals \in Nat /\ Len(sock.rx) <= arrivals
  BY DEF UInv, UType, SockRec, Queue
<1>2. CASE ~(v[s].kind = "recv" /\ Was(s) = "COMMIT")
  <2>1. k.rx = sock.rx
    BY <1>2 DEF Ends, Answers
  <2> QED BY <2>1, <1>1, <1>2 DEF UInv, Queue
<1>3. CASE v[s].kind = "recv" /\ Was(s) = "COMMIT"
  <2>1. sock.rx # <<>>
    BY <1>3, InProgress DEF ByPhase
  <2>2. PICK n \in Nat : n = Len(sock.rx)
    BY <1>1
  <2>3. n >= 1
    BY <2>1, <2>2, HeadArrived
  <2>4. PICK t : t = Tail(sock.rx)
    OBVIOUS
  <2>5. /\ t \in Seq(Nat) /\ Len(t) = n - 1
        /\ \A i \in 1 .. n - 1 : t[i] = sock.rx[i + 1]
    BY <2>1, <2>2, <2>4, <1>1
  <2>6. \A i \in 1 .. n : sock.rx[i] = arrivals - n + i
    BY <2>2 DEF UInv, Queue
  <2>7. \A i \in 1 .. n - 1 : i + 1 \in 1 .. n /\ arrivals - n + (i + 1) = arrivals - (n - 1) + i
    BY <2>3, <1>1
  <2>8. \A i \in 1 .. n - 1 : t[i] = arrivals - (n - 1) + i
    BY <2>5, <2>6, <2>7
  <2>9. PICK L \in Nat : L = n - 1
    BY <2>3
  <2>10. DOMAIN t = 1 .. L /\ Len(t) = L /\ \A i \in 1 .. L : t[i] = arrivals - L + i
    BY <2>5, <2>8, <2>9
  <2>11. t = [i \in 1 .. L |-> arrivals - L + i]
    <3>1. t = [i \in DOMAIN t |-> t[i]]
      BY <2>5
    <3> QED BY <2>10, <3>1
  <2>12. k.rx = t
    BY <2>4, <1>3 DEF Ends, Answers
  <2>13. k.rx = [i \in 1 .. Len(k.rx) |-> arrivals - Len(k.rx) + i]
    BY <2>10, <2>11, <2>12
  <2>14. k.rx \in Seq(Nat) /\ Len(k.rx) = n - 1
    BY <2>5, <2>12
  <2> QED BY <2>1, <2>2, <2>3, <2>13, <2>14, <1>1, <1>3
<1> QED BY <1>2, <1>3

LEMMA EndsKeeps ==
    ASSUME UInv, NEW s \in Slots, turn.step.s = s, NEW q, NEW k, NEW reply, Ends(s, q, k, reply),
           Leaves(s, EndedRecord(s), q, k, "COMPLETED", reply)
    PROVE  UInv'
<1> USE UdpAssumption
<1>0. /\ v' = [v EXCEPT ![s] = EndedRecord(s)] /\ pool' = q /\ sock' = k
      /\ pc' = pc /\ reg' = reg /\ buf' = buf /\ ret' = ret
      /\ wire' = wire /\ arrivals' = arrivals
      /\ turn' \in TurnRec /\ turn'.step = NoStep
  BY DEF Leaves
<1>1. slot \in [Slots -> SlotRec] /\ v \in [Slots -> RequestRec]
  BY DEF UInv, UType
<1>2. /\ slot' \in [Slots -> SlotRec] /\ slot'[s].state = "COMPLETED"
      /\ slot'[s].reply = reply /\ slot'[s].caller = slot[s].caller
      /\ \A w \in Slots : w # s => slot'[w] = slot[w]
  <2>1. reply \in Statuses
    BY DEF Ends, Answers
  <2> QED BY <2>1, SlotLeft
<1>3. PICK r : r = EndedRecord(s)
  OBVIOUS
<1>4. /\ r \in RequestRec /\ r.id = v[s].id /\ r.kind = v[s].kind /\ r.pin = v[s].pin
      /\ r.active = FALSE /\ r.slab = NoSlab /\ r.phase = "IO"
  <2>1. v[s] \in RequestRec /\ "IO" \in PhasesOf
    BY <1>1 DEF PhasesOf
  <2>2. r = [v[s] EXCEPT !.active = FALSE, !.slab = NoSlab, !.phase = "IO"]
    BY <1>3 DEF EndedRecord
  <2> QED BY ONLY <2>1, <2>2 DEF RequestRec
<1>5. /\ v' \in [Slots -> RequestRec] /\ v'[s] = r /\ \A w \in Slots : w # s => v'[w] = v[w]
  BY <1>0, <1>1, <1>3, <1>4
<1>6. \A w \in Slots : v'[w].id = v[w].id /\ v'[w].kind = v[w].kind /\ v'[w].pin = v[w].pin
  BY <1>4, <1>5
<1>7. slot[s].state = "CLAIMED" /\ ~Ended(s) /\ s # 0 /\ v[s].id # 0 /\ v[s].kind \in {"send", "recv"}
  BY InProgress
<1>8. Ended(s)' /\ \A w \in Slots : w # s => (Ended(w)' <=> Ended(w))
  BY <1>2 DEF Ended
<1>9. turn'.step.s = 0
  BY <1>0 DEF NoStep
<1>10. \A w \in Slots : w # s => Was(w)' = Was(w)
  BY <1>5, <1>9, StepType DEF Was
<1>11. \A w \in Slots : (slot'[w].state = "FREE" <=> slot[w].state = "FREE")
                        /\ (slot'[w].state = "QUEUED" <=> slot[w].state = "QUEUED")
                        /\ slot'[w].caller = slot[w].caller
  BY <1>2, <1>7
<1>12. \A a \in Actors : reg[a] # 0 => reg[a] \in Slots
  BY DEF UInv, UType
<1>13. ~v[s].pin /\ \A a \in Actors : reg[a] = s => pc[a] # "pinned"
  BY DEF Ends, Answers, UInv, Pinned
<1>14. ASSUME NEW w \in Slots, w # s, ~Ended(w), v[w].kind = "recv", Was(w) \in {"COPY", "COMMIT", "SUBMITTED"}
       PROVE  sock'.rx = sock.rx
  <2>1. v[w].active
    BY <1>14 DEF UInv, Phased, ByPhase
  <2>2. CASE v[s].kind = "recv" /\ Was(s) = "COMMIT"
    <3>1. v[s].active
      BY <2>2, InProgress DEF ByPhase
    <3> QED BY <2>1, <2>2, <3>1, <1>14, OneActive
  <2>3. CASE ~(v[s].kind = "recv" /\ Was(s) = "COMMIT")
    BY <2>3, <1>0 DEF Ends, Answers
  <2> QED BY <2>2, <2>3
<1>15. UType'
  BY <1>0, <1>2, <1>5 DEF UInv, UType, Ends, Answers
<1>16. Registered'
  BY <1>0, <1>11, <1>12 DEF UInv, Registered
<1>17. Numbered'
  <2>1. \A w \in Slots : slot'[w].state = "FREE" => slot'[w] = FreeSlot /\ v'[w] = NoRequest
    BY <1>2, <1>5 DEF UInv, Numbered
  <2> QED BY <2>1, <1>0, <1>6, <1>11, <1>12 DEF UInv, Numbered
<1>18. InStep'
  <2>1. \A w \in Slots : slot'[w].state # "CLAIMED"
    BY <1>2 DEF UInv, InStep
  <2> QED BY <2>1, <1>0, <1>9, StepType DEF InStep
<1>19. Phased'
  <2> SUFFICES ASSUME NEW w \in Slots, ~Ended(w)' PROVE ByPhase(w)'
    BY DEF Phased
  <2>1. w # s
    BY <1>8
  <2>2. /\ ByPhase(w) /\ ~Ended(w) /\ v'[w] = v[w] /\ Was(w)' = Was(w)
        /\ (Committed(w)' <=> Committed(w)) /\ pool'.payload = pool.payload
    BY <2>1, <1>0, <1>5, <1>8, <1>10 DEF UInv, Phased, Committed, Ends, Answers
  <2>3. v[w].kind = "recv" /\ Was(w) \in {"COPY", "COMMIT", "SUBMITTED"} => sock'.rx = sock.rx
    BY <2>1, <2>2, <1>14
  <2> QED BY <2>2, <2>3 DEF ByPhase, HoldsHead
<1>20. AtRest'
  <2> SUFFICES ASSUME NEW w \in Slots, Ended(w)'
               PROVE  /\ v'[w].slab = NoSlab /\ ~v'[w].active /\ ~v'[w].pin /\ v'[w].phase = "IO"
                      /\ w \notin pool'.waiting
    BY DEF AtRest
  <2>0. pool'.waiting = pool.waiting \ {s}
    BY <1>0 DEF Ends, Answers
  <2>1. CASE w = s
    BY <2>0, <2>1, <1>4, <1>5, <1>13
  <2>2. CASE w # s
    BY <2>0, <2>2, <1>5, <1>8 DEF UInv, AtRest
  <2> QED BY <2>1, <2>2
<1>21. Owned'
  <2>1. \A x, w \in Slots : x # w /\ v'[x].slab = v'[w].slab => v'[x].slab = NoSlab
    BY <1>4, <1>5 DEF UInv, Owned
  <2>2. \A b : b \in pool'.used <=> b # NoSlab /\ \E w \in Slots : v'[w].slab = b
    <3> TAKE b
    <3>1. b \in pool'.used <=> b \in pool.used /\ b # v[s].slab
      BY <1>0 DEF Ends, Answers
    <3>2. b \in pool.used /\ b # v[s].slab <=> b # NoSlab /\ \E w \in Slots : w # s /\ v[w].slab = b
      <4>1. b \in pool.used <=> b # NoSlab /\ \E w \in Slots : v[w].slab = b
        BY DEF UInv, Owned
      <4> QED BY <4>1 DEF UInv, Owned
    <3> QED BY <3>1, <3>2, <1>4, <1>5
  <2>3. pool'.used = {v'[w].slab : w \in Slots} \ {NoSlab}
    BY <2>2
  <2> QED BY <2>1, <2>3 DEF Owned
<1>22. Operations'
  <2>1. ASSUME NEW w \in Slots, v'[w].active
        PROVE  /\ v'[w].kind = "send" => sock'.tx.token = v'[w].id
               /\ v'[w].kind = "recv" => sock'.receive.token = v'[w].id
    <3>1. w # s /\ v'[w] = v[w] /\ v[w].active
      BY <2>1, <1>4, <1>5
    <3>2. ~(v[s].active /\ v[s].kind = v[w].kind)
      BY <3>1, OneActive
    <3> QED BY <3>1, <3>2, <1>0 DEF UInv, Operations, Ends, Answers
  <2>2. sock'.tx.token # 0 =>
          \E w \in Slots : v'[w].active /\ v'[w].kind = "send" /\ v'[w].id = sock'.tx.token
    <3> SUFFICES ASSUME sock'.tx.token # 0
                 PROVE  \E w \in Slots : v'[w].active /\ v'[w].kind = "send" /\ v'[w].id = sock'.tx.token
      OBVIOUS
    <3>1. sock'.tx.token = sock.tx.token /\ ~(v[s].active /\ v[s].kind = "send")
      BY <1>0 DEF Ends, Answers
    <3>2. PICK w \in Slots : v[w].active /\ v[w].kind = "send" /\ v[w].id = sock.tx.token
      BY <3>1 DEF UInv, Operations
    <3>3. w # s
      BY <3>1, <3>2
    <3> QED BY <3>1, <3>2, <3>3, <1>5
  <2>3. sock'.receive.token # 0 =>
          \E w \in Slots : v'[w].active /\ v'[w].kind = "recv" /\ v'[w].id = sock'.receive.token
    <3> SUFFICES ASSUME sock'.receive.token # 0
                 PROVE  \E w \in Slots : v'[w].active /\ v'[w].kind = "recv" /\ v'[w].id = sock'.receive.token
      OBVIOUS
    <3>1. sock'.receive.token = sock.receive.token /\ ~(v[s].active /\ v[s].kind = "recv")
      BY <1>0 DEF Ends, Answers
    <3>2. PICK w \in Slots : v[w].active /\ v[w].kind = "recv" /\ v[w].id = sock.receive.token
      BY <3>1 DEF UInv, Operations
    <3>3. w # s
      BY <3>1, <3>2
    <3> QED BY <3>1, <3>2, <3>3, <1>5
  <2> QED BY <2>1, <2>2, <2>3, <1>0 DEF Operations, Ends, Answers, RxOk
<1>23. ASSUME NEW a \in Actors, reg[a] = s
       PROVE  \/ /\ pc[a] = "wait" /\ reply # "OK" /\ Was(s) # "COMMIT"
              \/ /\ pc[a] \in {"terminal", "ack"}
                 /\ v[s].kind = "send" => buf[a] = 0
                 /\ v[s].kind = "recv" => Was(s) = "COMMIT" /\ reply = "OK" /\ buf[a] # 0
                                          /\ buf[a] = Head(sock.rx)
  <2>1. pc[a] \in {"wait", "terminal", "ack"}
    BY <1>13, <1>23, InProgress
  <2>2. CASE pc[a] = "wait"
    <3>1. Was(s) \in {"IO", "COPY"}
      BY <2>2, <1>23, InProgress
    <3>2. v[s].kind = "send" => reply # "OK"
      <4>1. wire[v[s].id].sent = 0
        BY <2>2, <1>23 DEF UInv, OnWire
      <4> QED BY <4>1 DEF Ends, Answers
    <3>3. v[s].kind = "recv" => reply # "OK"
      BY <3>1 DEF Ends, Answers
    <3> QED BY <2>2, <3>1, <3>2, <3>3, <1>7
  <2>3. CASE pc[a] \in {"terminal", "ack"}
    <3>1. Was(s) \in {"COMMIT", "SUBMITTED"}
      BY <2>3, <1>23, InProgress
    <3>2. v[s].kind = "recv" => Was(s) = "COMMIT"
      BY <3>1, InProgress DEF ByPhase
    <3>3. v[s].kind = "recv" => reply = "OK"
      BY <3>2 DEF Ends, Answers
    <3> QED BY <2>3, <3>2, <3>3, <1>7, <1>23 DEF UInv, Places
  <2> QED BY <2>1, <2>2, <2>3
<1>24. Places'
  <2> SUFFICES ASSUME NEW a \in Actors PROVE Places!(a)'
    BY DEF Places
  <2>1. CASE pc[a] = "idle"
    BY <2>1, <1>0 DEF UInv, Places
  <2>2. CASE pc[a] # "idle" /\ reg[a] = s
    <3>1. CASE pc[a] = "wait"
      <4>1. reply # "OK" /\ buf[a] = 0
        BY <2>2, <3>1, <1>23 DEF UInv, Places
      <4> QED BY <2>2, <3>1, <4>1, <1>0, <1>2, <1>8
    <3>2. CASE pc[a] \in {"terminal", "ack"}
      BY <2>2, <3>2, <1>0, <1>2, <1>4, <1>5, <1>8, <1>23
    <3> QED BY <2>2, <3>1, <3>2, <1>23
  <2>3. CASE pc[a] # "idle" /\ reg[a] # s
    <3>1. reg[a] \in Slots
      BY <2>3, CallerAt
    <3>2. pc[a] \in {"terminal", "ack"} /\ v[reg[a]].kind = "recv" /\ ~Ended(reg[a]) => sock'.rx = sock.rx
      BY <2>3, <3>1, <1>14 DEF UInv, Places
    <3> QED BY <2>3, <3>1, <3>2, <1>0, <1>2, <1>5, <1>8, <1>10 DEF UInv, Places
  <2> QED BY <2>1, <2>2, <2>3
<1>25. Pinned'
  <2>1. \A a \in Actors : pc[a] = "pinned" => reg[a] \in Slots
    BY CallerAt
  <2>2. \A w \in Slots : v'[w].pin => v'[w].phase = "COPY"
    BY <1>4, <1>5, <1>13 DEF UInv, Pinned
  <2> QED BY <2>1, <2>2, <1>0, <1>6 DEF UInv, Pinned
<1>26. Transmission'
  BY <1>0 DEF Transmission, Ends, Answers
<1>27. OnWire'
  <2>1. \A w \in Slots : slot'[w].state # "FREE" /\ v'[w].kind = "recv" => wire'[v'[w].id].sent = 0
    BY <1>0, <1>6, <1>11 DEF UInv, OnWire
  <2>2. \A w \in Slots : ~Ended(w)' /\ ~v'[w].active => wire'[v'[w].id].sent = 0
    BY <1>0, <1>5, <1>8 DEF UInv, OnWire
  <2>3. \A w \in Slots : slot'[w].state = "QUEUED" => wire'[v'[w].id].sent = 0
    BY <1>0, <1>6, <1>11 DEF UInv, OnWire
  <2>4. ASSUME NEW a \in Actors
        PROVE  /\ pc'[a] \in {"wait", "pinned"} => wire'[v'[reg'[a]].id].sent = 0
               /\ reg'[a] # 0 /\ slot'[reg'[a]].state = "COMPLETED" /\ v'[reg'[a]].kind = "send" =>
                     /\ slot'[reg'[a]].reply = "OK" => wire'[v'[reg'[a]].id].sent = 1
                     /\ slot'[reg'[a]].reply \in {"EINTR", "EAGAIN", "EFAULT"} =>
                           wire'[v'[reg'[a]].id].sent = 0 \/ wire'[v'[reg'[a]].id].down
    <3>1. CASE pc[a] = "idle"
      BY <3>1, <1>0 DEF UInv, Registered
    <3>2. CASE pc[a] # "idle" /\ reg[a] = s
      BY <3>2, <1>0, <1>2, <1>6 DEF UInv, OnWire, Ends, Answers
    <3>3. CASE pc[a] # "idle" /\ reg[a] # s
      <4>1. reg[a] \in Slots /\ reg[a] # 0
        BY <3>3, CallerAt
      <4> QED BY <3>3, <4>1, <1>0, <1>2, <1>5 DEF UInv, OnWire
    <3> QED BY <3>1, <3>2, <3>3
  <2> QED BY <2>1, <2>2, <2>3, <2>4, <1>0 DEF UInv, OnWire
<1>28. Queue'
  BY <1>0, QueueLeft DEF Queue
<1>29. Arrived'
  BY <1>0 DEF UInv, Arrived
<1>30. ASSUME NEW d \in 1 .. arrivals, NEW a \in Actors
       PROVE  (a \in HandedOver(d)') <=> a \in HandedOver(d) \/ (reg[a] = s /\ v[s].kind = "recv"
                                           /\ Was(s) = "COMMIT" /\ d = Head(sock.rx))
  <2>1. a \in HandedOver(d)' <=> pc[a] # "idle" /\ slot'[reg[a]].state = "COMPLETED"
                                 /\ slot'[reg[a]].reply = "OK" /\ buf[a] = d
    BY <1>0 DEF HandedOver, Completed
  <2>2. a \in HandedOver(d) <=> pc[a] # "idle" /\ slot[reg[a]].state = "COMPLETED"
                                 /\ slot[reg[a]].reply = "OK" /\ buf[a] = d
    BY DEF HandedOver, Completed
  <2>3. d # 0
    BY <1>30 DEF UInv, UType
  <2>4. CASE pc[a] = "idle"
    BY <2>1, <2>2, <2>4, <1>7, <1>23
  <2>5. CASE pc[a] # "idle" /\ reg[a] # s
    <3>1. reg[a] \in Slots
      BY <2>5, CallerAt
    <3> QED BY <2>1, <2>2, <2>5, <3>1, <1>2
  <2>6. CASE pc[a] # "idle" /\ reg[a] = s
    BY <2>1, <2>2, <2>3, <2>6, <1>2, <1>7, <1>23 DEF UInv, Places
  <2> QED BY <2>4, <2>5, <2>6
<1>31. Once'
  <2> SUFFICES ASSUME NEW d \in 1 .. arrivals PROVE Once!(d)'
    BY <1>0 DEF Once
  <2>0. Once!(d) /\ Delivered(d)' = Delivered(d)
    BY <1>0 DEF UInv, Once, Delivered
  <2>1. CASE ~(v[s].kind = "recv" /\ Was(s) = "COMMIT" /\ d = Head(sock.rx))
    <3>1. HandedOver(d)' = HandedOver(d)
      <4>1. \A a \in Actors : a \in HandedOver(d)' <=> a \in HandedOver(d)
        BY <2>1, <1>30
      <4> QED BY <4>1 DEF HandedOver
    <3>2. (d <= arrivals' - Len(sock'.rx)) <=> (d <= arrivals - Len(sock.rx))
      <4>1. CASE v[s].kind = "recv" /\ Was(s) = "COMMIT"
        <5>1. PICK L : L = Len(sock.rx)
          OBVIOUS
        <5>2. sock.rx # <<>> /\ Len(k.rx) = L - 1
          BY <4>1, <5>1, QueueLeft
        <5>3. L \in Nat /\ L >= 1 /\ arrivals \in Nat /\ Head(sock.rx) = arrivals - L + 1
          BY <5>1, <5>2, HeadArrived
        <5>4. d # arrivals - L + 1
          BY <2>1, <4>1, <5>3
        <5>5. (d <= arrivals - (L - 1)) <=> (d <= arrivals - L)
          BY <5>3, <5>4
        <5> QED BY <5>1, <5>2, <5>5, <1>0
      <4>2. CASE ~(v[s].kind = "recv" /\ Was(s) = "COMMIT")
        BY <4>2, <1>0, QueueLeft
      <4> QED BY <4>1, <4>2
    <3> QED BY <2>0, <3>1, <3>2, <1>0
  <2>2. CASE v[s].kind = "recv" /\ Was(s) = "COMMIT" /\ d = Head(sock.rx)
    <3>1. PICK L : L = Len(sock.rx)
      OBVIOUS
    <3>2. sock.rx # <<>> /\ Len(k.rx) = L - 1
      BY <2>2, <3>1, QueueLeft
    <3>3. L \in Nat /\ L >= 1 /\ arrivals \in Nat /\ d = arrivals - L + 1
      BY <2>2, <3>1, <3>2, HeadArrived
    <3>4. ~(d <= arrivals - L) /\ d <= arrivals - (L - 1)
      BY <3>3
    <3>5. Delivered(d) = {} /\ HandedOver(d) = {}
      BY <2>0, <3>1, <3>4
    <3>6. PICK a \in Actors : reg[a] = s
      BY <2>2, InProgress DEF ByPhase, Committed
    <3>7. \A b \in Actors : reg[b] = s => b = a
      BY <3>6, <1>7 DEF UInv, Registered
    <3>8. \A b \in Actors : b \in HandedOver(d)' <=> b = a
      BY <2>2, <3>5, <3>6, <3>7, <1>30
    <3>9. HandedOver(d)' = {a}
      BY <3>6, <3>8 DEF HandedOver
    <3>10. d <= arrivals' - Len(sock'.rx)
      BY <3>2, <3>4, <1>0
    <3> QED BY <2>0, <3>5, <3>6, <3>9, <3>10
  <2> QED BY <2>1, <2>2
<1> QED BY <1>15, <1>16, <1>17, <1>18, <1>19, <1>20, <1>21, <1>22, <1>24, <1>25, <1>26, <1>27,
           <1>28, <1>29, <1>31 DEF UInv

--------------------------------------------------------------------------
(* The work of a step *)

WorkRec == [r : RequestRec, q : PoolRec, k : SockRec, reply : Statuses]

LEMMA WorkFields ==
    ASSUME NEW w \in WorkRec
    PROVE  /\ w.r \in RequestRec /\ w.q \in PoolRec /\ w.k \in SockRec /\ w.reply \in Statuses
           /\ w.r.id \in Nat /\ w.r.kind \in {"none", "send", "recv"} /\ w.r.nonblocking \in BOOLEAN
           /\ w.r.phase \in PhasesOf /\ w.r.pin \in BOOLEAN /\ w.r.slab \in Slabs \cup {NoSlab}
           /\ w.r.active \in BOOLEAN
           /\ w.q.used \subseteq Slabs /\ w.q.payload \in [Slabs -> Nat] /\ w.q.waiting \subseteq Slots
           /\ w.q.older \in SUBSET (Slots \X Slots)
<1>1. w.r \in RequestRec /\ w.q \in PoolRec /\ w.k \in SockRec /\ w.reply \in Statuses
  BY DEF WorkRec
<1> QED BY <1>1 DEF RequestRec, PoolRec

LEMMA WorkBegun ==
    ASSUME UInv, NEW s \in Slots
    PROVE  /\ Work(s) \in WorkRec /\ Work(s).r = v[s] /\ Work(s).q = pool /\ Work(s).k = sock
           /\ Work(s).reply = NoReply
<1>1. v[s] \in RequestRec /\ pool \in PoolRec /\ sock \in SockRec
  BY DEF UInv, UType
<1> QED BY <1>1 DEF Work, WorkRec, Statuses

LEMMA Replied ==
    ASSUME NEW w \in WorkRec, NEW what \in Statuses
    PROVE  /\ Reply(w, what) \in WorkRec /\ Reply(w, what).r = w.r /\ Reply(w, what).q = w.q
           /\ Reply(w, what).k = w.k /\ Reply(w, what).reply = what
BY WorkFields DEF Reply, WorkRec

\* A record with other fields, as the steps change them.
LEMMA RecordSet ==
    ASSUME NEW r \in RequestRec
    PROVE  /\ \A b \in BOOLEAN :
                 LET n == [r EXCEPT !.active = b]
                 IN  /\ n \in RequestRec /\ n.active = b /\ n.id = r.id /\ n.kind = r.kind
                     /\ n.nonblocking = r.nonblocking /\ n.phase = r.phase /\ n.pin = r.pin
                     /\ n.slab = r.slab
           /\ \A b \in Slabs \cup {NoSlab} :
                 LET n == [r EXCEPT !.slab = b]
                 IN  /\ n \in RequestRec /\ n.active = r.active /\ n.id = r.id /\ n.kind = r.kind
                     /\ n.nonblocking = r.nonblocking /\ n.phase = r.phase /\ n.pin = r.pin
                     /\ n.slab = b
           /\ \A p \in PhasesOf :
                 LET n == [r EXCEPT !.phase = p]
                 IN  /\ n \in RequestRec /\ n.active = r.active /\ n.id = r.id /\ n.kind = r.kind
                     /\ n.nonblocking = r.nonblocking /\ n.phase = p /\ n.pin = r.pin
                     /\ n.slab = r.slab
BY DEF RequestRec

LEMMA OpsOfOne ==
    ASSUME NEW r, NEW kind
    PROVE  Ops({r}, kind) = IF r.active /\ r.kind = kind THEN {r.id} ELSE {}
BY DEF Ops

LEMMA CleanupSend ==
    ASSUME NEW k \in SockRec, NEW r, r.kind = "send", NEW n, NEW c, n = cleanup(k, {r}, c)
    PROVE  /\ n \in SockRec /\ n.rx = k.rx /\ n.receive = k.receive /\ n.online = k.online
           /\ n.tx = IF r.active /\ k.tx.token = r.id THEN NoOp ELSE k.tx
           /\ n.ip = IF r.active /\ k.ip.token # 0 THEN NoEntry ELSE k.ip
<1>1. Ops({r}, "recv") = {} /\ Ops({r}, "send") = IF r.active THEN {r.id} ELSE {}
  BY OpsOfOne
<1>2. PICK t \in OpRec : t = IF r.active /\ k.tx.token = r.id THEN NoOp ELSE k.tx
  BY NoneType, SockFields
<1>3. PICK i \in EntryRec : i = IF r.active /\ k.ip.token # 0 THEN NoEntry ELSE k.ip
  BY NoneType, SockFields
<1>4. n = [k EXCEPT !.receive = k.receive, !.rx = k.rx, !.tx = t, !.ip = i]
  <2>1. k.receive.token \notin Ops({r}, "recv")
    BY <1>1
  <2>2. t = IF k.tx.token \in Ops({r}, "send") THEN NoOp ELSE k.tx
    BY <1>1, <1>2
  <2>3. i = IF Ops({r}, "send") # {} /\ k.ip.token # 0 THEN NoEntry ELSE k.ip
    BY <1>1, <1>3
  <2> QED BY <2>1, <2>2, <2>3 DEF cleanup
<1> QED BY <1>2, <1>3, <1>4, SockFields DEF SockRec

LEMMA CleanupRecv ==
    ASSUME NEW k \in SockRec, NEW r, r.kind = "recv", NEW n, NEW c, n = cleanup(k, {r}, c)
    PROVE  /\ n \in SockRec /\ n.tx = k.tx /\ n.ip = k.ip /\ n.online = k.online
           /\ n.receive = IF r.active /\ k.receive.token = r.id THEN NoOp ELSE k.receive
           /\ n.rx = IF r.active /\ k.receive.token = r.id /\ c /\ k.rx # <<>>
                     THEN Tail(k.rx) ELSE k.rx
<1>1. Ops({r}, "send") = {} /\ Ops({r}, "recv") = IF r.active THEN {r.id} ELSE {}
  BY OpsOfOne
<1>2. PICK t \in OpRec : t = IF r.active /\ k.receive.token = r.id THEN NoOp ELSE k.receive
  BY NoneType, SockFields
<1>3. PICK x \in Seq(Nat) : x = IF r.active /\ k.receive.token = r.id /\ c /\ k.rx # <<>>
                                THEN Tail(k.rx) ELSE k.rx
  <2>1. PICK y \in Seq(Nat) : y = k.rx
    BY SockFields
  <2>2. y # <<>> => Tail(y) \in Seq(Nat)
    OBVIOUS
  <2> QED BY <2>1, <2>2
<1>4. n = [k EXCEPT !.receive = t, !.rx = x, !.tx = k.tx, !.ip = k.ip]
  <2>1. t = IF k.receive.token \in Ops({r}, "recv") THEN NoOp ELSE k.receive
    BY <1>1, <1>2
  <2>2. x = IF k.receive.token \in Ops({r}, "recv") /\ c /\ k.rx # <<>> THEN Tail(k.rx) ELSE k.rx
    BY <1>1, <1>3
  <2>3. k.tx.token \notin Ops({r}, "send") /\ Ops({r}, "send") = {}
    BY <1>1
  <2> QED BY <2>1, <2>2, <2>3 DEF cleanup
<1> QED BY <1>2, <1>3, <1>4, SockFields DEF SockRec

\* A set of tickets without those of S.
LEMMA PutPool ==
    ASSUME NEW q \in PoolRec, NEW S, NEW slabs
    PROVE  LET n == slab_put(q, S, slabs)
           IN  /\ n \in PoolRec /\ n.used = q.used \ slabs /\ n.waiting = q.waiting \ S
               /\ n.payload = q.payload
<1>1. PICK o : o = {p \in q.older : p[1] \notin S /\ p[2] \notin S}
  OBVIOUS
<1>2. o \in SUBSET (Slots \X Slots)
  BY <1>1 DEF PoolRec
<1>3. slab_put(q, S, slabs) = [q EXCEPT !.used = @ \ slabs, !.waiting = @ \ S, !.older = o]
  BY <1>1 DEF slab_put
<1> QED BY <1>2, <1>3 DEF PoolRec

LEMMA PutBack ==
    ASSUME NEW w \in WorkRec, NEW s, NEW n, n = Put(w, s)
    PROVE  /\ n \in WorkRec /\ n.k = w.k /\ n.reply = w.reply
           /\ n.q.used = w.q.used \ {w.r.slab} /\ n.q.payload = w.q.payload
           /\ n.q.waiting = w.q.waiting \ {s}
           /\ n.r = [w.r EXCEPT !.slab = NoSlab]
<1>1. PICK q : q = slab_put(w.q, {s}, {w.r.slab})
  OBVIOUS
<1>2. /\ q \in PoolRec /\ q.used = w.q.used \ {w.r.slab} /\ q.waiting = w.q.waiting \ {s}
      /\ q.payload = w.q.payload
  BY <1>1, PutPool, WorkFields
<1>3. PICK r : r = [w.r EXCEPT !.slab = NoSlab]
  OBVIOUS
<1>4. r \in RequestRec
  BY <1>3, RecordSet, WorkFields
<1>5. n = [w EXCEPT !.q = q, !.r = r]
  BY <1>1, <1>3, WorkFields DEF Put, WorkRec
<1> QED BY <1>2, <1>3, <1>4, <1>5, WorkFields DEF WorkRec

LEMMA CleanedUp ==
    ASSUME NEW w \in WorkRec, w.r.kind \in {"send", "recv"}, NEW c, NEW n,
           n = Cleanup(w, c)
    PROVE  /\ n \in WorkRec /\ n.q = w.q /\ n.reply = w.reply /\ n.k = cleanup(w.k, {w.r}, c)
           /\ n.r = [w.r EXCEPT !.active = FALSE]
<1>1. PICK k : k = cleanup(w.k, {w.r}, c)
  OBVIOUS
<1>2. k \in SockRec
  BY <1>1, CleanupSend, CleanupRecv, WorkFields
<1>3. PICK r : r = [w.r EXCEPT !.active = FALSE]
  OBVIOUS
<1>4. r \in RequestRec
  BY <1>3, RecordSet, WorkFields
<1>5. n = [w EXCEPT !.k = k, !.r = r]
  BY <1>1, <1>3, WorkFields DEF Cleanup, WorkRec
<1> QED BY <1>1, <1>2, <1>3, <1>4, <1>5, WorkFields DEF WorkRec

\* slab_get: a free slab, or only the ticket.
LEMMA Got ==
    ASSUME NEW w \in WorkRec, NEW s \in Slots, NEW n, n = slab_get(w, s)
    PROVE  /\ n \in WorkRec /\ n.k = w.k /\ n.reply = w.reply /\ n.q.payload = w.q.payload
           /\ n.q.waiting \subseteq w.q.waiting \cup {s}
           /\ w.q.waiting \subseteq n.q.waiting \cup {s}
           /\ \/ n.r = w.r /\ n.q.used = w.q.used
              \/ \E b \in Slabs \ w.q.used :
                    n.r = [w.r EXCEPT !.slab = b] /\ n.q.used = w.q.used \cup {b}
<1>1. PICK q : q = IF s \in w.q.waiting THEN w.q
                   ELSE [w.q EXCEPT !.waiting = @ \cup {s}, !.older = @ \cup (w.q.waiting \X {s})]
  OBVIOUS
<1>2. /\ q \in PoolRec /\ q.used = w.q.used /\ q.payload = w.q.payload
      /\ q.waiting = w.q.waiting \cup {s}
  <2>1. CASE s \in w.q.waiting
    BY <2>1, <1>1, WorkFields
  <2>2. CASE s \notin w.q.waiting
    <3>1. PICK o : o = w.q.older \cup (w.q.waiting \X {s})
      OBVIOUS
    <3>2. o \in SUBSET (Slots \X Slots)
      BY <3>1, WorkFields
    <3>3. q = [w.q EXCEPT !.waiting = @ \cup {s}, !.older = o]
      BY <2>2, <3>1, <1>1
    <3>4. w.q \in PoolRec
      BY WorkFields
    <3> QED BY <3>2, <3>3, <3>4 DEF PoolRec
  <2> QED BY <2>1, <2>2
<1>3. PICK free : free = Slabs \ q.used
  OBVIOUS
<1>4. PICK b : b = CHOOSE x \in free : TRUE
  OBVIOUS
<1>5. n = IF (\A i \in q.waiting : <<i, s>> \notin q.older) /\ free # {}
          THEN [w EXCEPT !.r.slab = b, !.q = [slab_put(q, {s}, {}) EXCEPT !.used = @ \cup {b}]]
          ELSE [w EXCEPT !.q = q]
  BY <1>1, <1>3, <1>4 DEF slab_get
<1>6. CASE (\A i \in q.waiting : <<i, s>> \notin q.older) /\ free # {}
  <2>1. b \in Slabs \ w.q.used
    BY <1>2, <1>3, <1>4, <1>6
  <2>2. PICK p : p = slab_put(q, {s}, {})
    OBVIOUS
  <2>3. p \in PoolRec /\ p.used = q.used /\ p.waiting = q.waiting \ {s} /\ p.payload = q.payload
    <3>1. PICK none : none = {}
      OBVIOUS
    <3>2. p = slab_put(q, {s}, none)
      BY <2>2, <3>1
    <3>3. /\ p \in PoolRec /\ p.used = q.used \ none /\ p.waiting = q.waiting \ {s}
          /\ p.payload = q.payload
      BY <1>2, <3>2, PutPool
    <3> QED BY <3>1, <3>3
  <2>4. PICK x : x = [p EXCEPT !.used = @ \cup {b}]
    OBVIOUS
  <2>5. /\ x \in PoolRec /\ x.used = q.used \cup {b} /\ x.waiting = q.waiting \ {s}
        /\ x.payload = q.payload
    BY <2>1, <2>3, <2>4 DEF PoolRec
  <2>6. PICK r : r = [w.r EXCEPT !.slab = b]
    OBVIOUS
  <2>7. r \in RequestRec
    BY <2>1, <2>6, RecordSet, WorkFields
  <2>8. n = [w EXCEPT !.r = r, !.q = x]
    BY <1>5, <1>6, <2>2, <2>4, <2>6, WorkFields DEF WorkRec
  <2>9. n \in WorkRec /\ n.r = r /\ n.q = x /\ n.k = w.k /\ n.reply = w.reply
    BY <2>5, <2>7, <2>8, WorkFields DEF WorkRec
  <2> QED BY <2>1, <2>5, <2>6, <2>9, <1>2
<1>7. CASE ~((\A i \in q.waiting : <<i, s>> \notin q.older) /\ free # {})
  <2>1. n = [w EXCEPT !.q = q]
    BY <1>5, <1>7
  <2>2. n \in WorkRec /\ n.r = w.r /\ n.q = q /\ n.k = w.k /\ n.reply = w.reply
    BY <1>2, <2>1, WorkFields DEF WorkRec
  <2> QED BY <2>2, <1>2
<1> QED BY <1>6, <1>7

(* What a step has done so far with the slab of its request, and that it   *)
(* is still the request.                                                   *)
Slabbed(s, w) ==
    /\ w \in WorkRec /\ w.r.id = v[s].id /\ w.r.kind = v[s].kind
    /\ w.r.nonblocking = v[s].nonblocking /\ w.r.pin = v[s].pin
    /\ w.q.used = (pool.used \ {v[s].slab}) \cup ({w.r.slab} \ {NoSlab})
    /\ w.r.slab \in pool.used => w.r.slab = v[s].slab
    /\ w.q.payload = pool.payload
    /\ w.q.waiting \subseteq pool.waiting \cup {s} /\ pool.waiting \subseteq w.q.waiting \cup {s}

LEMMA SlabbedWork == ASSUME UInv, NEW s \in Slots PROVE Slabbed(s, Work(s))
<1>1. v[s].slab = NoSlab \/ v[s].slab \in pool.used
  BY DEF UInv, Owned
<1>2. NoSlab \notin pool.used
  BY DEF UInv, Owned
<1>3. pool.used = (pool.used \ {v[s].slab}) \cup ({v[s].slab} \ {NoSlab})
  BY <1>1, <1>2
<1> QED BY <1>3, WorkBegun DEF Slabbed

LEMMA SlabbedPut ==
    ASSUME UInv, NEW s \in Slots, NEW w, Slabbed(s, w), NEW n, n = Put(w, s)
    PROVE  /\ Slabbed(s, n) /\ n.r.slab = NoSlab /\ n.r.active = w.r.active /\ n.r.phase = w.r.phase
           /\ n.k = w.k /\ n.reply = w.reply
           /\ n.q \in PoolRec /\ n.q.used = pool.used \ {v[s].slab} /\ n.q.payload = pool.payload
           /\ n.q.waiting = pool.waiting \ {s}
<1>1. w \in WorkRec
  BY DEF Slabbed
<1>2. /\ n \in WorkRec /\ n.k = w.k /\ n.reply = w.reply
      /\ n.q.used = w.q.used \ {w.r.slab} /\ n.q.payload = w.q.payload
      /\ n.q.waiting = w.q.waiting \ {s}
      /\ n.r = [w.r EXCEPT !.slab = NoSlab]
  BY <1>1, PutBack
<1>3. /\ n.r.id = w.r.id /\ n.r.kind = w.r.kind /\ n.r.nonblocking = w.r.nonblocking
      /\ n.r.pin = w.r.pin /\ n.r.phase = w.r.phase /\ n.r.slab = NoSlab /\ n.r.active = w.r.active
  <2>1. w.r \in RequestRec
    BY <1>1, WorkFields
  <2> QED BY <2>1, <1>2 DEF RequestRec
<1>4. NoSlab \notin pool.used
  BY DEF UInv, Owned
<1>5. n.q.used = pool.used \ {v[s].slab}
  BY <1>2, <1>4 DEF Slabbed
<1>6. n.q.waiting = pool.waiting \ {s}
  BY <1>2 DEF Slabbed
<1>7. Slabbed(s, n)
  BY <1>2, <1>3, <1>4, <1>5, <1>6 DEF Slabbed
<1> QED BY <1>2, <1>3, <1>5, <1>6, <1>7, WorkFields DEF Slabbed

LEMMA SlabbedGet ==
    ASSUME UInv, NEW s \in Slots, NEW w, Slabbed(s, w), w.r.slab = NoSlab,
           NEW n, n = slab_get(w, s)
    PROVE  /\ Slabbed(s, n) /\ n.r.active = w.r.active /\ n.r.phase = w.r.phase
           /\ n.k = w.k /\ n.reply = w.reply
<1>1. w \in WorkRec /\ w.r \in RequestRec
  BY WorkFields DEF Slabbed
<1>2. /\ n \in WorkRec /\ n.k = w.k /\ n.reply = w.reply /\ n.q.payload = w.q.payload
      /\ n.q.waiting \subseteq w.q.waiting \cup {s}
      /\ w.q.waiting \subseteq n.q.waiting \cup {s}
      /\ \/ n.r = w.r /\ n.q.used = w.q.used
         \/ \E b \in Slabs \ w.q.used :
               n.r = [w.r EXCEPT !.slab = b] /\ n.q.used = w.q.used \cup {b}
  BY <1>1, Got
<1>3. CASE n.r = w.r /\ n.q.used = w.q.used
  BY <1>2, <1>3 DEF Slabbed
<1>4. CASE \E b \in Slabs \ w.q.used :
              n.r = [w.r EXCEPT !.slab = b] /\ n.q.used = w.q.used \cup {b}
  <2>1. PICK b \in Slabs \ w.q.used : n.r = [w.r EXCEPT !.slab = b] /\ n.q.used = w.q.used \cup {b}
    BY <1>4
  <2>2. /\ n.r.id = w.r.id /\ n.r.kind = w.r.kind /\ n.r.nonblocking = w.r.nonblocking
        /\ n.r.pin = w.r.pin /\ n.r.phase = w.r.phase /\ n.r.slab = b /\ n.r.active = w.r.active
    BY <2>1, <1>1 DEF RequestRec
  <2>3. w.q.used = pool.used \ {v[s].slab} /\ b # NoSlab
    BY UdpAssumption DEF Slabbed
  <2>4. n.q.used = (pool.used \ {v[s].slab}) \cup ({b} \ {NoSlab}) /\ (b \in pool.used => b = v[s].slab)
    BY <2>1, <2>3
  <2>5. n.q.waiting \subseteq pool.waiting \cup {s} /\ pool.waiting \subseteq n.q.waiting \cup {s}
    BY <1>2 DEF Slabbed
  <2>6. Slabbed(s, n)
    <3>1. /\ w.r.id = v[s].id /\ w.r.kind = v[s].kind /\ w.r.nonblocking = v[s].nonblocking
          /\ w.r.pin = v[s].pin /\ w.q.payload = pool.payload
      BY DEF Slabbed
    <3> QED BY <2>2, <2>4, <2>5, <3>1, <1>2 DEF Slabbed
  <2>7. n.k = w.k /\ n.reply = w.reply
    BY <1>2
  <2> QED BY <2>2, <2>6, <2>7
<1> QED BY <1>2, <1>3, <1>4

\* The work with another phase.
InPhase(w, p) == [w EXCEPT !.r.phase = p]

\* Put at the end of a request gives what Ends says of record and pool.
LEMMA EndsSlab ==
    ASSUME UInv, NEW s \in Slots, NEW w, Slabbed(s, w), ~w.r.active,
           NEW e, e = InPhase(Put(w, s), "IO")
    PROVE  /\ e.r = EndedRecord(s) /\ e.k = w.k
           /\ e.q \in PoolRec /\ e.q.used = pool.used \ {v[s].slab} /\ e.q.payload = pool.payload
           /\ e.q.waiting = pool.waiting \ {s}
<1>1. PICK n : n = Put(w, s)
  OBVIOUS
<1>2. /\ Slabbed(s, n) /\ n.r.slab = NoSlab /\ n.r.active = FALSE /\ n.k = w.k
      /\ n.q \in PoolRec /\ n.q.used = pool.used \ {v[s].slab} /\ n.q.payload = pool.payload
      /\ n.q.waiting = pool.waiting \ {s}
  <2>1. w.r.active = FALSE
    BY WorkFields DEF Slabbed
  <2> QED BY <2>1, <1>1, SlabbedPut
<1>3. n \in WorkRec /\ n.r \in RequestRec
  BY <1>2, WorkFields DEF Slabbed
<1>4. PICK r : r = [n.r EXCEPT !.phase = "IO"]
  OBVIOUS
<1>5. e = [n EXCEPT !.r = r]
  BY <1>1, <1>3, <1>4 DEF WorkRec, InPhase
<1>6. e.r = r /\ e.k = n.k /\ e.q = n.q
  BY <1>3, <1>5 DEF WorkRec
<1>7. r = EndedRecord(s)
  <2>1. v[s] \in RequestRec
    BY SlotType
  <2>2. /\ n.r.id = v[s].id /\ n.r.kind = v[s].kind /\ n.r.nonblocking = v[s].nonblocking
        /\ n.r.pin = v[s].pin
    BY <1>2 DEF Slabbed
  <2>3. r = [id |-> v[s].id, kind |-> v[s].kind, nonblocking |-> v[s].nonblocking, phase |-> "IO",
             pin |-> v[s].pin, slab |-> NoSlab, active |-> FALSE]
    BY <1>2, <1>3, <1>4, <2>2 DEF RequestRec
  <2>4. EndedRecord(s) =
            [id |-> v[s].id, kind |-> v[s].kind, nonblocking |-> v[s].nonblocking, phase |-> "IO",
             pin |-> v[s].pin, slab |-> NoSlab, active |-> FALSE]
    <3>1. PICK x \in RequestRec : x = v[s]
      BY <2>1
    <3>2. PICK y : y = [x EXCEPT !.active = FALSE, !.slab = NoSlab, !.phase = "IO"]
      OBVIOUS
    <3>3. /\ y.id = x.id /\ y.kind = x.kind /\ y.nonblocking = x.nonblocking /\ y.phase = "IO"
          /\ y.pin = x.pin /\ y.slab = NoSlab /\ y.active = FALSE
          /\ y = [id |-> y.id, kind |-> y.kind, nonblocking |-> y.nonblocking, phase |-> y.phase,
                  pin |-> y.pin, slab |-> y.slab, active |-> y.active]
      BY ONLY x \in RequestRec, <3>2 DEF RequestRec
    <3>4. y = [id |-> x.id, kind |-> x.kind, nonblocking |-> x.nonblocking, phase |-> "IO",
               pin |-> x.pin, slab |-> NoSlab, active |-> FALSE]
      BY ONLY <3>3
    <3> QED BY <3>1, <3>2, <3>4 DEF EndedRecord
  <2> QED BY <2>3, <2>4
<1> QED BY <1>2, <1>6, <1>7

--------------------------------------------------------------------------
(* The outcomes of a step *)

Finishes(s, w) == Over(w) /\ ~w.r.active /\ Slabbed(s, w) /\ Answers(s, w.k, w.reply)
Pends(s, w) == w.reply = NoReply /\ Stays(s, w.r, w.q, w.k)

\* What the step has read of the phase, and what the phase was.
LEMMA ReadPhase ==
    ASSUME UInv, NEW s \in Slots, turn.step.s = s
    PROVE  /\ turn.step.p \in PhasesOf
           /\ turn.step.cancel => v[s].phase = "IO"
           /\ turn.step.p = "IO" =>
                 v[s].phase = "IO" /\ Was(s) = IF turn.step.expiry THEN "COPY" ELSE "IO"
           /\ turn.step.p # "IO" => ~turn.step.expiry
           /\ turn.step.p = "COMMIT" => Was(s) = "COMMIT"
           /\ turn.step.p = "COPY" /\ ~turn.step.cancel =>
                 v[s].phase \in {"COPY", "COMMIT"} /\ Was(s) = v[s].phase
           /\ turn.step.p \in {"COMMIT", "SUBMITTED"} /\ ~turn.step.cancel =>
                 v[s].phase = turn.step.p /\ Was(s) = turn.step.p
           /\ turn.step.cancel /\ turn.step.p # "COMMIT" => Was(s) # "COMMIT"
           /\ v[s].phase # "COPY" => ~v[s].pin
<1>1. turn.step.s # 0
  BY InProgress
<1>2. /\ turn.step.p \in PhasesOf
      /\ turn.step.expiry => turn.step.p = "IO"
      /\ turn.step.cancel \/ turn.step.p = "IO" => v[s].phase = "IO"
      /\ ~turn.step.cancel /\ turn.step.p \in {"COMMIT", "SUBMITTED"} => v[s].phase = turn.step.p
      /\ ~turn.step.cancel /\ turn.step.p = "COPY" => v[s].phase \in {"COPY", "COMMIT"}
  BY <1>1 DEF UInv, InStep
<1>3. v[s].phase # "COPY" => ~v[s].pin
  BY DEF UInv, Pinned
<1> QED BY <1>2, <1>3 DEF Was

\* The sends: what the socket and the wire know of an active one.
LEMMA SendKnown ==
    ASSUME UInv, NEW s \in Slots, turn.step.s = s, v[s].kind = "send"
    PROVE  /\ v[s].active =>
                 /\ sock.tx.token = v[s].id
                 /\ sock.tx.done => sock.tx.result \in {"OK", "EIO"}
                 /\ sock.tx.done /\ sock.tx.result = "OK" => wire[v[s].id].sent = 1
                 /\ ~(sock.tx.done /\ sock.tx.result = "OK") =>
                       wire[v[s].id].sent = 0 \/ wire[v[s].id].down
           /\ ~v[s].active => wire[v[s].id].sent = 0
<1>1. ~v[s].active => wire[v[s].id].sent = 0
  BY InProgress DEF UInv, OnWire
<1>2. v[s].active => sock.tx.token = v[s].id /\ v[s].id # 0
  BY InProgress DEF UInv, Operations
<1> QED BY <1>1, <1>2 DEF UInv, Transmission, Unsettled

\* The socket once the operation of the step's request is cleaned up.
Cleaned(s, k, c) ==
    /\ k \in SockRec /\ RxOk(k) /\ Unsettled(k, wire) /\ ~k.ip.done /\ k.online = sock.online
    /\ k.tx.token = IF v[s].active /\ v[s].kind = "send" THEN 0 ELSE sock.tx.token
    /\ k.receive.token = IF v[s].active /\ v[s].kind = "recv" THEN 0 ELSE sock.receive.token
    /\ k.rx = IF v[s].active /\ v[s].kind = "recv" /\ c /\ sock.rx # <<>>
              THEN Tail(sock.rx) ELSE sock.rx
    /\ v[s].kind = "recv" => k.tx = sock.tx /\ k.ip = sock.ip

LEMMA CleanedSock ==
    ASSUME UInv, NEW s \in Slots, turn.step.s = s, NEW c, NEW k,
           k = cleanup(sock, {v[s]}, c)
    PROVE  Cleaned(s, k, c)
<1>1. sock \in SockRec /\ RxOk(sock) /\ Unsettled(sock, wire) /\ ~sock.ip.done
  BY DEF UInv, UType, Operations, RxOk, Transmission
<1>2. v[s].kind \in {"send", "recv"} /\ v[s].id # 0 /\ v[s].active \in BOOLEAN
  BY InProgress, SlotType
<1>3. CASE v[s].kind = "send"
  <2>1. /\ k \in SockRec /\ k.rx = sock.rx /\ k.receive = sock.receive /\ k.online = sock.online
        /\ k.tx = IF v[s].active /\ sock.tx.token = v[s].id THEN NoOp ELSE sock.tx
        /\ k.ip = IF v[s].active /\ sock.ip.token # 0 THEN NoEntry ELSE sock.ip
    BY <1>1, <1>3, CleanupSend
  <2>2. v[s].active => sock.tx.token = v[s].id
    BY <1>3 DEF UInv, Operations
  <2>3. CASE v[s].active
    <3>1. k.tx = NoOp /\ k.ip = NoEntry
      BY <2>1, <2>2, <2>3, <1>1 DEF Unsettled
    <3>2. Unsettled(k, wire) /\ ~k.ip.done /\ RxOk(k) /\ k.tx.token = 0
      BY <3>1, <2>1, <1>1, NoneType DEF Unsettled, RxOk
    <3> QED BY <2>1, <2>3, <3>2, <1>3 DEF Cleaned
  <2>4. CASE ~v[s].active
    <3>1. k.tx = sock.tx /\ k.ip = sock.ip
      BY <2>1, <2>4
    <3>2. Unsettled(k, wire) /\ ~k.ip.done /\ RxOk(k)
      BY <3>1, <2>1, <1>1 DEF Unsettled, RxOk
    <3> QED BY <2>1, <2>4, <3>1, <3>2, <1>3 DEF Cleaned
  <2> QED BY <2>3, <2>4
<1>4. CASE v[s].kind = "recv"
  <2>1. /\ k \in SockRec /\ k.tx = sock.tx /\ k.ip = sock.ip /\ k.online = sock.online
        /\ k.receive = IF v[s].active /\ sock.receive.token = v[s].id THEN NoOp ELSE sock.receive
        /\ k.rx = IF v[s].active /\ sock.receive.token = v[s].id /\ c /\ sock.rx # <<>>
                  THEN Tail(sock.rx) ELSE sock.rx
    BY <1>1, <1>4, CleanupRecv
  <2>2. v[s].active => sock.receive.token = v[s].id
    BY <1>4 DEF UInv, Operations
  <2>3. Unsettled(k, wire) /\ ~k.ip.done
    BY <2>1, <1>1 DEF Unsettled
  <2>4. CASE v[s].active
    <3>1. k.receive = NoOp
      BY <2>1, <2>2, <2>4
    <3>2. k.receive.token = 0 /\ RxOk(k)
      BY <3>1, NoneType DEF RxOk
    <3> QED BY <2>1, <2>2, <2>3, <2>4, <3>2, <1>4 DEF Cleaned
  <2>5. CASE ~v[s].active
    <3>1. k.receive = sock.receive /\ k.rx = sock.rx
      BY <2>1, <2>5
    <3>2. RxOk(k)
      BY <3>1, <1>1 DEF RxOk
    <3> QED BY <2>1, <2>3, <2>5, <3>1, <3>2, <1>4 DEF Cleaned
  <2> QED BY <2>4, <2>5
<1> QED BY <1>2, <1>3, <1>4

\* Cleaned up and answered, the request keeps only its slab.
LEMMA CleanedWork ==
    ASSUME UInv, NEW s \in Slots, turn.step.s = s, NEW c, NEW what \in Statuses,
           NEW w, w = Reply(Cleanup(Work(s), c), what)
    PROVE  /\ ~w.r.active /\ Slabbed(s, w) /\ w.reply = what
           /\ Cleaned(s, w.k, c)
<1>1. PICK n : n = Cleanup(Work(s), c)
  OBVIOUS
<1>2. /\ Work(s) \in WorkRec /\ Work(s).r = v[s] /\ Work(s).q = pool /\ Work(s).k = sock
      /\ v[s] \in RequestRec /\ v[s].kind \in {"send", "recv"}
  BY WorkBegun, InProgress, SlotType
<1>3. /\ n \in WorkRec /\ n.q = pool /\ n.k = cleanup(sock, {v[s]}, c)
      /\ n.r = [v[s] EXCEPT !.active = FALSE]
  BY <1>1, <1>2, CleanedUp
<1>4. /\ n.r.id = v[s].id /\ n.r.kind = v[s].kind /\ n.r.nonblocking = v[s].nonblocking
      /\ n.r.pin = v[s].pin /\ n.r.slab = v[s].slab /\ n.r.active = FALSE
  BY <1>2, <1>3 DEF RequestRec
<1>5. w \in WorkRec /\ w.r = n.r /\ w.q = n.q /\ w.k = n.k /\ w.reply = what
  BY <1>1, <1>3, Replied
<1>6. Slabbed(s, Work(s))
  BY SlabbedWork
<1>7. Slabbed(s, w)
  BY <1>2, <1>3, <1>4, <1>5, <1>6 DEF Slabbed
<1>8. PICK k : k = w.k
  OBVIOUS
<1>9. k = cleanup(sock, {v[s]}, c)
  BY <1>3, <1>5, <1>8
<1>10. Cleaned(s, k, c)
  BY <1>9, CleanedSock
<1> QED BY <1>4, <1>5, <1>7, <1>8, <1>10

LEMMA CommitReceives ==
    ASSUME UInv, NEW s \in Slots, turn.step.s = s, v[s].kind = "recv", turn.step.p = "COMMIT",
           NEW c, c = TRUE, NEW w, w = Reply(Cleanup(Work(s), c), "OK")
    PROVE  Finishes(s, w)
<1>0. "OK" \in Statuses
  BY DEF Statuses
<1>1. /\ ~w.r.active /\ Slabbed(s, w) /\ w.reply = "OK"
      /\ Cleaned(s, w.k, c)
  BY ONLY UInv, s \in Slots, turn.step.s = s, w = Reply(Cleanup(Work(s), c), "OK"), <1>0, CleanedWork
<1>2. Was(s) = "COMMIT"
  BY ReadPhase
<1>3. v[s].active /\ sock.rx # <<>>
  BY <1>2, InProgress DEF ByPhase
<1>4. v[s].phase # "COPY"
  BY ReadPhase
<1>5. Answers(s, w.k, "OK")
  BY <1>0, <1>1, <1>2, <1>3, <1>4, ReadPhase DEF Answers, Cleaned, Statuses, NoReply
<1> QED BY <1>0, <1>1, <1>5 DEF Finishes, Over, NoReply

LEMMA CancelEnds ==
    ASSUME UInv, NEW s \in Slots, turn.step.s = s, ~(v[s].kind = "recv" /\ turn.step.p = "COMMIT"),
           turn.step.cancel, NEW w, w = Cancelled(Work(s))
    PROVE  Finishes(s, w)
<1>1. /\ Work(s).r = v[s] /\ Work(s).k = sock /\ v[s].kind \in {"send", "recv"}
  BY WorkBegun, InProgress
<1>2. PICK what : what = IF v[s].kind = "send" /\ v[s].active /\ SendReady(Work(s))
                            /\ SendResult(Work(s)) = "OK" THEN "OK" ELSE "EINTR"
  OBVIOUS
<1>0. PICK c : c = FALSE
  OBVIOUS
<1>3. w = Reply(Cleanup(Work(s), c), what) /\ what \in Statuses /\ what # NoReply
  <2>1. what \in Statuses /\ what # NoReply
    BY <1>2 DEF Statuses, NoReply
  <2>2. w = Reply(Cleanup(Work(s), FALSE), what)
    BY <1>1, <1>2 DEF Cancelled
  <2> QED BY <2>1, <2>2, <1>0
<1>4. /\ ~w.r.active /\ Slabbed(s, w) /\ w.reply = what
      /\ Cleaned(s, w.k, c)
  BY <1>3, CleanedWork
<1>5. v[s].kind = "send" /\ v[s].active => SendReady(Work(s)) = sock.tx.done
                                           /\ SendResult(Work(s)) = sock.tx.result
  <2>1. v[s].kind = "send" /\ v[s].active => sock.tx.token = v[s].id
    BY SendKnown
  <2>2. sock.tx.done \in BOOLEAN
    BY DEF UInv, UType, SockRec, OpRec
  <2> QED BY <1>1, <2>1, <2>2 DEF SendReady, SendResult
<1>6. v[s].kind = "send" => /\ what = "OK" => wire[v[s].id].sent = 1
                            /\ what # "OK" => wire[v[s].id].sent = 0 \/ wire[v[s].id].down
  BY <1>2, <1>5, SendKnown
<1>7. v[s].kind = "recv" => Was(s) # "COMMIT" /\ what # "OK"
  BY <1>2, ReadPhase
<1>8. ~v[s].pin
  BY ReadPhase
<1>9. Answers(s, w.k, what)
  BY <1>0, <1>3, <1>4, <1>6, <1>7, <1>8 DEF Answers, Cleaned
<1> QED BY <1>3, <1>4, <1>9 DEF Finishes, Over

\* The socket is as it was.
LEMMA SockSame ==
    ASSUME UInv
    PROVE  /\ sock \in SockRec /\ RxOk(sock) /\ Unsettled(sock, wire) /\ ~sock.ip.done
           /\ sock.rx \in Seq(Nat) /\ pool \in PoolRec
BY SockFields DEF UInv, UType, Operations, RxOk, Transmission

LEMMA IdleStays ==
    ASSUME UInv, NEW s \in Slots, turn.step.s = s, Was(s) = v[s].phase
    PROVE  Pends(s, Work(s))
<1>1. /\ Work(s).r = v[s] /\ Work(s).q = pool /\ Work(s).k = sock /\ Work(s).reply = NoReply
      /\ v[s] \in RequestRec
  BY WorkBegun, SlotType
<1>2. Slabbed(s, Work(s))
  BY SlabbedWork
<1>3. Holds(v[s], pool, sock)
  BY InProgress DEF ByPhase, HoldsHead, Holds
<1>4. v[s].pin => v[s].phase = "COPY"
  BY DEF UInv, Pinned
<1>5. v[s].active => /\ v[s].kind = "send" => sock.tx.token = v[s].id
                     /\ v[s].kind = "recv" => sock.receive.token = v[s].id
  BY DEF UInv, Operations
<1>6. Stays(s, v[s], pool, sock)
  BY <1>1, <1>2, <1>3, <1>4, <1>5, SockSame DEF Stays, Slabbed
<1> QED BY <1>1, <1>6 DEF Pends

\* Another phase changes nothing else of the work.
LEMMA PhaseSet ==
    ASSUME UInv, NEW s \in Slots, NEW w, Slabbed(s, w), NEW p \in PhasesOf, NEW n,
           n = InPhase(w, p)
    PROVE  /\ Slabbed(s, n) /\ n.r.phase = p /\ n.r.active = w.r.active /\ n.r.slab = w.r.slab
           /\ n.q = w.q /\ n.k = w.k /\ n.reply = w.reply
<1>1. w \in WorkRec /\ w.r \in RequestRec
  BY WorkFields DEF Slabbed
<1>2. PICK r : r = [w.r EXCEPT !.phase = p]
  OBVIOUS
<1>3. /\ r \in RequestRec /\ r.phase = p /\ r.active = w.r.active /\ r.slab = w.r.slab
      /\ r.id = w.r.id /\ r.kind = w.r.kind /\ r.nonblocking = w.r.nonblocking /\ r.pin = w.r.pin
  BY <1>1, <1>2 DEF RequestRec
<1>4. n = [w EXCEPT !.r = r]
  BY <1>1, <1>2 DEF WorkRec, InPhase
<1>5. n \in WorkRec /\ n.r = r /\ n.q = w.q /\ n.k = w.k /\ n.reply = w.reply
  BY <1>1, <1>3, <1>4 DEF WorkRec
<1>6. Slabbed(s, n)
  BY <1>3, <1>5 DEF Slabbed
<1> QED BY <1>3, <1>5, <1>6

\* A send that is not submitted yet and waits for a slab or for the copy.
LEMMA SendStays ==
    ASSUME UInv, NEW s \in Slots, turn.step.s = s, v[s].kind = "send", ~v[s].active, ~v[s].pin,
           Was(s) \in {"IO", "COPY"}, NEW w, Slabbed(s, w), w.k = sock, ~w.r.active,
           w.reply = NoReply, \/ w.r.phase = "IO" /\ w.r.slab = NoSlab
                              \/ w.r.phase = "COPY" /\ w.r.slab # NoSlab
    PROVE  Pends(s, w)
<1>1. w \in WorkRec /\ w.r \in RequestRec /\ w.q \in PoolRec
  BY WorkFields DEF Slabbed
<1>2. w.r.id = v[s].id /\ w.r.kind = "send" /\ w.r.pin = v[s].pin
  BY DEF Slabbed
<1>3. Holds(w.r, w.q, w.k)
  BY <1>2 DEF Holds
<1>4. Stays(s, w.r, w.q, w.k)
  BY <1>1, <1>2, <1>3, SockSame DEF Stays, Slabbed
<1> QED BY <1>4 DEF Pends

LEMMA SendFails ==
    ASSUME UInv, NEW s \in Slots, turn.step.s = s, v[s].kind = "send", ~v[s].active, ~v[s].pin,
           NEW w, Slabbed(s, w), w.k = sock, ~w.r.active, w.reply \in {"EIO", "EAGAIN"}
    PROVE  Finishes(s, w)
<1>1. wire[v[s].id].sent = 0
  BY SendKnown
<1>2. Answers(s, sock, w.reply)
  BY <1>1, SockSame DEF Answers, Statuses, NoReply
<1> QED BY <1>2 DEF Finishes, Over, NoReply

\* The first phase of a send: a slab to offer, or the wait for one.
LEMMA SendOffers ==
    ASSUME UInv, NEW s \in Slots, turn.step.s = s, v[s].kind = "send", ~turn.step.cancel,
           turn.step.p = "IO", NEW w, w = SendWork(s, "IO", turn.step.expiry)
    PROVE  Finishes(s, w) \/ Pends(s, w)
<1>1. /\ v[s].phase = "IO" /\ ~v[s].pin /\ Was(s) = IF turn.step.expiry THEN "COPY" ELSE "IO"
  BY ReadPhase
<1>2. ~v[s].active /\ (~turn.step.expiry => v[s].slab = NoSlab)
  BY <1>1, InProgress DEF ByPhase
<1>3. PICK w0 : w0 = IF turn.step.expiry THEN Put(Work(s), s) ELSE Work(s)
  OBVIOUS
<1>4. /\ Slabbed(s, Work(s)) /\ Work(s).r = v[s] /\ Work(s).k = sock /\ Work(s).reply = NoReply
  BY SlabbedWork, WorkBegun
<1>5. /\ Slabbed(s, w0) /\ w0.r.slab = NoSlab /\ ~w0.r.active /\ w0.r.phase = "IO"
      /\ w0.k = sock /\ w0.reply = NoReply
  <2>1. CASE turn.step.expiry
    <3>1. w0 = Put(Work(s), s)
      BY <2>1, <1>3
    <3>2. PICK x : x = Work(s)
      OBVIOUS
    <3>3. /\ Slabbed(s, w0) /\ w0.r.slab = NoSlab /\ w0.r.active = x.r.active
          /\ w0.r.phase = x.r.phase /\ w0.k = x.k /\ w0.reply = x.reply
      BY <3>1, <3>2, <1>4, SlabbedPut
    <3> QED BY <3>2, <3>3, <1>1, <1>2, <1>4
  <2>2. CASE ~turn.step.expiry
    BY <2>2, <1>1, <1>2, <1>3, <1>4
  <2> QED BY <2>1, <2>2
<1>6. PICK got : got = slab_get(w0, s)
  OBVIOUS
<1>7. /\ Slabbed(s, got) /\ ~got.r.active /\ got.r.phase = "IO" /\ got.k = sock
      /\ got.reply = NoReply
  BY <1>5, <1>6, SlabbedGet
<1>8. w = IF ~w0.k.online THEN Reply(w0, "EIO") ELSE IF HasSlab(got) THEN Offer(got) ELSE got
  BY <1>3, <1>6 DEF SendWork
<1>9. CASE ~w0.k.online
  <2>1. w0 \in WorkRec /\ "EIO" \in Statuses
    BY <1>5 DEF Slabbed, Statuses
  <2>2. w = Reply(w0, "EIO")
    BY <1>8, <1>9
  <2>3. w \in WorkRec /\ w.r = w0.r /\ w.q = w0.q /\ w.k = w0.k /\ w.reply = "EIO"
    BY <2>1, <2>2, Replied
  <2>4. Slabbed(s, w)
    BY <2>3, <1>5 DEF Slabbed
  <2> QED BY <2>3, <2>4, <1>1, <1>2, <1>5, SendFails
<1>10. CASE w0.k.online /\ got.r.slab # NoSlab
  <2>1. w = InPhase(got, "COPY") /\ "COPY" \in PhasesOf
    BY <1>8, <1>10 DEF Offer, HasSlab, PhasesOf, InPhase
  <2>2. /\ Slabbed(s, w) /\ w.r.phase = "COPY" /\ w.r.active = got.r.active /\ w.r.slab = got.r.slab
        /\ w.k = got.k /\ w.reply = got.reply
    BY <2>1, <1>7, PhaseSet
  <2> QED BY <2>2, <1>1, <1>2, <1>7, <1>10, SendStays
<1>11. CASE w0.k.online /\ got.r.slab = NoSlab
  <2>1. w = got
    BY <1>8, <1>11 DEF HasSlab
  <2> QED BY <2>1, <1>1, <1>2, <1>7, <1>11, SendStays
<1> QED BY <1>9, <1>10, <1>11

\* The copy of a send is in: it is submitted, or fails.
LEMMA SendSubmits ==
    ASSUME UInv, NEW s \in Slots, turn.step.s = s, v[s].kind = "send", ~turn.step.cancel,
           turn.step.p = "COMMIT", NEW w,
           w = [Put(net_socket_send(Work(s)), s) EXCEPT !.r.phase = "SUBMITTED"]
    PROVE  Finishes(s, w) \/ Pends(s, w)
<1>1. v[s].phase = "COMMIT" /\ Was(s) = "COMMIT" /\ ~v[s].pin
  BY ReadPhase
<1>2. ~v[s].active /\ v[s].slab # NoSlab /\ pool.payload[v[s].slab] = v[s].id
  BY <1>1, InProgress DEF ByPhase
<1>3. PICK x : x = Work(s)
  OBVIOUS
<1>4. /\ Slabbed(s, x) /\ x \in WorkRec /\ x.r = v[s] /\ x.q = pool /\ x.k = sock /\ x.reply = NoReply
      /\ v[s] \in RequestRec /\ v[s].id \in Nat
  BY <1>3, SlabbedWork, WorkBegun, SlotType
<1>5. PICK n : n = net_socket_send(x)
  OBVIOUS
<1>6. PICK m : m = Put(n, s)
  OBVIOUS
<1>7. w = InPhase(m, "SUBMITTED") /\ "SUBMITTED" \in PhasesOf
  BY <1>3, <1>5, <1>6 DEF PhasesOf, InPhase
<1>8. CASE ~x.k.online \/ x.k.tx.token # 0
  <2>1. PICK what \in Statuses : what \in {"EIO", "EAGAIN"} /\ n = Reply(x, what)
    <3>1. n = Reply(x, "EIO") \/ n = Reply(x, "EAGAIN")
      BY <1>5, <1>8 DEF net_socket_send
    <3> QED BY <3>1 DEF Statuses
  <2>2. n \in WorkRec /\ n.r = x.r /\ n.q = x.q /\ n.k = x.k /\ n.reply = what
    BY <2>1, <1>4, Replied
  <2>3. Slabbed(s, n)
    BY <2>2, <1>4 DEF Slabbed
  <2>4. /\ Slabbed(s, m) /\ m.r.active = n.r.active /\ m.k = n.k /\ m.reply = n.reply
    BY <2>3, <1>6, SlabbedPut
  <2>5. Slabbed(s, w) /\ w.r.active = m.r.active /\ w.k = m.k /\ w.reply = m.reply
    BY ONLY UInv, s \in Slots, <2>4, <1>7, PhaseSet
  <2>6. Slabbed(s, w) /\ ~w.r.active /\ w.k = sock /\ w.reply \in {"EIO", "EAGAIN"}
    BY <2>1, <2>2, <2>4, <2>5, <1>2, <1>4
  <2> QED BY <2>6, <1>1, <1>2, SendFails
<1>9. CASE x.k.online /\ x.k.tx.token = 0
  <2>1. PICK t : t = [NoOp EXCEPT !.token = v[s].id, !.published = TRUE, !.data = v[s].id]
    OBVIOUS
  <2>2. t \in OpRec /\ t.token = v[s].id /\ t.published /\ ~t.done /\ t.data = v[s].id
    BY <2>1, <1>4 DEF NoOp, OpRec, Statuses, NoReply
  <2>3. PICK k : k = [sock EXCEPT !.tx = t]
    OBVIOUS
  <2>4. /\ k \in SockRec /\ k.rx = sock.rx /\ k.receive = sock.receive /\ k.tx = t /\ k.ip = sock.ip
    BY <2>2, <2>3, SockSame DEF SockRec
  <2>5. PICK r : r = [v[s] EXCEPT !.active = TRUE]
    OBVIOUS
  <2>6. /\ r \in RequestRec /\ r.active = TRUE /\ r.id = v[s].id /\ r.kind = "send"
        /\ r.nonblocking = v[s].nonblocking /\ r.pin = v[s].pin /\ r.slab = v[s].slab
    BY <2>5, <1>4 DEF RequestRec
  <2>7. n = [x EXCEPT !.k = k, !.r = r]
    <3>1. n = [x EXCEPT !.k.tx = [NoOp EXCEPT !.token = x.r.id, !.published = TRUE,
                                              !.data = x.q.payload[x.r.slab]],
                        !.r.active = TRUE]
      BY <1>5, <1>9 DEF net_socket_send
    <3>2. n = [x EXCEPT !.k.tx = t, !.r.active = TRUE]
      BY <3>1, <2>1, <1>2, <1>4
    <3> QED BY <3>2, <2>3, <2>5, <1>4 DEF WorkRec
  <2>8. n \in WorkRec /\ n.r = r /\ n.q = pool /\ n.k = k /\ n.reply = NoReply
    BY <2>4, <2>6, <2>7, <1>4 DEF WorkRec
  <2>9. Slabbed(s, n)
    BY <2>6, <2>8, <1>4 DEF Slabbed
  <2>10. /\ Slabbed(s, m) /\ m.r.active = n.r.active /\ m.r.slab = NoSlab /\ m.k = n.k
         /\ m.reply = n.reply
    BY <2>9, <1>6, SlabbedPut
  <2>11. /\ Slabbed(s, w) /\ w.r.phase = "SUBMITTED" /\ w.r.active = m.r.active
         /\ w.r.slab = m.r.slab /\ w.k = m.k /\ w.reply = m.reply
    BY ONLY UInv, s \in Slots, <2>10, <1>7, PhaseSet
  <2>12. /\ Slabbed(s, w) /\ w.r.phase = "SUBMITTED" /\ w.r.active /\ w.r.slab = NoSlab /\ w.k = k
         /\ w.reply = NoReply /\ w.r \in RequestRec /\ w.q \in PoolRec
         /\ w.r.id = v[s].id /\ w.r.kind = "send" /\ w.r.pin = v[s].pin
    <3>1. w.r \in RequestRec /\ w.q \in PoolRec
      BY <2>11, WorkFields DEF Slabbed
    <3>2. w.r.id = v[s].id /\ w.r.kind = "send" /\ w.r.pin = v[s].pin
      BY <2>11 DEF Slabbed
    <3> QED BY <2>6, <2>8, <2>10, <2>11, <3>1, <3>2
  <2>13. RxOk(k) /\ Unsettled(k, wire) /\ ~k.ip.done
    <3>1. sock.tx.token = 0 /\ sock.ip = NoEntry
      BY <1>4, <1>9, SockSame DEF Unsettled
    <3>2. wire[v[s].id].sent = 0 /\ v[s].id # 0
      BY <1>2, SendKnown, InProgress
    <3> QED BY <2>2, <2>4, <3>1, <3>2, SockSame, NoneType DEF RxOk, Unsettled
  <2>14. Holds(w.r, w.q, w.k)
    BY <2>12 DEF Holds
  <2>15. sock.tx.token = 0 /\ k.tx.token = v[s].id /\ k.receive.token = sock.receive.token
    BY <2>2, <2>4, <1>4, <1>9
  <2>16. Stays(s, w.r, w.q, w.k)
    BY <2>4, <2>12, <2>13, <2>14, <2>15, <1>1, <1>2 DEF Stays, Slabbed
  <2> QED BY <2>12, <2>16 DEF Pends
<1> QED BY <1>8, <1>9

LEMMA SendStep ==
    ASSUME UInv, NEW s \in Slots, turn.step.s = s, v[s].kind = "send", ~turn.step.cancel,
           NEW w, w = SendWork(s, turn.step.p, turn.step.expiry)
    PROVE  Finishes(s, w) \/ Pends(s, w)
<1>1. turn.step.p \in PhasesOf
  BY ReadPhase
<1>2. CASE turn.step.p = "IO"
  <2>1. w = SendWork(s, "IO", turn.step.expiry)
    BY <1>2
  <2> QED BY <2>1, <1>2, SendOffers
<1>3. CASE turn.step.p # "IO"
  <2>1. ~turn.step.expiry
    BY <1>3, ReadPhase
  <2>2. CASE turn.step.p = "COMMIT"
    <3>1. w = [Put(net_socket_send(Work(s)), s) EXCEPT !.r.phase = "SUBMITTED"]
      BY <2>1, <2>2 DEF SendWork
    <3> QED BY <2>2, <3>1, SendSubmits
  <2>3. CASE turn.step.p = "COPY"
    <3>1. w = Work(s)
      BY <2>1, <2>3 DEF SendWork
    <3>2. Was(s) = v[s].phase
      BY <2>3, ReadPhase
    <3> QED BY <3>1, <3>2, IdleStays
  <2>4. CASE turn.step.p = "SUBMITTED"
    <3>1. w = IF SendReady(Work(s)) THEN Reply(Cleanup(Work(s), FALSE), SendResult(Work(s))) ELSE Work(s)
      BY <2>1, <2>4 DEF SendWork
    <3>2. v[s].phase = "SUBMITTED" /\ Was(s) = "SUBMITTED" /\ ~v[s].pin
      BY <2>4, ReadPhase
    <3>3. v[s].active /\ sock.tx.token = v[s].id /\ Work(s).r = v[s] /\ Work(s).k = sock
      BY <3>2, InProgress, SendKnown, WorkBegun DEF ByPhase
    <3>4. CASE sock.tx.done
      <4>1. PICK what : what = sock.tx.result
        OBVIOUS
      <4>2. what \in Statuses /\ what # NoReply /\ what \in {"OK", "EIO"}
        BY <3>3, <3>4, <4>1, SendKnown DEF Statuses, NoReply
      <4>3. PICK c : c = FALSE
        OBVIOUS
      <4>4. w = Reply(Cleanup(Work(s), c), what)
        BY <3>1, <3>3, <3>4, <4>1, <4>3 DEF SendReady, SendResult
      <4>5. ~w.r.active /\ Slabbed(s, w) /\ w.reply = what /\ Cleaned(s, w.k, c)
        BY <4>2, <4>4, CleanedWork
      <4>6. what = "OK" => wire[v[s].id].sent = 1
        BY <3>3, <3>4, <4>1, SendKnown
      <4>7. Answers(s, w.k, what)
        BY <3>2, <4>2, <4>3, <4>5, <4>6 DEF Answers, Cleaned
      <4> QED BY <4>2, <4>5, <4>7 DEF Finishes, Over
    <3>5. CASE ~sock.tx.done
      <4>1. w = Work(s)
        BY <3>1, <3>3, <3>5 DEF SendReady
      <4> QED BY <4>1, <3>2, IdleStays
    <3> QED BY <3>4, <3>5
  <2> QED BY <2>2, <2>3, <2>4, <1>1, <1>3 DEF PhasesOf
<1> QED BY <1>2, <1>3

(* A receive at work in its first phase: the queue is as it was, and the   *)
(* operation is there exactly when the record says so.                     *)
Received(s, w) ==
    /\ turn.step.s = s /\ v[s].kind = "recv" /\ ~v[s].pin /\ Was(s) \in {"IO", "COPY"}
    /\ Slabbed(s, w) /\ w.reply = NoReply /\ w.r.phase = "IO"
    /\ w.k.tx = sock.tx /\ w.k.ip = sock.ip /\ w.k.rx = sock.rx /\ RxOk(w.k)
    /\ w.k.receive.token = IF w.r.active THEN v[s].id
                           ELSE IF v[s].active THEN 0 ELSE sock.receive.token
    /\ w.r.active => v[s].active \/ sock.receive.token = 0

LEMMA ReceivedParts ==
    ASSUME UInv, NEW s \in Slots, NEW w, Received(s, w)
    PROVE  /\ w \in WorkRec /\ w.r \in RequestRec /\ w.q \in PoolRec /\ w.k \in SockRec
           /\ w.r.id = v[s].id /\ w.r.kind = "recv" /\ ~w.r.pin /\ w.r.active \in BOOLEAN
           /\ v[s].id # 0 /\ v[s].id \in Nat
           /\ Unsettled(w.k, wire) /\ ~w.k.ip.done
<1>1. /\ w \in WorkRec /\ w.r.id = v[s].id /\ w.r.kind = "recv" /\ ~w.r.pin
  BY DEF Received, Slabbed
<1>2. Unsettled(w.k, wire) /\ ~w.k.ip.done
  BY SockSame DEF Received, Unsettled
<1>3. v[s].id # 0 /\ v[s].id \in Nat
  BY InProgress DEF Received
<1> QED BY <1>1, <1>2, <1>3, WorkFields

\* It fails while it has no operation, or its operation is cleaned up.
LEMMA ReceiveFails ==
    ASSUME UInv, NEW s \in Slots, NEW w, Received(s, w), ~w.r.active,
           NEW what \in Statuses, what # NoReply, what # "OK", NEW n, n = Reply(w, what)
    PROVE  Finishes(s, n)
<1>1. /\ w \in WorkRec /\ w.k \in SockRec /\ Unsettled(w.k, wire) /\ ~w.k.ip.done
  BY ReceivedParts
<1>2. n \in WorkRec /\ n.r = w.r /\ n.q = w.q /\ n.k = w.k /\ n.reply = what
  BY <1>1, Replied
<1>3. Slabbed(s, n)
  BY <1>2 DEF Received, Slabbed
<1>4. Answers(s, w.k, what)
  BY <1>1 DEF Received, Answers
<1> QED BY <1>2, <1>3, <1>4 DEF Finishes, Over

LEMMA ReceiveCleaned ==
    ASSUME UInv, NEW s \in Slots, NEW w, Received(s, w), NEW c, c = FALSE,
           NEW what \in Statuses, what # NoReply, what # "OK", NEW n,
           n = Reply(Cleanup(w, c), what)
    PROVE  Finishes(s, n)
<1>1. /\ w \in WorkRec /\ w.k \in SockRec /\ w.r \in RequestRec /\ w.r.id = v[s].id
      /\ w.r.kind = "recv" /\ v[s].id # 0 /\ w.r.active \in BOOLEAN
      /\ Unsettled(w.k, wire) /\ ~w.k.ip.done
  BY ReceivedParts
<1>2. PICK m : m = Cleanup(w, c)
  OBVIOUS
<1>3. /\ m \in WorkRec /\ m.q = w.q /\ m.k = cleanup(w.k, {w.r}, c)
      /\ m.r = [w.r EXCEPT !.active = FALSE]
  BY <1>1, <1>2, CleanedUp
<1>4. n \in WorkRec /\ n.r = m.r /\ n.q = m.q /\ n.k = m.k /\ n.reply = what
  BY <1>2, <1>3, Replied
<1>5. /\ m.r.id = w.r.id /\ m.r.kind = w.r.kind /\ m.r.nonblocking = w.r.nonblocking
      /\ m.r.pin = w.r.pin /\ m.r.slab = w.r.slab /\ ~m.r.active
  BY <1>1, <1>3 DEF RequestRec
<1>6. Slabbed(s, n)
  BY <1>3, <1>4, <1>5 DEF Received, Slabbed
<1>7. PICK k : k = m.k
  OBVIOUS
<1>8. /\ k \in SockRec /\ k.tx = w.k.tx /\ k.ip = w.k.ip /\ k.rx = w.k.rx
      /\ k.receive = IF w.r.active /\ w.k.receive.token = w.r.id THEN NoOp ELSE w.k.receive
  BY <1>1, <1>3, <1>7, CleanupRecv
<1>9. Unsettled(k, wire) /\ ~k.ip.done
  BY <1>1, <1>8 DEF Unsettled
<1>10. RxOk(k) /\ k.receive.token = IF v[s].active THEN 0 ELSE sock.receive.token
  <2>1. CASE w.r.active
    <3>1. k.receive = NoOp
      BY <1>1, <1>8, <2>1 DEF Received
    <3>2. v[s].active \/ sock.receive.token = 0
      BY <2>1 DEF Received
    <3> QED BY <3>1, <3>2, NoneType DEF RxOk
  <2>2. CASE ~w.r.active
    <3>1. k.receive = w.k.receive
      BY <1>8, <2>2
    <3> QED BY <1>8, <2>2, <3>1 DEF Received, RxOk
  <2> QED BY <2>1, <2>2
<1>11. Answers(s, k, what)
  BY <1>8, <1>9, <1>10 DEF Received, Answers
<1> QED BY <1>4, <1>5, <1>6, <1>7, <1>11 DEF Finishes, Over

\* It waits for its datagram, or for a slab.
LEMMA ReceiveWaits ==
    ASSUME UInv, NEW s \in Slots, NEW w, Received(s, w), w.r.active
    PROVE  Pends(s, w)
<1>1. /\ w.r \in RequestRec /\ w.q \in PoolRec /\ w.k \in SockRec
      /\ w.r.id = v[s].id /\ w.r.kind = "recv" /\ ~w.r.pin
      /\ Unsettled(w.k, wire) /\ ~w.k.ip.done
  BY ReceivedParts
<1>2. Holds(w.r, w.q, w.k)
  BY <1>1 DEF Holds, Received
<1>3. v[s].active => sock.receive.token = v[s].id
  BY DEF UInv, Operations, Received
<1>4. w.k.receive.token = v[s].id /\ (w.k.receive.token = sock.receive.token \/ sock.receive.token = 0)
  BY <1>3 DEF Received
<1>5. Stays(s, w.r, w.q, w.k)
  BY <1>1, <1>2, <1>4 DEF Stays, Received, Slabbed
<1> QED BY <1>5 DEF Pends, Received

LEMMA ReceiveGets ==
    ASSUME UInv, NEW s \in Slots, NEW w, Received(s, w), w.r.slab = NoSlab,
           NEW n, n = slab_get(w, s)
    PROVE  Received(s, n) /\ n.r.active = w.r.active /\ n.k = w.k
<1>1. /\ Slabbed(s, n) /\ n.r.active = w.r.active /\ n.r.phase = w.r.phase
      /\ n.k = w.k /\ n.reply = w.reply
  BY SlabbedGet DEF Received
<1> QED BY <1>1 DEF Received

\* The operation is there, or the receive has failed.
LEMMA ReceiveReserves ==
    ASSUME UInv, NEW s \in Slots, NEW w, Received(s, w), NEW over, NEW n, n = Reserve(w, s, over)
    PROVE  Finishes(s, n) \/ (Received(s, n) /\ n.r.active)
<1>1. PICK got : got = IF w.r.nonblocking /\ ~HasSlab(w) THEN slab_get(w, s) ELSE w
  OBVIOUS
<1>2. Received(s, got) /\ got.r.active = w.r.active /\ got.k = w.k
  BY <1>1, ReceiveGets DEF HasSlab
<1>3. "EIO" \in Statuses /\ "EAGAIN" \in Statuses /\ "EIO" # NoReply /\ "EAGAIN" # NoReply
  BY DEF Statuses, NoReply
<1>4. CASE w.r.active
  BY <1>4 DEF Reserve
<1>5. CASE ~w.r.active
  <2>1. \/ n = Reply(w, "EIO") \/ n = Reply(w, "EAGAIN") \/ n = Reply(got, "EAGAIN")
        \/ /\ w.k.receive.token = 0
           /\ n = [got EXCEPT !.r.active = TRUE,
                       !.k.receive = [NoOp EXCEPT !.token = w.r.id, !.done = w.k.rx # <<>>,
                                                  !.result = "OK"]]
    BY <1>1, <1>5 DEF Reserve
  <2>2. CASE n = Reply(w, "EIO")
    BY <2>2, <1>3, <1>5, ReceiveFails
  <2>3. CASE n = Reply(w, "EAGAIN")
    BY <2>3, <1>3, <1>5, ReceiveFails
  <2>4. CASE n = Reply(got, "EAGAIN")
    BY <2>4, <1>2, <1>3, <1>5, ReceiveFails
  <2>5. CASE /\ w.k.receive.token = 0
             /\ n = [got EXCEPT !.r.active = TRUE,
                         !.k.receive = [NoOp EXCEPT !.token = w.r.id, !.done = w.k.rx # <<>>,
                                                    !.result = "OK"]]
    <3>1. /\ got \in WorkRec /\ got.r \in RequestRec /\ got.k \in SockRec /\ w.r.id = v[s].id
          /\ v[s].id \in Nat /\ v[s].id # 0
      BY <1>2, ReceivedParts
    <3>2. PICK t : t = [NoOp EXCEPT !.token = w.r.id, !.done = w.k.rx # <<>>, !.result = "OK"]
      OBVIOUS
    <3>3. /\ t \in OpRec /\ t.token = v[s].id /\ t.done = (w.k.rx # <<>>) /\ t.result = "OK"
      BY <3>1, <3>2 DEF NoOp, OpRec, Statuses
    <3>4. PICK k : k = [got.k EXCEPT !.receive = t]
      OBVIOUS
    <3>5. k \in SockRec /\ k.rx = got.k.rx /\ k.receive = t /\ k.tx = got.k.tx /\ k.ip = got.k.ip
      BY <3>1, <3>3, <3>4 DEF SockRec
    <3>6. PICK r : r = [got.r EXCEPT !.active = TRUE]
      OBVIOUS
    <3>7. /\ r \in RequestRec /\ r.active = TRUE /\ r.id = got.r.id /\ r.kind = got.r.kind
          /\ r.nonblocking = got.r.nonblocking /\ r.pin = got.r.pin /\ r.slab = got.r.slab
          /\ r.phase = got.r.phase
      BY <3>1, <3>6 DEF RequestRec
    <3>8. n = [got EXCEPT !.r = r, !.k = k]
      <4>1. n = [got EXCEPT !.r.active = TRUE, !.k.receive = t]
        BY <2>5, <3>2
      <4> QED BY <4>1, <3>1, <3>4, <3>6 DEF WorkRec
    <3>9. n \in WorkRec /\ n.r = r /\ n.q = got.q /\ n.k = k /\ n.reply = got.reply
      BY <3>1, <3>5, <3>7, <3>8 DEF WorkRec
    <3>10. Slabbed(s, n)
      BY <3>7, <3>9, <1>2 DEF Received, Slabbed
    <3>11. RxOk(k)
      BY <3>3, <3>5, <1>2 DEF RxOk, NoReply
    <3>12. v[s].active \/ sock.receive.token = 0
      BY <2>5, <1>5 DEF Received
    <3>13. /\ n.reply = NoReply /\ n.r.phase = "IO" /\ n.r.active
           /\ n.k.tx = sock.tx /\ n.k.ip = sock.ip /\ n.k.rx = sock.rx
           /\ n.k.receive.token = v[s].id
      BY <3>3, <3>5, <3>7, <3>9, <1>2 DEF Received
    <3>14. Received(s, n)
      BY <3>9, <3>10, <3>11, <3>12, <3>13 DEF Received
    <3> QED BY <3>13, <3>14
  <2> QED BY <2>1, <2>2, <2>3, <2>4, <2>5
<1> QED BY <1>4, <1>5

\* The head of the queue is in the slab of the receive, and offered.
LEMMA ReceiveOffers ==
    ASSUME UInv, NEW s \in Slots, NEW w, Received(s, w), w.r.active, w.r.slab # NoSlab,
           w.k.rx # <<>>, NEW n, n = Offer([w EXCEPT !.q.payload[w.r.slab] = Head(w.k.rx)])
    PROVE  Pends(s, n)
<1>1. /\ w \in WorkRec /\ w.r \in RequestRec /\ w.q \in PoolRec /\ w.k \in SockRec
      /\ w.r.id = v[s].id /\ w.r.kind = "recv" /\ ~w.r.pin
      /\ Unsettled(w.k, wire) /\ ~w.k.ip.done
  BY ReceivedParts
<1>2. w.r.slab \in Slabs /\ w.q.payload \in [Slabs -> Nat]
  BY <1>1, WorkFields
<1>3. PICK h \in Nat : h = Head(w.k.rx)
  <2>1. PICK y \in Seq(Nat) : y = w.k.rx
    BY <1>1, SockFields
  <2>2. Head(y) \in Nat
    BY <2>1
  <2> QED BY <2>1, <2>2
<1>4. PICK f : f = [w.q.payload EXCEPT ![w.r.slab] = h]
  OBVIOUS
<1>5. f \in [Slabs -> Nat] /\ f[w.r.slab] = h /\ \A b \in Slabs : b # w.r.slab => f[b] = w.q.payload[b]
  BY <1>2, <1>4
<1>6. PICK q : q = [w.q EXCEPT !.payload = f]
  OBVIOUS
<1>7. /\ q \in PoolRec /\ q.payload = f /\ q.used = w.q.used /\ q.waiting = w.q.waiting
  BY <1>1, <1>5, <1>6 DEF PoolRec
<1>8. PICK r : r = [w.r EXCEPT !.phase = "COPY"]
  OBVIOUS
<1>9. /\ r \in RequestRec /\ r.phase = "COPY" /\ r.active = w.r.active /\ r.slab = w.r.slab
      /\ r.id = w.r.id /\ r.kind = w.r.kind /\ r.pin = w.r.pin
  BY <1>1, <1>8 DEF RequestRec, PhasesOf
<1>10. n = [w EXCEPT !.q = q, !.r = r]
  <2>1. PICK m : m = [w EXCEPT !.q.payload[w.r.slab] = h]
    OBVIOUS
  <2>2. m = [w EXCEPT !.q = q]
    BY <2>1, <1>1, <1>4, <1>6 DEF WorkRec, PoolRec
  <2>3. n = [m EXCEPT !.r.phase = "COPY"]
    BY <2>1, <1>3 DEF Offer
  <2> QED BY <2>2, <2>3, <1>1, <1>8 DEF WorkRec
<1>11. n.r = r /\ n.q = q /\ n.k = w.k /\ n.reply = w.reply
  BY <1>1, <1>10 DEF WorkRec
<1>12. Holds(r, q, w.k)
  BY <1>1, <1>3, <1>5, <1>7, <1>9 DEF Holds
<1>13. v[s].active => sock.receive.token = v[s].id
  BY DEF UInv, Operations, Received
<1>14. w.k.receive.token = v[s].id /\ (w.k.receive.token = sock.receive.token \/ sock.receive.token = 0)
  BY <1>13 DEF Received
<1>15. /\ q.used = (pool.used \ {v[s].slab}) \cup ({r.slab} \ {NoSlab})
       /\ r.slab \in pool.used => r.slab = v[s].slab
       /\ \A b \in Slabs : b # r.slab => q.payload[b] = pool.payload[b]
       /\ q.waiting \subseteq pool.waiting \cup {s}
  BY <1>5, <1>7, <1>9 DEF Received, Slabbed
<1>16. Stays(s, r, q, w.k)
  <2>1. /\ v[s].kind = "recv" /\ ~v[s].pin /\ Was(s) \in {"IO", "COPY"} /\ RxOk(w.k)
        /\ w.k.tx = sock.tx /\ w.k.rx = sock.rx
    BY DEF Received
  <2>2. /\ r.id = v[s].id /\ r.kind = "recv" /\ r.active /\ r.phase = "COPY" /\ r \in RequestRec
        /\ r.kind = v[s].kind /\ r.pin = v[s].pin
    <3>1. w.r.pin = v[s].pin
      BY DEF Received, Slabbed
    <3> QED BY <1>1, <1>9, <2>1, <3>1
  <2>3. q \in PoolRec /\ w.k \in SockRec /\ Unsettled(w.k, wire) /\ ~w.k.ip.done
    BY <1>1, <1>7
  <2> QED BY ONLY <2>1, <2>2, <2>3, <1>12, <1>14, <1>15 DEF Stays
<1> QED BY <1>11, <1>16 DEF Pends, Received

LEMMA ReceiveStages ==
    ASSUME UInv, NEW s \in Slots, NEW w, Received(s, w), w.r.active, NEW n, n = Stage(w, s)
    PROVE  Finishes(s, n) \/ Pends(s, n)
<1>1. PICK got : got = IF HasSlab(w) THEN w ELSE slab_get(w, s)
  OBVIOUS
<1>2. Received(s, got) /\ got.r.active /\ got.k = w.k
  BY <1>1, ReceiveGets DEF HasSlab
<1>3. /\ w.k.receive.token = w.r.id /\ w.r.id # 0 /\ w.k \in SockRec
  BY ReceivedParts DEF Received
<1>4. w.k.receive.result \in Statuses
  BY <1>3, SockFields DEF OpRec
<1>5. PICK failed : failed = IF ~w.k.online THEN "EIO" ELSE w.k.receive.result
  OBVIOUS
<1>6. PICK c : c = FALSE
  OBVIOUS
<1>7. n = IF ~w.k.receive.done THEN w
          ELSE IF failed # "OK" THEN Reply(Cleanup(w, c), failed)
          ELSE IF ~HasSlab(got)
          THEN IF w.r.nonblocking THEN Reply(Cleanup(got, c), "EAGAIN") ELSE got
          ELSE Offer([got EXCEPT !.q.payload[got.r.slab] = Head(w.k.rx)])
  BY <1>1, <1>3, <1>5, <1>6 DEF Stage
<1>8. CASE ~w.k.receive.done
  BY <1>7, <1>8, ReceiveWaits
<1>9. CASE w.k.receive.done
  <2>1. w.k.receive.result # NoReply /\ (w.k.receive.result = "OK" => w.k.rx # <<>>)
    BY <1>3, <1>9 DEF Received, RxOk
  <2>2. failed \in Statuses /\ failed # NoReply /\ (failed = "OK" => w.k.rx # <<>>)
    BY <1>4, <1>5, <2>1 DEF Statuses, NoReply
  <2>3. CASE failed # "OK"
    <3>1. n = Reply(Cleanup(w, c), failed)
      BY <1>7, <1>9, <2>3
    <3> QED BY <3>1, <1>6, <2>2, <2>3, ReceiveCleaned
  <2>4. CASE failed = "OK" /\ got.r.slab = NoSlab
    <3>1. n = Reply(Cleanup(got, c), "EAGAIN") \/ n = got
      BY <1>7, <1>9, <2>4 DEF HasSlab
    <3>2. CASE n = Reply(Cleanup(got, c), "EAGAIN")
      <4>1. "EAGAIN" \in Statuses /\ "EAGAIN" # NoReply
        BY DEF Statuses, NoReply
      <4> QED BY <4>1, <3>2, <1>2, <1>6, ReceiveCleaned
    <3>3. CASE n = got
      BY <3>3, <1>2, ReceiveWaits
    <3> QED BY <3>1, <3>2, <3>3
  <2>5. CASE failed = "OK" /\ got.r.slab # NoSlab
    <3>1. n = Offer([got EXCEPT !.q.payload[got.r.slab] = Head(got.k.rx)])
      BY <1>2, <1>7, <1>9, <2>5 DEF HasSlab
    <3> QED BY <3>1, <1>2, <2>2, <2>5, ReceiveOffers
  <2> QED BY <2>3, <2>4, <2>5
<1> QED BY <1>8, <1>9

\* The receive as the step finds it: after an expired lease, without slab
\* and operation.
LEMMA ReceiveBegins ==
    ASSUME UInv, NEW s \in Slots, turn.step.s = s, v[s].kind = "recv", turn.step.p = "IO",
           NEW w, NEW c, c = FALSE,
           w = IF turn.step.expiry THEN Put(Cleanup(Work(s), c), s) ELSE Work(s)
    PROVE  Received(s, w)
<1>1. /\ v[s].phase = "IO" /\ ~v[s].pin /\ Was(s) \in {"IO", "COPY"}
  BY ReadPhase
<1>2. /\ Slabbed(s, Work(s)) /\ Work(s) \in WorkRec /\ Work(s).r = v[s] /\ Work(s).q = pool
      /\ Work(s).k = sock /\ Work(s).reply = NoReply /\ v[s] \in RequestRec
  BY SlabbedWork, WorkBegun, SlotType
<1>3. CASE ~turn.step.expiry
  <2>1. w = Work(s)
    BY <1>3
  <2>2. v[s].active => sock.receive.token = v[s].id
    BY DEF UInv, Operations
  <2> QED BY <2>1, <2>2, <1>1, <1>2, SockSame DEF Received
<1>4. CASE turn.step.expiry
  <2>1. PICK m : m = Cleanup(Work(s), c)
    OBVIOUS
  <2>2. /\ m \in WorkRec /\ m.q = pool /\ m.reply = NoReply /\ m.k = cleanup(sock, {v[s]}, c)
        /\ m.r = [v[s] EXCEPT !.active = FALSE]
    BY <2>1, <1>2, CleanedUp
  <2>3. /\ m.r.id = v[s].id /\ m.r.kind = v[s].kind /\ m.r.nonblocking = v[s].nonblocking
        /\ m.r.pin = v[s].pin /\ m.r.slab = v[s].slab /\ m.r.active = FALSE /\ m.r.phase = v[s].phase
    BY <1>2, <2>2 DEF RequestRec
  <2>4. Slabbed(s, m)
    BY <1>2, <2>2, <2>3 DEF Slabbed
  <2>5. PICK k : k = m.k
    OBVIOUS
  <2>6. Cleaned(s, k, c)
    BY <2>2, <2>5, CleanedSock
  <2>7. w = Put(m, s)
    BY <2>1, <1>4
  <2>8. /\ Slabbed(s, w) /\ w.r.active = m.r.active /\ w.r.phase = m.r.phase
        /\ w.k = m.k /\ w.reply = m.reply
    BY <2>4, <2>7, SlabbedPut
  <2>9. /\ k.tx = sock.tx /\ k.ip = sock.ip /\ k.rx = sock.rx /\ RxOk(k)
        /\ k.receive.token = IF v[s].active THEN 0 ELSE sock.receive.token
    BY <2>6 DEF Cleaned
  <2>10. w.r.active = FALSE /\ w.r.phase = "IO" /\ w.k = k /\ w.reply = NoReply
    BY <2>2, <2>3, <2>5, <2>8, <1>1
  <2> QED BY <2>8, <2>9, <2>10, <1>1 DEF Received
<1> QED BY <1>3, <1>4

LEMMA RecvStep ==
    ASSUME UInv, NEW s \in Slots, turn.step.s = s, v[s].kind = "recv", ~turn.step.cancel,
           turn.step.p # "COMMIT", NEW over, NEW w,
           w = RecvWork(s, turn.step.p, turn.step.expiry, over)
    PROVE  Finishes(s, w) \/ Pends(s, w)
<1>1. turn.step.p \in {"IO", "COPY"}
  <2>1. turn.step.p # "SUBMITTED"
    BY ReadPhase, InProgress DEF ByPhase
  <2> QED BY <2>1, ReadPhase DEF PhasesOf
<1>2. PICK c : c = FALSE
  OBVIOUS
<1>3. PICK w0 : w0 = IF turn.step.expiry THEN Put(Cleanup(Work(s), c), s) ELSE Work(s)
  OBVIOUS
<1>4. PICK w1 : w1 = Reserve(w0, s, over)
  OBVIOUS
<1>5. w = IF Over(w1) \/ turn.step.p = "COPY" THEN w1 ELSE Stage(w1, s)
  BY <1>2, <1>3, <1>4 DEF RecvWork
<1>6. CASE turn.step.p = "COPY"
  <2>1. v[s].phase \in {"COPY", "COMMIT"} /\ Was(s) = v[s].phase /\ ~turn.step.expiry
    BY <1>6, ReadPhase
  <2>2. v[s].active
    BY <2>1, InProgress DEF ByPhase
  <2>3. w0 = Work(s) /\ Work(s).r = v[s]
    BY <1>3, <2>1, WorkBegun
  <2>4. w1 = Work(s)
    BY <1>4, <2>2, <2>3 DEF Reserve
  <2>5. w = Work(s)
    BY <1>5, <1>6, <2>4
  <2> QED BY <2>1, <2>5, IdleStays
<1>7. CASE turn.step.p = "IO"
  <2>1. Received(s, w0)
    BY <1>2, <1>3, <1>7, ReceiveBegins
  <2>2. Finishes(s, w1) \/ (Received(s, w1) /\ w1.r.active)
    BY <1>4, <2>1, ReceiveReserves
  <2>3. CASE Finishes(s, w1)
    BY <1>5, <2>3 DEF Finishes
  <2>4. CASE Received(s, w1) /\ w1.r.active
    <3>1. w = Stage(w1, s)
      BY <1>5, <1>7, <2>4 DEF Received, Over
    <3> QED BY <3>1, <2>4, ReceiveStages
  <2> QED BY <2>2, <2>3, <2>4
<1> QED BY <1>1, <1>6, <1>7

LEMMA StepKeeps == ASSUME UInv, Step PROVE UInv'
<1>1. PICK s : s = turn.step.s
  OBVIOUS
<1>2. s \in Slots
  BY <1>1, StepType DEF Step, UInv, InStep
<1>3. PICK over \in BOOLEAN :
        LET w == StepWork(s, turn.step, over)
            e == IF Over(w) THEN [Put(w, s) EXCEPT !.r.phase = "IO"] ELSE w
        IN  /\ v' = [v EXCEPT ![s] = e.r]
            /\ pool' = e.q
            /\ sock' = e.k
            /\ slot' = [slot EXCEPT ![s].state = IF Over(w) THEN "COMPLETED" ELSE "PENDING",
                                    ![s].reply = w.reply]
  BY <1>1 DEF Step
<1>4. PICK w : w = StepWork(s, turn.step, over)
  OBVIOUS
<1>5. /\ turn' \in TurnRec /\ turn'.step = NoStep
      /\ pc' = pc /\ reg' = reg /\ buf' = buf /\ ret' = ret
      /\ wire' = wire /\ arrivals' = arrivals
  <2>1. PICK t : t = [turn EXCEPT !.step = NoStep]
    OBVIOUS
  <2>2. t \in TurnRec /\ t.step = NoStep
    <3>1. NoStep \in StepRec
      BY DEF NoStep, StepRec
    <3> QED BY <3>1, <2>1, StepType DEF TurnRec
  <2>3. LoopEnds(t) \in TurnRec /\ LoopEnds(t).step = NoStep
    BY <2>2 DEF LoopEnds, TurnRec
  <2>4. turn' = t \/ turn' = LoopEnds(t)
    BY <2>1 DEF Step, Served
  <2> QED BY <2>2, <2>3, <2>4 DEF Step, call
<1>6. Finishes(s, w) \/ Pends(s, w)
  <2>1. v[s].kind \in {"send", "recv"}
    BY <1>1, <1>2, InProgress
  <2>2. CASE v[s].kind = "recv" /\ turn.step.p = "COMMIT"
    <3>1. PICK c : c = TRUE
      OBVIOUS
    <3>2. w = Reply(Cleanup(Work(s), c), "OK")
      BY <1>4, <2>2, <3>1 DEF StepWork
    <3> QED BY <1>1, <1>2, <2>2, <3>1, <3>2, CommitReceives
  <2>3. CASE ~(v[s].kind = "recv" /\ turn.step.p = "COMMIT") /\ turn.step.cancel
    <3>1. w = Cancelled(Work(s))
      BY <1>4, <2>3 DEF StepWork
    <3> QED BY <1>1, <1>2, <2>3, <3>1, CancelEnds
  <2>4. CASE v[s].kind = "send" /\ ~turn.step.cancel
    <3>1. w = SendWork(s, turn.step.p, turn.step.expiry)
      BY <1>4, <2>4 DEF StepWork
    <3> QED BY <1>1, <1>2, <2>4, <3>1, SendStep
  <2>5. CASE v[s].kind = "recv" /\ turn.step.p # "COMMIT" /\ ~turn.step.cancel
    <3>1. w = RecvWork(s, turn.step.p, turn.step.expiry, over)
      BY <1>4, <2>5 DEF StepWork
    <3> QED BY <1>1, <1>2, <2>5, <3>1, RecvStep
  <2> QED BY <2>1, <2>2, <2>3, <2>4, <2>5
<1>7. CASE Finishes(s, w)
  <2>1. PICK e : e = InPhase(Put(w, s), "IO")
    OBVIOUS
  <2>2. Over(w) /\ Slabbed(s, w) /\ ~w.r.active /\ Answers(s, w.k, w.reply)
    BY <1>7 DEF Finishes
  <2>3. /\ e.r = EndedRecord(s) /\ e.k = w.k
        /\ e.q \in PoolRec /\ e.q.used = pool.used \ {v[s].slab} /\ e.q.payload = pool.payload
        /\ e.q.waiting = pool.waiting \ {s}
    BY <1>2, <2>1, <2>2, EndsSlab
  <2>4. /\ v' = [v EXCEPT ![s] = e.r] /\ pool' = e.q /\ sock' = e.k
        /\ slot' = [slot EXCEPT ![s].state = "COMPLETED", ![s].reply = w.reply]
    BY <1>3, <1>4, <2>1, <2>2 DEF InPhase
  <2>5. Ends(s, e.q, w.k, w.reply)
    BY <2>2, <2>3 DEF Ends
  <2>6. Leaves(s, EndedRecord(s), e.q, w.k, "COMPLETED", w.reply)
    BY <1>5, <2>3, <2>4 DEF Leaves
  <2> QED BY <1>1, <1>2, <2>5, <2>6, EndsKeeps
<1>8. CASE Pends(s, w)
  <2>1. w.reply = NoReply /\ Stays(s, w.r, w.q, w.k) /\ ~Over(w)
    BY <1>8 DEF Pends, Over
  <2>2. /\ v' = [v EXCEPT ![s] = w.r] /\ pool' = w.q /\ sock' = w.k
        /\ slot' = [slot EXCEPT ![s].state = "PENDING", ![s].reply = NoReply]
    BY <1>3, <1>4, <2>1
  <2>3. Leaves(s, w.r, w.q, w.k, "PENDING", NoReply)
    BY <1>5, <2>2 DEF Leaves
  <2> QED BY <1>1, <1>2, <2>1, <2>3, StaysKeeps
<1> QED BY <1>6, <1>7, <1>8

--------------------------------------------------------------------------
(* The theorems *)

LEMMA InvStep == UInv /\ [Next]_vars => UInv'
<1> SUFFICES ASSUME UInv, [Next]_vars PROVE UInv'
  OBVIOUS
<1>1. CASE UNCHANGED vars
  <2>1. UNCHANGED Parts
    BY <1>1 DEF vars, call, transport, network, Parts
  <2> QED BY <2>1, StutterKeeps
<1>2. CASE Owner
  <2>1. CASE Protocols
    BY <2>1, ProtocolsKeeps
  <2>2. CASE Housekeeping
    BY <2>2, HousekeepingKeeps
  <2>3. CASE Claim
    BY <2>3, ClaimKeeps
  <2>4. CASE \E expiry \in BOOLEAN : Pending(expiry)
    BY <2>4, PendingKeeps
  <2>5. CASE Step
    BY <2>5, StepKeeps
  <2> QED BY <1>2, <2>1, <2>2, <2>3, <2>4, <2>5 DEF Owner
<1>3. ASSUME NEW a \in Actors, Caller(a) PROVE UInv'
  BY <1>3, CallerKeeps
<1>4. ASSUME NEW a \in Actors, Signal(a) PROVE UInv'
  BY <1>4, SignalKeeps
<1>5. ASSUME NEW a \in Actors, NEW kind \in {"send", "recv"}, NEW nb \in BOOLEAN,
             net_udp_begin(a, kind, nb)
      PROVE  UInv'
  BY <1>5, BeginKeeps
<1> QED BY <1>1, <1>2, <1>3, <1>4, <1>5 DEF Next

(* The inductive invariant holds: which requests are live, what each holds *)
(* of the pool and of the socket in its phase, and where the datagrams     *)
(* are, whatever the callers and the worker's turn do.                     *)
THEOREM UdpInvariant == Spec => []UInv
BY InitInv, InvStep, PTL DEF Spec

LEMMA InvOwns == UInv => SlabOwn
<1> SUFFICES ASSUME UInv PROVE SlabOwn
  OBVIOUS
<1>1. SlabOwn!1 /\ SlabOwn!2
  BY DEF UInv, Owned
<1>2. SlabOwn!3
  BY DEF UInv, AtRest
<1>3. SlabOwn!4
  BY DEF UInv, Operations
<1>4. ASSUME NEW a \in Actors, pc[a] = "pinned"
      PROVE  /\ ~Ended(reg[a]) /\ Rec(a).pin /\ Rec(a).phase = "COPY" /\ Rec(a).slab # NoSlab
             /\ Rec(a).kind = "recv" =>
                   sock.rx # <<>> /\ pool.payload[Rec(a).slab] = Head(sock.rx)
  <2>1. PICK s \in Slots : s = reg[a]
    BY <1>4, CallerAt
  <2>2. ~Ended(s) /\ v[s].pin /\ v[s].phase = "COPY"
    BY <1>4, <2>1 DEF UInv, Places, Pinned
  <2>3. Was(s) = "COPY"
    BY <2>2 DEF Was
  <2>4. v[s].slab # NoSlab /\ (v[s].kind = "recv" => HoldsHead(s))
    BY <2>2, <2>3 DEF UInv, Phased, ByPhase
  <2> QED BY <2>1, <2>2, <2>4 DEF Rec, HoldsHead
<1> QED BY <1>1, <1>2, <1>3, <1>4 DEF SlabOwn

(* SlabOwn for any number of callers, slots, slabs and calls: no slab has  *)
(* two owners or none while it is in use, nothing is kept by a request     *)
(* that has ended, and a pinned slab is not taken back or overwritten      *)
(* (slab_get, slab_put, cleanup and net_udp_pin of net_udp_owner.c).       *)
THEOREM SlabOwned == Spec => []SlabOwn
BY UdpInvariant, InvOwns, PTL

LEMMA InvOnce == UInv => ExactlyOnce
<1> SUFFICES ASSUME UInv PROVE ExactlyOnce
  OBVIOUS
<1>1. sock.rx = [i \in 1 .. Len(sock.rx) |-> arrivals - Len(sock.rx) + i]
  BY DEF UInv, Queue
<1>2. ASSUME NEW d \in 1 .. arrivals
      PROVE  Cardinality(Delivered(d)) + Cardinality(HandedOver(d))
                = IF d <= arrivals - Len(sock.rx) THEN 1 ELSE 0
  <2>1. Cardinality({}) = 0
    BY FS_EmptySet
  <2>2. \A x : Cardinality({x}) = 1
    BY FS_Singleton
  <2>3. IF d <= arrivals - Len(sock.rx)
        THEN \/ HandedOver(d) = {} /\ \E c \in DOMAIN ret : Delivered(d) = {c}
             \/ Delivered(d) = {} /\ \E a \in Actors : HandedOver(d) = {a}
        ELSE Delivered(d) = {} /\ HandedOver(d) = {}
    BY <1>2 DEF UInv, Once
  <2>4. PICK D, H : D = Delivered(d) /\ H = HandedOver(d)
    OBVIOUS
  <2>5. CASE d <= arrivals - Len(sock.rx)
    <3>1. \/ Cardinality(H) = 0 /\ Cardinality(D) = 1
          \/ Cardinality(D) = 0 /\ Cardinality(H) = 1
      BY ONLY <2>1, <2>2, <2>3, <2>4, <2>5
    <3> QED BY ONLY <2>4, <2>5, <3>1
  <2>6. CASE ~(d <= arrivals - Len(sock.rx))
    <3>1. Cardinality(D) = 0 /\ Cardinality(H) = 0
      BY ONLY <2>1, <2>3, <2>4, <2>6
    <3> QED BY ONLY <2>4, <2>6, <3>1
  <2> QED BY <2>5, <2>6
<1>3. ASSUME NEW a \in Actors, pc[a] \in {"terminal", "ack"}, Rec(a).kind = "recv", Completed(a)
      PROVE  slot[reg[a]].reply = "OK"
  BY <1>3 DEF UInv, Places, Rec, Completed
<1>4. ASSUME NEW c \in DOMAIN ret
      PROVE  /\ wire[c].sent <= 1
             /\ ret[c].status = "OK" /\ ret[c].data = 0 => wire[c].sent = 1
             /\ ret[c].status \in {"EINTR", "EAGAIN", "EFAULT"} => wire[c].sent = 0 \/ wire[c].down
  <2>1. c \in 1 .. MaxCalls
    BY UdpAssumption DEF UInv, UType
  <2> QED BY <2>1 DEF UInv, OnWire
<1> QED BY <1>1, <1>2, <1>3, <1>4 DEF ExactlyOnce

(* ExactlyOnce for any number of callers, slots, slabs, calls and          *)
(* arrivals: a datagram that leaves the queue reaches exactly one call     *)
(* (the commit of a receive in net_udp_step), and the status of a send     *)
(* tells whether its datagram is on the wire.                              *)
THEOREM DeliveredOnce == Spec => []ExactlyOnce
BY UdpInvariant, InvOnce, PTL
=============================================================================
