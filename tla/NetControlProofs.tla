-------------------------- MODULE NetControlProofs --------------------------
(***************************************************************************)
(* Proofs about the callers of the request transport and the network       *)
(* worker, for every number of slots, credits, actors and Wi-Fi records.   *)
(* Every step is a step of Handoff or leaves the transport alone, so the   *)
(* theorems of HandoffProofs hold here, and the proofs start from them.    *)
(***************************************************************************)
EXTENDS NetControl, HandoffProofs

-----------------------------------------------------------------------------
(* The inductive invariant                                                 *)

\* The request slot i names itself by.
TokenAt(i) == [slot |-> i, generation |-> slots[i].generation]

Labels == {"idle", "begin", "begin_call", "begin_wait", "begin_sleep", "fill", "fill_fw",
           "publish", "publish_call", "publish_wait", "publish_sleep", "wait", "sleep",
           "collect", "abandon"}
Before == {"begin", "begin_call", "begin_wait", "begin_sleep"}
Registering == Labels \ (Before \cup {"idle"})

Shapes ==
    /\ pc \in [Actors -> Labels] /\ call \in [Actors -> Kinds \cup {NoKind}] /\ moved \subseteq Actors
    /\ values \in [SlotIds -> [input : Token, output : Token, probe : Nat]]
    /\ records \in [Records -> [used : BOOLEAN, token : Token, output : Token, firmware : BOOLEAN]]
    /\ firmware_busy \in BOOLEAN
    /\ ping \in [used : BOOLEAN, generation : Nat, done : BOOLEAN]
    /\ turn \in [phase : {"ack", "wake", "maintenance", "claim", "pending"}, n : Nat]
    /\ outcome \in [ready : BOOLEAN, pending : BOOLEAN, status : {"OK", "EINTR", "EIO", "EAGAIN"}]
    /\ wakes \subseteq SlotIds
    /\ ack_cursor \in SlotIds /\ pending_cursor \in SlotIds /\ inspect_cursor \in SlotIds

\* Where a call is tells whether it is registered, and for which kind of
\* request.  Before the record is filled in the request has no ticket, so the
\* owner can only have answered it for a failure; an answer is looked for only
\* in a completed slot.
CallOf(a) ==
    LET s == slots[token(a).slot]
    IN  /\ pc[a] \in Registering <=> registration[a].active
        /\ pc[a] # "idle" => call[a] \in Kinds
        /\ pc[a] \in Registering => s.kind = call[a]
        /\ pc[a] \in {"fill", "fill_fw"} => s.ticket = 0
        /\ pc[a] = "fill" => RecordOf(token(a)) = {}
        /\ pc[a] = "fill_fw" => call[a] = "fw" /\ RecordOf(token(a)) # {}
        /\ pc[a] = "collect" => s.state = "COMPLETED"

\* The owner decides an outcome while it holds a claim.
Deciding == outcome.ready => owner.pc = "step"

\* The request in slot i is answered with success, or is about to be.
Said(i) ==
    IF slots[i].state = "COMPLETED" THEN slots[i].reply = "OK"
    ELSE owner.pc = "step" /\ owner.token.slot = i
           /\ outcome.ready /\ ~outcome.pending /\ outcome.status = "OK"
\* The record of slot i, of either kind, holds its answer.
Shown(i) ==
    IF wifi_kind(slots[i].kind) THEN \E r \in RecordOf(TokenAt(i)) : records[r].output = TokenAt(i)
    ELSE values[i].output = TokenAt(i)
\* The argument record of slot i is still that of an earlier request.
Unfilled(i) == ~wifi_kind(slots[i].kind) /\ pc[slots[i].actor] = "fill"

\* Until a slot that is complete loses its caller, its record holds the answer
\* exactly when its reply says so.
AnswerIn(i) ==
    Live(i) =>
        /\ slots[i].ticket = 0 =>
              slots[i].state = "PREPARED" \/ (slots[i].state = "COMPLETED" /\ slots[i].reply = "EINTR")
        /\ ~Unfilled(i) /\ ~wifi_kind(slots[i].kind) => values[i].input = TokenAt(i)
        /\ ~Unfilled(i) /\ (slots[i].state = "COMPLETED" => slots[i].caller) => (Said(i) <=> Shown(i))

\* A record in use holds its slot back, for which cleaned is not yet set;
\* it is set only when the caller has left.
HeldBack ==
    /\ \A r \in Records : /\ records[r].used => ~slots[records[r].token.slot].cleaned
                          /\ records[r].firmware => records[r].used
    /\ \A i \in SlotIds : Live(i) /\ wifi_kind(slots[i].kind) /\ slots[i].cleaned => ~slots[i].caller

\* One upload at a time.
OneUpload ==
    /\ firmware_busy <=> (\E r \in Records : records[r].firmware) \/ (\E a \in Actors : pc[a] = "fill_fw")
    /\ \A r, q \in Records : records[r].firmware /\ records[q].firmware => r = q
    /\ \A a, b \in Actors : pc[a] = "fill_fw" /\ pc[b] = "fill_fw" => a = b
    /\ \A r \in Records, a \in Actors : ~(records[r].firmware /\ pc[a] = "fill_fw")

\* A probe is forgotten before its request is answered, and has a generation.
ProbeEnds ==
    /\ ping.used => ping.generation # 0
    /\ outcome.ready /\ ~outcome.pending /\ slots[owner.token.slot].kind = "ping" =>
         values[owner.token.slot].probe = 0

\* Why a caller waits for admission, until the sequence moves.
Admission(a) ==
    a \notin moved =>
        /\ pc[a] \in {"begin_wait", "begin_sleep"} => BeginResult(a) \in {"WAIT", "EXHAUSTED"}
        /\ pc[a] \in {"publish_wait", "publish_sleep"} => online /\ Offered(token(a).slot)

NCParts ==
    /\ Shapes /\ (\A a \in Actors : CallOf(a)) /\ Deciding
    /\ (\A i \in SlotIds : AnswerIn(i)) /\ RecordFence /\ HeldBack /\ OneUpload
    /\ ProbeHeld /\ ProbeEnds /\ NoLostWakeup /\ (\A a \in Actors : Admission(a))

NCIInv == IInv /\ NCParts

-----------------------------------------------------------------------------
(* Every step is a step of the transport                                   *)

\* A cursor stays in the table.
LEMMA CursorInTable ==
    ASSUME NEW x \in Int
    PROVE  x % HANDOFF_SLOTS \in SlotIds
BY HandoffAssumption DEF SlotIds

\* A caller's step.
LEMMA CallerSimulates ==
    ASSUME NCIInv, NEW a \in Actors, Call(a) \/ CallerNext(a) \/ Interrupted(a)
    PROVE  [Next]_vars
<1>1. CallOf(a)
  BY DEF NCIInv, NCParts
<1>2. ASSUME handoff_release(a) PROVE Next
  BY <1>2 DEF Next, CallerStep
<1>3. CASE Call(a) \/ BeginLoop(a) \/ FillFirmware(a) \/ PublishLoop(a) \/ WaitLoop(a)
  BY <1>3 DEF Call, BeginLoop, FillFirmware, PublishLoop, WaitLoop, vars
<1>4. CASE \/ AdmissionWait(a, "begin_wait", "begin_sleep", "begin")
           \/ AdmissionWait(a, "publish_wait", "publish_sleep", "publish")
  BY <1>4 DEF AdmissionWait, vars
<1>5. CASE BeginCall(a)
  <2>1. pc[a] = "begin_call" /\ call[a] \in Kinds
    BY <1>1, <1>5 DEF BeginCall, CallOf
  <2>2. handoff_begin(a, call[a]) => Next
    BY <2>1 DEF Next, CallerStep
  <2> QED
    BY <1>5, <2>2 DEF BeginCall, vars
<1>6. CASE Fill(a)
  BY <1>2, <1>6 DEF Fill, Refuse, Abandon, vars
<1>7. CASE PublishCall(a)
  <2>1. registration[a].active
    BY <1>1, <1>7 DEF PublishCall, CallOf, Registering, Labels, Before
  <2>2. handoff_publish(token(a)) => Next
    BY <2>1 DEF Next, CallerStep, token
  <2> QED
    BY <1>7, <2>2 DEF PublishCall, vars
<1>8. CASE Collect(a) \/ Interrupted(a)
  BY <1>2, <1>8 DEF Collect, Interrupted, Abandon, vars
<1> QED
  BY <1>3, <1>4, <1>5, <1>6, <1>7, <1>8 DEF CallerNext

\* The worker's.
LEMMA OwnerSimulates ==
    ASSUME NCIInv, OwnerNext
    PROVE  [Next]_vars
<1>1. Shapes
  BY DEF NCIInv, NCParts
<1>2. CASE Acknowledge
  <2>1. ack_cursor \in SlotIds
    BY <1>1 DEF Shapes
  <2> QED
    BY <1>2, <2>1 DEF Acknowledge, Next, OwnerStep
<1>3. CASE Maintenance
  <2>1. ASSUME NEW x \in Int, handoff_inspect(x % HANDOFF_SLOTS) PROVE Next
    BY <2>1, CursorInTable DEF Next, OwnerStep
  <2>2. turn.n \in Nat /\ inspect_cursor \in Int /\ Batch \in Int
    BY <1>1, HandoffAssumption DEF Shapes, SlotIds
  <2> DEFINE base == IF turn.n = 0 THEN inspect_cursor + Batch ELSE inspect_cursor
  <2>3. base \in Int
    BY <2>2
  <2>4. \/ \E k \in 0 .. HANDOFF_SLOTS - turn.n - 1 : handoff_inspect((base + k) % HANDOFF_SLOTS)
        \/ UNCHANGED vars
    BY <1>3 DEF Maintenance
  <2> HIDE DEF base
  <2>5. ASSUME NEW k \in 0 .. HANDOFF_SLOTS - turn.n - 1,
               handoff_inspect((base + k) % HANDOFF_SLOTS)
        PROVE  Next
    <3>1. base + k \in Int
      BY <2>3
    <3> QED
      BY <2>1, <2>5, <3>1
  <2> QED
    BY <2>4, <2>5
<1>4. CASE WifiRelease \/ Step \/ AcknowledgeWake
  BY <1>4 DEF WifiRelease, Step, AcknowledgeWake, vars
<1>5. CASE WifiCleaned
  BY <1>5 DEF WifiCleaned, Next, OwnerStep
<1>6. CASE Claim
  BY <1>6 DEF Claim, Next, OwnerStep, vars
<1>7. CASE Pending
  BY <1>7 DEF Pending, Next, OwnerStep, vars
<1>8. CASE Finish
  <2>1. outcome.pending \in BOOLEAN /\ outcome.status \in Statuses
    BY <1>1, NetControlAssumption DEF Shapes
  <2> QED
    BY <1>8, <2>1 DEF Finish, Next, OwnerStep
<1> QED
  BY <1>2, <1>3, <1>4, <1>5, <1>6, <1>7, <1>8 DEF OwnerNext

\* Any step, and so the transport's invariant is kept.
LEMMA StepSimulates ==
    ASSUME NCIInv, [NCNext]_ncVars
    PROVE  [Next]_vars /\ IInv'
<1>1. [Next]_vars
  <2>1. CASE Start \/ Fail
    BY <2>1 DEF Start, Fail, Next
  <2>2. CASE UNCHANGED ncVars
    BY <2>2 DEF ncVars
  <2> QED
    BY <2>1, <2>2, CallerSimulates, OwnerSimulates DEF NCNext
<1> QED
  BY <1>1, StepInv DEF NCIInv

-----------------------------------------------------------------------------
(* What a step of the transport does to the requests in the table          *)

\* Slot i goes on with its request: once complete it keeps its reply, and the
\* transport completes it only with EINTR before it is claimed.
Advances(i) ==
    /\ slots'[i].generation = slots[i].generation
    /\ slots'[i].kind = slots[i].kind /\ slots'[i].actor = slots[i].actor
    /\ slots'[i].caller => slots[i].caller
    /\ slots'[i].cleaned => slots[i].cleaned \/ (~slots[i].caller /\ RecordOf(TokenAt(i)) = {})
    /\ Live(i)' <=> Live(i)
    /\ slots[i].state = "COMPLETED" => slots'[i].state = "COMPLETED" /\ slots'[i].reply = slots[i].reply
    /\ slots'[i].state = "COMPLETED" /\ slots[i].state # "COMPLETED" =>
         slots'[i].reply = "EINTR" /\ slots[i].state \in {"PREPARED", "QUEUED"}
    /\ slots[i].state \in {"CLAIMED", "PENDING"} => slots'[i].state \in {"CLAIMED", "PENDING"}
    /\ slots'[i].ticket = 0 => slots[i].ticket = 0
    /\ slots'[i].ticket = 0 /\ slots[i].state = "PREPARED" => slots'[i].state \in {"PREPARED", "COMPLETED"}
    /\ Live(i) => (Unfilled(i)' <=> Unfilled(i))

\* Slot i is recycled when neither a caller nor a reference is left.
Recycled(i) ==
    /\ Live(i) /\ slots[i].cleaned /\ ~slots[i].caller /\ slots[i].state \notin {"CLAIMED", "PENDING"}
    /\ ~Live(i)'

\* Slot i is taken for a new request.
Opened(i) ==
    /\ ~Live(i) /\ slots'[i].state = "PREPARED" /\ slots'[i].ticket = 0
    /\ wifi_kind(slots'[i].kind) => ~slots'[i].cleaned
    /\ ~wifi_kind(slots'[i].kind) => pc'[slots'[i].actor] = "fill"

TableStep == \A i \in SlotIds : Advances(i) \/ Recycled(i) \/ Opened(i)

\* A used record names the request its slot is in, and that slot advances.
LEMMA RecordSlot ==
    ASSUME NCIInv, NEW r \in Records, records[r].used
    PROVE  \E i \in SlotIds :
               /\ records[r].token.slot = i /\ records[r].token = TokenAt(i) /\ r \in RecordOf(TokenAt(i))
               /\ Live(i) /\ wifi_kind(slots[i].kind) /\ ~slots[i].cleaned
               /\ TableStep => Advances(i)
<1>1. records[r].token \in Token
  BY DEF NCIInv, NCParts, Shapes
<1>2. PICK i \in SlotIds : records[r].token = [slot |-> i, generation |-> records[r].token.generation]
  BY <1>1 DEF Token
<1>3. records[r].token.slot = i
  BY <1>2
<1>4. matches(records[r].token) /\ wifi_kind(slots[i].kind) /\ ~slots[i].cleaned
  BY <1>3 DEF NCIInv, NCParts, RecordFence, HeldBack
<1>5. Live(i) /\ records[r].token = TokenAt(i)
  BY <1>2, <1>3, <1>4 DEF matches, TokenAt
<1>6. r \in RecordOf(TokenAt(i))
  BY <1>5 DEF RecordOf
<1>7. TableStep => Advances(i)
  BY <1>4, <1>5 DEF TableStep, Recycled, Opened
<1> QED
  BY <1>3, <1>4, <1>5, <1>6, <1>7

\* The answers of the requests that go on are where they were.
LEMMA AnswersKept ==
    ASSUME NCIInv, UNCHANGED <<values, wifiVars, outcome>>, outcome.ready => UNCHANGED owner, TableStep
    PROVE  \A i \in SlotIds : AnswerIn(i)'
<1> SUFFICES ASSUME NEW i \in SlotIds, Live(i)' PROVE AnswerIn(i)'
  BY DEF AnswerIn
<1>1. AnswerIn(i) /\ HeldClaimed /\ (outcome.ready => owner.pc = "step")
  BY DEF NCIInv, NCParts, IInv, Deciding
<1>2. UNCHANGED records
  BY DEF wifiVars
<1>3. CASE Advances(i)
  <2>1. Live(i) /\ TokenAt(i)' = TokenAt(i) /\ (Unfilled(i)' <=> Unfilled(i))
    BY <1>3 DEF Advances, TokenAt
  <2>2. RecordOf(TokenAt(i))' = RecordOf(TokenAt(i))
    BY <1>2, <2>1 DEF RecordOf
  <2>3. Shown(i)' <=> Shown(i)
    BY <1>2, <1>3, <2>1, <2>2 DEF Shown, Advances
  <2>4. Said(i)' <=> Said(i)
    BY <1>1, <1>3 DEF Said, Advances, HeldClaimed
  <2>5. slots'[i].ticket = 0 =>
          slots'[i].state = "PREPARED" \/ (slots'[i].state = "COMPLETED" /\ slots'[i].reply = "EINTR")
    BY <1>1, <1>3, <2>1 DEF AnswerIn, Advances
  <2>6. wifi_kind(slots[i].kind)' <=> wifi_kind(slots[i].kind)
    BY <1>3 DEF Advances
  <2>7. (slots'[i].state = "COMPLETED" => slots'[i].caller) =>
           \/ slots[i].state = "COMPLETED" => slots[i].caller
           \/ slots'[i].state = "COMPLETED" /\ slots[i].state # "COMPLETED"
    BY <1>3 DEF Advances
  <2>8. ~Unfilled(i)' /\ ~wifi_kind(slots[i].kind)' => values'[i].input = TokenAt(i)'
    BY <1>1, <2>1, <2>6 DEF AnswerIn
  <2>9. ~Unfilled(i)' /\ (slots'[i].state = "COMPLETED" => slots'[i].caller) => (Said(i)' <=> Shown(i)')
    BY <1>1, <2>1, <2>3, <2>4, <2>7 DEF AnswerIn
  <2> QED
    BY <2>5, <2>8, <2>9 DEF AnswerIn
<1>4. CASE Opened(i)
  <2>1. ~Said(i)'
    BY <1>1, <1>4 DEF Said, Opened, HeldClaimed, Live
  <2>2. wifi_kind(slots'[i].kind) => ~Shown(i)'
    <3>1. SUFFICES ASSUME wifi_kind(slots'[i].kind), NEW r \in RecordOf(TokenAt(i))' PROVE FALSE
      BY DEF Shown, wifi_kind
    <3>2. r \in Records /\ records[r].used /\ records[r].token.slot = i
      BY <1>2 DEF RecordOf, TokenAt, Records
    <3> QED
      BY <1>4, <3>2, RecordSlot DEF Opened
  <2>3. ~wifi_kind(slots'[i].kind) => Unfilled(i)'
    BY <1>4 DEF Unfilled, Opened, wifi_kind
  <2> QED
    BY <1>4, <2>1, <2>2, <2>3 DEF AnswerIn, Opened, wifi_kind
<1> QED
  BY <1>3, <1>4 DEF TableStep, Recycled

\* The Wi-Fi records, the upload and the probe are where they were.
LEMMA HoldersKept ==
    ASSUME NCIInv, UNCHANGED <<values, wifiVars, outcome>>, outcome.ready => UNCHANGED owner, TableStep,
           ping'.generation = ping.generation, ping'.used => ping.used,
           \A a \in Actors : pc'[a] = "fill_fw" <=> pc[a] = "fill_fw"
    PROVE  RecordFence' /\ HeldBack' /\ OneUpload' /\ ProbeHeld' /\ ProbeEnds'
<1> USE DEF wifiVars
<1>1. RecordFence'
  <2> SUFFICES ASSUME NEW r \in Records, records[r].used
               PROVE  /\ matches(records[r].token)' /\ wifi_kind(slots[records[r].token.slot].kind)'
                      /\ \A q \in Records : records[q].used /\ q # r => records[q].token # records[r].token
    BY DEF RecordFence, Records
  <2>1. matches(records[r].token)' /\ wifi_kind(slots[records[r].token.slot].kind)'
    <3>1. PICK i \in SlotIds : /\ records[r].token.slot = i /\ Advances(i) /\ Live(i)
                               /\ wifi_kind(slots[i].kind)
      BY RecordSlot
    <3>2. matches(records[r].token)
      BY DEF NCIInv, NCParts, RecordFence
    <3> QED
      BY <3>1, <3>2 DEF Advances, matches, wifi_kind
  <2> QED
    BY <2>1 DEF NCIInv, NCParts, RecordFence
<1>2. HeldBack'
  <2>1. ASSUME NEW r \in Records, records[r].used PROVE ~slots'[records[r].token.slot].cleaned
    BY <2>1, RecordSlot DEF Advances
  <2>2. ASSUME NEW i \in SlotIds, Live(i)', wifi_kind(slots'[i].kind), slots'[i].cleaned
        PROVE  ~slots'[i].caller
    <3>1. Live(i) /\ wifi_kind(slots[i].kind) /\ slots[i].cleaned => ~slots[i].caller
      BY DEF NCIInv, NCParts, HeldBack
    <3> QED
      BY <2>2, <3>1 DEF TableStep, Advances, Recycled, Opened, wifi_kind
  <2>3. \A r \in Records : records[r].firmware => records[r].used
    BY DEF NCIInv, NCParts, HeldBack
  <2> QED
    BY <2>1, <2>2, <2>3 DEF HeldBack, Records, wifi_kind
<1>3. OneUpload'
  BY DEF NCIInv, NCParts, OneUpload, Records
<1>4. ProbeHeld'
  <2>1. SUFFICES ASSUME ping'.used PROVE ProbeHeld'
    BY DEF ProbeHeld
  <2>2. PICK i \in SlotIds : /\ slots[i].state \in {"CLAIMED", "PENDING"} /\ slots[i].kind = "ping"
                             /\ values[i].probe = ping.generation
    BY <2>1 DEF NCIInv, NCParts, ProbeHeld
  <2>3. Advances(i)
    BY <2>2 DEF TableStep, Recycled, Opened, Live
  <2> QED
    BY <2>2, <2>3 DEF ProbeHeld, Advances
<1>5. ProbeEnds'
  <2>1. ASSUME outcome.ready
        PROVE  owner' = owner /\ slots'[owner.token.slot].kind = slots[owner.token.slot].kind
    <3>1. owner' = owner /\ owner.pc = "step"
      BY <2>1 DEF NCIInv, NCParts, Deciding
    <3>2. PICK i \in SlotIds : owner.token.slot = i
      BY DEF NCIInv, IInv, TypeOK, Token
    <3>3. slots[i].state = "CLAIMED"
      BY <3>1, <3>2 DEF NCIInv, IInv, HeldClaimed
    <3>4. Advances(i)
      BY <3>3 DEF TableStep, Recycled, Opened, Live
    <3> QED
      BY <3>1, <3>2, <3>4 DEF Advances
  <2>2. ProbeEnds
    BY DEF NCIInv, NCParts
  <2>3. ping'.used => ping'.generation # 0
    BY <2>2 DEF ProbeEnds
  <2>4. ASSUME outcome'.ready, ~outcome'.pending, slots'[owner'.token.slot].kind = "ping"
        PROVE  values'[owner'.token.slot].probe = 0
    <3>1. outcome.ready /\ ~outcome.pending /\ owner' = owner
      BY <2>1, <2>4
    <3>2. slots[owner.token.slot].kind = "ping"
      BY <2>1, <2>4, <3>1
    <3> QED
      BY <2>2, <3>1, <3>2 DEF ProbeEnds
  <2> QED
    BY <2>3, <2>4 DEF ProbeEnds
<1> QED
  BY <1>1, <1>2, <1>3, <1>4, <1>5

-----------------------------------------------------------------------------
(* What a step of the transport does to the calls                          *)

\* Actor b is left where it is, or woken.
Woken(b) ==
    \/ pc'[b] = pc[b]
    \/ pc[b] = "sleep" /\ pc'[b] = "wait"
    \/ pc[b] = "begin_sleep" /\ pc'[b] = "begin_wait"
    \/ pc[b] = "publish_sleep" /\ pc'[b] = "publish_wait"

\* The slot of a registered call, and why it is not recycled.
LEMMA CallSlot ==
    ASSUME NCIInv, NEW b \in Actors, pc[b] \in Registering
    PROVE  \E i \in SlotIds :
               /\ token(b).slot = i /\ token(b) = TokenAt(i) /\ Live(i) /\ matches(token(b))
               /\ slots[i].caller /\ slots[i].actor = b /\ slots[i].kind = call[b]
               /\ TableStep => Advances(i)
<1>1. registration[b].active /\ token(b) \in Token
  BY DEF NCIInv, NCParts, CallOf, IInv, TypeOK, token
<1>2. PICK i \in SlotIds : token(b) = [slot |-> i, generation |-> token(b).generation]
  BY <1>1 DEF Token
<1>3. token(b).slot = i /\ slots[i].kind = call[b]
  BY <1>2 DEF NCIInv, NCParts, CallOf
<1>4. matches(token(b)) /\ slots[i].caller /\ slots[i].actor = b
  BY <1>1, <1>3 DEF NCIInv, IInv, RegistrationSafe, token
<1>5. Live(i) /\ token(b) = TokenAt(i)
  BY <1>2, <1>3, <1>4 DEF matches, TokenAt
<1>6. TableStep => Advances(i)
  BY <1>4, <1>5 DEF TableStep, Recycled, Opened
<1> QED
  BY <1>3, <1>4, <1>5, <1>6

\* The call of an actor that is left alone goes on.
LEMMA CallKept ==
    ASSUME NCIInv, TableStep, UNCHANGED records, NEW b \in Actors, Woken(b),
           call'[b] = call[b], registration'[b] = registration[b],
           pc[b] \in {"fill", "fill_fw"} => slots'[token(b).slot].ticket = slots[token(b).slot].ticket
    PROVE  CallOf(b)'
<1>1. CallOf(b) /\ token(b)' = token(b)
  BY DEF NCIInv, NCParts, token
<1>2. RecordOf(token(b))' = RecordOf(token(b))
  BY <1>1 DEF RecordOf
<1>3. CASE pc[b] \in Registering
  <2>1. PICK i \in SlotIds : token(b).slot = i /\ Advances(i)
    BY <1>3, CallSlot
  <2> QED
    BY <1>1, <1>2, <1>3, <2>1 DEF CallOf, Woken, Registering, Labels, Before, Advances
<1>4. CASE pc[b] \notin Registering
  BY <1>1, <1>4 DEF CallOf, Woken, Registering, Labels, Before
<1> QED
  BY <1>3, <1>4

\* Whoever sleeps on its slot and is not woken has its wake-up coming: the
\* slot was complete before, or the step adds it to those to be woken.
LEMMA SleepKept ==
    ASSUME NCIInv, TableStep, NEW b \in Actors, pc'[b] = "sleep" => pc[b] = "sleep",
           registration'[b] = registration[b], wakes \subseteq wakes',
           \A i \in SlotIds : slots'[i].state = "COMPLETED" /\ slots[i].state # "COMPLETED" => i \in wakes'
    PROVE  pc'[b] = "sleep" /\ handoff_ready(token(b))' => token(b)'.slot \in wakes'
<1> SUFFICES ASSUME pc'[b] = "sleep", handoff_ready(token(b))' PROVE token(b)'.slot \in wakes'
  OBVIOUS
<1>1. PICK i \in SlotIds : /\ token(b).slot = i /\ token(b) = TokenAt(i) /\ Live(i) /\ Advances(i)
                           /\ matches(token(b))
  BY CallSlot DEF Registering, Labels, Before
<1>2. token(b)' = token(b) /\ matches(token(b))'
  BY <1>1 DEF token, matches, Advances, TokenAt
<1>3. slots'[i].state = "COMPLETED"
  BY <1>1, <1>2 DEF handoff_ready
<1>4. CASE slots[i].state = "COMPLETED"
  <2>1. handoff_ready(token(b))
    BY <1>1, <1>4 DEF handoff_ready
  <2> QED
    BY <1>1, <1>2, <2>1 DEF NCIInv, NCParts, NoLostWakeup
<1> QED
  BY <1>1, <1>2, <1>3, <1>4

\* What an actor waits for in admission has not come, unless the sequence moves.
LEMMA AdmissionKept ==
    ASSUME NCIInv, IInv', NEW b \in Actors, Woken(b), registration'[b] = registration[b],
           next_ticket' >= next_ticket,
           b \notin moved' =>
               /\ b \notin moved /\ (online => online')
               /\ \A i \in SlotIds : /\ slots'[i].state = "FREE" => slots[i].state = "FREE"
                                     /\ Live(i) => Live(i)' /\ slots'[i].actor = slots[i].actor
                                     /\ Offered(i) /\ slots[i].actor = b => Offered(i)'
    PROVE  Admission(b)'
<1> SUFFICES ASSUME b \notin moved'
             PROVE  /\ pc'[b] \in {"begin_wait", "begin_sleep"} => BeginResult(b)' \in {"WAIT", "EXHAUSTED"}
                    /\ pc'[b] \in {"publish_wait", "publish_sleep"} => online' /\ Offered(token(b).slot)'
  BY DEF Admission
<1>1. Admission(b) /\ b \notin moved
  BY DEF NCIInv, NCParts
<1>2. ASSUME pc'[b] \in {"begin_wait", "begin_sleep"}
      PROVE  BeginResult(b)' \in {"WAIT", "EXHAUSTED"}
  <2>1. BeginResult(b) \in {"WAIT", "EXHAUSTED"}
    BY <1>1, <1>2 DEF Admission, Woken
  <2>2. ~registration[b].active /\ online
    BY <2>1 DEF BeginResult
  <2>3. CASE next_ticket' = MaxTicket
    BY <2>2, <2>3 DEF BeginResult
  <2>4. CASE next_ticket' # MaxTicket
    <3>1. next_ticket # MaxTicket
      BY <2>4, HandoffAssumption DEF NCIInv, IInv, TypeOK
    <3>2. ActorBusy(b) \/ \A i \in SlotIds : slots[i].state # "FREE"
      BY <2>1, <2>2, <3>1 DEF BeginResult
    <3>3. ActorBusy(b)' \/ \A i \in SlotIds : slots'[i].state # "FREE"
      BY <3>2 DEF ActorBusy, SlotIds
    <3> QED
      BY <2>2, <2>4, <3>3 DEF BeginResult, SlotIds
  <2> QED
    BY <2>3, <2>4
<1>3. ASSUME pc'[b] \in {"publish_wait", "publish_sleep"}
      PROVE  online' /\ Offered(token(b).slot)'
  <2>1. pc[b] \in {"publish_wait", "publish_sleep"}
    BY <1>3 DEF Woken
  <2>2. online /\ Offered(token(b).slot)
    BY <1>1, <2>1 DEF Admission
  <2>3. PICK i \in SlotIds : token(b).slot = i /\ slots[i].actor = b
    BY <2>1, CallSlot DEF Registering, Labels, Before
  <2>4. token(b)'.slot = i
    BY <2>3 DEF token
  <2> QED
    BY <2>2, <2>3, <2>4 DEF Offered
<1> QED
  BY <1>2, <1>3

-----------------------------------------------------------------------------
(* The steps of the worker and of the service that only move the transport *)

\* A slot that a step leaves alone advances.
LEMMA SlotStays ==
    ASSUME NCIInv, \A b \in Actors : Woken(b), NEW i \in SlotIds, slots'[i].kind = slots[i].kind,
           slots'[i].actor = slots[i].actor
    PROVE  /\ Live(i) => (Unfilled(i)' <=> Unfilled(i))
           /\ slots'[i] = slots[i] => Advances(i)
<1>1. Live(i) => (Unfilled(i)' <=> Unfilled(i))
  <2>1. Live(i) => slots[i].actor \in Actors
    BY DEF NCIInv, IInv, Registered, RegisteredAt
  <2> QED
    BY <2>1 DEF Unfilled, Woken, wifi_kind
<1> QED
  BY <1>1 DEF Advances, Live

\* Such a step keeps the invariant when it loses no wake-up, and moves the
\* admission sequence if it gives anybody in admission a reason to go on.
LEMMA TransportKeeps ==
    ASSUME NCIInv, IInv', TableStep, Shapes', NoLostWakeup',
           UNCHANGED <<values, wifiVars, outcome, call, registration>>,
           outcome.ready => UNCHANGED owner,
           ping'.generation = ping.generation, ping'.used => ping.used,
           \A b \in Actors : Woken(b),
           \A i \in SlotIds : Live(i) /\ Live(i)' => slots'[i].ticket = slots[i].ticket,
           next_ticket' = next_ticket, moved \subseteq moved',
           \/ moved' = Actors
           \/ /\ online => online'
              /\ \A i \in SlotIds : /\ slots'[i].state = "FREE" => slots[i].state = "FREE"
                                    /\ Live(i) => Live(i)' /\ slots'[i].actor = slots[i].actor
                                    /\ Offered(i) => Offered(i)'
    PROVE  NCParts'
<1>1. \A i \in SlotIds : AnswerIn(i)'
  BY AnswersKept
<1>2. \A a \in Actors : pc'[a] = "fill_fw" <=> pc[a] = "fill_fw"
  BY DEF Woken
<1>3. RecordFence' /\ HeldBack' /\ OneUpload' /\ ProbeHeld' /\ ProbeEnds'
  BY <1>2, HoldersKept
<1>4. ASSUME NEW b \in Actors PROVE CallOf(b)'
  <2>1. ASSUME pc[b] \in {"fill", "fill_fw"}
        PROVE  slots'[token(b).slot].ticket = slots[token(b).slot].ticket
    <3>1. PICK i \in SlotIds : token(b).slot = i /\ Live(i) /\ Advances(i)
      BY <2>1, CallSlot DEF Registering, Labels, Before
    <3> QED
      BY <3>1 DEF Advances
  <2>2. UNCHANGED records /\ call'[b] = call[b] /\ registration'[b] = registration[b] /\ Woken(b)
    BY DEF wifiVars
  <2> QED
    BY <2>1, <2>2, CallKept
<1>5. ASSUME NEW b \in Actors PROVE Admission(b)'
  <2>1. CASE moved' = Actors
    BY <2>1 DEF Admission
  <2>2. CASE moved' # Actors
    <3>1. registration'[b] = registration[b] /\ Woken(b) /\ next_ticket' >= next_ticket
      BY DEF NCIInv, IInv, TypeOK
    <3> QED
      BY <2>2, <3>1, AdmissionKept
  <2> QED
    BY <2>1, <2>2
<1>6. Deciding'
  BY DEF NCIInv, NCParts, Deciding
<1> QED
  BY <1>1, <1>3, <1>4, <1>5, <1>6 DEF NCParts

\* Steps that change nothing in the table.
LEMMA TableUnchanged ==
    ASSUME NCIInv, UNCHANGED slots, \A b \in Actors : Woken(b)
    PROVE  /\ TableStep
           /\ \A i \in SlotIds : /\ slots'[i].state = "FREE" => slots[i].state = "FREE"
                                 /\ Live(i) => Live(i)' /\ slots'[i].actor = slots[i].actor
                                 /\ Offered(i) => Offered(i)'
                                 /\ slots'[i].ticket = slots[i].ticket
<1>1. ASSUME NEW i \in SlotIds PROVE Advances(i)
  BY SlotStays
<1> QED
  BY <1>1 DEF TableStep, Live, Offered

\* When nobody is woken or put to sleep, no wake-up is lost: what completes is
\* to be woken, and the sequence moves only under the lock.
LEMMA SleepersLeft ==
    ASSUME NCIInv, TableStep, UNCHANGED <<pc, registration>>, wakes \subseteq wakes',
           \A i \in SlotIds : slots'[i].state = "COMPLETED" /\ slots[i].state # "COMPLETED" => i \in wakes',
           ~Waking' => ~Waking /\ moved' = moved
    PROVE  NoLostWakeup'
<1> SUFFICES ASSUME NEW b \in Actors
             PROVE  /\ pc'[b] = "sleep" /\ handoff_ready(token(b))' => token(b)'.slot \in wakes'
                    /\ pc'[b] \in {"begin_sleep", "publish_sleep"} /\ b \in moved' => Waking'
  BY DEF NoLostWakeup
<1>1. pc'[b] = "sleep" /\ handoff_ready(token(b))' => token(b)'.slot \in wakes'
  BY SleepKept
<1>2. pc'[b] \in {"begin_sleep", "publish_sleep"} /\ b \in moved' => Waking'
  BY DEF NCIInv, NCParts, NoLostWakeup
<1> QED
  BY <1>1, <1>2

\* net_control_start.
LEMMA StartKeeps ==
    ASSUME NCIInv, IInv', Start
    PROVE  NCParts'
<1> USE DEF Start, handoff_start, callerVars, dataVars, wifiVars, ownerVars, cursors
<1>1. \A b \in Actors : Woken(b)
  BY DEF Woken
<1>2. Shapes'
  BY DEF NCIInv, NCParts, Shapes
<1>3. TableStep
  BY <1>1, TableUnchanged
<1>4. NoLostWakeup'
  BY <1>3, SleepersLeft DEF Unlocked, Waking
<1>5. online'
  OBVIOUS
<1> HIDE DEF Start, handoff_start
<1>6. UNCHANGED <<values, wifiVars, outcome, call, registration, owner, ping, moved, next_ticket, slots>>
  BY DEF Start, handoff_start
<1> QED
  BY <1>1, <1>2, <1>3, <1>4, <1>5, <1>6, TableUnchanged, TransportKeeps

\* A turn of the worker's loops that finds nothing, and a stuttering step.
LEMMA LoopEndKeeps ==
    ASSUME NCIInv, IInv', Shapes', UNCHANGED <<vars, callerVars, moved, dataVars, outcome, wakes>>,
           turn.phase # "wake" \/ turn' = turn
    PROVE  NCParts'
<1> USE DEF vars, callerVars, dataVars, wifiVars
<1>1. \A b \in Actors : Woken(b)
  BY DEF Woken
<1>2. TableStep
  BY <1>1, TableUnchanged
<1>3. NoLostWakeup'
  BY <1>2, SleepersLeft DEF Unlocked, Waking
<1> QED
  BY <1>1, <1>2, <1>3, TableUnchanged, TransportKeeps

\* Who is woken, and that nobody else moves.
LEMMA WakesWoken ==
    ASSUME Shapes, NEW S, NEW m
    PROVE  /\ pc' = WakeAdmission(pc, m) \/ pc' = WakeSlots(pc, S) \/ pc' = WakeAdmission(WakeSlots(pc, S), m) =>
                pc' \in [Actors -> Labels] /\ \A b \in Actors : Woken(b)
           /\ pc' = WakeAdmission(pc, m) \/ pc' = WakeAdmission(WakeSlots(pc, S), m) =>
                \A b \in Actors : pc'[b] \in {"begin_sleep", "publish_sleep"} => b \notin m
           /\ pc' = WakeSlots(pc, S) \/ pc' = WakeAdmission(WakeSlots(pc, S), m) =>
                \A b \in Actors : pc'[b] = "sleep" => token(b).slot \notin S
<1>1. pc \in [Actors -> Labels]
  BY DEF Shapes
<1>2. CASE pc' = WakeAdmission(pc, m)
  <2>1. pc' \in [Actors -> Labels] /\ \A b \in Actors : Woken(b)
    BY <1>1, <1>2 DEF WakeAdmission, Labels, Woken
  <2> QED
    BY <1>1, <1>2, <2>1 DEF WakeAdmission, WakeSlots, Labels
<1>3. CASE pc' = WakeSlots(pc, S)
  <2>1. pc' \in [Actors -> Labels] /\ \A b \in Actors : Woken(b)
    BY <1>1, <1>3 DEF WakeSlots, Labels, Woken
  <2> QED
    BY <1>1, <1>3, <2>1 DEF WakeAdmission, WakeSlots, Labels
<1>4. CASE pc' = WakeAdmission(WakeSlots(pc, S), m)
  <2>1. pc' \in [Actors -> Labels] /\ \A b \in Actors : Woken(b)
    BY <1>1, <1>4 DEF WakeAdmission, WakeSlots, Labels, Woken
  <2> QED
    BY <1>1, <1>4, <2>1 DEF WakeAdmission, WakeSlots, Labels
<1> QED
  BY <1>2, <1>3, <1>4

\* The ping engine may resolve its probe, and nothing else.
LEMMA PingTicks ==
    ASSUME Shapes, PingTick
    PROVE  /\ ping' \in [used : BOOLEAN, generation : Nat, done : BOOLEAN]
           /\ ping'.generation = ping.generation /\ (ping'.used => ping.used)
BY DEF Shapes, PingTick

\* The owner enters handoff_acknowledge.
LEMMA AckEnterKeeps ==
    ASSUME NCIInv, IInv', Acknowledge, AckEnter, PingTick, UNCHANGED <<pc, moved, wakes, ack_cursor, turn>>
    PROVE  NCParts'
<1> USE DEF Acknowledge, AckEnter, wifiVars
<1>0. Shapes
  BY DEF NCIInv, NCParts
<1>1. \A b \in Actors : Woken(b)
  BY DEF Woken
<1>2. Shapes'
  BY <1>0, PingTicks DEF Shapes
<1>3. TableStep
  BY <1>1, TableUnchanged
<1>4. NoLostWakeup'
  BY <1>3, SleepersLeft DEF Unlocked, Waking
<1>5. ~outcome.ready
  BY DEF NCIInv, NCParts, Deciding
<1> HIDE DEF Acknowledge, AckEnter
<1>6. UNCHANGED <<values, wifiVars, outcome, call, registration, online, moved, next_ticket, slots>>
  BY DEF Acknowledge, AckEnter
<1> QED
  BY <1>0, <1>1, <1>2, <1>3, <1>4, <1>5, <1>6, PingTicks, TableUnchanged, TransportKeeps

\* An iteration on slot i: if it frees anything, the sequence moves, and if it
\* completes the slot, its caller will be woken.
LEMMA AckScanKeeps ==
    ASSUME NCIInv, IInv', Acknowledge, AckScan(ack_cursor),
           ack_cursor' = (ack_cursor + 1) % HANDOFF_SLOTS,
           moved' = (IF AckBumps(ack_cursor) THEN Actors ELSE moved),
           wakes' = wakes \cup AckWakes(ack_cursor), UNCHANGED <<pc, turn>>
    PROVE  NCParts'
<1>0. Shapes /\ TypeOK
  BY DEF NCIInv, NCParts, IInv
<1>1. PICK k \in SlotIds : k = ack_cursor
  BY <1>0 DEF Shapes
<1>2. \A b \in Actors : Woken(b)
  BY DEF Woken
<1>3. /\ UNCHANGED <<values, wifiVars, outcome, call, registration, ping, next_ticket, online,
                     pending_cursor, inspect_cursor>>
      /\ owner.pc = "scan" /\ owner'.pc \in {"scan", "grant"}
  BY <1>0 DEF Acknowledge, AckScan, TypeOK
<1>4. /\ slots' = [slots EXCEPT ![k] = Acknowledged(k)] /\ DOMAIN slots = SlotIds
      /\ slots[k] \in Slot
  BY <1>0, <1>1 DEF AckScan, TypeOK
<1>5. Shapes'
  <2>1. ack_cursor' \in SlotIds
    BY <1>0, CursorInTable DEF Shapes, SlotIds
  <2>2. wakes' \subseteq SlotIds /\ moved' \subseteq Actors
    BY <1>0, <1>1 DEF Shapes, AckWakes
  <2> QED
    BY <1>0, <1>3, <2>1, <2>2 DEF Shapes, wifiVars
<1>6. CASE Reclaimable(k)
  <2>1. moved' = Actors /\ wakes \subseteq wakes'
    BY <1>1, <1>6 DEF AckBumps
  <2>2. slots'[k].state \in {"FREE", "RETIRED"}
    BY <1>0, <1>4, <1>6, AcknowledgedSlot
  <2>3. Recycled(k)
    BY <1>6, <2>2 DEF Recycled, Reclaimable, CancelUnclaimed, Live
  <2>4. ASSUME NEW i \in SlotIds, i # k PROVE Advances(i) /\ slots'[i] = slots[i]
    BY <1>2, <1>4, <2>4, SlotStays
  <2>5. TableStep
    BY <2>3, <2>4 DEF TableStep
  <2>6. NoLostWakeup'
    BY <1>3, <2>1, <2>2, <2>4, <2>5, SleepersLeft DEF Unlocked, Waking
  <2>7. \A i \in SlotIds : Live(i) /\ Live(i)' => slots'[i].ticket = slots[i].ticket
    BY <2>2, <2>4 DEF Live
  <2>8. ~outcome.ready
    BY <1>3 DEF NCIInv, NCParts, Deciding
  <2>9. moved \subseteq moved'
    BY <1>0, <2>1 DEF Shapes
  <2> QED
    BY <1>2, <1>3, <1>5, <2>1, <2>5, <2>6, <2>7, <2>8, <2>9, TransportKeeps
<1>7. CASE ~Reclaimable(k)
  <2>1. \/ slots'[k] = slots[k]
        \/ CancelUnclaimed(k) /\ slots'[k] = [slots[k] EXCEPT !.reply = "EINTR", !.state = "COMPLETED"]
    BY <1>0, <1>4, <1>7, AcknowledgedSlot
  <2>s. slots[k] \in Slot
    BY <1>4
  <2>2. /\ slots'[k].kind = slots[k].kind /\ slots'[k].actor = slots[k].actor
        /\ slots'[k].ticket = slots[k].ticket
    BY <2>s, <2>1 DEF Slot
  <2>c. ASSUME CancelUnclaimed(k) /\ slots'[k] = [slots[k] EXCEPT !.reply = "EINTR", !.state = "COMPLETED"]
        PROVE  /\ slots'[k].state = "COMPLETED" /\ slots'[k].reply = "EINTR"
               /\ slots[k].state \in {"PREPARED", "QUEUED"} /\ slots[k].cancel
               /\ slots'[k].generation = slots[k].generation
               /\ slots'[k].caller = slots[k].caller /\ slots'[k].cleaned = slots[k].cleaned
    BY <2>s, <2>c DEF Slot, CancelUnclaimed
  <2>3. Advances(k)
    <3>1. CASE slots'[k] = slots[k]
      BY <1>2, <3>1, SlotStays
    <3>2. CASE CancelUnclaimed(k) /\ slots'[k] = [slots[k] EXCEPT !.reply = "EINTR", !.state = "COMPLETED"]
      <4>1. Live(k) => (Unfilled(k)' <=> Unfilled(k))
        BY <1>2, <2>2, SlotStays
      <4> QED
        BY <2>2, <2>c, <3>2, <4>1 DEF Advances, Live
    <3> QED
      BY <2>1, <3>1, <3>2
  <2>4. ASSUME NEW i \in SlotIds, i # k PROVE Advances(i) /\ slots'[i] = slots[i]
    BY <1>2, <1>4, <2>4, SlotStays
  <2>5. TableStep
    BY <2>3, <2>4 DEF TableStep
  <2>6. wakes \subseteq wakes' /\ (slots'[k].state = "COMPLETED" /\ slots[k].state # "COMPLETED" => k \in wakes')
    BY <1>1, <2>1 DEF AckWakes
  <2>7. NoLostWakeup'
    BY <1>3, <2>4, <2>5, <2>6, SleepersLeft DEF Unlocked, Waking
  <2>8. \A i \in SlotIds : slots'[i].ticket = slots[i].ticket
    BY <2>2, <2>4
  <2>9. ~outcome.ready /\ moved \subseteq moved'
    BY <1>0, <1>3 DEF NCIInv, NCParts, Deciding, Shapes
  <2>10. \A i \in SlotIds : /\ slots'[i].state = "FREE" => slots[i].state = "FREE"
                            /\ Live(i) => Live(i)' /\ slots'[i].actor = slots[i].actor
                            /\ Offered(i) => Offered(i)'
    <3>1. CASE slots'[k] = slots[k]
      BY <2>4, <3>1 DEF Live, Offered
    <3>2. CASE CancelUnclaimed(k) /\ slots'[k] = [slots[k] EXCEPT !.reply = "EINTR", !.state = "COMPLETED"]
      BY <2>2, <2>c, <2>4, <3>2 DEF Live, Offered
    <3> QED
      BY <2>1, <3>1, <3>2
  <2> QED
    BY <1>2, <1>3, <1>5, <2>5, <2>7, <2>8, <2>9, <2>10, TransportKeeps
<1> QED
  BY <1>6, <1>7

\* A grant moves the sequence.
LEMMA AckGrantKeeps ==
    ASSUME NCIInv, IInv', Acknowledge, AckGrant, moved' = Actors, UNCHANGED <<pc, wakes, ack_cursor, turn>>
    PROVE  NCParts'
<1>0. Shapes /\ TypeOK
  BY DEF NCIInv, NCParts, IInv
<1>1. PICK k \in SlotIds : CanGrant(k) /\ slots' = [slots EXCEPT ![k].state = "QUEUED"]
  BY DEF AckGrant
<1>2. \A b \in Actors : Woken(b)
  BY DEF Woken
<1>3. /\ UNCHANGED <<values, wifiVars, outcome, call, registration, ping, next_ticket,
                     pending_cursor, inspect_cursor>>
      /\ owner.pc = "grant" /\ owner'.pc = "grant"
  BY <1>0 DEF Acknowledge, AckGrant, TypeOK
<1>4. Shapes'
  BY <1>0, <1>3 DEF Shapes, wifiVars
<1>5. slots[k] \in Slot /\ slots[k].state = "PREPARED" /\ slots[k].ticket # 0
  BY <1>0, <1>1 DEF TypeOK, CanGrant, Offered
<1>6. slots'[k] = [slots[k] EXCEPT !.state = "QUEUED"]
  BY <1>0, <1>1 DEF TypeOK
<1>7. Advances(k)
  <2>1. slots'[k].kind = slots[k].kind /\ slots'[k].actor = slots[k].actor
    BY <1>5, <1>6 DEF Slot
  <2>2. Live(k) => (Unfilled(k)' <=> Unfilled(k))
    BY <1>2, <2>1, SlotStays
  <2> QED
    BY <1>5, <1>6, <2>2 DEF Advances, Slot, Live
<1>8. ASSUME NEW i \in SlotIds, i # k PROVE Advances(i) /\ slots'[i] = slots[i]
  <2>1. slots'[i] = slots[i]
    BY <1>0, <1>1, <1>8 DEF TypeOK
  <2> QED
    BY <1>2, <2>1, SlotStays
<1>9. TableStep
  BY <1>7, <1>8 DEF TableStep
<1>10. NoLostWakeup'
  BY <1>3, <1>5, <1>6, <1>8, <1>9, SleepersLeft DEF Unlocked, Waking, Slot
<1>11. \A i \in SlotIds : slots'[i].ticket = slots[i].ticket
  BY <1>5, <1>6, <1>8 DEF Slot
<1>12. ~outcome.ready /\ moved \subseteq moved'
  BY <1>0, <1>3 DEF NCIInv, NCParts, Deciding, Shapes
<1> QED
  BY <1>2, <1>3, <1>4, <1>9, <1>10, <1>11, <1>12, TransportKeeps

\* The owner leaves the lock, with everybody it has made go on still to be woken.
LEMMA AckLeaveKeeps ==
    ASSUME NCIInv, IInv', Acknowledge, AckLeave, Phase("wake"), UNCHANGED <<pc, moved, wakes, ack_cursor>>
    PROVE  NCParts'
<1>0. Shapes
  BY DEF NCIInv, NCParts
<1>1. \A b \in Actors : Woken(b)
  BY DEF Woken
<1>2. /\ UNCHANGED <<values, wifiVars, outcome, call, registration, ping, next_ticket, online, slots,
                     pending_cursor, inspect_cursor>>
      /\ owner.pc = "grant"
  BY DEF Acknowledge, AckLeave
<1>3. Shapes'
  BY <1>0, <1>2 DEF Shapes, wifiVars, Phase
<1>4. TableStep
  BY <1>1, <1>2, TableUnchanged
<1>5. Waking'
  BY DEF Waking, Phase
<1>6. NoLostWakeup'
  BY <1>2, <1>4, <1>5, SleepersLeft
<1>7. ~outcome.ready
  BY <1>2 DEF NCIInv, NCParts, Deciding
<1> QED
  BY <1>1, <1>2, <1>3, <1>4, <1>6, <1>7, TableUnchanged, TransportKeeps

\* After the unlock it wakes them, whoever has come and gone in between.
LEMMA AcknowledgeWakeKeeps ==
    ASSUME NCIInv, IInv', AcknowledgeWake
    PROVE  NCParts'
<1>0. Shapes /\ TypeOK
  BY DEF NCIInv, NCParts, IInv
<1>1. /\ pc' = WakeAdmission(WakeSlots(pc, wakes), moved) /\ wakes' = {} /\ Phase("maintenance")
      /\ UNCHANGED <<vars, call, moved, dataVars, outcome, cursors>>
  BY DEF AcknowledgeWake
<1>2. /\ pc' \in [Actors -> Labels] /\ \A b \in Actors : Woken(b)
      /\ \A b \in Actors : pc'[b] \in {"begin_sleep", "publish_sleep"} => b \notin moved
      /\ \A b \in Actors : pc'[b] = "sleep" => token(b).slot \notin wakes
  BY <1>0, <1>1, WakesWoken
<1>3. UNCHANGED <<values, wifiVars, outcome, call, registration, owner, ping, next_ticket, online, slots>>
  BY <1>1 DEF vars, dataVars
<1>4. Shapes'
  BY <1>0, <1>1, <1>2 DEF Shapes, wifiVars, dataVars, cursors, Phase
<1>5. TableStep
  BY <1>2, <1>3, TableUnchanged
<1>6. NoLostWakeup'
  <2> SUFFICES ASSUME NEW b \in Actors
               PROVE  /\ pc'[b] = "sleep" => ~handoff_ready(token(b))'
                      /\ pc'[b] \in {"begin_sleep", "publish_sleep"} => b \notin moved'
    BY DEF NoLostWakeup
  <2>1. pc'[b] = "sleep" => ~handoff_ready(token(b))
    BY <1>2 DEF NCIInv, NCParts, NoLostWakeup, Woken
  <2>2. handoff_ready(token(b))' <=> handoff_ready(token(b))
    BY <1>3 DEF handoff_ready, matches, Live, token
  <2> QED
    BY <1>1, <1>2, <2>1, <2>2
<1> QED
  BY <1>1, <1>2, <1>3, <1>4, <1>5, <1>6, TableUnchanged, TransportKeeps

\* handoff_acknowledge keeps the invariant.
LEMMA AcknowledgeKeeps ==
    ASSUME NCIInv, IInv', Acknowledge
    PROVE  NCParts'
<1>1. CASE AckEnter /\ PingTick /\ UNCHANGED <<pc, moved, wakes, ack_cursor, turn>>
  BY <1>1, AckEnterKeeps
<1>2. CASE /\ AckScan(ack_cursor) /\ ack_cursor' = (ack_cursor + 1) % HANDOFF_SLOTS
           /\ moved' = (IF AckBumps(ack_cursor) THEN Actors ELSE moved)
           /\ wakes' = wakes \cup AckWakes(ack_cursor) /\ UNCHANGED <<pc, turn>>
  BY <1>2, AckScanKeeps
<1>3. CASE AckGrant /\ moved' = Actors /\ UNCHANGED <<pc, wakes, ack_cursor, turn>>
  BY <1>3, AckGrantKeeps
<1>4. CASE AckLeave /\ Phase("wake") /\ UNCHANGED <<pc, moved, wakes, ack_cursor>>
  BY <1>4, AckLeaveKeeps
<1> QED
  BY <1>1, <1>2, <1>3, <1>4 DEF Acknowledge

\* The owner takes up a slot for its references, or finds none.
LEMMA MaintenanceKeeps ==
    ASSUME NCIInv, IInv', Maintenance
    PROVE  NCParts'
<1>0. Shapes /\ TypeOK
  BY DEF NCIInv, NCParts, IInv
<1> DEFINE base == IF turn.n = 0 THEN inspect_cursor + Batch ELSE inspect_cursor
<1>1. /\ UNCHANGED <<callerVars, moved, dataVars, outcome, wakes, ack_cursor, pending_cursor>>
      /\ owner.pc = "idle" /\ turn.phase # "wake"
  BY DEF Maintenance
<1>2. \/ \E k \in 0 .. HANDOFF_SLOTS - turn.n - 1 :
            /\ handoff_inspect((base + k) % HANDOFF_SLOTS)
            /\ inspect_cursor' = (base + (k + 1)) % HANDOFF_SLOTS
            /\ turn' = [turn EXCEPT !.n = @ + k + 1]
      \/ /\ inspect_cursor' = (base + (HANDOFF_SLOTS - turn.n)) % HANDOFF_SLOTS
         /\ Phase("claim") /\ UNCHANGED vars
  BY DEF Maintenance
<1>3. base \in Int /\ turn.n \in Nat /\ HANDOFF_SLOTS \in Int
  BY <1>0, HandoffAssumption DEF Shapes, SlotIds
<1>4. ~outcome.ready
  BY <1>1 DEF NCIInv, NCParts, Deciding
<1> HIDE DEF base
<1>5. CASE /\ inspect_cursor' = (base + (HANDOFF_SLOTS - turn.n)) % HANDOFF_SLOTS
           /\ Phase("claim") /\ UNCHANGED vars
  <2>1. base + (HANDOFF_SLOTS - turn.n) \in Int
    BY <1>3
  <2>2. inspect_cursor' \in SlotIds
    BY <1>5, <2>1, CursorInTable
  <2>3. Shapes'
    BY <1>0, <1>1, <1>5, <2>2 DEF Shapes, Phase, callerVars, dataVars, wifiVars
  <2> QED
    BY <1>1, <1>5, <2>3, LoopEndKeeps
<1>6. ASSUME NEW k \in 0 .. HANDOFF_SLOTS - turn.n - 1, handoff_inspect((base + k) % HANDOFF_SLOTS),
             inspect_cursor' = (base + (k + 1)) % HANDOFF_SLOTS, turn' = [turn EXCEPT !.n = @ + k + 1]
      PROVE  NCParts'
  <2>1. base + (k + 1) \in Int /\ turn.n + k + 1 \in Nat
    BY <1>3
  <2>2. inspect_cursor' \in SlotIds
    BY <1>6, <2>1, CursorInTable
  <2>3. turn' \in [phase : {"ack", "wake", "maintenance", "claim", "pending"}, n : Nat]
    BY <1>0, <1>6, <2>1 DEF Shapes
  <2>4. Shapes'
    BY <1>0, <1>1, <2>2, <2>3 DEF Shapes, callerVars, dataVars, wifiVars
  <2>5. \A b \in Actors : Woken(b)
    BY <1>1 DEF Woken, callerVars
  <2>6. UNCHANGED <<slots, registration, online, next_ticket>> /\ owner'.pc = "clean"
    BY <1>6 DEF handoff_inspect, Hold
  <2>7. TableStep
    BY <2>5, <2>6, TableUnchanged
  <2>8. NoLostWakeup'
    BY <1>1, <2>6, <2>7, SleepersLeft DEF Unlocked, Waking, callerVars
  <2>9. UNCHANGED <<values, wifiVars, outcome, call, ping, moved>>
    BY <1>1 DEF callerVars, dataVars
  <2> QED
    BY <1>4, <2>4, <2>5, <2>6, <2>7, <2>8, <2>9, TableUnchanged, TransportKeeps
<1> QED
  BY <1>2, <1>5, <1>6

\* The slot is declared clean when it has no record left.
LEMMA WifiCleanedKeeps ==
    ASSUME NCIInv, IInv', WifiCleaned
    PROVE  NCParts'
<1>0. Shapes /\ TypeOK /\ HeldClaimed
  BY DEF NCIInv, NCParts, IInv
<1>1. /\ UNCHANGED <<values, wifiVars, outcome, call, pc, ping, moved, wakes, turn, cursors>>
      /\ UNCHANGED <<registration, online, next_ticket>>
      /\ owner.pc = "clean" /\ RecordOf(owner.token) = {} /\ owner'.pc = "idle"
  BY DEF WifiCleaned, handoff_cleaned, Rest, callerVars, dataVars, ownerVars
<1>2. PICK k \in SlotIds : owner.token.slot = k /\ owner.token = [slot |-> k, generation |-> owner.token.generation]
  BY <1>0 DEF TypeOK, Token
<1>3. matches(owner.token) /\ slots[k].state = "COMPLETED" /\ ~slots[k].caller
  BY <1>0, <1>1, <1>2 DEF HeldClaimed, Disposable
<1>4. owner.token = TokenAt(k)
  BY <1>2, <1>3 DEF matches, TokenAt
<1>5. slots' = [slots EXCEPT ![k].cleaned = TRUE]
  BY <1>2, <1>3 DEF WifiCleaned, handoff_cleaned
<1>6. slots[k] \in Slot /\ slots'[k] = [slots[k] EXCEPT !.cleaned = TRUE]
  BY <1>0, <1>5 DEF TypeOK
<1>7. /\ slots'[k].generation = slots[k].generation /\ slots'[k].kind = slots[k].kind
      /\ slots'[k].actor = slots[k].actor /\ slots'[k].caller = slots[k].caller
      /\ slots'[k].state = slots[k].state /\ slots'[k].reply = slots[k].reply
      /\ slots'[k].ticket = slots[k].ticket
  BY <1>6 DEF Slot
<1>8. \A b \in Actors : Woken(b)
  BY <1>1 DEF Woken
<1>9. Advances(k)
  <2>1. Live(k) => (Unfilled(k)' <=> Unfilled(k))
    BY <1>7, <1>8, SlotStays
  <2> QED
    BY <1>1, <1>3, <1>4, <1>7, <2>1 DEF Advances, Live
<1>10. ASSUME NEW i \in SlotIds, i # k PROVE Advances(i) /\ slots'[i] = slots[i]
  <2>1. slots'[i] = slots[i]
    BY <1>0, <1>5, <1>10 DEF TypeOK
  <2> QED
    BY <1>8, <2>1, SlotStays
<1>11. TableStep
  BY <1>9, <1>10 DEF TableStep
<1>12. NoLostWakeup'
  BY <1>1, <1>7, <1>10, <1>11, SleepersLeft DEF Unlocked, Waking
<1>13. Shapes'
  BY <1>0, <1>1 DEF Shapes, wifiVars, cursors
<1>14. \A i \in SlotIds : /\ slots'[i].state = "FREE" => slots[i].state = "FREE"
                          /\ Live(i) => Live(i)' /\ slots'[i].actor = slots[i].actor
                          /\ Offered(i) => Offered(i)'
                          /\ slots'[i].ticket = slots[i].ticket
  <2>1. slots'[k].cancel = slots[k].cancel
    BY <1>6 DEF Slot
  <2> QED
    BY <1>7, <1>10, <2>1 DEF Live, Offered
<1>15. ~outcome.ready
  BY <1>1 DEF NCIInv, NCParts, Deciding
<1> QED
  BY <1>1, <1>8, <1>11, <1>12, <1>13, <1>14, <1>15, TransportKeeps

\* A slot that is claimed, or taken up again.
LEMMA ClaimedSlot ==
    ASSUME NCIInv, NEW k \in SlotIds, slots[k].state \in {"QUEUED", "PENDING"},
           slots' = [slots EXCEPT ![k].state = "CLAIMED"], \A b \in Actors : Woken(b)
    PROVE  /\ TableStep
           /\ \A i \in SlotIds : /\ slots'[i].state = "COMPLETED" => slots[i].state = "COMPLETED"
                                 /\ slots'[i].state = "FREE" => slots[i].state = "FREE"
                                 /\ Live(i) => Live(i)' /\ slots'[i].actor = slots[i].actor
                                 /\ Offered(i) => Offered(i)'
                                 /\ slots'[i].ticket = slots[i].ticket
<1>0. TypeOK /\ AnswerIn(k)
  BY DEF NCIInv, NCParts, IInv
<1>1. slots[k] \in Slot /\ slots'[k] = [slots[k] EXCEPT !.state = "CLAIMED"]
  BY <1>0 DEF TypeOK
<1>2. /\ slots'[k].generation = slots[k].generation /\ slots'[k].kind = slots[k].kind
      /\ slots'[k].actor = slots[k].actor /\ slots'[k].caller = slots[k].caller
      /\ slots'[k].cleaned = slots[k].cleaned
      /\ slots'[k].state = "CLAIMED" /\ slots'[k].ticket = slots[k].ticket
  BY <1>1 DEF Slot
<1>3. Live(k) => (Unfilled(k)' <=> Unfilled(k))
  BY <1>2, SlotStays
<1>4. Advances(k)
  BY <1>2, <1>3 DEF Advances, Live
<1>5. ASSUME NEW i \in SlotIds, i # k PROVE Advances(i) /\ slots'[i] = slots[i]
  <2>1. slots'[i] = slots[i]
    BY <1>0, <1>5 DEF TypeOK
  <2> QED
    BY <2>1, SlotStays
<1>6. TableStep
  BY <1>4, <1>5 DEF TableStep
<1> QED
  BY <1>2, <1>5, <1>6 DEF Live, Offered

\* The first loop of the turn.
LEMMA ClaimKeeps ==
    ASSUME NCIInv, IInv', Claim
    PROVE  NCParts'
<1>0. Shapes /\ TypeOK
  BY DEF NCIInv, NCParts, IInv
<1>1. /\ UNCHANGED <<call, values, wifiVars, ping, outcome, wakes, cursors>>
      /\ owner.pc = "idle" /\ turn.phase # "wake"
  BY DEF Claim, dataVars
<1>2. CASE turn.n < Batch /\ handoff_claim /\ moved' = Actors /\ pc' = WakeAdmission(pc, Actors) /\ Another
  <2>1. PICK k \in SlotIds : Claimable(k) /\ slots' = [slots EXCEPT ![k].state = "CLAIMED"]
    BY <1>2 DEF handoff_claim, ClaimNext
  <2>2. UNCHANGED <<registration, online, next_ticket>>
    BY <1>2 DEF handoff_claim
  <2>3. /\ pc' \in [Actors -> Labels] /\ \A b \in Actors : Woken(b)
        /\ \A b \in Actors : pc'[b] \notin {"begin_sleep", "publish_sleep"}
    BY <1>0, <1>2, WakesWoken
  <2>4. /\ TableStep
        /\ \A i \in SlotIds : /\ slots'[i].state = "COMPLETED" => slots[i].state = "COMPLETED"
                              /\ slots'[i].ticket = slots[i].ticket
    BY <2>1, <2>3, ClaimedSlot DEF Claimable
  <2>5. Shapes'
    BY <1>0, <1>1, <1>2, <2>3 DEF Shapes, Another, wifiVars, cursors
  <2>6. NoLostWakeup'
    <3> SUFFICES ASSUME NEW b \in Actors
                 PROVE  pc'[b] = "sleep" /\ handoff_ready(token(b))' => token(b)'.slot \in wakes'
      BY <2>3 DEF NoLostWakeup
    <3>1. Woken(b)
      BY <2>3
    <3>2. pc'[b] = "sleep" => pc[b] = "sleep"
      BY <3>1 DEF Woken
    <3> QED
      BY <1>1, <2>2, <2>4, <3>2, SleepKept
  <2>7. ~outcome.ready /\ moved \subseteq moved'
    BY <1>0, <1>1, <1>2 DEF NCIInv, NCParts, Deciding, Shapes
  <2> QED
    BY <1>1, <1>2, <2>2, <2>3, <2>4, <2>5, <2>6, <2>7, TransportKeeps
<1>3. CASE Phase("pending") /\ UNCHANGED <<vars, moved, pc>>
  <2>1. Shapes'
    BY <1>0, <1>1, <1>3 DEF Shapes, Phase, wifiVars, cursors
  <2> QED
    BY <1>1, <1>3, <2>1, LoopEndKeeps DEF callerVars, dataVars
<1> QED
  BY <1>2, <1>3 DEF Claim

\* The second loop of the turn.
LEMMA PendingKeeps ==
    ASSUME NCIInv, IInv', Pending
    PROVE  NCParts'
<1>0. Shapes /\ TypeOK
  BY DEF NCIInv, NCParts, IInv
<1>1. /\ UNCHANGED <<callerVars, moved, dataVars, outcome, wakes, ack_cursor, inspect_cursor>>
      /\ owner.pc = "idle" /\ turn.phase # "wake"
  BY DEF Pending
<1>2. CASE Another /\ \E k \in SlotIds : handoff_pending(k) /\ pending_cursor' = (k + 1) % HANDOFF_SLOTS
  <2>1. PICK k \in SlotIds : handoff_pending(k) /\ pending_cursor' = (k + 1) % HANDOFF_SLOTS
    BY <1>2
  <2>2. /\ slots[k].state = "PENDING" /\ slots' = [slots EXCEPT ![k].state = "CLAIMED"]
        /\ UNCHANGED <<registration, online, next_ticket>> /\ owner'.pc = "step"
    BY <2>1 DEF handoff_pending, Hold
  <2>3. \A b \in Actors : Woken(b)
    BY <1>1 DEF Woken, callerVars
  <2>4. /\ TableStep
        /\ \A i \in SlotIds : /\ slots'[i].state = "COMPLETED" => slots[i].state = "COMPLETED"
                              /\ slots'[i].state = "FREE" => slots[i].state = "FREE"
                              /\ Live(i) => Live(i)' /\ slots'[i].actor = slots[i].actor
                              /\ Offered(i) => Offered(i)'
                              /\ slots'[i].ticket = slots[i].ticket
    BY <2>2, <2>3, ClaimedSlot
  <2>5. pending_cursor' \in SlotIds
    BY <2>1, CursorInTable DEF SlotIds
  <2>6. Shapes'
    BY <1>0, <1>1, <1>2, <2>5 DEF Shapes, Another, callerVars, dataVars, wifiVars
  <2>7. NoLostWakeup'
    BY <1>1, <2>2, <2>4, SleepersLeft DEF Unlocked, Waking, callerVars
  <2>8. ~outcome.ready
    BY <1>1 DEF NCIInv, NCParts, Deciding
  <2>9. UNCHANGED <<values, wifiVars, outcome, call, ping, moved>>
    BY <1>1 DEF callerVars, dataVars
  <2> QED
    BY <2>2, <2>3, <2>4, <2>6, <2>7, <2>8, <2>9, TransportKeeps
<1>3. CASE Phase("ack") /\ UNCHANGED <<vars, pending_cursor>>
  <2>1. Shapes'
    BY <1>0, <1>1, <1>3 DEF Shapes, Phase, callerVars, dataVars, wifiVars
  <2> QED
    BY <1>1, <1>3, <2>1, LoopEndKeeps
<1> QED
  BY <1>2, <1>3 DEF Pending

\* A failure of the service moves the sequence and wakes all of admission.
LEMMA FailKeeps ==
    ASSUME NCIInv, IInv', Fail
    PROVE  NCParts'
<1>0. Shapes /\ TypeOK
  BY DEF NCIInv, NCParts, IInv
<1>1. /\ UNCHANGED <<call, values, wifiVars, ping, outcome, wakes, turn, cursors>>
      /\ UNCHANGED <<registration, next_ticket, owner>>
      /\ moved' = Actors /\ pc' = WakeAdmission(pc, Actors)
  BY DEF Fail, handoff_fail, dataVars, ownerVars
<1>2. /\ pc' \in [Actors -> Labels] /\ \A b \in Actors : Woken(b)
      /\ \A b \in Actors : pc'[b] \notin {"begin_sleep", "publish_sleep"}
  BY <1>0, <1>1, WakesWoken
<1>3. ASSUME NEW i \in SlotIds
      PROVE  slots'[i].ticket = slots[i].ticket /\ slots'[i].state = slots[i].state /\ Advances(i)
  <2>1. slots[i] \in Slot
    BY <1>0 DEF TypeOK
  <2>2. slots'[i] = slots[i] \/ slots'[i] = [slots[i] EXCEPT !.cancel = TRUE]
    BY DEF Fail, handoff_fail
  <2>3. /\ slots'[i].generation = slots[i].generation /\ slots'[i].kind = slots[i].kind
        /\ slots'[i].actor = slots[i].actor /\ slots'[i].caller = slots[i].caller
        /\ slots'[i].cleaned = slots[i].cleaned /\ slots'[i].reply = slots[i].reply
        /\ slots'[i].state = slots[i].state /\ slots'[i].ticket = slots[i].ticket
    BY <2>1, <2>2 DEF Slot
  <2>4. Live(i) => (Unfilled(i)' <=> Unfilled(i))
    BY <1>2, <2>3, SlotStays
  <2> QED
    BY <2>3, <2>4 DEF Advances, Live
<1>4. TableStep
  BY <1>3 DEF TableStep
<1>5. Shapes'
  BY <1>0, <1>1, <1>2 DEF Shapes, wifiVars, cursors
<1>6. NoLostWakeup'
  <2> SUFFICES ASSUME NEW b \in Actors
               PROVE  pc'[b] = "sleep" /\ handoff_ready(token(b))' => token(b)'.slot \in wakes'
    BY <1>2 DEF NoLostWakeup
  <2>1. Woken(b)
    BY <1>2
  <2>2. pc'[b] = "sleep" => pc[b] = "sleep"
    BY <2>1 DEF Woken
  <2> QED
    BY <1>1, <1>3, <1>4, <2>2, SleepKept
<1>7. moved \subseteq moved'
  BY <1>0, <1>1 DEF Shapes
<1> QED
  BY <1>1, <1>2, <1>3, <1>4, <1>5, <1>6, <1>7, TransportKeeps

-----------------------------------------------------------------------------
(* The steps of a caller that leave the records alone                      *)

\* Only actor a moves, and the transport changes at most its slot or takes a
\* new one for it.
LEMMA CallerKeeps ==
    ASSUME NCIInv, IInv', TableStep, Shapes', NEW a \in Actors, CallOf(a)', Admission(a)',
           UNCHANGED <<dataVars, outcome, owner, turn, wakes, online>>,
           \A b \in Actors \ {a} : /\ pc'[b] = pc[b] /\ call'[b] = call[b]
                                   /\ registration'[b] = registration[b],
           pc[a] # "fill_fw", pc'[a] # "fill_fw",
           pc'[a] = "sleep" => ~handoff_ready(token(a))',
           pc'[a] \in {"begin_sleep", "publish_sleep"} => a \notin moved',
           moved' \in {moved, moved \ {a}}, next_ticket' >= next_ticket,
           \A i \in SlotIds : /\ slots'[i].state = "COMPLETED" => slots[i].state = "COMPLETED"
                              /\ slots'[i].state = "FREE" => slots[i].state = "FREE"
                              /\ Live(i) => Live(i)' /\ slots'[i].actor = slots[i].actor
                              /\ Live(i) /\ slots[i].actor # a =>
                                   slots'[i].ticket = slots[i].ticket /\ (Offered(i) => Offered(i)')
    PROVE  NCParts'
<1> USE DEF dataVars, wifiVars
<1>1. \A i \in SlotIds : AnswerIn(i)'
  BY AnswersKept
<1>2. \A b \in Actors : pc'[b] = "fill_fw" <=> pc[b] = "fill_fw"
  OBVIOUS
<1>3. RecordFence' /\ HeldBack' /\ OneUpload' /\ ProbeHeld' /\ ProbeEnds'
  BY <1>2, HoldersKept
<1>4. ASSUME NEW b \in Actors \ {a} PROVE CallOf(b)'
  <2>1. ASSUME pc[b] \in {"fill", "fill_fw"}
        PROVE  slots'[token(b).slot].ticket = slots[token(b).slot].ticket
    <3>1. PICK i \in SlotIds : token(b).slot = i /\ Live(i) /\ slots[i].actor = b
      BY <2>1, CallSlot DEF Registering, Labels, Before
    <3> QED
      BY <3>1
  <2>2. UNCHANGED records /\ call'[b] = call[b] /\ registration'[b] = registration[b] /\ Woken(b)
    BY DEF Woken
  <2> QED
    BY <2>1, <2>2, CallKept
<1>5. ASSUME NEW b \in Actors \ {a} PROVE Admission(b)'
  <2>1. registration'[b] = registration[b] /\ Woken(b) /\ (b \notin moved' => b \notin moved)
    BY DEF Woken
  <2>2. \A i \in SlotIds : Offered(i) /\ slots[i].actor = b => Offered(i)'
    BY DEF Live, Offered
  <2> QED
    BY <2>1, <2>2, AdmissionKept
<1>6. Deciding'
  BY DEF NCIInv, NCParts, Deciding
<1>7. NoLostWakeup'
  <2> SUFFICES ASSUME NEW b \in Actors
               PROVE  /\ pc'[b] = "sleep" /\ handoff_ready(token(b))' => token(b)'.slot \in wakes'
                      /\ pc'[b] \in {"begin_sleep", "publish_sleep"} /\ b \in moved' => Waking'
    BY DEF NoLostWakeup
  <2>1. CASE b = a
    BY <2>1
  <2>2. CASE b # a
    <3>1. pc'[b] = "sleep" /\ handoff_ready(token(b))' => token(b)'.slot \in wakes'
      BY <2>2, SleepKept
    <3>2. pc'[b] \in {"begin_sleep", "publish_sleep"} /\ b \in moved' => Waking'
      BY <2>2 DEF NCIInv, NCParts, NoLostWakeup, Unlocked, Waking
    <3> QED
      BY <3>1, <3>2
  <2> QED
    BY <2>1, <2>2
<1> QED
  BY <1>1, <1>3, <1>4, <1>5, <1>6, <1>7 DEF NCParts

\* Such a step when the transport stays as it is.
LEMMA MoveKeeps ==
    ASSUME NCIInv, IInv', NEW a \in Actors, NEW l \in Labels, Goto(a, l), call' \in [Actors -> Kinds \cup {NoKind}],
           UNCHANGED <<vars, dataVars, ownerVars>>, \A b \in Actors \ {a} : call'[b] = call[b],
           moved' \in {moved, moved \ {a}},
           pc[a] \notin {"fill", "fill_fw"}, l \notin {"fill", "fill_fw"},
           l \in Registering <=> pc[a] \in Registering, l # "idle" => call'[a] \in Kinds,
           l \in Registering => call'[a] = call[a],
           l = "collect" => slots[token(a).slot].state = "COMPLETED",
           l = "sleep" => ~handoff_ready(token(a)),
           l \in {"begin_sleep", "publish_sleep"} => a \notin moved',
           a \notin moved' =>
               /\ l \in {"begin_wait", "begin_sleep"} => BeginResult(a) \in {"WAIT", "EXHAUSTED"}
               /\ l \in {"publish_wait", "publish_sleep"} => online /\ Offered(token(a).slot)
    PROVE  NCParts'
<1>0. Shapes /\ CallOf(a)
  BY DEF NCIInv, NCParts
<1>1. pc' = [pc EXCEPT ![a] = l] /\ pc'[a] = l /\ \A b \in Actors \ {a} : pc'[b] = pc[b]
  BY <1>0 DEF Goto, Shapes
<1>2. UNCHANGED <<slots, next_ticket, online, registration, owner, outcome, turn, wakes, values, wifiVars, ping>>
  BY DEF vars, ownerVars, dataVars
<1>3. Shapes'
  BY <1>0, <1>1, <1>2 DEF Shapes, ownerVars, cursors, wifiVars
<1>4. ASSUME NEW i \in SlotIds PROVE Advances(i)
  <2>1. Live(i) => slots[i].actor \in Actors
    BY DEF NCIInv, IInv, Registered, RegisteredAt
  <2>2. Live(i) => (Unfilled(i)' <=> Unfilled(i))
    BY <1>1, <1>2, <2>1 DEF Unfilled, wifi_kind
  <2> QED
    BY <1>2, <2>2 DEF Advances, Live
<1>5. TableStep
  BY <1>4 DEF TableStep
<1>6. token(a)' = token(a)
  BY <1>2 DEF token
<1>7. CallOf(a)'
  BY <1>0, <1>1, <1>2, <1>6 DEF CallOf
<1>8. Admission(a)'
  <2>1. BeginResult(a)' = BeginResult(a)
    BY <1>2 DEF BeginResult, ActorBusy, Live
  <2>2. Offered(token(a).slot)' <=> Offered(token(a).slot)
    BY <1>2, <1>6 DEF Offered
  <2> QED
    BY <1>1, <1>2, <2>1, <2>2 DEF Admission
<1>9. handoff_ready(token(a))' <=> handoff_ready(token(a))
  BY <1>2, <1>6 DEF handoff_ready, matches, Live
<1>10. \A i \in SlotIds : /\ Live(i) => Live(i)' /\ slots'[i].actor = slots[i].actor
                          /\ Offered(i) => Offered(i)'
  BY <1>2 DEF Live, Offered
<1>11. next_ticket' >= next_ticket
  BY <1>2 DEF NCIInv, IInv, TypeOK
<1> QED
  BY <1>1, <1>2, <1>3, <1>5, <1>7, <1>8, <1>9, <1>10, <1>11, CallerKeeps DEF dataVars

\* The steps of the loops.
LEMMA LoopsKeep ==
    ASSUME NCIInv, IInv', NEW a \in Actors,
           \/ Call(a) \/ BeginLoop(a) \/ PublishLoop(a) \/ WaitLoop(a)
           \/ AdmissionWait(a, "begin_wait", "begin_sleep", "begin")
           \/ AdmissionWait(a, "publish_wait", "publish_sleep", "publish")
    PROVE  NCParts'
<1>0. Shapes /\ CallOf(a) /\ Admission(a)
  BY DEF NCIInv, NCParts
<1>1. call \in [Actors -> Kinds \cup {NoKind}] /\ (pc[a] # "idle" => call[a] \in Kinds)
  BY <1>0 DEF Shapes, CallOf
<1> USE DEF Registering, Labels, Before
<1>2. CASE Call(a)
  <2>1. PICK k \in Kinds : call' = [call EXCEPT ![a] = k]
    BY <1>2 DEF Call
  <2>2. call' \in [Actors -> Kinds \cup {NoKind}] /\ call'[a] \in Kinds /\ \A b \in Actors \ {a} : call'[b] = call[b]
    BY <1>1, <2>1
  <2>3. pc[a] = "idle" /\ Goto(a, "begin") /\ UNCHANGED <<vars, moved, dataVars, ownerVars>>
    BY <1>2 DEF Call
  <2> QED
    BY <2>2, <2>3, MoveKeeps
<1>3. CASE BeginLoop(a)
  <2>1. /\ pc[a] = "begin" /\ Goto(a, "begin_call") /\ UNCHANGED <<vars, call, dataVars, ownerVars>>
        /\ moved' = moved \ {a}
    BY <1>3 DEF BeginLoop, Stay
  <2> QED
    BY <1>1, <2>1, MoveKeeps
<1>4. CASE PublishLoop(a)
  <2>1. /\ pc[a] = "publish" /\ Goto(a, "publish_call") /\ UNCHANGED <<vars, call, dataVars, ownerVars>>
        /\ moved' = moved \ {a}
    BY <1>4 DEF PublishLoop, Stay
  <2> QED
    BY <1>1, <2>1, MoveKeeps
<1>5. CASE WaitLoop(a)
  <2>1. /\ pc[a] = "wait" /\ UNCHANGED <<vars, call, dataVars, ownerVars>> /\ moved' = moved
        /\ Goto(a, IF handoff_ready(token(a)) THEN "collect" ELSE "sleep")
    BY <1>5 DEF WaitLoop, Stay
  <2>2. CASE handoff_ready(token(a))
    <3>1. matches(token(a))
      BY <2>1, CallSlot
    <3>2. slots[token(a).slot].state = "COMPLETED" /\ Goto(a, "collect")
      BY <2>1, <2>2, <3>1 DEF handoff_ready
    <3> QED
      BY <1>1, <2>1, <3>2, MoveKeeps
  <2>3. CASE ~handoff_ready(token(a))
    <3>1. Goto(a, "sleep")
      BY <2>1, <2>3
    <3> QED
      BY <1>1, <2>1, <2>3, <3>1, MoveKeeps
  <2> QED
    BY <2>2, <2>3
<1>6. CASE AdmissionWait(a, "begin_wait", "begin_sleep", "begin")
  <2>1. /\ pc[a] = "begin_wait" /\ UNCHANGED <<vars, call, dataVars, ownerVars>> /\ moved' = moved
        /\ Goto(a, IF a \in moved THEN "begin" ELSE "begin_sleep")
    BY <1>6 DEF AdmissionWait, Stay
  <2>2. CASE a \in moved
    <3>1. Goto(a, "begin")
      BY <2>1, <2>2
    <3> QED
      BY <1>1, <2>1, <3>1, MoveKeeps
  <2>3. CASE a \notin moved
    <3>1. Goto(a, "begin_sleep") /\ BeginResult(a) \in {"WAIT", "EXHAUSTED"}
      BY <1>0, <2>1, <2>3 DEF Admission
    <3> QED
      BY <1>1, <2>1, <2>3, <3>1, MoveKeeps
  <2> QED
    BY <2>2, <2>3
<1>7. CASE AdmissionWait(a, "publish_wait", "publish_sleep", "publish")
  <2>1. /\ pc[a] = "publish_wait" /\ UNCHANGED <<vars, call, dataVars, ownerVars>> /\ moved' = moved
        /\ Goto(a, IF a \in moved THEN "publish" ELSE "publish_sleep")
    BY <1>7 DEF AdmissionWait, Stay
  <2>2. CASE a \in moved
    <3>1. Goto(a, "publish")
      BY <2>1, <2>2
    <3> QED
      BY <1>1, <2>1, <3>1, MoveKeeps
  <2>3. CASE a \notin moved
    <3>1. Goto(a, "publish_sleep") /\ online /\ Offered(token(a).slot)
      BY <1>0, <2>1, <2>3 DEF Admission
    <3> QED
      BY <1>1, <2>1, <2>3, <3>1, MoveKeeps
  <2> QED
    BY <2>2, <2>3
<1> QED
  BY <1>2, <1>3, <1>4, <1>5, <1>6, <1>7

\* A call that returns before it is registered.
LEMMA ReturnKeeps ==
    ASSUME NCIInv, IInv', NEW a \in Actors, pc[a] \in Before, Return(a), UNCHANGED vars
    PROVE  NCParts'
<1>1. call \in [Actors -> Kinds \cup {NoKind}]
  BY DEF NCIInv, NCParts, Shapes
<1>2. /\ call' \in [Actors -> Kinds \cup {NoKind}] /\ \A b \in Actors \ {a} : call'[b] = call[b]
      /\ Goto(a, "idle") /\ UNCHANGED <<dataVars, ownerVars>> /\ moved' = moved
  BY <1>1 DEF Return
<1> QED
  BY <1>2, MoveKeeps DEF Registering, Labels, Before

\* The slots that are not actor a's go on as they are.
LEMMA OthersAdvance ==
    ASSUME NCIInv, NEW a \in Actors, NEW i \in SlotIds, Live(i) => slots[i].actor # a,
           \A b \in Actors \ {a} : pc'[b] = pc[b], slots'[i] = slots[i]
    PROVE  Advances(i)
<1>1. Live(i) => slots[i].actor \in Actors
  BY DEF NCIInv, IInv, Registered, RegisteredAt
<1>2. Live(i) => (Unfilled(i)' <=> Unfilled(i))
  BY <1>1 DEF Unfilled, wifi_kind
<1> QED
  BY <1>2 DEF Advances, Live

\* handoff_begin takes a slot that no record names.
LEMMA BeginKeeps ==
    ASSUME NCIInv, IInv', NEW a \in Actors, BeginCall(a)
    PROVE  NCParts'
<1>0. Shapes /\ CallOf(a) /\ TypeOK
  BY DEF NCIInv, NCParts, IInv
<1>1. CASE handoff_begin(a, call[a]) /\ Goto(a, "fill") /\ Stay /\ UNCHANGED moved
  <2>1. PICK k \in SlotIds :
            LET generation == IF slots[k].generation = 0 THEN 1 ELSE slots[k].generation
            IN  /\ slots[k].state = "FREE"
                /\ slots' = [slots EXCEPT ![k] =
                      [generation |-> generation, ticket |-> 0, state |-> "PREPARED",
                       caller |-> TRUE, cancel |-> FALSE, cleaned |-> call[a] \notin RetainedKinds,
                       reply |-> "none", actor |-> a, kind |-> call[a]]]
                /\ registration' = [registration EXCEPT ![a] =
                      [token |-> [slot |-> k, generation |-> generation], active |-> TRUE]]
    BY <1>1 DEF handoff_begin
  <2>2. /\ pc[a] = "begin_call" /\ call[a] \in Kinds /\ ~ActorBusy(a)
        /\ UNCHANGED <<call, dataVars, ownerVars, moved, next_ticket, online, owner>>
    BY <1>0, <1>1 DEF BeginCall, CallOf, handoff_begin, BeginResult, Stay
  <2>3. pc' = [pc EXCEPT ![a] = "fill"] /\ pc'[a] = "fill" /\ \A b \in Actors \ {a} : pc'[b] = pc[b]
    BY <1>0, <1>1 DEF Goto, Shapes
  <2>4. /\ slots'[k].state = "PREPARED" /\ slots'[k].ticket = 0 /\ slots'[k].actor = a
        /\ slots'[k].kind = call[a] /\ slots'[k].cleaned = (call[a] \notin RetainedKinds)
        /\ registration'[a].active /\ registration'[a].token.slot = k
    BY <1>0, <2>1 DEF TypeOK
  <2>5. /\ \A i \in SlotIds \ {k} : slots'[i] = slots[i]
        /\ \A b \in Actors \ {a} : registration'[b] = registration[b]
    BY <1>0, <2>1 DEF TypeOK
  <2>6. Opened(k) /\ ~Live(k)
    BY <2>1, <2>2, <2>3, <2>4, NetControlAssumption DEF Opened, Live, wifi_kind
  <2>7. ASSUME NEW i \in SlotIds \ {k} PROVE Advances(i)
    BY <2>2, <2>3, <2>5, OthersAdvance DEF ActorBusy
  <2>8. TableStep
    BY <2>6, <2>7 DEF TableStep
  <2>9. Shapes'
    BY <1>0, <2>2, <2>3 DEF Shapes, Labels, dataVars, wifiVars, ownerVars, cursors
  <2>10. RecordOf(token(a))' = {}
    <3> SUFFICES ASSUME NEW r \in Records, records[r].used, records[r].token.slot = k PROVE FALSE
      BY <2>2, <2>4 DEF RecordOf, token, dataVars, wifiVars, Records
    <3> QED
      BY <2>6, RecordSlot
  <2>11. CallOf(a)'
    BY <2>2, <2>3, <2>4, <2>10 DEF CallOf, token, Registering, Labels, Before
  <2>12. Admission(a)'
    BY <2>3 DEF Admission
  <2>13. next_ticket' >= next_ticket
    BY <1>0, <2>2 DEF TypeOK
  <2>14. \A i \in SlotIds : /\ slots'[i].state = "COMPLETED" => slots[i].state = "COMPLETED"
                            /\ slots'[i].state = "FREE" => slots[i].state = "FREE"
                            /\ Live(i) => Live(i)' /\ slots'[i].actor = slots[i].actor
                            /\ Live(i) => slots'[i].ticket = slots[i].ticket /\ (Offered(i) => Offered(i)')
    BY <2>4, <2>5, <2>6 DEF Live, Offered
  <2> QED
    BY <2>2, <2>3, <2>5, <2>8, <2>9, <2>11, <2>12, <2>13, <2>14, CallerKeeps DEF ownerVars
<1>2. CASE BeginResult(a) = "WAIT" /\ Goto(a, "begin_wait") /\ Stay /\ UNCHANGED <<vars, moved>>
  <2>1. /\ pc[a] = "begin_call" /\ call[a] \in Kinds /\ call \in [Actors -> Kinds \cup {NoKind}]
        /\ UNCHANGED <<call, dataVars, ownerVars>>
    BY <1>0, <1>2 DEF BeginCall, CallOf, Stay, Shapes
  <2> QED
    BY <1>2, <2>1, MoveKeeps DEF Registering, Labels, Before
<1>3. CASE Return(a) /\ UNCHANGED vars
  BY <1>3, ReturnKeeps DEF BeginCall, Before
<1> QED
  BY <1>1, <1>2, <1>3 DEF BeginCall

\* handoff_publish gives the slot its ticket, or finds that there is nothing to do.
LEMMA PublishKeeps ==
    ASSUME NCIInv, IInv', NEW a \in Actors, PublishCall(a)
    PROVE  NCParts'
<1>0. Shapes /\ CallOf(a) /\ TypeOK
  BY DEF NCIInv, NCParts, IInv
<1> USE DEF Registering, Labels, Before
<1>1. /\ pc[a] = "publish_call" /\ UNCHANGED <<call, dataVars, ownerVars, moved>>
      /\ call \in [Actors -> Kinds \cup {NoKind}] /\ call[a] \in Kinds
  BY <1>0 DEF PublishCall, CallOf, Stay, Shapes
<1>2. PICK k \in SlotIds :
          /\ token(a).slot = k /\ token(a) = TokenAt(k) /\ Live(k) /\ matches(token(a))
          /\ slots[k].caller /\ slots[k].actor = a /\ slots[k].kind = call[a]
  BY <1>1, CallSlot
<1>3. slots[k] \in Slot /\ next_ticket \in Nat
  BY <1>0 DEF TypeOK
<1>4. CASE Admissible(token(a)) /\ PublishResult(token(a)) \in {"OK", "WAIT"}
  <2>1. handoff_publish(token(a))
    BY <1>4 DEF PublishCall
  <2>2. PICK l \in {"wait", "publish_wait"} : Goto(a, l) /\ (l = "wait" <=> PublishResult(token(a)) = "OK")
    <3>1. CASE PublishResult(token(a)) = "OK"
      BY <3>1 DEF PublishCall
    <3>2. CASE PublishResult(token(a)) = "WAIT"
      BY <3>2 DEF PublishCall
    <3> QED
      BY <1>4, <3>1, <3>2
  <2>3. pc' = [pc EXCEPT ![a] = l] /\ pc'[a] = l /\ \A b \in Actors \ {a} : pc'[b] = pc[b]
    BY <1>0, <2>2 DEF Goto, Shapes
  <2>4. online
    BY <1>4 DEF PublishResult
  <2>5. /\ slots' = [slots EXCEPT ![k].ticket = TicketOf(k),
                                  ![k].state = IF PublishResult(token(a)) = "OK" THEN "QUEUED" ELSE "PREPARED"]
        /\ next_ticket' = (IF slots[k].ticket = 0 THEN next_ticket + 1 ELSE next_ticket)
        /\ UNCHANGED <<online, registration, owner>>
    BY <1>2, <2>1 DEF handoff_publish
  <2>6. slots[k].state = "PREPARED" /\ ~slots[k].cancel
    BY <1>2, <1>4 DEF Admissible
  <2>7. /\ slots'[k] = [slots[k] EXCEPT !.ticket = TicketOf(k),
                             !.state = IF PublishResult(token(a)) = "OK" THEN "QUEUED" ELSE "PREPARED"]
        /\ \A i \in SlotIds \ {k} : slots'[i] = slots[i]
    BY <1>0, <2>5 DEF TypeOK
  <2>8. TicketOf(k) # 0 /\ next_ticket' >= next_ticket
    BY <1>3, <2>5 DEF TicketOf
  <2>9. /\ slots'[k].generation = slots[k].generation /\ slots'[k].kind = slots[k].kind
        /\ slots'[k].actor = slots[k].actor /\ slots'[k].caller = slots[k].caller
        /\ slots'[k].cleaned = slots[k].cleaned /\ slots'[k].cancel = slots[k].cancel
        /\ slots'[k].state = (IF PublishResult(token(a)) = "OK" THEN "QUEUED" ELSE "PREPARED")
        /\ slots'[k].ticket # 0
    BY <1>3, <2>7, <2>8 DEF Slot
  <2>10. Advances(k)
    <3>1. ~Unfilled(k) /\ ~Unfilled(k)'
      BY <1>1, <1>2, <2>3, <2>9 DEF Unfilled
    <3> QED
      BY <2>6, <2>9, <3>1 DEF Advances, Live
  <2>11. ASSUME NEW i \in SlotIds \ {k} PROVE (Live(i) => slots[i].actor # a) /\ Advances(i)
    <3>1. Live(i) => slots[i].actor # a
      <4>1. Live(i) => registration[slots[i].actor].token = TokenAt(i)
        BY DEF NCIInv, IInv, Registered, RegisteredAt, TokenAt
      <4> QED
        BY <1>2, <4>1 DEF token, TokenAt
    <3> QED
      BY <2>3, <2>7, <3>1, OthersAdvance
  <2>12. TableStep
    BY <2>10, <2>11 DEF TableStep
  <2>13. Shapes'
    BY <1>0, <1>1, <2>3 DEF Shapes, dataVars, wifiVars, ownerVars, cursors
  <2>14. token(a)' = token(a)
    BY <2>5 DEF token
  <2>15. CallOf(a)'
    <3>1. slots'[k].kind = call'[a] /\ call'[a] \in Kinds /\ registration'[a].active
      BY <1>0, <1>1, <1>2, <2>5, <2>9 DEF CallOf
    <3>2. pc'[a] \in {"wait", "publish_wait"} /\ token(a)'.slot = k
      BY <1>2, <2>3, <2>14
    <3> QED
      BY <3>1, <3>2 DEF CallOf
  <2>16. Admission(a)'
    <3>1. l = "publish_wait" => Offered(k)'
      BY <1>2, <2>2, <2>6, <2>9 DEF Offered
    <3> QED
      BY <1>2, <2>2, <2>3, <2>4, <2>5, <2>14, <3>1 DEF Admission, Offered
  <2>17. \A i \in SlotIds : /\ slots'[i].state = "COMPLETED" => slots[i].state = "COMPLETED"
                            /\ slots'[i].state = "FREE" => slots[i].state = "FREE"
                            /\ Live(i) => Live(i)' /\ slots'[i].actor = slots[i].actor
                            /\ Live(i) /\ slots[i].actor # a =>
                                 slots'[i].ticket = slots[i].ticket /\ (Offered(i) => Offered(i)')
    <3> SUFFICES ASSUME NEW i \in SlotIds
                 PROVE  /\ slots'[i].state = "COMPLETED" => slots[i].state = "COMPLETED"
                        /\ slots'[i].state = "FREE" => slots[i].state = "FREE"
                        /\ Live(i) => Live(i)' /\ slots'[i].actor = slots[i].actor
                        /\ Live(i) /\ slots[i].actor # a =>
                             slots'[i].ticket = slots[i].ticket /\ (Offered(i) => Offered(i)')
      OBVIOUS
    <3>1. CASE i = k
      BY <1>2, <2>7, <2>9, <3>1 DEF Live
    <3>2. CASE i # k
      BY <1>2, <2>7, <2>9, <3>2 DEF Live, Offered
    <3> QED
      BY <3>1, <3>2
  <2> QED
    BY <1>1, <2>3, <2>5, <2>8, <2>12, <2>13, <2>15, <2>16, <2>17, CallerKeeps DEF ownerVars
<1>5. CASE ~(Admissible(token(a)) /\ PublishResult(token(a)) \in {"OK", "WAIT"})
  <2>1. UNCHANGED vars
    BY <1>5 DEF PublishCall
  <2>2. PublishResult(token(a)) # "WAIT"
    BY <1>5 DEF PublishResult
  <2>3. PICK l \in {"wait", "abandon"} : Goto(a, l)
    <3>1. CASE PublishResult(token(a)) = "OK"
      BY <3>1 DEF PublishCall
    <3>2. CASE PublishResult(token(a)) # "OK"
      BY <2>2, <3>2 DEF PublishCall
    <3> QED
      BY <3>1, <3>2
  <2> QED
    BY <1>1, <2>1, <2>3, MoveKeeps
<1> QED
  BY <1>4, <1>5

\* A call that is abandoned, or has collected its answer.
LEMMA AbandonKeeps ==
    ASSUME NCIInv, IInv', NEW a \in Actors, pc[a] \in Registering \ {"fill_fw"},
           pc[a] = "fill" => wifi_kind(call[a]), Abandon(a)
    PROVE  NCParts'
<1>0. Shapes /\ CallOf(a) /\ TypeOK
  BY DEF NCIInv, NCParts, IInv
<1>1. /\ UNCHANGED <<dataVars, ownerVars, moved>> /\ call' = [call EXCEPT ![a] = NoKind]
      /\ Goto(a, "idle") /\ handoff_release(a)
  BY DEF Abandon, Return
<1>2. PICK k \in SlotIds :
          /\ token(a).slot = k /\ token(a) = TokenAt(k) /\ Live(k) /\ matches(token(a))
          /\ slots[k].caller /\ slots[k].actor = a /\ slots[k].kind = call[a]
  BY CallSlot
<1>3. /\ pc' = [pc EXCEPT ![a] = "idle"] /\ pc'[a] = "idle" /\ \A b \in Actors \ {a} : pc'[b] = pc[b]
      /\ call' \in [Actors -> Kinds \cup {NoKind}] /\ \A b \in Actors \ {a} : call'[b] = call[b]
  BY <1>0, <1>1 DEF Goto, Shapes
<1>4. /\ slots' = [slots EXCEPT ![k].caller = FALSE, ![k].cancel = @ \/ slots[k].state # "COMPLETED"]
      /\ registration' = [registration EXCEPT ![a].active = FALSE]
      /\ UNCHANGED <<next_ticket, online, owner>>
  BY <1>1, <1>2 DEF handoff_release, token
<1>5. /\ slots[k] \in Slot
      /\ slots'[k] = [slots[k] EXCEPT !.caller = FALSE, !.cancel = @ \/ slots[k].state # "COMPLETED"]
      /\ \A i \in SlotIds \ {k} : slots'[i] = slots[i]
      /\ ~registration'[a].active /\ \A b \in Actors \ {a} : registration'[b] = registration[b]
  BY <1>0, <1>4 DEF TypeOK
<1>6. /\ slots'[k].generation = slots[k].generation /\ slots'[k].kind = slots[k].kind
      /\ slots'[k].actor = slots[k].actor /\ ~slots'[k].caller
      /\ slots'[k].cleaned = slots[k].cleaned /\ slots'[k].reply = slots[k].reply
      /\ slots'[k].state = slots[k].state /\ slots'[k].ticket = slots[k].ticket
  BY <1>5 DEF Slot
<1>7. Advances(k)
  <2>1. ~Unfilled(k) /\ ~Unfilled(k)'
    BY <1>2, <1>3, <1>6 DEF Unfilled
  <2> QED
    BY <1>6, <2>1 DEF Advances, Live
<1>8. ASSUME NEW i \in SlotIds \ {k} PROVE (Live(i) => slots[i].actor # a) /\ Advances(i)
  <2>1. Live(i) => slots[i].actor # a
    <3>1. Live(i) => registration[slots[i].actor].token = TokenAt(i)
      BY DEF NCIInv, IInv, Registered, RegisteredAt, TokenAt
    <3> QED
      BY <1>2, <3>1 DEF token, TokenAt
  <2> QED
    BY <1>3, <1>5, <2>1, OthersAdvance
<1>9. TableStep
  BY <1>7, <1>8 DEF TableStep
<1>10. Shapes'
  BY <1>0, <1>1, <1>3 DEF Shapes, Labels, dataVars, wifiVars, ownerVars, cursors
<1>11. CallOf(a)' /\ Admission(a)'
  BY <1>3, <1>5 DEF CallOf, Admission, Registering, Labels, Before
<1>12. next_ticket' >= next_ticket
  BY <1>0, <1>4 DEF TypeOK
<1>13. \A i \in SlotIds : /\ slots'[i].state = "COMPLETED" => slots[i].state = "COMPLETED"
                          /\ slots'[i].state = "FREE" => slots[i].state = "FREE"
                          /\ Live(i) => Live(i)' /\ slots'[i].actor = slots[i].actor
                          /\ Live(i) /\ slots[i].actor # a =>
                               slots'[i].ticket = slots[i].ticket /\ (Offered(i) => Offered(i)')
  <2> SUFFICES ASSUME NEW i \in SlotIds
               PROVE  /\ slots'[i].state = "COMPLETED" => slots[i].state = "COMPLETED"
                      /\ slots'[i].state = "FREE" => slots[i].state = "FREE"
                      /\ Live(i) => Live(i)' /\ slots'[i].actor = slots[i].actor
                      /\ Live(i) /\ slots[i].actor # a =>
                           slots'[i].ticket = slots[i].ticket /\ (Offered(i) => Offered(i)')
    OBVIOUS
  <2>1. CASE i = k
    BY <1>2, <1>5, <1>6, <2>1 DEF Live
  <2>2. CASE i # k
    BY <1>2, <1>5, <1>6, <2>2 DEF Live, Offered
  <2> QED
    BY <2>1, <2>2
<1> QED
  BY <1>1, <1>3, <1>4, <1>5, <1>9, <1>10, <1>11, <1>12, <1>13, CallerKeeps DEF ownerVars

\* The ends of a call.
LEMMA EndsKeep ==
    ASSUME NCIInv, IInv', NEW a \in Actors, Collect(a) \/ Interrupted(a) \/ (pc[a] = "fill" /\ Refuse(a))
    PROVE  NCParts'
<1> USE DEF Registering, Labels, Before
<1>1. CASE Collect(a)
  BY <1>1, AbandonKeeps DEF Collect
<1>2. CASE Interrupted(a)
  BY <1>2, AbandonKeeps, ReturnKeeps DEF Interrupted
<1>3. CASE pc[a] = "fill" /\ Refuse(a)
  BY <1>3, AbandonKeeps DEF Refuse
<1> QED
  BY <1>1, <1>2, <1>3

-----------------------------------------------------------------------------
(* The typed step and its end                                              *)

\* The slot of the claim in hand: its record is filled in and shows no answer
\* until the step has decided one.
LEMMA StepSlot ==
    ASSUME NCIInv, owner.pc = "step"
    PROVE  \E k \in SlotIds :
               /\ owner.token.slot = k /\ owner.token = TokenAt(k) /\ matches(owner.token) /\ Live(k)
               /\ slots[k].state = "CLAIMED" /\ slots[k].ticket # 0 /\ ~Unfilled(k)
               /\ ~wifi_kind(slots[k].kind) => values[k].input = TokenAt(k)
               /\ Said(k) <=> Shown(k)
<1>1. HeldClaimed /\ owner.token \in Token
  BY DEF NCIInv, IInv, TypeOK
<1>2. PICK k \in SlotIds : owner.token = [slot |-> k, generation |-> owner.token.generation]
  BY <1>1 DEF Token
<1>3. owner.token.slot = k
  BY <1>2
<1>4. matches(owner.token) /\ slots[k].state = "CLAIMED"
  BY <1>1, <1>3 DEF HeldClaimed
<1>5. Live(k) /\ owner.token = TokenAt(k)
  BY <1>2, <1>3, <1>4 DEF matches, TokenAt
<1>6. AnswerIn(k) /\ RegisteredAt(k)
  BY DEF NCIInv, NCParts, IInv, Registered
<1>7. slots[k].ticket # 0
  BY <1>4, <1>5, <1>6 DEF AnswerIn
<1>8. ~Unfilled(k)
  <2>1. PICK b \in Actors : slots[k].actor = b /\ token(b) = TokenAt(k)
    BY <1>5, <1>6 DEF RegisteredAt, token, TokenAt
  <2>2. token(b).slot = k /\ CallOf(b)
    BY <2>1 DEF TokenAt, NCIInv, NCParts
  <2> QED
    BY <1>7, <2>1, <2>2 DEF Unfilled, CallOf
<1> QED
  BY <1>3, <1>4, <1>5, <1>6, <1>7, <1>8 DEF AnswerIn

\* handoff_finish: the request has the answer that was decided, its caller is
\* woken, and the probe is over unless the request goes on.
LEMMA FinishKeeps ==
    ASSUME NCIInv, IInv', Finish
    PROVE  NCParts'
<1>0. Shapes /\ TypeOK /\ Deciding /\ ProbeEnds
  BY DEF NCIInv, NCParts, IInv
<1>1. /\ outcome.ready /\ owner.pc = "step" /\ outcome' = NoOutcome
      /\ UNCHANGED <<call, moved, values, wifiVars, ping, turn, wakes, cursors>>
      /\ UNCHANGED <<registration, online, next_ticket>> /\ owner'.pc = "idle"
  BY DEF Finish, handoff_finish, dataVars, Rest
<1>2. PICK k \in SlotIds :
          /\ owner.token.slot = k /\ owner.token = TokenAt(k) /\ matches(owner.token) /\ Live(k)
          /\ slots[k].state = "CLAIMED" /\ slots[k].ticket # 0 /\ ~Unfilled(k)
  BY <1>1, StepSlot
<1>3. /\ outcome \in [ready : BOOLEAN, pending : BOOLEAN, status : {"OK", "EINTR", "EIO", "EAGAIN"}]
      /\ slots[k] \in Slot
  BY <1>0 DEF Shapes, TypeOK
<1>4. slots' = [slots EXCEPT ![k].state = IF outcome.pending THEN "PENDING" ELSE "COMPLETED",
                             ![k].reply = IF outcome.pending THEN @ ELSE outcome.status]
  BY <1>2 DEF Finish, handoff_finish
<1>5. /\ slots'[k] = [slots[k] EXCEPT !.state = IF outcome.pending THEN "PENDING" ELSE "COMPLETED",
                                      !.reply = IF outcome.pending THEN @ ELSE outcome.status]
      /\ \A i \in SlotIds \ {k} : slots'[i] = slots[i]
  BY <1>0, <1>4 DEF TypeOK
<1>6. /\ slots'[k].generation = slots[k].generation /\ slots'[k].kind = slots[k].kind
      /\ slots'[k].actor = slots[k].actor /\ slots'[k].caller = slots[k].caller
      /\ slots'[k].cleaned = slots[k].cleaned /\ slots'[k].ticket = slots[k].ticket
      /\ slots'[k].state = (IF outcome.pending THEN "PENDING" ELSE "COMPLETED")
      /\ ~outcome.pending => slots'[k].reply = outcome.status
  BY <1>3, <1>5 DEF Slot
<1>7. /\ pc' \in [Actors -> Labels] /\ \A b \in Actors : Woken(b)
      /\ ~outcome.pending => \A b \in Actors : pc'[b] = "sleep" => token(b).slot # k
  <2>1. CASE outcome.pending
    BY <1>0, <2>1, WakesWoken DEF Finish
  <2>2. CASE ~outcome.pending
    <3>1. pc' = WakeSlots(pc, {k})
      BY <1>2, <2>2 DEF Finish
    <3> QED
      BY <1>0, <3>1, WakesWoken
  <2> QED
    BY <2>1, <2>2
<1>8. ASSUME NEW i \in SlotIds
      PROVE  /\ Live(i)' <=> Live(i)
             /\ slots'[i].generation = slots[i].generation /\ slots'[i].kind = slots[i].kind
             /\ slots'[i].actor = slots[i].actor /\ slots'[i].caller = slots[i].caller
             /\ slots'[i].cleaned = slots[i].cleaned /\ slots'[i].ticket = slots[i].ticket
             /\ slots[i].state = "COMPLETED" => slots'[i] = slots[i]
             /\ slots'[i].state = "FREE" => slots[i].state = "FREE"
             /\ Offered(i) => Offered(i)'
  <2>1. CASE i = k
    BY <1>2, <1>6, <2>1 DEF Live, Offered
  <2>2. CASE i # k
    BY <1>5, <2>2 DEF Live, Offered
  <2> QED
    BY <2>1, <2>2
<1>9. Shapes'
  BY <1>0, <1>1, <1>7 DEF Shapes, NoOutcome, wifiVars, cursors
<1>11. ASSUME NEW b \in Actors PROVE CallOf(b)'
  <2>1. CallOf(b) /\ token(b)' = token(b) /\ token(b).slot \in SlotIds
    BY <1>0, <1>1 DEF NCIInv, NCParts, token, TypeOK, Token
  <2>2. PICK i \in SlotIds : token(b).slot = i
    BY <2>1
  <2>3. RecordOf(token(b))' = RecordOf(token(b))
    BY <1>1, <2>1 DEF RecordOf, wifiVars
  <2>4. Woken(b) /\ registration'[b] = registration[b] /\ call'[b] = call[b]
    BY <1>1, <1>7
  <2> QED
    BY <1>8, <2>1, <2>2, <2>3, <2>4 DEF CallOf, Woken, Registering, Labels, Before
<1>12. ASSUME NEW i \in SlotIds PROVE AnswerIn(i)'
  <2>1. AnswerIn(i) /\ TokenAt(i)' = TokenAt(i)
    BY <1>8 DEF NCIInv, NCParts, TokenAt
  <2>2. Live(i) => (Unfilled(i)' <=> Unfilled(i))
    BY <1>7, <1>8, SlotStays
  <2>3. RecordOf(TokenAt(i))' = RecordOf(TokenAt(i))
    BY <1>1, <2>1 DEF RecordOf, wifiVars
  <2>4. Shown(i)' <=> Shown(i)
    BY <1>1, <1>8, <2>1, <2>3 DEF Shown, wifiVars, wifi_kind
  <2>5. Said(i)' <=> Said(i)
    <3>1. CASE i = k
      BY <1>1, <1>2, <1>6, <3>1 DEF Said
    <3>2. CASE i # k
      BY <1>1, <1>2, <1>5, <3>2 DEF Said
    <3> QED
      BY <3>1, <3>2
  <2>6. CASE i = k
    BY <1>1, <1>2, <1>6, <1>8, <2>1, <2>2, <2>4, <2>5, <2>6 DEF AnswerIn, wifi_kind
  <2>7. CASE i # k
    BY <1>1, <1>5, <1>8, <2>1, <2>2, <2>4, <2>5, <2>7 DEF AnswerIn, wifi_kind
  <2> QED
    BY <2>6, <2>7
<1>13. RecordFence' /\ HeldBack' /\ OneUpload'
  <2>1. \A r \in Records : records'[r] = records[r] /\ records[r].token.slot \in SlotIds
    BY <1>0, <1>1 DEF wifiVars, Shapes, Token
  <2>2. RecordFence'
    BY <1>1, <1>8, <2>1 DEF NCIInv, NCParts, RecordFence, matches, wifiVars, wifi_kind, Records
  <2>3. HeldBack'
    BY <1>1, <1>8, <2>1 DEF NCIInv, NCParts, HeldBack, wifiVars, wifi_kind, Records
  <2>4. OneUpload'
    BY <1>1, <1>7 DEF NCIInv, NCParts, OneUpload, wifiVars, Records, Woken
  <2> QED
    BY <2>2, <2>3, <2>4
<1>14. ProbeHeld'
  <2> SUFFICES ASSUME ping.used PROVE ProbeHeld'
    BY <1>1 DEF ProbeHeld
  <2>1. PICK i \in SlotIds : /\ slots[i].state \in {"CLAIMED", "PENDING"} /\ slots[i].kind = "ping"
                             /\ values[i].probe = ping.generation
    BY DEF NCIInv, NCParts, ProbeHeld
  <2>2. slots'[i].state \in {"CLAIMED", "PENDING"}
    <3>1. CASE i = k
      <4>1. ping.generation # 0
        BY <1>0 DEF ProbeEnds
      <4>2. outcome.pending
        BY <1>0, <1>1, <1>2, <2>1, <3>1, <4>1 DEF ProbeEnds
      <4> QED
        BY <1>6, <3>1, <4>2
    <3>2. CASE i # k
      BY <1>5, <2>1, <3>2
    <3> QED
      BY <3>1, <3>2
  <2> QED
    BY <1>1, <1>8, <2>1, <2>2 DEF ProbeHeld
<1>15. ProbeEnds' /\ Deciding'
  BY <1>0, <1>1 DEF ProbeEnds, Deciding, NoOutcome
<1>16. NoLostWakeup'
  <2> SUFFICES ASSUME NEW b \in Actors
               PROVE  /\ pc'[b] = "sleep" /\ handoff_ready(token(b))' => token(b)'.slot \in wakes'
                      /\ pc'[b] \in {"begin_sleep", "publish_sleep"} /\ b \in moved' => Waking'
    BY DEF NoLostWakeup
  <2>1. Woken(b) /\ token(b)' = token(b)
    BY <1>1, <1>7 DEF token
  <2>2. ASSUME pc'[b] = "sleep", handoff_ready(token(b))' PROVE token(b)'.slot \in wakes'
    <3>1. pc[b] = "sleep"
      BY <2>1, <2>2 DEF Woken
    <3>2. PICK i \in SlotIds : token(b).slot = i /\ matches(token(b))
      BY <3>1, CallSlot DEF Registering, Labels, Before
    <3>3. matches(token(b))'
      BY <1>8, <2>1, <3>2 DEF matches
    <3>4. slots'[i].state = "COMPLETED"
      BY <2>1, <2>2, <3>2, <3>3 DEF handoff_ready
    <3>5. i # k
      BY <1>6, <1>7, <2>2, <3>2, <3>4
    <3>6. handoff_ready(token(b))
      BY <1>5, <3>2, <3>4, <3>5 DEF handoff_ready
    <3> QED
      BY <1>1, <2>1, <3>1, <3>6 DEF NCIInv, NCParts, NoLostWakeup
  <2>3. pc'[b] \in {"begin_sleep", "publish_sleep"} /\ b \in moved' => Waking'
    BY <1>1, <2>1 DEF NCIInv, NCParts, NoLostWakeup, Unlocked, Waking, Woken
  <2> QED
    BY <2>2, <2>3
<1>17. ASSUME NEW b \in Actors PROVE Admission(b)'
  <2>1. Woken(b) /\ registration'[b] = registration[b] /\ next_ticket' >= next_ticket
    BY <1>0, <1>1, <1>7 DEF TypeOK
  <2> QED
    BY <1>1, <1>8, <2>1, AdmissionKept
<1> QED
  BY <1>9, <1>11, <1>12, <1>13, <1>14, <1>15, <1>16, <1>17 DEF NCParts

\* A typed step changes what it found for its own slot, the engine and the
\* outcome; the rest is as it was.
LEMMA StepFrame ==
    ASSUME NCIInv, Step, Shapes', firmware_busy' = firmware_busy, NEW k \in SlotIds, owner.token.slot = k,
           \A r \in Records : /\ records'[r].used = records[r].used /\ records'[r].token = records[r].token
                              /\ records'[r].firmware = records[r].firmware
                              /\ r \notin RecordOf(TokenAt(k)) => records'[r] = records[r],
           \A i \in SlotIds \ {k} : values'[i] = values[i],
           values'[k].input = values[k].input, Said(k)' <=> Shown(k)', ProbeHeld', ProbeEnds'
    PROVE  NCParts'
<1>0. UNCHANGED <<vars, callerVars, moved, turn, wakes>> /\ owner.pc = "step"
  BY DEF Step
<1>1. UNCHANGED <<slots, registration, owner, online, next_ticket, pc, call>>
  BY <1>0 DEF vars, callerVars
<1>2. ASSUME NEW t PROVE {r \in Records : records'[r].used /\ records'[r].token = t} = RecordOf(t)
  BY DEF RecordOf
<1>3. ASSUME NEW b \in Actors PROVE CallOf(b)' /\ Admission(b)'
  <2>1. CallOf(b) /\ Admission(b) /\ token(b)' = token(b)
    BY <1>1 DEF NCIInv, NCParts, token
  <2>2. RecordOf(token(b))' = RecordOf(token(b))
    BY <1>2, <2>1 DEF RecordOf
  <2>3. CallOf(b)'
    BY <1>1, <2>1, <2>2 DEF CallOf
  <2>4. BeginResult(b)' = BeginResult(b) /\ (Offered(token(b).slot)' <=> Offered(token(b).slot))
    BY <1>1, <2>1 DEF BeginResult, ActorBusy, Live, Offered
  <2>5. Admission(b)'
    BY <1>0, <1>1, <2>1, <2>4 DEF Admission
  <2> QED
    BY <2>3, <2>5
<1>4. ASSUME NEW i \in SlotIds PROVE AnswerIn(i)'
  <2>1. AnswerIn(i) /\ (Live(i)' <=> Live(i)) /\ TokenAt(i)' = TokenAt(i) /\ (Unfilled(i)' <=> Unfilled(i))
    BY <1>1 DEF NCIInv, NCParts, Live, TokenAt, Unfilled
  <2>2. CASE i = k
    BY <1>1, <2>1, <2>2 DEF AnswerIn
  <2>3. CASE i # k
    <3>1. Said(i)' <=> Said(i)
      BY <1>1, <2>3 DEF Said
    <3>2. RecordOf(TokenAt(i))' = RecordOf(TokenAt(i)) /\ TokenAt(i) # TokenAt(k)
      BY <1>2, <2>1, <2>3 DEF RecordOf, TokenAt
    <3>3. \A r \in RecordOf(TokenAt(i)) : records'[r] = records[r]
      BY <3>2 DEF RecordOf
    <3>4. Shown(i)' <=> Shown(i)
      BY <1>1, <2>1, <2>3, <3>2, <3>3 DEF Shown
    <3> QED
      BY <1>1, <2>1, <2>3, <3>1, <3>4 DEF AnswerIn
  <2> QED
    BY <2>2, <2>3
<1>5. Deciding'
  BY <1>0, <1>1 DEF Deciding
<1>6. RecordFence'
  BY <1>1 DEF NCIInv, NCParts, RecordFence, matches, Live, Records
<1>7. HeldBack'
  BY <1>1 DEF NCIInv, NCParts, HeldBack, Live, Records
<1>8. OneUpload'
  BY <1>1 DEF NCIInv, NCParts, OneUpload, Records
<1>9. NoLostWakeup'
  BY <1>0, <1>1 DEF NCIInv, NCParts, NoLostWakeup, handoff_ready, matches, Live, token, Unlocked, Waking
<1> QED
  BY <1>3, <1>4, <1>5, <1>6, <1>7, <1>8, <1>9 DEF NCParts

\* Cancelling a probe, or collecting it: the engine is left to another request's
\* probe, or free.
LEMMA ProbeForgotten ==
    ASSUME NCIInv, UNCHANGED slots, NEW k \in SlotIds, PingCancel(values[k].probe),
           \A i \in SlotIds \ {k} : values'[i].probe = values[i].probe
    PROVE  /\ ping' \in [used : BOOLEAN, generation : Nat, done : BOOLEAN]
           /\ ProbeHeld' /\ (ping'.used => ping'.generation # 0)
<1>0. Shapes /\ ProbeEnds /\ ProbeHeld
  BY DEF NCIInv, NCParts
<1>1. CASE ping.used /\ ping.generation = values[k].probe
  <2>1. ping' = [ping EXCEPT !.used = FALSE]
    BY <1>1 DEF PingCancel
  <2>2. ~ping'.used /\ ping' \in [used : BOOLEAN, generation : Nat, done : BOOLEAN]
    BY <1>0, <2>1 DEF Shapes
  <2> QED
    BY <2>2 DEF ProbeHeld
<1>2. CASE ~(ping.used /\ ping.generation = values[k].probe)
  <2>1. PingTick
    BY <1>2 DEF PingCancel
  <2>2. /\ ping' \in [used : BOOLEAN, generation : Nat, done : BOOLEAN]
        /\ ping'.generation = ping.generation /\ (ping'.used => ping.used)
    BY <1>0, <2>1, PingTicks
  <2>3. ProbeHeld'
    <3> SUFFICES ASSUME ping'.used PROVE ProbeHeld'
      BY DEF ProbeHeld
    <3>1. PICK i \in SlotIds : /\ slots[i].state \in {"CLAIMED", "PENDING"} /\ slots[i].kind = "ping"
                               /\ values[i].probe = ping.generation
      BY <1>0, <2>2 DEF ProbeHeld
    <3>2. i # k
      BY <1>2, <2>2, <3>1
    <3> QED
      BY <2>2, <3>1, <3>2 DEF ProbeHeld
  <2> QED
    BY <1>0, <2>2, <2>3 DEF ProbeEnds
<1> QED
  BY <1>1, <1>2

\* A typed step keeps the invariant.
LEMMA StepKeeps ==
    ASSUME NCIInv, IInv', Step
    PROVE  NCParts'
<1>0. Shapes /\ ProbeEnds /\ ProbeHeld
  BY DEF NCIInv, NCParts
<1>1. /\ owner.pc = "step" /\ ~outcome.ready
      /\ UNCHANGED <<vars, callerVars, moved, turn, wakes, cursors>>
  BY DEF Step
<1>2. UNCHANGED <<slots, owner, pc, call>>
  BY <1>1 DEF vars, callerVars
<1>3. PICK k \in SlotIds :
          /\ owner.token.slot = k /\ owner.token = TokenAt(k)
          /\ slots[k].state = "CLAIMED"
          /\ ~wifi_kind(slots[k].kind) => values[k].input = TokenAt(k)
          /\ Said(k) <=> Shown(k)
  BY <1>1, StepSlot
<1>4. /\ values \in [SlotIds -> [input : Token, output : Token, probe : Nat]]
      /\ values[k] \in [input : Token, output : Token, probe : Nat] /\ TokenAt(k) \in Token
      /\ records \in [Records -> [used : BOOLEAN, token : Token, output : Token, firmware : BOOLEAN]]
      /\ ping \in [used : BOOLEAN, generation : Nat, done : BOOLEAN]
  BY <1>0, <1>3 DEF Shapes, NCIInv, IInv, TypeOK
<1>5. ~Shown(k) /\ TokenAt(k)' = TokenAt(k)
  BY <1>1, <1>2, <1>3 DEF Said, TokenAt
<1>6. ASSUME NEW p \in BOOLEAN, NEW s \in {"OK", "EINTR", "EIO", "EAGAIN"}, Decide(p, s)
      PROVE  /\ outcome' \in [ready : BOOLEAN, pending : BOOLEAN, status : {"OK", "EINTR", "EIO", "EAGAIN"}]
             /\ outcome'.pending = p /\ (Said(k)' <=> ~p /\ s = "OK")
  BY <1>1, <1>2, <1>3, <1>6 DEF Decide, Said
<1>7. ASSUME UNCHANGED wifiVars,
             outcome' \in [ready : BOOLEAN, pending : BOOLEAN, status : {"OK", "EINTR", "EIO", "EAGAIN"}],
             ping' \in [used : BOOLEAN, generation : Nat, done : BOOLEAN],
             NEW v \in [input : Token, output : Token, probe : Nat], values' = [values EXCEPT ![k] = v],
             v.input = values[k].input, wifi_kind(slots[k].kind) \/ v.output = values[k].output => ~Said(k)',
             ~wifi_kind(slots[k].kind) /\ v.output # values[k].output => Said(k)' /\ v.output = values[k].input,
             ProbeHeld', ping'.used => ping'.generation # 0,
             slots[k].kind = "ping" /\ ~outcome'.pending => v.probe = 0
      PROVE  NCParts'
  <2>1. values'[k] = v /\ \A i \in SlotIds \ {k} : values'[i] = values[i]
    BY <1>4, <1>7
  <2>2. values' \in [SlotIds -> [input : Token, output : Token, probe : Nat]]
    BY <1>4, <1>7
  <2>3. Shapes'
    BY <1>0, <1>1, <1>2, <1>7, <2>2 DEF Shapes, wifiVars, cursors
  <2>4. RecordOf(TokenAt(k))' = RecordOf(TokenAt(k)) /\ UNCHANGED <<records, firmware_busy>>
    BY <1>5, <1>7 DEF RecordOf, wifiVars
  <2>5. Said(k)' <=> Shown(k)'
    <3>1. CASE wifi_kind(slots[k].kind)
      BY <1>2, <1>5, <1>7, <2>4, <3>1 DEF Shown, wifi_kind
    <3>2. CASE ~wifi_kind(slots[k].kind)
      <4>1. Shown(k)' <=> v.output = TokenAt(k)
        BY <1>2, <1>5, <2>1, <3>2 DEF Shown, wifi_kind
      <4>2. values[k].output # TokenAt(k) /\ values[k].input = TokenAt(k)
        BY <1>3, <1>5, <3>2 DEF Shown
      <4> QED
        BY <1>7, <3>2, <4>1, <4>2
    <3> QED
      BY <3>1, <3>2
  <2>6. ProbeEnds'
    BY <1>2, <1>3, <1>7, <2>1 DEF ProbeEnds
  <2> QED
    BY <1>3, <1>7, <2>1, <2>3, <2>4, <2>5, <2>6, StepFrame
<1>8. values = [values EXCEPT ![k] = values[k]]
  BY <1>4
<1>9. UNCHANGED ping /\ UNCHANGED values => ProbeHeld'
  BY <1>0, <1>2 DEF ProbeHeld
<1>10. CASE StepCancelled(k)
  <2>1. Decide(FALSE, "EINTR") /\ UNCHANGED wifiVars
    BY <1>10 DEF StepCancelled
  <2>2. CASE UNCHANGED <<values, ping>> /\ (wifi_kind(slots[k].kind) \/ values[k].probe = 0)
    <3>1. slots[k].kind = "ping" => values[k].probe = 0
      BY <2>2 DEF wifi_kind
    <3> QED
      BY <1>0, <1>4, <1>6, <1>7, <1>8, <1>9, <2>1, <2>2, <3>1 DEF ProbeEnds
  <2>3. CASE PingCancel(values[k].probe) /\ values' = [values EXCEPT ![k].probe = 0]
    <3> DEFINE v == [values[k] EXCEPT !.probe = 0]
    <3>1. /\ v \in [input : Token, output : Token, probe : Nat]
          /\ v.input = values[k].input /\ v.output = values[k].output /\ v.probe = 0
      BY <1>4
    <3>2. values' = [values EXCEPT ![k] = v]
      BY <2>3
    <3> HIDE DEF v
    <3>3. \A i \in SlotIds \ {k} : values'[i].probe = values[i].probe
      BY <1>4, <3>2
    <3>4. /\ ping' \in [used : BOOLEAN, generation : Nat, done : BOOLEAN]
          /\ ProbeHeld' /\ (ping'.used => ping'.generation # 0)
      BY <1>2, <2>3, <3>3, ProbeForgotten
    <3> QED
      BY <1>6, <1>7, <2>1, <3>1, <3>2, <3>4
  <2> QED
    BY <1>10, <2>2, <2>3 DEF StepCancelled
<1>11. CASE StepInterface(k)
  <2>1. slots[k].kind = "if" /\ UNCHANGED wifiVars /\ UNCHANGED ping
    BY <1>11 DEF StepInterface
  <2>2. CASE Decide(FALSE, "OK") /\ values' = [values EXCEPT ![k].output = values[k].input]
    <3> DEFINE v == [values[k] EXCEPT !.output = values[k].input]
    <3>1. /\ v \in [input : Token, output : Token, probe : Nat]
          /\ v.input = values[k].input /\ v.output = values[k].input /\ v.probe = values[k].probe
      BY <1>4
    <3>2. values' = [values EXCEPT ![k] = v]
      BY <2>2
    <3>3. ~wifi_kind(slots[k].kind) /\ v.output # values[k].output
      BY <1>3, <1>5, <2>1, <3>1 DEF wifi_kind, Shown
    <3> HIDE DEF v
    <3>4. \A i \in SlotIds : values'[i].probe = values[i].probe
      BY <1>4, <3>1, <3>2
    <3>5. ProbeHeld'
      BY <1>0, <1>2, <2>1, <3>4 DEF ProbeHeld
    <3> QED
      BY <1>0, <1>4, <1>6, <1>7, <2>1, <2>2, <3>1, <3>2, <3>3, <3>5 DEF ProbeEnds
  <2>3. CASE Decide(FALSE, "EIO") /\ UNCHANGED values
    BY <1>0, <1>4, <1>6, <1>7, <1>8, <1>9, <2>1, <2>3 DEF ProbeEnds
  <2> QED
    BY <1>11, <2>2, <2>3 DEF StepInterface
<1>12. CASE StepPing(k)
  <2>1. slots[k].kind = "ping" /\ UNCHANGED wifiVars /\ ~wifi_kind(slots[k].kind)
    BY <1>12 DEF StepPing, wifi_kind
  <2>2. CASE values[k].probe = 0 /\ PingSubmit(k)
    <3>1. CASE Decide(FALSE, IF ping.used THEN "EAGAIN" ELSE "EIO") /\ UNCHANGED <<values, ping>>
      BY <1>0, <1>4, <1>6, <1>7, <1>8, <1>9, <2>1, <2>2, <3>1 DEF ProbeEnds
    <3>2. CASE /\ ping' = [used |-> TRUE, generation |-> ping.generation + 1, done |-> FALSE]
               /\ values' = [values EXCEPT ![k].probe = ping.generation + 1] /\ Decide(TRUE, "OK")
      <4> DEFINE v == [values[k] EXCEPT !.probe = ping.generation + 1]
      <4>1. /\ v \in [input : Token, output : Token, probe : Nat] /\ v.probe = ping.generation + 1
            /\ v.input = values[k].input /\ v.output = values[k].output
        BY <1>4
      <4>2. values' = [values EXCEPT ![k] = v]
        BY <3>2
      <4> HIDE DEF v
      <4>3. values'[k] = v
        BY <1>4, <4>2
      <4>4. /\ ping' \in [used : BOOLEAN, generation : Nat, done : BOOLEAN]
            /\ ping'.generation = ping.generation + 1 /\ ping'.generation # 0
        BY <1>4, <3>2
      <4>5. ProbeHeld'
        BY <1>2, <1>3, <2>1, <4>1, <4>3, <4>4 DEF ProbeHeld
      <4> QED
        BY <1>6, <1>7, <2>1, <3>2, <4>1, <4>2, <4>4, <4>5
    <3> QED
      BY <2>2, <3>1, <3>2 DEF PingSubmit
  <2>3. CASE PingCollect(k)
    <3> DEFINE mine == ping.used /\ ping.generation = values[k].probe
    <3>1. PICK ok \in BOOLEAN :
              /\ values' = [values EXCEPT ![k].probe = 0, ![k].output = IF ok THEN values[k].input ELSE @]
              /\ Decide(FALSE, IF ok THEN "OK" ELSE IF mine THEN "EIO" ELSE "EINTR")
      BY <2>3 DEF PingCollect
    <3> DEFINE v == [values[k] EXCEPT !.probe = 0, !.output = IF ok THEN values[k].input ELSE @]
    <3>2. /\ v \in [input : Token, output : Token, probe : Nat] /\ v.probe = 0
          /\ v.input = values[k].input /\ v.output = (IF ok THEN values[k].input ELSE values[k].output)
      BY <1>4
    <3>3. values' = [values EXCEPT ![k] = v]
      BY <3>1
    <3>4. values[k].output # values[k].input
      BY <1>3, <1>5, <2>1 DEF Shown
    <3> HIDE DEF v
    <3>5. \A i \in SlotIds \ {k} : values'[i].probe = values[i].probe
      BY <1>4, <3>3
    <3>6. /\ ping' \in [used : BOOLEAN, generation : Nat, done : BOOLEAN]
          /\ ProbeHeld' /\ (ping'.used => ping'.generation # 0)
      BY <1>2, <2>3, <3>5, ProbeForgotten DEF PingCollect
    <3>7. /\ outcome' \in [ready : BOOLEAN, pending : BOOLEAN, status : {"OK", "EINTR", "EIO", "EAGAIN"}]
          /\ Said(k)' <=> ok
      BY <1>6, <3>1
    <3> QED
      BY <1>7, <2>1, <3>2, <3>3, <3>4, <3>6, <3>7
  <2>4. CASE Decide(TRUE, "OK") /\ UNCHANGED <<values, ping>>
    BY <1>0, <1>4, <1>6, <1>7, <1>8, <1>9, <2>1, <2>4 DEF ProbeEnds
  <2> QED
    BY <1>12, <2>2, <2>3, <2>4 DEF StepPing
<1>13. CASE StepWifi(k)
  <2>1. wifi_kind(slots[k].kind) /\ UNCHANGED <<values, ping, firmware_busy>> /\ slots[k].kind # "ping"
    BY <1>13 DEF StepWifi, wifi_kind
  <2>2. CASE /\ RecordOf(owner.token) # {} /\ Decide(FALSE, "OK")
             /\ records' = [r \in Records |-> IF r \in RecordOf(owner.token)
                              THEN [records[r] EXCEPT !.output = owner.token] ELSE records[r]]
    <3>1. records' = [r \in Records |-> IF r \in RecordOf(TokenAt(k))
                         THEN [records[r] EXCEPT !.output = TokenAt(k)] ELSE records[r]]
      BY <1>3, <2>2
    <3>2. ASSUME NEW r \in Records
          PROVE  /\ records'[r].used = records[r].used /\ records'[r].token = records[r].token
                 /\ records'[r].firmware = records[r].firmware
                 /\ r \notin RecordOf(TokenAt(k)) => records'[r] = records[r]
                 /\ r \in RecordOf(TokenAt(k)) => records'[r].output = TokenAt(k)
                 /\ records'[r] \in [used : BOOLEAN, token : Token, output : Token, firmware : BOOLEAN]
      <4>1. records[r] \in [used : BOOLEAN, token : Token, output : Token, firmware : BOOLEAN]
        BY <1>4
      <4> QED
        BY <1>4, <3>1, <4>1
    <3>3. records' \in [Records -> [used : BOOLEAN, token : Token, output : Token, firmware : BOOLEAN]]
      BY <3>1, <3>2
    <3>4. Shapes'
      BY <1>0, <1>1, <1>2, <1>6, <2>1, <2>2, <3>3 DEF Shapes, wifiVars, cursors
    <3>5. RecordOf(TokenAt(k))' = RecordOf(TokenAt(k)) /\ RecordOf(TokenAt(k)) # {}
      BY <1>3, <1>5, <2>2, <3>2 DEF RecordOf
    <3>6. Said(k)' /\ Shown(k)'
      <4>1. PICK r \in RecordOf(TokenAt(k)) : TRUE
        BY <3>5
      <4>2. r \in Records
        BY <4>1 DEF RecordOf
      <4> QED
        BY <1>2, <1>5, <1>6, <2>1, <2>2, <3>2, <3>5, <4>1, <4>2 DEF Shown
    <3>7. ProbeHeld' /\ ProbeEnds'
      BY <1>0, <1>2, <1>3, <2>1 DEF ProbeHeld, ProbeEnds
    <3> QED
      BY <1>3, <2>1, <3>2, <3>4, <3>6, <3>7, StepFrame
  <2>3. CASE Decide(FALSE, "EIO") /\ UNCHANGED records
    BY <1>0, <1>4, <1>6, <1>7, <1>8, <1>9, <2>1, <2>3 DEF ProbeEnds, wifiVars
  <2> QED
    BY <1>13, <2>2, <2>3 DEF StepWifi
<1> QED
  BY <1>3, <1>10, <1>11, <1>12, <1>13 DEF Step

-----------------------------------------------------------------------------
(* Filling in the records, and releasing them                              *)

\* What such a step does not touch.
LEMMA RecordsFrame ==
    ASSUME NCIInv, UNCHANGED <<vars, call, moved, ping, ownerVars>>, Shapes',
           \A b \in Actors : /\ CallOf(b)'
                             /\ \/ pc'[b] = pc[b]
                                \/ pc[b] \in {"fill", "fill_fw"} /\ pc'[b] \in {"fill_fw", "publish", "abandon"},
           \A i \in SlotIds : AnswerIn(i)' /\ (slots[i].ticket = 0 \/ values'[i] = values[i]),
           RecordFence', HeldBack', OneUpload'
    PROVE  NCParts'
<1>1. UNCHANGED <<slots, registration, owner, online, next_ticket, outcome, turn, wakes>>
  BY DEF vars, ownerVars
<1>2. ASSUME NEW b \in Actors PROVE Admission(b)'
  <2>1. Admission(b) /\ token(b)' = token(b)
    BY <1>1 DEF NCIInv, NCParts, token
  <2>2. BeginResult(b)' = BeginResult(b) /\ (Offered(token(b).slot)' <=> Offered(token(b).slot))
    BY <1>1, <2>1 DEF BeginResult, ActorBusy, Live, Offered
  <2> QED
    BY <1>1, <2>1, <2>2 DEF Admission
<1>3. Deciding'
  BY <1>1 DEF NCIInv, NCParts, Deciding
<1>4. ASSUME NEW i \in SlotIds, slots[i].state \in {"CLAIMED", "PENDING"} PROVE values'[i] = values[i]
  BY <1>4 DEF NCIInv, NCParts, AnswerIn, Live
<1>5. ProbeHeld'
  BY <1>1, <1>4 DEF NCIInv, NCParts, ProbeHeld
<1>6. ProbeEnds'
  <2>1. ASSUME outcome.ready PROVE values'[owner.token.slot] = values[owner.token.slot]
    <3>1. owner.pc = "step"
      BY <2>1 DEF NCIInv, NCParts, Deciding
    <3> QED
      BY <1>4, <3>1, StepSlot
  <2> QED
    BY <1>1, <2>1 DEF NCIInv, NCParts, ProbeEnds
<1>7. NoLostWakeup'
  BY <1>1 DEF NCIInv, NCParts, NoLostWakeup, handoff_ready, matches, Live, token, Unlocked, Waking
<1> QED
  BY <1>2, <1>3, <1>5, <1>6, <1>7 DEF NCParts

\* The slot of a call that is filling in its record has no answer.
LEMMA FillingSlot ==
    ASSUME NCIInv, NEW a \in Actors, pc[a] \in {"fill", "fill_fw"}, UNCHANGED <<vars, ownerVars>>
    PROVE  \E k \in SlotIds :
               /\ token(a).slot = k /\ token(a) = TokenAt(k) /\ Live(k) /\ matches(token(a))
               /\ slots[k].caller /\ slots[k].actor = a /\ slots[k].kind = call[a]
               /\ slots[k].ticket = 0 /\ ~Said(k) /\ ~Said(k)' /\ TokenAt(k) # NoToken
               /\ wifi_kind(call[a]) => ~slots[k].cleaned
               /\ \A i \in SlotIds \ {k} : Live(i) => slots[i].actor \in Actors \ {a}
<1>1. PICK k \in SlotIds :
          /\ token(a).slot = k /\ token(a) = TokenAt(k) /\ Live(k) /\ matches(token(a))
          /\ slots[k].caller /\ slots[k].actor = a /\ slots[k].kind = call[a]
  BY CallSlot DEF Registering, Labels, Before
<1>2. slots[k].ticket = 0
  BY <1>1 DEF NCIInv, NCParts, CallOf
<1>3. ~Said(k)
  <2>1. slots[k].state = "PREPARED" \/ (slots[k].state = "COMPLETED" /\ slots[k].reply = "EINTR")
    BY <1>1, <1>2 DEF NCIInv, NCParts, AnswerIn
  <2>2. ~(owner.pc = "step" /\ owner.token.slot = k)
    BY <1>2, StepSlot
  <2> QED
    BY <2>1, <2>2 DEF Said
<1>4. Said(k)' <=> Said(k)
  BY DEF Said, vars, ownerVars
<1>5. TokenAt(k) # NoToken
  BY <1>1 DEF matches, NoToken
<1>6. wifi_kind(call[a]) => ~slots[k].cleaned
  BY <1>1 DEF NCIInv, NCParts, HeldBack
<1>7. ASSUME NEW i \in SlotIds \ {k}, Live(i) PROVE slots[i].actor \in Actors \ {a}
  <2>1. slots[i].actor \in Actors /\ token(slots[i].actor) = TokenAt(i)
    BY <1>7 DEF NCIInv, IInv, Registered, RegisteredAt, TokenAt, token
  <2> QED
    BY <1>1, <2>1 DEF TokenAt
<1> QED
  BY <1>1, <1>2, <1>3, <1>4, <1>5, <1>6, <1>7

\* The other slots are not affected by it.
LEMMA OthersAnswer ==
    ASSUME NCIInv, NEW a \in Actors, UNCHANGED <<vars, ownerVars>>, \A b \in Actors \ {a} : pc'[b] = pc[b],
           NEW i \in SlotIds, Live(i) => slots[i].actor \in Actors \ {a}, values'[i] = values[i],
           \A r \in Records : \/ records'[r] = records[r]
                              \/ /\ records[r].used => records[r].token # TokenAt(i)
                                 /\ records'[r].used => records'[r].token # TokenAt(i)
    PROVE  AnswerIn(i)'
<1>1. UNCHANGED <<slots, owner, outcome>>
  BY DEF vars, ownerVars
<1>2. AnswerIn(i) /\ TokenAt(i)' = TokenAt(i) /\ (Live(i)' <=> Live(i)) /\ (Said(i)' <=> Said(i))
  BY <1>1 DEF NCIInv, NCParts, TokenAt, Live, Said
<1>3. Live(i) => (Unfilled(i)' <=> Unfilled(i))
  BY <1>1 DEF Unfilled
<1>4. RecordOf(TokenAt(i))' = RecordOf(TokenAt(i)) /\ \A r \in RecordOf(TokenAt(i)) : records'[r] = records[r]
  BY <1>2 DEF RecordOf
<1>5. Shown(i)' <=> Shown(i)
  BY <1>1, <1>2, <1>4 DEF Shown
<1> QED
  BY <1>1, <1>2, <1>3, <1>5 DEF AnswerIn

\* The other calls keep their records.
LEMMA OthersCall ==
    ASSUME NCIInv, NEW b \in Actors, UNCHANGED <<vars, call>>, pc'[b] = pc[b],
           pc[b] \in {"fill", "fill_fw"} =>
              \A r \in Records : \/ records'[r] = records[r]
                                 \/ /\ records[r].used => records[r].token # token(b)
                                    /\ records'[r].used => records'[r].token # token(b)
    PROVE  CallOf(b)'
<1>1. UNCHANGED <<slots, registration>>
  BY DEF vars
<1>2. CallOf(b) /\ token(b)' = token(b)
  BY <1>1 DEF NCIInv, NCParts, token
<1>3. pc[b] \in {"fill", "fill_fw"} => RecordOf(token(b))' = RecordOf(token(b))
  BY <1>2 DEF RecordOf
<1> QED
  BY <1>1, <1>2, <1>3 DEF CallOf

\* An interface or ping call fills in its argument record.
LEMMA FillValueKeeps ==
    ASSUME NCIInv, NEW a \in Actors, pc[a] = "fill", ~wifi_kind(call[a]), Goto(a, "publish"),
           values' = [values EXCEPT ![token(a).slot] = [NoValue EXCEPT !.input = token(a)]],
           UNCHANGED <<vars, call, moved, wifiVars, ping, ownerVars>>
    PROVE  NCParts'
<1>0. Shapes /\ TypeOK
  BY DEF NCIInv, NCParts, IInv
<1>1. PICK k \in SlotIds :
          /\ token(a).slot = k /\ token(a) = TokenAt(k) /\ Live(k) /\ matches(token(a))
          /\ slots[k].caller /\ slots[k].actor = a /\ slots[k].kind = call[a]
          /\ slots[k].ticket = 0 /\ ~Said(k) /\ ~Said(k)' /\ TokenAt(k) # NoToken
          /\ \A i \in SlotIds \ {k} : Live(i) => slots[i].actor \in Actors \ {a}
  BY FillingSlot
<1>2. pc' = [pc EXCEPT ![a] = "publish"] /\ pc'[a] = "publish" /\ \A b \in Actors \ {a} : pc'[b] = pc[b]
  BY <1>0 DEF Goto, Shapes
<1>3. TokenAt(k) \in Token /\ NoToken \in Token
  BY <1>0, <1>1, HandoffAssumption DEF TypeOK, token, Token, NoToken, SlotIds
<1> DEFINE v == [NoValue EXCEPT !.input = TokenAt(k)]
<1>4. /\ v \in [input : Token, output : Token, probe : Nat]
      /\ v.input = TokenAt(k) /\ v.output = NoToken
  BY <1>3 DEF NoValue
<1>5. values' = [values EXCEPT ![k] = v]
  BY <1>1
<1> HIDE DEF v
<1>6. /\ values'[k].input = TokenAt(k) /\ values'[k].output = NoToken
      /\ \A i \in SlotIds \ {k} : values'[i] = values[i]
  BY <1>0, <1>4, <1>5 DEF Shapes
<1>7. UNCHANGED <<slots, registration, records, firmware_busy>>
  BY DEF vars, wifiVars
<1>8. Shapes'
  <2>1. values' \in [SlotIds -> [input : Token, output : Token, probe : Nat]]
    BY <1>0, <1>4, <1>5 DEF Shapes
  <2> QED
    BY <1>0, <1>2, <1>7, <2>1 DEF Shapes, Labels, ownerVars, cursors
<1>9. ASSUME NEW i \in SlotIds PROVE AnswerIn(i)'
  <2>1. CASE i = k
    <3>1. TokenAt(k)' = TokenAt(k) /\ ~wifi_kind(slots[k].kind)'
      BY <1>1, <1>7 DEF TokenAt
    <3>2. ~Shown(k)'
      BY <1>1, <1>6, <3>1 DEF Shown
    <3>3. AnswerIn(k)
      BY DEF NCIInv, NCParts
    <3> QED
      BY <1>1, <1>6, <1>7, <2>1, <3>1, <3>2, <3>3 DEF AnswerIn, Live
  <2>2. CASE i # k
    BY <1>1, <1>2, <1>6, <1>7, <2>2, OthersAnswer
  <2> QED
    BY <2>1, <2>2
<1>10. ASSUME NEW b \in Actors PROVE CallOf(b)'
  <2>1. CASE b = a
    <3>1. token(a)' = token(a) /\ CallOf(a)
      BY <1>7 DEF token, NCIInv, NCParts
    <3> QED
      BY <1>1, <1>2, <1>7, <2>1, <3>1 DEF CallOf, Registering, Labels, Before
  <2>2. CASE b # a
    BY <1>2, <1>7, <2>2, OthersCall
  <2> QED
    BY <2>1, <2>2
<1>11. RecordFence' /\ HeldBack'
  BY <1>7 DEF NCIInv, NCParts, RecordFence, HeldBack, matches, Live, Records
<1>12. OneUpload'
  <2>1. \A b \in Actors : pc'[b] = "fill_fw" <=> pc[b] = "fill_fw"
    BY <1>2
  <2> QED
    BY <1>7, <2>1 DEF NCIInv, NCParts, OneUpload, Records
<1> QED
  BY <1>1, <1>2, <1>6, <1>8, <1>9, <1>10, <1>11, <1>12, RecordsFrame

\* A Wi-Fi call takes a record.
LEMMA FillRecordKeeps ==
    ASSUME NCIInv, NEW a \in Actors, pc[a] = "fill", wifi_kind(call[a]), call[a] = "fw" => ~firmware_busy,
           NEW r \in Records, ~records[r].used,
           records' = [records EXCEPT ![r] = [NoRecord EXCEPT !.used = TRUE, !.token = token(a)]],
           firmware_busy' = (firmware_busy \/ call[a] = "fw"),
           Goto(a, IF call[a] = "fw" THEN "fill_fw" ELSE "publish"),
           UNCHANGED <<vars, call, moved, values, ping, ownerVars>>
    PROVE  NCParts'
<1>0. Shapes /\ TypeOK /\ RecordFence /\ HeldBack /\ OneUpload /\ CallOf(a)
  BY DEF NCIInv, NCParts, IInv
<1>1. PICK k \in SlotIds :
          /\ token(a).slot = k /\ token(a) = TokenAt(k) /\ Live(k) /\ matches(token(a))
          /\ slots[k].caller /\ slots[k].actor = a /\ slots[k].kind = call[a]
          /\ slots[k].ticket = 0 /\ ~Said(k) /\ ~Said(k)' /\ TokenAt(k) # NoToken /\ ~slots[k].cleaned
          /\ \A i \in SlotIds \ {k} : Live(i) => slots[i].actor \in Actors \ {a}
  BY FillingSlot
<1>2. PICK l \in {"fill_fw", "publish"} : Goto(a, l) /\ (l = "fill_fw" <=> call[a] = "fw")
  <2>1. CASE call[a] = "fw"
    BY <2>1
  <2>2. CASE call[a] # "fw"
    BY <2>2
  <2> QED
    BY <2>1, <2>2
<1>3. pc' = [pc EXCEPT ![a] = l] /\ pc'[a] = l /\ \A b \in Actors \ {a} : pc'[b] = pc[b]
  BY <1>0, <1>2 DEF Goto, Shapes
<1>4. TokenAt(k) \in Token /\ NoToken \in Token
  BY <1>0, <1>1, HandoffAssumption DEF TypeOK, token, Token, NoToken, SlotIds
<1> DEFINE v == [NoRecord EXCEPT !.used = TRUE, !.token = TokenAt(k)]
<1>5. /\ v \in [used : BOOLEAN, token : Token, output : Token, firmware : BOOLEAN]
      /\ v.used /\ v.token = TokenAt(k) /\ v.output = NoToken /\ ~v.firmware
  BY <1>4 DEF NoRecord
<1>6. records' = [records EXCEPT ![r] = v]
  BY <1>1
<1> HIDE DEF v
<1>7. records'[r] = v /\ \A q \in Records \ {r} : records'[q] = records[q]
  BY <1>0, <1>6 DEF Shapes
<1>8. UNCHANGED <<slots, registration, values>>
  BY DEF vars
<1>9. Shapes'
  <2>1. records' \in [Records -> [used : BOOLEAN, token : Token, output : Token, firmware : BOOLEAN]]
    BY <1>0, <1>5, <1>6 DEF Shapes
  <2>2. firmware_busy' \in BOOLEAN
    OBVIOUS
  <2> QED
    BY <1>0, <1>3, <1>8, <2>1, <2>2 DEF Shapes, Labels, ownerVars, cursors
<1>10. TokenAt(k)' = TokenAt(k) /\ token(a)' = token(a)
  BY <1>8 DEF TokenAt, token
<1>11. RecordOf(TokenAt(k)) = {} /\ RecordOf(TokenAt(k))' = {r}
  <2>1. RecordOf(TokenAt(k)) = {}
    BY <1>0, <1>1 DEF CallOf
  <2>2. ASSUME NEW q \in Records PROVE records'[q].used /\ records'[q].token = TokenAt(k) <=> q = r
    <3>1. CASE q = r
      BY <1>5, <1>7, <3>1
    <3>2. CASE q # r
      BY <1>7, <2>1, <3>2 DEF RecordOf
    <3> QED
      BY <3>1, <3>2
  <2> QED
    BY <1>10, <2>1, <2>2 DEF RecordOf, Records
<1>12. ASSUME NEW i \in SlotIds PROVE AnswerIn(i)'
  <2>1. CASE i = k
    <3>1. wifi_kind(slots[k].kind)'
      BY <1>1, <1>8
    <3>2. ~Shown(k)'
      BY <1>1, <1>5, <1>7, <1>10, <1>11, <3>1 DEF Shown
    <3>3. AnswerIn(k)
      BY DEF NCIInv, NCParts
    <3> QED
      BY <1>1, <1>8, <2>1, <3>1, <3>2, <3>3 DEF AnswerIn, Live
  <2>2. CASE i # k
    <3>1. TokenAt(i) # TokenAt(k)
      BY <2>2 DEF TokenAt
    <3> QED
      BY <1>1, <1>3, <1>5, <1>7, <1>8, <2>2, <3>1, OthersAnswer
  <2> QED
    BY <2>1, <2>2
<1>13. ASSUME NEW b \in Actors PROVE CallOf(b)'
  <2>1. CASE b = a
    <3>1. RecordOf(token(a))' # {}
      BY <1>1, <1>10, <1>11
    <3> QED
      BY <1>0, <1>1, <1>2, <1>3, <1>8, <1>10, <2>1, <3>1 DEF CallOf, Registering, Labels, Before
  <2>2. CASE b # a
    <3>1. pc[b] \in {"fill", "fill_fw"} => token(b) # TokenAt(k)
      <4>1. pc[b] \in {"fill", "fill_fw"} => \E i \in SlotIds : token(b) = TokenAt(i) /\ slots[i].actor = b
        BY FillingSlot
      <4> QED
        BY <1>1, <2>2, <4>1 DEF TokenAt
    <3> QED
      BY <1>3, <1>5, <1>7, <2>2, <3>1, OthersCall
  <2> QED
    BY <2>1, <2>2
<1>14. RecordFence'
  <2> SUFFICES ASSUME NEW p \in Records, records'[p].used
               PROVE  /\ matches(records[p].token)' /\ wifi_kind(slots[records[p].token.slot].kind)'
                      /\ \A q \in Records : records'[q].used /\ q # p => records'[q].token # records'[p].token
    BY DEF RecordFence, Records
  <2>1. CASE p = r
    <3>1. records'[p].token = token(a) /\ \A q \in Records \ {r} : records[q].used => records[q].token # token(a)
      BY <1>1, <1>5, <1>7, <1>11, <2>1 DEF RecordOf
    <3>2. matches(records[p].token)' /\ wifi_kind(slots[records[p].token.slot].kind)'
      BY <1>1, <1>8, <3>1 DEF matches, Live
    <3> QED
      BY <1>7, <2>1, <3>1, <3>2
  <2>2. CASE p # r
    <3>1. records'[p] = records[p] /\ records[p].used /\ records[p].token # TokenAt(k)
      BY <1>7, <1>11, <2>2 DEF RecordOf
    <3>2. matches(records[p].token)' /\ wifi_kind(slots[records[p].token.slot].kind)'
      BY <1>0, <1>8, <3>1 DEF RecordFence, matches, Live
    <3>3. ASSUME NEW q \in Records, records'[q].used, q # p PROVE records'[q].token # records'[p].token
      <4>1. CASE q = r
        BY <1>5, <1>7, <3>1, <4>1
      <4>2. CASE q # r
        <5>1. records'[q] = records[q]
          BY <1>7, <4>2
        <5> QED
          BY <1>0, <3>1, <3>3, <5>1 DEF RecordFence
      <4> QED
        BY <4>1, <4>2
    <3> QED
      BY <3>2, <3>3
  <2> QED
    BY <2>1, <2>2
<1>15. HeldBack'
  <2>1. ASSUME NEW p \in Records
        PROVE  /\ records'[p].used => ~slots'[records'[p].token.slot].cleaned
               /\ records'[p].firmware => records'[p].used
    <3>1. CASE p = r
      <4>1. TokenAt(k).slot = k
        BY DEF TokenAt
      <4> QED
        BY <1>1, <1>5, <1>7, <1>8, <3>1, <4>1
    <3>2. CASE p # r
      BY <1>0, <1>7, <1>8, <3>2 DEF HeldBack
    <3> QED
      BY <3>1, <3>2
  <2> QED
    BY <1>0, <1>8, <2>1 DEF HeldBack, Live, Records
<1>16. OneUpload'
  <2>1. ~records[r].firmware
    BY <1>0 DEF HeldBack
  <2>2. \A q \in Records : records'[q].firmware = records[q].firmware
    BY <1>0, <1>5, <1>7, <2>1 DEF Shapes
  <2>3. CASE l = "publish"
    <3>1. \A b \in Actors : pc'[b] = "fill_fw" <=> pc[b] = "fill_fw"
      BY <1>3, <2>3
    <3>2. firmware_busy' = firmware_busy
      BY <1>0, <1>2, <2>3 DEF Shapes
    <3> QED
      BY <1>0, <2>2, <3>1, <3>2 DEF OneUpload, Records
  <2>4. CASE l = "fill_fw"
    <3>1. /\ \A q \in Records : ~records[q].firmware
          /\ \A b \in Actors : pc[b] # "fill_fw"
          /\ firmware_busy'
      BY <1>0, <1>2, <2>4 DEF OneUpload
    <3>2. \A b \in Actors : pc'[b] = "fill_fw" <=> b = a
      BY <1>3, <2>4, <3>1
    <3> QED
      BY <2>2, <3>1, <3>2 DEF OneUpload, Records
  <2> QED
    BY <2>3, <2>4
<1> QED
  BY <1>3, <1>8, <1>9, <1>12, <1>13, <1>14, <1>15, <1>16, RecordsFrame

\* The firmware buffer is allocated, or not.
LEMMA FirmwareKeeps ==
    ASSUME NCIInv, NEW a \in Actors, FillFirmware(a)
    PROVE  NCParts'
<1>0. Shapes /\ TypeOK /\ RecordFence /\ HeldBack /\ OneUpload /\ CallOf(a)
  BY DEF NCIInv, NCParts, IInv
<1>1. pc[a] = "fill_fw" /\ UNCHANGED <<vars, call, moved, values, ping, ownerVars>>
  BY DEF FillFirmware
<1>2. PICK k \in SlotIds :
          /\ token(a).slot = k /\ token(a) = TokenAt(k) /\ Live(k)
          /\ slots[k].actor = a /\ slots[k].kind = call[a]
          /\ slots[k].ticket = 0 /\ ~Said(k) /\ ~Said(k)'
          /\ \A i \in SlotIds \ {k} : Live(i) => slots[i].actor \in Actors \ {a}
  BY <1>1, FillingSlot
<1>3. PICK l \in {"publish", "abandon"} : Goto(a, l)
  BY DEF FillFirmware, FirmwareNoMemory
<1>4. pc' = [pc EXCEPT ![a] = l] /\ pc'[a] = l /\ \A b \in Actors \ {a} : pc'[b] = pc[b]
  BY <1>0, <1>3 DEF Goto, Shapes
<1>5. UNCHANGED <<slots, registration, values>>
  BY <1>1 DEF vars
<1>6. /\ call[a] = "fw" /\ RecordOf(token(a)) # {} /\ firmware_busy
      /\ \A q \in Records : ~records[q].firmware
      /\ \A b \in Actors : pc[b] = "fill_fw" <=> b = a
  BY <1>0, <1>1 DEF CallOf, OneUpload
<1>7. \A b \in Actors : pc'[b] # "fill_fw"
  BY <1>4, <1>6
<1>8. \/ records' = [q \in Records |-> IF q \in RecordOf(token(a)) THEN [records[q] EXCEPT !.firmware = TRUE]
                                       ELSE records[q]] /\ firmware_busy'
      \/ UNCHANGED records /\ firmware_busy' = FALSE
  BY <1>6 DEF FillFirmware, FirmwareNoMemory
<1>9. ASSUME NEW q \in Records
      PROVE  /\ records'[q].used = records[q].used /\ records'[q].token = records[q].token
             /\ records'[q].output = records[q].output
             /\ records'[q].firmware \in BOOLEAN
             /\ records'[q].firmware <=> firmware_busy' /\ q \in RecordOf(token(a))
             /\ records'[q] \in [used : BOOLEAN, token : Token, output : Token, firmware : BOOLEAN]
  <2>1. records[q] \in [used : BOOLEAN, token : Token, output : Token, firmware : BOOLEAN] /\ ~records[q].firmware
    BY <1>0, <1>6 DEF Shapes
  <2> QED
    BY <1>8, <2>1
<1>10. records' \in [Records -> [used : BOOLEAN, token : Token, output : Token, firmware : BOOLEAN]]
  BY <1>0, <1>8, <1>9 DEF Shapes
<1>11. Shapes'
  BY <1>0, <1>1, <1>4, <1>5, <1>8, <1>10 DEF Shapes, Labels, ownerVars, cursors
<1>12. ASSUME NEW t PROVE {q \in Records : records'[q].used /\ records'[q].token = t} = RecordOf(t)
  BY <1>9 DEF RecordOf
<1>13. ASSUME NEW i \in SlotIds PROVE AnswerIn(i)'
  <2>1. AnswerIn(i) /\ TokenAt(i)' = TokenAt(i) /\ (Live(i)' <=> Live(i)) /\ (Said(i)' <=> Said(i))
    BY <1>1, <1>5 DEF NCIInv, NCParts, TokenAt, Live, Said, vars, ownerVars
  <2>2. RecordOf(TokenAt(i))' = RecordOf(TokenAt(i)) /\ RecordOf(TokenAt(i)) \subseteq Records
    BY <1>12, <2>1 DEF RecordOf
  <2>3. Shown(i)' <=> Shown(i)
    BY <1>5, <1>9, <2>1, <2>2 DEF Shown
  <2>4. Live(i) => (Unfilled(i)' <=> Unfilled(i))
    <3>1. CASE i = k
      BY <1>2, <1>5, <1>6, <3>1 DEF Unfilled, wifi_kind
    <3>2. CASE i # k
      BY <1>2, <1>4, <1>5, <3>2 DEF Unfilled
    <3> QED
      BY <3>1, <3>2
  <2> QED
    BY <1>5, <2>1, <2>3, <2>4 DEF AnswerIn
<1>14. ASSUME NEW b \in Actors PROVE CallOf(b)'
  <2>1. CallOf(b) /\ token(b)' = token(b)
    BY <1>5 DEF NCIInv, NCParts, token
  <2>2. RecordOf(token(b))' = RecordOf(token(b))
    BY <1>12, <2>1 DEF RecordOf
  <2>3. CASE b = a
    BY <1>1, <1>4, <1>5, <2>1, <2>3 DEF CallOf, Registering, Labels, Before
  <2>4. CASE b # a
    BY <1>1, <1>4, <1>5, <2>1, <2>2, <2>4 DEF CallOf
  <2> QED
    BY <2>3, <2>4
<1>15. RecordFence'
  BY <1>0, <1>5, <1>9 DEF RecordFence, matches, Live, Records
<1>16. HeldBack'
  <2>1. \A q \in Records : records'[q].firmware => records'[q].used
    BY <1>9 DEF RecordOf
  <2> QED
    BY <1>0, <1>5, <1>9, <2>1 DEF HeldBack, Live, Records
<1>17. OneUpload'
  <2>1. PICK p \in Records : RecordOf(token(a)) = {p}
    <3>1. PICK p \in Records : p \in RecordOf(token(a))
      BY <1>6 DEF RecordOf
    <3>2. \A q \in RecordOf(token(a)) : q = p
      BY <1>0, <3>1 DEF RecordOf, RecordFence
    <3> QED
      BY <3>1, <3>2
  <2>2. \A q \in Records : records'[q].firmware <=> firmware_busy' /\ q = p
    BY <1>9, <2>1
  <2> QED
    BY <1>7, <1>8, <2>1, <2>2 DEF OneUpload, Records
<1> QED
  BY <1>1, <1>4, <1>5, <1>11, <1>13, <1>14, <1>15, <1>16, <1>17, RecordsFrame

\* Filling in a record.
LEMMA FillKeeps ==
    ASSUME NCIInv, IInv', NEW a \in Actors, Fill(a)
    PROVE  NCParts'
<1>1. pc[a] = "fill"
  BY DEF Fill
<1>2. CASE /\ ~wifi_kind(call[a]) /\ values' = [values EXCEPT ![token(a).slot] = [NoValue EXCEPT !.input = token(a)]]
           /\ Goto(a, "publish") /\ UNCHANGED <<vars, call, moved, wifiVars, ping, ownerVars>>
  BY <1>1, <1>2, FillValueKeeps
<1>3. CASE /\ wifi_kind(call[a]) /\ (call[a] = "fw" => ~firmware_busy)
           /\ \E r \in Records :
                /\ ~records[r].used
                /\ records' = [records EXCEPT ![r] = [NoRecord EXCEPT !.used = TRUE, !.token = token(a)]]
           /\ firmware_busy' = (firmware_busy \/ call[a] = "fw")
           /\ Goto(a, IF call[a] = "fw" THEN "fill_fw" ELSE "publish")
           /\ UNCHANGED <<vars, call, moved, values, ping, ownerVars>>
  BY <1>1, <1>3, FillRecordKeeps
<1>4. CASE Refuse(a)
  BY <1>1, <1>4, EndsKeep
<1> QED
  BY <1>2, <1>3, <1>4 DEF Fill

\* Maintenance wipes the record of a request whose caller has left.
LEMMA WifiReleaseKeeps ==
    ASSUME NCIInv, WifiRelease
    PROVE  NCParts'
<1>0. Shapes /\ TypeOK /\ RecordFence /\ HeldBack /\ OneUpload /\ HeldClaimed
  BY DEF NCIInv, NCParts, IInv
<1>1. /\ owner.pc = "clean" /\ UNCHANGED <<vars, callerVars, moved, values, ping, ownerVars>>
      /\ UNCHANGED <<slots, registration, pc, call>>
  BY DEF WifiRelease, vars, callerVars
<1>2. PICK k \in SlotIds : owner.token.slot = k /\ owner.token = [slot |-> k, generation |-> owner.token.generation]
  BY <1>0 DEF TypeOK, Token
<1>3. /\ matches(owner.token) /\ slots[k].state = "COMPLETED" /\ ~slots[k].caller
      /\ wifi_kind(slots[k].kind)
  BY <1>0, <1>1, <1>2, NetControlAssumption DEF HeldClaimed, Disposable, wifi_kind
<1>4. owner.token = TokenAt(k)
  BY <1>2, <1>3 DEF matches, TokenAt
<1> DEFINE gone == RecordOf(TokenAt(k))
<1>5. /\ records' = [q \in Records |-> IF q \in gone THEN NoRecord ELSE records[q]]
      /\ firmware_busy' = (firmware_busy /\ \A q \in gone : ~records[q].firmware)
  BY <1>4 DEF WifiRelease
<1>6. /\ NoRecord \in [used : BOOLEAN, token : Token, output : Token, firmware : BOOLEAN]
      /\ ~NoRecord.used /\ ~NoRecord.firmware
  <2>1. NoToken \in Token
    BY HandoffAssumption DEF NoToken, Token, SlotIds
  <2> QED
    BY <2>1 DEF NoRecord
<1>7. ASSUME NEW q \in Records
      PROVE  /\ q \in gone => ~records'[q].used /\ ~records'[q].firmware
             /\ q \notin gone => records'[q] = records[q]
             /\ q \in gone <=> records[q].used /\ records[q].token = TokenAt(k)
  BY <1>5, <1>6 DEF RecordOf
<1> HIDE DEF gone
<1>8. Shapes'
  <2>1. records' \in [Records -> [used : BOOLEAN, token : Token, output : Token, firmware : BOOLEAN]]
    BY <1>0, <1>5, <1>6 DEF Shapes
  <2> QED
    BY <1>0, <1>1, <1>5, <2>1 DEF Shapes, ownerVars, cursors
<1>9. ASSUME NEW i \in SlotIds PROVE AnswerIn(i)'
  <2>1. AnswerIn(i) /\ TokenAt(i)' = TokenAt(i) /\ (Live(i)' <=> Live(i)) /\ (Said(i)' <=> Said(i))
          /\ (Unfilled(i)' <=> Unfilled(i))
    BY <1>1 DEF NCIInv, NCParts, TokenAt, Live, Said, Unfilled, vars, ownerVars
  <2>2. CASE i = k
    BY <1>1, <1>3, <2>1, <2>2 DEF AnswerIn
  <2>3. CASE i # k
    <3>1. TokenAt(i) # TokenAt(k)
      BY <2>3 DEF TokenAt
    <3>2. /\ RecordOf(TokenAt(i))' = RecordOf(TokenAt(i))
          /\ \A q \in RecordOf(TokenAt(i)) : records'[q] = records[q]
      BY <1>7, <2>1, <3>1 DEF RecordOf
    <3>3. Shown(i)' <=> Shown(i)
      BY <1>1, <2>1, <3>2 DEF Shown
    <3> QED
      BY <1>1, <2>1, <3>3 DEF AnswerIn
  <2> QED
    BY <2>2, <2>3
<1>10. ASSUME NEW b \in Actors PROVE CallOf(b)'
  <2>1. pc[b] \in {"fill", "fill_fw"} => token(b) # TokenAt(k)
    <3>1. pc[b] \in {"fill", "fill_fw"} => \E i \in SlotIds : token(b) = TokenAt(i) /\ slots[i].caller
      BY CallSlot DEF Registering, Labels, Before
    <3> QED
      BY <1>3, <3>1 DEF TokenAt
  <2> QED
    BY <1>1, <1>7, <2>1, OthersCall
<1>11. RecordFence'
  BY <1>0, <1>1, <1>7 DEF RecordFence, matches, Live, Records
<1>12. HeldBack'
  BY <1>0, <1>1, <1>7 DEF HeldBack, Live, Records
<1>13. OneUpload'
  <2>1. CASE \E q \in gone : records[q].firmware
    <3>1. PICK q \in Records : q \in gone /\ records[q].firmware
      BY <2>1 DEF gone, RecordOf
    <3>2. /\ ~firmware_busy' /\ \A b \in Actors : pc[b] # "fill_fw"
          /\ \A p \in Records : ~records'[p].firmware
      BY <1>0, <1>5, <1>7, <3>1 DEF OneUpload
    <3> QED
      BY <1>1, <3>2 DEF OneUpload, Records
  <2>2. CASE ~\E q \in gone : records[q].firmware
    <3>1. \A p \in Records : records'[p].firmware <=> records[p].firmware
      BY <1>7, <2>2
    <3>2. firmware_busy' <=> firmware_busy
      BY <1>5, <2>2
    <3> QED
      BY <1>0, <1>1, <3>1, <3>2 DEF OneUpload, Records
  <2> QED
    BY <2>1, <2>2
<1> QED
  BY <1>1, <1>8, <1>9, <1>10, <1>11, <1>12, <1>13, RecordsFrame DEF callerVars

-----------------------------------------------------------------------------
(* The invariant                                                           *)

\* It holds at boot.
LEMMA NCInitInv == NCInit => NCIInv
<1> SUFFICES ASSUME NCInit PROVE NCIInv
  OBVIOUS
<1>1. IInv
  BY InitInv DEF NCInit
<1>2. /\ \A i \in SlotIds : ~Live(i)
      /\ \A a \in Actors : ~registration[a].active /\ pc[a] = "idle"
      /\ \A r \in Records : ~records[r].used /\ ~records[r].firmware
      /\ owner.pc = "idle" /\ ~outcome.ready /\ ~ping.used /\ firmware_busy = FALSE
  BY DEF NCInit, Init, Live, EmptySlot, NoRecord, NoOutcome
<1>3. Shapes
  <2>1. NoToken \in Token /\ 0 \in SlotIds
    BY HandoffAssumption DEF NoToken, Token, SlotIds
  <2>2. values \in [SlotIds -> [input : Token, output : Token, probe : Nat]]
    BY <2>1 DEF NCInit, NoValue
  <2>3. records \in [Records -> [used : BOOLEAN, token : Token, output : Token, firmware : BOOLEAN]]
    BY <2>1 DEF NCInit, NoRecord
  <2>4. pc \in [Actors -> Labels] /\ call \in [Actors -> Kinds \cup {NoKind}]
    BY DEF NCInit, Labels
  <2> QED
    BY <2>1, <2>2, <2>3, <2>4 DEF Shapes, NCInit, NoOutcome
<1>4. \A a \in Actors : CallOf(a) /\ Admission(a)
  BY <1>2 DEF CallOf, Admission, Registering, Labels, Before
<1>5. Deciding /\ (\A i \in SlotIds : AnswerIn(i)) /\ RecordFence /\ HeldBack
  BY <1>2 DEF Deciding, AnswerIn, RecordFence, HeldBack
<1>6. OneUpload /\ ProbeHeld /\ ProbeEnds /\ NoLostWakeup
  BY <1>2 DEF OneUpload, ProbeHeld, ProbeEnds, NoLostWakeup
<1> QED
  BY <1>1, <1>3, <1>4, <1>5, <1>6 DEF NCIInv, NCParts

\* Every step keeps it.
LEMMA NCStepInv == NCIInv /\ [NCNext]_ncVars => NCIInv'
<1> SUFFICES ASSUME NCIInv, [NCNext]_ncVars PROVE NCIInv'
  OBVIOUS
<1>1. IInv'
  BY StepSimulates
<1> SUFFICES NCParts'
  BY <1>1 DEF NCIInv
<1>2. CASE Start \/ Fail
  BY <1>1, <1>2, StartKeeps, FailKeeps
<1>3. ASSUME NEW a \in Actors, Call(a) \/ CallerNext(a) \/ Interrupted(a) PROVE NCParts'
  BY <1>1, <1>3, LoopsKeep, BeginKeeps, FillKeeps, FirmwareKeeps, PublishKeeps, EndsKeep DEF CallerNext
<1>4. CASE OwnerNext
  BY <1>1, <1>4, AcknowledgeKeeps, AcknowledgeWakeKeeps, MaintenanceKeeps, WifiReleaseKeeps, WifiCleanedKeeps, ClaimKeeps,
     PendingKeeps, StepKeeps, FinishKeeps DEF OwnerNext
<1>5. CASE UNCHANGED ncVars
  <2>1. Shapes' /\ UNCHANGED <<vars, callerVars, moved, dataVars, outcome, wakes, turn>>
    BY <1>5 DEF NCIInv, NCParts, Shapes, ncVars, callerVars, dataVars, wifiVars, ownerVars, cursors
  <2> QED
    BY <1>1, <2>1, LoopEndKeeps
<1> QED
  BY <1>2, <1>3, <1>4, <1>5 DEF NCNext

-----------------------------------------------------------------------------
(* The theorems                                                            *)

\* The transport's invariant and the parts above hold in every state of the
\* callers and the worker.
THEOREM NCInvariance == NCSpec => []NCIInv
BY NCInitInv, NCStepInv, PTL DEF NCSpec

\* The callers of net_control.c and net_wifi_owner.c and the worker use the
\* transport as its contract allows: every step is one of Handoff's, so all
\* that HandoffProofs shows of the table holds for them.
THEOREM ControlRefinesHandoff == NCSpec => Spec
<1>1. NCInit => Init
  BY DEF NCInit
<1>2. NCIInv /\ [NCNext]_ncVars => [Next]_vars
  BY StepSimulates
<1> QED
  BY <1>1, <1>2, NCInvariance, PTL DEF NCSpec, Spec

\* The ping engine in use is known to a request in the owner's hands.
THEOREM ProbesHeld == NCSpec => []ProbeHeld
<1>1. NCIInv => ProbeHeld
  BY DEF NCIInv, NCParts
<1> QED
  BY <1>1, NCInvariance, PTL

\* Nobody sleeps through a completion or a move of the admission sequence.
THEOREM CallersWoken == NCSpec => []NoLostWakeup
<1>1. NCIInv => NoLostWakeup
  BY DEF NCIInv, NCParts
<1> QED
  BY <1>1, NCInvariance, PTL

\* A Wi-Fi record in use belongs to one live request, and to no other.
THEOREM RecordsFenced == NCSpec => []RecordFence
<1>1. NCIInv => RecordFence
  BY DEF NCIInv, NCParts
<1> QED
  BY <1>1, NCInvariance, PTL

\* firmware_busy is set exactly while one call uploads firmware.
THEOREM FirmwareFenced == NCSpec => []FirmwareFence
<1>1. NCIInv => FirmwareFence
  <2> SUFFICES ASSUME OneUpload PROVE FirmwareFence
    BY DEF NCIInv, NCParts
  <2> DEFINE holders == {r \in Records : records[r].firmware} \cup {a \in Actors : pc[a] = "fill_fw"}
  <2>1. holders = {} \/ \E x : holders = {x}
    <3>1. CASE \E r \in Records : records[r].firmware
      <4>1. PICK r \in Records : records[r].firmware
        BY <3>1
      <4>2. holders = {r}
        BY <4>1 DEF OneUpload
      <4> QED
        BY <4>2
    <3>2. CASE \E a \in Actors : pc[a] = "fill_fw"
      <4>1. PICK a \in Actors : pc[a] = "fill_fw"
        BY <3>2
      <4>2. holders = {a}
        BY <4>1 DEF OneUpload
      <4> QED
        BY <4>2
    <3> QED
      BY <3>1, <3>2
  <2>2. Cardinality(holders) <= 1
    <3> HIDE DEF holders
    <3>1. CASE holders = {}
      <4>1. Cardinality(holders) = 0
        BY <3>1, FS_EmptySet
      <4> QED
        BY <4>1
    <3>2. ASSUME NEW x, holders = {x} PROVE Cardinality(holders) <= 1
      <4>1. Cardinality(holders) = 1
        BY <3>2, FS_Singleton
      <4> QED
        BY <4>1
    <3> QED
      BY <2>1, <3>1, <3>2
  <2>3. firmware_busy <=> holders # {}
    BY DEF OneUpload
  <2> QED
    BY <2>2, <2>3 DEF FirmwareFence
<1> QED
  BY <1>1, NCInvariance, PTL

\* A caller asleep in admission could not get further, or the owner, hinted,
\* will admit it.
THEOREM AdmissionSleeps == NCSpec => []AdmissionSleep
<1>1. NCIInv => AdmissionSleep
  <2> SUFFICES ASSUME NCIInv, NEW a \in Actors, Unlocked, a \notin moved
               PROVE  /\ pc[a] = "begin_sleep" => BeginResult(a) \in {"WAIT", "EXHAUSTED"}
                      /\ pc[a] = "publish_sleep" =>
                           \/ PublishResult(token(a)) = "WAIT"
                           \/ PublishResult(token(a)) = "OK" /\ work
    BY DEF AdmissionSleep
  <2>1. Admission(a)
    BY DEF NCIInv, NCParts
  <2>2. ASSUME pc[a] = "publish_sleep"
        PROVE  \/ PublishResult(token(a)) = "WAIT"
               \/ PublishResult(token(a)) = "OK" /\ work
    <3>1. PICK k \in SlotIds : token(a).slot = k /\ matches(token(a))
      BY <2>2, CallSlot DEF Registering, Labels, Before
    <3>2. online /\ Offered(k)
      BY <2>1, <2>2, <3>1 DEF Admission
    <3>3. Admissible(token(a)) /\ slots[k].ticket # 0
      BY <3>1, <3>2 DEF Admissible, Offered
    <3>4. PublishResult(token(a)) \in {"OK", "WAIT"}
      BY <3>1, <3>2, <3>3 DEF PublishResult
    <3>5. work
      BY <3>2 DEF NCIInv, IInv, OwnerHint, Runnable, Offered
    <3> QED
      BY <3>4, <3>5
  <2> QED
    BY <2>1, <2>2 DEF Admission
<1> QED
  BY <1>1, NCInvariance, PTL

\* A caller about to collect finds the answer to its own request exactly when
\* the reply says OK.
THEOREM AnswersOwn == NCSpec => []AnswerOwn
<1>1. NCIInv => AnswerOwn
  <2> SUFFICES ASSUME NCIInv, NEW a \in Actors, pc[a] = "collect"
               PROVE  /\ CollectResult(token(a)) = "OK"
                      /\ slots[token(a).slot].reply = "OK" <=> Answer(a) = token(a)
    BY DEF AnswerOwn
  <2>1. PICK k \in SlotIds :
            /\ token(a).slot = k /\ token(a) = TokenAt(k) /\ Live(k) /\ matches(token(a))
            /\ slots[k].caller /\ slots[k].actor = a /\ slots[k].kind = call[a]
    BY CallSlot DEF Registering, Labels, Before
  <2>2. slots[k].state = "COMPLETED" /\ AnswerIn(k) /\ RecordFence
    BY <2>1 DEF NCIInv, NCParts, CallOf
  <2>3. CollectResult(token(a)) = "OK"
    BY <2>1, <2>2 DEF CollectResult
  <2>4. slots[k].reply = "OK" <=> Shown(k)
    BY <2>1, <2>2 DEF AnswerIn, Said, Unfilled
  <2>5. Shown(k) <=> Answer(a) = token(a)
    <3>1. CASE ~wifi_kind(call[a])
      BY <2>1, <3>1 DEF Shown, Answer
    <3>2. CASE wifi_kind(call[a]) /\ RecordOf(TokenAt(k)) = {}
      <4>1. token(a) # NoToken
        BY <2>1 DEF matches, NoToken
      <4> QED
        BY <2>1, <3>2, <4>1 DEF Shown, Answer
    <3>3. CASE wifi_kind(call[a]) /\ RecordOf(TokenAt(k)) # {}
      <4>1. PICK p \in RecordOf(TokenAt(k)) : p = CHOOSE r \in RecordOf(TokenAt(k)) : TRUE
        BY <3>3
      <4>2. \A q \in RecordOf(TokenAt(k)) : q = p
        BY <2>2, <4>1 DEF RecordOf, RecordFence
      <4>3. Answer(a) = records[p].output
        BY <2>1, <3>3, <4>1 DEF Answer
      <4>4. Shown(k) <=> records[p].output = TokenAt(k)
        BY <2>1, <3>3, <4>1, <4>2 DEF Shown
      <4> QED
        BY <2>1, <4>3, <4>4
    <3> QED
      BY <3>1, <3>2, <3>3
  <2> QED
    BY <2>1, <2>3, <2>4, <2>5
<1> QED
  BY <1>1, NCInvariance, PTL

=============================================================================
