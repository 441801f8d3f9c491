----------------------------- MODULE NetControl -----------------------------
(***************************************************************************)
(* The consumers of the request transport: threads in net_control_call     *)
(* (interface configuration and ping, src/src/net/net_control.c) and in    *)
(* net_wifi_syscall (src/src/net/net_wifi_owner.c), and the network worker *)
(* of src/src/net/net.c that owns the transport and, once per turn, runs   *)
(* the ping engine (src/src/net/net_ping.c) and net_control_service.       *)
(*                                                                         *)
(* What crosses between caller and owner outside the transport's lock is   *)
(* modelled here: the per-slot argument records (values), the Wi-Fi        *)
(* records, sleeping and waking, and the rotating cursors.  A request's    *)
(* arguments and its answer are represented by the token of the request    *)
(* they belong to, so that a mix-up between requests is visible.           *)
(*                                                                         *)
(* The kinds are "if" (interface configuration), "ping" (an echo or trace  *)
(* probe), "fw" (the Wi-Fi command that loads firmware) and "wifi" (the    *)
(* others).  Clocks only move forward here: the code's checks for a tick   *)
(* counter that ran backwards are left out, and so is the echo probe that  *)
(* the boot-time self test of net.c submits without a request.             *)
(***************************************************************************)
EXTENDS Handoff

CONSTANTS
    WIFI_RECORDS     \* 4 in the code

ASSUME NetControlAssumption ==
    /\ WIFI_RECORDS \in Nat \ {0}
    /\ Kinds \subseteq {"if", "ping", "wifi", "fw"}
    /\ ControlKinds = Kinds
    /\ RetainedKinds = Kinds \cap {"wifi", "fw"}
    /\ {"OK", "EINTR", "EIO", "EAGAIN"} \subseteq Statuses

VARIABLES
    pc,          \* per actor: where it is in its system call
    call,        \* per actor: the kind of the call
    moved,       \* actors whose snapshot of admission_sequence is outdated
    values,      \* per slot: control_slot_t
    records,     \* the Wi-Fi records
    firmware_busy,
    ping,        \* the single ping engine
    turn,        \* the worker: phase of its turn, and loop counter
    outcome,     \* what the typed step in progress will pass to handoff_finish
    wakes,       \* slots whose channel handoff_acknowledge will wake
    ack_cursor, pending_cursor, inspect_cursor     \* modulo HANDOFF_SLOTS

callerVars == <<pc, call>>
cursors == <<ack_cursor, pending_cursor, inspect_cursor>>
ownerVars == <<turn, outcome, wakes, cursors>>
wifiVars == <<records, firmware_busy>>
dataVars == <<values, wifiVars, ping>>
ncVars == <<vars, callerVars, moved, dataVars, ownerVars>>

Records == 1 .. WIFI_RECORDS
NoRecord == [used |-> FALSE, token |-> NoToken, output |-> NoToken, firmware |-> FALSE]
NoOutcome == [ready |-> FALSE, pending |-> FALSE, status |-> "OK"]
NoValue == [input |-> NoToken, output |-> NoToken, probe |-> 0]

NCInit ==
    /\ Init
    /\ pc = [a \in Actors |-> "idle"]
    /\ call = [a \in Actors |-> NoKind]
    /\ moved = {}
    /\ values = [i \in SlotIds |-> NoValue]
    /\ records = [r \in Records |-> NoRecord]
    /\ firmware_busy = FALSE
    /\ ping = [used |-> FALSE, generation |-> 0, done |-> FALSE]
    /\ turn = [phase |-> "ack", n |-> 0]
    /\ outcome = NoOutcome
    /\ wakes = {}
    /\ ack_cursor = 0 /\ pending_cursor = 0 /\ inspect_cursor = 0

-----------------------------------------------------------------------------
(* Sleeping and waking                                                     *)

token(a) == registration[a].token

\* sched_wait_until puts a thread to sleep only while its predicate is false,
\* and a woken thread evaluates it again.  So a wake-up moves exactly the
\* sleepers whose predicate has become true; the others sleep on.
WakeAdmission(p, m) ==
    [a \in Actors |-> IF a \in m /\ p[a] = "begin_sleep" THEN "begin_wait"
                      ELSE IF a \in m /\ p[a] = "publish_sleep" THEN "publish_wait"
                      ELSE p[a]]

\* Mutant: the owner finishes without waking the caller.
WakeNobody(p, S) == p

WakeSlots(p, S) ==
    [a \in Actors |-> IF p[a] = "sleep" /\ token(a).slot \in S THEN "wait" ELSE p[a]]

-----------------------------------------------------------------------------
(* Callers: net_control_call and net_wifi_syscall                          *)

Goto(a, label) == pc' = [pc EXCEPT ![a] = label]

Return(a) ==
    /\ Goto(a, "idle")
    /\ call' = [call EXCEPT ![a] = NoKind]
    /\ UNCHANGED <<moved, dataVars, ownerVars>>

\* handoff_abandon and return.
Abandon(a) == handoff_release(a) /\ Return(a)

Stay == UNCHANGED <<call, dataVars, ownerVars>>

Call(a) ==
    /\ pc[a] = "idle"
    /\ \E k \in Kinds : call' = [call EXCEPT ![a] = k]
    /\ Goto(a, "begin")
    /\ UNCHANGED <<vars, moved, dataVars, ownerVars>>

\* Top of the first loop: the snapshot of admission_sequence.
BeginLoop(a) ==
    /\ pc[a] = "begin"
    /\ moved' = moved \ {a}
    /\ Goto(a, "begin_call")
    /\ Stay /\ UNCHANGED vars

BeginCall(a) ==
    /\ pc[a] = "begin_call" /\ Unlocked
    /\ \/ /\ handoff_begin(a, call[a])
          /\ Goto(a, "fill")
          /\ Stay /\ UNCHANGED moved
       \/ /\ BeginResult(a) = "WAIT"
          /\ Goto(a, "begin_wait")
          /\ Stay /\ UNCHANGED <<vars, moved>>
       \/ /\ BeginResult(a) \in {"STALE", "UNAVAILABLE", "EXHAUSTED"}
          /\ Return(a)
          /\ UNCHANGED vars

\* sched_wait_until(&handoff_admission_channel, ...) in either loop.
AdmissionWait(a, wait, sleep, top) ==
    /\ pc[a] = wait
    /\ Goto(a, IF a \in moved THEN top ELSE sleep)
    /\ Stay /\ UNCHANGED <<vars, moved>>

wifi_kind(k) == k \in {"wifi", "fw"}

\* Mutant: the caller puts the slot back itself.
RefuseFrees(a) ==
    /\ wifi_kind(call[a]) /\ Unlocked
    /\ slots' = [slots EXCEPT ![token(a).slot].state = "FREE"]
    /\ registration' = [registration EXCEPT ![a].active = FALSE]
    /\ UNCHANGED <<next_ticket, queued, data, online, started, prefer_control, work,
                   owner>>
    /\ Return(a)

\* A Wi-Fi call is refused when its user memory went away meanwhile or there
\* is no record for it.
Refuse(a) == wifi_kind(call[a]) /\ Abandon(a)

\* The slot is PREPARED: its argument record belongs to the caller alone.
\* A Wi-Fi call takes the first free record; one at a time loads firmware.
Fill(a) ==
    LET t == token(a)
    IN  /\ pc[a] = "fill"
        /\ \/ /\ ~wifi_kind(call[a])
              /\ values' = [values EXCEPT ![t.slot] = [NoValue EXCEPT !.input = t]]
              /\ Goto(a, "publish")
              /\ UNCHANGED <<vars, call, moved, wifiVars, ping, ownerVars>>
           \/ /\ wifi_kind(call[a])
              /\ call[a] = "fw" => ~firmware_busy
              /\ \E r \in Records :
                  /\ ~records[r].used
                  /\ \A q \in 1 .. r - 1 : records[q].used
                  /\ records' = [records EXCEPT ![r] = [NoRecord EXCEPT !.used = TRUE,
                                                                        !.token = t]]
              /\ firmware_busy' = (firmware_busy \/ call[a] = "fw")
              /\ Goto(a, IF call[a] = "fw" THEN "fill_fw" ELSE "publish")
              /\ UNCHANGED <<vars, call, moved, values, ping, ownerVars>>
           \/ Refuse(a)

RecordOf(t) == {r \in Records : records[r].used /\ records[r].token = t}

\* Mutant: the failed allocation leaves the flag set.
FirmwareLeak(a) ==
    /\ Goto(a, "abandon")
    /\ UNCHANGED wifiVars

\* No memory for the firmware: the record stays with the slot, the flag does
\* not, and the call is abandoned.
FirmwareNoMemory(a) ==
    /\ Goto(a, "abandon")
    /\ firmware_busy' = FALSE
    /\ UNCHANGED records

\* kmalloc of the firmware buffer.
FillFirmware(a) ==
    /\ pc[a] = "fill_fw"
    /\ \/ /\ records' = [r \in Records |-> IF r \in RecordOf(token(a))
                            THEN [records[r] EXCEPT !.firmware = TRUE] ELSE records[r]]
          /\ Goto(a, "publish")
          /\ UNCHANGED firmware_busy
       \/ FirmwareNoMemory(a)
    /\ UNCHANGED <<vars, call, moved, values, ping, ownerVars>>

\* Top of the second loop.
PublishLoop(a) ==
    /\ pc[a] = "publish"
    /\ moved' = moved \ {a}
    /\ Goto(a, "publish_call")
    /\ Stay /\ UNCHANGED vars

PublishCall(a) ==
    LET t == token(a)
    IN  /\ pc[a] = "publish_call" /\ Unlocked
        /\ IF Admissible(t) /\ PublishResult(t) \in {"OK", "WAIT"}
           THEN handoff_publish(t) ELSE UNCHANGED vars
        /\ Goto(a, CASE PublishResult(t) = "OK" -> "wait"
                     [] PublishResult(t) = "WAIT" -> "publish_wait"
                     [] OTHER -> "abandon")
        /\ Stay /\ UNCHANGED moved

\* while (!handoff_ready(&t)) sched_wait_until(handoff_channel(t), ...);
WaitLoop(a) ==
    /\ pc[a] = "wait"
    /\ Goto(a, IF handoff_ready(token(a)) THEN "collect" ELSE "sleep")
    /\ Stay /\ UNCHANGED <<vars, moved>>

\* What the owner left for this request, in either kind of record.
Answer(a) ==
    LET t == token(a)
    IN  IF ~wifi_kind(call[a]) THEN values[t.slot].output
        ELSE IF RecordOf(t) = {} THEN NoToken
        ELSE records[CHOOSE r \in RecordOf(t) : TRUE].output

\* handoff_collect, the copy of the answer, and handoff_release.  The copy is
\* made at some moment of this location, so what it sees is a property of the
\* states with pc[a] = "collect" (see AnswerOwn).
Collect(a) == pc[a] \in {"collect", "abandon"} /\ Abandon(a)

\* A signal, or the deadline of a probe, is noticed by the checks of the two
\* admission loops and ends an admission wait; a signal also ends the wait
\* for the answer and is checked before the answer is collected.  The call
\* returns EINTR or ETIMEDOUT, after handoff_abandon once it is registered.
Interrupted(a) ==
    \/ /\ pc[a] \in {"begin", "begin_wait", "begin_sleep"}
       /\ Return(a) /\ UNCHANGED vars
    \/ /\ pc[a] \in {"publish", "publish_wait", "publish_sleep", "wait", "sleep",
                    "collect"}
       /\ Abandon(a)

CallerNext(a) ==
    \/ BeginLoop(a) \/ BeginCall(a)
    \/ AdmissionWait(a, "begin_wait", "begin_sleep", "begin")
    \/ Fill(a) \/ FillFirmware(a)
    \/ PublishLoop(a) \/ PublishCall(a)
    \/ AdmissionWait(a, "publish_wait", "publish_sleep", "publish")
    \/ WaitLoop(a) \/ Collect(a)

-----------------------------------------------------------------------------
(* The network worker                                                      *)

Phase(p) == turn' = [phase |-> p, n |-> 0]

Another == turn' = [turn EXCEPT !.n = @ + 1]

\* net_ping_worker_tick: a probe in flight is answered (or could not be sent,
\* which is an answer too), or expires and frees the engine, or flies on.
\* Only the worker touches the engine.
PingTick ==
    \/ UNCHANGED ping
    \/ ping.used /\ ~ping.done /\ ping' = [ping EXCEPT !.done = TRUE]
    \/ ping.used /\ ping' = [ping EXCEPT !.used = FALSE]

\* Mutant: a credit returned wakes the admission waiters, a slot does not.
AckBumpsCredit(i) == slots[i].state = "QUEUED" /\ slots[i].cancel

\* The iteration on slot i increments admission_sequence.
AckBumps(i) == Reclaimable(i) \/ (slots[i].state = "QUEUED" /\ slots[i].cancel)

\* Mutant: only a request that had been admitted is waited for.
AckWakesQueued(i) == IF CancelUnclaimed(i) /\ slots[i].state = "QUEUED" THEN {i} ELSE {}

\* The channels the iteration on slot i adds to those to be woken.
AckWakes(i) == IF CancelUnclaimed(i) THEN {i} ELSE {}

\* The turn begins with the ping engine and goes on with handoff_acknowledge:
\* its cursor, the admission sequence and the channels to be woken.
Acknowledge ==
    /\ turn.phase = "ack"
    /\ \/ /\ AckEnter
          /\ PingTick
          /\ UNCHANGED <<pc, moved, wakes, ack_cursor, turn>>
       \/ /\ AckScan(ack_cursor)
          /\ ack_cursor' = (ack_cursor + 1) % HANDOFF_SLOTS
          /\ moved' = IF AckBumps(ack_cursor) THEN Actors ELSE moved
          /\ wakes' = wakes \cup AckWakes(ack_cursor)
          /\ UNCHANGED <<pc, turn>>
       \/ /\ AckGrant
          /\ moved' = Actors
          /\ UNCHANGED <<pc, wakes, ack_cursor, turn>>
       \/ /\ AckLeave
          /\ Phase("wake")
          /\ UNCHANGED <<pc, moved, wakes, ack_cursor>>
    /\ owner.pc # "idle" => UNCHANGED ping
    /\ UNCHANGED <<call, values, wifiVars, outcome, pending_cursor, inspect_cursor>>

\* It wakes them, and the admission channel, after the unlock: the callers it
\* completed may have gone on meanwhile, and others may have fallen asleep.
AcknowledgeWake ==
    /\ turn.phase = "wake"
    /\ pc' = WakeAdmission(WakeSlots(pc, wakes), moved)
    /\ wakes' = {}
    /\ Phase("maintenance")
    /\ UNCHANGED <<vars, call, moved, dataVars, outcome, cursors>>

\* net_udp_maintenance looks at Batch slots, none of which is its own here;
\* net_wifi_maintenance then looks at every slot once, from where the shared
\* cursor stands.  One step passes over slots up to the next disposable one,
\* or to the end; turn.n counts the slots looked at.
Maintenance ==
    LET base == IF turn.n = 0 THEN inspect_cursor + Batch ELSE inspect_cursor
        At(k) == (base + k) % HANDOFF_SLOTS
        left == 0 .. HANDOFF_SLOTS - turn.n - 1
    IN  /\ turn.phase = "maintenance" /\ owner.pc = "idle"
        /\ \/ \E k \in left :
                /\ \A m \in 0 .. k - 1 : ~Disposable(At(m))
                /\ handoff_inspect(At(k))
                /\ inspect_cursor' = At(k + 1)
                /\ turn' = [turn EXCEPT !.n = @ + k + 1]
           \/ /\ \A k \in left : ~Disposable(At(k))
              /\ inspect_cursor' = At(HANDOFF_SLOTS - turn.n)
              /\ Phase("claim")
              /\ UNCHANGED vars
        /\ UNCHANGED <<callerVars, moved, dataVars, outcome, wakes, ack_cursor,
                       pending_cursor>>

\* The record is wiped, then the slot declared clean.
WifiRelease ==
    /\ owner.pc = "clean" /\ RecordOf(owner.token) # {}
    /\ firmware_busy' = (firmware_busy /\ \A r \in RecordOf(owner.token) : ~records[r].firmware)
    /\ records' = [r \in Records |-> IF r \in RecordOf(owner.token) THEN NoRecord
                                     ELSE records[r]]
    /\ UNCHANGED <<vars, callerVars, moved, values, ping, ownerVars>>

WifiCleaned ==
    /\ owner.pc = "clean" /\ RecordOf(owner.token) = {}
    /\ handoff_cleaned
    /\ UNCHANGED <<callerVars, moved, dataVars, ownerVars>>

\* for (i<8) { if (!handoff_claim(...)) break; step(...); }
Claim ==
    /\ turn.phase = "claim" /\ owner.pc = "idle"
    /\ \/ /\ turn.n < Batch /\ handoff_claim
          /\ moved' = Actors
          /\ pc' = WakeAdmission(pc, Actors)
          /\ Another
       \/ /\ turn.n = Batch \/ \A i \in SlotIds : ~Claimable(i)
          /\ Phase("pending")
          /\ UNCHANGED <<vars, moved, pc>>
    /\ UNCHANGED <<call, dataVars, outcome, wakes,
                   cursors>>

\* The PENDING slots in the order of the scan from pending_cursor.
FirstPending(i) ==
    LET distance(j) == (j - pending_cursor) % HANDOFF_SLOTS
    IN  /\ slots[i].state = "PENDING"
        /\ \A j \in SlotIds : slots[j].state = "PENDING" => distance(i) <= distance(j)

\* The second loop of the turn, over handoff_pending.
Pending ==
    /\ turn.phase = "pending" /\ owner.pc = "idle"
    /\ \/ /\ turn.n < Batch
          /\ \E i \in SlotIds :
                /\ FirstPending(i) /\ handoff_pending(i)
                /\ pending_cursor' = (i + 1) % HANDOFF_SLOTS
          /\ Another
       \/ /\ turn.n = Batch \/ \A i \in SlotIds : slots[i].state # "PENDING"
          /\ Phase("ack")
          /\ UNCHANGED <<vars, pending_cursor>>
    /\ UNCHANGED <<callerVars, moved, dataVars, outcome, wakes, ack_cursor,
                   inspect_cursor>>

-----------------------------------------------------------------------------
(* The typed step on a claim: it decides an outcome, then handoff_finish   *)

Decide(pending, status) ==
    outcome' = [ready |-> TRUE, pending |-> pending, status |-> status]

\* net_ping_cancel and the net_ping_worker_tick after it, which serves
\* another probe when this one has expired before.
PingCancel(probe) ==
    IF ping.used /\ ping.generation = probe
    THEN ping' = [ping EXCEPT !.used = FALSE]
    ELSE PingTick

\* Mutant: cancellation is noticed after the configuration was applied.
StepCancelledLate(i) ==
    /\ handoff_cancelled(owner.token)
    /\ Decide(FALSE, "EINTR")
    /\ values' = [values EXCEPT ![i].output = values[i].input]
    /\ UNCHANGED <<wifiVars, ping>>

StepCancelled(i) ==
    /\ handoff_cancelled(owner.token)
    /\ Decide(FALSE, "EINTR")
    /\ IF wifi_kind(slots[i].kind) \/ values[i].probe = 0 THEN UNCHANGED <<values, ping>>
       ELSE /\ PingCancel(values[i].probe)
            /\ values' = [values EXCEPT ![i].probe = 0]
    /\ UNCHANGED wifiVars

\* NETCTL_IFGET and NETCTL_IFSET; a configuration may be refused.
StepInterface(i) ==
    /\ ~handoff_cancelled(owner.token) /\ slots[i].kind = "if"
    /\ \/ /\ Decide(FALSE, "OK")
          /\ values' = [values EXCEPT ![i].output = values[i].input]
       \/ Decide(FALSE, "EIO") /\ UNCHANGED values
    /\ UNCHANGED <<wifiVars, ping>>

\* A probe is submitted, unless it is invalid or the engine is in use.
PingSubmit(i) ==
    \/ /\ Decide(FALSE, IF ping.used THEN "EAGAIN" ELSE "EIO")
       /\ UNCHANGED <<values, ping>>
    \/ /\ ~ping.used
       /\ ping' = [used |-> TRUE, generation |-> ping.generation + 1, done |-> FALSE]
       /\ values' = [values EXCEPT ![i].probe = ping.generation + 1]
       /\ Decide(TRUE, "OK")

\* The probe's result is collected, or its error; or it has expired.
PingCollect(i) ==
    LET mine == ping.used /\ ping.generation = values[i].probe
    IN  /\ PingCancel(values[i].probe)
        /\ \E ok \in IF mine THEN BOOLEAN ELSE {FALSE} :
             /\ values' = [values EXCEPT ![i].probe = 0,
                               ![i].output = IF ok THEN values[i].input ELSE @]
             /\ Decide(FALSE, IF ok THEN "OK" ELSE IF mine THEN "EIO" ELSE "EINTR")

\* A probe is submitted by the first step, polled by the later ones, and
\* collected.
StepPing(i) ==
    LET probe == values[i].probe
        ready == ~ping.used \/ ping.generation # probe \/ ping.done
    IN  /\ ~handoff_cancelled(owner.token) /\ slots[i].kind = "ping"
        /\ \/ probe = 0 /\ PingSubmit(i)
           \/ probe # 0 /\ ready /\ PingCollect(i)
           \/ probe # 0 /\ ~ready /\ Decide(TRUE, "OK") /\ UNCHANGED <<values, ping>>
        /\ UNCHANGED wifiVars

StepWifi(i) ==
    /\ ~handoff_cancelled(owner.token) /\ wifi_kind(slots[i].kind)
    /\ \/ /\ RecordOf(owner.token) # {}
          /\ records' = [r \in Records |->
                IF r \in RecordOf(owner.token)
                THEN [records[r] EXCEPT !.output = owner.token] ELSE records[r]]
          /\ Decide(FALSE, "OK")
       \/ Decide(FALSE, "EIO") /\ UNCHANGED records
    /\ UNCHANGED <<values, ping, firmware_busy>>

Step ==
    LET i == owner.token.slot
    IN  /\ owner.pc = "step" /\ ~outcome.ready
        /\ StepCancelled(i) \/ StepInterface(i) \/ StepPing(i) \/ StepWifi(i)
        /\ UNCHANGED <<vars, callerVars, moved, turn, wakes, cursors>>

\* handoff_finish and its wake-up of the caller.
Finish ==
    /\ outcome.ready
    /\ handoff_finish(outcome.pending, outcome.status)
    /\ outcome' = NoOutcome
    /\ pc' = WakeSlots(pc, IF outcome.pending THEN {} ELSE {owner.token.slot})
    /\ UNCHANGED <<call, moved, dataVars, turn, wakes,
                   cursors>>

OwnerNext ==
    \/ Acknowledge \/ AcknowledgeWake \/ Maintenance \/ WifiRelease \/ WifiCleaned
    \/ Claim \/ Pending \/ Step \/ Finish

-----------------------------------------------------------------------------
\* net_control_start at boot; the worker itself may fail the service.
Start ==
    /\ handoff_start
    /\ UNCHANGED <<callerVars, moved, dataVars, ownerVars>>

Fail ==
    /\ started /\ online /\ handoff_fail
    /\ moved' = Actors
    /\ pc' = WakeAdmission(pc, Actors)
    /\ UNCHANGED <<call, dataVars, ownerVars>>

NCNext ==
    \/ Start \/ Fail
    \/ \E a \in Actors : Call(a) \/ CallerNext(a) \/ Interrupted(a)
    \/ OwnerNext

NCSpec == NCInit /\ [][NCNext]_ncVars

-----------------------------------------------------------------------------
(* Fairness.  The worker is a scheduled thread that the timer tick wakes,  *)
(* so its turn always goes on; s_expire bounds the life of a probe.  The   *)
(* callers may be stopped for ever unless FairCallers is assumed.          *)

PingResolved == Acknowledge /\ ping' # ping

FairOwner == WF_ncVars(OwnerNext) /\ SF_ncVars(PingResolved)

FairCallers == \A a \in Actors : SF_ncVars(CallerNext(a))

-----------------------------------------------------------------------------
(* Properties                                                              *)

\* A caller about to copy its answer finds a slot that says OK exactly when
\* the record holds the answer to its own request, though the record is
\* shared with every earlier and later user of the slot and not protected by
\* the lock; and a request answered with EINTR had no effect.
AnswerOwn ==
    \A a \in Actors :
        pc[a] = "collect" =>
            /\ CollectResult(token(a)) = "OK"
            /\ slots[token(a).slot].reply = "OK" <=> Answer(a) = token(a)

\* The single ping engine is in use only for a request the owner still has in
\* hand, and which knows its probe: no cancellation, failure or expiry leaks
\* the engine, after which every later ping would fail with EAGAIN.
ProbeHeld ==
    ping.used =>
        \E i \in SlotIds :
            /\ slots[i].state \in {"CLAIMED", "PENDING"} /\ slots[i].kind = "ping"
            /\ values[i].probe = ping.generation

\* A Wi-Fi record in use belongs to a live request, one record per request:
\* the slot is not recycled before maintenance has released the record, and
\* no record is lost to an abandoned call.
RecordFence ==
    \A r \in Records :
        records[r].used =>
            /\ matches(records[r].token)
            /\ wifi_kind(slots[records[r].token.slot].kind)
            /\ \A q \in Records : records[q].used /\ q # r => records[q].token # records[r].token

\* firmware_busy is set exactly while somebody loads firmware: a caller about
\* to allocate the buffer, or one record that holds it.  Neither a failed
\* allocation nor an abandoned call leaves the flag set for ever, and nobody
\* clears it under another call's upload.
FirmwareFence ==
    LET holders == {r \in Records : records[r].firmware}
                       \cup {a \in Actors : pc[a] = "fill_fw"}
    IN  /\ Cardinality(holders) <= 1
        /\ firmware_busy <=> holders # {}

\* handoff_acknowledge is under way and has not come to its wake-ups.
Waking == ~Unlocked \/ turn.phase = "wake"

\* Nobody sleeps through the event it waits for: a caller asleep on its slot
\* whose request is complete, or on the admission channel after the sequence
\* has moved, is one that handoff_acknowledge, still under way, will wake.
NoLostWakeup ==
    \A a \in Actors :
        /\ pc[a] = "sleep" /\ handoff_ready(token(a)) => token(a).slot \in wakes
        /\ pc[a] \in {"begin_sleep", "publish_sleep"} /\ a \in moved => Waking

\* The admission sequence moves whenever a sleeper could get further: while
\* it has not moved, a caller asleep in handoff_begin would be told to wait
\* again or that the tickets are exhausted, and one asleep in handoff_publish
\* would be told to wait again, or the owner, hinted, will admit its offer.
AdmissionSleep ==
    \A a \in Actors :
        Unlocked /\ a \notin moved =>
            /\ pc[a] = "begin_sleep" => BeginResult(a) \in {"WAIT", "EXHAUSTED"}
            /\ pc[a] = "publish_sleep" =>
                 \/ PublishResult(token(a)) = "WAIT"
                 \/ PublishResult(token(a)) = "OK" /\ work

\* The slot of a caller that lost interest is always reclaimed, wherever the
\* request was: unpublished, queued, claimed, waiting for a probe, holding
\* a Wi-Fi record or complete.
AbandonedReclaimed ==
    \A i \in SlotIds : Live(i) /\ ~slots[i].caller ~> ~Live(i)

\* A registered call returns if its caller keeps being scheduled, also when
\* the service fails or exhausts its tickets under it.
CallReturns ==
    FairCallers => \A a \in Actors : pc[a] = "fill" ~> pc[a] = "idle"
=============================================================================
