------------------------------ MODULE Handoff ------------------------------
(***************************************************************************)
(* The bounded request transport of src/src/kernel/handoff.c: a table of   *)
(* HANDOFF_SLOTS request slots, filled by calling threads ("actors") and   *)
(* drained by one owner thread.  A slot goes                               *)
(*                                                                         *)
(*   FREE -> PREPARED -> QUEUED -> CLAIMED <-> PENDING -> COMPLETED        *)
(*                                                                         *)
(* and back to FREE under a new generation.  Every function of the file    *)
(* runs under one spinlock, so each is one action.  handoff_acknowledge is *)
(* the exception: it is a loop under the lock and appears as a sequence of *)
(* steps (owner.pc is then "scan" or "grant") during which every other     *)
(* action is locked out, while the lock-free readers of `work' and of the  *)
(* slot states can still run in between.                                   *)
(*                                                                         *)
(* The callers are only bound by the API contract of handoff.h: one        *)
(* registration per actor, operations on the actor's own token, one owner. *)
(* The owner may look at the slots in any order here; NetControl.tla adds  *)
(* the rotating cursors, the admission sequence, the owner's turn and the  *)
(* actual callers, and implements this specification.                      *)
(***************************************************************************)
EXTENDS Integers, FiniteSets

CONSTANTS
    HANDOFF_SLOTS,          \* 64 in the code
    HANDOFF_CREDITS,        \* 32: requests that may be QUEUED
    HANDOFF_DATA_CREDITS,   \* 24: of them, requests that are not control
    Batch,                  \* 8: slots acknowledged, and grants, per turn
    Actors,                 \* thread ids of the callers
    NoActor, NoKind,        \* the thread id and the kind in zeroed storage
    Kinds,                  \* kinds of request
    ControlKinds,           \* those submitted as control, not data
    RetainedKinds,          \* those that leave references in their slot
    Statuses,               \* reply statuses of the owner's typed steps
    MaxTicket,              \* UINT64_MAX for tickets
    MaxGeneration           \* UINT64_MAX for slot generations

ASSUME HandoffAssumption ==
    /\ HANDOFF_SLOTS \in Nat \ {0}
    /\ HANDOFF_CREDITS \in Nat \ {0}
    /\ HANDOFF_DATA_CREDITS \in Nat
    /\ HANDOFF_DATA_CREDITS <= HANDOFF_CREDITS
    /\ Batch \in 1 .. HANDOFF_SLOTS
    /\ NoActor \notin Actors
    /\ ControlKinds \subseteq Kinds /\ RetainedKinds \subseteq Kinds
    /\ NoKind \notin Kinds
    /\ MaxTicket \in Nat
    /\ MaxGeneration \in Nat \ {0}

VARIABLES
    slots,           \* the table
    next_ticket,     \* last admission ticket handed out
    queued, data,    \* credits in use, and those used by data requests
    online, started,
    prefer_control,  \* class claimed next when both classes are waiting
    work,            \* level-triggered hint: the owner has something to do
    registration,    \* per actor: its handoff_registration_t
    owner            \* the owner thread: where it is, and the token it holds

vars == <<slots, next_ticket, queued, data, online, started, prefer_control,
          work, registration, owner>>

-----------------------------------------------------------------------------
SlotIds == 0 .. HANDOFF_SLOTS - 1

States == {"FREE", "PREPARED", "QUEUED", "CLAIMED", "PENDING", "COMPLETED",
           "RETIRED"}

\* No reply yet, the status of a cancellation before any claim (cancel_status,
\* which every caller sets to EINTR), or what the owner's typed step returned.
Replies == {"none", "EINTR"} \cup Statuses

\* Generation 0 is what zeroed storage holds; no live slot has it.
Token == [slot : SlotIds, generation : 0 .. MaxGeneration]

NoToken == [slot |-> 0, generation |-> 0]

\* request_slot_t.  Ticket 0 means "not offered yet".  Of the request, the
\* actor and the kind matter here; `control' and `retained' are a function of
\* the kind in every caller; `value' and `deadline' belong to the typed steps.
Slot == [generation : 0 .. MaxGeneration, ticket : 0 .. MaxTicket,
         state : States, caller : BOOLEAN, cancel : BOOLEAN,
         cleaned : BOOLEAN, actor : Actors \cup {NoActor},
         kind : Kinds \cup {NoKind}, reply : Replies]

\* Static zero initialisation.
EmptySlot ==
    [generation |-> 0, ticket |-> 0, state |-> "FREE", caller |-> FALSE,
     cancel |-> FALSE, cleaned |-> FALSE, reply |-> "none",
     actor |-> NoActor, kind |-> NoKind]

-----------------------------------------------------------------------------
(* Helpers                                                                 *)

Live(i) == slots[i].state \notin {"FREE", "RETIRED"}

\* The token still names the request it was issued for.
matches(t) ==
    /\ t.generation # 0
    /\ slots[t.slot].generation = t.generation
    /\ Live(t.slot)

\* In PREPARED with a ticket, wanted by its caller and not cancelled: in the
\* admission queue of its class.
Offered(i) ==
    /\ slots[i].state = "PREPARED" /\ slots[i].ticket # 0
    /\ slots[i].caller /\ ~slots[i].cancel

Control(i) == slots[i].kind \in ControlKinds

SameClass(i, j) == Control(i) = Control(j)

\* Mutant: one credit too many.
EligibleOffByOne(i, ticket) ==
    /\ queued <= HANDOFF_CREDITS
    /\ Control(i) \/ data < HANDOFF_DATA_CREDITS
    /\ \A j \in SlotIds : Offered(j) /\ SameClass(i, j) => ticket <= slots[j].ticket

\* Mutant: whoever retries first takes the credit.
EligibleUnordered(i, ticket) ==
    /\ queued < HANDOFF_CREDITS
    /\ Control(i) \/ data < HANDOFF_DATA_CREDITS

\* A credit is left for this class, and nobody of the class is ahead of
\* a request with this ticket.
eligible(i, ticket) ==
    /\ queued < HANDOFF_CREDITS
    /\ Control(i) \/ data < HANDOFF_DATA_CREDITS
    /\ \A j \in SlotIds : Offered(j) /\ SameClass(i, j) => ticket <= slots[j].ticket

\* ++queued; if (!control) ++data;
TakeCredit(i) ==
    /\ queued' = queued + 1
    /\ data' = IF Control(i) THEN data ELSE data + 1

\* Mutant: a control request returns a data credit too.
DropBothCredits(i) == queued' = queued - 1 /\ data' = data - 1

drop_credit(i) ==
    /\ queued' = queued - 1
    /\ data' = IF Control(i) THEN data ELSE data - 1

hint == work' = TRUE

\* The states handoff_acknowledge counts as work the owner has yet to do.
Runnable(i) ==
    \/ slots[i].state = "QUEUED"
    \/ slots[i].state = "PENDING" /\ slots[i].cancel
    \/ slots[i].state = "PREPARED" /\ (slots[i].cancel \/ slots[i].ticket # 0)
    \/ slots[i].state = "COMPLETED" /\ ~slots[i].caller

Unlocked == owner.pc \notin {"scan", "grant"}

Init ==
    /\ slots = [i \in SlotIds |-> EmptySlot]
    /\ next_ticket = 0 /\ queued = 0 /\ data = 0
    /\ online = FALSE /\ started = FALSE
    /\ prefer_control = TRUE
    /\ work = FALSE
    /\ registration = [a \in Actors |-> [token |-> NoToken, active |-> FALSE]]
    /\ owner = [pc |-> "idle", n |-> 0, token |-> NoToken]

-----------------------------------------------------------------------------
(* Lifecycle                                                               *)

handoff_start ==
    /\ Unlocked /\ ~started
    /\ online' = TRUE /\ started' = TRUE
    /\ UNCHANGED <<slots, next_ticket, queued, data, prefer_control,
                   work, registration, owner>>

handoff_fail ==
    /\ Unlocked
    /\ online' = FALSE
    /\ slots' = [i \in SlotIds |->
                    IF slots[i].state \in {"FREE", "RETIRED", "COMPLETED"}
                    THEN slots[i]
                    ELSE [slots[i] EXCEPT !.cancel = TRUE]]
    /\ hint
    /\ UNCHANGED <<next_ticket, queued, data, started, prefer_control,
                   registration, owner>>

handoff_notify ==
    /\ Unlocked
    /\ hint
    /\ UNCHANGED <<slots, next_ticket, queued, data, online, started,
                   prefer_control, registration, owner>>

-----------------------------------------------------------------------------
(* Callers                                                                 *)

\* One request per actor, even while an abandoned one is still draining.
ActorBusy(a) == \E i \in SlotIds : Live(i) /\ slots[i].actor = a

BeginResult(a) ==
    CASE registration[a].active -> "STALE"
      [] ~registration[a].active /\ ~online -> "UNAVAILABLE"
      [] ~registration[a].active /\ online /\ next_ticket = MaxTicket -> "EXHAUSTED"
      [] OTHER -> IF ActorBusy(a) \/ \A i \in SlotIds : slots[i].state # "FREE"
                  THEN "WAIT" ELSE "OK"

\* The successful call; with any other result nothing changes.  The first
\* FREE slot is taken.
handoff_begin(a, kind) ==
    /\ Unlocked /\ BeginResult(a) = "OK"
    /\ \E i \in SlotIds :
        LET generation == IF slots[i].generation = 0 THEN 1 ELSE slots[i].generation
        IN  /\ slots[i].state = "FREE"
            /\ \A j \in 0 .. i - 1 : slots[j].state # "FREE"
            /\ slots' = [slots EXCEPT ![i] =
                  [generation |-> generation, ticket |-> 0, state |-> "PREPARED",
                   caller |-> TRUE, cancel |-> FALSE, cleaned |-> kind \notin RetainedKinds,
                   reply |-> "none", actor |-> a, kind |-> kind]]
            /\ registration' = [registration EXCEPT ![a] =
                  [token |-> [slot |-> i, generation |-> generation],
                   active |-> TRUE]]
    /\ UNCHANGED <<next_ticket, queued, data, online, started,
                   prefer_control, work, owner>>

\* The slot can still be admitted by its caller.
Admissible(t) ==
    /\ matches(t) /\ slots[t.slot].state = "PREPARED"
    /\ slots[t.slot].caller /\ ~slots[t.slot].cancel

\* The ticket the slot has after the call.
TicketOf(i) == IF slots[i].ticket = 0 THEN next_ticket + 1 ELSE slots[i].ticket

PublishResult(t) ==
    IF Admissible(t)
    THEN CASE ~online -> "UNAVAILABLE"
           [] online /\ slots[t.slot].ticket = 0 /\ next_ticket = MaxTicket -> "EXHAUSTED"
           [] OTHER -> IF eligible(t.slot, TicketOf(t.slot)) THEN "OK" ELSE "WAIT"
    ELSE IF matches(t) /\ slots[t.slot].ticket # 0 /\ slots[t.slot].caller
         THEN "OK" ELSE "STALE"

\* The calls that change the table: the slot is offered (a ticket, and WAIT)
\* or admitted at once (OK).
handoff_publish(t) ==
    /\ Unlocked
    /\ Admissible(t) /\ PublishResult(t) \in {"OK", "WAIT"}
    /\ slots' = [slots EXCEPT ![t.slot].ticket = TicketOf(t.slot),
                              ![t.slot].state = IF PublishResult(t) = "OK"
                                                THEN "QUEUED" ELSE "PREPARED"]
    /\ next_ticket' = IF slots[t.slot].ticket = 0 THEN next_ticket + 1 ELSE next_ticket
    /\ IF PublishResult(t) = "OK" THEN TakeCredit(t.slot) ELSE UNCHANGED <<queued, data>>
    /\ hint
    /\ UNCHANGED <<online, started, prefer_control, registration,
                   owner>>

handoff_cancel(t) ==
    /\ Unlocked /\ matches(t)
    /\ slots' = [slots EXCEPT ![t.slot].cancel = TRUE]
    /\ hint
    /\ UNCHANGED <<next_ticket, queued, data, online, started,
                   prefer_control, registration, owner>>

\* Mutant: losing interest does not cancel.
ReleaseOnly(a) ==
    /\ Unlocked /\ registration[a].active
    /\ slots' = [slots EXCEPT ![registration[a].token.slot].caller = FALSE]
    /\ hint
    /\ registration' = [registration EXCEPT ![a].active = FALSE]
    /\ UNCHANGED <<next_ticket, queued, data, online, started, prefer_control, owner>>

\* Mutant: a caller that leaves completes its claimed request itself.
ReleaseCompletes(a) ==
    LET t == registration[a].token
    IN  /\ Unlocked /\ registration[a].active
        /\ slots' = IF matches(t)
                    THEN [slots EXCEPT ![t.slot].caller = FALSE, ![t.slot].cancel = TRUE,
                                       ![t.slot].state = IF @ = "CLAIMED" THEN "COMPLETED"
                                                                          ELSE @]
                    ELSE slots
        /\ hint
        /\ registration' = [registration EXCEPT ![a].active = FALSE]
        /\ UNCHANGED <<next_ticket, queued, data, online, started,
                       prefer_control, owner>>

\* handoff_release, which handoff_abandon also is: the caller loses interest.
\* The slot is never freed here.
handoff_release(a) ==
    LET t == registration[a].token
        i == t.slot
    IN  /\ Unlocked /\ registration[a].active
        /\ IF matches(t)
           THEN /\ slots' = [slots EXCEPT ![i].caller = FALSE,
                                ![i].cancel = @ \/ slots[i].state # "COMPLETED"]
                /\ hint
           ELSE UNCHANGED <<slots, work>>
        /\ registration' = [registration EXCEPT ![a].active = FALSE]
        /\ UNCHANGED <<next_ticket, queued, data, online, started,
                       prefer_control, owner>>

\* handoff_collect copies the reply out and changes nothing.
CollectResult(t) ==
    IF matches(t) /\ slots[t.slot].caller
    THEN IF slots[t.slot].state = "COMPLETED" THEN "OK" ELSE "WAIT"
    ELSE "STALE"

\* The predicate a caller sleeps on.
handoff_ready(t) == ~matches(t) \/ slots[t.slot].state = "COMPLETED"

-----------------------------------------------------------------------------
(* The owner: claiming and finishing                                       *)

Claimable(i) == slots[i].state = "QUEUED" /\ ~slots[i].cancel

\* Mutant: the alternation of classes without the order inside a class.
ClaimAnyTicket(i) ==
    /\ Claimable(i)
    /\ \A j \in SlotIds : Claimable(j) /\ ~SameClass(i, j)
                            => Control(i) = prefer_control

\* The lowest ticket of its class, and the class whose turn it is when both
\* classes wait.  Tickets are distinct, so the code's scan order, and with
\* it claim_cursor, does not matter.
ClaimNext(i) ==
    /\ Claimable(i)
    /\ \A j \in SlotIds :
          Claimable(j) => IF SameClass(i, j)
                          THEN slots[i].ticket <= slots[j].ticket
                          ELSE Control(i) = prefer_control

Hold(pc, i) ==
    owner' = [pc |-> pc, n |-> 0,
              token |-> [slot |-> i, generation |-> slots[i].generation]]

Rest == owner' = [pc |-> "idle", n |-> 0, token |-> NoToken]

handoff_claim ==
    /\ owner.pc = "idle"
    /\ \E i \in SlotIds :
        /\ ClaimNext(i)
        /\ slots' = [slots EXCEPT ![i].state = "CLAIMED"]
        /\ drop_credit(i)
        /\ prefer_control' = ~Control(i)
        /\ Hold("step", i)
    /\ UNCHANGED <<next_ticket, online, started, work, registration>>

\* The owner takes up PENDING slot i again.
handoff_pending(i) ==
    /\ owner.pc = "idle" /\ slots[i].state = "PENDING"
    /\ slots' = [slots EXCEPT ![i].state = "CLAIMED"]
    /\ Hold("step", i)
    /\ UNCHANGED <<next_ticket, queued, data, online, started, prefer_control,
                   work, registration>>

handoff_cancelled(t) == ~matches(t) \/ slots[t.slot].cancel

\* A finished request, or a pending one cancelled meanwhile, is owner work.
FinishHint(i, pending) == ~pending \/ slots[i].cancel

\* The typed step the owner runs on its claim ends in handoff_finish.
handoff_finish(pending, status) ==
    LET t == owner.token
        i == t.slot
    IN  /\ owner.pc = "step"
        /\ IF matches(t) /\ slots[i].state = "CLAIMED"
           THEN /\ slots' = [slots EXCEPT
                        ![i].state = IF pending THEN "PENDING" ELSE "COMPLETED",
                        ![i].reply = IF pending THEN @ ELSE status]
                /\ work' = (work \/ FinishHint(i, pending))
           ELSE UNCHANGED <<slots, work>>
        /\ Rest
        /\ UNCHANGED <<next_ticket, queued, data, online, started,
                       prefer_control, registration>>

-----------------------------------------------------------------------------
(* The owner: acknowledgement and cleanup                                  *)

\* handoff_acknowledge takes the lock and clears the hint before it looks.
AckEnter ==
    /\ owner.pc = "idle"
    /\ owner' = [pc |-> "scan", n |-> 0, token |-> NoToken]
    /\ work' = FALSE
    /\ UNCHANGED <<slots, next_ticket, queued, data, online, started,
                   prefer_control, registration>>

\* Mutant: a pending request is answered without its typed step.
CancelUnfinished(i) ==
    slots[i].state \in {"PREPARED", "QUEUED", "PENDING"} /\ slots[i].cancel

\* A cancelled request nobody claimed: the owner answers for it.
CancelUnclaimed(i) == slots[i].state \in {"PREPARED", "QUEUED"} /\ slots[i].cancel

\* Mutant: a completed slot is recycled before its caller has collected.
ReclaimCompleted(i) ==
    (slots[i].state = "COMPLETED" \/ CancelUnclaimed(i)) /\ slots[i].cleaned

\* Mutant: typed references do not hold the slot back.
ReclaimUncleaned(i) ==
    (slots[i].state = "COMPLETED" \/ CancelUnclaimed(i)) /\ ~slots[i].caller

\* Nobody is interested in the slot and no typed reference is left in it.
Reclaimable(i) ==
    /\ slots[i].state = "COMPLETED" \/ CancelUnclaimed(i)
    /\ ~slots[i].caller /\ slots[i].cleaned

\* A slot after it has been acknowledged.  handoff_begin overwrites every field
\* of a FREE slot but the generation, and nothing reads them before, so they
\* are cleared when the slot is recycled.
Acknowledged(i) ==
    LET reply == IF CancelUnclaimed(i) THEN "EINTR" ELSE slots[i].reply
        last  == slots[i].generation = MaxGeneration
    IN  IF Reclaimable(i)
        THEN [EmptySlot EXCEPT
                !.state = IF last THEN "RETIRED" ELSE "FREE",
                !.generation = slots[i].generation + (IF last THEN 0 ELSE 1)]
        ELSE [slots[i] EXCEPT !.reply = reply,
                              !.state = IF CancelUnclaimed(i) THEN "COMPLETED" ELSE @]

\* One iteration of the first loop, on slot i.
AckScan(i) ==
    /\ owner.pc = "scan"
    /\ slots' = [slots EXCEPT ![i] = Acknowledged(i)]
    /\ IF slots[i].state = "QUEUED" /\ slots[i].cancel
       THEN drop_credit(i) ELSE UNCHANGED <<queued, data>>
    /\ owner' = [owner EXCEPT !.pc = IF owner.n + 1 = Batch THEN "grant" ELSE "scan",
                              !.n = IF owner.n + 1 = Batch THEN 0 ELSE owner.n + 1]
    /\ UNCHANGED <<next_ticket, online, started, prefer_control, work, registration>>

CanGrant(i) == Offered(i) /\ eligible(i, slots[i].ticket)

\* One iteration of the second loop: control before data, then by ticket.
AckGrant ==
    /\ owner.pc = "grant" /\ owner.n < Batch /\ online
    /\ \E i \in SlotIds :
        /\ CanGrant(i)
        /\ \A j \in SlotIds :
             CanGrant(j) => Control(i) \/ ~Control(j)
        /\ slots' = [slots EXCEPT ![i].state = "QUEUED"]
        /\ TakeCredit(i)
    /\ owner' = [owner EXCEPT !.n = owner.n + 1]
    /\ UNCHANGED <<next_ticket, online, started, prefer_control, work,
                   registration>>

\* Mutant: what the batch did not get to is not republished.
AckLeaveQuiet ==
    /\ owner.pc = "grant"
    /\ owner.n = Batch \/ ~online \/ \A i \in SlotIds : ~CanGrant(i)
    /\ Rest
    /\ UNCHANGED <<slots, next_ticket, queued, data, online, started,
                   prefer_control, work, registration>>

\* Nothing more to grant: republish the hint if anything is left to do.
AckLeave ==
    /\ owner.pc = "grant"
    /\ owner.n = Batch \/ ~online \/ \A i \in SlotIds : ~CanGrant(i)
    /\ work' = (work \/ \E i \in SlotIds : Runnable(i))
    /\ Rest
    /\ UNCHANGED <<slots, next_ticket, queued, data, online, started,
                   prefer_control, registration>>

\* Slot i holds typed references that nobody uses any more.
Disposable(i) ==
    /\ slots[i].kind \in RetainedKinds /\ slots[i].state = "COMPLETED" /\ ~slots[i].caller

\* The owner's maintenance looks at slot i and sets out to release its
\* references, outside the lock.  On any other slot it changes nothing.
handoff_inspect(i) ==
    /\ owner.pc = "idle" /\ Disposable(i)
    /\ Hold("clean", i)
    /\ UNCHANGED <<slots, next_ticket, queued, data, online, started,
                   prefer_control, work, registration>>

\* The references are gone: the slot may be recycled.
handoff_cleaned ==
    LET t == owner.token
        i == t.slot
    IN  /\ owner.pc = "clean"
        /\ slots' = IF matches(t) /\ slots[i].state = "COMPLETED" /\ ~slots[i].caller
                    THEN [slots EXCEPT ![i].cleaned = TRUE] ELSE slots
        /\ hint
        /\ Rest
        /\ UNCHANGED <<next_ticket, queued, data, online, started,
                       prefer_control, registration>>

-----------------------------------------------------------------------------
CallerStep(a) ==
    \/ \E kind \in Kinds : handoff_begin(a, kind)
    \/ registration[a].active /\ handoff_publish(registration[a].token)
    \/ registration[a].active /\ handoff_cancel(registration[a].token)
    \/ handoff_release(a)

OwnerStep ==
    \/ handoff_claim
    \/ \E i \in SlotIds : handoff_pending(i)
    \/ \E pending \in BOOLEAN, status \in Statuses : handoff_finish(pending, status)
    \/ AckEnter
    \/ \E i \in SlotIds : AckScan(i)
    \/ AckGrant
    \/ AckLeave
    \/ \E i \in SlotIds : handoff_inspect(i)
    \/ handoff_cleaned

Next ==
    \/ handoff_start \/ handoff_fail \/ handoff_notify
    \/ \E a \in Actors : CallerStep(a)
    \/ OwnerStep

Spec == Init /\ [][Next]_vars

-----------------------------------------------------------------------------
(* Properties                                                              *)

TypeOK ==
    /\ slots \in [SlotIds -> Slot]
    /\ next_ticket \in 0 .. MaxTicket
    /\ queued \in 0 .. HANDOFF_CREDITS
    /\ data \in 0 .. HANDOFF_DATA_CREDITS
    /\ online \in BOOLEAN /\ started \in BOOLEAN
    /\ prefer_control \in BOOLEAN /\ work \in BOOLEAN
    /\ registration \in [Actors -> [token : Token, active : BOOLEAN]]
    /\ owner \in [pc : {"idle", "step", "clean", "scan", "grant"}, n : 0 .. Batch,
                  token : Token]

\* The credit counters of handoff_publish, handoff_claim and
\* handoff_acknowledge always equal the number of QUEUED slots and of QUEUED
\* data slots: no path forgets a credit or returns it twice, so data requests
\* can never occupy the credits kept back for control.
CreditLedger ==
    LET Queued == {i \in SlotIds : slots[i].state = "QUEUED"}
    IN  /\ queued = Cardinality(Queued)
        /\ data = Cardinality({i \in Queued : ~Control(i)})

\* An active registration names a live slot that is this actor's own and still
\* marked as wanted: whatever cancellation, failure and acknowledgement do,
\* a slot is not recycled under an interested caller.  The token left in an
\* inactive registration names at most that actor's own draining slot, never
\* somebody's newer request in the same slot.
RegistrationSafe ==
    \A a \in Actors :
        LET t == registration[a].token
        IN  /\ registration[a].active => matches(t)
            /\ matches(t) => /\ slots[t.slot].actor = a
                             /\ slots[t.slot].caller <=> registration[a].active

\* handoff_finish and handoff_cleaned never meet a slot that is not the one the
\* owner took up: the held token stays valid, and CLAIMED until the step ends
\* or unwanted and COMPLETED until its references are released, and no other
\* slot is CLAIMED, whatever the callers and handoff_fail do meanwhile.
HeldClaimed ==
    /\ owner.pc \in {"step", "clean"} => matches(owner.token)
    /\ owner.pc = "clean" => Disposable(owner.token.slot)
    /\ \A i \in SlotIds :
         slots[i].state = "CLAIMED" <=> owner.pc = "step" /\ owner.token.slot = i

\* Admission is FIFO within a class: nothing is QUEUED ahead of a request of
\* its class that was offered earlier and still waits for a credit, although
\* callers retry handoff_publish in any order and the owner grants as well.
FifoAdmission ==
    \A i, j \in SlotIds :
        slots[i].state = "QUEUED" /\ Offered(j) /\ SameClass(i, j)
            => slots[i].ticket < slots[j].ticket

\* A request is claimed only when every request of its class with an earlier
\* ticket has been claimed or cancelled.
ClaimInOrder ==
    [][\A i, j \in SlotIds :
          /\ slots[i].state = "QUEUED" /\ slots'[i].state = "CLAIMED"
          /\ SameClass(i, j) /\ (Offered(j) \/ Claimable(j))
          => slots[i].ticket <= slots[j].ticket]_vars

\* The level-triggered hint: outside handoff_acknowledge, which clears it,
\* the hint is up whenever the table holds work for the owner, so an owner
\* that sleeps on handoff_owner_ready sleeps on nothing it should do.
OwnerHint ==
    Unlocked => \A i \in SlotIds : Runnable(i) => work
=============================================================================
