--------------------------- MODULE HandoffProofs ---------------------------
(***************************************************************************)
(* Proofs about the request transport, for every number of slots, credits  *)
(* and actors.                                                             *)
(***************************************************************************)
EXTENDS Handoff, FiniteSetTheorems, TLAPS

-----------------------------------------------------------------------------
(* The inductive invariant                                                 *)

\* Every live slot belongs to an actor, whose registration holds its token.
RegisteredAt(i) ==
    Live(i) =>
        /\ slots[i].actor \in Actors
        /\ slots[i].generation # 0
        /\ registration[slots[i].actor].token =
              [slot |-> i, generation |-> slots[i].generation]

Registered == \A i \in SlotIds : RegisteredAt(i)

\* A token never runs ahead of its slot's generation, and is behind that of
\* a FREE slot: a new request in the slot gets a token nobody has.
GenerationOf(a) ==
    LET t == registration[a].token
    IN  /\ t.generation <= slots[t.slot].generation
        /\ slots[t.slot].state = "FREE" /\ t.generation # 0
             => t.generation < slots[t.slot].generation

Generations == \A a \in Actors : GenerationOf(a)

\* RegistrationSafe, for one actor.
SafeFor(a) ==
    LET t == registration[a].token
    IN  /\ registration[a].active => matches(t)
        /\ matches(t) => /\ slots[t.slot].actor = a
                         /\ slots[t.slot].caller <=> registration[a].active

\* Tickets are distinct, handed out in order, and every QUEUED slot has one.
TicketAt(i) ==
    /\ slots[i].ticket <= next_ticket
    /\ slots[i].state = "QUEUED" => slots[i].ticket # 0
    /\ \A j \in SlotIds : i # j /\ slots[i].ticket # 0
                             => slots[i].ticket # slots[j].ticket

Tickets == \A i \in SlotIds : TicketAt(i)

\* The first loop of handoff_acknowledge has iterations left.
ScanCount == owner.pc = "scan" => owner.n < Batch

IInv ==
    /\ TypeOK /\ ScanCount /\ CreditLedger /\ Registered /\ Generations
    /\ RegistrationSafe /\ HeldClaimed /\ Tickets /\ FifoAdmission /\ OwnerHint

-----------------------------------------------------------------------------
(* Counting QUEUED slots                                                   *)

QueuedSlots == {i \in SlotIds : slots[i].state = "QUEUED"}
QueuedData == {i \in QueuedSlots : ~Control(i)}

\* The ledger in terms of the two sets.
LEMMA LedgerSets ==
    CreditLedger <=> queued = Cardinality(QueuedSlots) /\ data = Cardinality(QueuedData)
BY DEF CreditLedger, QueuedSlots, QueuedData

\* Sets of slots are finite.
LEMMA SlotSetsFinite ==
    ASSUME NEW S \in SUBSET SlotIds
    PROVE  IsFiniteSet(S) /\ Cardinality(S) \in Nat
<1>1. IsFiniteSet(SlotIds)
  BY FS_Interval, HandoffAssumption DEF SlotIds
<1>2. IsFiniteSet(S)
  BY <1>1, FS_Subset
<1> QED
  BY <1>2, FS_CardinalityType

\* A slot more.
LEMMA AddSlot ==
    ASSUME NEW S \in SUBSET SlotIds, NEW x \in SlotIds, x \notin S
    PROVE  Cardinality(S \cup {x}) = Cardinality(S) + 1
BY SlotSetsFinite, FS_AddElement

\* A slot less.
LEMMA RemoveSlot ==
    ASSUME NEW S \in SUBSET SlotIds, NEW x \in S
    PROVE  Cardinality(S \ {x}) = Cardinality(S) - 1 /\ Cardinality(S) > 0
<1>1. Cardinality(S \ {x}) = Cardinality(S) - 1
  BY SlotSetsFinite, FS_RemoveElement
<1>2. Cardinality(S \ {x}) \in Nat
  BY SlotSetsFinite
<1> QED
  BY <1>1, <1>2, SlotSetsFinite

\* A step that leaves the QUEUED slots and the counters alone keeps the ledger.
LEMMA LedgerKept ==
    ASSUME CreditLedger, UNCHANGED <<queued, data>>,
           \A j \in SlotIds : /\ slots'[j].state = "QUEUED" <=> slots[j].state = "QUEUED"
                              /\ slots[j].state = "QUEUED" => slots'[j].kind = slots[j].kind
    PROVE  CreditLedger'
<1>1. QueuedSlots' = QueuedSlots
  BY DEF QueuedSlots
<1>2. QueuedData' = QueuedData
  BY <1>1 DEF QueuedData, QueuedSlots, Control
<1> QED
  BY <1>1, <1>2, LedgerSets DEF CreditLedger, QueuedSlots, QueuedData

\* A slot that becomes QUEUED and takes its credit keeps the ledger, and the
\* counters within their limits.
LEMMA LedgerTaken ==
    ASSUME CreditLedger, TypeOK, NEW i \in SlotIds, TakeCredit(i),
           slots[i].state # "QUEUED", slots'[i].state = "QUEUED",
           queued < HANDOFF_CREDITS, Control(i) \/ data < HANDOFF_DATA_CREDITS,
           \A j \in SlotIds : /\ slots'[j].kind = slots[j].kind
                              /\ j # i => slots'[j].state = slots[j].state
    PROVE  /\ CreditLedger'
           /\ queued' \in 0 .. HANDOFF_CREDITS
           /\ data' \in 0 .. HANDOFF_DATA_CREDITS
<1>1. QueuedSlots' = QueuedSlots \cup {i} /\ i \notin QueuedSlots
  BY DEF QueuedSlots
<1>2. QueuedData' = IF Control(i) THEN QueuedData ELSE QueuedData \cup {i}
  BY <1>1 DEF QueuedData, QueuedSlots, Control
<1>3. QueuedSlots \in SUBSET SlotIds /\ QueuedData \in SUBSET SlotIds /\ i \notin QueuedData
  BY <1>1 DEF QueuedSlots, QueuedData
<1>4. queued' = Cardinality(QueuedSlots')
  BY <1>1, <1>3, AddSlot, LedgerSets DEF TakeCredit
<1>5. data' = Cardinality(QueuedData')
  BY <1>2, <1>3, AddSlot, LedgerSets DEF TakeCredit
<1>6. CreditLedger'
  BY <1>4, <1>5 DEF CreditLedger, QueuedSlots, QueuedData
<1>7. queued' \in 0 .. HANDOFF_CREDITS /\ data' \in 0 .. HANDOFF_DATA_CREDITS
  BY HandoffAssumption DEF TypeOK, TakeCredit
<1> QED
  BY <1>6, <1>7

\* A slot that leaves QUEUED and returns its credit does so too.
LEMMA LedgerDropped ==
    ASSUME CreditLedger, TypeOK, NEW i \in SlotIds, drop_credit(i),
           slots[i].state = "QUEUED", slots'[i].state # "QUEUED",
           \A j \in SlotIds : j # i => slots'[j] = slots[j]
    PROVE  /\ CreditLedger'
           /\ queued' \in 0 .. HANDOFF_CREDITS
           /\ data' \in 0 .. HANDOFF_DATA_CREDITS
<1>1. QueuedSlots' = QueuedSlots \ {i} /\ i \in QueuedSlots
  BY DEF QueuedSlots
<1>2. QueuedData' = QueuedData \ {i} /\ (i \in QueuedData <=> ~Control(i))
  BY <1>1 DEF QueuedData, QueuedSlots, Control
<1>3. QueuedSlots \in SUBSET SlotIds /\ QueuedData \in SUBSET SlotIds
  BY DEF QueuedSlots, QueuedData
<1>4. queued' = Cardinality(QueuedSlots') /\ queued > 0
  BY <1>1, <1>3, RemoveSlot, LedgerSets DEF drop_credit
<1>5. data' = Cardinality(QueuedData') /\ (~Control(i) => data > 0)
  <2>1. CASE Control(i)
    <3>1. QueuedData' = QueuedData
      BY <2>1, <1>2
    <3> QED
      BY <3>1, <2>1, LedgerSets DEF drop_credit
  <2>2. CASE ~Control(i)
    BY <2>2, <1>2, <1>3, RemoveSlot, LedgerSets DEF drop_credit
  <2> QED
    BY <2>1, <2>2
<1>6. CreditLedger'
  BY <1>4, <1>5 DEF CreditLedger, QueuedSlots, QueuedData
<1>7. queued' \in 0 .. HANDOFF_CREDITS /\ data' \in 0 .. HANDOFF_DATA_CREDITS
  BY <1>4, <1>5, HandoffAssumption DEF TypeOK, drop_credit
<1> QED
  BY <1>6, <1>7

-----------------------------------------------------------------------------
(* Identity: steps that neither recycle a slot nor change who wants it     *)

\* What the registrations depend on, in slot j, is as before.
SameIdentity(j) ==
    /\ slots'[j].generation = slots[j].generation
    /\ slots'[j].actor = slots[j].actor
    /\ slots'[j].caller = slots[j].caller
    /\ slots'[j].state \in {"FREE", "RETIRED"} <=> slots[j].state \in {"FREE", "RETIRED"}
    /\ slots'[j].state = "FREE" <=> slots[j].state = "FREE"

\* Such a step keeps everything the invariant says about registrations.
LEMMA IdentityKept ==
    ASSUME TypeOK, Registered, Generations, RegistrationSafe,
           UNCHANGED registration, \A j \in SlotIds : SameIdentity(j)
    PROVE  Registered' /\ Generations' /\ RegistrationSafe'
<1>1. Registered'
  BY DEF Registered, RegisteredAt, Live, SameIdentity
<1>t. \A a \in Actors : registration[a].token.slot \in SlotIds
  BY DEF TypeOK, Token
<1>2. Generations'
  BY <1>t DEF Generations, GenerationOf, SameIdentity
<1>3. RegistrationSafe'
  BY <1>t DEF RegistrationSafe, matches, Live, SameIdentity
<1> QED
  BY <1>1, <1>2, <1>3

\* A step that admits and offers nothing keeps the order of admission.
LEMMA FifoKept ==
    ASSUME FifoAdmission,
           \A j \in SlotIds :
              /\ slots'[j].state = "QUEUED" => slots[j].state = "QUEUED"
              /\ Offered(j)' => Offered(j)
              /\ Offered(j)' \/ slots'[j].state = "QUEUED"
                    => slots'[j].ticket = slots[j].ticket /\ slots'[j].kind = slots[j].kind
    PROVE  FifoAdmission'
BY DEF FifoAdmission, SameClass, Control

\* A step that hands out no ticket keeps them distinct.
LEMMA TicketsKept ==
    ASSUME TypeOK, Tickets, UNCHANGED next_ticket,
           \A j \in SlotIds : /\ slots'[j].ticket \in {slots[j].ticket, 0}
                              /\ slots'[j].state = "QUEUED" => slots'[j].ticket # 0
    PROVE  Tickets'
<1> SUFFICES ASSUME NEW i \in SlotIds PROVE TicketAt(i)'
  BY DEF Tickets
<1>1. TicketAt(i) /\ \A j \in SlotIds : TicketAt(j)
  BY DEF Tickets
<1> QED
  BY <1>1 DEF TicketAt, TypeOK, Slot
-----------------------------------------------------------------------------
\* handoff_begin keeps the invariant.
LEMMA BeginInv ==
    ASSUME IInv, NEW a \in Actors, NEW k \in Kinds, handoff_begin(a, k)
    PROVE  IInv'
<1> USE HandoffAssumption
<1>a. PICK i \in SlotIds :
        /\ slots[i].state = "FREE"
        /\ LET g == IF slots[i].generation = 0 THEN 1 ELSE slots[i].generation
           IN  /\ slots' = [slots EXCEPT ![i] =
                     [generation |-> g, ticket |-> 0, state |-> "PREPARED",
                      caller |-> TRUE, cancel |-> FALSE, cleaned |-> k \notin RetainedKinds,
                      reply |-> "none", actor |-> a, kind |-> k]]
               /\ registration' = [registration EXCEPT ![a] =
                     [token |-> [slot |-> i, generation |-> g], active |-> TRUE]]
  BY DEF handoff_begin
<1> DEFINE g == IF slots[i].generation = 0 THEN 1 ELSE slots[i].generation
           new == [generation |-> g, ticket |-> 0, state |-> "PREPARED",
                   caller |-> TRUE, cancel |-> FALSE, cleaned |-> k \notin RetainedKinds,
                   reply |-> "none", actor |-> a, kind |-> k]
           reg == [token |-> [slot |-> i, generation |-> g], active |-> TRUE]
<1>b. /\ UNCHANGED <<next_ticket, queued, data, online, started, prefer_control, work, owner>>
      /\ Unlocked /\ ~ActorBusy(a) /\ ~registration[a].active
  BY DEF handoff_begin, BeginResult
<1>t. TypeOK
  BY DEF IInv
<1>g. g \in 1 .. MaxGeneration /\ g >= slots[i].generation
  BY <1>t DEF TypeOK, Slot
<1>n. new \in Slot /\ reg \in [token : Token, active : BOOLEAN]
  BY <1>g DEF Slot, Token, States, Replies
<1>s. /\ slots' \in [SlotIds -> Slot]
      /\ slots'[i] = new
      /\ \A j \in SlotIds : j # i => slots'[j] = slots[j]
  BY <1>a, <1>n, <1>t DEF TypeOK
<1>r. /\ registration' \in [Actors -> [token : Token, active : BOOLEAN]]
      /\ registration'[a] = reg
      /\ \A b \in Actors : b # a => registration'[b] = registration[b]
  BY <1>a, <1>n, <1>t DEF TypeOK
<1> HIDE DEF g, new, reg
<1>1. TypeOK'
  BY <1>s, <1>r, <1>t, <1>b DEF TypeOK
<1>2. ScanCount'
  BY <1>b DEF IInv, ScanCount
<1>3. CreditLedger'
  BY <1>s, <1>a, <1>b, LedgerKept DEF IInv, new
<1>4. Registered'
  BY <1>s, <1>r, <1>t, <1>a, <1>b, <1>g
     DEF IInv, Registered, RegisteredAt, Live, ActorBusy, new, reg
<1>5. Generations'
  <2> SUFFICES ASSUME NEW b \in Actors PROVE GenerationOf(b)'
    BY DEF Generations
  <2>1. CASE b = a
    BY <2>1, <1>r, <1>s, <1>g DEF new, reg, GenerationOf
  <2>2. CASE b # a
    <3>1. registration[b].token \in Token
      BY <1>t DEF TypeOK
    <3> QED
      BY <2>2, <3>1, <1>r, <1>s, <1>g, <1>a, <1>t
         DEF new, Token, IInv, Generations, GenerationOf, TypeOK, Slot
  <2> QED
    BY <2>1, <2>2
<1>6. RegistrationSafe'
  <2> SUFFICES ASSUME NEW b \in Actors PROVE SafeFor(b)'
    BY DEF RegistrationSafe, SafeFor
  <2>1. CASE b = a
    <3>1. /\ registration'[b].token.slot = i /\ registration'[b].token.generation = g
          /\ registration'[b].active = TRUE
      BY <2>1, <1>r DEF reg
    <3>2. /\ slots'[i].generation = g /\ slots'[i].state = "PREPARED"
          /\ slots'[i].actor = a /\ slots'[i].caller = TRUE
      BY <1>s DEF new
    <3> QED
      BY <2>1, <3>1, <3>2, <1>g DEF matches, Live, SafeFor
  <2>2. CASE b # a
    <3>1. registration[b].token \in Token
      BY <1>t DEF TypeOK
    <3>2. SafeFor(b) /\ GenerationOf(b)
      BY DEF IInv, RegistrationSafe, SafeFor, Generations
    <3>3. registration'[b] = registration[b]
      BY <2>2, <1>r
    <3>4. CASE registration[b].token.slot = i
      <4>1. ~matches(registration[b].token)
        BY <3>4, <1>a DEF matches, Live
      <4>2. ~registration[b].active
        BY <4>1, <3>2 DEF SafeFor
      <4>3. registration[b].token.generation # slots'[i].generation \/ registration[b].token.generation = 0
        BY <3>1, <3>2, <3>4, <1>s, <1>g, <1>a, <1>t DEF new, Token, GenerationOf, TypeOK, Slot, g
      <4> QED
        BY <4>2, <4>3, <3>3, <3>4 DEF SafeFor, matches
    <3>5. CASE registration[b].token.slot # i
      BY <3>1, <3>2, <3>3, <3>5, <1>s DEF SafeFor, matches, Live, Token
    <3> QED
      BY <3>4, <3>5
  <2> QED
    BY <2>1, <2>2
<1>7. HeldClaimed'
  BY <1>s, <1>t, <1>a, <1>b DEF IInv, HeldClaimed, matches, Disposable, Live, new, TypeOK, Token
<1>8. Tickets'
  <2> SUFFICES ASSUME NEW j \in SlotIds PROVE TicketAt(j)'
    BY DEF Tickets
  <2>1. CASE j = i
    BY <2>1, <1>s, <1>b, <1>t DEF new, TicketAt, TypeOK
  <2>2. CASE j # i
    BY <2>2, <1>s, <1>b, <1>t DEF new, IInv, Tickets, TicketAt, TypeOK, Slot
  <2> QED
    BY <2>1, <2>2
<1>9. FifoAdmission'
  BY <1>s, <1>t, <1>b DEF IInv, FifoAdmission, Offered, SameClass, Control, new
<1>10. OwnerHint'
  BY <1>s, <1>t, <1>b DEF IInv, OwnerHint, Runnable, Unlocked, new
<1> QED
  BY <1>1, <1>2, <1>3, <1>4, <1>5, <1>6, <1>7, <1>8, <1>9, <1>10 DEF IInv

\* handoff_start and handoff_notify keep the invariant: they touch flags only.
LEMMA FlagsInv ==
    ASSUME IInv, handoff_start \/ handoff_notify
    PROVE  IInv'
<1>1. /\ UNCHANGED <<slots, next_ticket, queued, data, registration, owner, prefer_control>>
      /\ online' \in BOOLEAN /\ started' \in BOOLEAN /\ work' \in BOOLEAN /\ (work => work')
  BY DEF IInv, TypeOK, handoff_start, handoff_notify, hint
<1>2. TypeOK' /\ ScanCount' /\ CreditLedger' /\ Tickets' /\ FifoAdmission'
  BY <1>1 DEF IInv, TypeOK, ScanCount, CreditLedger, Tickets, TicketAt, FifoAdmission,
              Offered, SameClass, Control
<1>3. Registered' /\ Generations' /\ RegistrationSafe' /\ HeldClaimed'
  BY <1>1 DEF IInv, Registered, RegisteredAt, Generations, GenerationOf, RegistrationSafe,
              HeldClaimed, matches, Live, Disposable
<1>4. OwnerHint'
  BY <1>1 DEF IInv, OwnerHint, Unlocked, Runnable
<1> QED
  BY <1>2, <1>3, <1>4 DEF IInv

\* A cancelled slot is a slot.
LEMMA CancelledSlot ==
    ASSUME NEW s \in Slot
    PROVE  [s EXCEPT !.cancel = TRUE] \in Slot
BY DEF Slot

\* handoff_fail keeps the invariant: it only raises cancel flags, and the hint.
LEMMA FailInv ==
    ASSUME IInv, handoff_fail
    PROVE  IInv'
<1>t. TypeOK
  BY DEF IInv
<1>1. /\ UNCHANGED <<next_ticket, queued, data, registration, owner, prefer_control, started>>
      /\ online' = FALSE /\ work' = TRUE
  BY DEF handoff_fail, hint
<1>2. /\ slots' \in [SlotIds -> Slot]
      /\ \A j \in SlotIds : slots'[j] \in {slots[j], [slots[j] EXCEPT !.cancel = TRUE]}
  <2>1. \A j \in SlotIds : slots[j] \in Slot /\ [slots[j] EXCEPT !.cancel = TRUE] \in Slot
    BY <1>t, CancelledSlot DEF TypeOK
  <2> QED
    BY <2>1 DEF handoff_fail
<1>3. \A j \in SlotIds :
        /\ SameIdentity(j)
        /\ slots'[j].state = slots[j].state /\ slots'[j].ticket = slots[j].ticket
        /\ slots'[j].kind = slots[j].kind
        /\ Offered(j)' => Offered(j)
  BY <1>2, <1>t DEF TypeOK, Slot, SameIdentity, Offered
<1>4. TypeOK' /\ ScanCount'
  BY <1>1, <1>2, <1>t DEF TypeOK, IInv, ScanCount
<1>5. CreditLedger' /\ FifoAdmission' /\ Tickets'
  BY <1>1, <1>3, LedgerKept, FifoKept, TicketsKept DEF IInv, Tickets, TicketAt
<1>6. Registered' /\ Generations' /\ RegistrationSafe'
  BY <1>1, <1>3, IdentityKept DEF IInv
<1>7. HeldClaimed'
  BY <1>1, <1>3, <1>t DEF IInv, HeldClaimed, matches, Live, Disposable, SameIdentity, TypeOK, Token
<1>8. OwnerHint'
  BY <1>1 DEF OwnerHint
<1> QED
  BY <1>4, <1>5, <1>6, <1>7, <1>8 DEF IInv

\* handoff_cancel keeps the invariant, for the same reason.
LEMMA CancelInv ==
    ASSUME IInv, NEW a \in Actors, handoff_cancel(registration[a].token)
    PROVE  IInv'
<1>t. TypeOK
  BY DEF IInv
<1>1. /\ UNCHANGED <<next_ticket, queued, data, registration, owner, prefer_control,
                     started, online>>
      /\ work' = TRUE
  BY DEF handoff_cancel, hint
<1>2. /\ slots' \in [SlotIds -> Slot]
      /\ \A j \in SlotIds : slots'[j] \in {slots[j], [slots[j] EXCEPT !.cancel = TRUE]}
  <2> DEFINE i == registration[a].token.slot
  <2>1. \A j \in SlotIds : slots[j] \in Slot /\ [slots[j] EXCEPT !.cancel = TRUE] \in Slot
    BY <1>t, CancelledSlot DEF TypeOK
  <2>2. i \in SlotIds /\ slots' = [slots EXCEPT ![i] = [slots[i] EXCEPT !.cancel = TRUE]]
    BY <1>t DEF handoff_cancel, TypeOK, Token
  <2> QED
    BY <2>1, <2>2, <1>t DEF TypeOK
<1>3. \A j \in SlotIds :
        /\ SameIdentity(j)
        /\ slots'[j].state = slots[j].state /\ slots'[j].ticket = slots[j].ticket
        /\ slots'[j].kind = slots[j].kind
        /\ Offered(j)' => Offered(j)
  BY <1>2, <1>t DEF TypeOK, Slot, SameIdentity, Offered
<1>4. TypeOK' /\ ScanCount'
  BY <1>1, <1>2, <1>t DEF TypeOK, IInv, ScanCount
<1>5. CreditLedger' /\ FifoAdmission' /\ Tickets'
  BY <1>1, <1>3, LedgerKept, FifoKept, TicketsKept DEF IInv, Tickets, TicketAt
<1>6. Registered' /\ Generations' /\ RegistrationSafe'
  BY <1>1, <1>3, IdentityKept DEF IInv
<1>7. HeldClaimed'
  BY <1>1, <1>3, <1>t DEF IInv, HeldClaimed, matches, Live, Disposable, SameIdentity, TypeOK, Token
<1>8. OwnerHint'
  BY <1>1 DEF OwnerHint
<1> QED
  BY <1>4, <1>5, <1>6, <1>7, <1>8 DEF IInv

\* handoff_publish keeps the invariant: a ticket handed out is new, a credit
\* is taken only within the limits, and only by the head of its class.
LEMMA PublishInv ==
    ASSUME IInv, NEW a \in Actors, registration[a].active,
           handoff_publish(registration[a].token)
    PROVE  IInv'
<1> DEFINE t == registration[a].token
           i == t.slot
           ok == PublishResult(t) = "OK"
<1>t. TypeOK /\ i \in SlotIds
  BY DEF IInv, TypeOK, Token
<1>1. /\ UNCHANGED <<registration, owner, prefer_control, started, online>>
      /\ work' = TRUE
      /\ next_ticket' = IF slots[i].ticket = 0 THEN next_ticket + 1 ELSE next_ticket
      /\ slots[i].state = "PREPARED" /\ slots[i].caller /\ ~slots[i].cancel
  BY DEF handoff_publish, hint, Admissible
<1>2. /\ slots[i].ticket = 0 => next_ticket < MaxTicket
      /\ ok => eligible(i, TicketOf(i))
  <2>1. Admissible(t) /\ PublishResult(t) \in {"OK", "WAIT"}
    BY DEF handoff_publish
  <2>2. next_ticket # MaxTicket \/ slots[i].ticket # 0
    BY <2>1 DEF PublishResult
  <2>3. ok => eligible(i, TicketOf(i))
    BY <2>1 DEF PublishResult
  <2> QED
    BY <2>2, <2>3, <1>t, HandoffAssumption DEF TypeOK
<1>3. TicketOf(i) \in 1 .. MaxTicket /\ TicketOf(i) <= next_ticket'
  BY <1>1, <1>2, <1>t, HandoffAssumption DEF TicketOf, TypeOK, Slot, IInv, Tickets, TicketAt
<1>4. /\ slots' \in [SlotIds -> Slot]
      /\ slots'[i] = [slots[i] EXCEPT !.ticket = TicketOf(i),
                                      !.state = IF ok THEN "QUEUED" ELSE "PREPARED"]
      /\ \A j \in SlotIds : j # i => slots'[j] = slots[j]
  <2> DEFINE new == [slots[i] EXCEPT !.ticket = TicketOf(i),
                                     !.state = IF ok THEN "QUEUED" ELSE "PREPARED"]
  <2>1. slots' = [slots EXCEPT ![i] = new]
    BY DEF handoff_publish
  <2>2. new \in Slot
    <3>1. slots[i] \in Slot
      BY <1>t DEF TypeOK
    <3>2. (IF ok THEN "QUEUED" ELSE "PREPARED") \in States /\ TicketOf(i) \in 0 .. MaxTicket
      BY <1>3, HandoffAssumption DEF States
    <3> HIDE DEF ok, i
    <3> QED
      BY <3>1, <3>2 DEF Slot
  <2> HIDE DEF new
  <2>3. slots' \in [SlotIds -> Slot] /\ slots'[i] = new /\ \A j \in SlotIds : j # i => slots'[j] = slots[j]
    BY <2>1, <2>2, <1>t DEF TypeOK
  <2> QED
    BY <2>3 DEF new
<1> HIDE DEF t, i, ok
<1>5. \A j \in SlotIds :
        /\ SameIdentity(j) /\ slots'[j].kind = slots[j].kind
        /\ slots'[j].cancel = slots[j].cancel /\ slots'[j].cleaned = slots[j].cleaned
        /\ j # i => slots'[j].ticket = slots[j].ticket /\ slots'[j].state = slots[j].state
  <2>1. /\ slots'[i].generation = slots[i].generation /\ slots'[i].actor = slots[i].actor
        /\ slots'[i].caller = slots[i].caller /\ slots'[i].cancel = slots[i].cancel
        /\ slots'[i].kind = slots[i].kind /\ slots'[i].cleaned = slots[i].cleaned
        /\ slots'[i].state \in {"QUEUED", "PREPARED"}
    BY <1>4, <1>t DEF TypeOK, Slot
  <2> QED
    BY <2>1, <1>4, <1>1 DEF SameIdentity
<1>6. slots'[i].ticket = TicketOf(i) /\ slots'[i].state = IF ok THEN "QUEUED" ELSE "PREPARED"
  BY <1>4, <1>t DEF TypeOK, Slot
<1>7. CreditLedger' /\ queued' \in 0 .. HANDOFF_CREDITS /\ data' \in 0 .. HANDOFF_DATA_CREDITS
  <2>1. CASE ok
    BY <2>1, <1>1, <1>2, <1>5, <1>6, <1>t, LedgerTaken DEF IInv, eligible, handoff_publish, t, i, ok
  <2>2. CASE ~ok
    <3>1. UNCHANGED <<queued, data>>
      BY <2>2 DEF handoff_publish, t, ok
    <3> QED
      BY <2>2, <3>1, <1>1, <1>5, <1>6, <1>t, LedgerKept DEF IInv, TypeOK
  <2> QED
    BY <2>1, <2>2
<1>8. TypeOK' /\ ScanCount'
  <2>1. next_ticket' \in 0 .. MaxTicket
    BY <1>1, <1>2, <1>t, HandoffAssumption DEF TypeOK
  <2> QED
    BY <2>1, <1>1, <1>4, <1>7, <1>t DEF TypeOK, IInv, ScanCount
<1>9. Registered' /\ Generations' /\ RegistrationSafe'
  BY <1>1, <1>5, IdentityKept DEF IInv
<1>10. HeldClaimed'
  BY <1>1, <1>5, <1>6, <1>t
     DEF IInv, HeldClaimed, matches, Live, Disposable, SameIdentity, TypeOK, Token
<1>11. \A j \in SlotIds : j # i => slots[j].ticket # TicketOf(i)
  BY <1>t, HandoffAssumption DEF TicketOf, IInv, Tickets, TicketAt, TypeOK, Slot
<1>12. Tickets'
  <2> SUFFICES ASSUME NEW j \in SlotIds PROVE TicketAt(j)'
    BY DEF Tickets
  <2>1. next_ticket' >= next_ticket /\ next_ticket \in Nat /\ next_ticket' \in Nat
    BY <1>1, <1>t, HandoffAssumption DEF TypeOK
  <2>2. TicketAt(j)
    BY DEF IInv, Tickets
  <2>3. CASE j = i
    BY <2>3, <1>3, <1>5, <1>6, <1>11 DEF TicketAt
  <2>4. CASE j # i
    BY <2>1, <2>2, <2>4, <1>5, <1>6, <1>11, <1>t DEF TicketAt, TypeOK, Slot
  <2> QED
    BY <2>3, <2>4
<1>13. FifoAdmission'
  <2> SUFFICES ASSUME NEW j \in SlotIds, NEW m \in SlotIds,
                      slots'[j].state = "QUEUED", Offered(m)', SameClass(j, m)'
               PROVE  slots'[j].ticket < slots'[m].ticket
    BY DEF FifoAdmission
  <2>c. SameClass(j, m)
    BY <1>5 DEF SameClass, Control
  <2>1. CASE j = i
    <3>1. ok /\ m # i
      BY <2>1, <1>6 DEF Offered
    <3>2. Offered(m)
      BY <3>1, <1>5 DEF Offered, SameIdentity
    <3>3. TicketOf(i) <= slots[m].ticket
      BY <3>1, <3>2, <2>1, <2>c, <1>2 DEF eligible
    <3>4. slots[m].ticket \in Nat
      BY <1>t DEF TypeOK, Slot
    <3> QED
      BY <3>1, <3>3, <3>4, <2>1, <1>3, <1>5, <1>6, <1>11
  <2>2. CASE j # i /\ m = i
    <3>1. slots[j].state = "QUEUED"
      BY <2>2, <1>5
    <3>2. CASE slots[i].ticket = 0
      <4>1. slots[j].ticket <= next_ticket /\ slots[j].ticket \in Nat /\ next_ticket \in Nat
        BY <1>t DEF IInv, Tickets, TicketAt, TypeOK, Slot
      <4> QED
        BY <4>1, <3>2, <2>2, <1>5, <1>6 DEF TicketOf
    <3>3. CASE slots[i].ticket # 0
      <4>1. Offered(i)
        BY <3>3, <1>1 DEF Offered
      <4>2. slots[j].ticket < slots[i].ticket
        BY <4>1, <3>1, <2>2, <2>c DEF IInv, FifoAdmission
      <4> QED
        BY <4>2, <3>3, <2>2, <1>5, <1>6 DEF TicketOf
    <3> QED
      BY <3>2, <3>3
  <2>3. CASE j # i /\ m # i
    BY <2>3, <2>c, <1>5 DEF IInv, FifoAdmission, Offered, SameIdentity
  <2> QED
    BY <2>1, <2>2, <2>3
<1>14. OwnerHint'
  BY <1>1 DEF OwnerHint
<1> QED
  BY <1>7, <1>8, <1>9, <1>10, <1>12, <1>13, <1>14 DEF IInv

\* handoff_release keeps the invariant: interest ends in the registration and
\* in the slot together, and what the owner must now do is hinted.
LEMMA ReleaseInv ==
    ASSUME IInv, NEW a \in Actors, handoff_release(a)
    PROVE  IInv'
<1> DEFINE t == registration[a].token
           i == t.slot
<1>t. TypeOK /\ i \in SlotIds
  BY DEF IInv, TypeOK, Token
<1>m. matches(t) /\ registration[a].active
  BY DEF handoff_release, IInv, RegistrationSafe
<1>1. /\ UNCHANGED <<next_ticket, queued, data, owner, prefer_control, started, online>>
      /\ work' = TRUE
  BY <1>m DEF handoff_release, hint
<1>2. /\ slots' \in [SlotIds -> Slot]
      /\ slots'[i] = [slots[i] EXCEPT !.caller = FALSE,
                        !.cancel = @ \/ slots[i].state # "COMPLETED"]
      /\ \A j \in SlotIds : j # i => slots'[j] = slots[j]
  <2> DEFINE new == [slots[i] EXCEPT !.caller = FALSE,
                        !.cancel = @ \/ slots[i].state # "COMPLETED"]
  <2>1. slots' = [slots EXCEPT ![i] = new]
    BY <1>m DEF handoff_release
  <2>2. new \in Slot
    <3>1. slots[i] \in Slot
      BY <1>t DEF TypeOK
    <3> HIDE DEF i
    <3> QED
      BY <3>1 DEF Slot
  <2> HIDE DEF new
  <2>3. slots' \in [SlotIds -> Slot] /\ slots'[i] = new /\ \A j \in SlotIds : j # i => slots'[j] = slots[j]
    BY <2>1, <2>2, <1>t DEF TypeOK
  <2> QED
    BY <2>3 DEF new
<1>3. /\ registration' \in [Actors -> [token : Token, active : BOOLEAN]]
      /\ \A b \in Actors : registration'[b].token = registration[b].token
      /\ ~registration'[a].active
      /\ \A b \in Actors : b # a => registration'[b] = registration[b]
  BY <1>t DEF handoff_release, TypeOK
<1> HIDE DEF t, i
<1>4. \A j \in SlotIds :
        /\ slots'[j].state = slots[j].state /\ slots'[j].ticket = slots[j].ticket
        /\ slots'[j].kind = slots[j].kind /\ slots'[j].actor = slots[j].actor
        /\ slots'[j].generation = slots[j].generation
        /\ j # i => (slots'[j].caller <=> slots[j].caller) /\ (slots'[j].cancel <=> slots[j].cancel)
  <2>1. /\ slots'[i].generation = slots[i].generation /\ slots'[i].actor = slots[i].actor
        /\ slots'[i].kind = slots[i].kind /\ slots'[i].state = slots[i].state
        /\ slots'[i].ticket = slots[i].ticket
    BY <1>2, <1>t DEF TypeOK, Slot
  <2> QED
    BY <2>1, <1>2
<1>5. ~slots'[i].caller
  BY <1>2, <1>t DEF TypeOK, Slot
<1>6. TypeOK' /\ ScanCount'
  BY <1>1, <1>2, <1>3, <1>t DEF TypeOK, IInv, ScanCount
<1>7. CreditLedger'
  BY <1>1, <1>4, LedgerKept DEF IInv
<1>8. FifoAdmission'
  BY <1>4, <1>5, FifoKept DEF IInv, Offered
<1>9. Tickets'
  BY <1>1, <1>4, <1>t, TicketsKept DEF IInv, Tickets, TicketAt
<1>10. Registered'
  BY <1>3, <1>4 DEF IInv, Registered, RegisteredAt, Live
<1>p. \A b \in Actors : registration[b].token \in Token /\ registration[b].token.slot \in SlotIds
  BY <1>t DEF TypeOK, Token
<1>11. Generations'
  BY <1>3, <1>4, <1>p DEF IInv, Generations, GenerationOf
<1>12. RegistrationSafe'
  <2> SUFFICES ASSUME NEW b \in Actors PROVE SafeFor(b)'
    BY DEF RegistrationSafe, SafeFor
  <2>0. SafeFor(b) /\ SafeFor(a)
    BY DEF IInv, RegistrationSafe, SafeFor
  <2>1. CASE b = a
    BY <2>0, <2>1, <1>3, <1>4, <1>5, <1>m, <1>t DEF SafeFor, matches, Live, t, i
  <2>2. CASE b # a
    <3>1. registration'[b] = registration[b]
      BY <2>2, <1>3
    <3>2. matches(registration[b].token) => registration[b].token.slot # i
      BY <2>0, <2>2, <1>m DEF SafeFor, t, i
    <3>3. matches(registration[b].token)' <=> matches(registration[b].token)
      BY <3>1, <1>4, <1>p DEF matches, Live
    <3> QED
      BY <2>0, <3>1, <3>2, <3>3, <1>4, <1>p DEF SafeFor
  <2> QED
    BY <2>1, <2>2
<1>13. HeldClaimed'
  BY <1>1, <1>4, <1>5, <1>t DEF IInv, HeldClaimed, matches, Live, Disposable, TypeOK, Token
<1>14. OwnerHint'
  BY <1>1 DEF OwnerHint
<1> QED
  BY <1>6, <1>7, <1>8, <1>9, <1>10, <1>11, <1>12, <1>13, <1>14 DEF IInv

\* handoff_claim keeps the invariant: the claimed slot returns its credit and
\* is the only one CLAIMED.
LEMMA ClaimInv ==
    ASSUME IInv, handoff_claim
    PROVE  IInv'
<1>t. TypeOK
  BY DEF IInv
<1>a. PICK i \in SlotIds :
        /\ ClaimNext(i)
        /\ slots' = [slots EXCEPT ![i].state = "CLAIMED"]
        /\ drop_credit(i)
        /\ prefer_control' = ~Control(i)
        /\ Hold("step", i)
  BY DEF handoff_claim
<1>1. /\ UNCHANGED <<next_ticket, registration, work, started, online>>
      /\ owner.pc = "idle" /\ slots[i].state = "QUEUED"
  BY <1>a DEF handoff_claim, ClaimNext, Claimable
<1>2. slots[i] \in Slot /\ slots[i].generation \in 0 .. MaxGeneration
  BY <1>t DEF TypeOK, Slot
<1>3. owner' = [pc |-> "step", n |-> 0, token |-> [slot |-> i, generation |-> slots[i].generation]]
  BY <1>a DEF Hold
<1>4. /\ slots' \in [SlotIds -> Slot]
      /\ slots'[i] = [slots[i] EXCEPT !.state = "CLAIMED"]
      /\ \A j \in SlotIds : j # i => slots'[j] = slots[j]
  <2> DEFINE new == [slots[i] EXCEPT !.state = "CLAIMED"]
  <2>1. slots' = [slots EXCEPT ![i] = new]
    BY <1>a
  <2>2. new \in Slot
    BY <1>2 DEF Slot, States
  <2> HIDE DEF new
  <2>3. slots' \in [SlotIds -> Slot] /\ slots'[i] = new /\ \A j \in SlotIds : j # i => slots'[j] = slots[j]
    BY <2>1, <2>2, <1>t DEF TypeOK
  <2> QED
    BY <2>3 DEF new
<1>5. \A j \in SlotIds :
        /\ SameIdentity(j) /\ slots'[j].kind = slots[j].kind
        /\ slots'[j].ticket = slots[j].ticket
        /\ j # i => slots'[j].state = slots[j].state
  <2>1. /\ slots'[i].generation = slots[i].generation /\ slots'[i].actor = slots[i].actor
        /\ slots'[i].kind = slots[i].kind /\ slots'[i].state = "CLAIMED"
        /\ slots'[i].ticket = slots[i].ticket /\ slots'[i].caller = slots[i].caller
    BY <1>4, <1>2 DEF Slot
  <2> QED
    BY <2>1, <1>1, <1>4 DEF SameIdentity
<1>6. slots'[i].state = "CLAIMED"
  BY <1>4, <1>2 DEF Slot
<1>7. CreditLedger' /\ queued' \in 0 .. HANDOFF_CREDITS /\ data' \in 0 .. HANDOFF_DATA_CREDITS
  BY <1>a, <1>1, <1>4, <1>6, <1>t, LedgerDropped DEF IInv
<1>8. TypeOK' /\ ScanCount'
  <2>1. owner' \in [pc : {"idle", "step", "clean", "scan", "grant"}, n : 0 .. Batch, token : Token]
    BY <1>2, <1>3, HandoffAssumption DEF Token
  <2>2. prefer_control' \in BOOLEAN
    BY <1>a DEF Control
  <2> QED
    BY <2>1, <2>2, <1>1, <1>3, <1>4, <1>7, <1>t DEF TypeOK, ScanCount
<1>9. Registered' /\ Generations' /\ RegistrationSafe'
  BY <1>1, <1>5, IdentityKept DEF IInv
<1>10. HeldClaimed'
  <2>1. RegisteredAt(i)
    BY DEF IInv, Registered
  <2>2. slots[i].generation # 0
    BY <2>1, <1>1 DEF RegisteredAt, Live
  <2>3. matches(owner.token)'
    BY <2>2, <1>3, <1>5, <1>6 DEF matches, Live, SameIdentity
  <2>4. \A j \in SlotIds : slots[j].state # "CLAIMED"
    BY <1>1 DEF IInv, HeldClaimed
  <2> QED
    BY <2>3, <2>4, <1>3, <1>5, <1>6 DEF HeldClaimed
<1>11. Tickets'
  BY <1>1, <1>5, <1>6, TicketsKept DEF IInv, Tickets, TicketAt
<1>12. FifoAdmission'
  BY <1>4, <1>5, <1>6, FifoKept DEF IInv, Offered
<1>13. OwnerHint'
  <2>1. \A j \in SlotIds : Runnable(j)' => Runnable(j)
    BY <1>4, <1>6 DEF Runnable
  <2> QED
    BY <2>1, <1>1, <1>3 DEF IInv, OwnerHint, Unlocked
<1> QED
  BY <1>7, <1>8, <1>9, <1>10, <1>11, <1>12, <1>13 DEF IInv

\* handoff_pending keeps the invariant.
LEMMA PendingInv ==
    ASSUME IInv, NEW i \in SlotIds, handoff_pending(i)
    PROVE  IInv'
<1>t. TypeOK
  BY DEF IInv
<1>1. /\ UNCHANGED <<next_ticket, queued, data, registration, work, started, online, prefer_control>>
      /\ owner.pc = "idle" /\ slots[i].state = "PENDING"
  BY DEF handoff_pending
<1>2. slots[i] \in Slot /\ slots[i].generation \in 0 .. MaxGeneration
  BY <1>t DEF TypeOK, Slot
<1>3. owner' = [pc |-> "step", n |-> 0, token |-> [slot |-> i, generation |-> slots[i].generation]]
  BY DEF Hold, handoff_pending
<1>4. /\ slots' \in [SlotIds -> Slot]
      /\ slots'[i] = [slots[i] EXCEPT !.state = "CLAIMED"]
      /\ \A j \in SlotIds : j # i => slots'[j] = slots[j]
  <2> DEFINE new == [slots[i] EXCEPT !.state = "CLAIMED"]
  <2>1. slots' = [slots EXCEPT ![i] = new]
    BY DEF handoff_pending
  <2>2. new \in Slot
    BY <1>2 DEF Slot, States
  <2> HIDE DEF new
  <2>3. slots' \in [SlotIds -> Slot] /\ slots'[i] = new /\ \A j \in SlotIds : j # i => slots'[j] = slots[j]
    BY <2>1, <2>2, <1>t DEF TypeOK
  <2> QED
    BY <2>3 DEF new
<1>5. \A j \in SlotIds :
        /\ SameIdentity(j) /\ slots'[j].kind = slots[j].kind
        /\ slots'[j].ticket = slots[j].ticket
        /\ j # i => slots'[j].state = slots[j].state
  <2>1. /\ slots'[i].generation = slots[i].generation /\ slots'[i].actor = slots[i].actor
        /\ slots'[i].kind = slots[i].kind /\ slots'[i].state = "CLAIMED"
        /\ slots'[i].ticket = slots[i].ticket /\ slots'[i].caller = slots[i].caller
    BY <1>4, <1>2 DEF Slot
  <2> QED
    BY <2>1, <1>1, <1>4 DEF SameIdentity
<1>6. slots'[i].state = "CLAIMED"
  BY <1>4, <1>2 DEF Slot
<1>7. CreditLedger'
  BY <1>1, <1>5, <1>6, LedgerKept DEF IInv
<1>8. TypeOK' /\ ScanCount'
  <2>1. owner' \in [pc : {"idle", "step", "clean", "scan", "grant"}, n : 0 .. Batch, token : Token]
    BY <1>2, <1>3, HandoffAssumption DEF Token
  <2> QED
    BY <2>1, <1>1, <1>3, <1>4, <1>7, <1>t DEF TypeOK, ScanCount
<1>9. Registered' /\ Generations' /\ RegistrationSafe'
  BY <1>1, <1>5, IdentityKept DEF IInv
<1>10. HeldClaimed'
  <2>1. RegisteredAt(i)
    BY DEF IInv, Registered
  <2>2. slots[i].generation # 0
    BY <2>1, <1>1 DEF RegisteredAt, Live
  <2>3. matches(owner.token)'
    BY <2>2, <1>3, <1>5, <1>6 DEF matches, Live, SameIdentity
  <2>4. \A j \in SlotIds : slots[j].state # "CLAIMED"
    BY <1>1 DEF IInv, HeldClaimed
  <2> QED
    BY <2>3, <2>4, <1>3, <1>5, <1>6 DEF HeldClaimed
<1>11. Tickets'
  BY <1>1, <1>5, <1>6, TicketsKept DEF IInv, Tickets, TicketAt
<1>12. FifoAdmission'
  BY <1>4, <1>5, <1>6, FifoKept DEF IInv, Offered
<1>13. OwnerHint'
  <2>1. \A j \in SlotIds : Runnable(j)' => Runnable(j)
    BY <1>4, <1>6 DEF Runnable
  <2> QED
    BY <2>1, <1>1, <1>3 DEF IInv, OwnerHint, Unlocked
<1> QED
  BY <1>7, <1>8, <1>9, <1>10, <1>11, <1>12, <1>13 DEF IInv

\* handoff_finish keeps the invariant: its token is the CLAIMED slot's, and a
\* cancellation that came in meanwhile is hinted again.
LEMMA FinishInv ==
    ASSUME IInv, NEW pending \in BOOLEAN, NEW status \in Statuses,
           handoff_finish(pending, status)
    PROVE  IInv'
<1> DEFINE i == owner.token.slot
           st == IF pending THEN "PENDING" ELSE "COMPLETED"
           rp == IF pending THEN slots[i].reply ELSE status
<1>t. TypeOK /\ i \in SlotIds /\ slots[i] \in Slot
  BY DEF IInv, TypeOK, Token
<1>1. /\ UNCHANGED <<next_ticket, queued, data, registration, started, online, prefer_control>>
      /\ owner.pc = "step" /\ slots[i].state = "CLAIMED" /\ matches(owner.token)
      /\ \A j \in SlotIds : j # i => slots[j].state # "CLAIMED"
      /\ owner' = [pc |-> "idle", n |-> 0, token |-> NoToken]
  BY <1>t DEF handoff_finish, IInv, HeldClaimed, Rest
<1>2. work' = (work \/ FinishHint(i, pending))
  BY <1>1 DEF handoff_finish
<1>3. /\ slots' \in [SlotIds -> Slot]
      /\ slots'[i] = [slots[i] EXCEPT !.state = st, !.reply = rp]
      /\ \A j \in SlotIds : j # i => slots'[j] = slots[j]
  <2> DEFINE new == [slots[i] EXCEPT !.state = st, !.reply = rp]
  <2>1. slots' = [slots EXCEPT ![i] = new]
    BY <1>1 DEF handoff_finish
  <2>2. st \in States /\ rp \in Replies
    BY <1>t DEF States, Replies, Slot
  <2>3. new \in Slot
    <3> HIDE DEF st, rp, i
    <3> QED
      BY <2>2, <1>t DEF Slot
  <2> HIDE DEF new
  <2>4. slots' \in [SlotIds -> Slot] /\ slots'[i] = new /\ \A j \in SlotIds : j # i => slots'[j] = slots[j]
    BY <2>1, <2>3, <1>t DEF TypeOK
  <2> QED
    BY <2>4 DEF new
<1> HIDE DEF i, st, rp
<1>4. /\ slots'[i].generation = slots[i].generation /\ slots'[i].actor = slots[i].actor
      /\ slots'[i].kind = slots[i].kind /\ slots'[i].state = st
      /\ slots'[i].ticket = slots[i].ticket /\ slots'[i].caller = slots[i].caller
      /\ slots'[i].cancel = slots[i].cancel
  BY <1>3, <1>t DEF Slot
<1>5. \A j \in SlotIds :
        /\ SameIdentity(j) /\ slots'[j].kind = slots[j].kind
        /\ slots'[j].ticket = slots[j].ticket
        /\ j # i => slots'[j].state = slots[j].state
  BY <1>1, <1>3, <1>4 DEF SameIdentity, st
<1>6. CreditLedger'
  BY <1>1, <1>4, <1>5, LedgerKept DEF IInv, st
<1>7. TypeOK' /\ ScanCount'
  <2>1. owner' \in [pc : {"idle", "step", "clean", "scan", "grant"}, n : 0 .. Batch, token : Token]
    BY <1>1, HandoffAssumption DEF Token, NoToken, SlotIds
  <2>2. work' \in BOOLEAN
    BY <1>2
  <2> QED
    BY <2>1, <2>2, <1>1, <1>3, <1>t DEF TypeOK, ScanCount
<1>8. Registered' /\ Generations' /\ RegistrationSafe'
  BY <1>1, <1>5, IdentityKept DEF IInv
<1>9. HeldClaimed'
  BY <1>1, <1>4, <1>5 DEF HeldClaimed, st
<1>10. Tickets'
  BY <1>1, <1>4, <1>5, TicketsKept DEF IInv, Tickets, TicketAt, st
<1>11. FifoAdmission'
  BY <1>3, <1>4, <1>5, FifoKept DEF IInv, Offered, st
<1>12. OwnerHint'
  <2> SUFFICES ASSUME NEW j \in SlotIds, Runnable(j)' PROVE work'
    BY DEF OwnerHint
  <2>1. CASE j = i
    BY <2>1, <1>2, <1>4 DEF Runnable, FinishHint, st
  <2>2. CASE j # i
    <3>1. Runnable(j)
      BY <2>2, <1>3 DEF Runnable
    <3> QED
      BY <3>1, <1>1, <1>2 DEF IInv, OwnerHint, Unlocked
  <2> QED
    BY <2>1, <2>2
<1> QED
  BY <1>6, <1>7, <1>8, <1>9, <1>10, <1>11, <1>12 DEF IInv

\* handoff_acknowledge takes the lock: the hint may go down from here on.
LEMMA AckEnterInv ==
    ASSUME IInv, AckEnter
    PROVE  IInv'
<1>1. /\ UNCHANGED <<slots, next_ticket, queued, data, registration, online, started, prefer_control>>
      /\ owner.pc = "idle" /\ owner' = [pc |-> "scan", n |-> 0, token |-> NoToken]
      /\ work' = FALSE
  BY DEF AckEnter
<1>2. TypeOK' /\ ScanCount'
  <2>1. owner' \in [pc : {"idle", "step", "clean", "scan", "grant"}, n : 0 .. Batch, token : Token]
    BY <1>1, HandoffAssumption DEF Token, NoToken, SlotIds
  <2> QED
    <3>1. TypeOK'
      BY <2>1, <1>1 DEF IInv, TypeOK
    <3>2. ScanCount'
      BY <1>1, HandoffAssumption DEF ScanCount
    <3> QED
      BY <3>1, <3>2
<1>3. CreditLedger' /\ Tickets' /\ FifoAdmission'
  BY <1>1 DEF IInv, CreditLedger, Tickets, TicketAt, FifoAdmission, Offered, SameClass, Control
<1>4. Registered' /\ Generations' /\ RegistrationSafe'
  BY <1>1 DEF IInv, Registered, RegisteredAt, Generations, GenerationOf, RegistrationSafe,
              matches, Live
<1>5. HeldClaimed'
  BY <1>1 DEF IInv, HeldClaimed
<1>6. OwnerHint'
  BY <1>1 DEF OwnerHint, Unlocked
<1> QED
  BY <1>2, <1>3, <1>4, <1>5, <1>6 DEF IInv

\* What the first loop of handoff_acknowledge makes of slot i: recycled, answered
\* as cancelled, or as before.
LEMMA AcknowledgedSlot ==
    ASSUME TypeOK, NEW i \in SlotIds
    PROVE  /\ Acknowledged(i) \in Slot
           /\ Reclaimable(i) =>
                /\ Acknowledged(i).state \in {"FREE", "RETIRED"}
                /\ Acknowledged(i).ticket = 0
                /\ Acknowledged(i).generation >= slots[i].generation
                /\ Acknowledged(i).state = "FREE"
                     => Acknowledged(i).generation > slots[i].generation
           /\ ~Reclaimable(i) /\ CancelUnclaimed(i) =>
                Acknowledged(i) = [slots[i] EXCEPT !.reply = "EINTR", !.state = "COMPLETED"]
           /\ ~Reclaimable(i) /\ ~CancelUnclaimed(i) => Acknowledged(i) = slots[i]
<1>t. slots[i] \in Slot
  BY DEF TypeOK
<1>1. CASE Reclaimable(i)
  <2> DEFINE st == IF slots[i].generation = MaxGeneration THEN "RETIRED" ELSE "FREE"
             g == slots[i].generation + (IF slots[i].generation = MaxGeneration THEN 0 ELSE 1)
  <2>1. Acknowledged(i) = [EmptySlot EXCEPT !.state = st, !.generation = g]
    BY <1>1 DEF Acknowledged
  <2>2. /\ st \in {"FREE", "RETIRED"} /\ g \in 0 .. MaxGeneration
        /\ g >= slots[i].generation /\ (st = "FREE" => g > slots[i].generation)
    BY <1>t, HandoffAssumption DEF Slot
  <2> HIDE DEF st, g
  <2>3. Acknowledged(i) = [generation |-> g, ticket |-> 0, state |-> st, caller |-> FALSE,
                           cancel |-> FALSE, cleaned |-> FALSE, reply |-> "none",
                           actor |-> NoActor, kind |-> NoKind]
    BY <2>1 DEF EmptySlot
  <2>4. Acknowledged(i) \in Slot
    BY <2>2, <2>3, HandoffAssumption DEF Slot, States, Replies
  <2> QED
    BY <2>2, <2>3, <2>4, <1>1
<1>2. CASE ~Reclaimable(i) /\ CancelUnclaimed(i)
  <2>1. Acknowledged(i) = [slots[i] EXCEPT !.reply = "EINTR", !.state = "COMPLETED"]
    BY <1>2 DEF Acknowledged
  <2>2. Acknowledged(i) \in Slot
    BY <2>1, <1>t DEF Slot, States, Replies
  <2> QED
    BY <2>1, <2>2, <1>2
<1>3. CASE ~Reclaimable(i) /\ ~CancelUnclaimed(i)
  <2>1. Acknowledged(i) = [slots[i] EXCEPT !.reply = slots[i].reply, !.state = slots[i].state]
    BY <1>3 DEF Acknowledged
  <2>2. Acknowledged(i) = slots[i]
    BY <2>1, <1>t DEF Slot
  <2> QED
    BY <2>2, <1>3, <1>t
<1> QED
  BY <1>1, <1>2, <1>3

\* An iteration of the first loop keeps the invariant: a slot is recycled under
\* a generation no token has, and only when its caller has left.
LEMMA AckScanInv ==
    ASSUME IInv, NEW i \in SlotIds, AckScan(i)
    PROVE  IInv'
<1>t. TypeOK /\ slots[i] \in Slot
  BY DEF IInv, TypeOK
<1>1. /\ UNCHANGED <<next_ticket, registration, online, started, prefer_control, work>>
      /\ owner.pc = "scan"
      /\ slots' = [slots EXCEPT ![i] = Acknowledged(i)]
  BY DEF AckScan
<1>2. /\ slots' \in [SlotIds -> Slot]
      /\ slots'[i] = Acknowledged(i)
      /\ \A j \in SlotIds : j # i => slots'[j] = slots[j]
  BY <1>1, <1>t, AcknowledgedSlot DEF TypeOK
<1>3. /\ owner' \in [pc : {"scan", "grant"}, n : 0 .. Batch, token : Token]
      /\ owner'.pc = "scan" => owner'.n < Batch
  <2>1. owner.n \in 0 .. Batch /\ owner.n < Batch /\ owner.token \in Token
    BY <1>1, <1>t DEF IInv, ScanCount, TypeOK
  <2>2. owner' = [pc |-> IF owner.n + 1 = Batch THEN "grant" ELSE "scan",
                  n |-> IF owner.n + 1 = Batch THEN 0 ELSE owner.n + 1,
                  token |-> owner.token]
    BY <1>t DEF AckScan, TypeOK
  <2> QED
    BY <2>1, <2>2, HandoffAssumption
<1>4. ASSUME Reclaimable(i)
      PROVE  Registered' /\ Generations' /\ RegistrationSafe'
  <2>1. /\ slots'[i].state \in {"FREE", "RETIRED"} /\ slots'[i].ticket = 0
        /\ slots'[i].generation >= slots[i].generation
        /\ slots'[i].state = "FREE" => slots'[i].generation > slots[i].generation
    BY <1>2, <1>4, <1>t, AcknowledgedSlot
  <2>2. ~slots[i].caller
    BY <1>4 DEF Reclaimable
  <2>3. Registered'
    BY <2>1, <1>1, <1>2 DEF IInv, Registered, RegisteredAt, Live
  <2>p. \A b \in Actors : registration[b].token \in Token /\ registration[b].token.slot \in SlotIds
    BY <1>t DEF TypeOK, Token
  <2>4. Generations'
    <3> SUFFICES ASSUME NEW b \in Actors PROVE GenerationOf(b)'
      BY DEF Generations
    <3>1. GenerationOf(b)
      BY DEF IInv, Generations
    <3>2. CASE registration[b].token.slot = i
      <4>1. /\ registration[b].token.generation \in Nat /\ slots[i].generation \in Nat
            /\ slots'[i].generation \in Nat
        BY <2>p, <1>t, <1>2 DEF Token, TypeOK, Slot
      <4>2. registration[b].token.generation <= slots[i].generation
        BY <3>1, <3>2 DEF GenerationOf
      <4> QED
        BY <4>1, <4>2, <3>2, <2>1, <1>1 DEF GenerationOf
    <3>3. CASE registration[b].token.slot # i
      BY <3>1, <3>3, <2>p, <1>1, <1>2 DEF GenerationOf
    <3> QED
      BY <3>2, <3>3
  <2>5. RegistrationSafe'
    <3> SUFFICES ASSUME NEW b \in Actors PROVE SafeFor(b)'
      BY DEF RegistrationSafe, SafeFor
    <3>1. SafeFor(b)
      BY DEF IInv, RegistrationSafe, SafeFor
    <3>2. CASE registration[b].token.slot = i
      BY <3>1, <3>2, <2>1, <2>2, <1>1 DEF SafeFor, matches, Live
    <3>3. CASE registration[b].token.slot # i
      BY <3>1, <3>3, <2>p, <1>1, <1>2 DEF SafeFor, matches, Live
    <3> QED
      BY <3>2, <3>3
  <2> QED
    BY <2>1, <2>3, <2>4, <2>5
<1>5. ASSUME ~Reclaimable(i)
      PROVE  Registered' /\ Generations' /\ RegistrationSafe'
  <2>1. \A j \in SlotIds : SameIdentity(j)
    <3>1. CASE CancelUnclaimed(i)
      <4>0. slots'[i] = [slots[i] EXCEPT !.reply = "EINTR", !.state = "COMPLETED"]
        BY <3>1, <1>2, <1>5, <1>t, AcknowledgedSlot
      <4>1. /\ slots'[i].generation = slots[i].generation /\ slots'[i].actor = slots[i].actor
            /\ slots'[i].caller = slots[i].caller /\ slots'[i].state = "COMPLETED"
            /\ slots[i].state \in {"PREPARED", "QUEUED"}
        BY <3>1, <4>0, <1>t DEF Slot, CancelUnclaimed
      <4> QED
        BY <4>1, <1>2 DEF SameIdentity
    <3>2. CASE ~CancelUnclaimed(i)
      <4>1. slots'[i] = slots[i]
        BY <3>2, <1>2, <1>5, <1>t, AcknowledgedSlot
      <4> QED
        BY <4>1, <1>2 DEF SameIdentity
    <3> QED
      BY <3>1, <3>2
  <2> QED
    BY <2>1, <1>1, IdentityKept DEF IInv
<1>6. \/ slots'[i] = slots[i] /\ ~CancelUnclaimed(i)
      \/ /\ slots'[i].state \in {"FREE", "RETIRED", "COMPLETED"}
         /\ slots'[i].ticket \in {slots[i].ticket, 0}
         /\ slots[i].state # "QUEUED" \/ slots[i].cancel
  <2>1. CASE Reclaimable(i)
    BY <2>1, <1>2, <1>t, AcknowledgedSlot DEF Reclaimable, CancelUnclaimed
  <2>2. CASE ~Reclaimable(i) /\ CancelUnclaimed(i)
    <3>1. slots'[i] = [slots[i] EXCEPT !.reply = "EINTR", !.state = "COMPLETED"]
      BY <2>2, <1>2, <1>t, AcknowledgedSlot
    <3> QED
      BY <3>1, <2>2, <1>t DEF Slot, CancelUnclaimed
  <2>3. CASE ~Reclaimable(i) /\ ~CancelUnclaimed(i)
    BY <2>3, <1>2, <1>t, AcknowledgedSlot
  <2> QED
    BY <2>1, <2>2, <2>3
<1>7. CreditLedger' /\ queued' \in 0 .. HANDOFF_CREDITS /\ data' \in 0 .. HANDOFF_DATA_CREDITS
  <2>1. CASE slots[i].state = "QUEUED" /\ slots[i].cancel
    <3>1. drop_credit(i) /\ slots'[i].state # "QUEUED"
      BY <2>1, <1>6 DEF AckScan, CancelUnclaimed
    <3> QED
      BY <3>1, <2>1, <1>2, <1>t, LedgerDropped DEF IInv
  <2>2. CASE ~(slots[i].state = "QUEUED" /\ slots[i].cancel)
    <3>1. UNCHANGED <<queued, data>>
      BY <2>2 DEF AckScan
    <3>2. \A j \in SlotIds :
            /\ slots'[j].state = "QUEUED" <=> slots[j].state = "QUEUED"
            /\ slots[j].state = "QUEUED" => slots'[j].kind = slots[j].kind
      BY <2>2, <1>2, <1>6
    <3> QED
      BY <3>1, <3>2, <1>t, LedgerKept DEF IInv, TypeOK
  <2> QED
    BY <2>1, <2>2
<1>8. TypeOK' /\ ScanCount'
  BY <1>1, <1>2, <1>3, <1>7, <1>t DEF TypeOK, ScanCount
<1>9. HeldClaimed'
  BY <1>1, <1>2, <1>3, <1>6 DEF IInv, HeldClaimed
<1>10. Tickets'
  BY <1>1, <1>2, <1>6, <1>t, TicketsKept DEF IInv, Tickets, TicketAt
<1>11. FifoAdmission'
  <2>1. \A j \in SlotIds :
              /\ slots'[j].state = "QUEUED" => slots[j].state = "QUEUED"
              /\ Offered(j)' => Offered(j)
              /\ Offered(j)' \/ slots'[j].state = "QUEUED"
                    => slots'[j].ticket = slots[j].ticket /\ slots'[j].kind = slots[j].kind
    BY <1>2, <1>6 DEF Offered
  <2> QED
    BY <2>1, FifoKept DEF IInv
<1>12. OwnerHint'
  BY <1>3 DEF OwnerHint, Unlocked
<1> QED
  BY <1>4, <1>5, <1>7, <1>8, <1>9, <1>10, <1>11, <1>12 DEF IInv

\* An iteration of the second loop keeps the invariant.
LEMMA AckGrantInv ==
    ASSUME IInv, AckGrant
    PROVE  IInv'
<1>t. TypeOK
  BY DEF IInv
<1>a. PICK i \in SlotIds :
        /\ CanGrant(i)
        /\ slots' = [slots EXCEPT ![i].state = "QUEUED"]
        /\ TakeCredit(i)
  BY DEF AckGrant
<1>1. /\ UNCHANGED <<next_ticket, registration, work, started, online, prefer_control>>
      /\ owner.pc = "grant" /\ owner.n < Batch
      /\ owner' = [owner EXCEPT !.n = owner.n + 1]
  BY DEF AckGrant
<1>2. slots[i] \in Slot /\ Offered(i) /\ eligible(i, slots[i].ticket)
  BY <1>a, <1>t DEF TypeOK, CanGrant
<1>3. /\ owner' \in [pc : {"idle", "step", "clean", "scan", "grant"}, n : 0 .. Batch, token : Token]
      /\ owner'.pc = "grant"
  BY <1>1, <1>t, HandoffAssumption DEF TypeOK
<1>4. /\ slots' \in [SlotIds -> Slot]
      /\ slots'[i] = [slots[i] EXCEPT !.state = "QUEUED"]
      /\ \A j \in SlotIds : j # i => slots'[j] = slots[j]
  <2> DEFINE new == [slots[i] EXCEPT !.state = "QUEUED"]
  <2>1. slots' = [slots EXCEPT ![i] = new]
    BY <1>a
  <2>2. new \in Slot
    BY <1>2 DEF Slot, States
  <2> HIDE DEF new
  <2>3. slots' \in [SlotIds -> Slot] /\ slots'[i] = new /\ \A j \in SlotIds : j # i => slots'[j] = slots[j]
    BY <2>1, <2>2, <1>t DEF TypeOK
  <2> QED
    BY <2>3 DEF new
<1>5. /\ slots'[i].generation = slots[i].generation /\ slots'[i].actor = slots[i].actor
      /\ slots'[i].kind = slots[i].kind /\ slots'[i].state = "QUEUED"
      /\ slots'[i].ticket = slots[i].ticket /\ slots'[i].caller = slots[i].caller
  BY <1>4, <1>2 DEF Slot
<1>6. slots[i].state = "PREPARED" /\ slots[i].ticket # 0
  BY <1>2 DEF Offered
<1>7. CreditLedger' /\ queued' \in 0 .. HANDOFF_CREDITS /\ data' \in 0 .. HANDOFF_DATA_CREDITS
  <2>1. \A j \in SlotIds : /\ slots'[j].kind = slots[j].kind
                           /\ j # i => slots'[j].state = slots[j].state
    BY <1>4, <1>5
  <2> QED
    BY <2>1, <1>a, <1>2, <1>5, <1>6, <1>t, LedgerTaken DEF IInv, eligible
<1>8. TypeOK' /\ ScanCount'
  BY <1>1, <1>3, <1>4, <1>7, <1>t DEF TypeOK, ScanCount
<1>9. Registered' /\ Generations' /\ RegistrationSafe'
  <2>1. \A j \in SlotIds : SameIdentity(j)
    BY <1>4, <1>5, <1>6 DEF SameIdentity
  <2> QED
    BY <2>1, <1>1, IdentityKept DEF IInv
<1>10. HeldClaimed'
  <2>1. \A j \in SlotIds : slots[j].state # "CLAIMED"
    BY <1>1 DEF IInv, HeldClaimed
  <2>2. \A j \in SlotIds : slots'[j].state # "CLAIMED"
    BY <2>1, <1>4, <1>5
  <2> QED
    BY <2>2, <1>3 DEF HeldClaimed
<1>11. Tickets'
  <2>1. \A j \in SlotIds : slots[j].state = "QUEUED" => slots[j].ticket # 0
    BY DEF IInv, Tickets, TicketAt
  <2>2. \A j \in SlotIds : /\ slots'[j].ticket \in {slots[j].ticket, 0}
                           /\ slots'[j].state = "QUEUED" => slots'[j].ticket # 0
    BY <1>4, <1>5, <1>6, <2>1
  <2>3. Tickets /\ UNCHANGED next_ticket
    BY <1>1 DEF IInv
  <2> QED
    BY <1>t, <2>2, <2>3, TicketsKept
<1>12. FifoAdmission'
  <2> SUFFICES ASSUME NEW j \in SlotIds, NEW m \in SlotIds,
                      slots'[j].state = "QUEUED", Offered(m)', SameClass(j, m)'
               PROVE  slots'[j].ticket < slots'[m].ticket
    BY DEF FifoAdmission
  <2>1. m # i /\ slots'[m] = slots[m] /\ Offered(m)
    BY <1>4, <1>5 DEF Offered
  <2>2. SameClass(j, m)
    BY <1>4, <1>5 DEF SameClass, Control
  <2>3. CASE j = i
    <3>1. slots[i].ticket <= slots[m].ticket
      BY <2>1, <2>2, <2>3, <1>2 DEF eligible
    <3>2. slots[i].ticket # slots[m].ticket
      BY <2>1, <1>6 DEF IInv, Tickets, TicketAt
    <3>3. slots[m].ticket \in Nat /\ slots[i].ticket \in Nat
      BY <1>t DEF TypeOK, Slot
    <3> QED
      BY <3>1, <3>2, <3>3, <2>1, <2>3, <1>5
  <2>4. CASE j # i
    BY <2>1, <2>2, <2>4, <1>4 DEF IInv, FifoAdmission
  <2> QED
    BY <2>3, <2>4
<1>13. OwnerHint'
  BY <1>3 DEF OwnerHint, Unlocked
<1> QED
  BY <1>7, <1>8, <1>9, <1>10, <1>11, <1>12, <1>13 DEF IInv

\* handoff_acknowledge returns: the hint is up again if anything is left to do.
LEMMA AckLeaveInv ==
    ASSUME IInv, AckLeave
    PROVE  IInv'
<1>1. /\ UNCHANGED <<slots, next_ticket, queued, data, registration, online, started, prefer_control>>
      /\ owner.pc = "grant" /\ owner' = [pc |-> "idle", n |-> 0, token |-> NoToken]
      /\ work' = (work \/ \E i \in SlotIds : Runnable(i))
  BY DEF AckLeave, Rest
<1>2. TypeOK' /\ ScanCount'
  <2>1. owner' \in [pc : {"idle", "step", "clean", "scan", "grant"}, n : 0 .. Batch, token : Token]
    BY <1>1, HandoffAssumption DEF Token, NoToken, SlotIds
  <2>2. work' \in BOOLEAN
    BY <1>1
  <2> QED
    BY <2>1, <2>2, <1>1 DEF IInv, TypeOK, ScanCount
<1>3. CreditLedger' /\ Tickets' /\ FifoAdmission'
  BY <1>1 DEF IInv, CreditLedger, Tickets, TicketAt, FifoAdmission, Offered, SameClass, Control
<1>4. Registered' /\ Generations' /\ RegistrationSafe'
  BY <1>1 DEF IInv, Registered, RegisteredAt, Generations, GenerationOf, RegistrationSafe,
              matches, Live
<1>5. HeldClaimed'
  BY <1>1 DEF IInv, HeldClaimed
<1>6. OwnerHint'
  BY <1>1 DEF OwnerHint, Runnable
<1> QED
  BY <1>2, <1>3, <1>4, <1>5, <1>6 DEF IInv

\* Taking up a slot for cleaning keeps the invariant.
LEMMA InspectInv ==
    ASSUME IInv, NEW i \in SlotIds, handoff_inspect(i)
    PROVE  IInv'
<1>1. /\ UNCHANGED <<slots, next_ticket, queued, data, registration, online, started,
                     prefer_control, work>>
      /\ owner.pc = "idle" /\ Disposable(i)
      /\ owner' = [pc |-> "clean", n |-> 0, token |-> [slot |-> i, generation |-> slots[i].generation]]
  BY DEF handoff_inspect, Hold
<1>2. TypeOK' /\ ScanCount'
  <2>1. slots[i].generation \in 0 .. MaxGeneration
    BY DEF IInv, TypeOK, Slot
  <2>2. owner' \in [pc : {"idle", "step", "clean", "scan", "grant"}, n : 0 .. Batch, token : Token]
    BY <2>1, <1>1, HandoffAssumption DEF Token
  <2> QED
    BY <2>2, <1>1 DEF IInv, TypeOK, ScanCount
<1>3. CreditLedger' /\ Tickets' /\ FifoAdmission'
  BY <1>1 DEF IInv, CreditLedger, Tickets, TicketAt, FifoAdmission, Offered, SameClass, Control
<1>4. Registered' /\ Generations' /\ RegistrationSafe'
  BY <1>1 DEF IInv, Registered, RegisteredAt, Generations, GenerationOf, RegistrationSafe,
              matches, Live
<1>5. HeldClaimed'
  <2>1. slots[i].generation # 0 /\ Live(i)
    BY <1>1 DEF IInv, Registered, RegisteredAt, Live, Disposable
  <2>2. \A j \in SlotIds : slots[j].state # "CLAIMED"
    BY <1>1 DEF IInv, HeldClaimed
  <2> QED
    BY <2>1, <2>2, <1>1 DEF HeldClaimed, matches, Live, Disposable
<1>6. OwnerHint'
  BY <1>1 DEF IInv, OwnerHint, Runnable, Unlocked
<1> QED
  BY <1>2, <1>3, <1>4, <1>5, <1>6 DEF IInv

\* handoff_cleaned keeps the invariant.
LEMMA CleanedInv ==
    ASSUME IInv, handoff_cleaned
    PROVE  IInv'
<1>t. TypeOK /\ owner.token.slot \in SlotIds
  BY DEF IInv, TypeOK, Token
<1>1. /\ UNCHANGED <<next_ticket, queued, data, registration, online, started, prefer_control>>
      /\ owner.pc = "clean" /\ owner' = [pc |-> "idle", n |-> 0, token |-> NoToken]
      /\ work' = TRUE
  BY DEF handoff_cleaned, hint, Rest
<1>2. /\ slots' \in [SlotIds -> Slot]
      /\ \A j \in SlotIds : slots'[j] \in {slots[j], [slots[j] EXCEPT !.cleaned = TRUE]}
  <2> DEFINE i == owner.token.slot
             new == [slots[i] EXCEPT !.cleaned = TRUE]
  <2>1. new \in Slot
    <3>1. slots[i] \in Slot
      BY <1>t DEF TypeOK
    <3> HIDE DEF i
    <3> QED
      BY <3>1 DEF Slot
  <2>2. slots' = [slots EXCEPT ![i] = new] \/ slots' = slots
    BY DEF handoff_cleaned
  <2>i. i \in SlotIds /\ slots \in [SlotIds -> Slot]
    BY <1>t DEF TypeOK
  <2> HIDE DEF new, i
  <2>3. slots' \in [SlotIds -> Slot] /\ \A j \in SlotIds : (slots'[j] = slots[j] \/ (j = i /\ slots'[j] = new))
    BY <2>1, <2>2, <2>i
  <2> QED
    BY <2>3 DEF new
<1>3. \A j \in SlotIds :
        /\ SameIdentity(j)
        /\ slots'[j].state = slots[j].state /\ slots'[j].ticket = slots[j].ticket
        /\ slots'[j].kind = slots[j].kind
        /\ Offered(j)' => Offered(j)
  BY <1>2, <1>t DEF TypeOK, Slot, SameIdentity, Offered
<1>4. TypeOK' /\ ScanCount'
  <2>1. owner' \in [pc : {"idle", "step", "clean", "scan", "grant"}, n : 0 .. Batch, token : Token]
    BY <1>1, HandoffAssumption DEF Token, NoToken, SlotIds
  <2> QED
    BY <2>1, <1>1, <1>2, <1>t DEF TypeOK, ScanCount
<1>5. CreditLedger' /\ FifoAdmission' /\ Tickets'
  BY <1>1, <1>3, LedgerKept, FifoKept, TicketsKept DEF IInv, Tickets, TicketAt
<1>6. Registered' /\ Generations' /\ RegistrationSafe'
  BY <1>1, <1>3, IdentityKept DEF IInv
<1>7. HeldClaimed'
  BY <1>1, <1>3 DEF IInv, HeldClaimed
<1>8. OwnerHint'
  BY <1>1 DEF OwnerHint
<1> QED
  BY <1>4, <1>5, <1>6, <1>7, <1>8 DEF IInv

-----------------------------------------------------------------------------
(* The theorems                                                            *)

\* The invariant holds initially.
LEMMA InitInv == Init => IInv
<1> SUFFICES ASSUME Init PROVE IInv
  OBVIOUS
<1>1. /\ slots = [i \in SlotIds |-> EmptySlot] /\ next_ticket = 0 /\ queued = 0 /\ data = 0
      /\ online = FALSE /\ started = FALSE /\ prefer_control = TRUE /\ work = FALSE
      /\ registration = [a \in Actors |-> [token |-> NoToken, active |-> FALSE]]
      /\ owner = [pc |-> "idle", n |-> 0, token |-> NoToken]
  BY DEF Init
<1>2. EmptySlot \in Slot /\ NoToken \in Token
  BY HandoffAssumption DEF EmptySlot, Slot, NoToken, Token, States, Replies, SlotIds
<1>3. \A i \in SlotIds : slots[i].state = "FREE" /\ slots[i].ticket = 0 /\ slots[i].generation = 0
  BY <1>1 DEF EmptySlot
<1>4. \A a \in Actors : /\ registration[a].token = NoToken /\ ~registration[a].active
                        /\ registration[a].token.slot \in SlotIds
                        /\ registration[a].token.generation = 0
  BY <1>1, HandoffAssumption DEF NoToken, SlotIds
<1>5. TypeOK /\ ScanCount
  <2>1. owner \in [pc : {"idle", "step", "clean", "scan", "grant"}, n : 0 .. Batch, token : Token]
    BY <1>1, <1>2, HandoffAssumption
  <2> QED
    <3>1. slots \in [SlotIds -> Slot] /\ registration \in [Actors -> [token : Token, active : BOOLEAN]]
      BY <1>1, <1>2
    <3>2. next_ticket \in 0 .. MaxTicket /\ queued \in 0 .. HANDOFF_CREDITS
          /\ data \in 0 .. HANDOFF_DATA_CREDITS
      BY <1>1, HandoffAssumption
    <3>3. /\ online \in BOOLEAN /\ started \in BOOLEAN /\ prefer_control \in BOOLEAN
          /\ work \in BOOLEAN
      BY <1>1
    <3>4. ScanCount
      BY <1>1 DEF ScanCount
    <3> QED
      BY <2>1, <3>1, <3>2, <3>3, <3>4 DEF TypeOK
<1>6. CreditLedger
  <2>1. QueuedSlots = {} /\ QueuedData = {}
    BY <1>3 DEF QueuedSlots, QueuedData
  <2> QED
    BY <2>1, <1>1, LedgerSets, FS_EmptySet
<1>7. Registered /\ Generations /\ RegistrationSafe
  BY <1>3, <1>4 DEF Registered, RegisteredAt, Live, Generations, GenerationOf, RegistrationSafe, matches
<1>8. HeldClaimed /\ Tickets /\ FifoAdmission /\ OwnerHint
  BY <1>1, <1>3 DEF HeldClaimed, Tickets, TicketAt, FifoAdmission, Offered, OwnerHint, Runnable
<1> QED
  BY <1>5, <1>6, <1>7, <1>8 DEF IInv

\* Every step keeps it.
LEMMA StepInv == IInv /\ [Next]_vars => IInv'
<1> SUFFICES ASSUME IInv, [Next]_vars PROVE IInv'
  OBVIOUS
<1>1. CASE handoff_start \/ handoff_notify
  BY <1>1, FlagsInv
<1>2. CASE handoff_fail
  BY <1>2, FailInv
<1>3. CASE \E a \in Actors : CallerStep(a)
  <2> PICK a \in Actors : CallerStep(a)
    BY <1>3
  <2> QED
    BY BeginInv, PublishInv, CancelInv, ReleaseInv DEF CallerStep
<1>4. CASE OwnerStep
  BY <1>4, ClaimInv, PendingInv, FinishInv, AckEnterInv, AckScanInv, AckGrantInv, AckLeaveInv,
     InspectInv, CleanedInv DEF OwnerStep
<1>5. CASE UNCHANGED vars
  <2>1. UNCHANGED <<slots, next_ticket, queued, data, online, started, prefer_control,
                    work, registration, owner>>
    BY <1>5 DEF vars
  <2>2. TypeOK' /\ ScanCount' /\ CreditLedger'
    BY <2>1 DEF IInv, TypeOK, ScanCount, CreditLedger, Control
  <2>3. Registered' /\ Generations' /\ RegistrationSafe'
    BY <2>1 DEF IInv, Registered, RegisteredAt, Generations, GenerationOf, RegistrationSafe, matches, Live
  <2>4. HeldClaimed' /\ Tickets' /\ FifoAdmission' /\ OwnerHint'
    BY <2>1 DEF IInv, HeldClaimed, Tickets, TicketAt, FifoAdmission, OwnerHint,
       Offered, SameClass, Control, Runnable, Unlocked, matches, Live, Disposable
  <2> QED
    BY <2>2, <2>3, <2>4 DEF IInv
<1> QED
  BY <1>1, <1>2, <1>3, <1>4, <1>5 DEF Next

\* handoff.c keeps its inductive invariant.
THEOREM Invariance == Spec => []IInv
BY InitInv, StepInv, PTL DEF Spec

\* Counters, slots and tokens stay within their types: in particular `queued'
\* and `data' stay within their limits, and no counter goes below zero.
THEOREM TypeCorrect == Spec => []TypeOK
<1>1. IInv => TypeOK
  BY DEF IInv
<1> QED
  BY <1>1, Invariance, PTL

\* The credit counters always equal the number of QUEUED slots of each class.
THEOREM CreditsBalance == Spec => []CreditLedger
<1>1. IInv => CreditLedger
  BY DEF IInv
<1> QED
  BY <1>1, Invariance, PTL

\* No slot is recycled under an interested caller, and no stale token ever
\* names somebody else's request.
THEOREM TokensSafe == Spec => []RegistrationSafe
<1>1. IInv => RegistrationSafe
  BY DEF IInv
<1> QED
  BY <1>1, Invariance, PTL

\* The owner's token is good until handoff_finish or handoff_cleaned uses it.
THEOREM OwnerHolds == Spec => []HeldClaimed
<1>1. IInv => HeldClaimed
  BY DEF IInv
<1> QED
  BY <1>1, Invariance, PTL

\* Nothing is admitted past an earlier offer of its class.
THEOREM AdmissionFifo == Spec => []FifoAdmission
<1>1. IInv => FifoAdmission
  BY DEF IInv
<1> QED
  BY <1>1, Invariance, PTL

\* The owner's hint is up whenever the table holds work for it.
THEOREM HintLevel == Spec => []OwnerHint
<1>1. IInv => OwnerHint
  BY DEF IInv
<1> QED
  BY <1>1, Invariance, PTL

\* Requests of a class are claimed in ticket order.
THEOREM ClaimsInOrder == Spec => ClaimInOrder
<1> DEFINE A == \A i, j \in SlotIds :
          /\ slots[i].state = "QUEUED" /\ slots'[i].state = "CLAIMED"
          /\ SameClass(i, j) /\ (Offered(j) \/ Claimable(j))
          => slots[i].ticket <= slots[j].ticket
<1>1. IInv /\ [Next]_vars => [A]_vars
  <2> SUFFICES ASSUME IInv, Next, NEW i \in SlotIds, NEW j \in SlotIds,
                      slots[i].state = "QUEUED", slots'[i].state = "CLAIMED",
                      SameClass(i, j), Offered(j) \/ Claimable(j)
               PROVE  slots[i].ticket <= slots[j].ticket
    OBVIOUS
  <2>t. TypeOK /\ slots[i].ticket \in Nat /\ slots[j].ticket \in Nat
    BY DEF IInv, TypeOK, Slot
  <2>1. ClaimNext(i)
    <3>s. slots \in [SlotIds -> Slot] /\ owner.token.slot \in SlotIds
          /\ \A a \in Actors : registration[a].token.slot \in SlotIds
      BY <2>t DEF TypeOK, Token
    <3>1. CASE handoff_claim
      BY <3>1, <3>s DEF handoff_claim
    <3>2. CASE handoff_start \/ handoff_notify \/ AckEnter \/ AckLeave \/ \E k \in SlotIds : handoff_inspect(k)
      BY <3>2 DEF handoff_start, handoff_notify, AckEnter, AckLeave, handoff_inspect
    <3>3. CASE handoff_fail
      <4>1. slots'[i].state = slots[i].state
        BY <3>3, <3>s DEF handoff_fail, Slot
      <4> QED
        BY <4>1
    <3>4. CASE \E a \in Actors : CallerStep(a)
      <4> PICK a \in Actors : CallerStep(a)
        BY <3>4
      <4>1. CASE \E k \in Kinds : handoff_begin(a, k)
        BY <4>1, <3>s DEF handoff_begin
      <4>2. CASE handoff_publish(registration[a].token)
        BY <4>2, <3>s DEF handoff_publish, Slot
      <4>3. CASE handoff_cancel(registration[a].token)
        BY <4>3, <3>s DEF handoff_cancel, Slot
      <4>4. CASE handoff_release(a)
        BY <4>4, <3>s DEF handoff_release, Slot
      <4> QED
        BY <4>1, <4>2, <4>3, <4>4 DEF CallerStep
    <3>5. CASE \E k \in SlotIds : handoff_pending(k)
      BY <3>5, <3>s DEF handoff_pending
    <3>6. CASE \E p \in BOOLEAN, x \in Statuses : handoff_finish(p, x)
      BY <3>6, <3>s DEF handoff_finish, Slot
    <3>7. CASE \E k \in SlotIds : AckScan(k)
      <4> PICK k \in SlotIds : AckScan(k)
        BY <3>7
      <4>1. k = i
        BY <3>s DEF AckScan
      <4>2. slots'[i] = Acknowledged(i)
        BY <4>1, <3>s DEF AckScan
      <4>3. slots[i] \in Slot
        BY <3>s
      <4>4. Acknowledged(i) = slots[i] \/ Acknowledged(i).state \in {"FREE", "RETIRED", "COMPLETED"}
        BY <4>3, <2>t, AcknowledgedSlot DEF Slot
      <4> QED
        BY <4>2, <4>4
    <3>8. CASE AckGrant
      BY <3>8, <3>s DEF AckGrant, CanGrant, Offered
    <3>9. CASE handoff_cleaned
      BY <3>9, <3>s DEF handoff_cleaned, Slot
    <3> QED
      BY <3>1, <3>2, <3>3, <3>4, <3>5, <3>6, <3>7, <3>8, <3>9 DEF Next, OwnerStep
  <2>2. CASE Offered(j)
    BY <2>2, <2>t DEF IInv, FifoAdmission
  <2>3. CASE Claimable(j)
    BY <2>1, <2>3 DEF ClaimNext
  <2> QED
    BY <2>2, <2>3
<1> QED
  BY <1>1, Invariance, PTL DEF Spec, ClaimInOrder
=============================================================================
