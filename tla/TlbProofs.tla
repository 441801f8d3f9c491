----------------------------- MODULE TlbProofs -----------------------------
(***************************************************************************)
(* Proofs about ranked spinlocks and TLB shootdown, for every number of    *)
(* processors, address spaces, pages and frames.                           *)
(***************************************************************************)
EXTENDS Tlb, FiniteSetTheorems, SequenceTheorems, NaturalsInduction, TLAPS

-----------------------------------------------------------------------------
(* The inductive invariant                                                 *)

Roots == UserRoots \cup {Kernel}
Instrs == [op : {"lock", "unlock", "map", "unmap", "shoot", "free", "enter", "cr3"},
           arg : Locks \cup Pages \cup Roots]
PageOps == {"map", "unmap", "shoot", "free"}
Phases == {"none", "params", "active", "wait"}
Mailboxes == [gen : Nat, page : Pages \cup {None}, root : Roots, ack : SUBSET Cpus]
Readings == [gen : Nat, page : Pages \cup {None}, root : Roots]
Services == [todo : SUBSET Cpus, req : Readings \cup {None}]

Shapes ==
    /\ code \in [Cpus -> Seq(Instrs)] /\ held \in [Cpus -> Seq(Locks)]
    /\ owner \in [Locks -> Cpus \cup {None}]
    /\ pte \in [Pages -> Frames \cup {None}] /\ pool \subseteq Frames \cup {None}
    /\ taken \in [Cpus -> Frames \cup {None}] /\ inval \in [Cpus -> BOOLEAN]
    /\ ever \in [UserRoots -> BOOLEAN] /\ cr3 \in [Cpus -> Roots]
    /\ tlb \in [Cpus -> SUBSET (Pages \X Frames)]
    /\ slot \in [Cpus -> Mailboxes] /\ active \subseteq Cpus /\ phase \in [Cpus -> Phases]
    /\ svc \in [Cpus -> Services]

\* The order in which can_acquire lets locks be nested.
Before(h, l) ==
    \/ h.rank < l.rank
    \/ h.rank = l.rank /\ h.kind = l.kind /\ l.kind \in {"sched", "process"} /\ h.addr < l.addr

\* st[k] is the chain of locks held before the k-th instruction of the path P.
Laid(P, st) ==
    /\ P \in Seq(Instrs) /\ st \in [1 .. Len(P) + 1 -> Seq(Locks)]
    /\ st[1] = << >> /\ st[Len(P) + 1] = << >>
    /\ \A k \in 1 .. Len(P) :
         /\ P[k].op = "lock" => /\ P[k].arg \in Locks /\ P[k].arg \notin Range(st[k])
                                /\ st[k + 1] = Append(st[k], P[k].arg)
         /\ P[k].op = "unlock" => P[k].arg \in Locks /\ st[k] = Append(st[k + 1], P[k].arg)
         /\ P[k].op \notin {"lock", "unlock"} => st[k + 1] = st[k]

\* The path never asks for a lock that can_acquire refuses.
Ordered(P, st) ==
    \A k \in 1 .. Len(P) : P[k].op = "lock" =>
        Len(st[k]) < 2 /\ \A i \in DOMAIN st[k] : Before(st[k][i], P[k].arg)

\* A path deals with one page, unmaps it before the shootdown and frees its
\* frame behind it, and enters a space before it loads its root.
Staged(P) ==
    /\ \A j, k \in 1 .. Len(P) : P[j].op \in PageOps /\ P[k].op \in PageOps => P[j].arg = P[k].arg
    /\ \A k \in 1 .. Len(P) :
         /\ P[k].op \in PageOps => P[k].arg \in Pages
         /\ P[k].op = "unmap" => \E j \in k + 1 .. Len(P) : P[j].op = "shoot"
         /\ P[k].op \in {"map", "unmap"} =>
              \A j \in k + 1 .. Len(P) : P[j].op \notin {"map", "unmap"}
         /\ P[k].op = "free" => \A j \in k + 1 .. Len(P) : P[j].op # "shoot"
         /\ P[k].op = "enter" => P[k].arg \in UserRoots
         /\ P[k].op = "cr3" => \/ P[k].arg = Kernel
                               \/ /\ P[k].arg \in UserRoots
                                  /\ \E j \in 1 .. k - 1 : P[j].op = "enter" /\ P[j].arg = P[k].arg

\* CPU c is at the k-th instruction of the path P; the lock it spins for is
\* already in its chain.
Follows(c, P, st, k) ==
    /\ Laid(P, st) /\ Staged(P) /\ k \in 1 .. Len(P) + 1 /\ code[c] = SubSeq(P, k, Len(P))
    /\ c \notin other => Ordered(P, st)
    /\ held[c] = st[k] \/ (k <= Len(P) /\ P[k].op = "lock" /\ held[c] = st[k + 1])
    /\ \A j \in 1 .. k - 1 : P[j].op = "enter" => ever[P[j].arg]
Planned(c) == \E P, st, k : Follows(c, P, st, k)

\* The chain is in the order of can_acquire, and has every lock the CPU owns
\* in front of the one it spins for.
Chain(c) == \A i, j \in DOMAIN held[c] : i < j => Before(held[c][i], held[c][j])
Owned(c) == \A l \in Locks : owner[l] = c =>
    \E i \in DOMAIN held[c] : held[c][i] = l /\ (Spinning(c) => i # Len(held[c]))

\* A page is the business of one CPU.
Uses(c, p) == \E i \in DOMAIN code[c] : code[c][i].op \in PageOps /\ code[c][i].arg = p
Apart == \A c, d \in Cpus, p \in Pages : Uses(c, p) /\ Uses(d, p) => c = d

\* A page is mapped only when it is not.
Vacant(c) == \A i \in DOMAIN code[c] : code[c][i].op = "map" => pte[code[c][i].arg] = None

\* What a CPU caches belongs to its root, which is known to be in use.
Loaded(c) ==
    /\ cr3[c] \in UserRoots => ever[cr3[c]]
    /\ \A e \in tlb[c] : RootOf[e[1]] \in {Kernel, cr3[c]}

\* The mailbox of a shootdown in progress is about the page of the path, and
\* what a CPU has read of it is out of date or the same.
Mail(c) ==
    phase[c] # "none" => At(c, "shoot") /\ slot[c].page = Arg(c) /\ slot[c].root = RootOf[Arg(c)]
Asked(c) ==
    svc[c].req # None =>
        /\ svc[c].todo # {} /\ svc[c].req.gen <= slot[From(c)].gen
        /\ svc[c].req.gen = slot[From(c)].gen =>
             svc[c].req.page = slot[From(c)].page /\ svc[c].req.root = slot[From(c)].root

\* d keeps the frame f that was behind the page p until its shootdown is over,
\* for which c's answer is outstanding.
Keeps(d, c, p, f) ==
    /\ taken[d] = f /\ inval[d]
    /\ \E i \in DOMAIN code[d] : code[d][i].op = "shoot" /\ code[d][i].arg = p
    /\ \A i \in DOMAIN code[d] : code[d][i].op \notin {"map", "unmap"}
    /\ phase[d] = "wait" => c \in slot[d].ack
Fresh(c) == \A e \in tlb[c] : pte[e[1]] = e[2] \/ \E d \in Cpus : Keeps(d, c, e[1], e[2])

LockInv == (\A c \in Cpus : Planned(c) /\ Chain(c) /\ Owned(c)) /\ PathsOrdered
MemInv == Apart /\ \A c \in Cpus : Vacant(c) /\ Loaded(c) /\ Mail(c) /\ Asked(c) /\ Fresh(c)
TlbIInv == Shapes /\ LockInv /\ MemInv

-----------------------------------------------------------------------------
(* Locks and sequences                                                     *)

\* The order of the locks is a strict order.
LEMMA BeforeOrder ==
    /\ \A l \in Locks : l.rank \in Nat /\ l.addr \in Nat
    /\ \A l \in Locks : ~Before(l, l)
    /\ \A a, b, l \in Locks : Before(a, b) /\ Before(b, l) => Before(a, l)
<1>1. \A l \in Locks : l.rank \in Nat /\ l.addr \in Nat
  BY TlbAssumption DEF Locks, Sched, Plain, Heap, Vmm
<1>2. \A l \in Locks : ~Before(l, l)
  BY <1>1 DEF Before
<1>3. \A a, b, l \in Locks : Before(a, b) /\ Before(b, l) => Before(a, l)
  BY <1>1 DEF Before
<1> QED
  BY <1>1, <1>2, <1>3

\* The locks, and which of them may be nested in which.
LEMMA LockFacts ==
    /\ Plain \in Locks /\ Heap \in Locks /\ Vmm \in Locks
    /\ \A c \in Cpus : Sched(c) \in Locks /\ Sched(c) # Vmm /\ Before(Sched(c), Vmm)
    /\ Heap # Vmm /\ Before(Heap, Vmm)
    /\ \A c, d \in Cpus : c < d => Before(Sched(c), Sched(d)) /\ Sched(c) # Sched(d)
<1>1. Plain \in Locks /\ Heap \in Locks /\ Vmm \in Locks /\ \A c \in Cpus : Sched(c) \in Locks
  BY DEF Locks
<1>2. \A c \in Cpus : Before(Sched(c), Vmm) /\ Sched(c) # Vmm
  BY DEF Before, Sched, Vmm
<1>3. Heap # Vmm /\ Before(Heap, Vmm)
  BY DEF Before, Heap, Vmm
<1>4. \A c, d \in Cpus : c < d => Before(Sched(c), Sched(d)) /\ Sched(c) # Sched(d)
  BY TlbAssumption DEF Before, Sched
<1> QED
  BY <1>1, <1>2, <1>3, <1>4

\* A strict order on a finite set that is not empty has a maximal element.
LEMMA Maximal ==
    ASSUME NEW S, IsFiniteSet(S), S # {}, NEW R,
           \A x \in S : <<x, x>> \notin R,
           \A x, y, z \in S : <<x, y>> \in R /\ <<y, z>> \in R => <<x, z>> \in R
    PROVE  \E x \in S : \A y \in S : <<x, y>> \notin R
<1> SUFFICES ASSUME \A x \in S : \E y \in S : <<x, y>> \in R PROVE FALSE
  OBVIOUS
<1> DEFINE T == {U \in SUBSET S : U # {} /\ \A x \in U : \E y \in U : <<x, y>> \in R}
           W == StrictSubsetOrdering(S)
<1>1. T \subseteq SUBSET S /\ S \in T
  OBVIOUS
<1>2. IsWellFoundedOn(W, SUBSET S)
  <2>1. FiniteSubsetsOf(S) = SUBSET S
    BY FS_FiniteSubsetsOfFinite
  <2> QED
    BY <2>1, FS_StrictSubsetOrderingWellFounded
<1>3. PICK U \in T : \A V \in T : ~(<<V, U>> \in W)
  <2> HIDE DEF T, W
  <2> QED
    BY <1>1, <1>2, WFMin
<1>4. U \subseteq S /\ U # {} /\ \A x \in U : \E y \in U : <<x, y>> \in R
  OBVIOUS
<1>5. PICK x \in U : TRUE
  BY <1>4
<1> DEFINE V == {y \in U : <<x, y>> \in R}
<1>6. V \subseteq S /\ V \subseteq U /\ x \notin V /\ V # {}
  BY <1>4, <1>5
<1>7. \A y \in V : \E z \in V : <<y, z>> \in R
  BY <1>4, <1>5
<1>8. V \in T
  BY <1>6, <1>7
<1>9. <<V, U>> \in W
  BY <1>4, <1>5, <1>6 DEF StrictSubsetOrdering
<1> QED
  BY <1>3, <1>8, <1>9

\* Concatenation, by places.
LEMMA Joined ==
    ASSUME NEW X, NEW s \in Seq(X), NEW t \in Seq(X), NEW r, r = s \o t
    PROVE  /\ r \in Seq(X) /\ Len(r) = Len(s) + Len(t)
           /\ \A i \in 1 .. Len(s) : r[i] = s[i]
           /\ \A i \in 1 .. Len(t) : r[Len(s) + i] = t[i]
<1>1. /\ s \o t \in Seq(X) /\ Len(s \o t) = Len(s) + Len(t)
      /\ \A i \in 1 .. Len(s) + Len(t) : (s \o t)[i] = IF i <= Len(s) THEN s[i] ELSE t[i - Len(s)]
  BY ConcatProperties
<1>2. Len(s) \in Nat /\ Len(t) \in Nat
  OBVIOUS
<1>3. ASSUME NEW i \in 1 .. Len(s) PROVE r[i] = s[i]
  <2>1. i \in 1 .. Len(s) + Len(t) /\ i <= Len(s)
    BY <1>2
  <2> QED
    BY <1>1, <2>1
<1>4. ASSUME NEW i \in 1 .. Len(t) PROVE r[Len(s) + i] = t[i]
  <2>1. /\ Len(s) + i \in 1 .. Len(s) + Len(t) /\ ~(Len(s) + i <= Len(s))
        /\ (Len(s) + i) - Len(s) = i
    BY <1>2
  <2> QED
    BY <1>1, <2>1
<1> QED
  BY <1>1, <1>3, <1>4

\* Adding to a sequence, by places.
LEMMA Appended ==
    ASSUME NEW X, NEW s \in Seq(X), NEW e \in X
    PROVE  /\ Append(s, e) \in Seq(X) /\ Len(Append(s, e)) = Len(s) + 1
           /\ Append(s, e) # << >>
           /\ DOMAIN Append(s, e) = 1 .. Len(s) + 1 /\ DOMAIN s = 1 .. Len(s)
           /\ \A i \in 1 .. Len(s) : Append(s, e)[i] = s[i]
           /\ Append(s, e)[Len(s) + 1] = e
           /\ Range(Append(s, e)) = Range(s) \cup {e}
           /\ SubSeq(Append(s, e), 1, Len(s)) = s
<1> DEFINE a == Append(s, e)
<1>1. /\ a \in Seq(X) /\ Len(a) = Len(s) + 1 /\ DOMAIN a = 1 .. Len(s) + 1 /\ DOMAIN s = 1 .. Len(s)
      /\ \A i \in 1 .. Len(s) : a[i] = s[i]
      /\ a[Len(s) + 1] = e /\ a # << >>
  OBVIOUS
<1> HIDE DEF a
<1>2. Range(a) = Range(s) \cup {e}
  <2>1. ASSUME NEW i \in DOMAIN a PROVE a[i] \in Range(s) \cup {e}
    BY <1>1 DEF Range
  <2>2. ASSUME NEW i \in DOMAIN s PROVE i \in DOMAIN a /\ a[i] = s[i]
    BY <1>1
  <2>3. Len(s) + 1 \in DOMAIN a
    BY <1>1
  <2> QED
    BY <1>1, <2>1, <2>2, <2>3 DEF Range
<1>3. SubSeq(a, 1, Len(s)) = s
  <2>1. SubSeq(a, 1, Len(s)) \in Seq(X) /\ Len(SubSeq(a, 1, Len(s))) = Len(s)
    BY <1>1
  <2>2. \A i \in 1 .. Len(s) : SubSeq(a, 1, Len(s))[i] = s[i]
    BY <1>1
  <2> QED
    BY <1>1, <2>1, <2>2, SeqEqual
<1> QED
  BY <1>1, <1>2, <1>3 DEF a

\* A sequence of one element.
LEMMA Single ==
    ASSUME NEW X, NEW s \in Seq(X), Len(s) = 0, NEW e \in X, NEW a, a = Append(s, e)
    PROVE  a \in Seq(X) /\ Len(a) = 1 /\ DOMAIN a = 1 .. 1 /\ a[1] = e
OBVIOUS

-----------------------------------------------------------------------------
(* The paths                                                               *)

\* A path that nests two locks at most: depth[k] is the number of them held
\* before its k-th instruction.
Nests(P, a, b, depth) ==
    /\ P \in Seq(Instrs) /\ a \in Locks /\ b \in Locks /\ a # b
    /\ depth \in [1 .. Len(P) + 1 -> 0 .. 2] /\ depth[1] = 0 /\ depth[Len(P) + 1] = 0
    /\ \A k \in 1 .. Len(P) :
         /\ P[k].op = "lock" => \/ depth[k] = 0 /\ P[k].arg = a /\ depth[k + 1] = 1
                                \/ depth[k] = 1 /\ P[k].arg = b /\ depth[k + 1] = 2
         /\ P[k].op = "unlock" => \/ depth[k] = 1 /\ P[k].arg = a /\ depth[k + 1] = 0
                                  \/ depth[k] = 2 /\ P[k].arg = b /\ depth[k + 1] = 1
         /\ P[k].op \notin {"lock", "unlock"} => depth[k + 1] = depth[k]

\* A path that a CPU may start.
Startable(P) == Staged(P) /\ \E st : Laid(P, st)
StartableInOrder(P) == Staged(P) /\ \E st : Laid(P, st) /\ Ordered(P, st)

\* The page a path is about.
OnlyPage(P, p) == \A i \in DOMAIN P : P[i].op \in PageOps => P[i].arg = p
NoMap(P) == \A i \in DOMAIN P : P[i].op # "map"
NoPage(P) == \A i \in DOMAIN P : P[i].op \notin PageOps

\* The chains of such a path; they are in order if its two locks are.
LEMMA NestsLaid ==
    ASSUME NEW P, NEW a, NEW b, NEW depth, Nests(P, a, b, depth)
    PROVE  \E st : /\ Laid(P, st)
                   /\ Before(a, b) \/ (\A k \in 1 .. Len(P) : depth[k + 1] # 2) => Ordered(P, st)
<1> DEFINE E == << >>
           A == Append(E, a)
           B == Append(A, b)
           st == [k \in 1 .. Len(P) + 1 |-> IF depth[k] = 0 THEN E ELSE IF depth[k] = 1 THEN A ELSE B]
<1> USE DEF Nests
<1>1. a \in Locks /\ b \in Locks /\ a # b /\ E \in Seq(Locks) /\ Len(E) = 0 /\ Len(P) \in Nat /\ Range(E) = {}
  BY DEF Range
<1>2. A \in Seq(Locks) /\ Len(A) = 1 /\ DOMAIN A = 1 .. 1 /\ A[1] = a /\ Range(A) = {a}
  <2>1. A = Append(E, a)
    OBVIOUS
  <2> HIDE DEF A, E, Nests
  <2>2. A \in Seq(Locks) /\ Len(A) = 1 /\ DOMAIN A = 1 .. 1 /\ A[1] = a
    BY <1>1, <2>1, Single
  <2> QED
    BY <2>2 DEF Range
<1>3. B \in Seq(Locks)
  <2> HIDE DEF A, Nests
  <2> QED
    BY <1>1, <1>2, Appended
<1> HIDE DEF A, B, E
<1>4. \A k \in 1 .. Len(P) + 1 : depth[k] \in {0, 1, 2}
  BY <1>1
<1>5. /\ \A k \in 1 .. Len(P) + 1 : /\ depth[k] = 0 => st[k] = E
                                    /\ depth[k] = 1 => st[k] = A
                                    /\ depth[k] = 2 => st[k] = B
      /\ st \in [1 .. Len(P) + 1 -> Seq(Locks)]
  <2> HIDE DEF Nests
  <2> QED
    BY <1>1, <1>2, <1>3
<1>6. \A k \in 1 .. Len(P) : k \in 1 .. Len(P) + 1 /\ k + 1 \in 1 .. Len(P) + 1
  BY <1>1
<1> HIDE DEF st
<1>7. Laid(P, st)
  <2>1. ASSUME NEW k \in 1 .. Len(P), P[k].op = "lock"
        PROVE  /\ P[k].arg \in Locks /\ P[k].arg \notin Range(st[k])
               /\ st[k + 1] = Append(st[k], P[k].arg)
    <3>1. \/ depth[k] = 0 /\ P[k].arg = a /\ depth[k + 1] = 1
          \/ depth[k] = 1 /\ P[k].arg = b /\ depth[k + 1] = 2
      BY <2>1
    <3>2. CASE depth[k] = 0 /\ P[k].arg = a /\ depth[k + 1] = 1
      <4>1. st[k] = E /\ st[k + 1] = A
        BY <1>5, <1>6, <3>2
      <4> QED
        BY <1>1, <3>2, <4>1 DEF A
    <3>3. CASE depth[k] = 1 /\ P[k].arg = b /\ depth[k + 1] = 2
      <4>1. st[k] = A /\ st[k + 1] = B
        BY <1>5, <1>6, <3>3
      <4> QED
        BY <1>1, <1>2, <3>3, <4>1 DEF B
    <3> QED
      BY <3>1, <3>2, <3>3
  <2>2. ASSUME NEW k \in 1 .. Len(P), P[k].op = "unlock"
        PROVE  P[k].arg \in Locks /\ st[k] = Append(st[k + 1], P[k].arg)
    <3>1. \/ depth[k] = 1 /\ P[k].arg = a /\ depth[k + 1] = 0
          \/ depth[k] = 2 /\ P[k].arg = b /\ depth[k + 1] = 1
      BY <2>2
    <3>2. CASE depth[k] = 1 /\ P[k].arg = a /\ depth[k + 1] = 0
      <4>1. st[k] = A /\ st[k + 1] = E
        BY <1>5, <1>6, <3>2
      <4> QED
        BY <1>1, <3>2, <4>1 DEF A
    <3>3. CASE depth[k] = 2 /\ P[k].arg = b /\ depth[k + 1] = 1
      <4>1. st[k] = B /\ st[k + 1] = A
        BY <1>5, <1>6, <3>3
      <4> QED
        BY <1>1, <3>3, <4>1 DEF B
    <3> QED
      BY <3>1, <3>2, <3>3
  <2>3. ASSUME NEW k \in 1 .. Len(P), P[k].op \notin {"lock", "unlock"}
        PROVE  st[k + 1] = st[k]
    <3>1. depth[k + 1] = depth[k]
      BY <2>3
    <3> QED
      BY <1>4, <1>5, <1>6, <3>1
  <2>4. st[1] = << >> /\ st[Len(P) + 1] = << >>
    BY <1>1, <1>5 DEF E
  <2> QED
    BY <1>5, <2>1, <2>2, <2>3, <2>4 DEF Laid
<1>8. ASSUME Before(a, b) \/ \A k \in 1 .. Len(P) : depth[k + 1] # 2
      PROVE  Ordered(P, st)
  <2>1. ASSUME NEW k \in 1 .. Len(P), P[k].op = "lock"
        PROVE  Len(st[k]) < 2 /\ \A i \in DOMAIN st[k] : Before(st[k][i], P[k].arg)
    <3>1. \/ depth[k] = 0
          \/ depth[k] = 1 /\ P[k].arg = b /\ depth[k + 1] = 2
      BY <2>1
    <3>2. CASE depth[k] = 0
      <4>1. st[k] = E
        BY <1>5, <1>6, <3>2
      <4> QED
        BY <4>1 DEF E
    <3>3. CASE depth[k] = 1 /\ P[k].arg = b /\ depth[k + 1] = 2
      <4>1. st[k] = A
        BY <1>5, <1>6, <3>3
      <4>2. Before(a, b)
        BY <1>8, <3>3
      <4>3. \A i \in DOMAIN A : A[i] = a
        BY <1>2
      <4> QED
        BY <1>2, <3>3, <4>1, <4>2, <4>3, Len(A) < 2
    <3> QED
      BY <3>1, <3>2, <3>3
  <2> QED
    BY <2>1 DEF Ordered
<1> QED
  BY <1>7, <1>8

\* The instructions.
LEMMA InstrFacts ==
    /\ \A l \in Locks : /\ Lock(l) \in Instrs /\ Lock(l).op = "lock" /\ Lock(l).arg = l
                        /\ Unlock(l) \in Instrs /\ Unlock(l).op = "unlock" /\ Unlock(l).arg = l
    /\ \A p \in Pages, op \in PageOps : /\ Do(op, p) \in Instrs /\ Do(op, p).op = op /\ Do(op, p).arg = p
    /\ \A r \in Roots, op \in {"enter", "cr3"} : /\ Do(op, r) \in Instrs /\ Do(op, r).op = op
                                                 /\ Do(op, r).arg = r
BY DEF Lock, Unlock, Do, Instrs, PageOps

\* sched_steal_work's two locks, and any other two.
LEMMA NestedPath ==
    ASSUME NEW a \in Locks, NEW b \in Locks, a # b
    PROVE  /\ Startable(Nested(a, b)) /\ NoPage(Nested(a, b))
           /\ Before(a, b) => StartableInOrder(Nested(a, b))
<1> DEFINE P == Nested(a, b)
           depth == <<0, 1, 2, 1, 0>>
<1>1. /\ Lock(a) \in Instrs /\ Lock(a).op = "lock" /\ Lock(a).arg = a
      /\ Unlock(a) \in Instrs /\ Unlock(a).op = "unlock" /\ Unlock(a).arg = a
      /\ Lock(b) \in Instrs /\ Lock(b).op = "lock" /\ Lock(b).arg = b
      /\ Unlock(b) \in Instrs /\ Unlock(b).op = "unlock" /\ Unlock(b).arg = b
  BY InstrFacts
<1>2. P \in Seq(Instrs) /\ Len(P) = 4 /\ P[1] = Lock(a) /\ P[2] = Lock(b) /\ P[3] = Unlock(b) /\ P[4] = Unlock(a)
  BY <1>1 DEF Nested
<1>3. /\ depth \in [1 .. 5 -> 0 .. 2] /\ depth[1] = 0 /\ depth[2] = 1 /\ depth[3] = 2
      /\ depth[4] = 1 /\ depth[5] = 0
  OBVIOUS
<1> HIDE DEF P, depth
<1>4. Nests(P, a, b, depth)
  BY <1>1, <1>2, <1>3 DEF Nests
<1>5. Staged(P)
  BY <1>1, <1>2 DEF Staged, PageOps
<1>6. NoPage(P)
  BY <1>1, <1>2 DEF NoPage, PageOps
<1> QED
  BY <1>6, <1>4, <1>5, NestsLaid DEF Startable, StartableInOrder, P

\* kmalloc and kfree.
LEMMA HeapUsePath == StartableInOrder(HeapUse) /\ NoPage(HeapUse)
<1> DEFINE P == HeapUse
           depth == <<0, 1, 0>>
<1>1. /\ Lock(Heap) \in Instrs /\ Lock(Heap).op = "lock" /\ Lock(Heap).arg = Heap
      /\ Unlock(Heap) \in Instrs /\ Unlock(Heap).op = "unlock" /\ Unlock(Heap).arg = Heap
  BY InstrFacts, LockFacts
<1>2. P \in Seq(Instrs) /\ Len(P) = 2 /\ P[1] = Lock(Heap) /\ P[2] = Unlock(Heap)
  BY <1>1 DEF HeapUse
<1>3. depth \in [1 .. 3 -> 0 .. 2] /\ depth[1] = 0 /\ depth[2] = 1 /\ depth[3] = 0
  OBVIOUS
<1> HIDE DEF P, depth
<1>4. Nests(P, Heap, Vmm, depth)
  BY <1>1, <1>2, <1>3, LockFacts DEF Nests
<1>5. Staged(P)
  BY <1>1, <1>2 DEF Staged, PageOps
<1>6. NoPage(P)
  BY <1>1, <1>2 DEF NoPage, PageOps
<1> QED
  BY <1>6, <1>4, <1>5, NestsLaid, LockFacts DEF StartableInOrder, P

\* vmm_map_page and vmm_unmap_page, instruction by instruction.
Change(op, p) == <<Lock(Vmm), Do(op, p), Unlock(Vmm), Do("shoot", p)>> \o vmm_space_put_op

\* Its instructions.
LEMMA ChangePath ==
    ASSUME NEW p \in Pages, NEW op \in {"map", "unmap"}
    PROVE  /\ Change(op, p) \in Seq(Instrs) /\ Len(Change(op, p)) = 6
           /\ Change(op, p)[1] = Lock(Vmm) /\ Change(op, p)[2] = Do(op, p)
           /\ Change(op, p)[3] = Unlock(Vmm) /\ Change(op, p)[4] = Do("shoot", p)
           /\ Change(op, p)[5] = Lock(Vmm) /\ Change(op, p)[6] = Unlock(Vmm)
<1> DEFINE Q == Change(op, p)
           s == <<Lock(Vmm), Do(op, p), Unlock(Vmm), Do("shoot", p)>>
           t == vmm_space_put_op
<1>1. /\ Lock(Vmm) \in Instrs /\ Unlock(Vmm) \in Instrs
      /\ Do(op, p) \in Instrs /\ Do("shoot", p) \in Instrs
  BY InstrFacts, LockFacts DEF PageOps
<1>2. /\ s \in Seq(Instrs) /\ Len(s) = 4 /\ s[1] = Lock(Vmm) /\ s[2] = Do(op, p)
      /\ s[3] = Unlock(Vmm) /\ s[4] = Do("shoot", p)
  BY <1>1
<1>3. t \in Seq(Instrs) /\ Len(t) = 2 /\ t[1] = Lock(Vmm) /\ t[2] = Unlock(Vmm)
  BY <1>1 DEF vmm_space_put_op
<1>4. Q = s \o t
  BY DEF Change
<1> HIDE DEF Q, s, t
<1>5. /\ Q \in Seq(Instrs) /\ Len(Q) = Len(s) + Len(t)
      /\ \A i \in 1 .. Len(s) : Q[i] = s[i]
      /\ \A i \in 1 .. Len(t) : Q[Len(s) + i] = t[i]
  <2>1. s \in Seq(Instrs) /\ t \in Seq(Instrs)
    BY <1>2, <1>3
  <2> QED
    BY <1>4, <2>1, Joined
<1> QED
  BY <1>2, <1>3, <1>5 DEF Q

\* heap_expand
LEMMA HeapGrowPath ==
    ASSUME NEW p \in Pages PROVE StartableInOrder(HeapGrow(p)) /\ OnlyPage(HeapGrow(p), p)
<1> DEFINE P == HeapGrow(p)
           depth == <<0, 1, 2, 2, 1, 1, 2, 1, 0>>
<1>1. /\ Lock(Heap) \in Instrs /\ Lock(Heap).op = "lock" /\ Lock(Heap).arg = Heap
      /\ Unlock(Heap) \in Instrs /\ Unlock(Heap).op = "unlock" /\ Unlock(Heap).arg = Heap
      /\ Lock(Vmm).op = "lock" /\ Lock(Vmm).arg = Vmm /\ Unlock(Vmm).op = "unlock" /\ Unlock(Vmm).arg = Vmm
      /\ Do("map", p).op = "map" /\ Do("map", p).arg = p
      /\ Do("shoot", p).op = "shoot" /\ Do("shoot", p).arg = p
  BY InstrFacts, LockFacts DEF PageOps
<1>2. /\ P \in Seq(Instrs) /\ Len(P) = 8 /\ P[1] = Lock(Heap) /\ P[2] = Lock(Vmm) /\ P[3] = Do("map", p)
      /\ P[4] = Unlock(Vmm) /\ P[5] = Do("shoot", p) /\ P[6] = Lock(Vmm) /\ P[7] = Unlock(Vmm)
      /\ P[8] = Unlock(Heap)
  <2> DEFINE f == <<Lock(Heap)>>
             q == vmm_map_page(p)
             g == f \o q
             h == <<Unlock(Heap)>>
  <2>1. /\ f \in Seq(Instrs) /\ Len(f) = 1 /\ f[1] = Lock(Heap)
        /\ h \in Seq(Instrs) /\ Len(h) = 1 /\ h[1] = Unlock(Heap)
    BY <1>1
  <2>2. /\ q \in Seq(Instrs) /\ Len(q) = 6
        /\ q[1] = Lock(Vmm) /\ q[2] = Do("map", p) /\ q[3] = Unlock(Vmm) /\ q[4] = Do("shoot", p)
        /\ q[5] = Lock(Vmm) /\ q[6] = Unlock(Vmm)
    <3>1. q = Change("map", p)
      BY DEF vmm_map_page, Change
    <3> HIDE DEF q
    <3> QED
      BY <3>1, ChangePath
  <2>3. P = g \o h /\ g = f \o q
    BY DEF HeapGrow
  <2> HIDE DEF f, q, g, h, P
  <2>4. /\ g \in Seq(Instrs) /\ Len(g) = Len(f) + Len(q)
        /\ \A i \in 1 .. Len(f) : g[i] = f[i]
        /\ \A i \in 1 .. Len(q) : g[Len(f) + i] = q[i]
    <3>1. f \in Seq(Instrs) /\ q \in Seq(Instrs)
      BY <2>1, <2>2
    <3> QED
      BY <2>3, <3>1, Joined
  <2>5. /\ g \in Seq(Instrs) /\ Len(g) = 7 /\ g[1] = Lock(Heap) /\ g[2] = Lock(Vmm) /\ g[3] = Do("map", p)
        /\ g[4] = Unlock(Vmm) /\ g[5] = Do("shoot", p) /\ g[6] = Lock(Vmm) /\ g[7] = Unlock(Vmm)
    BY <2>1, <2>2, <2>4
  <2>6. /\ P \in Seq(Instrs) /\ Len(P) = Len(g) + Len(h)
        /\ \A i \in 1 .. Len(g) : P[i] = g[i]
        /\ \A i \in 1 .. Len(h) : P[Len(g) + i] = h[i]
    <3>1. g \in Seq(Instrs) /\ h \in Seq(Instrs)
      BY <2>1, <2>5
    <3> QED
      BY <2>3, <3>1, Joined
  <2> QED
    BY <2>1, <2>5, <2>6
<1>3. /\ depth \in [1 .. 9 -> 0 .. 2] /\ depth[1] = 0 /\ depth[2] = 1 /\ depth[3] = 2 /\ depth[4] = 2
      /\ depth[5] = 1 /\ depth[6] = 1 /\ depth[7] = 2 /\ depth[8] = 1 /\ depth[9] = 0
  OBVIOUS
<1> HIDE DEF P, depth
<1>4. Nests(P, Heap, Vmm, depth)
  BY <1>1, <1>2, <1>3, LockFacts DEF Nests
<1>5. Staged(P)
  BY <1>1, <1>2 DEF Staged, PageOps
<1>6. OnlyPage(P, p)
  BY <1>1, <1>2 DEF OnlyPage, PageOps
<1> QED
  BY <1>6, <1>4, <1>5, NestsLaid, LockFacts DEF StartableInOrder, P

\* The roll-back of a heap page.
LEMMA HeapRollbackPath ==
    ASSUME NEW p \in Pages
    PROVE  /\ StartableInOrder(HeapRollback(p))
           /\ OnlyPage(HeapRollback(p), p) /\ NoMap(HeapRollback(p))
<1> DEFINE P == HeapRollback(p)
           depth == <<0, 1, 2, 2, 1, 1, 2, 1, 1, 0>>
<1>1. /\ Lock(Heap) \in Instrs /\ Lock(Heap).op = "lock" /\ Lock(Heap).arg = Heap
      /\ Unlock(Heap) \in Instrs /\ Unlock(Heap).op = "unlock" /\ Unlock(Heap).arg = Heap
      /\ Lock(Vmm).op = "lock" /\ Lock(Vmm).arg = Vmm /\ Unlock(Vmm).op = "unlock" /\ Unlock(Vmm).arg = Vmm
      /\ Do("unmap", p).op = "unmap" /\ Do("unmap", p).arg = p
      /\ Do("shoot", p).op = "shoot" /\ Do("shoot", p).arg = p
      /\ Do("free", p) \in Instrs /\ Do("free", p).op = "free" /\ Do("free", p).arg = p
  BY InstrFacts, LockFacts DEF PageOps
<1>2. /\ P \in Seq(Instrs) /\ Len(P) = 9 /\ P[1] = Lock(Heap) /\ P[2] = Lock(Vmm) /\ P[3] = Do("unmap", p)
      /\ P[4] = Unlock(Vmm) /\ P[5] = Do("shoot", p) /\ P[6] = Lock(Vmm) /\ P[7] = Unlock(Vmm)
      /\ P[8] = Do("free", p) /\ P[9] = Unlock(Heap)
  <2> DEFINE f == <<Lock(Heap)>>
             q == vmm_unmap_page(p)
             g == f \o q
             h == <<Do("free", p), Unlock(Heap)>>
  <2>1. /\ f \in Seq(Instrs) /\ Len(f) = 1 /\ f[1] = Lock(Heap)
        /\ h \in Seq(Instrs) /\ Len(h) = 2 /\ h[1] = Do("free", p) /\ h[2] = Unlock(Heap)
    BY <1>1
  <2>2. /\ q \in Seq(Instrs) /\ Len(q) = 6
        /\ q[1] = Lock(Vmm) /\ q[2] = Do("unmap", p) /\ q[3] = Unlock(Vmm) /\ q[4] = Do("shoot", p)
        /\ q[5] = Lock(Vmm) /\ q[6] = Unlock(Vmm)
    <3>1. q = Change("unmap", p)
      BY DEF vmm_unmap_page, Change
    <3> HIDE DEF q
    <3> QED
      BY <3>1, ChangePath
  <2>3. P = g \o h /\ g = f \o q
    BY DEF HeapRollback
  <2> HIDE DEF f, q, g, h, P
  <2>4. /\ g \in Seq(Instrs) /\ Len(g) = Len(f) + Len(q)
        /\ \A i \in 1 .. Len(f) : g[i] = f[i]
        /\ \A i \in 1 .. Len(q) : g[Len(f) + i] = q[i]
    <3>1. f \in Seq(Instrs) /\ q \in Seq(Instrs)
      BY <2>1, <2>2
    <3> QED
      BY <2>3, <3>1, Joined
  <2>5. /\ g \in Seq(Instrs) /\ Len(g) = 7 /\ g[1] = Lock(Heap) /\ g[2] = Lock(Vmm) /\ g[3] = Do("unmap", p)
        /\ g[4] = Unlock(Vmm) /\ g[5] = Do("shoot", p) /\ g[6] = Lock(Vmm) /\ g[7] = Unlock(Vmm)
    BY <2>1, <2>2, <2>4
  <2>6. /\ P \in Seq(Instrs) /\ Len(P) = Len(g) + Len(h)
        /\ \A i \in 1 .. Len(g) : P[i] = g[i]
        /\ \A i \in 1 .. Len(h) : P[Len(g) + i] = h[i]
    <3>1. g \in Seq(Instrs) /\ h \in Seq(Instrs)
      BY <2>1, <2>5
    <3> QED
      BY <2>3, <3>1, Joined
  <2> QED
    BY <2>1, <2>5, <2>6
<1>3. /\ depth \in [1 .. 10 -> 0 .. 2] /\ depth[1] = 0 /\ depth[2] = 1 /\ depth[3] = 2 /\ depth[4] = 2
      /\ depth[5] = 1 /\ depth[6] = 1 /\ depth[7] = 2 /\ depth[8] = 1 /\ depth[9] = 1 /\ depth[10] = 0
  OBVIOUS
<1> HIDE DEF P, depth
<1>4. Nests(P, Heap, Vmm, depth)
  BY <1>1, <1>2, <1>3, LockFacts DEF Nests
<1>5. Staged(P)
  BY <1>1, <1>2 DEF Staged, PageOps
<1>6. OnlyPage(P, p) /\ NoMap(P)
  BY <1>1, <1>2 DEF OnlyPage, NoMap, PageOps
<1> QED
  BY <1>6, <1>4, <1>5, NestsLaid, LockFacts DEF StartableInOrder, P

\* kstack_free and the release of a user page: only g_vmm_lock is taken.
LEMMA ReleasePath ==
    ASSUME NEW p \in Pages PROVE StartableInOrder(Release(p)) /\ OnlyPage(Release(p), p) /\ NoMap(Release(p))
<1> DEFINE P == Release(p)
           depth == <<0, 1, 1, 0, 0, 1, 0, 0>>
<1>1. /\ Lock(Vmm).op = "lock" /\ Lock(Vmm).arg = Vmm /\ Unlock(Vmm).op = "unlock" /\ Unlock(Vmm).arg = Vmm
      /\ Do("unmap", p).op = "unmap" /\ Do("unmap", p).arg = p
      /\ Do("shoot", p).op = "shoot" /\ Do("shoot", p).arg = p
      /\ Do("free", p) \in Instrs /\ Do("free", p).op = "free" /\ Do("free", p).arg = p
  BY InstrFacts, LockFacts DEF PageOps
<1>2. /\ P \in Seq(Instrs) /\ Len(P) = 7 /\ P[1] = Lock(Vmm) /\ P[2] = Do("unmap", p)
      /\ P[3] = Unlock(Vmm) /\ P[4] = Do("shoot", p) /\ P[5] = Lock(Vmm) /\ P[6] = Unlock(Vmm)
      /\ P[7] = Do("free", p)
  <2> DEFINE q == vmm_unmap_page(p)
             h == <<Do("free", p)>>
  <2>1. h \in Seq(Instrs) /\ Len(h) = 1 /\ h[1] = Do("free", p)
    BY <1>1
  <2>2. /\ q \in Seq(Instrs) /\ Len(q) = 6
        /\ q[1] = Lock(Vmm) /\ q[2] = Do("unmap", p) /\ q[3] = Unlock(Vmm) /\ q[4] = Do("shoot", p)
        /\ q[5] = Lock(Vmm) /\ q[6] = Unlock(Vmm)
    <3>1. q = Change("unmap", p)
      BY DEF vmm_unmap_page, Change
    <3> HIDE DEF q
    <3> QED
      BY <3>1, ChangePath
  <2>3. P = q \o h
    BY DEF Release
  <2> HIDE DEF q, h, P
  <2>4. /\ P \in Seq(Instrs) /\ Len(P) = Len(q) + Len(h)
        /\ \A i \in 1 .. Len(q) : P[i] = q[i]
        /\ \A i \in 1 .. Len(h) : P[Len(q) + i] = h[i]
    <3>1. q \in Seq(Instrs) /\ h \in Seq(Instrs)
      BY <2>1, <2>2
    <3> QED
      BY <2>3, <3>1, Joined
  <2> QED
    BY <2>1, <2>2, <2>4
<1>3. /\ depth \in [1 .. 8 -> 0 .. 2] /\ depth[1] = 0 /\ depth[2] = 1 /\ depth[3] = 1 /\ depth[4] = 0
      /\ depth[5] = 0 /\ depth[6] = 1 /\ depth[7] = 0 /\ depth[8] = 0
  OBVIOUS
<1> HIDE DEF P, depth
<1>4. Nests(P, Vmm, Heap, depth) /\ \A k \in 1 .. Len(P) : depth[k + 1] # 2
  BY <1>1, <1>2, <1>3, LockFacts DEF Nests
<1>5. Staged(P)
  BY <1>1, <1>2 DEF Staged, PageOps
<1>6. OnlyPage(P, p) /\ NoMap(P)
  BY <1>1, <1>2 DEF OnlyPage, NoMap, PageOps
<1> QED
  BY <1>6, <1>4, <1>5, NestsLaid DEF StartableInOrder, P

\* The switch to another address space.
LEMMA SwitchPath ==
    ASSUME NEW c \in Cpus, NEW r \in Roots PROVE StartableInOrder(SwitchTo(c, r)) /\ NoPage(SwitchTo(c, r))
<1> DEFINE P == SwitchTo(c, r)
           a == Sched(c)
           f == <<Lock(a)>>
           q == <<Lock(Vmm), Do("enter", r), Unlock(Vmm)>>
           h == <<Do("cr3", r), Unlock(a)>>
<1>1. a \in Locks /\ Vmm \in Locks /\ a # Vmm /\ Before(a, Vmm)
  BY LockFacts
<1> HIDE DEF a
<1>2. /\ Lock(a) \in Instrs /\ Lock(a).op = "lock" /\ Lock(a).arg = a
      /\ Unlock(a) \in Instrs /\ Unlock(a).op = "unlock" /\ Unlock(a).arg = a
      /\ Lock(Vmm) \in Instrs /\ Lock(Vmm).op = "lock" /\ Lock(Vmm).arg = Vmm
      /\ Unlock(Vmm) \in Instrs /\ Unlock(Vmm).op = "unlock" /\ Unlock(Vmm).arg = Vmm
      /\ Do("enter", r) \in Instrs /\ Do("enter", r).op = "enter" /\ Do("enter", r).arg = r
      /\ Do("cr3", r) \in Instrs /\ Do("cr3", r).op = "cr3" /\ Do("cr3", r).arg = r
  BY <1>1, InstrFacts
<1>3. /\ f \in Seq(Instrs) /\ Len(f) = 1 /\ f[1] = Lock(a)
      /\ h \in Seq(Instrs) /\ Len(h) = 2 /\ h[1] = Do("cr3", r) /\ h[2] = Unlock(a)
      /\ q \in Seq(Instrs) /\ Len(q) = 3 /\ q[1] = Lock(Vmm) /\ q[2] = Do("enter", r) /\ q[3] = Unlock(Vmm)
  BY <1>2
<1>4. CASE r = Kernel
  <2> DEFINE depth == <<0, 1, 1, 0>>
             e == << >>
             g == f \o e
  <2>1. e \in Seq(Instrs) /\ Len(e) = 0
    OBVIOUS
  <2>2. P = g \o h /\ g = f \o e
    BY <1>4 DEF SwitchTo, a
  <2> HIDE DEF f, h, e, g, P
  <2>3. /\ g \in Seq(Instrs) /\ Len(g) = Len(f) + Len(e)
        /\ \A i \in 1 .. Len(f) : g[i] = f[i]
    <3>1. f \in Seq(Instrs) /\ e \in Seq(Instrs)
      BY <1>3, <2>1
    <3> QED
      BY <2>2, <3>1, Joined
  <2>4. g \in Seq(Instrs) /\ Len(g) = 1 /\ g[1] = Lock(a)
    BY <1>3, <2>1, <2>3
  <2>5. /\ P \in Seq(Instrs) /\ Len(P) = Len(g) + Len(h)
        /\ \A i \in 1 .. Len(g) : P[i] = g[i]
        /\ \A i \in 1 .. Len(h) : P[Len(g) + i] = h[i]
    <3>1. g \in Seq(Instrs) /\ h \in Seq(Instrs)
      BY <1>3, <2>4
    <3> QED
      BY <2>2, <3>1, Joined
  <2>6. /\ P \in Seq(Instrs) /\ Len(P) = 3 /\ P[1] = Lock(a) /\ P[2] = Do("cr3", r) /\ P[3] = Unlock(a)
    BY <1>3, <2>4, <2>5
  <2>7. /\ depth \in [1 .. 4 -> 0 .. 2] /\ depth[1] = 0 /\ depth[2] = 1 /\ depth[3] = 1 /\ depth[4] = 0
    OBVIOUS
  <2> HIDE DEF depth
  <2>8. Nests(P, a, Vmm, depth)
    BY <1>1, <1>2, <2>6, <2>7 DEF Nests
  <2>9. Staged(P)
    BY <1>2, <1>4, <2>6 DEF Staged, PageOps
  <2>10. NoPage(P)
    BY <1>2, <2>6 DEF NoPage, PageOps
  <2> QED
    BY <1>1, <2>8, <2>9, <2>10, NestsLaid DEF StartableInOrder, P
<1>5. CASE r # Kernel
  <2> DEFINE depth == <<0, 1, 2, 2, 1, 1, 0>>
             g == f \o q
  <2>1. r \in UserRoots
    BY <1>5 DEF Roots
  <2>2. P = g \o h /\ g = f \o q
    BY <1>5 DEF SwitchTo, a
  <2> HIDE DEF f, q, h, g, P
  <2>3. /\ g \in Seq(Instrs) /\ Len(g) = Len(f) + Len(q)
        /\ \A i \in 1 .. Len(f) : g[i] = f[i]
        /\ \A i \in 1 .. Len(q) : g[Len(f) + i] = q[i]
    <3>1. f \in Seq(Instrs) /\ q \in Seq(Instrs)
      BY <1>3
    <3> QED
      BY <2>2, <3>1, Joined
  <2>4. /\ g \in Seq(Instrs) /\ Len(g) = 4 /\ g[1] = Lock(a) /\ g[2] = Lock(Vmm)
        /\ g[3] = Do("enter", r) /\ g[4] = Unlock(Vmm)
    BY <1>3, <2>3
  <2>5. /\ P \in Seq(Instrs) /\ Len(P) = Len(g) + Len(h)
        /\ \A i \in 1 .. Len(g) : P[i] = g[i]
        /\ \A i \in 1 .. Len(h) : P[Len(g) + i] = h[i]
    <3>1. g \in Seq(Instrs) /\ h \in Seq(Instrs)
      BY <1>3, <2>4
    <3> QED
      BY <2>2, <3>1, Joined
  <2>6. /\ P \in Seq(Instrs) /\ Len(P) = 6 /\ P[1] = Lock(a) /\ P[2] = Lock(Vmm) /\ P[3] = Do("enter", r)
        /\ P[4] = Unlock(Vmm) /\ P[5] = Do("cr3", r) /\ P[6] = Unlock(a)
    BY <1>3, <2>4, <2>5
  <2>7. /\ depth \in [1 .. 7 -> 0 .. 2] /\ depth[1] = 0 /\ depth[2] = 1 /\ depth[3] = 2 /\ depth[4] = 2
        /\ depth[5] = 1 /\ depth[6] = 1 /\ depth[7] = 0
    OBVIOUS
  <2> HIDE DEF depth
  <2>8. Nests(P, a, Vmm, depth)
    BY <1>1, <1>2, <2>6, <2>7 DEF Nests
  <2>9. Staged(P)
    BY <1>2, <2>1, <2>6 DEF Staged, PageOps
  <2>10. NoPage(P)
    BY <1>2, <2>6 DEF NoPage, PageOps
  <2> QED
    BY <1>1, <2>8, <2>9, <2>10, NestsLaid DEF StartableInOrder, P
<1> QED
  BY <1>4, <1>5

\* sched_lock_pair
LEMMA PairPath ==
    ASSUME NEW c \in Cpus, NEW v \in Cpus \ {c}
    PROVE  StartableInOrder(LockPair(c, v)) /\ NoPage(LockPair(c, v))
<1>1. c < v \/ v < c
  BY TlbAssumption
<1>2. ~(c < v) => v < c
  BY <1>1
<1>3. CASE c < v
  BY <1>3, LockFacts, NestedPath DEF LockPair
<1>4. CASE ~(c < v)
  BY <1>2, <1>4, LockFacts, NestedPath DEF LockPair
<1> QED
  BY <1>3, <1>4

-----------------------------------------------------------------------------
(* Following a path                                                        *)

\* What is left of a sequence from its k-th element on.
LEMMA Remainder ==
    ASSUME NEW X, NEW P \in Seq(X), NEW k \in 1 .. Len(P), NEW s, s = SubSeq(P, k, Len(P))
    PROVE  /\ Head(s) = P[k] /\ Tail(s) = SubSeq(P, k + 1, Len(P)) /\ P[k] \in X
           /\ k + 1 \in 1 .. Len(P) + 1
<1>1. Len(P) \in Nat /\ k \in Nat /\ k >= 1 /\ k <= Len(P)
  OBVIOUS
<1>2. Head(s) = P[k] /\ Tail(s) = SubSeq(P, k + 1, Len(P)) /\ P[k] \in X
  OBVIOUS
<1> QED
  BY <1>1, <1>2

\* Its i-th element is the j-th of the whole.
Lands(P, k, s, i, j) == (i = 1 => j = k) /\ (i # 1 => j \in k + 1 .. Len(P)) /\ s[i] = P[j]

\* Every element of the rest is one of the whole,
LEMMA RemainderPlace ==
    ASSUME NEW X, NEW P \in Seq(X), NEW k \in 1 .. Len(P), NEW s, s = SubSeq(P, k, Len(P)),
           NEW i \in DOMAIN s
    PROVE  \E j \in 1 .. Len(P) : Lands(P, k, s, i, j)
<1>1. Len(P) \in Nat /\ k \in Nat /\ k >= 1 /\ k <= Len(P)
  OBVIOUS
<1>2. DOMAIN s = 1 .. Len(P) - k + 1 /\ \A x \in 1 .. Len(P) - k + 1 : s[x] = P[k + x - 1]
  BY <1>1
<1>3. /\ k + i - 1 \in 1 .. Len(P) /\ (i = 1 => k + i - 1 = k)
      /\ (i # 1 => k + i - 1 \in k + 1 .. Len(P))
  BY <1>1, <1>2
<1>4. s[i] = P[k + i - 1]
  BY <1>2
<1> QED
  BY <1>3, <1>4 DEF Lands

\* and every later element of the whole is one of the rest.
LEMMA RemainderHas ==
    ASSUME NEW X, NEW P \in Seq(X), NEW k \in 1 .. Len(P), NEW s, s = SubSeq(P, k, Len(P)),
           NEW j \in k .. Len(P)
    PROVE  \E i \in DOMAIN s : s[i] = P[j]
<1>1. Len(P) \in Nat /\ k \in Nat /\ k >= 1 /\ k <= Len(P)
  OBVIOUS
<1>2. DOMAIN s = 1 .. Len(P) - k + 1 /\ \A x \in 1 .. Len(P) - k + 1 : s[x] = P[k + x - 1]
  BY <1>1
<1>3. j - k + 1 \in 1 .. Len(P) - k + 1 /\ k + (j - k + 1) - 1 = j
  BY <1>1
<1> QED
  BY <1>2, <1>3

\* Where a CPU that has not finished its path is.
LEMMA Advance ==
    ASSUME NEW c \in Cpus, NEW P, NEW st, NEW k, Follows(c, P, st, k), code[c] # << >>
    PROVE  /\ P \in Seq(Instrs) /\ k \in 1 .. Len(P) /\ code[c] = SubSeq(P, k, Len(P))
<1>1. P \in Seq(Instrs) /\ k \in 1 .. Len(P) + 1 /\ code[c] = SubSeq(P, k, Len(P)) /\ Len(P) \in Nat
  BY DEF Follows, Laid
<1> QED
  BY <1>1

\* What is left of a path of one page, or of a switch.
Ahead(c) ==
    /\ \A i, j \in DOMAIN code[c] :
         code[c][i].op \in PageOps /\ code[c][j].op \in PageOps => code[c][i].arg = code[c][j].arg
    /\ \A i \in DOMAIN code[c] : code[c][i].op \in PageOps => code[c][i].arg \in Pages
    /\ Head(code[c]).op \in {"lock", "unlock"} => Arg(c) \in Locks
    /\ Head(code[c]).op = "unmap" =>
         \E i \in DOMAIN code[c] : code[c][i].op = "shoot" /\ code[c][i].arg = Arg(c)
    /\ Head(code[c]).op \in {"map", "unmap"} =>
         \A i \in DOMAIN code[c] : code[c][i].op \in {"map", "unmap"} => i = 1
    /\ Head(code[c]).op = "free" => \A i \in DOMAIN code[c] : code[c][i].op # "shoot"
    /\ Head(code[c]).op = "enter" => Arg(c) \in UserRoots
    /\ Head(code[c]).op = "cr3" => Arg(c) \in Roots /\ (Arg(c) \in UserRoots => ever[Arg(c)])

\* A CPU that is on a path has the rest of such a path in front of it.
LEMMA AheadOf ==
    ASSUME NEW c \in Cpus, Planned(c), code[c] # << >>
    PROVE  Ahead(c)
<1>1. PICK P, st, k : Follows(c, P, st, k)
  BY DEF Planned
<1> DEFINE s == code[c]
<1>2. P \in Seq(Instrs) /\ k \in 1 .. Len(P) /\ s = SubSeq(P, k, Len(P))
  BY <1>1, Advance
<1>3. Laid(P, st) /\ Staged(P) /\ \A j \in 1 .. k - 1 : P[j].op = "enter" => ever[P[j].arg]
  BY <1>1 DEF Follows
<1> HIDE DEF s
<1>4. Head(s) = P[k] /\ Arg(c) = P[k].arg
  <2>1. Head(s) = P[k]
    BY <1>2, Remainder
  <2> QED
    BY <2>1 DEF Arg, s
<1>5. ASSUME NEW i \in DOMAIN s
      PROVE  \E j \in 1 .. Len(P) : Lands(P, k, s, i, j)
  BY <1>2, RemainderPlace
<1>6. ASSUME NEW i \in DOMAIN s, NEW j \in DOMAIN s, s[i].op \in PageOps, s[j].op \in PageOps
      PROVE  s[i].arg = s[j].arg
  <2>1. PICK x \in 1 .. Len(P) : s[i] = P[x]
    BY <1>5 DEF Lands
  <2>2. PICK y \in 1 .. Len(P) : s[j] = P[y]
    BY <1>5 DEF Lands
  <2> QED
    BY <1>3, <1>6, <2>1, <2>2 DEF Staged
<1>7. ASSUME NEW i \in DOMAIN s, s[i].op \in PageOps PROVE s[i].arg \in Pages
  <2>1. PICK x \in 1 .. Len(P) : s[i] = P[x]
    BY <1>5 DEF Lands
  <2> QED
    BY <1>3, <1>7, <2>1 DEF Staged
<1>8. Head(s).op \in {"lock", "unlock"} => Arg(c) \in Locks
  BY <1>2, <1>3, <1>4 DEF Laid
<1>9. ASSUME Head(s).op = "unmap"
      PROVE  \E i \in DOMAIN s : s[i].op = "shoot" /\ s[i].arg = Arg(c)
  <2>1. PICK j \in k + 1 .. Len(P) : P[j].op = "shoot"
    BY <1>2, <1>3, <1>4, <1>9 DEF Staged
  <2>2. j \in k .. Len(P) /\ j \in 1 .. Len(P)
    BY <1>2
  <2>3. P[j].arg = P[k].arg
    <3>1. P[j].op \in PageOps /\ P[k].op \in PageOps
      BY <1>4, <1>9, <2>1 DEF PageOps
    <3> QED
      BY <1>2, <1>3, <2>2, <3>1 DEF Staged
  <2>4. PICK i \in DOMAIN s : s[i] = P[j]
    <3> HIDE <1>9
    <3> QED
      BY <1>2, j \in k .. Len(P), RemainderHas
  <2> QED
    BY <1>4, <2>1, <2>3, <2>4
<1>10. ASSUME Head(s).op \in {"map", "unmap"}, NEW i \in DOMAIN s, i # 1
       PROVE  s[i].op \notin {"map", "unmap"}
  <2>1. PICK x \in k + 1 .. Len(P) : s[i] = P[x]
    BY <1>5, <1>10 DEF Lands
  <2> QED
    BY <1>2, <1>3, <1>4, <1>10, <2>1 DEF Staged
<1>11. ASSUME Head(s).op = "free", NEW i \in DOMAIN s PROVE s[i].op # "shoot"
  <2>1. PICK x \in 1 .. Len(P) : (i = 1 => x = k) /\ (i # 1 => x \in k + 1 .. Len(P)) /\ s[i] = P[x]
    BY <1>5 DEF Lands
  <2>2. CASE i = 1
    BY <1>4, <1>11, <2>1, <2>2
  <2>3. CASE i # 1
    BY <1>2, <1>3, <1>4, <1>11, <2>1, <2>3 DEF Staged
  <2> QED
    BY <2>2, <2>3
<1>12. Head(s).op = "enter" => Arg(c) \in UserRoots
  BY <1>2, <1>3, <1>4 DEF Staged
<1>13. ASSUME Head(s).op = "cr3"
       PROVE  Arg(c) \in Roots /\ (Arg(c) \in UserRoots => ever[Arg(c)])
  <2>1. \/ P[k].arg = Kernel
        \/ P[k].arg \in UserRoots /\ \E j \in 1 .. k - 1 : P[j].op = "enter" /\ P[j].arg = P[k].arg
    BY <1>2, <1>3, <1>4, <1>13 DEF Staged
  <2> QED
    BY <1>3, <1>4, <2>1, TlbAssumption DEF Roots
<1> QED
  BY <1>6, <1>7, <1>8, <1>9, <1>10, <1>11, <1>12, <1>13 DEF Ahead, s

\* A CPU whose chain is what its path has taken so far is not spinning.
LEMMA NotSpinning ==
    ASSUME NEW P, NEW st, NEW k, Laid(P, st), k \in 1 .. Len(P) + 1,
           NEW s, s = SubSeq(P, k, Len(P)), NEW h, h = st[k]
    PROVE  ~(s # << >> /\ Head(s).op = "lock" /\ h # << >> /\ h[Len(h)] = Head(s).arg)
<1> SUFFICES ASSUME s # << >>, Head(s).op = "lock", h # << >>, h[Len(h)] = Head(s).arg PROVE FALSE
  OBVIOUS
<1>1. P \in Seq(Instrs) /\ Len(P) \in Nat /\ h \in Seq(Locks)
  BY DEF Laid
<1>2. k \in 1 .. Len(P) /\ Head(s) = P[k]
  BY <1>1
<1>3. P[k].arg \notin Range(h)
  BY <1>2 DEF Laid
<1>4. Len(h) \in DOMAIN h
  BY <1>1
<1> QED
  BY <1>2, <1>3, <1>4 DEF Range

\* The next instruction of a path, and the chain around it.
LEMMA NextInstr ==
    ASSUME Shapes, NEW c \in Cpus, NEW P, NEW st, NEW k, Follows(c, P, st, k), code[c] # << >>
    PROVE  /\ held[c] \in Seq(Locks) /\ st[k] \in Seq(Locks) /\ st[k + 1] \in Seq(Locks)
           /\ Head(code[c]).op = "lock" =>
                /\ Arg(c) \in Locks /\ st[k + 1] = Append(st[k], Arg(c))
                /\ ~Spinning(c) => held[c] = st[k]
                /\ Spinning(c) => held[c] = st[k + 1]
           /\ Head(code[c]).op # "lock" => held[c] = st[k] /\ ~Spinning(c)
           /\ Head(code[c]).op = "unlock" => Arg(c) \in Locks /\ st[k] = Append(st[k + 1], Arg(c))
           /\ Head(code[c]).op \notin {"lock", "unlock"} => st[k + 1] = st[k]
<1>1. /\ k \in 1 .. Len(P) /\ k \in 1 .. Len(P) + 1 /\ k + 1 \in 1 .. Len(P) + 1 /\ Head(code[c]) = P[k]
  <2>1. P \in Seq(Instrs) /\ k \in 1 .. Len(P) /\ code[c] = SubSeq(P, k, Len(P))
    BY Advance
  <2>2. Head(code[c]) = P[k] /\ k + 1 \in 1 .. Len(P) + 1
    BY <2>1, Remainder
  <2> QED
    BY <2>1, <2>2
<1>2. /\ Laid(P, st) /\ code[c] = SubSeq(P, k, Len(P))
      /\ held[c] = st[k] \/ (P[k].op = "lock" /\ held[c] = st[k + 1])
  BY DEF Follows
<1>3. held[c] \in Seq(Locks) /\ st[k] \in Seq(Locks) /\ st[k + 1] \in Seq(Locks)
  BY <1>1, <1>2 DEF Shapes, Laid
<1>4. held[c] = st[k] => ~Spinning(c)
  BY <1>1, <1>2, NotSpinning DEF Spinning, At, Arg
<1>5. ASSUME P[k].op = "lock" PROVE Arg(c) \in Locks /\ st[k + 1] = Append(st[k], Arg(c))
  BY <1>1, <1>2, <1>5 DEF Laid, Arg
<1>6. ASSUME P[k].op = "lock", held[c] = st[k + 1] PROVE Spinning(c)
  <2>1. held[c] # << >> /\ Len(held[c]) = Len(st[k]) + 1 /\ held[c][Len(st[k]) + 1] = Arg(c)
    BY <1>3, <1>5, <1>6
  <2> QED
    BY <1>1, <1>6, <2>1 DEF Spinning, At
<1>7. /\ P[k].op = "unlock" => Arg(c) \in Locks /\ st[k] = Append(st[k + 1], Arg(c))
      /\ P[k].op \notin {"lock", "unlock"} => st[k + 1] = st[k]
  BY <1>1, <1>2 DEF Laid, Arg
<1>8. P[k].op # "lock" => ~Spinning(c)
  BY <1>1 DEF Spinning, At
<1> QED
  BY <1>1, <1>2, <1>3, <1>4, <1>5, <1>6, <1>7, <1>8

\* A CPU whose path and chain stay as they are is where it was.
LEMMA PlanKept ==
    ASSUME NEW d \in Cpus, Planned(d), code'[d] = code[d], held'[d] = held[d],
           d \in other' <=> d \in other, \A r \in UserRoots : ever[r] => ever'[r]
    PROVE  Planned(d)'
<1>1. PICK P, st, k : Follows(d, P, st, k)
  BY DEF Planned
<1>2. /\ Laid(P, st) /\ Staged(P) /\ k \in 1 .. Len(P) + 1
      /\ \A j \in 1 .. k - 1 : P[j].op = "enter" => ever[P[j].arg]
  BY <1>1 DEF Follows
<1>3. ASSUME NEW j \in 1 .. k - 1, P[j].op = "enter" PROVE ever'[P[j].arg]
  <2>1. j \in 1 .. Len(P)
    BY <1>2 DEF Laid
  <2> QED
    BY <1>2, <1>3, <2>1 DEF Staged
<1>4. Follows(d, P, st, k)'
  BY <1>1, <1>3 DEF Follows
<1> QED
  BY <1>4 DEF Planned

\* One instruction further, with the chain that the path has there.
LEMMA PlanStep ==
    ASSUME NEW c \in Cpus, NEW P, NEW st, NEW k, Follows(c, P, st, k), code[c] # << >>,
           code'[c] = Tail(code[c]), held'[c] = st[k + 1],
           c \in other' <=> c \in other, \A r \in UserRoots : ever[r] => ever'[r],
           Head(code[c]).op = "enter" => ever'[Arg(c)]
    PROVE  Planned(c)' /\ ~Spinning(c)'
<1>1. P \in Seq(Instrs) /\ k \in 1 .. Len(P) /\ code[c] = SubSeq(P, k, Len(P))
  BY Advance
<1>2. Head(code[c]) = P[k] /\ Tail(code[c]) = SubSeq(P, k + 1, Len(P)) /\ k + 1 \in 1 .. Len(P) + 1
  BY <1>1, Remainder
<1>3. Laid(P, st) /\ Staged(P) /\ \A j \in 1 .. k - 1 : P[j].op = "enter" => ever[P[j].arg]
  BY DEF Follows
<1>4. c \notin other' => Ordered(P, st)
  BY DEF Follows
<1>5. ASSUME NEW j \in 1 .. (k + 1) - 1, P[j].op = "enter" PROVE ever'[P[j].arg]
  <2>1. j \in 1 .. Len(P) /\ (j \in 1 .. k - 1 \/ j = k)
    BY <1>1
  <2>2. P[j].arg \in UserRoots
    BY <1>3, <1>5, <2>1 DEF Staged
  <2> QED
    BY <1>2, <1>3, <1>5, <2>1, <2>2 DEF Arg
<1>6. Follows(c, P, st, k + 1)'
  BY <1>2, <1>3, <1>4, <1>5 DEF Follows
<1>7. ~Spinning(c)'
  <2>1. code'[c] = SubSeq(P, k + 1, Len(P))
    BY <1>2
  <2> QED
    BY <1>2, <1>3, <2>1, NotSpinning DEF Spinning, At, Arg
<1> QED
  BY <1>6, <1>7 DEF Planned

\* A CPU that starts a path.
LEMMA PlanStart ==
    ASSUME NEW c \in Cpus, Planned(c), code[c] = << >>, NEW P, Startable(P),
           c \notin other' => StartableInOrder(P), code'[c] = P, held'[c] = held[c]
    PROVE  Planned(c)' /\ held[c] = << >> /\ ~Spinning(c)'
<1>1. held[c] = << >>
  <2>1. PICK Q, st, k : Follows(c, Q, st, k)
    BY DEF Planned
  <2>2. Q \in Seq(Instrs) /\ k \in 1 .. Len(Q) + 1 /\ SubSeq(Q, k, Len(Q)) = << >> /\ Len(Q) \in Nat
    BY <2>1 DEF Follows, Laid
  <2>3. k = Len(Q) + 1
    <3>1. ASSUME k \in 1 .. Len(Q) PROVE FALSE
      <4> DEFINE s == SubSeq(Q, k, Len(Q))
      <4>1. s = SubSeq(Q, k, Len(Q)) /\ Q \in Seq(Instrs) /\ k \in k .. Len(Q)
        BY <2>2, <3>1
      <4>2. s = << >>
        BY <2>2
      <4> HIDE DEF s
      <4>3. \E i \in DOMAIN s : s[i] = Q[k]
        BY <3>1, <4>1, RemainderHas
      <4> QED
        BY <4>2, <4>3
    <3> QED
      BY <2>2, <3>1
  <2>4. st[Len(Q) + 1] = << >> /\ held[c] = st[k]
    BY <2>1, <2>2, <2>3 DEF Follows, Laid
  <2> QED
    BY <2>3, <2>4
<1>2. PICK st : Laid(P, st) /\ (c \notin other' => Ordered(P, st))
  BY DEF Startable, StartableInOrder
<1>3. Staged(P) /\ P \in Seq(Instrs) /\ Len(P) \in Nat /\ st[1] = << >> /\ 1 \in 1 .. Len(P) + 1
  BY <1>2 DEF Startable, Laid
<1>4. P = SubSeq(P, 1, Len(P))
  BY <1>3
<1>5. Follows(c, P, st, 1)'
  BY <1>1, <1>2, <1>3, <1>4 DEF Follows
<1> QED
  BY <1>1, <1>5 DEF Planned, Spinning

-----------------------------------------------------------------------------
(* The locks                                                               *)

\* Nothing that the locks are about changes.
LEMMA LocksSame ==
    ASSUME LockInv, UNCHANGED <<code, held, owner, ever, panic, other>>
    PROVE  LockInv'
<1>1. ASSUME NEW d \in Cpus PROVE (Planned(d) /\ Chain(d) /\ Owned(d))'
  <2>1. Planned(d)'
    BY PlanKept DEF LockInv
  <2>2. Chain(d)'
    BY DEF LockInv, Chain
  <2>3. Owned(d)'
    BY DEF LockInv, Owned, Spinning, At, Arg
  <2> QED
    BY <2>1, <2>2, <2>3
<1> QED
  BY <1>1 DEF LockInv, PathsOrdered

\* A CPU the step is not about.
LEMMA LocksKept ==
    ASSUME NEW d \in Cpus, Planned(d), Chain(d), Owned(d), code'[d] = code[d], held'[d] = held[d],
           \A l \in Locks : owner'[l] = d => owner[l] = d,
           d \in other' <=> d \in other, \A r \in UserRoots : ever[r] => ever'[r]
    PROVE  (Planned(d) /\ Chain(d) /\ Owned(d))'
<1>1. Planned(d)'
  BY PlanKept
<1>2. Chain(d)'
  BY DEF Chain
<1>3. Owned(d)'
  <2>1. Spinning(d)' <=> Spinning(d)
    BY DEF Spinning, At, Arg
  <2> QED
    BY <2>1 DEF Owned
<1> QED
  BY <1>1, <1>2, <1>3

\* An instruction that is neither a lock nor an unlock.
LEMMA LocksStep ==
    ASSUME Shapes, LockInv, NEW c \in Cpus, code[c] # << >>, Head(code[c]).op \notin {"lock", "unlock"},
           Step(c), UNCHANGED <<held, owner, panic, other>>,
           \A r \in UserRoots : ever[r] => ever'[r], Head(code[c]).op = "enter" => ever'[Arg(c)]
    PROVE  LockInv'
<1>1. code'[c] = Tail(code[c]) /\ \A d \in Cpus \ {c} : code'[d] = code[d]
  BY DEF Step, Shapes
<1>2. ASSUME NEW d \in Cpus \ {c} PROVE (Planned(d) /\ Chain(d) /\ Owned(d))'
  BY <1>1, LocksKept DEF LockInv
<1>3. PICK P, st, k : Follows(c, P, st, k)
  BY DEF LockInv, Planned
<1>4. held'[c] = st[k + 1]
  BY <1>3, NextInstr
<1>5. Planned(c)' /\ ~Spinning(c)'
  BY <1>1, <1>3, <1>4, PlanStep
<1>6. Chain(c)' /\ Owned(c)'
  BY <1>5 DEF LockInv, Chain, Owned
<1> QED
  BY <1>2, <1>5, <1>6 DEF LockInv, PathsOrdered

\* spin_debug_acquire keeps the chain in order, or halts a path of the rest
\* of the kernel.
LEMMA AcquireLocks ==
    ASSUME Shapes, LockInv, NEW c \in Cpus, Acquire(c)
    PROVE  LockInv'
<1>1. /\ panic = None /\ code[c] # << >> /\ Head(code[c]).op = "lock" /\ ~Spinning(c)
      /\ UNCHANGED <<code, owner, ever, other>>
  BY DEF Acquire, Running, At, vmem
<1>2. PICK P, st, k : Follows(c, P, st, k)
  BY DEF LockInv, Planned
<1>3. /\ held[c] \in Seq(Locks) /\ Arg(c) \in Locks /\ held[c] = st[k]
      /\ st[k + 1] = Append(held[c], Arg(c))
  BY <1>1, <1>2, NextInstr
<1>4. CASE CanAcquire(c, Arg(c))
  <2>1. held' = [held EXCEPT ![c] = Append(@, Arg(c))] /\ UNCHANGED panic
    BY <1>4 DEF Acquire
  <2>2. /\ held'[c] = Append(held[c], Arg(c)) /\ \A d \in Cpus \ {c} : held'[d] = held[d]
    BY <2>1 DEF Shapes
  <2>3. ASSUME NEW d \in Cpus \ {c} PROVE (Planned(d) /\ Chain(d) /\ Owned(d))'
    BY <1>1, <2>2, LocksKept DEF LockInv
  <2>4. Planned(c)'
    <3>1. k <= Len(P) /\ P[k].op = "lock"
      <4>1. P \in Seq(Instrs) /\ k \in 1 .. Len(P) /\ code[c] = SubSeq(P, k, Len(P))
        BY <1>1, <1>2, Advance
      <4>2. Head(code[c]) = P[k]
        BY <4>1, Remainder
      <4> QED
        BY <1>1, <4>1, <4>2
    <3>2. Follows(c, P, st, k)'
      BY <1>1, <1>2, <1>3, <2>2, <3>1 DEF Follows
    <3> QED
      BY <3>2 DEF Planned
  <2>5. /\ DOMAIN held'[c] = 1 .. Len(held[c]) + 1 /\ DOMAIN held[c] = 1 .. Len(held[c])
        /\ Len(held'[c]) = Len(held[c]) + 1 /\ Len(held[c]) \in Nat
        /\ \A i \in 1 .. Len(held[c]) : held'[c][i] = held[c][i]
        /\ held'[c][Len(held[c]) + 1] = Arg(c)
    BY <1>3, <2>2, Appended
  <2>6. Chain(c)'
    <3>1. ASSUME NEW i \in DOMAIN held'[c], NEW j \in DOMAIN held'[c], i < j
          PROVE  Before(held'[c][i], held'[c][j])
      <4>1. i \in 1 .. Len(held[c]) /\ (j \in 1 .. Len(held[c]) \/ j = Len(held[c]) + 1)
        BY <2>5, <3>1
      <4>2. CASE j \in 1 .. Len(held[c])
        BY <2>5, <3>1, <4>1, <4>2 DEF LockInv, Chain
      <4>3. CASE j = Len(held[c]) + 1
        <5>1. Before(held[c][i], Arg(c))
          BY <1>4, <2>5, <4>1 DEF CanAcquire, Before
        <5> QED
          BY <2>5, <4>1, <4>3, <5>1
      <4> QED
        BY <4>1, <4>2, <4>3
    <3> QED
      BY <3>1 DEF Chain
  <2>7. Owned(c)'
    <3>1. ASSUME NEW l \in Locks, owner'[l] = c
          PROVE  \E i \in DOMAIN held'[c] : held'[c][i] = l /\ i # Len(held'[c])
      <4>1. PICK i \in DOMAIN held[c] : held[c][i] = l
        BY <1>1, <3>1 DEF LockInv, Owned
      <4> QED
        BY <2>5, <4>1
    <3> QED
      BY <3>1 DEF Owned
  <2> QED
    BY <1>1, <2>1, <2>3, <2>4, <2>6, <2>7 DEF LockInv, PathsOrdered
<1>5. CASE ~CanAcquire(c, Arg(c))
  <2>1. panic' = c /\ UNCHANGED held
    BY <1>5 DEF Acquire
  <2>2. ASSUME NEW d \in Cpus PROVE (Planned(d) /\ Chain(d) /\ Owned(d))'
    BY <1>1, <2>1, LocksKept DEF LockInv
  <2>3. c \in other
    <3> SUFFICES ASSUME c \notin other PROVE FALSE
      OBVIOUS
    <3>1. Ordered(P, st)
      BY <1>2 DEF Follows
    <3>2. P \in Seq(Instrs) /\ k \in 1 .. Len(P) /\ code[c] = SubSeq(P, k, Len(P))
      BY <1>1, <1>2, Advance
    <3>3. Head(code[c]) = P[k]
      BY <3>2, Remainder
    <3>4. Len(held[c]) < 2 /\ \A i \in DOMAIN held[c] : Before(held[c][i], Arg(c))
      BY <1>1, <1>3, <3>1, <3>2, <3>3 DEF Ordered, Arg
    <3>5. Len(held[c]) < MAX_HELD_LOCKS
      BY <1>3, <3>4, TlbAssumption
    <3>6. CanAcquire(c, Arg(c))
      BY <3>4, <3>5 DEF CanAcquire, Before
    <3> QED
      BY <1>5, <3>6
  <2> QED
    BY <1>1, <2>1, <2>2, <2>3 DEF LockInv, PathsOrdered
<1> QED
  BY <1>4, <1>5

\* The test_and_set that wins makes the last lock of the chain an owned one.
LEMMA TakeLocks ==
    ASSUME Shapes, LockInv, NEW c \in Cpus, Take(c)
    PROVE  LockInv'
<1>1. /\ code[c] # << >> /\ Head(code[c]).op = "lock" /\ Spinning(c)
      /\ held[c] # << >> /\ held[c][Len(held[c])] = Arg(c)
      /\ owner' = [owner EXCEPT ![Arg(c)] = c] /\ Step(c)
      /\ UNCHANGED <<held, ever, panic, other>>
  BY DEF Take, Spinning, At, vmem
<1>2. code'[c] = Tail(code[c]) /\ \A d \in Cpus \ {c} : code'[d] = code[d]
  BY <1>1 DEF Step, Shapes
<1>3. PICK P, st, k : Follows(c, P, st, k)
  BY DEF LockInv, Planned
<1>4. held[c] \in Seq(Locks) /\ Arg(c) \in Locks /\ held[c] = st[k + 1]
  BY <1>1, <1>3, NextInstr
<1>5. owner'[Arg(c)] = c /\ \A l \in Locks : l # Arg(c) => owner'[l] = owner[l]
  BY <1>1, <1>4 DEF Shapes
<1>6. ASSUME NEW d \in Cpus \ {c} PROVE (Planned(d) /\ Chain(d) /\ Owned(d))'
  <2>1. \A l \in Locks : owner'[l] = d => owner[l] = d
    BY <1>5
  <2> QED
    BY <1>1, <1>2, <2>1, LocksKept DEF LockInv
<1>7. Planned(c)' /\ ~Spinning(c)'
  BY <1>1, <1>2, <1>3, <1>4, PlanStep
<1>8. Chain(c)'
  BY <1>1 DEF LockInv, Chain
<1>9. Owned(c)'
  <2>1. Len(held[c]) \in DOMAIN held[c]
    BY <1>1, <1>4
  <2>2. ASSUME NEW l \in Locks, owner'[l] = c PROVE \E i \in DOMAIN held'[c] : held'[c][i] = l
    <3>1. CASE l = Arg(c)
      BY <1>1, <2>1, <3>1
    <3>2. CASE l # Arg(c)
      BY <1>1, <1>5, <2>2, <3>2 DEF LockInv, Owned
    <3> QED
      BY <3>1, <3>2
  <2> QED
    BY <1>7, <2>2 DEF Owned
<1> QED
  BY <1>1, <1>6, <1>7, <1>8, <1>9 DEF LockInv, PathsOrdered

\* spin_debug_release takes the last lock off the chain.
LEMMA DropLocks ==
    ASSUME Shapes, LockInv, NEW c \in Cpus, Drop(c)
    PROVE  LockInv'
<1>1. /\ code[c] # << >> /\ Head(code[c]).op = "unlock"
      /\ held' = [held EXCEPT ![c] = SubSeq(@, 1, Len(@) - 1)]
      /\ owner' = [owner EXCEPT ![Arg(c)] = None] /\ Step(c)
      /\ UNCHANGED <<ever, panic, other>>
  BY DEF Drop, At, vmem
<1>2. /\ code'[c] = Tail(code[c]) /\ \A d \in Cpus \ {c} : code'[d] = code[d]
      /\ held'[c] = SubSeq(held[c], 1, Len(held[c]) - 1) /\ \A d \in Cpus \ {c} : held'[d] = held[d]
  BY <1>1 DEF Step, Shapes
<1>3. PICK P, st, k : Follows(c, P, st, k)
  BY DEF LockInv, Planned
<1>4. /\ held[c] \in Seq(Locks) /\ Arg(c) \in Locks /\ held[c] = st[k] /\ st[k + 1] \in Seq(Locks)
      /\ held[c] = Append(st[k + 1], Arg(c))
  BY <1>1, <1>3, NextInstr
<1> DEFINE h == st[k + 1]
<1>5. /\ Len(held[c]) = Len(h) + 1 /\ Len(h) \in Nat /\ DOMAIN held[c] = 1 .. Len(h) + 1 /\ DOMAIN h = 1 .. Len(h)
      /\ \A i \in 1 .. Len(h) : held[c][i] = h[i]
      /\ held[c][Len(h) + 1] = Arg(c)
      /\ SubSeq(held[c], 1, Len(h)) = h
  <2> HIDE DEF h
  <2>1. h \in Seq(Locks) /\ Arg(c) \in Locks /\ held[c] = Append(h, Arg(c))
    BY <1>4 DEF h
  <2> QED
    BY <2>1, Appended
<1>6. held'[c] = h
  <2>1. Len(held[c]) - 1 = Len(h)
    BY <1>5
  <2> QED
    BY <1>2, <1>5, <2>1
<1>7. owner'[Arg(c)] = None /\ \A l \in Locks : l # Arg(c) => owner'[l] = owner[l]
  BY <1>1, <1>4 DEF Shapes
<1>8. ASSUME NEW d \in Cpus \ {c} PROVE (Planned(d) /\ Chain(d) /\ Owned(d))'
  <2>1. \A l \in Locks : owner'[l] = d => owner[l] = d
    BY <1>7, TlbAssumption
  <2> QED
    BY <1>1, <1>2, <2>1, LocksKept DEF LockInv
<1>9. Planned(c)' /\ ~Spinning(c)'
  BY <1>1, <1>2, <1>3, <1>6, PlanStep
<1>10. Chain(c)'
  <2>1. ASSUME NEW i \in DOMAIN h, NEW j \in DOMAIN h, i < j PROVE Before(h[i], h[j])
    <3>1. i \in DOMAIN held[c] /\ j \in DOMAIN held[c] /\ held[c][i] = h[i] /\ held[c][j] = h[j]
      BY <1>5
    <3> QED
      BY <2>1, <3>1 DEF LockInv, Chain
  <2> QED
    BY <1>6, <2>1 DEF Chain
<1>11. Owned(c)'
  <2>1. ASSUME NEW l \in Locks, owner'[l] = c PROVE \E i \in DOMAIN h : h[i] = l
    <3>1. l # Arg(c) /\ owner[l] = c
      BY <1>7, <2>1, TlbAssumption
    <3>2. PICK i \in DOMAIN held[c] : held[c][i] = l
      BY <3>1 DEF LockInv, Owned
    <3> QED
      BY <1>5, <3>1, <3>2
  <2> QED
    BY <1>6, <1>9, <2>1 DEF Owned
<1> QED
  BY <1>1, <1>8, <1>9, <1>10, <1>11 DEF LockInv, PathsOrdered

\* A path starts with an empty chain.
LEMMA StartLocks ==
    ASSUME Shapes, LockInv, NEW c \in Cpus, NEW P, NEW b \in BOOLEAN, Started(c, P, b),
           Startable(P), ~b => StartableInOrder(P)
    PROVE  LockInv'
<1>1. /\ panic = None /\ code[c] = << >> /\ code' = [code EXCEPT ![c] = P]
      /\ other' = IF b THEN other \cup {c} ELSE other \ {c}
      /\ UNCHANGED <<held, owner, ever, panic>>
  BY DEF Started, vmem
<1>2. code'[c] = P /\ (\A d \in Cpus \ {c} : code'[d] = code[d]) /\ (c \notin other' => ~b)
  BY <1>1 DEF Shapes
<1>3. ASSUME NEW d \in Cpus \ {c} PROVE (Planned(d) /\ Chain(d) /\ Owned(d))'
  <2>1. d \in other' <=> d \in other
    BY <1>1
  <2> QED
    BY <1>1, <1>2, <2>1, LocksKept DEF LockInv
<1>4. Planned(c)' /\ held[c] = << >> /\ ~Spinning(c)'
  BY <1>1, <1>2, PlanStart DEF LockInv
<1>5. Chain(c)' /\ Owned(c)'
  BY <1>1, <1>4 DEF LockInv, Chain, Owned
<1> QED
  BY <1>1, <1>3, <1>4, <1>5 DEF LockInv, PathsOrdered

-----------------------------------------------------------------------------
(* Types                                                                   *)

\* A set of naturals has a least one.
LEMMA NatMin ==
    ASSUME NEW D, D \subseteq Nat, D # {}
    PROVE  Min(D) \in D
<1> DEFINE R == {ss \in Nat \X Nat : ss[1] < ss[2]}
<1>1. IsWellFoundedOn(R, Nat)
  BY NatLessThanWellFounded DEF OpToRel
<1>2. \A i, j \in Nat : <<i, j>> \in R <=> i < j
  OBVIOUS
<1> HIDE DEF R
<1>3. PICK m \in D : \A k \in D : ~(<<k, m>> \in R)
  BY <1>1, WFMin
<1>4. ASSUME NEW k \in D PROVE m <= k
  <2>1. ~(k < m) /\ k \in Nat /\ m \in Nat
    BY <1>2, <1>3
  <2> QED
    BY <2>1
<1> QED
  BY <1>4 DEF Min

\* The initiator whose mailbox is looked at next.
LEMMA FromTodo ==
    ASSUME Shapes, NEW c \in Cpus, svc[c].todo # {}
    PROVE  From(c) \in svc[c].todo /\ From(c) \in Cpus
<1>1. svc[c].todo \subseteq Cpus /\ svc[c].todo \subseteq Nat
  BY TlbAssumption DEF Shapes, Services
<1> QED
  BY <1>1, NatMin DEF From

\* The rest of a path has the instructions of the path behind its first one.
LEMMA StepFacts ==
    ASSUME Shapes, NEW c \in Cpus, code[c] # << >>, Step(c)
    PROVE  /\ code' \in [Cpus -> Seq(Instrs)] /\ code'[c] = Tail(code[c])
           /\ \A d \in Cpus \ {c} : code'[d] = code[d]
           /\ 1 \in DOMAIN code[c] /\ code[c][1] = Head(code[c])
           /\ \A i \in DOMAIN code'[c] : \E j \in DOMAIN code[c] \ {1} : code'[c][i] = code[c][j]
           /\ \A j \in DOMAIN code[c] \ {1} : \E i \in DOMAIN code'[c] : code'[c][i] = code[c][j]
<1> DEFINE s == code[c]
           t == code'[c]
<1>1. s \in Seq(Instrs) /\ s # << >> /\ t = Tail(s) /\ \A d \in Cpus \ {c} : code'[d] = code[d]
  BY DEF Shapes, Step
<1> HIDE DEF s, t
<1>2. /\ t \in Seq(Instrs) /\ Len(s) \in Nat \ {0} /\ DOMAIN s = 1 .. Len(s) /\ DOMAIN t = 1 .. Len(s) - 1
      /\ \A i \in 1 .. Len(s) - 1 : t[i] = s[i + 1]
      /\ s[1] = Head(s)
  BY <1>1
<1>3. ASSUME NEW i \in DOMAIN t PROVE \E j \in DOMAIN s \ {1} : t[i] = s[j]
  <2>1. i + 1 \in DOMAIN s \ {1} /\ t[i] = s[i + 1]
    BY <1>2
  <2> QED
    BY <2>1
<1>4. ASSUME NEW j \in DOMAIN s \ {1} PROVE \E i \in DOMAIN t : t[i] = s[j]
  <2>1. j - 1 \in 1 .. Len(s) - 1 /\ (j - 1) + 1 = j
    BY <1>2
  <2>2. t[j - 1] = s[j]
    BY <1>2, <2>1
  <2> QED
    BY <1>2, <2>1, <2>2
<1>5. 1 \in DOMAIN s
  BY <1>2
<1>6. code' \in [Cpus -> Seq(Instrs)]
  <2>1. code' = [code EXCEPT ![c] = Tail(code[c])]
    BY DEF Step
  <2>2. Tail(code[c]) \in Seq(Instrs)
    BY <1>1, <1>2 DEF s
  <2> QED
    BY <2>1, <2>2 DEF Shapes
<1> QED
  BY <1>1, <1>2, <1>3, <1>4, <1>5, <1>6 DEF s, t

\* A step of the kernel's paths keeps the types.
LEMMA PathShapes ==
    ASSUME TlbIInv, NEW c \in Cpus, Path(c)
    PROVE  Shapes'
<1> USE DEF TlbIInv
<1>1. code[c] # << >> => Ahead(c)
  BY AheadOf DEF LockInv
<1>2. CASE Acquire(c)
  <2>1. code[c] # << >> /\ Head(code[c]).op = "lock"
    BY <1>2 DEF Acquire, At
  <2>2. Append(held[c], Arg(c)) \in Seq(Locks)
    BY <1>1, <2>1 DEF Ahead, Shapes
  <2>3. held' = [held EXCEPT ![c] = Append(held[c], Arg(c))] \/ UNCHANGED held
    BY <1>2 DEF Acquire
  <2>4. held' \in [Cpus -> Seq(Locks)]
    BY <2>2, <2>3 DEF Shapes
  <2> QED
    BY <1>2, <2>4 DEF Acquire, Shapes, vmem, mail
<1>3. CASE Take(c)
  <2>1. code[c] # << >> /\ Head(code[c]).op = "lock"
    BY <1>3 DEF Take, Spinning, At
  <2>2. code' \in [Cpus -> Seq(Instrs)]
    BY <1>3, <2>1, StepFacts DEF Take
  <2> QED
    BY <1>1, <1>3, <2>1, <2>2 DEF Take, Ahead, Shapes, vmem, mail
<1>4. CASE Drop(c)
  <2>1. code[c] # << >> /\ Head(code[c]).op = "unlock"
    BY <1>4 DEF Drop, At
  <2>2. code' \in [Cpus -> Seq(Instrs)]
    BY <1>4, <2>1, StepFacts DEF Drop
  <2>3. SubSeq(held[c], 1, Len(held[c]) - 1) \in Seq(Locks)
    <3>1. held[c] \in Seq(Locks)
      BY DEF Shapes
    <3> QED
      BY <3>1
  <2>4. held' \in [Cpus -> Seq(Locks)]
    BY <1>4, <2>3 DEF Drop, Shapes
  <2> QED
    BY <1>1, <1>4, <2>1, <2>2, <2>4 DEF Drop, Ahead, Shapes, vmem, mail
<1>5. ASSUME At(c, "map") \/ At(c, "unmap") \/ At(c, "free") \/ At(c, "shoot")
      PROVE  code[c] # << >> /\ Arg(c) \in Pages /\ NeedsInvalidation(Arg(c)) \in BOOLEAN
  <2>1. code[c] # << >> /\ Head(code[c]).op \in PageOps
    BY <1>5 DEF At, PageOps
  <2>2. code[c] \in Seq(Instrs) /\ 1 \in DOMAIN code[c] /\ code[c][1] = Head(code[c])
    BY <2>1 DEF Shapes
  <2>3. Arg(c) \in Pages
    BY <1>1, <2>1, <2>2 DEF Ahead, Arg
  <2>4. RootOf[Arg(c)] = Kernel \/ RootOf[Arg(c)] \in UserRoots
    BY <2>3, TlbAssumption
  <2> QED
    BY <2>1, <2>3, <2>4 DEF NeedsInvalidation, Shapes
<1>6. CASE Map(c)
  <2>1. code' \in [Cpus -> Seq(Instrs)]
    BY <1>5, <1>6, StepFacts DEF Map
  <2> QED
    BY <1>5, <1>6, <2>1 DEF Map, Shapes, mail
<1>7. CASE Unmap(c)
  <2>1. code' \in [Cpus -> Seq(Instrs)]
    BY <1>5, <1>7, StepFacts DEF Unmap
  <2> QED
    BY <1>5, <1>7, <2>1 DEF Unmap, Shapes, mail
<1>8. CASE Free(c)
  <2>1. code' \in [Cpus -> Seq(Instrs)]
    BY <1>5, <1>8, StepFacts DEF Free
  <2> QED
    BY <1>8, <2>1 DEF Free, Shapes, mail
<1>9. CASE Enter(c)
  <2>1. code[c] # << >>
    BY <1>9 DEF Enter, At
  <2>2. code' \in [Cpus -> Seq(Instrs)]
    BY <1>9, <2>1, StepFacts DEF Enter
  <2> QED
    BY <1>9, <2>2 DEF Enter, Shapes, mail
<1>10. CASE LoadCr3(c)
  <2>1. code[c] # << >> /\ Head(code[c]).op = "cr3"
    BY <1>10 DEF LoadCr3, At
  <2>2. code' \in [Cpus -> Seq(Instrs)]
    BY <1>10, <2>1, StepFacts DEF LoadCr3
  <2> QED
    BY <1>1, <1>10, <2>1, <2>2 DEF LoadCr3, Ahead, Shapes, vmem, mail
<1>11. CASE ShootSkip(c)
  <2>1. code' \in [Cpus -> Seq(Instrs)]
    BY <1>5, <1>11, StepFacts DEF ShootSkip
  <2> QED
    BY <1>11, <2>1 DEF ShootSkip, Shapes, vmem, mail
<1>12. CASE ShootBegin(c)
  <2>1. slot[c] \in Mailboxes /\ Arg(c) \in Pages /\ RootOf[Arg(c)] \in Roots
    BY <1>5, <1>12, TlbAssumption DEF ShootBegin, Shapes, Roots
  <2>2. [gen |-> slot[c].gen + 1, page |-> Arg(c), root |-> RootOf[Arg(c)], ack |-> slot[c].ack] \in Mailboxes
    BY <2>1 DEF Mailboxes
  <2>3. slot' \in [Cpus -> Mailboxes]
    BY <1>12, <2>2 DEF ShootBegin, Shapes
  <2>4. phase' \in [Cpus -> Phases]
    BY <1>12 DEF ShootBegin, Shapes, Phases
  <2> QED
    BY <1>12, <2>3, <2>4 DEF ShootBegin, Shapes, vmem
<1>13. CASE ShootActive(c)
  BY <1>13 DEF ShootActive, Shapes, vmem, Phases
<1>14. CASE ShootSend(c)
  <2>1. slot[c] \in Mailboxes /\ tlb[c] \subseteq Pages \X Frames
    BY DEF Shapes
  <2>2. [slot[c] EXCEPT !.ack = Cpus \ {c}] \in Mailboxes
    BY <2>1 DEF Mailboxes
  <2>3. slot' \in [Cpus -> Mailboxes]
    BY <1>14, <2>2 DEF ShootSend, Shapes
  <2>4. phase' \in [Cpus -> Phases] /\ tlb' \in [Cpus -> SUBSET (Pages \X Frames)]
    BY <1>14, <2>1 DEF ShootSend, Shapes, Phases, Without
  <2> QED
    BY <1>14, <2>3, <2>4 DEF ShootSend, Shapes, vmem
<1>15. CASE ShootEnd(c)
  <2>1. code[c] # << >>
    BY <1>15 DEF ShootEnd, MemInv, Mail, At
  <2>2. code' \in [Cpus -> Seq(Instrs)]
    BY <1>15, <2>1, StepFacts DEF ShootEnd
  <2> QED
    BY <1>15, <2>2 DEF ShootEnd, Shapes, vmem, Phases
<1> QED
  BY <1>2, <1>3, <1>4, <1>6, <1>7, <1>8, <1>9, <1>10, <1>11, <1>12, <1>13, <1>14, <1>15 DEF Path

\* So does a step of smp_tlb_service_local.
LEMMA ServiceShapes ==
    ASSUME TlbIInv, NEW c \in Cpus, Service(c)
    PROVE  Shapes'
<1> USE DEF TlbIInv
<1>1. svc[c] \in Services /\ active \ {c} \subseteq Cpus /\ tlb[c] \subseteq Pages \X Frames
  BY DEF Shapes
<1>2. svc[c].todo # {} => From(c) \in Cpus /\ slot[From(c)] \in Mailboxes
  BY FromTodo DEF Shapes
<1>3. [svc[c] EXCEPT !.todo = active \ {c}] \in Services
  BY <1>1 DEF Services
<1>4. [todo |-> svc[c].todo \ {From(c)}, req |-> None] \in Services
  BY <1>1 DEF Services
<1>5. CASE ServicePoll(c)
  <2>1. svc' \in [Cpus -> Services]
    BY <1>3, <1>5 DEF ServicePoll, Shapes
  <2> QED
    BY <1>5, <2>1 DEF ServicePoll, Shapes, vmem, mail
<1>6. CASE ServiceIpi(c)
  <2>1. svc' \in [Cpus -> Services]
    BY <1>3, <1>6 DEF ServiceIpi, Shapes
  <2> QED
    BY <1>6, <2>1 DEF ServiceIpi, Shapes, vmem, mail
<1>7. CASE ServiceNone(c)
  <2>1. svc' \in [Cpus -> Services]
    BY <1>4, <1>7 DEF ServiceNone, Skip, Shapes
  <2> QED
    BY <1>7, <2>1 DEF ServiceNone, Shapes, vmem, mail
<1>8. CASE ServiceRead(c)
  <2>1. svc[c].todo # {}
    BY <1>8 DEF ServiceRead, Idle
  <2> DEFINE s == slot[From(c)]
  <2>2. [gen |-> s.gen, page |-> s.page, root |-> s.root] \in Readings
    BY <1>2, <2>1 DEF Mailboxes, Readings
  <2>3. [svc[c] EXCEPT !.req = [gen |-> s.gen, page |-> s.page, root |-> s.root]] \in Services
    BY <1>1, <2>2 DEF Services
  <2>4. svc' \in [Cpus -> Services]
    BY <1>8, <2>3 DEF ServiceRead, Shapes
  <2> QED
    BY <1>8, <2>4 DEF ServiceRead, Shapes, vmem, mail
<1>9. CASE ServiceAck(c)
  <2>1. svc[c].todo # {}
    BY <1>9 DEF ServiceAck, Idle
  <2>2. svc' \in [Cpus -> Services]
    BY <1>4, <1>9 DEF ServiceAck, Skip, Shapes
  <2>3. tlb' \in [Cpus -> SUBSET (Pages \X Frames)]
    BY <1>1, <1>9 DEF ServiceAck, Shapes, Without
  <2>4. [slot[From(c)] EXCEPT !.ack = slot[From(c)].ack \ {c}] \in Mailboxes
    BY <1>2, <2>1 DEF Mailboxes
  <2>5. slot' \in [Cpus -> Mailboxes]
    BY <1>2, <1>9, <2>1, <2>4 DEF ServiceAck, Shapes
  <2> QED
    BY <1>9, <2>2, <2>3, <2>5 DEF ServiceAck, Shapes, vmem
<1> QED
  BY <1>5, <1>6, <1>7, <1>8, <1>9 DEF Service

\* So does the page walk,
LEMMA CacheShapes ==
    ASSUME Shapes, NEW c \in Cpus, NEW p \in Pages, Cache(c, p)
    PROVE  Shapes'
<1>1. pte[p] \in Frames
  BY DEF Cache, Shapes
<1>2. tlb' \in [Cpus -> SUBSET (Pages \X Frames)]
  <2>1. tlb[c] \cup {<<p, pte[p]>>} \in SUBSET (Pages \X Frames)
    BY <1>1 DEF Shapes
  <2> QED
    BY <2>1 DEF Cache, Shapes
<1> QED
  BY <1>2 DEF Cache, Shapes, vmem, mail

\* and the start of a path.
LEMMA StartShapes ==
    ASSUME Shapes, NEW c \in Cpus, NEW P, NEW b, Started(c, P, b), P \in Seq(Instrs)
    PROVE  Shapes'
BY DEF Started, Shapes, vmem, mail

-----------------------------------------------------------------------------
(* Memory                                                                  *)

\* A step along a path gives no CPU a new page.
LEMMA UsesStep ==
    ASSUME Shapes, NEW c \in Cpus, code[c] # << >>, Step(c), NEW d \in Cpus, NEW p, Uses(d, p)'
    PROVE  Uses(d, p)
<1>1. /\ \A x \in Cpus \ {c} : code'[x] = code[x]
      /\ \A i \in DOMAIN code'[c] : \E j \in DOMAIN code[c] \ {1} : code'[c][i] = code[c][j]
  BY StepFacts
<1>2. CASE d = c
  BY <1>1, <1>2 DEF Uses
<1>3. CASE d # c
  BY <1>1, <1>3 DEF Uses
<1> QED
  BY <1>2, <1>3

\* No two CPUs come to share a page,
LEMMA ApartStep ==
    ASSUME Shapes, Apart, NEW c \in Cpus, code[c] # << >>, Step(c)
    PROVE  Apart'
BY UsesStep DEF Apart

\* and no page to be mapped gets mapped.
LEMMA VacantStep ==
    ASSUME Shapes, NEW c \in Cpus, code[c] # << >>, Step(c), NEW d \in Cpus, Vacant(d), pte' = pte
    PROVE  Vacant(d)'
<1>1. /\ \A x \in Cpus \ {c} : code'[x] = code[x]
      /\ \A i \in DOMAIN code'[c] : \E j \in DOMAIN code[c] \ {1} : code'[c][i] = code[c][j]
  BY StepFacts
<1>2. CASE d = c
  BY <1>1, <1>2 DEF Vacant
<1>3. CASE d # c
  BY <1>1, <1>3 DEF Vacant
<1> QED
  BY <1>2, <1>3

\* Outside a shootdown the mailbox is not in use.
LEMMA MailStep ==
    ASSUME Shapes, NEW c \in Cpus, code[c] # << >>, Step(c), NEW d \in Cpus, Mail(d),
           d = c => phase'[c] = "none", phase'[d] = phase[d] \/ phase'[d] = "none", slot' = slot
    PROVE  Mail(d)'
<1>1. d # c => code'[d] = code[d]
  BY StepFacts
<1>2. CASE d = c
  BY <1>2 DEF Mail
<1>3. CASE d # c
  BY <1>1, <1>3 DEF Mail, At, Arg
<1> QED
  BY <1>2, <1>3

\* A frame stays kept while its keeper does not step,
LEMMA KeepsOther ==
    ASSUME NEW d \in Cpus, NEW x, NEW p, NEW f, Keeps(d, x, p, f), code'[d] = code[d],
           taken'[d] = taken[d], inval'[d] = inval[d], phase'[d] = "wait" => x \in slot'[d].ack
    PROVE  Keeps(d, x, p, f)'
BY DEF Keeps

\* and while it steps up to the shootdown.
LEMMA KeepsStep ==
    ASSUME Shapes, NEW c \in Cpus, code[c] # << >>, Step(c), Head(code[c]).op # "shoot",
           NEW d \in Cpus, NEW x, NEW p, NEW f, Keeps(d, x, p, f),
           taken'[d] = taken[d], inval'[d] = inval[d], phase' = phase, slot' = slot
    PROVE  Keeps(d, x, p, f)'
<1>1. /\ \A y \in Cpus \ {c} : code'[y] = code[y] /\ code[c][1] = Head(code[c])
      /\ \A i \in DOMAIN code'[c] : \E j \in DOMAIN code[c] \ {1} : code'[c][i] = code[c][j]
      /\ \A j \in DOMAIN code[c] \ {1} : \E i \in DOMAIN code'[c] : code'[c][i] = code[c][j]
  BY StepFacts
<1>2. CASE d # c
  BY <1>1, <1>2, KeepsOther DEF Keeps
<1>3. CASE d = c
  <2>1. PICK j \in DOMAIN code[c] : code[c][j].op = "shoot" /\ code[c][j].arg = p
    BY <1>3 DEF Keeps
  <2>2. j # 1
    BY <2>1, StepFacts
  <2>3. \E i \in DOMAIN code'[c] : code'[c][i].op = "shoot" /\ code'[c][i].arg = p
    BY <1>1, <2>1, <2>2
  <2>4. \A i \in DOMAIN code'[c] : code'[c][i].op \notin {"map", "unmap"}
    BY <1>1, <1>3 DEF Keeps
  <2> QED
    BY <1>3, <2>3, <2>4 DEF Keeps
<1> QED
  BY <1>2, <1>3

\* The entries of a CPU stay fresh when none is added and their frames stay kept.
LEMMA FreshKept ==
    ASSUME NEW d \in Cpus, Fresh(d), tlb'[d] \subseteq tlb[d], pte' = pte,
           \A x \in Cpus : \A e \in tlb'[d] : Keeps(x, d, e[1], e[2]) => Keeps(x, d, e[1], e[2])'
    PROVE  Fresh(d)'
<1>1. ASSUME NEW e \in tlb'[d] PROVE pte'[e[1]] = e[2] \/ \E x \in Cpus : Keeps(x, d, e[1], e[2])'
  <2>1. pte[e[1]] = e[2] \/ \E x \in Cpus : Keeps(x, d, e[1], e[2])
    BY DEF Fresh
  <2> QED
    BY <2>1
<1> QED
  BY <1>1 DEF Fresh

\* Nothing that the memory is about changes.
LEMMA MemSame ==
    ASSUME MemInv, UNCHANGED <<code, pte, taken, inval, ever, cr3, tlb, slot, phase, svc>>
    PROVE  MemInv'
<1>1. Apart'
  BY DEF MemInv, Apart, Uses
<1>2. ASSUME NEW d \in Cpus PROVE (Vacant(d) /\ Loaded(d) /\ Mail(d) /\ Asked(d) /\ Fresh(d))'
  <2>1. Vacant(d)' /\ Loaded(d)'
    BY DEF MemInv, Vacant, Loaded
  <2>2. Mail(d)' /\ Asked(d)'
    BY DEF MemInv, Mail, At, Arg, Asked, From
  <2>3. \A x \in Cpus : \A e \in tlb'[d] : Keeps(x, d, e[1], e[2]) => Keeps(x, d, e[1], e[2])'
    BY DEF Keeps
  <2>4. Fresh(d)'
    BY <2>3, FreshKept DEF MemInv
  <2> QED
    BY <2>1, <2>2, <2>4
<1> QED
  BY <1>1, <1>2 DEF MemInv

\* An instruction of a lock, and vmm_space_enter.
LEMMA MemQuiet ==
    ASSUME Shapes, MemInv, NEW c \in Cpus, code[c] # << >>, Step(c), Head(code[c]).op # "shoot",
           UNCHANGED <<pte, taken, inval, cr3, tlb, slot, phase, svc>>,
           \A r \in UserRoots : ever[r] => ever'[r]
    PROVE  MemInv'
<1>1. Apart'
  BY ApartStep DEF MemInv
<1>2. phase[c] = "none"
  BY DEF MemInv, Mail, At
<1>3. ASSUME NEW d \in Cpus PROVE (Vacant(d) /\ Loaded(d) /\ Mail(d) /\ Asked(d) /\ Fresh(d))'
  <2>1. Vacant(d)'
    BY VacantStep DEF MemInv
  <2>2. Loaded(d)'
    BY DEF MemInv, Loaded
  <2>3. Mail(d)'
    BY <1>2, MailStep DEF MemInv
  <2>4. Asked(d)'
    BY DEF MemInv, Asked, From
  <2>5. Fresh(d)'
    <3>1. ASSUME NEW x \in Cpus, NEW e \in tlb'[d], Keeps(x, d, e[1], e[2])
          PROVE  Keeps(x, d, e[1], e[2])'
      BY <3>1, KeepsStep
    <3> QED
      BY <3>1, FreshKept DEF MemInv
  <2> QED
    BY <2>1, <2>2, <2>3, <2>4, <2>5
<1> QED
  BY <1>1, <1>3 DEF MemInv

\* The instruction a CPU is at, as one of its path.
LEMMA AtFacts ==
    ASSUME TlbIInv, NEW c \in Cpus, code[c] # << >>
    PROVE  /\ Ahead(c) /\ 1 \in DOMAIN code[c] /\ code[c][1] = Head(code[c])
           /\ Head(code[c]).op \in PageOps => Arg(c) \in Pages /\ Uses(c, Arg(c))
           /\ Head(code[c]).op # "shoot" => phase[c] = "none"
<1>1. Ahead(c)
  BY AheadOf DEF TlbIInv, LockInv
<1>2. 1 \in DOMAIN code[c] /\ code[c][1] = Head(code[c])
  <2>1. code[c] \in Seq(Instrs)
    BY DEF TlbIInv, Shapes
  <2> QED
    BY <2>1
<1>3. Head(code[c]).op \in PageOps => Arg(c) \in Pages /\ Uses(c, Arg(c))
  BY <1>1, <1>2 DEF Ahead, Arg, Uses
<1>4. Head(code[c]).op # "shoot" => phase[c] = "none"
  BY DEF TlbIInv, MemInv, Mail, At
<1> QED
  BY <1>1, <1>2, <1>3, <1>4

\* vmm_map_page finds nobody caching the page.
LEMMA MapMemory ==
    ASSUME TlbIInv, NEW c \in Cpus, Map(c)
    PROVE  MemInv'
<1> USE DEF TlbIInv
<1>1. /\ code[c] # << >> /\ Head(code[c]).op = "map" /\ Step(c)
      /\ inval' = [inval EXCEPT ![c] = NeedsInvalidation(Arg(c))]
      /\ \E f \in pool : pte' = [pte EXCEPT ![Arg(c)] = f]
      /\ UNCHANGED <<taken, ever, cr3, tlb, slot, phase, svc>>
  BY DEF Map, At, mail
<1>2. /\ Ahead(c) /\ 1 \in DOMAIN code[c] /\ code[c][1] = Head(code[c])
      /\ Arg(c) \in Pages /\ Uses(c, Arg(c)) /\ phase[c] = "none"
  BY <1>1, AtFacts DEF PageOps
<1>3. /\ \A p \in Pages \ {Arg(c)} : pte'[p] = pte[p]
      /\ \A d \in Cpus \ {c} : inval'[d] = inval[d]
  BY <1>1, <1>2 DEF Shapes
<1>4. /\ \A d \in Cpus \ {c} : code'[d] = code[d]
      /\ \A i \in DOMAIN code'[c] : \E j \in DOMAIN code[c] \ {1} : code'[c][i] = code[c][j]
  BY <1>1, StepFacts
<1>5. Apart'
  BY <1>1, ApartStep DEF MemInv
<1>6. ASSUME NEW d \in Cpus PROVE (Vacant(d) /\ Loaded(d) /\ Mail(d) /\ Asked(d) /\ Fresh(d))'
  <2>1. Vacant(d)'
    <3>1. CASE d = c
      <4>1. \A i \in DOMAIN code'[c] : code'[c][i].op # "map"
        BY <1>1, <1>2, <1>4 DEF Ahead
      <4> QED
        BY <3>1, <4>1 DEF Vacant
    <3>2. CASE d # c
      <4>1. ASSUME NEW i \in DOMAIN code[d], code[d][i].op = "map" PROVE pte'[code[d][i].arg] = None
        <5>1. code[d] # << >>
          BY DEF Shapes
        <5>2. code[d][i].op \in PageOps /\ code[d][i].arg \in Pages
          BY <4>1, <5>1, AtFacts DEF Ahead, PageOps
        <5>3. Uses(d, code[d][i].arg)
          BY <5>2 DEF Uses
        <5>4. code[d][i].arg # Arg(c)
          BY <1>2, <3>2, <5>2, <5>3 DEF MemInv, Apart
        <5> QED
          BY <1>3, <4>1, <5>2, <5>4 DEF MemInv, Vacant
      <4> QED
        BY <1>4, <3>2, <4>1 DEF Vacant
    <3> QED
      BY <3>1, <3>2
  <2>2. Loaded(d)'
    BY <1>1 DEF MemInv, Loaded
  <2>3. Mail(d)'
    BY <1>1, <1>2, MailStep DEF MemInv
  <2>4. Asked(d)'
    BY <1>1 DEF MemInv, Asked, From
  <2>5. Fresh(d)'
    <3>1. ASSUME NEW e \in tlb'[d] PROVE pte'[e[1]] = e[2] \/ \E x \in Cpus : Keeps(x, d, e[1], e[2])'
      <4>1. e \in tlb[d] /\ e[1] \in Pages /\ e[2] \in Frames
        BY <1>1, <3>1 DEF Shapes
      <4>2. pte[e[1]] = e[2] \/ \E x \in Cpus : Keeps(x, d, e[1], e[2])
        BY <4>1 DEF MemInv, Fresh
      <4>3. CASE pte[e[1]] = e[2]
        <5>1. pte[Arg(c)] = None
          BY <1>1, <1>2 DEF MemInv, Vacant, Arg
        <5>2. e[1] # Arg(c)
          BY <4>1, <4>3, <5>1, TlbAssumption
        <5> QED
          BY <1>3, <4>1, <4>3, <5>2
      <4>4. ASSUME NEW x \in Cpus, Keeps(x, d, e[1], e[2]) PROVE Keeps(x, d, e[1], e[2])'
        <5>1. x # c
          BY <1>1, <1>2, <4>4 DEF Keeps
        <5> QED
          BY <1>1, <1>3, <1>4, <4>4, <5>1, KeepsOther DEF Keeps
      <4> QED
        BY <4>2, <4>3, <4>4
    <3> QED
      BY <3>1 DEF Fresh
  <2> QED
    BY <2>1, <2>2, <2>3, <2>4, <2>5
<1> QED
  BY <1>5, <1>6 DEF MemInv

\* vmm_unmap_page makes the entries of the page stale and keeps the frame.
LEMMA UnmapMemory ==
    ASSUME TlbIInv, NEW c \in Cpus, Unmap(c)
    PROVE  MemInv'
<1> USE DEF TlbIInv
<1>1. /\ code[c] # << >> /\ Head(code[c]).op = "unmap" /\ Step(c)
      /\ taken' = [taken EXCEPT ![c] = pte[Arg(c)]]
      /\ inval' = [inval EXCEPT ![c] = NeedsInvalidation(Arg(c))]
      /\ pte' = [pte EXCEPT ![Arg(c)] = None]
      /\ UNCHANGED <<ever, cr3, tlb, slot, phase, svc>>
  BY DEF Unmap, At, mail
<1>2. /\ Ahead(c) /\ 1 \in DOMAIN code[c] /\ code[c][1] = Head(code[c])
      /\ Arg(c) \in Pages /\ Uses(c, Arg(c)) /\ phase[c] = "none"
  BY <1>1, AtFacts DEF PageOps
<1>3. /\ pte'[Arg(c)] = None /\ \A p \in Pages \ {Arg(c)} : pte'[p] = pte[p]
      /\ \A d \in Cpus \ {c} : inval'[d] = inval[d] /\ taken'[d] = taken[d]
      /\ taken'[c] = pte[Arg(c)] /\ inval'[c] = NeedsInvalidation(Arg(c))
  BY <1>1, <1>2 DEF Shapes
<1>4. /\ \A d \in Cpus \ {c} : code'[d] = code[d]
      /\ \A i \in DOMAIN code'[c] : \E j \in DOMAIN code[c] \ {1} : code'[c][i] = code[c][j]
      /\ \A j \in DOMAIN code[c] \ {1} : \E i \in DOMAIN code'[c] : code'[c][i] = code[c][j]
  BY <1>1, StepFacts
<1>5. Apart'
  BY <1>1, ApartStep DEF MemInv
<1>6. \A i \in DOMAIN code'[c] : code'[c][i].op \notin {"map", "unmap"}
  BY <1>1, <1>2, <1>4 DEF Ahead
<1>7. \E i \in DOMAIN code'[c] : code'[c][i].op = "shoot" /\ code'[c][i].arg = Arg(c)
  <2>1. PICK j \in DOMAIN code[c] : code[c][j].op = "shoot" /\ code[c][j].arg = Arg(c)
    BY <1>1, <1>2 DEF Ahead
  <2>2. j # 1
    BY <1>1, <1>2, <2>1
  <2> QED
    BY <1>4, <2>1, <2>2
<1>8. ASSUME NEW d \in Cpus PROVE (Vacant(d) /\ Loaded(d) /\ Mail(d) /\ Asked(d) /\ Fresh(d))'
  <2>1. Vacant(d)'
    <3>1. CASE d = c
      BY <1>6, <3>1 DEF Vacant
    <3>2. CASE d # c
      <4>1. ASSUME NEW i \in DOMAIN code[d], code[d][i].op = "map" PROVE pte'[code[d][i].arg] = None
        <5>1. code[d] # << >>
          BY DEF Shapes
        <5>2. code[d][i].arg \in Pages
          BY <4>1, <5>1, AtFacts DEF Ahead, PageOps
        <5> QED
          BY <1>3, <4>1, <5>2 DEF MemInv, Vacant
      <4> QED
        BY <1>4, <3>2, <4>1 DEF Vacant
    <3> QED
      BY <3>1, <3>2
  <2>2. Loaded(d)'
    BY <1>1 DEF MemInv, Loaded
  <2>3. Mail(d)'
    BY <1>1, <1>2, MailStep DEF MemInv
  <2>4. Asked(d)'
    BY <1>1 DEF MemInv, Asked, From
  <2>5. Fresh(d)'
    <3>1. ASSUME NEW e \in tlb'[d] PROVE pte'[e[1]] = e[2] \/ \E x \in Cpus : Keeps(x, d, e[1], e[2])'
      <4>1. e \in tlb[d] /\ e[1] \in Pages /\ e[2] \in Frames
        BY <1>1, <3>1 DEF Shapes
      <4>2. pte[e[1]] = e[2] \/ \E x \in Cpus : Keeps(x, d, e[1], e[2])
        BY <4>1 DEF MemInv, Fresh
      <4>3. CASE pte[e[1]] = e[2] /\ e[1] # Arg(c)
        BY <1>3, <4>1, <4>3
      <4>4. CASE pte[e[1]] = e[2] /\ e[1] = Arg(c)
        <5>1. NeedsInvalidation(Arg(c))
          <6>1. RootOf[Arg(c)] = Kernel \/ RootOf[Arg(c)] = cr3[d]
            BY <4>1, <4>4 DEF MemInv, Loaded
          <6>2. cr3[d] = Kernel \/ cr3[d] \in UserRoots
            BY DEF Shapes, Roots
          <6> QED
            BY <6>1, <6>2 DEF MemInv, Loaded, NeedsInvalidation
        <5>2. taken'[c] = e[2] /\ inval'[c] /\ phase'[c] # "wait"
          BY <1>1, <1>2, <1>3, <4>4, <5>1
        <5>3. Keeps(c, d, e[1], e[2])'
          BY <1>6, <1>7, <4>4, <5>2 DEF Keeps
        <5> QED
          BY <5>3
      <4>5. ASSUME NEW x \in Cpus, Keeps(x, d, e[1], e[2]) PROVE Keeps(x, d, e[1], e[2])'
        <5>1. x # c
          BY <1>1, <1>2, <4>5 DEF Keeps
        <5> QED
          BY <1>1, <1>3, <1>4, <4>5, <5>1, KeepsOther DEF Keeps
      <4> QED
        BY <4>2, <4>3, <4>4, <4>5
    <3> QED
      BY <3>1 DEF Fresh
  <2> QED
    BY <2>1, <2>2, <2>3, <2>4, <2>5
<1> QED
  BY <1>5, <1>8 DEF MemInv

\* The step of a CPU that keeps no frame for anyone.
LEMMA MemLeave ==
    ASSUME TlbIInv, NEW c \in Cpus, code[c] # << >>, Step(c),
           \A d, p, f : ~Keeps(c, d, p, f),
           UNCHANGED <<pte, inval, ever, cr3, tlb, slot, svc>>, phase'[c] = "none",
           \A d \in Cpus \ {c} : taken'[d] = taken[d] /\ phase'[d] = phase[d]
    PROVE  MemInv'
<1> USE DEF TlbIInv
<1>1. \A d \in Cpus \ {c} : code'[d] = code[d]
  BY StepFacts
<1>2. Apart'
  BY ApartStep DEF MemInv
<1>3. ASSUME NEW d \in Cpus PROVE (Vacant(d) /\ Loaded(d) /\ Mail(d) /\ Asked(d) /\ Fresh(d))'
  <2>1. Vacant(d)'
    BY VacantStep DEF MemInv
  <2>2. Loaded(d)'
    BY DEF MemInv, Loaded
  <2>3. Mail(d)'
    BY MailStep DEF MemInv
  <2>4. Asked(d)'
    BY DEF MemInv, Asked, From
  <2>5. Fresh(d)'
    <3>1. ASSUME NEW x \in Cpus, NEW e \in tlb'[d], Keeps(x, d, e[1], e[2])
          PROVE  Keeps(x, d, e[1], e[2])'
      <4>1. x # c
        BY <3>1
      <4> QED
        BY <1>1, <3>1, <4>1, KeepsOther DEF Keeps
    <3> QED
      BY <3>1, FreshKept DEF MemInv
  <2> QED
    BY <2>1, <2>2, <2>3, <2>4, <2>5
<1> QED
  BY <1>2, <1>3 DEF MemInv

\* pmm_free_page comes when nobody caches the page any more, and so does the
\* end of a shootdown; a skipped shootdown had nobody to tell.
LEMMA LeaveMemory ==
    ASSUME TlbIInv, NEW c \in Cpus, Free(c) \/ ShootSkip(c) \/ ShootEnd(c)
    PROVE  MemInv'
<1> USE DEF TlbIInv
<1>1. CASE Free(c)
  <2>1. /\ code[c] # << >> /\ Head(code[c]).op = "free" /\ Step(c)
        /\ taken' = [taken EXCEPT ![c] = None]
        /\ UNCHANGED <<pte, inval, ever, cr3, tlb, slot, phase, svc>>
    BY <1>1 DEF Free, At, mail
  <2>2. Ahead(c) /\ phase[c] = "none"
    BY <2>1, AtFacts
  <2>3. \A d, p, f : ~Keeps(c, d, p, f)
    BY <2>1, <2>2 DEF Ahead, Keeps
  <2>4. \A d \in Cpus \ {c} : taken'[d] = taken[d] /\ phase'[d] = phase[d]
    BY <2>1 DEF Shapes
  <2> QED
    BY <2>1, <2>2, <2>3, <2>4, MemLeave
<1>2. CASE ShootSkip(c)
  <2>1. /\ code[c] # << >> /\ Step(c) /\ phase[c] = "none" /\ ~inval[c]
        /\ UNCHANGED <<pte, taken, inval, ever, cr3, tlb, slot, phase, svc>>
    BY <1>2 DEF ShootSkip, At, mail, vmem
  <2>2. \A d, p, f : ~Keeps(c, d, p, f)
    BY <2>1 DEF Keeps
  <2> QED
    BY <2>1, <2>2, MemLeave
<1>3. CASE ShootEnd(c)
  <2>1. /\ Step(c) /\ phase[c] = "wait" /\ slot[c].ack = {}
        /\ phase' = [phase EXCEPT ![c] = "none"]
        /\ UNCHANGED <<pte, taken, inval, ever, cr3, tlb, slot, svc>>
    BY <1>3 DEF ShootEnd, vmem
  <2>2. code[c] # << >>
    BY <2>1 DEF MemInv, Mail, At
  <2>3. \A d, p, f : ~Keeps(c, d, p, f)
    BY <2>1 DEF Keeps
  <2>4. phase'[c] = "none" /\ \A d \in Cpus \ {c} : taken'[d] = taken[d] /\ phase'[d] = phase[d]
    BY <2>1 DEF Shapes
  <2> QED
    BY <2>1, <2>2, <2>3, <2>4, MemLeave
<1> QED
  BY <1>1, <1>2, <1>3

\* vmm_switch_pml4 loads the root of a space that was entered.
LEMMA LoadMemory ==
    ASSUME TlbIInv, NEW c \in Cpus, LoadCr3(c)
    PROVE  MemInv'
<1> USE DEF TlbIInv
<1>1. /\ code[c] # << >> /\ Head(code[c]).op = "cr3" /\ Step(c)
      /\ cr3' = [cr3 EXCEPT ![c] = Arg(c)] /\ tlb' = [tlb EXCEPT ![c] = {}]
      /\ UNCHANGED <<pte, taken, inval, ever, slot, phase, svc>>
  BY DEF LoadCr3, At, mail, vmem
<1>2. Ahead(c) /\ phase[c] = "none"
  BY <1>1, AtFacts
<1>3. /\ cr3'[c] = Arg(c) /\ tlb'[c] = {}
      /\ \A d \in Cpus \ {c} : cr3'[d] = cr3[d] /\ tlb'[d] = tlb[d]
  BY <1>1 DEF Shapes
<1>4. Apart'
  BY <1>1, ApartStep DEF MemInv
<1>5. ASSUME NEW d \in Cpus PROVE (Vacant(d) /\ Loaded(d) /\ Mail(d) /\ Asked(d) /\ Fresh(d))'
  <2>1. Vacant(d)'
    BY <1>1, VacantStep DEF MemInv
  <2>2. Loaded(d)'
    <3>1. CASE d = c
      BY <1>1, <1>2, <1>3, <3>1 DEF Ahead, Loaded
    <3>2. CASE d # c
      BY <1>1, <1>3, <3>2 DEF MemInv, Loaded
    <3> QED
      BY <3>1, <3>2
  <2>3. Mail(d)'
    BY <1>1, <1>2, MailStep DEF MemInv
  <2>4. Asked(d)'
    BY <1>1 DEF MemInv, Asked, From
  <2>5. Fresh(d)'
    <3>1. ASSUME NEW x \in Cpus, NEW e \in tlb'[d], Keeps(x, d, e[1], e[2])
          PROVE  Keeps(x, d, e[1], e[2])'
      BY <1>1, <3>1, KeepsStep
    <3>2. tlb'[d] \subseteq tlb[d]
      BY <1>3
    <3> QED
      BY <1>1, <3>1, <3>2, FreshKept DEF MemInv
  <2> QED
    BY <2>1, <2>2, <2>3, <2>4, <2>5
<1> QED
  BY <1>4, <1>5 DEF MemInv

\* A new generation makes what others have read of the mailbox out of date.
LEMMA BeginMemory ==
    ASSUME TlbIInv, NEW c \in Cpus, ShootBegin(c)
    PROVE  MemInv'
<1> USE DEF TlbIInv
<1> DEFINE m == [gen |-> slot[c].gen + 1, page |-> Arg(c), root |-> RootOf[Arg(c)], ack |-> slot[c].ack]
<1>1. /\ At(c, "shoot") /\ slot' = [slot EXCEPT ![c] = m] /\ phase' = [phase EXCEPT ![c] = "params"]
      /\ UNCHANGED <<code, pte, taken, inval, ever, cr3, tlb, svc>>
  BY DEF ShootBegin, vmem
<1>2. /\ slot'[c] = m /\ phase'[c] = "params"
      /\ \A d \in Cpus \ {c} : slot'[d] = slot[d] /\ phase'[d] = phase[d]
  BY <1>1 DEF Shapes
<1>3. m.gen = slot[c].gen + 1 /\ m.page = Arg(c) /\ m.root = RootOf[Arg(c)] /\ slot[c].gen \in Nat
  BY DEF Shapes, Mailboxes
<1> HIDE DEF m
<1>4. Apart'
  BY <1>1 DEF MemInv, Apart, Uses
<1>5. ASSUME NEW d \in Cpus PROVE (Vacant(d) /\ Loaded(d) /\ Mail(d) /\ Asked(d) /\ Fresh(d))'
  <2>1. Vacant(d)' /\ Loaded(d)'
    BY <1>1 DEF MemInv, Vacant, Loaded
  <2>2. Mail(d)'
    <3>1. CASE d = c
      BY <1>1, <1>2, <1>3, <3>1 DEF Mail, At, Arg
    <3>2. CASE d # c
      BY <1>1, <1>2, <3>2 DEF MemInv, Mail, At, Arg
    <3> QED
      BY <3>1, <3>2
  <2>3. Asked(d)'
    <3> SUFFICES ASSUME svc[d].req # None PROVE Asked(d)'
      BY <1>1 DEF Asked
    <3>1. /\ svc[d].todo # {} /\ svc[d].req.gen <= slot[From(d)].gen
          /\ svc[d].req.gen = slot[From(d)].gen =>
               svc[d].req.page = slot[From(d)].page /\ svc[d].req.root = slot[From(d)].root
      BY DEF MemInv, Asked
    <3>2. From(d) \in Cpus
      BY <3>1, FromTodo
    <3>3. svc[d].req.gen \in Nat
      BY DEF Shapes, Services, Readings
    <3>4. CASE From(d) = c
      <4>1. svc[d].req.gen <= slot'[From(d)].gen /\ svc[d].req.gen # slot'[From(d)].gen
        BY <1>2, <1>3, <3>1, <3>3, <3>4
      <4> QED
        BY <1>1, <3>1, <4>1 DEF Asked, From
    <3>5. CASE From(d) # c
      <4>1. slot'[From(d)] = slot[From(d)]
        BY <1>2, <3>2, <3>5
      <4> QED
        BY <1>1, <3>1, <4>1 DEF Asked, From
    <3> QED
      BY <3>4, <3>5
  <2>4. Fresh(d)'
    <3>1. ASSUME NEW x \in Cpus, NEW e \in tlb'[d], Keeps(x, d, e[1], e[2])
          PROVE  Keeps(x, d, e[1], e[2])'
      <4>1. phase'[x] = "wait" => x # c /\ d \in slot'[x].ack
        BY <1>2, <3>1 DEF Keeps
      <4> QED
        BY <1>1, <3>1, <4>1, KeepsOther
    <3> QED
      BY <1>1, <3>1, FreshKept DEF MemInv
  <2> QED
    BY <2>1, <2>2, <2>3, <2>4
<1> QED
  BY <1>4, <1>5 DEF MemInv

\* The initiator becomes visible.
LEMMA ActiveMemory ==
    ASSUME TlbIInv, NEW c \in Cpus, ShootActive(c)
    PROVE  MemInv'
<1> USE DEF TlbIInv
<1>1. /\ phase[c] = "params" /\ phase' = [phase EXCEPT ![c] = "active"]
      /\ UNCHANGED <<code, pte, taken, inval, ever, cr3, tlb, slot, svc>>
  BY DEF ShootActive, vmem
<1>2. phase'[c] = "active" /\ \A d \in Cpus \ {c} : phase'[d] = phase[d]
  BY <1>1 DEF Shapes
<1>3. Apart'
  BY <1>1 DEF MemInv, Apart, Uses
<1>4. ASSUME NEW d \in Cpus PROVE (Vacant(d) /\ Loaded(d) /\ Mail(d) /\ Asked(d) /\ Fresh(d))'
  <2>1. Vacant(d)' /\ Loaded(d)' /\ Asked(d)'
    BY <1>1 DEF MemInv, Vacant, Loaded, Asked, From
  <2>2. Mail(d)'
    <3>1. phase[d] # "none" <=> phase'[d] # "none"
      BY <1>1, <1>2
    <3> QED
      BY <1>1, <3>1 DEF MemInv, Mail, At, Arg
  <2>3. Fresh(d)'
    <3>1. ASSUME NEW x \in Cpus, NEW e \in tlb'[d], Keeps(x, d, e[1], e[2])
          PROVE  Keeps(x, d, e[1], e[2])'
      <4>1. phase'[x] = "wait" => d \in slot'[x].ack
        BY <1>1, <1>2, <3>1 DEF Keeps
      <4> QED
        BY <1>1, <3>1, <4>1, KeepsOther
    <3> QED
      BY <1>1, <3>1, FreshKept DEF MemInv
  <2> QED
    BY <2>1, <2>2, <2>3
<1> QED
  BY <1>3, <1>4 DEF MemInv

\* What a CPU has read of a mailbox stays right when only the acknowledgements
\* of the mailboxes change.
LEMMA AskedKept ==
    ASSUME Shapes, NEW d \in Cpus, Asked(d), svc'[d] = svc[d],
           \A i \in Cpus : /\ slot'[i].gen = slot[i].gen
                           /\ slot'[i].page = slot[i].page /\ slot'[i].root = slot[i].root
    PROVE  Asked(d)'
<1> SUFFICES ASSUME svc[d].req # None PROVE Asked(d)'
  BY DEF Asked
<1>1. /\ svc[d].todo # {} /\ svc[d].req.gen <= slot[From(d)].gen
      /\ svc[d].req.gen = slot[From(d)].gen =>
           svc[d].req.page = slot[From(d)].page /\ svc[d].req.root = slot[From(d)].root
  BY DEF Asked
<1>2. From(d) \in Cpus
  BY <1>1, FromTodo
<1> QED
  BY <1>1, <1>2 DEF Asked, From

\* Everyone else is asked, and the initiator's own entries are gone.
LEMMA SendMemory ==
    ASSUME TlbIInv, NEW c \in Cpus, ShootSend(c)
    PROVE  MemInv'
<1> USE DEF TlbIInv
<1>1. /\ phase[c] = "active" /\ phase' = [phase EXCEPT ![c] = "wait"]
      /\ slot' = [slot EXCEPT ![c].ack = Cpus \ {c}]
      /\ tlb' = [tlb EXCEPT ![c] = Without(c, slot[c].page)]
      /\ UNCHANGED <<code, pte, taken, inval, ever, cr3, svc>>
  BY DEF ShootSend, vmem
<1>2. /\ phase'[c] = "wait" /\ tlb'[c] = Without(c, slot[c].page)
      /\ \A d \in Cpus \ {c} : phase'[d] = phase[d] /\ tlb'[d] = tlb[d] /\ slot'[d] = slot[d]
  BY <1>1 DEF Shapes
<1>3. /\ slot'[c].ack = Cpus \ {c} /\ slot'[c].gen = slot[c].gen
      /\ slot'[c].page = slot[c].page /\ slot'[c].root = slot[c].root
  <2>1. slot[c] \in Mailboxes /\ slot'[c] = [slot[c] EXCEPT !.ack = Cpus \ {c}]
    BY <1>1 DEF Shapes
  <2> QED
    BY <2>1 DEF Mailboxes
<1>4. \A d \in Cpus : tlb'[d] \subseteq tlb[d]
  BY <1>2 DEF Without
<1>5. code[c] # << >> /\ Head(code[c]).op = "shoot" /\ slot[c].page = Arg(c)
  BY <1>1 DEF MemInv, Mail, At
<1>6. Ahead(c) /\ 1 \in DOMAIN code[c] /\ code[c][1] = Head(code[c])
  BY <1>5, AtFacts
<1>7. Apart'
  BY <1>1 DEF MemInv, Apart, Uses
<1>8. ASSUME NEW d \in Cpus PROVE (Vacant(d) /\ Loaded(d) /\ Mail(d) /\ Asked(d) /\ Fresh(d))'
  <2>1. Vacant(d)' /\ Loaded(d)'
    BY <1>1, <1>4 DEF MemInv, Vacant, Loaded
  <2>2. Mail(d)'
    <3>1. /\ phase[d] # "none" <=> phase'[d] # "none"
          /\ slot'[d].page = slot[d].page /\ slot'[d].root = slot[d].root
      BY <1>1, <1>2, <1>3
    <3> QED
      BY <1>1, <3>1 DEF MemInv, Mail, At, Arg
  <2>3. Asked(d)'
    BY <1>1, <1>2, <1>3, AskedKept DEF MemInv
  <2>4. Fresh(d)'
    <3>1. ASSUME NEW x \in Cpus, NEW e \in tlb'[d], Keeps(x, d, e[1], e[2])
          PROVE  Keeps(x, d, e[1], e[2])'
      <4>1. CASE x # c
        BY <1>1, <1>2, <3>1, <4>1, KeepsOther DEF Keeps
      <4>2. CASE x = c /\ d # c
        BY <1>1, <1>3, <3>1, <4>2, KeepsOther
      <4>3. CASE x = c /\ d = c
        <5>1. e[1] # Arg(c)
          BY <1>2, <1>5, <3>1, <4>3 DEF Without
        <5>2. PICK i \in DOMAIN code[c] : code[c][i].op = "shoot" /\ code[c][i].arg = e[1]
          BY <3>1, <4>3 DEF Keeps
        <5>3. code[c][i].arg = code[c][1].arg
          BY <1>5, <1>6, <5>2 DEF Ahead, PageOps
        <5> QED
          BY <1>6, <5>1, <5>2, <5>3 DEF Arg
      <4> QED
        BY <4>1, <4>2, <4>3
    <3> QED
      BY <1>1, <1>4, <3>1, FreshKept DEF MemInv
  <2> QED
    BY <2>1, <2>2, <2>3, <2>4
<1> QED
  BY <1>7, <1>8 DEF MemInv

\* A translation is fresh when it is cached.
LEMMA CacheMemory ==
    ASSUME TlbIInv, NEW c \in Cpus, NEW p \in Pages, Cache(c, p)
    PROVE  MemInv'
<1> USE DEF TlbIInv
<1>1. /\ RootOf[p] \in {Kernel, cr3[c]} /\ tlb' = [tlb EXCEPT ![c] = @ \cup {<<p, pte[p]>>}]
      /\ UNCHANGED <<code, pte, taken, inval, ever, cr3, slot, phase, svc>>
  BY DEF Cache, vmem, mail
<1>2. tlb'[c] = tlb[c] \cup {<<p, pte[p]>>} /\ \A d \in Cpus \ {c} : tlb'[d] = tlb[d]
  BY <1>1 DEF Shapes
<1>3. Apart'
  BY <1>1 DEF MemInv, Apart, Uses
<1>4. ASSUME NEW d \in Cpus, NEW e \in tlb'[d]
      PROVE  e \in tlb[d] \/ (d = c /\ e[1] = p /\ e[2] = pte[p])
  BY <1>2
<1>5. ASSUME NEW d \in Cpus PROVE (Vacant(d) /\ Loaded(d) /\ Mail(d) /\ Asked(d) /\ Fresh(d))'
  <2>1. Vacant(d)' /\ Mail(d)' /\ Asked(d)'
    BY <1>1 DEF MemInv, Vacant, Mail, At, Arg, Asked, From
  <2>2. Loaded(d)'
    BY <1>1, <1>4 DEF MemInv, Loaded
  <2>3. Fresh(d)'
    <3>1. ASSUME NEW e \in tlb'[d] PROVE pte'[e[1]] = e[2] \/ \E x \in Cpus : Keeps(x, d, e[1], e[2])'
      <4>1. CASE e \in tlb[d]
        <5>1. pte[e[1]] = e[2] \/ \E x \in Cpus : Keeps(x, d, e[1], e[2])
          BY <4>1 DEF MemInv, Fresh
        <5>2. \A x \in Cpus : Keeps(x, d, e[1], e[2]) => Keeps(x, d, e[1], e[2])'
          BY <1>1 DEF Keeps
        <5> QED
          BY <1>1, <5>1, <5>2
      <4>2. CASE e[1] = p /\ e[2] = pte[p]
        BY <1>1, <4>2
      <4> QED
        BY <1>4, <4>1, <4>2
    <3> QED
      BY <3>1 DEF Fresh
  <2> QED
    BY <2>1, <2>2, <2>3
<1> QED
  BY <1>3, <1>5 DEF MemInv

\* smp_tlb_service_local up to the invalidation.
LEMMA ReadMemory ==
    ASSUME TlbIInv, NEW c \in Cpus, ServicePoll(c) \/ ServiceIpi(c) \/ ServiceNone(c) \/ ServiceRead(c)
    PROVE  MemInv'
<1> USE DEF TlbIInv
<1>1. UNCHANGED <<code, pte, taken, inval, ever, cr3, tlb, slot, phase>>
  BY DEF ServicePoll, ServiceIpi, ServiceNone, ServiceRead, vmem, mail
<1>2. \A d \in Cpus \ {c} : svc'[d] = svc[d]
  BY DEF ServicePoll, ServiceIpi, ServiceNone, ServiceRead, Skip, Shapes
<1>3. svc[c] \in Services
  BY DEF Shapes
<1>4. Asked(c)'
  <2>1. CASE ServicePoll(c) \/ ServiceIpi(c)
    <3>1. svc[c].todo = {} /\ svc' = [svc EXCEPT ![c].todo = active \ {c}]
      BY <2>1 DEF ServicePoll, ServiceIpi, Running, Idle
    <3>2. svc[c].req = None
      BY <3>1 DEF MemInv, Asked
    <3>3. svc'[c].req = None
      BY <1>3, <3>1, <3>2 DEF Shapes, Services
    <3> QED
      BY <3>3 DEF Asked
  <2>2. CASE ServiceNone(c)
    <3>1. svc'[c].req = None
      BY <2>2 DEF ServiceNone, Skip, Shapes
    <3> QED
      BY <3>1 DEF Asked
  <2>3. CASE ServiceRead(c)
    <3> DEFINE s == slot[From(c)]
               r == [gen |-> s.gen, page |-> s.page, root |-> s.root]
    <3>1. svc[c].todo # {} /\ svc' = [svc EXCEPT ![c].req = r]
      BY <2>3 DEF ServiceRead, Idle
    <3>2. s \in Mailboxes
      BY <3>1, FromTodo DEF Shapes
    <3>3. svc'[c].todo = svc[c].todo /\ svc'[c].req = r
      BY <1>3, <3>1 DEF Shapes, Services
    <3>4. r.gen = s.gen /\ r.page = s.page /\ r.root = s.root /\ s.gen \in Nat
      BY <3>2 DEF Mailboxes
    <3>5. slot'[From(c)'] = s
      BY <1>1, <3>3 DEF From
    <3> HIDE DEF r, s
    <3>6. s.gen <= s.gen
      BY <3>4
    <3> QED
      BY <3>1, <3>3, <3>4, <3>5, <3>6 DEF Asked
  <2> QED
    BY <2>1, <2>2, <2>3
<1>5. Apart'
  BY <1>1 DEF MemInv, Apart, Uses
<1>6. ASSUME NEW d \in Cpus PROVE (Vacant(d) /\ Loaded(d) /\ Mail(d) /\ Asked(d) /\ Fresh(d))'
  <2>1. Vacant(d)' /\ Loaded(d)' /\ Mail(d)'
    BY <1>1 DEF MemInv, Vacant, Loaded, Mail, At, Arg
  <2>2. Asked(d)'
    <3>1. CASE d = c
      BY <1>4, <3>1
    <3>2. CASE d # c
      BY <1>1, <1>2, <3>2, AskedKept DEF MemInv
    <3> QED
      BY <3>1, <3>2
  <2>3. Fresh(d)'
    <3>1. \A x \in Cpus : \A e \in tlb'[d] : Keeps(x, d, e[1], e[2]) => Keeps(x, d, e[1], e[2])'
      BY <1>1 DEF Keeps
    <3> QED
      BY <1>1, <3>1, FreshKept DEF MemInv
  <2> QED
    BY <2>1, <2>2, <2>3
<1> QED
  BY <1>5, <1>6 DEF MemInv

\* An acknowledgement comes after the invalidation: if it counts, the request
\* was the one that is still outstanding.
LEMMA AckMemory ==
    ASSUME TlbIInv, NEW c \in Cpus, ServiceAck(c)
    PROVE  MemInv'
<1> USE DEF TlbIInv
<1> DEFINE req == svc[c].req
           i == From(c)
<1>1. /\ svc[c].todo # {} /\ req # None
      /\ tlb' = IF Applies(c, req) THEN [tlb EXCEPT ![c] = Without(c, req.page)] ELSE tlb
      /\ slot' = IF req.gen = slot[i].gen THEN [slot EXCEPT ![i].ack = @ \ {c}] ELSE slot
      /\ svc' = [svc EXCEPT ![c] = [todo |-> @.todo \ {From(c)}, req |-> None]]
      /\ UNCHANGED <<code, pte, taken, inval, ever, cr3, phase>>
  BY DEF ServiceAck, Idle, Skip, vmem
<1>2. i \in Cpus
  BY <1>1, FromTodo
<1> HIDE DEF req, i
<1>3. /\ \A d \in Cpus \ {c} : tlb'[d] = tlb[d] /\ svc'[d] = svc[d]
      /\ svc'[c].req = None
      /\ tlb'[c] \subseteq tlb[c] /\ (Applies(c, req) => \A e \in tlb'[c] : e[1] # req.page)
  BY <1>1 DEF Shapes, Without
<1>4. ASSUME NEW d \in Cpus
      PROVE  /\ slot'[d].gen = slot[d].gen /\ slot'[d].page = slot[d].page /\ slot'[d].root = slot[d].root
             /\ \A x \in slot[d].ack : x \in slot'[d].ack \/ (x = c /\ d = i /\ req.gen = slot[i].gen)
  <2>1. CASE d = i /\ req.gen = slot[i].gen
    <3>1. slot[i] \in Mailboxes /\ slot'[i] = [slot[i] EXCEPT !.ack = slot[i].ack \ {c}]
      BY <1>1, <1>2, <2>1 DEF Shapes
    <3> QED
      BY <2>1, <3>1 DEF Mailboxes
  <2>2. CASE ~(d = i /\ req.gen = slot[i].gen)
    <3>1. slot'[d] = slot[d]
      BY <1>1, <2>2 DEF Shapes
    <3> QED
      BY <3>1
  <2> QED
    BY <2>1, <2>2
<1>5. Apart'
  BY <1>1 DEF MemInv, Apart, Uses
<1>6. ASSUME NEW d \in Cpus PROVE (Vacant(d) /\ Loaded(d) /\ Mail(d) /\ Asked(d) /\ Fresh(d))'
  <2>1. Vacant(d)' /\ Loaded(d)'
    <3>1. tlb'[d] \subseteq tlb[d]
      BY <1>3
    <3> QED
      BY <1>1, <3>1 DEF MemInv, Vacant, Loaded
  <2>2. Mail(d)'
    BY <1>1, <1>4 DEF MemInv, Mail, At, Arg
  <2>3. Asked(d)'
    <3>1. CASE d = c
      BY <1>3, <3>1 DEF Asked
    <3>2. CASE d # c
      BY <1>3, <1>4, <3>2, AskedKept DEF MemInv
    <3> QED
      BY <3>1, <3>2
  <2>4. Fresh(d)'
    <3>1. ASSUME NEW x \in Cpus, NEW e \in tlb'[d], Keeps(x, d, e[1], e[2])
          PROVE  Keeps(x, d, e[1], e[2])'
      <4>1. e \in tlb[d]
        BY <1>3
      <4>2. phase'[x] = "wait" => d \in slot'[x].ack
        <5> SUFFICES ASSUME phase[x] = "wait", d \notin slot'[x].ack PROVE FALSE
          BY <1>1
        <5>1. d \in slot[x].ack
          BY <3>1 DEF Keeps
        <5>2. d = c /\ x = i /\ req.gen = slot[i].gen
          BY <1>4, <5>1
        <5>3. req.page = slot[i].page /\ req.root = slot[i].root
          BY <1>1, <5>2 DEF MemInv, Asked, req, i
        <5>4. /\ code[i] # << >> /\ Head(code[i]).op = "shoot"
              /\ slot[i].page = Arg(i) /\ slot[i].root = RootOf[Arg(i)]
          BY <1>2, <5>2 DEF MemInv, Mail, At
        <5>5. Ahead(i) /\ 1 \in DOMAIN code[i] /\ code[i][1] = Head(code[i])
          BY <1>2, <5>4, AtFacts
        <5>6. PICK j \in DOMAIN code[i] : code[i][j].op = "shoot" /\ code[i][j].arg = e[1]
          BY <3>1, <5>2 DEF Keeps
        <5>7. e[1] = Arg(i)
          BY <5>4, <5>5, <5>6 DEF Ahead, PageOps, Arg
        <5>8. RootOf[e[1]] \in {Kernel, cr3[c]}
          BY <4>1, <5>2 DEF MemInv, Loaded
        <5>9. Applies(c, req)
          BY <5>3, <5>4, <5>7, <5>8 DEF Applies
        <5> QED
          BY <1>3, <5>2, <5>3, <5>4, <5>7, <5>9
      <4> QED
        BY <1>1, <3>1, <4>2, KeepsOther
    <3>2. tlb'[d] \subseteq tlb[d]
      BY <1>3
    <3> QED
      BY <1>1, <3>1, <3>2, FreshKept DEF MemInv
  <2> QED
    BY <2>1, <2>2, <2>3, <2>4
<1> QED
  BY <1>5, <1>6 DEF MemInv

\* A path that starts deals with a page nobody else deals with.
LEMMA StartMemory ==
    ASSUME TlbIInv, NEW c \in Cpus, NEW P \in Seq(Instrs), NEW b, Started(c, P, b),
           \A i \in DOMAIN P : P[i].op \in PageOps => ~Busy(P[i].arg),
           \A i \in DOMAIN P : P[i].op = "map" => pte[P[i].arg] = None
    PROVE  MemInv'
<1> USE DEF TlbIInv
<1>1. /\ code[c] = << >> /\ code' = [code EXCEPT ![c] = P]
      /\ UNCHANGED <<pte, taken, inval, ever, cr3, tlb, slot, phase, svc>>
  BY DEF Started, vmem, mail
<1>2. code'[c] = P /\ \A d \in Cpus \ {c} : code'[d] = code[d]
  BY <1>1 DEF Shapes
<1>3. Apart'
  <2>1. ASSUME NEW d \in Cpus, NEW p \in Pages, Uses(c, p)', Uses(d, p)', d # c PROVE FALSE
    <3>1. PICK i \in DOMAIN P : P[i].op \in PageOps /\ P[i].arg = p
      BY <1>2, <2>1 DEF Uses
    <3>2. Uses(d, p)
      BY <1>2, <2>1 DEF Uses
    <3>3. Busy(p)
      BY <3>2 DEF Busy, Uses, PageOps
    <3> QED
      BY <3>1, <3>3
  <2>2. ASSUME NEW d \in Cpus \ {c}, NEW p, Uses(d, p)' PROVE Uses(d, p)
    BY <1>2, <2>2 DEF Uses
  <2> QED
    BY <2>1, <2>2 DEF MemInv, Apart
<1>4. ASSUME NEW d \in Cpus PROVE (Vacant(d) /\ Loaded(d) /\ Mail(d) /\ Asked(d) /\ Fresh(d))'
  <2>1. Vacant(d)'
    <3>1. CASE d = c
      BY <1>1, <1>2, <3>1 DEF Vacant
    <3>2. CASE d # c
      BY <1>1, <1>2, <3>2 DEF MemInv, Vacant
    <3> QED
      BY <3>1, <3>2
  <2>2. Loaded(d)' /\ Asked(d)'
    BY <1>1 DEF MemInv, Loaded, Asked, From
  <2>3. Mail(d)'
    <3>1. CASE d = c
      <4>1. phase'[c] = "none"
        BY <1>1 DEF MemInv, Mail, At
      <4> QED
        BY <3>1, <4>1 DEF Mail
    <3>2. CASE d # c
      BY <1>1, <1>2, <3>2 DEF MemInv, Mail, At, Arg
    <3> QED
      BY <3>1, <3>2
  <2>4. Fresh(d)'
    <3>1. ASSUME NEW x \in Cpus, NEW e \in tlb'[d], Keeps(x, d, e[1], e[2])
          PROVE  Keeps(x, d, e[1], e[2])'
      <4>1. x # c
        BY <1>1, <3>1 DEF Keeps
      <4> QED
        BY <1>1, <1>2, <3>1, <4>1, KeepsOther DEF Keeps
    <3> QED
      BY <1>1, <3>1, FreshKept DEF MemInv
  <2> QED
    BY <2>1, <2>2, <2>3, <2>4
<1> QED
  BY <1>3, <1>4 DEF MemInv

\* The start of a path.
LEMMA StartStep ==
    ASSUME TlbIInv, NEW c \in Cpus, NEW P, NEW b \in BOOLEAN, Started(c, P, b),
           Startable(P), ~b => StartableInOrder(P),
           \A i \in DOMAIN P : P[i].op \in PageOps => ~Busy(P[i].arg),
           \A i \in DOMAIN P : P[i].op = "map" => pte[P[i].arg] = None
    PROVE  TlbIInv'
<1>1. P \in Seq(Instrs)
  BY DEF Startable, Laid
<1>2. Shapes'
  BY <1>1, StartShapes DEF TlbIInv
<1>3. LockInv'
  BY StartLocks DEF TlbIInv
<1>4. MemInv'
  BY <1>1, StartMemory
<1> QED
  BY <1>2, <1>3, <1>4 DEF TlbIInv

\* A path that is in order may start as well.
LEMMA InOrder == ASSUME NEW P, StartableInOrder(P) PROVE Startable(P)
BY DEF Startable, StartableInOrder

\* Every path of the kernel that is modelled.
LEMMA BeginStep ==
    ASSUME TlbIInv, NEW c \in Cpus, Begin(c)
    PROVE  TlbIInv'
<1>1. CASE Grow(c)
  <2>1. PICK p \in Pages : pte[p] = None /\ ~Busy(p) /\ Started(c, HeapGrow(p), FALSE)
    BY <1>1 DEF Grow
  <2>2. StartableInOrder(HeapGrow(p)) /\ OnlyPage(HeapGrow(p), p)
    BY HeapGrowPath
  <2> DEFINE P == HeapGrow(p)
  <2>3. /\ \A i \in DOMAIN P : P[i].op \in PageOps => ~Busy(P[i].arg)
        /\ \A i \in DOMAIN P : P[i].op = "map" => pte[P[i].arg] = None
    BY <2>1, <2>2 DEF OnlyPage, PageOps
  <2> HIDE DEF P
  <2> QED
    BY <2>1, <2>2, <2>3, StartStep, InOrder DEF P
<1>2. CASE Kmalloc(c)
  <2> DEFINE P == HeapUse
  <2>1. Started(c, P, FALSE) /\ StartableInOrder(P) /\ NoPage(P)
    BY <1>2, HeapUsePath DEF Kmalloc
  <2> HIDE DEF P
  <2>2. \A i \in DOMAIN P : P[i].op \notin PageOps /\ P[i].op # "map"
    BY <2>1 DEF NoPage, PageOps
  <2> QED
    BY <2>1, <2>2, StartStep, InOrder
<1>3. CASE Rollback(c)
  <2>1. PICK p \in Pages : ~Busy(p) /\ Started(c, HeapRollback(p), FALSE)
    BY <1>3 DEF Rollback
  <2> DEFINE P == HeapRollback(p)
  <2>2. StartableInOrder(P) /\ OnlyPage(P, p) /\ NoMap(P)
    BY HeapRollbackPath
  <2> HIDE DEF P
  <2>3. \A i \in DOMAIN P : (P[i].op \in PageOps => ~Busy(P[i].arg)) /\ P[i].op # "map"
    BY <2>1, <2>2 DEF OnlyPage, NoMap
  <2> QED
    BY <2>1, <2>2, <2>3, StartStep, InOrder DEF P
<1>4. CASE Reap(c)
  <2>1. PICK p \in Pages : ~Busy(p) /\ Started(c, Release(p), FALSE)
    BY <1>4 DEF Reap
  <2> DEFINE P == Release(p)
  <2>2. StartableInOrder(P) /\ OnlyPage(P, p) /\ NoMap(P)
    BY ReleasePath
  <2> HIDE DEF P
  <2>3. \A i \in DOMAIN P : (P[i].op \in PageOps => ~Busy(P[i].arg)) /\ P[i].op # "map"
    BY <2>1, <2>2 DEF OnlyPage, NoMap
  <2> QED
    BY <2>1, <2>2, <2>3, StartStep, InOrder DEF P
<1>5. CASE Yield(c)
  <2>1. PICK r \in Roots : Started(c, SwitchTo(c, r), FALSE)
    BY <1>5 DEF Yield, Roots
  <2> DEFINE P == SwitchTo(c, r)
  <2>2. StartableInOrder(P) /\ NoPage(P)
    BY SwitchPath
  <2> HIDE DEF P
  <2>3. \A i \in DOMAIN P : P[i].op \notin PageOps /\ P[i].op # "map"
    BY <2>2 DEF NoPage, PageOps
  <2> QED
    BY <2>1, <2>2, <2>3, StartStep, InOrder DEF P
<1>6. CASE Steal(c)
  <2>1. PICK v \in Cpus \ {c} : Started(c, LockPair(c, v), FALSE)
    BY <1>6 DEF Steal
  <2> DEFINE P == LockPair(c, v)
  <2>2. StartableInOrder(P) /\ NoPage(P)
    BY PairPath
  <2> HIDE DEF P
  <2>3. \A i \in DOMAIN P : P[i].op \notin PageOps /\ P[i].op # "map"
    BY <2>2 DEF NoPage, PageOps
  <2> QED
    BY <2>1, <2>2, <2>3, StartStep, InOrder DEF P
<1>7. CASE Other(c)
  <2>1. PICK x \in Locks, y \in Locks : x # y /\ Started(c, Nested(x, y), TRUE)
    BY <1>7 DEF Other
  <2> DEFINE P == Nested(x, y)
  <2>2. Startable(P) /\ NoPage(P)
    BY <2>1, NestedPath
  <2> HIDE DEF P
  <2>3. \A i \in DOMAIN P : P[i].op \notin PageOps /\ P[i].op # "map"
    BY <2>2 DEF NoPage, PageOps
  <2> QED
    BY <2>1, <2>2, <2>3, StartStep DEF P
<1> QED
  BY <1>1, <1>2, <1>3, <1>4, <1>5, <1>6, <1>7 DEF Begin

\* A step of a kernel path.
LEMMA PathStep ==
    ASSUME TlbIInv, NEW c \in Cpus, Path(c)
    PROVE  TlbIInv'
<1>1. Shapes'
  BY PathShapes
<1>2. LockInv' /\ MemInv'
  <2> USE DEF TlbIInv
  <2>1. CASE Acquire(c)
    <3>1. UNCHANGED <<code, pte, taken, inval, ever, cr3, tlb, slot, phase, svc>>
      BY <2>1 DEF Acquire, vmem, mail
    <3> QED
      BY <2>1, <3>1, AcquireLocks, MemSame
  <2>2. CASE Take(c)
    <3>1. /\ code[c] # << >> /\ Head(code[c]).op # "shoot" /\ Step(c)
          /\ UNCHANGED <<pte, taken, inval, ever, cr3, tlb, slot, phase, svc>>
      BY <2>2 DEF Take, Spinning, At, vmem, mail
    <3> QED
      BY <2>2, <3>1, TakeLocks, MemQuiet
  <2>3. CASE Drop(c)
    <3>1. /\ code[c] # << >> /\ Head(code[c]).op # "shoot" /\ Step(c)
          /\ UNCHANGED <<pte, taken, inval, ever, cr3, tlb, slot, phase, svc>>
      BY <2>3 DEF Drop, At, vmem, mail
    <3> QED
      BY <2>3, <3>1, DropLocks, MemQuiet
  <2>4. CASE Map(c)
    <3>1. /\ code[c] # << >> /\ Head(code[c]).op = "map" /\ Step(c)
          /\ UNCHANGED <<held, owner, ever, panic, other>>
      BY <2>4 DEF Map, At
    <3> QED
      BY <2>4, <3>1, LocksStep, MapMemory
  <2>5. CASE Unmap(c)
    <3>1. /\ code[c] # << >> /\ Head(code[c]).op = "unmap" /\ Step(c)
          /\ UNCHANGED <<held, owner, ever, panic, other>>
      BY <2>5 DEF Unmap, At
    <3> QED
      BY <2>5, <3>1, LocksStep, UnmapMemory
  <2>6. CASE Free(c)
    <3>1. /\ code[c] # << >> /\ Head(code[c]).op = "free" /\ Step(c)
          /\ UNCHANGED <<held, owner, ever, panic, other>>
      BY <2>6 DEF Free, At
    <3> QED
      BY <2>6, <3>1, LocksStep, LeaveMemory
  <2>7. CASE Enter(c)
    <3>1. /\ code[c] # << >> /\ Head(code[c]).op = "enter" /\ Step(c)
          /\ ever' = [ever EXCEPT ![Arg(c)] = TRUE]
          /\ UNCHANGED <<held, owner, panic, other, pte, taken, inval, cr3, tlb, slot, phase, svc>>
      BY <2>7 DEF Enter, At, mail
    <3>2. Arg(c) \in UserRoots
      BY <3>1, AtFacts DEF Ahead
    <3>3. ever'[Arg(c)] /\ \A r \in UserRoots : ever[r] => ever'[r]
      BY <3>1, <3>2 DEF Shapes
    <3> QED
      BY <3>1, <3>3, LocksStep, MemQuiet
  <2>8. CASE LoadCr3(c)
    <3>1. /\ code[c] # << >> /\ Head(code[c]).op = "cr3" /\ Step(c)
          /\ UNCHANGED <<held, owner, ever, panic, other>>
      BY <2>8 DEF LoadCr3, At, vmem
    <3> QED
      BY <2>8, <3>1, LocksStep, LoadMemory
  <2>9. CASE ShootSkip(c)
    <3>1. /\ code[c] # << >> /\ Head(code[c]).op = "shoot" /\ Step(c)
          /\ UNCHANGED <<held, owner, ever, panic, other>>
      BY <2>9 DEF ShootSkip, At, vmem
    <3> QED
      BY <2>9, <3>1, LocksStep, LeaveMemory
  <2>10. CASE ShootBegin(c)
    <3>1. UNCHANGED <<code, held, owner, ever, panic, other>>
      BY <2>10 DEF ShootBegin, vmem
    <3> QED
      BY <2>10, <3>1, LocksSame, BeginMemory
  <2>11. CASE ShootActive(c)
    <3>1. UNCHANGED <<code, held, owner, ever, panic, other>>
      BY <2>11 DEF ShootActive, vmem
    <3> QED
      BY <2>11, <3>1, LocksSame, ActiveMemory
  <2>12. CASE ShootSend(c)
    <3>1. UNCHANGED <<code, held, owner, ever, panic, other>>
      BY <2>12 DEF ShootSend, vmem
    <3> QED
      BY <2>12, <3>1, LocksSame, SendMemory
  <2>13. CASE ShootEnd(c)
    <3>1. code[c] # << >> /\ Head(code[c]).op = "shoot"
      BY <2>13 DEF ShootEnd, MemInv, Mail, At
    <3>2. Step(c) /\ UNCHANGED <<held, owner, ever, panic, other>>
      BY <2>13 DEF ShootEnd, vmem
    <3> QED
      BY <2>13, <3>1, <3>2, LocksStep, LeaveMemory
  <2> QED
    BY <2>1, <2>2, <2>3, <2>4, <2>5, <2>6, <2>7, <2>8, <2>9, <2>10, <2>11, <2>12, <2>13 DEF Path
<1> QED
  BY <1>1, <1>2 DEF TlbIInv

\* A step of smp_tlb_service_local, and of the processor's page walk.
LEMMA ServiceStep ==
    ASSUME TlbIInv, NEW c \in Cpus, Service(c)
    PROVE  TlbIInv'
<1>1. UNCHANGED <<code, held, owner, ever, panic, other>>
  BY DEF Service, ServicePoll, ServiceIpi, ServiceNone, ServiceRead, ServiceAck, vmem
<1>2. Shapes' /\ LockInv'
  BY <1>1, ServiceShapes, LocksSame DEF TlbIInv
<1>3. MemInv'
  BY ReadMemory, AckMemory DEF Service
<1> QED
  BY <1>2, <1>3 DEF TlbIInv

\* A page walk.
LEMMA CacheStep ==
    ASSUME TlbIInv, NEW c \in Cpus, NEW p \in Pages, Cache(c, p)
    PROVE  TlbIInv'
<1>1. UNCHANGED <<code, held, owner, ever, panic, other>>
  BY DEF Cache, vmem
<1> QED
  BY <1>1, CacheShapes, LocksSame, CacheMemory DEF TlbIInv

\* A step that changes nothing.
LEMMA SameStep == ASSUME TlbIInv, UNCHANGED vars PROVE TlbIInv'
<1>1. Shapes'
  BY DEF TlbIInv, Shapes, vars, vmem, mail
<1>2. LockInv'
  BY LocksSame DEF TlbIInv, vars, vmem
<1>3. MemInv'
  BY MemSame DEF TlbIInv, vars, vmem, mail
<1> QED
  BY <1>1, <1>2, <1>3 DEF TlbIInv

\* The first state.
LEMMA InitInv == Init => TlbIInv
<1> SUFFICES ASSUME Init PROVE TlbIInv
  OBVIOUS
<1> DEFINE f == CHOOSE f \in Frames : TRUE
<1>1. f \in Frames
  BY TlbAssumption
<1>2. PICK p \in Pages, r \in Roots :
        /\ pool = Frames \ {f} /\ pte = [q \in Pages |-> IF q = p THEN f ELSE None]
        /\ cr3 = [c \in Cpus |-> IF c = Min(Cpus) THEN r ELSE Kernel]
        /\ ever = [q \in UserRoots |-> q = r]
  BY TlbAssumption DEF Init, Roots
<1> HIDE DEF f
<1>3. \A c \in Cpus : code[c] = << >> /\ held[c] = << >> /\ tlb[c] = {} /\ phase[c] = "none" /\ svc[c].req = None
  BY DEF Init
<1>4. Shapes
  <2>1. slot \in [Cpus -> Mailboxes]
    BY DEF Init, Mailboxes, Roots
  <2>2. svc \in [Cpus -> Services]
    BY DEF Init, Services
  <2>3. code \in [Cpus -> Seq(Instrs)] /\ held \in [Cpus -> Seq(Locks)] /\ owner \in [Locks -> Cpus \cup {None}]
    BY DEF Init
  <2>4. pte \in [Pages -> Frames \cup {None}] /\ pool \subseteq Frames \cup {None}
    BY <1>1, <1>2
  <2>5. cr3 \in [Cpus -> Roots] /\ ever \in [UserRoots -> BOOLEAN]
    BY <1>2 DEF Roots
  <2>6. /\ taken \in [Cpus -> Frames \cup {None}] /\ inval \in [Cpus -> BOOLEAN]
        /\ tlb \in [Cpus -> SUBSET (Pages \X Frames)] /\ active \subseteq Cpus /\ phase \in [Cpus -> Phases]
    BY DEF Init, Phases
  <2> QED
    BY <2>1, <2>2, <2>3, <2>4, <2>5, <2>6 DEF Shapes
<1>5. LockInv
  <2>1. ASSUME NEW c \in Cpus PROVE Planned(c) /\ Chain(c) /\ Owned(c)
    <3>1. Planned(c)
      <4> DEFINE P == << >>
                 st == [k \in 1 .. Len(P) + 1 |-> << >>]
      <4>1. Len(P) = 0 /\ P \in Seq(Instrs) /\ << >> \in Seq(Locks) /\ code[c] = P
        BY <1>3
      <4>2. Laid(P, st) /\ Ordered(P, st)
        BY <4>1 DEF Laid, Ordered
      <4>3. Staged(P)
        BY <4>1 DEF Staged
      <4>4. 1 \in 1 .. Len(P) + 1 /\ st[1] = << >>
        BY <4>1
      <4> HIDE DEF P, st
      <4>5. code[c] = SubSeq(P, 1, Len(P))
        <5>1. P = SubSeq(P, 1, Len(P))
          BY <4>1
        <5> QED
          BY <4>1, <5>1
      <4>6. Follows(c, P, st, 1)
        BY <1>3, <4>5, <4>2, <4>3, <4>4 DEF Follows
      <4> QED
        BY <4>6 DEF Planned
    <3>2. Chain(c)
      BY <1>3, <2>1 DEF Chain
    <3>3. Owned(c)
      BY TlbAssumption DEF Init, Owned
    <3> QED
      BY <3>1, <3>2, <3>3
  <2> QED
    BY <2>1 DEF LockInv, PathsOrdered, Init
<1>6. MemInv
  <2>1. Apart
    BY <1>3 DEF Apart, Uses
  <2>2. ASSUME NEW c \in Cpus PROVE Vacant(c) /\ Loaded(c) /\ Mail(c) /\ Asked(c) /\ Fresh(c)
    <3>1. cr3[c] \in UserRoots => ever[cr3[c]]
      BY <1>2, TlbAssumption
    <3> QED
      BY <1>3, <3>1 DEF Vacant, Loaded, Mail, Asked, Fresh
  <2> QED
    BY <2>1, <2>2 DEF MemInv
<1> QED
  BY <1>4, <1>5, <1>6 DEF TlbIInv

-----------------------------------------------------------------------------
(* The theorems                                                            *)

\* The inductive invariant holds in every reachable state: the chain of locks
\* of every CPU is the one its path has built, in the order of can_acquire,
\* and every stale translation is one whose frame is kept until its CPU
\* answers the shootdown.
THEOREM TlbInvariance == Spec => []TlbIInv
<1>1. TlbIInv /\ [Next]_vars => TlbIInv'
  <2> SUFFICES ASSUME TlbIInv, [Next]_vars PROVE TlbIInv'
    OBVIOUS
  <2>1. ASSUME NEW c \in Cpus, Path(c) \/ Service(c) \/ Begin(c) \/ \E p \in Pages : Cache(c, p)
        PROVE  TlbIInv'
    BY <2>1, PathStep, ServiceStep, BeginStep, CacheStep
  <2> QED
    BY <2>1, SameStep DEF Next
<1> QED
  BY <1>1, InitInv, PTL DEF Spec

\* No circle of CPUs each spinning for a lock the next one holds, for any
\* number of them and whatever order their paths nest locks in: of the CPUs
\* of a circle one spins for a lock that is last in the order of can_acquire,
\* and the owner of that lock would be spinning for a later one.
THEOREM LocksAcyclic == Spec => []NoLockCycle
<1>1. TlbIInv => NoLockCycle
  <2> SUFFICES ASSUME TlbIInv, NEW S \in SUBSET Cpus, S # {},
                      \A c \in S : Spinning(c) /\ owner[Arg(c)] \in S
               PROVE  FALSE
    BY DEF NoLockCycle
  <2> DEFINE R == {e \in S \X S : Before(Arg(e[1]), Arg(e[2]))}
  <2>1. \A c \in S : Arg(c) \in Locks
    <3>1. ASSUME NEW c \in S PROVE Arg(c) \in Locks
      <4>1. c \in Cpus /\ code[c] # << >> /\ Head(code[c]).op = "lock"
        BY DEF Spinning, At
      <4> QED
        BY <4>1, AtFacts DEF Ahead
    <3> QED
      BY <3>1
  <2>2. \A x, y \in S : <<x, y>> \in R <=> Before(Arg(x), Arg(y))
    OBVIOUS
  <2> HIDE DEF R
  <2>3. /\ \A x \in S : <<x, x>> \notin R
        /\ \A x, y, z \in S : <<x, y>> \in R /\ <<y, z>> \in R => <<x, z>> \in R
    BY <2>1, <2>2, BeforeOrder
  <2>4. IsFiniteSet(S)
    BY TlbAssumption, FS_Subset
  <2>5. PICK x \in S : \A y \in S : <<x, y>> \notin R
    BY <2>3, <2>4, Maximal
  <2> DEFINE y == owner[Arg(x)]
             h == held[y]
  <2>6. y \in S /\ y \in Cpus /\ h \in Seq(Locks) /\ Spinning(y) /\ h[Len(h)] = Arg(y)
    BY DEF Spinning, TlbIInv, Shapes
  <2>7. PICK i \in DOMAIN h : h[i] = Arg(x) /\ i # Len(h)
    BY <2>1, <2>6 DEF TlbIInv, LockInv, Owned
  <2>8. Len(h) \in DOMAIN h /\ i < Len(h)
    <3> HIDE DEF h
    <3> QED
      BY <2>6, <2>7
  <2>9. Before(Arg(x), Arg(y))
    BY <2>6, <2>7, <2>8 DEF TlbIInv, LockInv, Chain
  <2> QED
    BY <2>2, <2>5, <2>6, <2>9
<1> QED
  BY <1>1, TlbInvariance, PTL

\* The modelled paths never ask for a lock that spin_debug_acquire refuses:
\* only a path of the rest of the kernel is ever halted.
THEOREM ModelledPathsOrdered == Spec => []PathsOrdered
<1>1. TlbIInv => PathsOrdered
  BY DEF TlbIInv, LockInv
<1> QED
  BY <1>1, TlbInvariance, PTL

\* No frame is handed back while a CPU can still reach it through a stale
\* translation.
THEOREM FramesOutliveEntries == Spec => []NoStaleUse
<1>1. TlbIInv => NoStaleUse
  BY DEF TlbIInv, MemInv, Fresh, Keeps, NoStaleUse
<1> QED
  BY <1>1, TlbInvariance, PTL
=============================================================================
