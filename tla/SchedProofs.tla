---------------------------- MODULE SchedProofs ----------------------------
(***************************************************************************)
(* Proofs about the per-CPU scheduler, for every number of processors,     *)
(* threads and processes.                                                  *)
(***************************************************************************)
EXTENDS Sched, FiniteSetTheorems, SequenceTheorems, TLAPS

-----------------------------------------------------------------------------
(* The inductive invariant                                                 *)

Phases == {"run", "switch", "first", "late", "post", "release"}
HandOffs == [root : Procs \cup {None}, term : BOOLEAN, changed : BOOLEAN, ctx : Threads \cup {None}]
Spaces == [state : {"live", "dying", "dead"}, cpus : SUBSET Cpus, refs : Nat, queued : BOOLEAN]

Shapes ==
    /\ cur \in [Cpus -> All] /\ on \in [Cpus -> All] /\ cr3 = [c \in Cpus |-> RootOf(cur[c])]
    /\ phase \in [Cpus -> Phases] /\ prev \in [Cpus -> HandOffs]
    /\ runq \in [Cpus -> Seq(Threads)] /\ blocked \in [Cpus -> SUBSET Threads]
    /\ zombie \in [Cpus -> Threads \cup {None}] /\ dead \in [Cpus -> SUBSET Threads]
    /\ busy \in [Threads -> BOOLEAN] /\ got \in [All -> Seq(Threads)] /\ reaped \subseteq Threads
    /\ space \in [Procs -> Spaces]

\* What a CPU has of the switch it is in: an idle thread runs on its own CPU
\* alone; until the switch is done the CPU executes on the stack of a thread
\* that is exiting, or whose context is busy and which has not left the CPU.
Near(c) == Range(runq[c]) \cup blocked[c] \cup {cur[c]}
HandOff(c) ==
    /\ {cur[c], on[c]} \subseteq Threads \cup {Idle[c]}
    /\ phase[c] = "run" => prev[c] = NoPrev /\ zombie[c] = None
    /\ phase[c] # "switch" => on[c] = cur[c]
    /\ phase[c] = "switch" => on[c] \in {Idle[c], zombie[c], prev[c].ctx}
    /\ prev[c].ctx # None => busy[prev[c].ctx] /\ prev[c].ctx \in Near(c)

\* A space's references cover the threads that live and those whose exit has
\* not been accounted for; it is torn down after the last of them.
Living(p) == {t \in Members(p) : Alive(t)}
Leaving(p) == {c \in Cpus : prev[c].term /\ prev[c].root = p}
Counted(p) ==
    /\ Cardinality(Living(p)) + Cardinality(Leaving(p)) <= space[p].refs
    /\ space[p].state = "dead" => Living(p) = {}

SchedIInv ==
    /\ Shapes /\ OnePlace
    /\ \A c \in Cpus : HandOff(c)
    /\ \A p \in Procs : Counted(p)

-----------------------------------------------------------------------------
(* Queues                                                                  *)

\* Taking the first thread of a queue without duplicates.
LEMMA TailQueue ==
    ASSUME NEW T, NEW s \in Seq(T), s # << >>, IsInjective(s)
    PROVE  /\ Tail(s) \in Seq(T) /\ IsInjective(Tail(s)) /\ Head(s) \in T
           /\ Head(s) \in Range(s) /\ Range(Tail(s)) = Range(s) \ {Head(s)}
<1>1. /\ Tail(s) \in Seq(T) /\ Len(s) \in Nat \ {0} /\ DOMAIN s = 1 .. Len(s)
      /\ DOMAIN Tail(s) = 1 .. Len(s) - 1 /\ Head(s) = s[1] /\ Head(s) \in T
      /\ \A i \in 1 .. Len(s) - 1 : Tail(s)[i] = s[i + 1]
  OBVIOUS
<1>2. IsInjective(Tail(s))
  BY <1>1 DEF IsInjective
<1>3. Head(s) \in Range(s)
  BY <1>1 DEF Range
<1>4. Range(Tail(s)) = Range(s) \ {Head(s)}
  <2>1. ASSUME NEW i \in DOMAIN Tail(s) PROVE Tail(s)[i] \in Range(s) \ {Head(s)}
    BY <1>1 DEF Range, IsInjective
  <2>2. ASSUME NEW x \in Range(s) \ {Head(s)} PROVE x \in Range(Tail(s))
    <3>1. PICK i \in DOMAIN s : s[i] = x
      BY DEF Range
    <3>2. i - 1 \in DOMAIN Tail(s) /\ Tail(s)[i - 1] = x
      BY <1>1, <2>2, <3>1
    <3> QED
      BY <3>2 DEF Range
  <2> QED
    BY <2>1, <2>2 DEF Range
<1> QED
  BY <1>1, <1>2, <1>3, <1>4

\* Taking the last one.
LEMMA FrontQueue ==
    ASSUME NEW T, NEW s \in Seq(T), s # << >>, IsInjective(s)
    PROVE  /\ Front(s) \in Seq(T) /\ IsInjective(Front(s)) /\ Last(s) \in T
           /\ Last(s) \in Range(s) /\ Range(Front(s)) = Range(s) \ {Last(s)}
<1>1. /\ Len(s) \in Nat \ {0} /\ DOMAIN s = 1 .. Len(s) /\ Last(s) = s[Len(s)] /\ Last(s) \in T
  BY DEF Last
<1>2. /\ Front(s) \in Seq(T) /\ DOMAIN Front(s) = 1 .. Len(s) - 1
      /\ \A i \in 1 .. Len(s) - 1 : Front(s)[i] = s[i]
  BY <1>1 DEF Front
<1>3. IsInjective(Front(s))
  BY <1>1, <1>2 DEF IsInjective
<1>4. Last(s) \in Range(s)
  BY <1>1 DEF Range
<1>5. Range(Front(s)) = Range(s) \ {Last(s)}
  BY <1>1, <1>2 DEF Range, IsInjective
<1> QED
  BY <1>1, <1>2, <1>3, <1>4, <1>5

\* Queueing a thread that is not in the queue.
LEMMA AppendQueue ==
    ASSUME NEW T, NEW s \in Seq(T), IsInjective(s), NEW e \in T, e \notin Range(s)
    PROVE  /\ Append(s, e) \in Seq(T) /\ IsInjective(Append(s, e))
           /\ Range(Append(s, e)) = Range(s) \cup {e}
<1>1. /\ Append(s, e) \in Seq(T) /\ Len(s) \in Nat /\ DOMAIN s = 1 .. Len(s)
      /\ DOMAIN Append(s, e) = 1 .. Len(s) + 1
      /\ \A i \in 1 .. Len(s) : Append(s, e)[i] = s[i]
      /\ Append(s, e)[Len(s) + 1] = e
  OBVIOUS
<1> DEFINE a == Append(s, e)
<1> HIDE DEF a
<1>2. IsInjective(a)
  BY <1>1 DEF IsInjective, Range, a
<1>3. Range(a) = Range(s) \cup {e}
  <2>1. ASSUME NEW i \in DOMAIN a PROVE a[i] \in Range(s) \cup {e}
    BY <1>1 DEF Range, a
  <2>2. ASSUME NEW i \in DOMAIN s PROVE i \in DOMAIN a /\ a[i] = s[i]
    BY <1>1 DEF a
  <2>3. Len(s) + 1 \in DOMAIN a /\ a[Len(s) + 1] = e
    BY <1>1 DEF a
  <2> QED
    BY <2>1, <2>2, <2>3 DEF Range
<1> QED
  BY <1>1, <1>2, <1>3 DEF a

\* Taking a thread out of the middle.
LEMMA RemoveQueue ==
    ASSUME NEW T, NEW s \in Seq(T), IsInjective(s), NEW i \in DOMAIN s
    PROVE  /\ RemoveAt(s, i) \in Seq(T) /\ IsInjective(RemoveAt(s, i)) /\ s[i] \in T
           /\ s[i] \in Range(s) /\ Range(RemoveAt(s, i)) = Range(s) \ {s[i]}
<1>1. Len(s) \in Nat /\ DOMAIN s = 1 .. Len(s) /\ i \in 1 .. Len(s) /\ s[i] \in T
  OBVIOUS
<1> DEFINE a == SubSeq(s, 1, i - 1)
           b == SubSeq(s, i + 1, Len(s))
           r == RemoveAt(s, i)
<1>2. a \in Seq(T) /\ Len(a) = i - 1 /\ \A j \in 1 .. i - 1 : a[j] = s[j]
  BY <1>1
<1>3. b \in Seq(T) /\ Len(b) = Len(s) - i /\ \A j \in 1 .. Len(s) - i : b[j] = s[i + j]
  BY <1>1
<1>4. r = a \o b
  BY DEF RemoveAt
<1> HIDE DEF a, b, r
<1>5. /\ r \in Seq(T) /\ DOMAIN r = 1 .. Len(s) - 1
      /\ \A j \in 1 .. Len(s) - 1 : r[j] = IF j < i THEN s[j] ELSE s[j + 1]
  <2>1. r \in Seq(T) /\ Len(r) = Len(s) - 1
    <3>1. r \in Seq(T) /\ Len(r) = Len(a) + Len(b)
      BY <1>2, <1>3, <1>4, ConcatProperties
    <3> QED
      BY <1>1, <1>2, <1>3, <3>1
  <2>2. \A j \in 1 .. Len(r) : r[j] = IF j <= Len(a) THEN a[j] ELSE b[j - Len(a)]
    BY <1>2, <1>3, <1>4, ConcatProperties
  <2>3. ASSUME NEW j \in 1 .. Len(s) - 1, j >= i PROVE r[j] = s[j + 1]
    <3>1. r[j] = b[j - (i - 1)] /\ j - (i - 1) \in 1 .. Len(s) - i /\ i + (j - (i - 1)) = j + 1
      BY <1>1, <1>2, <2>1, <2>2, <2>3
    <3> QED
      BY <1>3, <3>1
  <2>4. ASSUME NEW j \in 1 .. Len(s) - 1, j < i PROVE r[j] = s[j]
    BY <1>1, <1>2, <2>1, <2>2, <2>4
  <2> QED
    BY <1>1, <2>1, <2>3, <2>4
<1>6. IsInjective(r)
  <2> SUFFICES ASSUME NEW j \in DOMAIN r, NEW k \in DOMAIN r, r[j] = r[k] PROVE j = k
    BY DEF IsInjective
  <2>1. /\ j \in 1 .. Len(s) - 1 /\ r[j] = IF j < i THEN s[j] ELSE s[j + 1]
        /\ k \in 1 .. Len(s) - 1 /\ r[k] = IF k < i THEN s[k] ELSE s[k + 1]
    BY <1>5
  <2> DEFINE old(m) == IF m < i THEN m ELSE m + 1
  <2>2. \A m \in 1 .. Len(s) - 1 : old(m) \in DOMAIN s /\ r[m] = s[old(m)]
    BY <1>1, <1>5
  <2>3. old(j) = old(k)
    <3>1. old(j) \in DOMAIN s /\ old(k) \in DOMAIN s /\ s[old(j)] = s[old(k)]
      BY <2>1, <2>2
    <3> HIDE DEF old
    <3> QED
      BY <3>1 DEF IsInjective
  <2> QED
    BY <1>1, <2>1, <2>3
<1>7. Range(r) = Range(s) \ {s[i]}
  <2>1. ASSUME NEW j \in DOMAIN r PROVE r[j] \in Range(s) \ {s[i]}
    <3>1. /\ j \in 1 .. Len(s) - 1
          /\ r[j] = IF j < i THEN s[j] ELSE s[j + 1]
      BY <1>5
    <3> QED
      BY <1>1, <3>1 DEF Range, IsInjective
  <2>2. ASSUME NEW x \in Range(s) \ {s[i]} PROVE x \in Range(r)
    <3>1. PICK j \in DOMAIN s : s[j] = x /\ j # i
      BY DEF Range
    <3>2. CASE j < i
      <4>1. j \in DOMAIN r /\ r[j] = x
        BY <1>1, <1>5, <3>1, <3>2
      <4> QED
        BY <4>1 DEF Range
    <3>3. CASE j > i
      <4>1. j - 1 \in DOMAIN r /\ r[j - 1] = x
        BY <1>1, <1>5, <3>1, <3>3
      <4> QED
        BY <4>1 DEF Range
    <3> QED
      BY <1>1, <3>1, <3>2, <3>3
  <2> QED
    BY <2>1, <2>2 DEF Range
<1>8. s[i] \in Range(s)
  BY DEF Range
<1> QED
  BY <1>1, <1>5, <1>6, <1>7, <1>8 DEF r

-----------------------------------------------------------------------------
(* Places                                                                  *)

\* t is at the place <<k, x>> and nowhere else.
Only(t, k, x) ==
    /\ \A c \in Cpus : /\ cur[c] = t <=> k = "running" /\ c = x
                       /\ t \in Range(runq[c]) <=> k = "queued" /\ c = x
                       /\ t \in blocked[c] <=> k = "asleep" /\ c = x
                       /\ zombie[c] = t <=> k = "exiting" /\ c = x
                       /\ t \in dead[c] <=> k = "dead" /\ c = x
    /\ \A h \in All : t \in Range(got[h]) <=> k = "stolen" /\ h = x
    /\ t \in reaped <=> k = "reaped"

\* The places, one kind after the other.
LEMMA SpotsAre ==
    /\ \A c \in Cpus : /\ <<"running", c>> \in Spots /\ <<"queued", c>> \in Spots
                       /\ <<"asleep", c>> \in Spots /\ <<"exiting", c>> \in Spots
                       /\ <<"dead", c>> \in Spots
    /\ \A h \in All : <<"stolen", h>> \in Spots
    /\ <<"reaped", None>> \in Spots
    /\ \A p \in Spots : \/ \E c \in Cpus, k \in {"running", "queued", "asleep", "exiting", "dead"} : p = <<k, c>>
                        \/ \E h \in All : p = <<"stolen", h>>
                        \/ p = <<"reaped", None>>
BY DEF Spots

\* Who is at each of them.
LEMMA HereIs ==
    /\ \A c \in Cpus : /\ Here(<<"running", c>>) = {cur[c]}
                       /\ Here(<<"queued", c>>) = Range(runq[c])
                       /\ Here(<<"asleep", c>>) = blocked[c]
                       /\ Here(<<"exiting", c>>) = {zombie[c]}
                       /\ Here(<<"dead", c>>) = dead[c]
    /\ \A h \in All : Here(<<"stolen", h>>) = Range(got[h])
    /\ Here(<<"reaped", None>>) = reaped
BY DEF Here

\* The same after a step.
LEMMA HereIsNext ==
    /\ \A c \in Cpus : /\ Here(<<"running", c>>)' = {cur'[c]}
                       /\ Here(<<"queued", c>>)' = Range(runq'[c])
                       /\ Here(<<"asleep", c>>)' = blocked'[c]
                       /\ Here(<<"exiting", c>>)' = {zombie'[c]}
                       /\ Here(<<"dead", c>>)' = dead'[c]
    /\ \A h \in All : Here(<<"stolen", h>>)' = Range(got'[h])
    /\ Here(<<"reaped", None>>)' = reaped'
BY DEF Here

\* One place, as the definition says it and kind by kind.
LEMMA OnePlaceOnly ==
    ASSUME OnePlace, NEW t \in Threads
    PROVE  \E k, x : <<k, x>> \in Spots /\ Only(t, k, x)
<1>1. PICK p \in Spots : \A q \in Spots : t \in Here(q) <=> q = p
  BY DEF OnePlace
<1>2. PICK k, x : p = <<k, x>>
  BY SpotsAre
<1>3. \A k2, x2 : <<k2, x2>> \in Spots => (t \in Here(<<k2, x2>>) <=> k2 = k /\ x2 = x)
  BY <1>1, <1>2
<1>4. k = "reaped" => x = None
  BY <1>2, SpotsAre
<1>5. ASSUME NEW c \in Cpus
      PROVE  /\ cur[c] = t <=> k = "running" /\ c = x
             /\ t \in Range(runq[c]) <=> k = "queued" /\ c = x
             /\ t \in blocked[c] <=> k = "asleep" /\ c = x
             /\ zombie[c] = t <=> k = "exiting" /\ c = x
             /\ t \in dead[c] <=> k = "dead" /\ c = x
  <2>1. ASSUME NEW m \in {"running", "queued", "asleep", "exiting", "dead"}
        PROVE  t \in Here(<<m, c>>) <=> k = m /\ c = x
    BY <1>3, SpotsAre
  <2>2. /\ t \in Here(<<"running", c>>) <=> k = "running" /\ c = x
        /\ t \in Here(<<"queued", c>>) <=> k = "queued" /\ c = x
        /\ t \in Here(<<"asleep", c>>) <=> k = "asleep" /\ c = x
        /\ t \in Here(<<"exiting", c>>) <=> k = "exiting" /\ c = x
        /\ t \in Here(<<"dead", c>>) <=> k = "dead" /\ c = x
    BY <2>1
  <2> QED
    BY <2>2, HereIs
<1>6. ASSUME NEW h \in All PROVE t \in Range(got[h]) <=> k = "stolen" /\ h = x
  <2>1. t \in Here(<<"stolen", h>>) <=> k = "stolen" /\ h = x
    BY <1>3, SpotsAre
  <2> QED
    BY <2>1, HereIs
<1>7. t \in reaped <=> k = "reaped"
  <2>1. t \in Here(<<"reaped", None>>) <=> k = "reaped" /\ x = None
    BY <1>3, SpotsAre
  <2> QED
    BY <1>4, <2>1, HereIs
<1>8. Only(t, k, x)
  BY <1>5, <1>6, <1>7 DEF Only
<1> QED
  BY <1>2, <1>8

\* And back.
LEMMA OnlyOnePlace ==
    ASSUME \A t \in Threads : \E k, x : <<k, x>> \in Spots /\ Only(t, k, x)',
           \A c \in Cpus : IsInjective(runq'[c]), \A h \in All : IsInjective(got'[h])
    PROVE  OnePlace'
<1>1. ASSUME NEW t \in Threads
      PROVE  \E p \in Spots : \A q \in Spots : t \in Here(q)' <=> q = p
  <2>1. PICK k, x : <<k, x>> \in Spots /\ Only(t, k, x)'
    OBVIOUS
  <2>2. ASSUME NEW q \in Spots PROVE t \in Here(q)' <=> q = <<k, x>>
    <3>1. CASE \E c \in Cpus, m \in {"running", "queued", "asleep", "exiting", "dead"} : q = <<m, c>>
      <4>1. PICK c \in Cpus, m \in {"running", "queued", "asleep", "exiting", "dead"} : q = <<m, c>>
        BY <3>1
      <4>2. q = <<k, x>> <=> m = k /\ c = x
        BY <4>1
      <4>3. t \in Here(<<m, c>>)' <=> m = k /\ c = x
        <5>1. /\ t \in {cur'[c]} <=> "running" = k /\ c = x
              /\ t \in Range(runq'[c]) <=> "queued" = k /\ c = x
              /\ t \in blocked'[c] <=> "asleep" = k /\ c = x
              /\ t \in {zombie'[c]} <=> "exiting" = k /\ c = x
              /\ t \in dead'[c] <=> "dead" = k /\ c = x
          BY <2>1 DEF Only
        <5>2. /\ Here(<<"running", c>>)' = {cur'[c]} /\ Here(<<"queued", c>>)' = Range(runq'[c])
              /\ Here(<<"asleep", c>>)' = blocked'[c] /\ Here(<<"exiting", c>>)' = {zombie'[c]}
              /\ Here(<<"dead", c>>)' = dead'[c]
          BY HereIsNext
        <5>3. CASE m = "running"
          BY <5>1, <5>2, <5>3
        <5>4. CASE m = "queued"
          BY <5>1, <5>2, <5>4
        <5>5. CASE m = "asleep"
          BY <5>1, <5>2, <5>5
        <5>6. CASE m = "exiting"
          BY <5>1, <5>2, <5>6
        <5>7. CASE m = "dead"
          BY <5>1, <5>2, <5>7
        <5> QED
          BY <5>3, <5>4, <5>5, <5>6, <5>7
      <4> QED
        BY <4>1, <4>2, <4>3
    <3>2. CASE \E h \in All : q = <<"stolen", h>>
      <4>1. PICK h \in All : q = <<"stolen", h>>
        BY <3>2
      <4>2. q = <<k, x>> <=> k = "stolen" /\ h = x
        BY <4>1
      <4>3. t \in Here(<<"stolen", h>>)' <=> k = "stolen" /\ h = x
        BY <2>1, HereIsNext DEF Only
      <4> QED
        BY <4>1, <4>2, <4>3
    <3>3. CASE q = <<"reaped", None>>
      <4>1. q = <<k, x>> <=> k = "reaped"
        BY <2>1, <3>3, SpotsAre
      <4>2. t \in Here(<<"reaped", None>>)' <=> k = "reaped"
        BY <2>1, HereIsNext DEF Only
      <4> QED
        BY <3>3, <4>1, <4>2
    <3> QED
      BY <3>1, <3>2, <3>3, SpotsAre
  <2> QED
    BY <2>1, <2>2
<1>2. Spots' = Spots
  BY DEF Spots, All
<1> QED
  BY <1>1, <1>2 DEF OnePlace

\* A thread's place, from the one kind of place where it is seen.
LEMMA Located ==
    ASSUME OnePlace, NEW t \in Threads
    PROVE  /\ \A c \in Cpus : /\ cur[c] = t => Only(t, "running", c)
                              /\ t \in Range(runq[c]) => Only(t, "queued", c)
                              /\ t \in blocked[c] => Only(t, "asleep", c)
                              /\ zombie[c] = t => Only(t, "exiting", c)
                              /\ t \in dead[c] => Only(t, "dead", c)
           /\ \A h \in All : t \in Range(got[h]) => Only(t, "stolen", h)
<1>1. PICK k, x : Only(t, k, x)
  BY OnePlaceOnly
<1>2. ASSUME NEW c \in Cpus
      PROVE  /\ cur[c] = t => k = "running" /\ x = c
             /\ t \in Range(runq[c]) => k = "queued" /\ x = c
             /\ t \in blocked[c] => k = "asleep" /\ x = c
             /\ zombie[c] = t => k = "exiting" /\ x = c
             /\ t \in dead[c] => k = "dead" /\ x = c
  BY <1>1 DEF Only
<1>3. \A h \in All : t \in Range(got[h]) => k = "stolen" /\ x = h
  BY <1>1 DEF Only
<1> QED
  BY <1>1, <1>2, <1>3

\* A thread that a step does not move.
Unmoved(t) ==
    /\ \A c \in Cpus : /\ cur'[c] = t <=> cur[c] = t
                       /\ t \in Range(runq'[c]) <=> t \in Range(runq[c])
                       /\ t \in blocked'[c] <=> t \in blocked[c]
                       /\ zombie'[c] = t <=> zombie[c] = t
                       /\ t \in dead'[c] <=> t \in dead[c]
    /\ \A h \in All : t \in Range(got'[h]) <=> t \in Range(got[h])
    /\ t \in reaped' <=> t \in reaped

\* Every thread stays in its place or goes to another.
LEMMA PlacesMove ==
    ASSUME OnePlace,
           \A t \in Threads : Unmoved(t) \/ \E k, x : <<k, x>> \in Spots /\ Only(t, k, x)',
           \A c \in Cpus : IsInjective(runq'[c]), \A h \in All : IsInjective(got'[h])
    PROVE  OnePlace'
<1>1. ASSUME NEW t \in Threads, Unmoved(t) PROVE \E k, x : <<k, x>> \in Spots /\ Only(t, k, x)'
  <2>1. PICK k, x : <<k, x>> \in Spots /\ Only(t, k, x)
    BY OnePlaceOnly
  <2>2. Only(t, k, x)'
    BY <1>1, <2>1 DEF Only, Unmoved
  <2> QED
    BY <2>1, <2>2
<1>2. \A t \in Threads : \E k, x : <<k, x>> \in Spots /\ Only(t, k, x)'
  BY <1>1
<1> QED
  BY <1>2, OnlyOnePlace

\* A step that moves nobody.
LEMMA PlacesStill ==
    ASSUME OnePlace, UNCHANGED <<cur, runq, blocked, zombie, dead, got, reaped>>
    PROVE  OnePlace'
<1>1. \A t \in Threads : Unmoved(t)
  BY DEF Unmoved
<1>2. (\A c \in Cpus : IsInjective(runq'[c])) /\ \A h \in All : IsInjective(got'[h])
  BY DEF OnePlace
<1> QED
  BY <1>1, <1>2, PlacesMove

-----------------------------------------------------------------------------
(* CPUs and spaces a step leaves alone                                     *)

\* A CPU that a step leaves alone, but for what is queued there.
LEMMA HandOffStill ==
    ASSUME NEW c \in Cpus, HandOff(c), cur'[c] = cur[c], on'[c] = on[c], phase'[c] = phase[c],
           prev'[c] = prev[c], zombie'[c] = zombie[c],
           prev[c].ctx # None => busy'[prev[c].ctx] /\ prev[c].ctx \in Near(c)'
    PROVE  HandOff(c)'
BY DEF HandOff, NoPrev

\* The sets that a space's references cover are finite.
LEMMA CoveredFinite ==
    ASSUME NEW p
    PROVE  /\ IsFiniteSet(Living(p)) /\ IsFiniteSet(Leaving(p))
           /\ Cardinality(Living(p)) \in Nat /\ Cardinality(Leaving(p)) \in Nat
<1>1. Living(p) \subseteq Threads /\ Leaving(p) \subseteq Cpus
  BY DEF Living, Members, Leaving
<1>2. IsFiniteSet(Living(p)) /\ IsFiniteSet(Leaving(p))
  BY <1>1, FS_Subset, SchedAssumption
<1> QED
  BY <1>2, FS_CardinalityType

\* A step that takes no reference away and tears down what has none.
LEMMA CountedKept ==
    ASSUME SchedIInv, NEW p \in Procs, Living(p)' \subseteq Living(p), Leaving(p)' \subseteq Leaving(p),
           space'[p].refs = space[p].refs,
           space'[p].state = "dead" => space[p].state = "dead" \/ space[p].refs = 0
    PROVE  Counted(p)'
<1>1. Counted(p) /\ space[p].refs \in Nat
  BY DEF SchedIInv, Shapes, Spaces
<1> DEFINE L == Living(p)
           M == Living(p)'
           G == Leaving(p)
           H == Leaving(p)'
<1>2. /\ IsFiniteSet(L) /\ IsFiniteSet(G) /\ Cardinality(L) \in Nat /\ Cardinality(G) \in Nat
  BY CoveredFinite
<1>3. M \subseteq L /\ H \subseteq G
  OBVIOUS
<1>4. /\ Cardinality(L) + Cardinality(G) <= space[p].refs
      /\ space[p].state = "dead" => L = {}
  BY <1>1 DEF Counted
<1>5. /\ space'[p].refs = space[p].refs
      /\ space'[p].state = "dead" => space[p].state = "dead" \/ space[p].refs = 0
  OBVIOUS
<1> HIDE DEF L, M, G, H
<1>6. /\ Cardinality(M) \in Nat /\ Cardinality(M) <= Cardinality(L)
      /\ Cardinality(H) \in Nat /\ Cardinality(H) <= Cardinality(G)
  BY <1>2, <1>3, FS_Subset, FS_CardinalityType
<1>7. Cardinality(M) + Cardinality(H) <= space'[p].refs
  BY <1>1, <1>2, <1>4, <1>5, <1>6
<1>8. space[p].refs = 0 => L = {}
  <2>1. space[p].refs = 0 => Cardinality(L) = 0
    BY <1>1, <1>2, <1>4
  <2> QED
    BY <1>2, <2>1, FS_EmptySet
<1>9. space'[p].state = "dead" => M = {}
  BY <1>3, <1>4, <1>5, <1>8
<1> QED
  BY <1>7, <1>9 DEF Counted, M, H

\* Who lives, when no thread starts or finishes its exit.
LEMMA LivingSame ==
    ASSUME UNCHANGED <<zombie, dead, reaped>>, NEW p
    PROVE  Living(p)' = Living(p)
BY DEF Living, Members, Alive

\* vmm_space_enter changes only the mask.
LEMMA EnteredSpace ==
    ASSUME NEW s \in [Procs -> Spaces], NEW c \in Cpus, NEW r \in Procs \cup {None}
    PROVE  /\ Entered(s, c, r) \in [Procs -> Spaces]
           /\ \A p \in Procs : /\ Entered(s, c, r)[p].refs = s[p].refs
                               /\ Entered(s, c, r)[p].state = s[p].state
<1>1. CASE Entered(s, c, r) = s
  BY <1>1
<1>2. CASE r \in Procs /\ Entered(s, c, r) = [s EXCEPT ![r].cpus = @ \cup {c}]
  <2>1. s[r] \in Spaces
    BY <1>2
  <2> DEFINE n == [s[r] EXCEPT !.cpus = s[r].cpus \cup {c}]
  <2>2. n \in Spaces /\ n.refs = s[r].refs /\ n.state = s[r].state
    BY <2>1 DEF Spaces
  <2>3. Entered(s, c, r) = [s EXCEPT ![r] = n]
    BY <1>2
  <2> HIDE DEF n
  <2> QED
    BY <1>2, <2>2, <2>3
<1> QED
  BY <1>1, <1>2 DEF Entered

\* vmm_destroy_pml4 tears a space down only when nothing refers to it.
LEMMA DestroyedSpace ==
    ASSUME NEW sp \in Spaces
    PROVE  /\ Destroyed(sp) \in Spaces /\ Destroyed(sp).refs = sp.refs
           /\ Destroyed(sp).state = "dead" => sp.refs = 0
BY DEF Destroyed, Held, Spaces

\* So does the drain of the deferred ones.
LEMMA DrainedSpace ==
    ASSUME NEW s \in [Procs -> Spaces]
    PROVE  /\ Drained(s) \in [Procs -> Spaces]
           /\ \A p \in Procs : /\ Drained(s)[p].refs = s[p].refs
                               /\ Drained(s)[p].state = "dead" => s[p].state = "dead" \/ s[p].refs = 0
<1>1. \A p \in Procs : /\ Destroyed(s[p]) \in Spaces /\ Destroyed(s[p]).refs = s[p].refs
                       /\ Destroyed(s[p]).state = "dead" => s[p].refs = 0
  BY DestroyedSpace
<1>2. \A p \in Procs : Drained(s)[p] = IF s[p].queued THEN Destroyed(s[p]) ELSE s[p]
  BY DEF Drained
<1>3. Drained(s) \in [Procs -> Spaces]
  BY <1>1 DEF Drained
<1> QED
  BY <1>1, <1>2, <1>3

\* vmm_space_leave drops one reference at most, and only for an exit.
LEMMA LeftSpace ==
    ASSUME NEW s \in [Procs -> Spaces], NEW c \in Cpus, NEW h \in HandOffs
    PROVE  /\ Left(s, c, h) \in [Procs -> Spaces]
           /\ \A p \in Procs :
                 /\ Left(s, c, h)[p].state = s[p].state
                 /\ ~(h.term /\ h.root = p) => Left(s, c, h)[p].refs = s[p].refs
                 /\ Left(s, c, h)[p].refs \in {s[p].refs, s[p].refs - 1}
<1>1. CASE Left(s, c, h) = s
  BY <1>1
<1>2. CASE /\ h.root \in Procs
           /\ Left(s, c, h) = [s EXCEPT ![h.root].cpus = IF h.changed THEN @ \ {c} ELSE @,
                                       ![h.root].refs = IF h.term /\ @ > 0 THEN @ - 1 ELSE @]
  <2> DEFINE r == h.root
             k == IF h.changed THEN s[r].cpus \ {c} ELSE s[r].cpus
             n == IF h.term /\ s[r].refs > 0 THEN s[r].refs - 1 ELSE s[r].refs
             after == [s[r] EXCEPT !.cpus = k, !.refs = n]
  <2>1. s[r] \in Spaces /\ r \in Procs
    BY <1>2
  <2>2. n \in Nat /\ n \in {s[r].refs, s[r].refs - 1} /\ (~h.term => n = s[r].refs) /\ k \in SUBSET Cpus
    BY <2>1 DEF Spaces
  <2>3. Left(s, c, h) = [s EXCEPT ![r] = after]
    BY <1>2, <2>1 DEF Spaces
  <2> HIDE DEF r, n, k
  <2>4. after \in Spaces /\ after.state = s[r].state /\ after.refs = n
    BY <2>1, <2>2 DEF Spaces
  <2> HIDE DEF after
  <2>5. \A p \in Procs \ {r} : Left(s, c, h)[p] = s[p]
    BY <2>3
  <2>6. Left(s, c, h)[r] = after
    BY <2>1, <2>3
  <2> QED
    BY <2>1, <2>2, <2>3, <2>4, <2>5, <2>6 DEF r
<1> QED
  BY <1>1, <1>2 DEF Left, HandOffs

-----------------------------------------------------------------------------
(* One lemma per step: the end of a switch                                 *)

\* switch_context keeps the invariant: the CPU leaves the old stack.
LEMMA SwitchContextInv ==
    ASSUME SchedIInv, NEW c \in Cpus, SwitchContext(c)
    PROVE  SchedIInv'
<1> USE DEF SwitchContext, queues
<1>1. /\ on'[c] = cur[c] /\ phase'[c] \in {"first", "post"} /\ on' \in [Cpus -> All] /\ phase' \in [Cpus -> Phases]
      /\ \A d \in Cpus \ {c} : on'[d] = on[d] /\ phase'[d] = phase[d]
  BY DEF SchedIInv, Shapes, Phases
<1>2. Shapes'
  BY <1>1 DEF SchedIInv, Shapes, RootOf
<1>3. OnePlace'
  BY PlacesStill DEF SchedIInv
<1>4. ASSUME NEW d \in Cpus PROVE HandOff(d)'
  <2>1. HandOff(d) /\ Near(d)' = Near(d)
    BY DEF SchedIInv, Near
  <2>2. CASE d = c
    BY <1>1, <2>1, <2>2 DEF HandOff
  <2>3. CASE d # c
    BY <1>1, <2>1, <2>3, HandOffStill DEF HandOff
  <2> QED
    BY <2>2, <2>3
<1>5. ASSUME NEW p \in Procs PROVE Counted(p)'
  <2>1. Living(p)' = Living(p) /\ Leaving(p)' = Leaving(p)
    BY LivingSame DEF Leaving
  <2> QED
    BY <2>1, CountedKept
<1> QED
  BY <1>2, <1>3, <1>4, <1>5 DEF SchedIInv

\* The hand-off of a switch, taken: the context is still to be released.
LEMMA NoPrevTyped ==
    ASSUME NEW h \in HandOffs
    PROVE  LET n == [NoPrev EXCEPT !.ctx = h.ctx]
           IN /\ n \in HandOffs /\ n.ctx = h.ctx /\ n.term = FALSE
              /\ NoPrev \in HandOffs /\ NoPrev.ctx = None /\ NoPrev.term = FALSE
BY DEF NoPrev, HandOffs

\* The first half of sched_post_switch keeps the invariant: a reference goes
\* only with the exit it belongs to.
LEMMA PostLeaveInv ==
    ASSUME SchedIInv, NEW c \in Cpus, PostLeave(c)
    PROVE  SchedIInv'
<1> USE DEF PostLeave, queues
<1> DEFINE n == [NoPrev EXCEPT !.ctx = prev[c].ctx]
<1>1. prev[c] \in HandOffs /\ space \in [Procs -> Spaces] /\ prev \in [Cpus -> HandOffs]
  BY DEF SchedIInv, Shapes
<1>2. n \in HandOffs /\ n.ctx = prev[c].ctx /\ n.term = FALSE
  BY <1>1, NoPrevTyped
<1>3. prev' = [prev EXCEPT ![c] = n]
  OBVIOUS
<1> HIDE DEF n
<1>4. /\ prev' \in [Cpus -> HandOffs] /\ prev'[c] = n
      /\ \A d \in Cpus \ {c} : prev'[d] = prev[d]
  BY <1>1, <1>2, <1>3
<1>5. /\ phase' \in [Cpus -> Phases] /\ phase'[c] = "release" /\ phase[c] # "switch"
      /\ \A d \in Cpus \ {c} : phase'[d] = phase[d]
  BY DEF SchedIInv, Shapes, Phases
<1>6. /\ space' \in [Procs -> Spaces]
      /\ \A p \in Procs : /\ space'[p].state = space[p].state
                          /\ ~(prev[c].term /\ prev[c].root = p) => space'[p].refs = space[p].refs
                          /\ space'[p].refs \in {space[p].refs, space[p].refs - 1}
  BY <1>1, LeftSpace
<1>7. Shapes'
  BY <1>4, <1>5, <1>6 DEF SchedIInv, Shapes, RootOf
<1>8. OnePlace'
  BY PlacesStill DEF SchedIInv
<1>9. ASSUME NEW d \in Cpus PROVE HandOff(d)'
  <2>1. HandOff(d) /\ Near(d)' = Near(d)
    BY DEF SchedIInv, Near
  <2>2. CASE d = c
    BY <1>2, <1>4, <1>5, <2>1, <2>2 DEF HandOff
  <2>3. CASE d # c
    BY <1>4, <1>5, <2>1, <2>3, HandOffStill DEF HandOff
  <2> QED
    BY <2>2, <2>3
<1>10. ASSUME NEW p \in Procs PROVE Counted(p)'
  <2>1. Living(p)' = Living(p)
    BY LivingSame
  <2>2. Leaving(p)' = Leaving(p) \ {c}
    BY <1>2, <1>4 DEF Leaving
  <2>3. CASE ~(prev[c].term /\ prev[c].root = p)
    BY <1>6, <2>1, <2>2, <2>3, CountedKept
  <2>4. CASE prev[c].term /\ prev[c].root = p
    <3> DEFINE L == Living(p)
               G == Leaving(p)
    <3>1. c \in G
      BY <2>4 DEF Leaving
    <3>2. /\ IsFiniteSet(G) /\ Cardinality(L) \in Nat /\ Cardinality(G) \in Nat
      BY CoveredFinite
    <3>3. /\ Cardinality(L) + Cardinality(G) <= space[p].refs
          /\ space[p].state = "dead" => L = {}
          /\ space[p].refs \in Nat
      BY <1>1 DEF SchedIInv, Counted, Spaces
    <3>4. Living(p)' = L /\ Leaving(p)' = G \ {c}
      BY <2>1, <2>2
    <3> HIDE DEF L, G
    <3>5. Cardinality(G \ {c}) = Cardinality(G) - 1
      BY <3>1, <3>2, FS_RemoveElement
    <3>6. Cardinality(L) + Cardinality(G \ {c}) <= space'[p].refs
      BY <1>6, <3>2, <3>3, <3>5
    <3> QED
      BY <1>6, <3>3, <3>4, <3>6 DEF Counted
  <2> QED
    BY <2>3, <2>4
<1> QED
  BY <1>7, <1>8, <1>9, <1>10 DEF SchedIInv

\* The tick that a new thread survives keeps it.
LEMMA FirstTickInv ==
    ASSUME SchedIInv, NEW c \in Cpus, FirstTick(c)
    PROVE  SchedIInv'
<1> USE DEF FirstTick, queues
<1>1. /\ phase' \in [Cpus -> Phases] /\ phase'[c] = "late" /\ phase[c] = "first"
      /\ \A d \in Cpus \ {c} : phase'[d] = phase[d]
  BY DEF SchedIInv, Shapes, Phases
<1>2. Shapes'
  BY <1>1 DEF SchedIInv, Shapes, RootOf
<1>3. OnePlace'
  BY PlacesStill DEF SchedIInv
<1>4. ASSUME NEW d \in Cpus PROVE HandOff(d)'
  <2>1. HandOff(d) /\ Near(d)' = Near(d)
    BY DEF SchedIInv, Near
  <2>2. CASE d = c
    BY <1>1, <2>1, <2>2 DEF HandOff
  <2>3. CASE d # c
    BY <1>1, <2>1, <2>3, HandOffStill DEF HandOff
  <2> QED
    BY <2>2, <2>3
<1>5. ASSUME NEW p \in Procs PROVE Counted(p)'
  <2>1. Living(p)' = Living(p) /\ Leaving(p)' = Leaving(p)
    BY LivingSame DEF Leaving
  <2> QED
    BY <2>1, CountedKept
<1> QED
  BY <1>2, <1>3, <1>4, <1>5 DEF SchedIInv

\* No two CPUs have the same context to release.
LEMMA ContextsApart ==
    ASSUME SchedIInv, NEW c \in Cpus, NEW d \in Cpus, prev[c].ctx # None, prev[c].ctx = prev[d].ctx
    PROVE  c = d
<1> DEFINE t == prev[c].ctx
<1>1. t \in Threads /\ t \in Near(c) /\ t \in Near(d)
  <2>1. prev[c] \in HandOffs /\ HandOff(c) /\ HandOff(d)
    BY DEF SchedIInv, Shapes
  <2> QED
    BY <2>1 DEF HandOff, HandOffs
<1> HIDE DEF t
<1>2. PICK k, x : Only(t, k, x)
  BY <1>1, OnePlaceOnly DEF SchedIInv
<1>3. \A e \in Cpus : t \in Near(e) => x = e
  BY <1>2 DEF Near, Only
<1> QED
  BY <1>1, <1>3

\* The second half keeps the invariant: the context that is released is of a
\* thread this CPU has left, and the exiting thread is off its stack.
LEMMA PostReleaseInv ==
    ASSUME SchedIInv, NEW c \in Cpus, PostRelease(c)
    PROVE  SchedIInv'
<1> USE DEF PostRelease
<1>1. /\ phase' \in [Cpus -> Phases] /\ phase'[c] = "run" /\ phase[c] = "release"
      /\ \A d \in Cpus \ {c} : phase'[d] = phase[d]
  BY DEF SchedIInv, Shapes, Phases
<1>2. /\ prev' \in [Cpus -> HandOffs] /\ prev'[c] = NoPrev /\ NoPrev.ctx = None /\ NoPrev.term = FALSE
      /\ \A d \in Cpus \ {c} : prev'[d] = prev[d]
  <2>1. NoPrev \in HandOffs /\ NoPrev.ctx = None /\ NoPrev.term = FALSE
    BY DEF NoPrev, HandOffs
  <2> HIDE DEF NoPrev
  <2> QED
    BY <2>1 DEF SchedIInv, Shapes
<1>3. /\ zombie' \in [Cpus -> Threads \cup {None}] /\ zombie'[c] = None
      /\ dead' \in [Cpus -> SUBSET Threads] /\ dead'[c] = dead[c] \cup ({zombie[c]} \ {None})
      /\ \A d \in Cpus \ {c} : zombie'[d] = zombie[d] /\ dead'[d] = dead[d]
  BY DEF SchedIInv, Shapes
<1>4. /\ busy' \in [Threads -> BOOLEAN]
      /\ \A t \in Threads : busy[t] /\ t # prev[c].ctx => busy'[t]
  BY DEF SchedIInv, Shapes
<1>5. Shapes'
  BY <1>1, <1>2, <1>3, <1>4 DEF SchedIInv, Shapes, RootOf
<1>6. OnePlace'
  <2>1. ASSUME NEW t \in Threads, t # zombie[c] PROVE Unmoved(t)
    <3>1. \A d \in Cpus : (zombie'[d] = t <=> zombie[d] = t) /\ (t \in dead'[d] <=> t \in dead[d])
      BY <1>3, <2>1, SchedAssumption
    <3> QED
      BY <3>1 DEF Unmoved
  <2>2. ASSUME NEW t \in Threads, t = zombie[c] PROVE <<"dead", c>> \in Spots /\ Only(t, "dead", c)'
    <3>1. Only(t, "exiting", c) /\ t # None
      BY <2>2, Located, SchedAssumption DEF SchedIInv
    <3>2. /\ \A d \in Cpus : cur'[d] # t /\ t \notin Range(runq'[d]) /\ t \notin blocked'[d]
          /\ \A h \in All : t \notin Range(got'[h])
          /\ t \notin reaped'
      BY <3>1 DEF Only
    <3>3. \A d \in Cpus : zombie'[d] # t /\ (t \in dead'[d] <=> d = c)
      BY <1>3, <2>2, <3>1 DEF Only
    <3> QED
      BY <3>2, <3>3, SpotsAre DEF Only
  <2>3. (\A d \in Cpus : IsInjective(runq'[d])) /\ \A h \in All : IsInjective(got'[h])
    BY DEF SchedIInv, OnePlace
  <2> QED
    BY <2>1, <2>2, <2>3, PlacesMove DEF SchedIInv
<1>7. ASSUME NEW d \in Cpus PROVE HandOff(d)'
  <2>1. HandOff(d) /\ Near(d)' = Near(d) /\ prev[d] \in HandOffs
    BY DEF SchedIInv, Near, Shapes
  <2>2. CASE d = c
    BY <1>1, <1>2, <1>3, <2>1, <2>2 DEF HandOff
  <2>3. CASE d # c
    <3>1. prev[d].ctx # None => busy'[prev[d].ctx] /\ prev[d].ctx \in Near(d)'
      <4>1. prev[d].ctx # None => prev[d].ctx \in Threads /\ busy[prev[d].ctx] /\ prev[d].ctx \in Near(d)
        BY <2>1 DEF HandOff, HandOffs
      <4>2. prev[d].ctx # None => prev[d].ctx # prev[c].ctx
        BY <2>3, ContextsApart
      <4> QED
        BY <1>4, <2>1, <4>1, <4>2
    <3> QED
      BY <1>1, <1>2, <1>3, <2>1, <2>3, <3>1, HandOffStill
  <2> QED
    BY <2>2, <2>3
<1>8. ASSUME NEW p \in Procs PROVE Counted(p)'
  <2>1. \A t \in Threads : Alive(t)' <=> Alive(t)
    BY <1>3, SchedAssumption DEF Alive
  <2>2. Living(p)' = Living(p)
    BY <2>1 DEF Living, Members
  <2>3. Leaving(p)' \subseteq Leaving(p)
    BY <1>2 DEF Leaving
  <2> QED
    BY <2>2, <2>3, CountedKept
<1> QED
  BY <1>5, <1>6, <1>7, <1>8 DEF SchedIInv

-----------------------------------------------------------------------------
(* One lemma per step: the decision to switch                              *)

\* Whether the outgoing context is marked busy until it is saved.
Saves(c, why) == why = "block" \/ (why = "yield" /\ cur[c] \in Threads)

\* What a switch writes.
LEMMA SwitchParts ==
    ASSUME SchedIInv, NEW c \in Cpus, NEW next \in Threads \cup {Idle[c]},
           NEW why \in {"yield", "block", "exit"}, Switch(c, next, why),
           why = "block" => cur[c] \in Threads
    PROVE  /\ cur' \in [Cpus -> All] /\ cur'[c] = next
           /\ \A d \in Cpus \ {c} : cur'[d] = cur[d] /\ phase'[d] = phase[d] /\ prev'[d] = prev[d]
           /\ cr3' = [d \in Cpus |-> RootOf(cur[d])'] /\ on' = on
           /\ phase' \in [Cpus -> Phases] /\ phase'[c] = "switch"
           /\ prev' \in [Cpus -> HandOffs] /\ prev'[c].term = (why = "exit")
           /\ prev'[c].root = RootOf(cur[c])
           /\ prev'[c].ctx = IF Saves(c, why) THEN cur[c] ELSE prev[c].ctx
           /\ busy' \in [Threads -> BOOLEAN] /\ \A t \in Threads : busy[t] => busy'[t]
           /\ Saves(c, why) => busy'[cur[c]]
<1>1. /\ cur \in [Cpus -> All] /\ cr3 = [d \in Cpus |-> RootOf(cur[d])] /\ phase \in [Cpus -> Phases]
      /\ prev \in [Cpus -> HandOffs] /\ busy \in [Threads -> BOOLEAN] /\ next \in All
      /\ cur[c] \in Threads \cup {Idle[c]}
  BY DEF SchedIInv, Shapes, HandOff, All
<1>2. \A t \in All : RootOf(t) \in Procs \cup {None} /\ RootOf(t)' = RootOf(t)
  BY SchedAssumption DEF RootOf
<1>3. cur' = [cur EXCEPT ![c] = next] /\ cr3' = [cr3 EXCEPT ![c] = RootOf(next)]
      /\ phase' = [phase EXCEPT ![c] = "switch"] /\ on' = on
  BY DEF Switch
<1>4. cr3' = [d \in Cpus |-> RootOf(cur[d])']
  <2>1. \A d \in Cpus : cr3'[d] = RootOf(cur'[d])
    BY <1>1, <1>3
  <2>2. cr3' = [d \in Cpus |-> cr3'[d]]
    BY <1>1, <1>3
  <2>3. \A d \in Cpus : RootOf(cur[d])' = RootOf(cur'[d])
    BY DEF RootOf
  <2> QED
    BY <2>1, <2>2, <2>3
<1> DEFINE n == [root |-> RootOf(cur[c]), term |-> why = "exit", changed |-> cr3[c] # RootOf(next),
                 ctx |-> IF Saves(c, why) THEN cur[c] ELSE prev[c].ctx]
<1>5. prev' = [prev EXCEPT ![c] = n]
  BY DEF Switch, Saves
<1>6. n \in HandOffs
  <2>1. Saves(c, why) => cur[c] \in Threads
    BY DEF Saves
  <2>2. prev[c].ctx \in Threads \cup {None} /\ RootOf(cur[c]) \in Procs \cup {None}
    BY <1>1, <1>2 DEF HandOffs
  <2> QED
    BY <2>1, <2>2 DEF HandOffs
<1>7. n.term = (why = "exit") /\ n.root = RootOf(cur[c])
      /\ n.ctx = IF Saves(c, why) THEN cur[c] ELSE prev[c].ctx
  OBVIOUS
<1> HIDE DEF n
<1>8. /\ prev' \in [Cpus -> HandOffs] /\ prev'[c] = n
      /\ \A d \in Cpus \ {c} : prev'[d] = prev[d]
  BY <1>1, <1>5, <1>6
<1>9. /\ busy' \in [Threads -> BOOLEAN] /\ \A t \in Threads : busy[t] => busy'[t]
      /\ Saves(c, why) => busy'[cur[c]]
  <2>1. busy' = IF Saves(c, why) THEN [busy EXCEPT ![cur[c]] = TRUE] ELSE busy
    BY DEF Switch, Saves
  <2>2. Saves(c, why) => cur[c] \in Threads
    BY DEF Saves
  <2> QED
    BY <1>1, <2>1, <2>2
<1>10. /\ cur' \in [Cpus -> All] /\ cur'[c] = next /\ phase' \in [Cpus -> Phases] /\ phase'[c] = "switch"
       /\ \A d \in Cpus \ {c} : cur'[d] = cur[d] /\ phase'[d] = phase[d]
  BY <1>1, <1>3 DEF Phases
<1> QED
  BY <1>3, <1>4, <1>7, <1>8, <1>9, <1>10

\* The hand-offs after a switch that leaves the outgoing thread with its CPU.
LEMMA SwitchHandOff ==
    ASSUME SchedIInv, NEW c \in Cpus, NEW next \in Threads \cup {Idle[c]},
           NEW why \in {"yield", "block", "exit"}, Switch(c, next, why),
           why = "block" => cur[c] \in Threads, phase[c] # "switch",
           \A d \in Cpus \ {c} : runq'[d] = runq[d] /\ blocked'[d] = blocked[d] /\ zombie'[d] = zombie[d],
           \/ cur[c] \notin Threads
           \/ Saves(c, why) /\ cur[c] \in Near(c)'
           \/ why = "exit" /\ zombie'[c] = cur[c],
           prev[c].ctx # None => prev[c].ctx \in Near(c)'
    PROVE  \A d \in Cpus : HandOff(d)'
<1>1. /\ cur'[c] = next
      /\ \A d \in Cpus \ {c} : cur'[d] = cur[d] /\ phase'[d] = phase[d] /\ prev'[d] = prev[d]
      /\ on' = on /\ phase'[c] = "switch"
      /\ prev'[c].ctx = IF Saves(c, why) THEN cur[c] ELSE prev[c].ctx
      /\ \A t \in Threads : busy[t] => busy'[t]
      /\ Saves(c, why) => busy'[cur[c]]
  BY SwitchParts
<1>2. \A d \in Cpus : HandOff(d) /\ prev[d] \in HandOffs
  BY DEF SchedIInv, Shapes
<1>3. HandOff(c)'
  <2>1. /\ {cur[c], on[c]} \subseteq Threads \cup {Idle[c]} /\ on[c] = cur[c]
        /\ prev[c].ctx # None => busy'[prev[c].ctx]
    BY <1>1, <1>2 DEF HandOff, HandOffs
  <2>2. on'[c] \in {Idle[c], zombie'[c], prev'[c].ctx}
    BY <1>1, <2>1
  <2>3. Saves(c, why) => cur[c] \in Near(c)'
    BY DEF Saves
  <2> QED
    BY <1>1, <2>1, <2>2, <2>3 DEF HandOff
<1>4. ASSUME NEW d \in Cpus \ {c} PROVE HandOff(d)'
  <2>1. Near(d)' = Near(d)
    BY <1>1 DEF Near
  <2>2. prev[d].ctx # None => busy'[prev[d].ctx] /\ prev[d].ctx \in Near(d)'
    BY <1>1, <1>2, <2>1 DEF HandOff, HandOffs
  <2> QED
    BY <1>1, <1>2, <2>2, HandOffStill
<1> QED
  BY <1>3, <1>4

\* The places after a switch on c: the next thread comes from c's queue or from
\* what the old one has stolen, and the old one goes to the place k of c.
Moves(c, next, k) ==
    /\ cur'[c] = next /\ next # cur[c]
    /\ \A d \in Cpus \ {c} : /\ cur'[d] = cur[d] /\ runq'[d] = runq[d]
                             /\ blocked'[d] = blocked[d] /\ zombie'[d] = zombie[d]
    /\ next \in Threads => next \in Range(runq[c]) \/ next \in Range(got[cur[c]])
    /\ Range(runq'[c]) = (Range(runq[c]) \ {next})
                            \cup (IF k = "queued" /\ cur[c] \in Threads THEN {cur[c]} ELSE {})
    /\ blocked'[c] = IF k = "asleep" THEN blocked[c] \cup {cur[c]} ELSE blocked[c]
    /\ zombie'[c] = IF k = "exiting" THEN cur[c] ELSE zombie[c]
    /\ k = "exiting" => zombie[c] = None
    /\ Range(got'[cur[c]]) = Range(got[cur[c]]) \ {next}
    /\ \A h \in All \ {cur[c]} : got'[h] = got[h]
    /\ UNCHANGED <<dead, reaped>>
    /\ (\A d \in Cpus : IsInjective(runq'[d])) /\ \A h \in All : IsInjective(got'[h])

LEMMA SwitchPlaces ==
    ASSUME SchedIInv, NEW c \in Cpus, NEW next, NEW k \in {"queued", "asleep", "exiting"},
           Moves(c, next, k)
    PROVE  OnePlace'
<1>0. cur[c] \in All
  BY DEF SchedIInv, Shapes
<1> USE DEF Moves
<1> DEFINE old == cur[c]
<1>1. ASSUME NEW t \in Threads, t # next, t # old PROVE Unmoved(t)
  <2>1. ASSUME NEW d \in Cpus
        PROVE  /\ cur'[d] = t <=> cur[d] = t
               /\ t \in Range(runq'[d]) <=> t \in Range(runq[d])
               /\ t \in blocked'[d] <=> t \in blocked[d]
               /\ zombie'[d] = t <=> zombie[d] = t
    <3>1. CASE d = c
      BY <1>1, <3>1, SchedAssumption
    <3>2. CASE d # c
      BY <3>2
    <3> QED
      BY <3>1, <3>2
  <2>2. ASSUME NEW h \in All PROVE t \in Range(got'[h]) <=> t \in Range(got[h])
    <3>1. CASE h = cur[c]
      BY <1>1, <3>1
    <3>2. CASE h # cur[c]
      BY <3>2
    <3> QED
      BY <3>1, <3>2
  <2> QED
    BY <2>1, <2>2 DEF Unmoved
<1>2. ASSUME NEW t \in Threads, t = next PROVE <<"running", c>> \in Spots /\ Only(t, "running", c)'
  <2>1. Only(t, "queued", c) \/ Only(t, "stolen", old)
    BY <1>0, <1>2, Located DEF SchedIInv
  <2>2. ASSUME NEW d \in Cpus
        PROVE  /\ cur'[d] = t <=> d = c
               /\ t \notin Range(runq'[d]) /\ t \notin blocked'[d] /\ zombie'[d] # t /\ t \notin dead'[d]
    <3>1. CASE d = c
      <4>1. t \notin blocked[c] /\ zombie[c] # t /\ t \notin dead[c]
        BY <2>1 DEF Only
      <4> QED
        BY <1>2, <3>1, <4>1
    <3>2. CASE d # c
      <4>1. cur[d] # t /\ t \notin Range(runq[d]) /\ t \notin blocked[d] /\ zombie[d] # t /\ t \notin dead[d]
        BY <2>1, <3>2 DEF Only
      <4> QED
        BY <3>2, <4>1
    <3> QED
      BY <3>1, <3>2
  <2>3. ASSUME NEW h \in All PROVE t \notin Range(got'[h])
    <3>1. CASE h = old
      BY <1>2, <3>1
    <3>2. CASE h # old
      <4>1. t \notin Range(got[h])
        BY <2>1, <3>2 DEF Only
      <4> QED
        BY <3>2, <4>1
    <3> QED
      BY <3>1, <3>2
  <2>4. t \notin reaped'
    BY <2>1 DEF Only
  <2> QED
    BY <2>2, <2>3, <2>4, SpotsAre DEF Only
<1>3. ASSUME NEW t \in Threads, t = old PROVE <<k, c>> \in Spots /\ Only(t, k, c)'
  <2>1. Only(t, "running", c)
    BY <1>3, Located DEF SchedIInv
  <2>2. ASSUME NEW d \in Cpus
        PROVE  /\ cur'[d] # t /\ t \notin dead'[d]
               /\ t \in Range(runq'[d]) <=> k = "queued" /\ d = c
               /\ t \in blocked'[d] <=> k = "asleep" /\ d = c
               /\ zombie'[d] = t <=> k = "exiting" /\ d = c
    <3>1. t \notin Range(runq[d]) /\ t \notin blocked[d] /\ zombie[d] # t /\ t \notin dead[d]
      BY <2>1 DEF Only
    <3>2. CASE d = c
      BY <1>3, <3>1, <3>2
    <3>3. CASE d # c
      <4>1. cur[d] # t
        BY <2>1, <3>3 DEF Only
      <4> QED
        BY <3>1, <3>3, <4>1
    <3> QED
      BY <3>2, <3>3
  <2>3. ASSUME NEW h \in All PROVE t \notin Range(got'[h])
    <3>1. t \notin Range(got[h])
      BY <2>1 DEF Only
    <3> QED
      BY <3>1
  <2>4. t \notin reaped'
    BY <2>1 DEF Only
  <2>5. <<k, c>> \in Spots
    BY SpotsAre
  <2> QED
    BY <2>2, <2>3, <2>4, <2>5 DEF Only
<1>5. (\A d \in Cpus : IsInjective(runq'[d])) /\ \A h \in All : IsInjective(got'[h])
  OBVIOUS
<1> HIDE DEF old, Moves
<1>4. \A t \in Threads : Unmoved(t) \/ \E m, x : <<m, x>> \in Spots /\ Only(t, m, x)'
  BY <1>1, <1>2, <1>3
<1> QED
  BY <1>4, <1>5, PlacesMove DEF SchedIInv

\* The first thread of c's queue, or c's idle thread, and what is left.
LEMMA NextAndRest ==
    ASSUME SchedIInv, NEW c \in Cpus, cur[c] \in Threads
    PROVE  /\ NextOf(c) \in Threads \cup {Idle[c]} /\ NextOf(c) # cur[c]
           /\ NextOf(c) \in Threads => NextOf(c) \in Range(runq[c])
           /\ Rest(c) \in Seq(Threads) /\ IsInjective(Rest(c))
           /\ Range(Rest(c)) = Range(runq[c]) \ {NextOf(c)}
<1>1. runq[c] \in Seq(Threads) /\ IsInjective(runq[c])
  BY DEF SchedIInv, Shapes, OnePlace
<1>2. \A t \in Range(runq[c]) : t # cur[c]
  <2>1. Only(cur[c], "running", c)
    BY Located DEF SchedIInv
  <2> QED
    BY <2>1 DEF Only
<1>3. CASE runq[c] = << >>
  <2>1. Range(<< >>) = {} /\ IsInjective(<< >>) /\ << >> \in Seq(Threads)
    BY DEF Range, IsInjective
  <2> QED
    BY <1>3, <2>1, SchedAssumption DEF NextOf, Rest
<1>4. CASE runq[c] # << >>
  BY <1>1, <1>2, <1>4, TailQueue DEF NextOf, Rest
<1> QED
  BY <1>3, <1>4

\* The rest of the invariant after a switch that is no exit.
LEMMA SwitchKept ==
    ASSUME SchedIInv, NEW c \in Cpus, NEW next \in Threads \cup {Idle[c]},
           NEW why \in {"yield", "block"}, Switch(c, next, why), why = "block" => cur[c] \in Threads,
           OnePlace', \A d \in Cpus : HandOff(d)',
           runq' \in [Cpus -> Seq(Threads)], blocked' \in [Cpus -> SUBSET Threads],
           got' \in [All -> Seq(Threads)], UNCHANGED <<zombie, dead, reaped>>,
           space' = Entered(space, c, RootOf(next))
    PROVE  SchedIInv'
<1>1. /\ cur' \in [Cpus -> All]
      /\ \A d \in Cpus \ {c} : prev'[d] = prev[d]
      /\ cr3' = [d \in Cpus |-> RootOf(cur[d])'] /\ on' = on
      /\ phase' \in [Cpus -> Phases]
      /\ prev' \in [Cpus -> HandOffs] /\ prev'[c].term = (why = "exit")
      /\ busy' \in [Threads -> BOOLEAN]
  BY SwitchParts
<1>2. RootOf(next) \in Procs \cup {None} /\ space \in [Procs -> Spaces]
  BY SchedAssumption DEF RootOf, SchedIInv, Shapes
<1>3. /\ space' \in [Procs -> Spaces]
      /\ \A p \in Procs : space'[p].refs = space[p].refs /\ space'[p].state = space[p].state
  BY <1>2, EnteredSpace
<1>4. Shapes'
  BY <1>1, <1>3 DEF SchedIInv, Shapes
<1>5. ASSUME NEW p \in Procs PROVE Counted(p)'
  <2>1. Living(p)' = Living(p)
    BY LivingSame
  <2>2. Leaving(p)' \subseteq Leaving(p)
    BY <1>1 DEF Leaving
  <2> QED
    BY <1>3, <2>1, <2>2, CountedKept
<1> QED
  BY <1>4, <1>5 DEF SchedIInv

\* thread_yield to the CPU's own queue keeps the invariant.
LEMMA YieldLocalInv ==
    ASSUME SchedIInv, NEW c \in Cpus, YieldLocal(c)
    PROVE  SchedIInv'
<1> DEFINE old == cur[c]
           next == Head(runq[c])
           q == Tail(runq[c])
<1>1. /\ phase[c] # "switch" /\ runq[c] # << >> /\ runq' = [runq EXCEPT ![c] = Requeued(q, old)]
      /\ Switch(c, next, "yield") /\ space' = Entered(space, c, RootOf(next))
      /\ UNCHANGED <<blocked, zombie, dead, got, reaped>>
  BY DEF YieldLocal, CanYield
<1>2. /\ runq \in [Cpus -> Seq(Threads)] /\ got \in [All -> Seq(Threads)] /\ old \in All
      /\ blocked \in [Cpus -> SUBSET Threads] /\ IsInjective(runq[c]) /\ runq[c] \in Seq(Threads)
      /\ old \in Threads \cup {Idle[c]}
  BY DEF SchedIInv, Shapes, OnePlace, HandOff
<1>3. /\ q \in Seq(Threads) /\ IsInjective(q) /\ next \in Threads
      /\ next \in Range(runq[c]) /\ Range(q) = Range(runq[c]) \ {next}
  BY <1>1, <1>2, TailQueue
<1>4. /\ old \in Threads => old \notin Range(runq[c])
      /\ next \notin Range(got[old])
  <2>1. Only(next, "queued", c) /\ (old \in Threads => Only(old, "running", c))
    BY <1>2, <1>3, Located DEF SchedIInv
  <2> QED
    BY <1>2, <2>1 DEF Only
<1>5. next # old
  BY <1>2, <1>3, <1>4, SchedAssumption
<1> HIDE DEF old, next, q
<1>6. /\ Requeued(q, old) \in Seq(Threads) /\ IsInjective(Requeued(q, old))
      /\ Range(Requeued(q, old)) = (Range(runq[c]) \ {next}) \cup (IF old \in Threads THEN {old} ELSE {})
  <2>1. CASE old \in Threads
    BY <1>3, <1>4, <2>1, AppendQueue DEF Requeued
  <2>2. CASE old \notin Threads
    BY <1>3, <2>2 DEF Requeued
  <2> QED
    BY <2>1, <2>2
<1>7. /\ runq' \in [Cpus -> Seq(Threads)] /\ runq'[c] = Requeued(q, old)
      /\ \A d \in Cpus \ {c} : runq'[d] = runq[d]
  BY <1>1, <1>2, <1>6
<1>8. /\ cur'[c] = next
      /\ \A d \in Cpus \ {c} : cur'[d] = cur[d]
  BY <1>1, <1>3, SwitchParts
<1>9. OnePlace'
  <2>1. (\A d \in Cpus : IsInjective(runq'[d])) /\ \A h \in All : IsInjective(got'[h])
    BY <1>1, <1>6, <1>7 DEF SchedIInv, OnePlace
  <2>2. Range(got'[old]) = Range(got[old]) \ {next}
    BY <1>1, <1>4
  <2>3. Moves(c, next, "queued")
    BY <1>1, <1>3, <1>5, <1>6, <1>7, <1>8, <2>1, <2>2 DEF Moves, old
  <2> QED
    BY <2>3, SwitchPlaces
<1>10. \A d \in Cpus : HandOff(d)'
  <2>1. Near(c) \cap Threads \subseteq Near(c)' /\ (old \in Threads => old \in Near(c)' /\ Saves(c, "yield"))
    BY <1>1, <1>2, <1>3, <1>6, <1>7, <1>8 DEF Near, Saves, old
  <2>2. prev[c].ctx # None => prev[c].ctx \in Near(c)'
    <3>1. prev[c] \in HandOffs /\ HandOff(c)
      BY DEF SchedIInv, Shapes
    <3> QED
      BY <2>1, <3>1 DEF HandOff, HandOffs
  <2> QED
    BY <1>1, <1>3, <1>7, <2>1, <2>2, SwitchHandOff DEF old
<1> QED
  BY <1>1, <1>2, <1>3, <1>7, <1>9, <1>10, SwitchKept

\* So does the switch to a thread that was stolen, wherever its thief runs now.
LEMMA YieldStolenInv ==
    ASSUME SchedIInv, NEW c \in Cpus, YieldStolen(c)
    PROVE  SchedIInv'
<1> DEFINE old == cur[c]
           next == Last(got[cur[c]])
<1>1. /\ phase[c] # "switch" /\ got[old] # << >> /\ runq' = [runq EXCEPT ![c] = Requeued(runq[c], old)]
      /\ got' = [got EXCEPT ![old] = Front(got[old])]
      /\ Switch(c, next, "yield") /\ space' = Entered(space, c, RootOf(next))
      /\ UNCHANGED <<blocked, zombie, dead, reaped>>
  BY DEF YieldStolen, CanYield
<1>2. /\ runq \in [Cpus -> Seq(Threads)] /\ got \in [All -> Seq(Threads)] /\ old \in All
      /\ blocked \in [Cpus -> SUBSET Threads] /\ IsInjective(runq[c]) /\ runq[c] \in Seq(Threads)
      /\ IsInjective(got[old]) /\ got[old] \in Seq(Threads)
      /\ old \in Threads \cup {Idle[c]}
  BY DEF SchedIInv, Shapes, OnePlace, HandOff
<1>3. /\ Front(got[old]) \in Seq(Threads) /\ IsInjective(Front(got[old])) /\ next \in Threads
      /\ next \in Range(got[old]) /\ Range(Front(got[old])) = Range(got[old]) \ {next}
  BY <1>1, <1>2, FrontQueue
<1>4. /\ old \in Threads => old \notin Range(runq[c])
      /\ next \notin Range(runq[c]) /\ next # old
  <2>1. Only(next, "stolen", old) /\ (old \in Threads => Only(old, "running", c))
    BY <1>2, <1>3, Located DEF SchedIInv
  <2> QED
    BY <1>2, <2>1 DEF Only
<1> HIDE DEF old, next
<1>5. /\ Requeued(runq[c], old) \in Seq(Threads) /\ IsInjective(Requeued(runq[c], old))
      /\ Range(Requeued(runq[c], old)) = (Range(runq[c]) \ {next}) \cup (IF old \in Threads THEN {old} ELSE {})
  <2>1. CASE old \in Threads
    BY <1>2, <1>4, <2>1, AppendQueue DEF Requeued
  <2>2. CASE old \notin Threads
    BY <1>2, <1>4, <2>2 DEF Requeued
  <2> QED
    BY <2>1, <2>2
<1>6. /\ runq' \in [Cpus -> Seq(Threads)] /\ runq'[c] = Requeued(runq[c], old)
      /\ \A d \in Cpus \ {c} : runq'[d] = runq[d]
  BY <1>1, <1>2, <1>5
<1>7. /\ got' \in [All -> Seq(Threads)] /\ got'[old] = Front(got[old])
      /\ \A h \in All \ {old} : got'[h] = got[h]
  BY <1>1, <1>2, <1>3
<1>8. /\ cur'[c] = next
      /\ \A d \in Cpus \ {c} : cur'[d] = cur[d]
  BY <1>1, <1>3, SwitchParts
<1>9. OnePlace'
  <2>1. (\A d \in Cpus : IsInjective(runq'[d])) /\ \A h \in All : IsInjective(got'[h])
    BY <1>3, <1>5, <1>6, <1>7 DEF SchedIInv, OnePlace
  <2>2. Range(got'[old]) = Range(got[old]) \ {next}
    BY <1>3, <1>7
  <2>3. Moves(c, next, "queued")
    BY <1>1, <1>3, <1>4, <1>5, <1>6, <1>7, <1>8, <2>1, <2>2 DEF Moves, old
  <2> QED
    BY <2>3, SwitchPlaces
<1>10. \A d \in Cpus : HandOff(d)'
  <2>1. Near(c) \cap Threads \subseteq Near(c)' /\ (old \in Threads => old \in Near(c)' /\ Saves(c, "yield"))
    BY <1>1, <1>2, <1>3, <1>5, <1>6, <1>8 DEF Near, Saves, old
  <2>2. prev[c].ctx # None => prev[c].ctx \in Near(c)'
    <3>1. prev[c] \in HandOffs /\ HandOff(c)
      BY DEF SchedIInv, Shapes
    <3> QED
      BY <2>1, <3>1 DEF HandOff, HandOffs
  <2> QED
    BY <1>1, <1>3, <1>6, <2>1, <2>2, SwitchHandOff DEF old
<1> QED
  BY <1>1, <1>2, <1>3, <1>6, <1>7, <1>9, <1>10, SwitchKept

\* The facts a thread that stops running has: it runs on this CPU with no
\* switch pending and nothing stolen.
LEMMA ActsFacts ==
    ASSUME SchedIInv, NEW c \in Cpus, Acts(c)
    PROVE  /\ phase[c] = "run" /\ cur[c] \in Threads /\ Range(got[cur[c]]) = {}
           /\ prev[c] = NoPrev /\ prev[c].ctx = None /\ prev[c].term = FALSE /\ zombie[c] = None
           /\ Only(cur[c], "running", c)
<1>1. /\ phase[c] = "run" /\ cur[c] \in Threads /\ got[cur[c]] = << >>
      /\ prev[c] = NoPrev /\ zombie[c] = None
  BY DEF Acts, SchedIInv, HandOff
<1>2. NoPrev.ctx = None /\ NoPrev.term = FALSE
  BY DEF NoPrev
<1>3. Range(got[cur[c]]) = {}
  BY <1>1 DEF Range
<1>4. Only(cur[c], "running", c)
  BY <1>1, Located DEF SchedIInv
<1> QED
  BY <1>1, <1>2, <1>3, <1>4

\* sched_wait_event's sleep keeps the invariant.
LEMMA BlockInv ==
    ASSUME SchedIInv, NEW c \in Cpus, Block(c)
    PROVE  SchedIInv'
<1> DEFINE old == cur[c]
           next == NextOf(c)
<1>1. /\ Acts(c) /\ blocked' = [blocked EXCEPT ![c] = @ \cup {old}]
      /\ runq' = [runq EXCEPT ![c] = Rest(c)]
      /\ Switch(c, next, "block") /\ space' = Entered(space, c, RootOf(next))
      /\ UNCHANGED <<zombie, dead, got, reaped>>
  BY DEF Block
<1>2. /\ phase[c] = "run" /\ old \in Threads /\ Range(got[old]) = {} /\ prev[c].ctx = None
  BY <1>1, ActsFacts
<1>3. /\ next \in Threads \cup {Idle[c]} /\ next # old
      /\ next \in Threads => next \in Range(runq[c])
      /\ Rest(c) \in Seq(Threads) /\ IsInjective(Rest(c))
      /\ Range(Rest(c)) = Range(runq[c]) \ {next}
  BY <1>2, NextAndRest
<1> HIDE DEF old, next
<1>4. /\ runq' \in [Cpus -> Seq(Threads)] /\ blocked' \in [Cpus -> SUBSET Threads]
      /\ got' \in [All -> Seq(Threads)] /\ runq'[c] = Rest(c) /\ blocked'[c] = blocked[c] \cup {old}
      /\ \A d \in Cpus \ {c} : runq'[d] = runq[d] /\ blocked'[d] = blocked[d]
  BY <1>1, <1>2, <1>3 DEF SchedIInv, Shapes
<1>5. /\ cur'[c] = next
      /\ \A d \in Cpus \ {c} : cur'[d] = cur[d]
  BY <1>1, <1>2, <1>3, SwitchParts DEF old
<1>6. OnePlace'
  <2>1. (\A d \in Cpus : IsInjective(runq'[d])) /\ \A h \in All : IsInjective(got'[h])
    BY <1>1, <1>3, <1>4 DEF SchedIInv, OnePlace
  <2>2. Range(got'[old]) = Range(got[old]) \ {next}
    BY <1>1, <1>2
  <2>3. Moves(c, next, "asleep")
    BY <1>1, <1>3, <1>4, <1>5, <2>1, <2>2 DEF Moves, old
  <2> QED
    BY <2>3, SwitchPlaces
<1>7. \A d \in Cpus : HandOff(d)'
  <2>1. old \in Near(c)' /\ Saves(c, "block")
    BY <1>4 DEF Near, Saves
  <2> QED
    BY <1>1, <1>2, <1>3, <1>4, <2>1, SwitchHandOff DEF old
<1> QED
  BY <1>1, <1>2, <1>3, <1>4, <1>6, <1>7, SwitchKept DEF old

\* The references of every space after an exit: the exiting thread's passes to
\* the hand-off of its CPU.
LEMMA ExitCounted ==
    ASSUME SchedIInv, NEW c \in Cpus, NEW p \in Procs, cur[c] \in Threads,
           Only(cur[c], "running", c), zombie[c] = None, prev[c].term = FALSE,
           zombie'[c] = cur[c], \A d \in Cpus \ {c} : zombie'[d] = zombie[d],
           prev'[c].term = TRUE, prev'[c].root = RootOf(cur[c]),
           \A d \in Cpus \ {c} : prev'[d] = prev[d], UNCHANGED <<dead, reaped>>,
           space'[p].refs = space[p].refs, space'[p].state = "dead" => space[p].state = "dead"
    PROVE  Counted(p)'
<1>0. PICK t \in Threads : t = cur[c]
  OBVIOUS
<1>1. Alive(t)
  BY <1>0 DEF Only, Alive
<1>2. ~Alive(t)' /\ \A u \in Threads \ {t} : Alive(u)' <=> Alive(u)
  BY <1>0, SchedAssumption DEF Alive
<1>3. Living(p)' = Living(p) \ {t}
  BY <1>2 DEF Living, Members
<1>4. CASE ProcOf[t] # p
  <2>1. Leaving(p)' \subseteq Leaving(p)
    BY <1>0, <1>4 DEF Leaving, RootOf
  <2> QED
    BY <1>3, <2>1, CountedKept
<1>5. CASE ProcOf[t] = p
  <2> DEFINE L == Living(p)
             G == Leaving(p)
  <2>1. t \in L /\ c \notin G /\ Leaving(p)' = G \cup {c}
    BY <1>0, <1>1, <1>5 DEF Living, Members, Leaving, RootOf
  <2>2. /\ IsFiniteSet(L) /\ IsFiniteSet(G) /\ Cardinality(L) \in Nat /\ Cardinality(G) \in Nat
    BY CoveredFinite
  <2>3. /\ Cardinality(L) + Cardinality(G) <= space[p].refs
        /\ space[p].state = "dead" => L = {}
        /\ space[p].refs \in Nat
    BY DEF SchedIInv, Shapes, Counted, Spaces
  <2>4. Living(p)' = L \ {t}
    BY <1>3
  <2>5. space'[p].refs = space[p].refs /\ (space'[p].state = "dead" => space[p].state = "dead")
    OBVIOUS
  <2> HIDE DEF L, G
  <2>6. Cardinality(L \ {t}) = Cardinality(L) - 1
    BY <2>1, <2>2, FS_RemoveElement
  <2>7. Cardinality(G \cup {c}) = Cardinality(G) + 1
    BY <2>1, <2>2, FS_AddElement
  <2>8. Cardinality(L \ {t}) + Cardinality(G \cup {c}) <= space'[p].refs
    BY <2>2, <2>3, <2>5, <2>6, <2>7
  <2> QED
    BY <2>1, <2>3, <2>4, <2>5, <2>8 DEF Counted
<1> QED
  BY <1>4, <1>5

\* thread_exit keeps the invariant.
LEMMA ExitInv ==
    ASSUME SchedIInv, NEW c \in Cpus, Exit(c)
    PROVE  SchedIInv'
<1> DEFINE old == cur[c]
           next == NextOf(c)
           p == ProcOf[cur[c]]
           last == p # None /\ group[p].threads = 1
           retired == IF last /\ space[p].state # "dead"
                      THEN [space EXCEPT ![p].state = "dying"] ELSE space
<1>1. /\ Acts(c) /\ zombie' = [zombie EXCEPT ![c] = old]
      /\ runq' = [runq EXCEPT ![c] = Rest(c)]
      /\ Switch(c, next, "exit") /\ space' = Entered(retired, c, RootOf(next))
      /\ UNCHANGED <<dead, blocked, got, reaped>>
  BY DEF Exit, Stash
<1>2. /\ phase[c] = "run" /\ old \in Threads /\ Range(got[old]) = {} /\ prev[c].ctx = None
      /\ prev[c].term = FALSE /\ zombie[c] = None /\ Only(old, "running", c)
  BY <1>1, ActsFacts
<1>3. /\ next \in Threads \cup {Idle[c]} /\ next # old
      /\ next \in Threads => next \in Range(runq[c])
      /\ Rest(c) \in Seq(Threads) /\ IsInjective(Rest(c))
      /\ Range(Rest(c)) = Range(runq[c]) \ {next}
  BY <1>2, NextAndRest
<1>4. /\ retired \in [Procs -> Spaces]
      /\ \A q \in Procs : /\ retired[q].refs = space[q].refs
                          /\ retired[q].state = "dead" => space[q].state = "dead"
  <2>1. space \in [Procs -> Spaces] /\ p \in Procs \cup {None}
    BY <1>2, SchedAssumption DEF SchedIInv, Shapes
  <2>2. CASE retired = space
    BY <2>1, <2>2
  <2>3. CASE p \in Procs /\ retired = [space EXCEPT ![p].state = "dying"]
    <3> HIDE DEF p, retired
    <3> DEFINE n == [space[p] EXCEPT !.state = "dying"]
    <3>1. space[p] \in Spaces
      BY <2>1, <2>3
    <3>2. n \in Spaces /\ n.refs = space[p].refs /\ n.state = "dying"
      BY <3>1 DEF Spaces
    <3>3. retired = [space EXCEPT ![p] = n]
      BY <2>3
    <3> HIDE DEF n
    <3> QED
      BY <2>1, <2>3, <3>2, <3>3
  <2> QED
    BY <2>1, <2>2, <2>3
<1> HIDE DEF old, next, p, last, retired
<1>5. RootOf(next) \in Procs \cup {None}
  BY SchedAssumption DEF RootOf
<1>6. /\ space' \in [Procs -> Spaces]
      /\ \A q \in Procs : /\ space'[q].refs = space[q].refs
                          /\ space'[q].state = "dead" => space[q].state = "dead"
  <2>1. /\ space' \in [Procs -> Spaces]
        /\ \A q \in Procs : space'[q].refs = retired[q].refs /\ space'[q].state = retired[q].state
    BY <1>1, <1>4, <1>5, EnteredSpace
  <2> QED
    BY <1>4, <2>1
<1>7. /\ runq' \in [Cpus -> Seq(Threads)] /\ runq'[c] = Rest(c)
      /\ zombie' \in [Cpus -> Threads \cup {None}] /\ zombie'[c] = old
      /\ \A d \in Cpus \ {c} : runq'[d] = runq[d] /\ zombie'[d] = zombie[d]
  BY <1>1, <1>2, <1>3 DEF SchedIInv, Shapes
<1>8. /\ cur' \in [Cpus -> All] /\ cur'[c] = next
      /\ \A d \in Cpus \ {c} : cur'[d] = cur[d] /\ prev'[d] = prev[d]
      /\ cr3' = [d \in Cpus |-> RootOf(cur[d])'] /\ on' = on
      /\ phase' \in [Cpus -> Phases]
      /\ prev' \in [Cpus -> HandOffs] /\ prev'[c].term = TRUE /\ prev'[c].root = RootOf(old)
      /\ busy' \in [Threads -> BOOLEAN]
  BY <1>1, <1>3, SwitchParts DEF old
<1>9. OnePlace'
  <2>1. (\A d \in Cpus : IsInjective(runq'[d])) /\ \A h \in All : IsInjective(got'[h])
    BY <1>1, <1>3, <1>7 DEF SchedIInv, OnePlace
  <2>2. Range(got'[old]) = Range(got[old]) \ {next}
    BY <1>1, <1>2
  <2>3. Moves(c, next, "exiting")
    BY <1>1, <1>2, <1>3, <1>7, <1>8, <2>1, <2>2 DEF Moves, old
  <2> QED
    BY <2>3, SwitchPlaces
<1>10. \A d \in Cpus : HandOff(d)'
  <2>1. \A d \in Cpus \ {c} : blocked'[d] = blocked[d]
    BY <1>1
  <2> QED
    BY <1>1, <1>2, <1>3, <1>7, <2>1, SwitchHandOff DEF old
<1>11. Shapes'
  BY <1>1, <1>6, <1>7, <1>8 DEF SchedIInv, Shapes
<1>12. ASSUME NEW q \in Procs PROVE Counted(q)'
  <2>1. UNCHANGED <<dead, reaped>>
    BY <1>1
  <2>2. space'[q].refs = space[q].refs /\ (space'[q].state = "dead" => space[q].state = "dead")
    BY <1>6
  <2>3. \A d \in Cpus \ {c} : zombie'[d] = zombie[d] /\ prev'[d] = prev[d]
    BY <1>7, <1>8
  <2> QED
    BY <1>2, <1>7, <1>8, <2>1, <2>2, <2>3, ExitCounted DEF old
<1> QED
  BY <1>9, <1>10, <1>11, <1>12 DEF SchedIInv

-----------------------------------------------------------------------------
(* One lemma per step: what one CPU does to another's queues               *)

\* A thread that a thief may take: queued at the victim with its context saved.
LEMMA StealFacts ==
    ASSUME SchedIInv, NEW v \in Cpus, NEW i \in Stealable(v)
    PROVE  /\ i \in DOMAIN runq[v] /\ runq[v][i] \in Threads /\ ~busy[runq[v][i]]
           /\ RemoveAt(runq[v], i) \in Seq(Threads) /\ IsInjective(RemoveAt(runq[v], i))
           /\ runq[v][i] \in Range(runq[v])
           /\ Range(RemoveAt(runq[v], i)) = Range(runq[v]) \ {runq[v][i]}
<1>1. i \in DOMAIN runq[v] /\ ~busy[runq[v][i]] /\ runq[v] \in Seq(Threads) /\ IsInjective(runq[v])
  BY DEF Stealable, SchedIInv, Shapes, OnePlace
<1> QED
  BY <1>1, RemoveQueue

\* A set of naturals that is not empty has a least element.
LEMMA NatMin ==
    ASSUME NEW D, D \subseteq Nat, D # {}
    PROVE  \E m \in D : \A k \in D : m <= k
<1> DEFINE R == {ss \in Nat \X Nat : ss[1] < ss[2]}
<1>1. IsWellFoundedOn(R, Nat)
  BY NatLessThanWellFounded DEF OpToRel
<1>2. \A i, j \in Nat : <<i, j>> \in R <=> i < j
  OBVIOUS
<1> HIDE DEF R
<1>3. PICK m \in D : \A k \in D : ~(<<k, m>> \in R)
  BY <1>1, WFMin
<1>4. ASSUME NEW k \in D PROVE m <= k
  <2>1. ~(k < m) /\ k \in Nat /\ m \in Nat
    BY <1>2, <1>3
  <2> QED
    BY <2>1
<1> QED
  BY <1>4

\* The candidates have a last one.
LEMMA LastStealable ==
    ASSUME SchedIInv, NEW v \in Cpus, Stealable(v) # {}
    PROVE  (CHOOSE i \in Stealable(v) : \A j \in Stealable(v) : j <= i) \in Stealable(v)
<1> DEFINE S == Stealable(v)
           n == Len(runq[v])
<1>1. n \in Nat /\ S \subseteq 1 .. n
  <2>1. runq[v] \in Seq(Threads)
    BY DEF SchedIInv, Shapes
  <2> QED
    BY <2>1 DEF Stealable
<1>2. \E i \in S : \A j \in S : j <= i
  <2> DEFINE D == {n - i : i \in S}
  <2>1. D \subseteq Nat /\ D # {}
    BY <1>1
  <2>2. PICK m \in D : \A k \in D : m <= k
    <3> HIDE DEF D
    <3> QED
      BY <2>1, NatMin
  <2>3. PICK i \in S : m = n - i
    OBVIOUS
  <2>4. \A j \in S : n - i <= n - j
    BY <2>2, <2>3
  <2> HIDE DEF S, n, D
  <2>5. ASSUME NEW j \in S PROVE j <= i
    <3>1. i \in Int /\ j \in Int /\ n \in Int /\ n - i <= n - j
      BY <1>1, <2>4
    <3> QED
      BY <3>1
  <2> QED
    BY <2>5
<1> QED
  BY <1>2, Zenon

\* A step that only moves threads between queues, the busy ones staying near
\* the CPU that saves them.
LEMMA QueuesMoved ==
    ASSUME SchedIInv, UNCHANGED <<cpu, zombie, dead, busy, reaped, space>>, OnePlace',
           runq' \in [Cpus -> Seq(Threads)], blocked' \in [Cpus -> SUBSET Threads],
           got' \in [All -> Seq(Threads)],
           \A d \in Cpus : prev[d].ctx # None => prev[d].ctx \in Near(d)'
    PROVE  SchedIInv'
<1> USE DEF cpu
<1>1. Shapes'
  BY DEF SchedIInv, Shapes, RootOf
<1>2. ASSUME NEW d \in Cpus PROVE HandOff(d)'
  <2>1. HandOff(d)
    BY DEF SchedIInv
  <2>2. prev[d].ctx # None => busy'[prev[d].ctx] /\ prev[d].ctx \in Near(d)'
    BY <2>1 DEF HandOff
  <2> QED
    BY <2>1, <2>2, HandOffStill
<1>3. ASSUME NEW p \in Procs PROVE Counted(p)'
  <2>1. Living(p)' = Living(p) /\ Leaving(p)' = Leaving(p)
    BY LivingSame DEF Leaving
  <2> QED
    BY <2>1, CountedKept
<1> QED
  BY <1>1, <1>2, <1>3 DEF SchedIInv

\* sched_steal_work keeps the invariant: a busy thread stays with the CPU that
\* has still to save it.
LEMMA YieldStealInv ==
    ASSUME SchedIInv, NEW c \in Cpus, NEW v \in Cpus, YieldSteal(c, v)
    PROVE  SchedIInv'
<1>1. PICK i \in Stealable(v) :
        /\ got' = [got EXCEPT ![cur[c]] = Append(@, runq[v][i])]
        /\ runq' = [runq EXCEPT ![v] = RemoveAt(@, i)]
  BY LastStealable DEF YieldSteal
<1>2. UNCHANGED <<cpu, blocked, zombie, dead, busy, reaped, space>>
  BY DEF YieldSteal
<1>3. PICK x \in Threads : x = runq[v][i]
  BY StealFacts
<1>4. PICK g \in All : g = cur[c]
  BY DEF SchedIInv, Shapes
<1>5. /\ ~busy[x] /\ RemoveAt(runq[v], i) \in Seq(Threads) /\ IsInjective(RemoveAt(runq[v], i))
      /\ x \in Range(runq[v]) /\ Range(RemoveAt(runq[v], i)) = Range(runq[v]) \ {x}
  BY <1>3, StealFacts
<1>6. Only(x, "queued", v)
  BY <1>5, Located DEF SchedIInv
<1>7. /\ runq' \in [Cpus -> Seq(Threads)] /\ IsInjective(runq'[v]) /\ Range(runq'[v]) = Range(runq[v]) \ {x}
      /\ \A d \in Cpus \ {v} : runq'[d] = runq[d]
  <2>1. runq \in [Cpus -> Seq(Threads)]
    BY DEF SchedIInv, Shapes
  <2> QED
    BY <1>1, <1>5, <2>1
<1>8. /\ got' \in [All -> Seq(Threads)] /\ IsInjective(got'[g]) /\ Range(got'[g]) = Range(got[g]) \cup {x}
      /\ \A h \in All \ {g} : got'[h] = got[h]
  <2>1. got \in [All -> Seq(Threads)] /\ IsInjective(got[g]) /\ x \notin Range(got[g])
    BY <1>6 DEF SchedIInv, Shapes, OnePlace, Only
  <2>2. /\ Append(got[g], x) \in Seq(Threads) /\ IsInjective(Append(got[g], x))
        /\ Range(Append(got[g], x)) = Range(got[g]) \cup {x}
    BY <2>1, AppendQueue
  <2>3. got' = [got EXCEPT ![g] = Append(got[g], x)]
    BY <1>1, <1>3, <1>4
  <2> QED
    BY <2>1, <2>2, <2>3
<1>9. OnePlace'
  <2>1. ASSUME NEW t \in Threads, t # x PROVE Unmoved(t)
    <3>1. \A d \in Cpus : t \in Range(runq'[d]) <=> t \in Range(runq[d])
      BY <1>7, <2>1
    <3>2. \A h \in All : t \in Range(got'[h]) <=> t \in Range(got[h])
      BY <1>8, <2>1
    <3> QED
      BY <1>2, <3>1, <3>2 DEF Unmoved, cpu
  <2>2. <<"stolen", g>> \in Spots /\ Only(x, "stolen", g)'
    <3>1. \A d \in Cpus : /\ cur'[d] # x /\ x \notin blocked'[d] /\ zombie'[d] # x /\ x \notin dead'[d]
      BY <1>2, <1>6 DEF Only, cpu
    <3>2. x \notin reaped'
      BY <1>2, <1>6 DEF Only
    <3>3. \A d \in Cpus : x \notin Range(runq'[d])
      BY <1>6, <1>7 DEF Only
    <3>4. \A h \in All : x \in Range(got'[h]) <=> h = g
      BY <1>6, <1>8 DEF Only
    <3> QED
      BY <3>1, <3>2, <3>3, <3>4, SpotsAre DEF Only
  <2>3. (\A d \in Cpus : IsInjective(runq'[d])) /\ \A h \in All : IsInjective(got'[h])
    BY <1>7, <1>8 DEF SchedIInv, OnePlace
  <2> QED
    BY <2>1, <2>2, <2>3, PlacesMove DEF SchedIInv
<1>10. ASSUME NEW d \in Cpus, prev[d].ctx # None PROVE prev[d].ctx \in Near(d)'
  <2>1. busy[prev[d].ctx] /\ prev[d].ctx \in Near(d)
    BY <1>10 DEF SchedIInv, HandOff
  <2>2. prev[d].ctx # x
    BY <1>5, <2>1
  <2> QED
    BY <1>2, <1>7, <2>1, <2>2 DEF Near, cpu
<1>11. blocked' \in [Cpus -> SUBSET Threads]
  BY <1>2 DEF SchedIInv, Shapes
<1> QED
  BY <1>2, <1>7, <1>8, <1>9, <1>10, <1>11, QueuesMoved

\* A wake-up keeps the invariant: the thread stays with the CPU it slept on.
LEMMA WakeInv ==
    ASSUME SchedIInv, NEW c \in Cpus, NEW x \in Threads, Wake(c, x)
    PROVE  SchedIInv'
<1>1. /\ x \in blocked[c] /\ blocked' = [blocked EXCEPT ![c] = @ \ {x}]
      /\ runq' = [runq EXCEPT ![c] = Append(@, x)]
      /\ UNCHANGED <<cpu, zombie, dead, busy, got, reaped, space>>
  BY DEF Wake
<1>2. Only(x, "asleep", c)
  BY <1>1, Located DEF SchedIInv
<1>3. /\ runq' \in [Cpus -> Seq(Threads)] /\ IsInjective(runq'[c]) /\ Range(runq'[c]) = Range(runq[c]) \cup {x}
      /\ \A d \in Cpus \ {c} : runq'[d] = runq[d]
  <2>1. runq \in [Cpus -> Seq(Threads)] /\ IsInjective(runq[c]) /\ x \notin Range(runq[c])
    BY <1>2 DEF SchedIInv, Shapes, OnePlace, Only
  <2>2. /\ Append(runq[c], x) \in Seq(Threads) /\ IsInjective(Append(runq[c], x))
        /\ Range(Append(runq[c], x)) = Range(runq[c]) \cup {x}
    BY <2>1, AppendQueue
  <2> QED
    BY <1>1, <2>1, <2>2
<1>4. /\ blocked' \in [Cpus -> SUBSET Threads] /\ blocked'[c] = blocked[c] \ {x}
      /\ \A d \in Cpus \ {c} : blocked'[d] = blocked[d]
  BY <1>1 DEF SchedIInv, Shapes
<1>5. got' \in [All -> Seq(Threads)]
  BY <1>1 DEF SchedIInv, Shapes
<1>6. OnePlace'
  <2>1. ASSUME NEW t \in Threads, t # x PROVE Unmoved(t)
    <3>1. \A d \in Cpus : /\ t \in Range(runq'[d]) <=> t \in Range(runq[d])
                          /\ t \in blocked'[d] <=> t \in blocked[d]
      BY <1>3, <1>4, <2>1
    <3> QED
      BY <1>1, <3>1 DEF Unmoved, cpu
  <2>2. <<"queued", c>> \in Spots /\ Only(x, "queued", c)'
    <3>1. \A d \in Cpus : cur'[d] # x /\ zombie'[d] # x /\ x \notin dead'[d]
      BY <1>1, <1>2 DEF Only, cpu
    <3>2. x \notin reaped' /\ \A h \in All : x \notin Range(got'[h])
      BY <1>1, <1>2 DEF Only
    <3>3. \A d \in Cpus : (x \in Range(runq'[d]) <=> d = c) /\ x \notin blocked'[d]
      BY <1>2, <1>3, <1>4 DEF Only
    <3> QED
      BY <3>1, <3>2, <3>3, SpotsAre DEF Only
  <2>3. (\A d \in Cpus : IsInjective(runq'[d])) /\ \A h \in All : IsInjective(got'[h])
    BY <1>1, <1>3 DEF SchedIInv, OnePlace
  <2> QED
    BY <2>1, <2>2, <2>3, PlacesMove DEF SchedIInv
<1>7. ASSUME NEW d \in Cpus, prev[d].ctx # None PROVE prev[d].ctx \in Near(d)'
  <2>1. prev[d].ctx \in Near(d)
    BY <1>7 DEF SchedIInv, HandOff
  <2> QED
    BY <1>1, <1>3, <1>4, <2>1 DEF Near, cpu
<1> QED
  BY <1>1, <1>3, <1>4, <1>5, <1>6, <1>7, QueuesMoved

\* sched_reap_dead keeps the invariant: the thread is off every stack, and a
\* space goes only with its last reference.
LEMMA ReapInv ==
    ASSUME SchedIInv, NEW c \in Cpus, NEW d \in Cpus, NEW x \in Threads, Reap(c, d, x)
    PROVE  SchedIInv'
<1> DEFINE p == ProcOf[x]
           freed == IF p # None /\ group[p].refs = 1 THEN [space EXCEPT ![p] = Destroyed(@)] ELSE space
<1>1. /\ x \in dead[d] /\ dead' = [dead EXCEPT ![d] = @ \ {x}] /\ reaped' = reaped \cup {x}
      /\ UNCHANGED <<cpu, runq, blocked, zombie, busy, got>> /\ space' = Drained(freed)
  BY DEF Reap
<1>2. Only(x, "dead", d)
  BY <1>1, Located DEF SchedIInv
<1>3. /\ freed \in [Procs -> Spaces]
      /\ \A q \in Procs : /\ freed[q].refs = space[q].refs
                          /\ freed[q].state = "dead" => space[q].state = "dead" \/ space[q].refs = 0
  <2>1. space \in [Procs -> Spaces] /\ p \in Procs \cup {None}
    BY SchedAssumption DEF SchedIInv, Shapes
  <2>2. CASE freed = space
    BY <2>1, <2>2
  <2>3. CASE p \in Procs /\ freed = [space EXCEPT ![p] = Destroyed(space[p])]
    <3> HIDE DEF p, freed
    <3>1. /\ Destroyed(space[p]) \in Spaces /\ Destroyed(space[p]).refs = space[p].refs
          /\ Destroyed(space[p]).state = "dead" => space[p].refs = 0
      BY <2>1, <2>3, DestroyedSpace
    <3> QED
      BY <2>1, <2>3, <3>1
  <2> QED
    BY <2>1, <2>2, <2>3
<1> HIDE DEF p, freed
<1>4. /\ space' \in [Procs -> Spaces]
      /\ \A q \in Procs : /\ space'[q].refs = space[q].refs
                          /\ space'[q].state = "dead" => space[q].state = "dead" \/ space[q].refs = 0
  <2>1. /\ space' \in [Procs -> Spaces]
        /\ \A q \in Procs : /\ space'[q].refs = freed[q].refs
                            /\ space'[q].state = "dead" => freed[q].state = "dead" \/ freed[q].refs = 0
    BY <1>1, <1>3, DrainedSpace
  <2> QED
    BY <1>3, <2>1
<1>5. /\ dead' \in [Cpus -> SUBSET Threads] /\ dead'[d] = dead[d] \ {x} /\ reaped' \subseteq Threads
      /\ \A e \in Cpus \ {d} : dead'[e] = dead[e]
  BY <1>1 DEF SchedIInv, Shapes
<1>6. Shapes'
  BY <1>1, <1>4, <1>5 DEF SchedIInv, Shapes, RootOf, cpu
<1>7. OnePlace'
  <2>1. ASSUME NEW t \in Threads, t # x PROVE Unmoved(t)
    <3>1. \A e \in Cpus : t \in dead'[e] <=> t \in dead[e]
      BY <1>5, <2>1
    <3>2. t \in reaped' <=> t \in reaped
      BY <1>1, <2>1
    <3> QED
      BY <1>1, <3>1, <3>2 DEF Unmoved, cpu
  <2>2. <<"reaped", None>> \in Spots /\ Only(x, "reaped", None)'
    <3>1. \A e \in Cpus : /\ cur'[e] # x /\ x \notin Range(runq'[e]) /\ x \notin blocked'[e]
                          /\ zombie'[e] # x
      BY <1>1, <1>2 DEF Only, cpu
    <3>2. \A h \in All : x \notin Range(got'[h])
      BY <1>1, <1>2 DEF Only
    <3>3. \A e \in Cpus : x \notin dead'[e]
      BY <1>2, <1>5 DEF Only
    <3>4. x \in reaped'
      BY <1>1
    <3> QED
      BY <3>1, <3>2, <3>3, <3>4, SpotsAre DEF Only
  <2>3. (\A e \in Cpus : IsInjective(runq'[e])) /\ \A h \in All : IsInjective(got'[h])
    BY <1>1 DEF SchedIInv, OnePlace
  <2> QED
    BY <2>1, <2>2, <2>3, PlacesMove DEF SchedIInv
<1>8. ASSUME NEW e \in Cpus PROVE HandOff(e)'
  <2>1. HandOff(e) /\ Near(e)' = Near(e)
    BY <1>1 DEF SchedIInv, Near, cpu
  <2>2. prev[e].ctx # None => busy'[prev[e].ctx] /\ prev[e].ctx \in Near(e)'
    BY <1>1, <2>1 DEF HandOff
  <2> QED
    BY <1>1, <2>1, <2>2, HandOffStill DEF cpu
<1>9. ASSUME NEW q \in Procs PROVE Counted(q)'
  <2>1. \A t \in Threads : Alive(t)' => Alive(t)
    <3> SUFFICES ASSUME NEW t \in Threads, ~Alive(t) PROVE ~Alive(t)'
      OBVIOUS
    <3>1. PICK e \in Cpus : t = zombie[e] \/ t \in dead[e] \cup reaped
      BY DEF Alive
    <3>2. t = zombie'[e] \/ t \in dead'[e] \cup reaped'
      BY <1>1, <1>5, <3>1
    <3> QED
      BY <3>2 DEF Alive
  <2>2. Living(q)' \subseteq Living(q)
    BY <2>1 DEF Living, Members
  <2>3. Leaving(q)' = Leaving(q)
    BY <1>1 DEF Leaving, cpu
  <2> QED
    BY <1>4, <2>2, <2>3, CountedKept
<1> QED
  BY <1>6, <1>7, <1>8, <1>9 DEF SchedIInv

-----------------------------------------------------------------------------
(* The theorems                                                            *)

\* SetToSeq lists a finite set, each element once.
LEMMA ListedOnce ==
    ASSUME NEW S, IsFiniteSet(S)
    PROVE  SetToSeq(S) \in Seq(S) /\ IsInjective(SetToSeq(S)) /\ Range(SetToSeq(S)) = S
<1> DEFINE n == Cardinality(S)
           f == SetToSeq(S)
<1>1. n \in Nat /\ ExistsBijection(1 .. n, S)
  BY FS_CardinalityType
<1>2. \E g \in [1 .. n -> S] : IsInjective(g)
  BY <1>1 DEF ExistsBijection, Bijection, Injection
<1>3. f \in [1 .. n -> S] /\ IsInjective(f)
  BY <1>2, Zenon DEF SetToSeq
<1> HIDE DEF n, f
<1>4. f \in Seq(S)
  BY <1>1, <1>3
<1>5. f \in Injection(1 .. n, S)
  BY <1>3 DEF Injection
<1>6. Cardinality(1 .. n) = n
  BY <1>1, FS_Interval
<1>7. f \in Surjection(1 .. n, S)
  BY <1>5, <1>6, FS_Injection DEF n
<1>8. Range(f) = S
  BY <1>3, <1>7 DEF Surjection, Range
<1> QED
  BY <1>3, <1>4, <1>8 DEF f

\* The queues at boot.
LEMMA InitQueues ==
    ASSUME Init, NEW c \in Cpus
    PROVE  /\ runq[c] \in Seq(Threads) /\ IsInjective(runq[c])
           /\ Range(runq[c]) = {t \in Threads \ {Main} : Home[t] = c}
<1> DEFINE S == {t \in Threads \ {Main} : Home[t] = c}
<1>1. IsFiniteSet(S) /\ S \subseteq Threads
  BY FS_Subset, SchedAssumption
<1>2. runq[c] = SetToSeq(S)
  BY DEF Init
<1> HIDE DEF S
<1>3. runq[c] \in Seq(S) /\ IsInjective(runq[c]) /\ Range(runq[c]) = S
  BY <1>1, <1>2, ListedOnce
<1>4. runq[c] \in Seq(Threads)
  BY <1>1, <1>3
<1> QED
  BY <1>3, <1>4 DEF S

\* The initial state satisfies the invariant.
LEMMA SchedInitInv ==
    ASSUME Init
    PROVE  SchedIInv
<1>1. /\ \A c \in Cpus : /\ cur[c] = IF c = Bsp THEN Main ELSE Idle[c]
                         /\ on[c] = cur[c] /\ phase[c] = "run" /\ prev[c] = NoPrev
                         /\ blocked[c] = {} /\ zombie[c] = None /\ dead[c] = {}
      /\ \A h \in All : got[h] = << >>
      /\ reaped = {}
  BY DEF Init
<1>2. \A c \in Cpus : /\ runq[c] \in Seq(Threads) /\ IsInjective(runq[c])
                      /\ Range(runq[c]) = {t \in Threads \ {Main} : Home[t] = c}
  BY InitQueues
<1>3. \A h \in All : Range(got[h]) = {} /\ IsInjective(got[h])
  BY <1>1 DEF Range, IsInjective
<1>4. \A p \in Procs : IsFiniteSet(Members(p)) /\ Cardinality(Members(p)) \in Nat
  <2>1. \A p \in Procs : Members(p) \subseteq Threads
    BY DEF Members
  <2> QED
    BY <2>1, FS_Subset, FS_CardinalityType, SchedAssumption
<1>5. NoPrev \in HandOffs /\ NoPrev.ctx = None /\ NoPrev.term = FALSE
  BY DEF NoPrev, HandOffs
<1>6. Shapes
  <2>1. \A c \in Cpus : cur[c] \in All /\ RootOf(cur[c]) = None
    BY <1>1, SchedAssumption DEF All, RootOf
  <2>2. cur \in [Cpus -> All] /\ on \in [Cpus -> All] /\ cr3 = [c \in Cpus |-> RootOf(cur[c])]
    <3>1. cur = [c \in Cpus |-> cur[c]] /\ on = cur /\ cr3 = [c \in Cpus |-> None]
      BY DEF Init
    <3> QED
      BY <2>1, <3>1
  <2>3. runq \in [Cpus -> Seq(Threads)]
    <3>1. runq = [c \in Cpus |-> runq[c]]
      BY DEF Init
    <3> QED
      BY <1>2, <3>1
  <2>4. space \in [Procs -> Spaces]
    BY <1>4 DEF Init, Spaces
  <2>5. prev \in [Cpus -> HandOffs]
    BY <1>5 DEF Init
  <2>6. phase \in [Cpus -> Phases] /\ got \in [All -> Seq(Threads)]
    BY DEF Init, Phases
  <2>7. /\ blocked \in [Cpus -> SUBSET Threads] /\ zombie \in [Cpus -> Threads \cup {None}]
        /\ dead \in [Cpus -> SUBSET Threads] /\ busy \in [Threads -> BOOLEAN] /\ reaped \subseteq Threads
    BY DEF Init
  <2> QED
    BY <2>2, <2>3, <2>4, <2>5, <2>6, <2>7 DEF Shapes
<1>7. OnePlace
  <2>1. ASSUME NEW t \in Threads PROVE \E p \in Spots : \A q \in Spots : t \in Here(q) <=> q = p
    <3>1. \A c \in Cpus : /\ t \in Here(<<"running", c>>) <=> t = Main /\ c = Bsp
                          /\ t \in Here(<<"queued", c>>) <=> t # Main /\ c = Home[t]
                          /\ t \notin Here(<<"asleep", c>>)
                          /\ t \notin Here(<<"exiting", c>>)
                          /\ t \notin Here(<<"dead", c>>)
      <4> SUFFICES ASSUME NEW c \in Cpus
                   PROVE  /\ t \in Here(<<"running", c>>) <=> t = Main /\ c = Bsp
                          /\ t \in Here(<<"queued", c>>) <=> t # Main /\ c = Home[t]
                          /\ t \notin Here(<<"asleep", c>>)
                          /\ t \notin Here(<<"exiting", c>>)
                          /\ t \notin Here(<<"dead", c>>)
        OBVIOUS
      <4>1. cur[c] = t <=> t = Main /\ c = Bsp
        BY <1>1, SchedAssumption
      <4>2. t \in Range(runq[c]) <=> t # Main /\ c = Home[t]
        BY <1>2
      <4>3. t \notin blocked[c] /\ zombie[c] # t /\ t \notin dead[c]
        BY <1>1, SchedAssumption
      <4> QED
        BY <4>1, <4>2, <4>3, HereIs
    <3>2. \A h \in All : t \notin Here(<<"stolen", h>>)
      BY <1>3, HereIs
    <3>3. t \notin Here(<<"reaped", None>>)
      BY <1>1, HereIs
    <3>4. PICK k, x : /\ <<k, x>> \in Spots
                      /\ \/ t = Main /\ k = "running" /\ x = Bsp
                         \/ t # Main /\ k = "queued" /\ x = Home[t]
      BY SpotsAre, SchedAssumption
    <3>5. ASSUME NEW q \in Spots PROVE t \in Here(q) <=> q = <<k, x>>
      <4>1. CASE \E c \in Cpus, m \in {"running", "queued", "asleep", "exiting", "dead"} : q = <<m, c>>
        <5>1. PICK c \in Cpus, m \in {"running", "queued", "asleep", "exiting", "dead"} : q = <<m, c>>
          BY <4>1
        <5>2. q = <<k, x>> <=> m = k /\ c = x
          BY <5>1
        <5>3. t \in Here(<<m, c>>) <=> m = k /\ c = x
          <6>1. CASE m = "running"
            BY <3>1, <3>4, <6>1
          <6>2. CASE m = "queued"
            BY <3>1, <3>4, <6>2
          <6>3. CASE m \in {"asleep", "exiting", "dead"}
            BY <3>1, <3>4, <6>3
          <6> QED
            BY <6>1, <6>2, <6>3
        <5> QED
          BY <5>1, <5>2, <5>3
      <4>2. CASE \E h \in All : q = <<"stolen", h>>
        BY <3>2, <3>4, <4>2
      <4>3. CASE q = <<"reaped", None>>
        BY <3>3, <3>4, <4>3
      <4> QED
        BY <4>1, <4>2, <4>3, SpotsAre
    <3> QED
      BY <3>4, <3>5
  <2> QED
    BY <1>2, <1>3, <2>1 DEF OnePlace
<1>8. ASSUME NEW c \in Cpus PROVE HandOff(c)
  BY <1>1, <1>5, SchedAssumption DEF HandOff
<1>9. ASSUME NEW p \in Procs PROVE Counted(p)
  <2>1. Living(p) = Members(p)
    BY <1>1, SchedAssumption DEF Living, Alive, Members
  <2>2. Leaving(p) = {}
    BY <1>1, <1>5 DEF Leaving
  <2>3. Cardinality({}) = 0
    BY FS_EmptySet
  <2>4. space[p].refs = Cardinality(Members(p)) /\ space[p].state = "live"
    BY DEF Init
  <2> QED
    BY <1>4, <2>1, <2>2, <2>3, <2>4 DEF Counted
<1> QED
  BY <1>6, <1>7, <1>8, <1>9 DEF SchedIInv

\* Every step keeps the invariant.
LEMMA SchedStepInv ==
    ASSUME SchedIInv, [Next]_vars
    PROVE  SchedIInv'
<1>1. CASE UNCHANGED vars
  <2>1. /\ UNCHANGED <<cpu, zombie, dead, busy, reaped, space>>
        /\ UNCHANGED <<cur, runq, blocked, got, prev>>
    BY <1>1 DEF vars, queues, cpu
  <2>2. OnePlace'
    BY <2>1, PlacesStill DEF SchedIInv
  <2>3. \A d \in Cpus : prev[d].ctx # None => prev[d].ctx \in Near(d)'
    BY <2>1 DEF SchedIInv, HandOff, Near
  <2>4. /\ runq' \in [Cpus -> Seq(Threads)] /\ blocked' \in [Cpus -> SUBSET Threads]
        /\ got' \in [All -> Seq(Threads)]
    BY <2>1 DEF SchedIInv, Shapes
  <2> QED
    BY <2>1, <2>2, <2>3, <2>4, QueuesMoved
<1>2. ASSUME NEW c \in Cpus,
             \/ SwitchContext(c) \/ PostLeave(c) \/ PostRelease(c) \/ FirstTick(c)
             \/ YieldLocal(c) \/ YieldStolen(c) \/ Block(c) \/ Exit(c)
      PROVE  SchedIInv'
  BY <1>2, SwitchContextInv, PostLeaveInv, PostReleaseInv, FirstTickInv, YieldLocalInv,
     YieldStolenInv, BlockInv, ExitInv
<1>3. ASSUME NEW c \in Cpus, NEW v \in Cpus, YieldSteal(c, v) PROVE SchedIInv'
  BY <1>3, YieldStealInv
<1>4. ASSUME NEW c \in Cpus, NEW t \in Threads, Wake(c, t) PROVE SchedIInv'
  BY <1>4, WakeInv
<1>5. ASSUME NEW c \in Cpus, NEW d \in Cpus, NEW t \in Threads, Reap(c, d, t) PROVE SchedIInv'
  BY <1>5, ReapInv
<1> QED
  BY <1>1, <1>2, <1>3, <1>4, <1>5 DEF Next

(* The inductive invariant of the scheduler: places, hand-offs and         *)
(* references, in every reachable state of every instance.                 *)
THEOREM SchedInvariance == Spec => []SchedIInv
<1>1. Init => SchedIInv
  BY SchedInitInv
<1>2. SchedIInv /\ [Next]_vars => SchedIInv'
  BY SchedStepInv
<1> QED
  BY <1>1, <1>2, PTL DEF Spec

(* Every thread is in one place, none twice in a queue, none lost between  *)
(* a steal, a switch, a sleep and an exit (thread.c's queues).             *)
THEOREM ThreadsPlaced == Spec => []OnePlace
<1>1. SchedIInv => OnePlace
  BY DEF SchedIInv
<1> QED
  BY <1>1, SchedInvariance, PTL

\* A thread on whose stack a CPU executes is in that CPU's keeping: it runs
\* there, waits there, or is exiting there.
LEMMA StackPlace ==
    ASSUME SchedIInv, NEW c \in Cpus, on[c] \in Threads
    PROVE  on[c] \in Near(c) \cup {zombie[c]}
<1>1. HandOff(c) /\ cur[c] \in Near(c)
  BY DEF SchedIInv, Near
<1>2. CASE phase[c] # "switch"
  BY <1>1, <1>2 DEF HandOff
<1>3. CASE phase[c] = "switch"
  <2>1. on[c] \in {zombie[c], prev[c].ctx} /\ on[c] # None
    BY <1>1, <1>3, SchedAssumption DEF HandOff
  <2> QED
    BY <1>1, <2>1 DEF HandOff
<1> QED
  BY <1>2, <1>3

\* So two CPUs are on two stacks.
LEMMA StacksApart ==
    ASSUME SchedIInv
    PROVE  OneStack
<1> SUFFICES ASSUME NEW c \in Cpus, NEW d \in Cpus, c # d, on[c] = on[d] PROVE FALSE
  BY DEF OneStack
<1>1. on[c] \in Threads \cup {Idle[c]} /\ on[d] \in Threads \cup {Idle[d]}
  BY DEF SchedIInv, HandOff
<1>2. PICK t \in Threads : t = on[c]
  BY <1>1, SchedAssumption
<1>3. t \in Near(c) \cup {zombie[c]} /\ t \in Near(d) \cup {zombie[d]}
  BY <1>2, StackPlace
<1>4. PICK k, x : Only(t, k, x)
  BY OnePlaceOnly DEF SchedIInv
<1>5. \A e \in Cpus : t \in Near(e) \cup {zombie[e]} => x = e
  BY <1>4 DEF Near, Only
<1> QED
  BY <1>3, <1>5

(* No two CPUs execute on one kernel stack (context_busy, sched_steal_work *)
(* and sched_post_switch).                                                 *)
THEOREM StackExclusive == Spec => []OneStack
<1>1. SchedIInv => OneStack
  BY StacksApart
<1> QED
  BY <1>1, SchedInvariance, PTL

(* No CPU executes on, or switches to, a stack that sched_reap_dead freed. *)
THEOREM StackNotFreed == Spec => []StackKept
<1>1. ASSUME SchedIInv, NEW c \in Cpus PROVE {on[c], cur[c]} \cap reaped = {}
  <2>1. reaped \subseteq Threads
    BY <1>1 DEF SchedIInv, Shapes
  <2>2. ASSUME NEW t \in reaped PROVE t # on[c] /\ t # cur[c]
    <3>1. t \in Threads
      BY <2>1
    <3>2. PICK k, x : Only(t, k, x)
      BY <1>1, <3>1, OnePlaceOnly DEF SchedIInv
    <3>3. t \notin Near(c) \cup {zombie[c]}
      BY <2>2, <3>2 DEF Only, Near
    <3>4. t # on[c]
      BY <1>1, <3>1, <3>3, StackPlace
    <3> QED
      BY <3>3, <3>4 DEF Near
  <2> QED
    BY <2>2
<1>2. SchedIInv => StackKept
  BY <1>1 DEF StackKept
<1> QED
  BY <1>2, SchedInvariance, PTL

(* A process's page tables outlive every use: sched_refs covers every      *)
(* thread that can still run in it, and no CPU has a torn-down root loaded *)
(* (vmm_space_leave, vmm_destroy_pml4, vmm_drain_deferred_destructions).   *)
THEOREM SpaceOutlives == Spec => []SpaceKept
<1>1. ASSUME SchedIInv, NEW p \in Procs
      PROVE  /\ Cardinality({t \in Members(p) : Alive(t)}) <= space[p].refs
             /\ space[p].state = "dead" => /\ \A c \in Cpus : cr3[c] # p
                                           /\ \A t \in Members(p) : ~Alive(t)
  <2>1. /\ Cardinality(Living(p)) + Cardinality(Leaving(p)) <= space[p].refs
        /\ space[p].state = "dead" => Living(p) = {}
        /\ space[p].refs \in Nat
    BY <1>1 DEF SchedIInv, Shapes, Counted, Spaces
  <2>2. Cardinality(Living(p)) \in Nat /\ Cardinality(Leaving(p)) \in Nat
    BY CoveredFinite
  <2>3. Cardinality(Living(p)) <= space[p].refs
    BY <2>1, <2>2
  <2>4. ASSUME NEW c \in Cpus, cr3[c] = p PROVE Living(p) # {}
    <3>1. cr3[c] = RootOf(cur[c]) /\ p # None
      BY <1>1, SchedAssumption DEF SchedIInv, Shapes
    <3>2. PICK t \in Threads : t = cur[c] /\ ProcOf[t] = p
      BY <2>4, <3>1 DEF RootOf
    <3>3. Only(t, "running", c)
      BY <1>1, <3>2, Located DEF SchedIInv
    <3>4. Alive(t)
      BY <3>3 DEF Only, Alive
    <3> QED
      BY <3>2, <3>4 DEF Living, Members
  <2> QED
    BY <2>1, <2>3, <2>4 DEF Living
<1>2. SchedIInv => SpaceKept
  BY <1>1 DEF SpaceKept
<1> QED
  BY <1>2, SchedInvariance, PTL
=============================================================================
