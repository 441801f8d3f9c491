--------------------------- MODULE PthreadProofs ---------------------------
(***************************************************************************)
(* Proofs about the user threads library over the kernel's futexes, for    *)
(* every set of threads, size of the waiter table, number of signals and   *)
(* set of well-formed programs.                                            *)
(***************************************************************************)
EXTENDS Pthread, FiniteSetTheorems, TLAPS

-----------------------------------------------------------------------------
(* The inductive invariant                                                 *)

Labels == {"start", "xchg", "wake", "wakeall", "arrive", "reset", "bump", "loop", "init",
           "publish", "fwait", "check", "asleep", "awake", "clear", "return", "tell", "gone",
           "jcheck", "jasleep", "jtake", "jreturn"}

\* Shapes: nothing is said of the waiter table, whose contents no safety
\* property of the library may rest on.
Shapes ==
    /\ word \in [Addrs -> Nat]
    /\ at \in [Threads -> Labels]
    /\ todo \in [Threads -> Seq(Ops)]
    /\ reg \in [Threads -> Nat]
    /\ chan = [t \in Threads |-> chan[t]]
    /\ join \in [Threads -> {"running", "exited", "collected"}]
    /\ value \in [Threads -> BOOLEAN]
    /\ in_count \in Nat /\ ran \in Nat

\* What is left of a program is still well formed, but for its beginning.
Rest(s) ==
    \A i \in DOMAIN s :
        /\ i > 1 /\ s[i] \in {"seq", "unlock"} => s[i - 1] \in {"lock", "trylock", "seq"}
        /\ s[i] = "trylock" => i < Len(s) /\ s[i + 1] = "unlock"
        /\ s[i] = "exit" => i = Len(s)

\* Where a thread is tells which operation it is in, and only a thread asleep
\* is on a channel.
Sleepers == {"lock", "wait", "timedwait", "barrier", "once"}
Wakes == {"unlock", "signal", "broadcast", "barrier", "once"}
PlaceOf(t) ==
    /\ at[t] = "xchg" => Op(t) = "lock"
    /\ at[t] \in {"wake", "wakeall"} => Op(t) \in Wakes
    /\ at[t] \in {"arrive", "reset", "bump"} => Op(t) = "barrier"
    /\ at[t] = "loop" => Op(t) \in {"barrier", "once"}
    /\ at[t] \in {"init", "publish"} => Op(t) = "once"
    /\ at[t] \in {"fwait", "check", "asleep", "awake", "clear", "return"} => Op(t) \in Sleepers
    /\ at[t] = "tell" => Op(t) = "exit"
    /\ at[t] = "gone" => Op(t) = "none"
    /\ at[t] \in {"jcheck", "jasleep", "jtake", "jreturn"} => Op(t) = "join"
    /\ chan[t] # None => at[t] \in {"asleep", "jasleep"}

Places == \A t \in Threads : Rest(todo[t]) /\ PlaceOf(t)

\* A mutex that a thread has is not free.
Held == \A t \in Threads : HasMutex(t) => word["lock"] # 0

\* The one who found the word 0 runs init_routine, and publishes; nobody has
\* finished a call of pthread_once before.
HasOnce(t) == \E i \in DOMAIN todo[t] : todo[t][i] = "once"
Runs(t) == at[t] \in {"init", "publish"}
OnceFresh ==
    word["once"] = 0 => /\ ran = 0
                        /\ \A t \in Threads : ~Runs(t)
                        /\ \A t, u \in Threads : HasOnce(t) => HasOnce(u)
OnceRunning ==
    word["once"] = 1 => /\ \A t \in Threads : HasOnce(t)
                        /\ \E t \in Threads : Runs(t)
                        /\ \A t \in Threads : at[t] = "init" => ran = 0
                        /\ \A t \in Threads : at[t] = "publish" => ran = 1
OnceOver == word["once"] \notin {0, 1} => ran = 1 /\ \A t \in Threads : ~Runs(t)
OneRunner == \A t, u \in Threads : Runs(t) /\ Runs(u) => t = u
InOnce ==
    \A t \in Threads : Op(t) = "once" /\ at[t] # "start" =>
        /\ word["once"] # 0
        /\ at[t] \in {"wake", "wakeall"} => word["once"] # 1
OnceWord == OnceFresh /\ OnceRunning /\ OnceOver /\ OneRunner /\ InOnce

\* The join record follows the thread, and a value taken is gone.
Records ==
    \A t \in Threads : /\ join[t] # "running" <=> at[t] \in {"tell", "gone"}
                       /\ value[t] => join[JoinOf[t]] = "collected"
                       /\ \A u \in Threads : value[t] /\ value[u] /\ JoinOf[t] = JoinOf[u] => t = u

\* The barrier: who has arrived and still waits for the round's end; who has
\* been let go and has not left.
Waiting == {t \in Threads : Arrived(t) /\ reg[t] = word["cycle"]}
Released(t) == Arrived(t) /\ reg[t] # word["cycle"]
Due(t) == Rounds(t) - (IF Released(t) THEN 1 ELSE 0)

\* in_count counts those who wait, until the last one has reset it; the last
\* one is alone, and everyone waits for it.
RoundOf(t) ==
    /\ at[t] = "arrive" => reg[t] = word["cycle"]
    /\ at[t] \in {"reset", "bump"} => Waiting = Threads
    /\ Op(t) = "barrier" /\ at[t] \in {"wake", "wakeall"} => reg[t] # word["cycle"]

Barrier ==
    /\ \A t \in Threads : RoundOf(t)
    /\ \A t, u \in Threads : at[t] \in {"reset", "bump"} /\ at[u] \in {"reset", "bump"} => t = u
    /\ in_count = IF \E t \in Threads : at[t] = "bump" THEN 0 ELSE Cardinality(Waiting)
    /\ \A t, u \in Threads : Due(t) = Due(u)

PthreadIInv ==
    /\ Shapes /\ Places /\ Held /\ Exclusion /\ OnceWord /\ Records /\ Barrier

-----------------------------------------------------------------------------
(* Programs                                                                *)

Next1(s) == IF s = << >> THEN "none" ELSE Head(s)
Places1(s, op) == {i \in DOMAIN s : s[i] = op}

\* What is left of a program after its first operation.
LEMMA TailOf ==
    ASSUME NEW s \in Seq(Ops), s # << >>
    PROVE  /\ Tail(s) \in Seq(Ops) /\ Len(Tail(s)) = Len(s) - 1 /\ Len(s) \in Nat \ {0}
           /\ DOMAIN s = 1 .. Len(s) /\ DOMAIN Tail(s) = 1 .. Len(s) - 1 /\ Head(s) = s[1]
           /\ \A i \in 1 .. Len(s) - 1 : Tail(s)[i] = s[i + 1]
OBVIOUS

\* It is still well formed; it begins with "seq" or "unlock" only if the mutex
\* has just been locked or was held, and pthread_exit leaves nothing.
LEMMA RestOfTail ==
    ASSUME NEW s \in Seq(Ops), s # << >>, Rest(s)
    PROVE  /\ Rest(Tail(s))
           /\ Next1(Tail(s)) \in {"seq", "unlock"} => Head(s) \in {"lock", "trylock", "seq"}
           /\ Head(s) = "exit" => Tail(s) = << >>
           /\ Head(s) = "trylock" => Tail(s) # << >> /\ Head(Tail(s)) = "unlock"
<1>1. /\ Tail(s) \in Seq(Ops) /\ Len(Tail(s)) = Len(s) - 1 /\ Len(s) \in Nat \ {0}
      /\ DOMAIN s = 1 .. Len(s) /\ DOMAIN Tail(s) = 1 .. Len(s) - 1 /\ Head(s) = s[1]
      /\ \A i \in 1 .. Len(s) - 1 : Tail(s)[i] = s[i + 1]
  BY TailOf
<1>2. ASSUME NEW i \in DOMAIN Tail(s)
      PROVE  /\ i > 1 /\ Tail(s)[i] \in {"seq", "unlock"} => Tail(s)[i - 1] \in {"lock", "trylock", "seq"}
             /\ Tail(s)[i] = "trylock" => i < Len(Tail(s)) /\ Tail(s)[i + 1] = "unlock"
             /\ Tail(s)[i] = "exit" => i = Len(Tail(s))
  <2>1. i \in 1 .. Len(s) - 1 /\ i + 1 \in DOMAIN s /\ i + 1 > 1 /\ i + 1 - 1 = i
    BY <1>1
  <2>2. Tail(s)[i] = s[i + 1] /\ (i > 1 => Tail(s)[i - 1] = s[i])
    BY <1>1, <2>1
  <2>3. /\ s[i + 1] \in {"seq", "unlock"} => s[i] \in {"lock", "trylock", "seq"}
        /\ s[i + 1] = "trylock" => i + 1 < Len(s) /\ s[i + 1 + 1] = "unlock"
        /\ s[i + 1] = "exit" => i + 1 = Len(s)
    BY <2>1 DEF Rest
  <2>4. i + 1 < Len(s) => i < Len(Tail(s)) /\ Tail(s)[i + 1] = s[i + 1 + 1]
    BY <1>1, <2>1
  <2> QED
    BY <1>1, <2>1, <2>2, <2>3, <2>4
<1>3. Rest(Tail(s))
  BY <1>2 DEF Rest
<1>4. Next1(Tail(s)) \in {"seq", "unlock"} => Head(s) \in {"lock", "trylock", "seq"}
  <2> SUFFICES ASSUME Next1(Tail(s)) \in {"seq", "unlock"} PROVE Head(s) \in {"lock", "trylock", "seq"}
    OBVIOUS
  <2>1. Tail(s) # << >> /\ Head(Tail(s)) \in {"seq", "unlock"}
    BY DEF Next1
  <2>2. 2 \in DOMAIN s /\ s[2] \in {"seq", "unlock"}
    BY <1>1, <2>1
  <2> QED
    BY <1>1, <2>2 DEF Rest
<1>5. 1 \in DOMAIN s /\ (s[1] = "exit" => 1 = Len(s)) /\ (s[1] = "trylock" => 1 < Len(s) /\ s[2] = "unlock")
  BY <1>1 DEF Rest
<1>6. Head(s) = "exit" => Tail(s) = << >>
  BY <1>1, <1>5
<1>7. Head(s) = "trylock" => Tail(s) # << >> /\ Head(Tail(s)) = "unlock"
  <2> SUFFICES ASSUME Head(s) = "trylock" PROVE Tail(s) # << >> /\ Head(Tail(s)) = "unlock"
    OBVIOUS
  <2>1. 1 < Len(s) /\ s[2] = "unlock"
    BY <1>1, <1>5
  <2>2. Tail(s)[1] = s[2]
    BY <1>1, <2>1
  <2>3. Tail(s) # << >>
    BY <1>1, <2>1
  <2>4. Head(Tail(s)) = Tail(s)[1]
    BY <1>1, <2>3
  <2> QED
    BY <2>1, <2>2, <2>3, <2>4
<1> QED
  BY <1>3, <1>4, <1>6, <1>7

\* An operation has finitely many places in a program.
LEMMA PlacesFinite ==
    ASSUME NEW s \in Seq(Ops), NEW op
    PROVE  IsFiniteSet(Places1(s, op)) /\ Cardinality(Places1(s, op)) \in Nat
<1>1. Len(s) \in Nat /\ 1 \in Int /\ Len(s) \in Int /\ DOMAIN s = 1 .. Len(s)
  OBVIOUS
<1>2. IsFiniteSet(1 .. Len(s))
  BY <1>1, FS_Interval
<1>3. Places1(s, op) \subseteq 1 .. Len(s)
  BY <1>1 DEF Places1
<1>4. IsFiniteSet(Places1(s, op))
  BY <1>2, <1>3, FS_Subset
<1> QED
  BY <1>4, FS_CardinalityType

\* Without the first operation, one place of it less.
LEMMA CountTail ==
    ASSUME NEW s \in Seq(Ops), s # << >>, NEW op
    PROVE  /\ Cardinality(Places1(s, op)) \in Nat /\ Cardinality(Places1(Tail(s), op)) \in Nat
           /\ Head(s) = op => Cardinality(Places1(Tail(s), op)) = Cardinality(Places1(s, op)) - 1
           /\ Head(s) # op => Cardinality(Places1(Tail(s), op)) = Cardinality(Places1(s, op))
<1>1. /\ Len(s) \in Nat \ {0} /\ DOMAIN s = 1 .. Len(s) /\ DOMAIN Tail(s) = 1 .. Len(s) - 1
      /\ Head(s) = s[1] /\ \A i \in 1 .. Len(s) - 1 : Tail(s)[i] = s[i + 1]
  BY TailOf
<1> DEFINE A == Places1(Tail(s), op)
           B == Places1(s, op)
           C == B \ {1}
<1>2. IsFiniteSet(A) /\ IsFiniteSet(B) /\ IsFiniteSet(C)
  <2>1. IsFiniteSet(A) /\ IsFiniteSet(B)
    BY PlacesFinite, TailOf
  <2> QED
    BY <2>1, FS_Subset
<1>3. Cardinality(A) = Cardinality(C)
  <2> DEFINE f == [i \in A |-> i + 1]
  <2>1. A \subseteq Int /\ C \subseteq Int
    BY <1>1 DEF Places1
  <2>2. \A i \in A : i + 1 \in C
    BY <1>1 DEF Places1
  <2>3. \A j \in C : j - 1 \in A /\ j - 1 + 1 = j
    BY <1>1 DEF Places1
  <2> HIDE DEF A, C
  <2>4. f \in Bijection(A, C)
    <3>1. f \in [A -> C]
      BY <2>2
    <3>2. \A a, b \in A : f[a] = f[b] => a = b
      BY <2>1
    <3>3. \A j \in C : \E i \in A : f[i] = j
      BY <2>3
    <3> QED
      BY <3>1, <3>2, <3>3 DEF Bijection, Injection, Surjection, IsInjective
  <2>5. ExistsBijection(A, C)
    BY <2>4 DEF ExistsBijection
  <2> QED
    BY <1>2, <2>5, FS_Bijection
<1>4. Cardinality(A) \in Nat /\ Cardinality(B) \in Nat
  BY <1>2, FS_CardinalityType
<1>5. 1 \in B <=> Head(s) = op
  BY <1>1 DEF Places1
<1>6. Cardinality(C) = IF 1 \in B THEN Cardinality(B) - 1 ELSE Cardinality(B)
  BY <1>2, FS_RemoveElement
<1> HIDE DEF A, B, C
<1> QED
  BY <1>3, <1>4, <1>5, <1>6 DEF A, B

\* An operation is left after the first one exactly if it was left before, when
\* the first one is another.
LEMMA LeftTail ==
    ASSUME NEW s \in Seq(Ops), s # << >>, NEW op, Head(s) # op
    PROVE  (\E i \in DOMAIN Tail(s) : Tail(s)[i] = op) <=> (\E i \in DOMAIN s : s[i] = op)
<1>1. /\ Len(s) \in Nat \ {0} /\ DOMAIN s = 1 .. Len(s) /\ DOMAIN Tail(s) = 1 .. Len(s) - 1
      /\ Head(s) = s[1] /\ \A i \in 1 .. Len(s) - 1 : Tail(s)[i] = s[i + 1]
  BY TailOf
<1>2. ASSUME NEW i \in DOMAIN Tail(s), Tail(s)[i] = op PROVE \E j \in DOMAIN s : s[j] = op
  BY <1>1, <1>2
<1>3. ASSUME NEW i \in DOMAIN s, s[i] = op PROVE \E j \in DOMAIN Tail(s) : Tail(s)[j] = op
  <2>1. i - 1 \in 1 .. Len(s) - 1 /\ i - 1 + 1 = i
    BY <1>1, <1>3
  <2>2. Tail(s)[i - 1] = op
    BY <1>1, <1>3, <2>1
  <2> QED
    BY <1>1, <2>1, <2>2
<1> QED
  BY <1>2, <1>3

-----------------------------------------------------------------------------
(* What a step of one thread leaves to the others                          *)

\* A step of t leaves every other thread where it is, or wakes it.
Others(t) ==
    \A u \in Threads \ {t} :
        /\ todo'[u] = todo[u] /\ reg'[u] = reg[u]
        /\ \/ at'[u] = at[u]
           \/ at[u] = "asleep" /\ at'[u] = "awake"
           \/ at[u] = "jasleep" /\ at'[u] = "jcheck"
        /\ chan'[u] # None => at'[u] \in {"asleep", "jasleep"}

\* t stays in its operation, or ends it.
Stays(t) == Others(t) /\ todo'[t] = todo[t]
Ends(t) == Others(t) /\ todo[t] # << >> /\ todo'[t] = Tail(todo[t]) /\ at'[t] = "start"

\* Op is the first operation of what is left.
LEMMA OpIsNext ==
    \A t \in Threads : Op(t) = Next1(todo[t]) /\ Op(t)' = Next1(todo'[t])
BY DEF Op, Next1

\* The places after t's step, when t's own is right.
LEMMA PlacesStay ==
    ASSUME PthreadIInv, NEW t \in Threads, Stays(t), PlaceOf(t)'
    PROVE  Places'
<1>1. ASSUME NEW u \in Threads \ {t} PROVE Rest(todo[u])' /\ PlaceOf(u)'
  <2>1. Rest(todo[u]) /\ PlaceOf(u) /\ Op(u)' = Op(u)
    BY DEF PthreadIInv, Places, Stays, Others, Op
  <2> QED
    BY <2>1 DEF Stays, Others, PlaceOf
<1> QED
  BY <1>1 DEF PthreadIInv, Places, Stays

\* The same when t ends its operation.
LEMMA PlacesEnd ==
    ASSUME PthreadIInv, NEW t \in Threads, Ends(t), chan'[t] = None
    PROVE  Places'
<1>1. ASSUME NEW u \in Threads \ {t} PROVE Rest(todo[u])' /\ PlaceOf(u)'
  <2>1. Rest(todo[u]) /\ PlaceOf(u) /\ Op(u)' = Op(u)
    BY DEF PthreadIInv, Places, Ends, Others, Op
  <2> QED
    BY <2>1 DEF Ends, Others, PlaceOf
<1>2. Rest(todo[t])'
  BY RestOfTail DEF PthreadIInv, Places, Shapes, Ends
<1>3. PlaceOf(t)'
  BY DEF Ends, PlaceOf
<1> QED
  BY <1>1, <1>2, <1>3 DEF Places

\* The other threads have the mutex if they had it.
LEMMA OthersMutex ==
    ASSUME NEW t \in Threads, Others(t), NEW u \in Threads \ {t}
    PROVE  HasMutex(u)' <=> HasMutex(u)
BY DEF Others, HasMutex, Op

\* Exclusion after a step in which t gets the mutex only from nobody, and the
\* word becomes 0 only when t gives the mutex up.
LEMMA MutexKept ==
    ASSUME PthreadIInv, NEW t \in Threads, Others(t),
           \/ /\ HasMutex(t)' => HasMutex(t)
              /\ word'["lock"] = 0 => word["lock"] = 0
           \/ word["lock"] = 0 /\ word'["lock"] # 0
           \/ HasMutex(t) /\ ~HasMutex(t)'
    PROVE  Held' /\ Exclusion'
<1>1. \A u \in Threads \ {t} : HasMutex(u)' <=> HasMutex(u)
  BY OthersMutex
<1>2. Held'
  BY <1>1 DEF PthreadIInv, Held, Exclusion
<1>3. Exclusion'
  BY <1>1 DEF PthreadIInv, Held, Exclusion
<1> QED
  BY <1>2, <1>3

\* A thread that ends an operation other than a lock has the mutex only if it
\* had it.
LEMMA MutexEnd ==
    ASSUME PthreadIInv, NEW t \in Threads, Ends(t), Op(t) \notin {"lock", "trylock"},
           Op(t) = "seq" => at[t] = "start"
    PROVE  HasMutex(t)' => HasMutex(t)
<1>1. Op(t)' = Next1(Tail(todo[t])) /\ Op(t) = Head(todo[t])
  BY OpIsNext DEF Ends, Op
<1>2. Op(t)' \in {"seq", "unlock"} => Op(t) \in {"lock", "trylock", "seq"}
  BY <1>1, RestOfTail DEF PthreadIInv, Places, Shapes, Ends
<1> QED
  BY <1>2 DEF HasMutex

\* The once word after a step inside an operation that is none of the routine's.
LEMMA OnceStay ==
    ASSUME PthreadIInv, NEW t \in Threads, Stays(t), ran' = ran, word'["once"] = word["once"],
           at'[t] = "init" <=> at[t] = "init", at'[t] = "publish" <=> at[t] = "publish",
           Op(t) = "once" /\ at'[t] # "start" =>
               word["once"] # 0 /\ (at'[t] \in {"wake", "wakeall"} => word["once"] # 1)
    PROVE  OnceWord'
<1>1. ASSUME NEW u \in Threads
      PROVE  /\ Op(u)' = Op(u)
             /\ HasOnce(u)' <=> HasOnce(u)
             /\ Runs(u)' <=> Runs(u)
             /\ at'[u] = "init" <=> at[u] = "init"
             /\ at'[u] = "publish" <=> at[u] = "publish"
             /\ u # t /\ at'[u] # "start" => at[u] # "start"
             /\ u # t /\ at'[u] \in {"wake", "wakeall"} => at[u] \in {"wake", "wakeall"}
  BY DEF Stays, Others, Op, HasOnce, Runs
<1> USE DEF PthreadIInv, OnceWord
<1>2. OnceFresh' /\ OnceOver' /\ OneRunner'
  BY <1>1 DEF OnceFresh, OnceOver, OneRunner
<1>3. OnceRunning'
  BY <1>1 DEF OnceRunning
<1>4. InOnce'
  BY <1>1 DEF InOnce
<1> QED
  BY <1>2, <1>3, <1>4

\* And after the end of an operation: pthread_once ends only when the word is 2.
LEMMA OnceEnd ==
    ASSUME PthreadIInv, NEW t \in Threads, Ends(t), ran' = ran, word'["once"] = word["once"],
           at[t] \notin {"init", "publish"}, Op(t) = "once" => word["once"] \notin {0, 1}
    PROVE  OnceWord'
<1>1. ASSUME NEW u \in Threads \ {t}
      PROVE  /\ Op(u)' = Op(u)
             /\ HasOnce(u)' <=> HasOnce(u)
             /\ Runs(u)' <=> Runs(u)
             /\ at'[u] = "init" <=> at[u] = "init"
             /\ at'[u] = "publish" <=> at[u] = "publish"
             /\ at'[u] # "start" => at[u] # "start"
             /\ at'[u] \in {"wake", "wakeall"} => at[u] \in {"wake", "wakeall"}
  BY DEF Ends, Others, Op, HasOnce, Runs
<1>2. at'[t] = "start" /\ ~Runs(t) /\ ~Runs(t)'
  BY DEF Ends, Runs
<1>3. Op(t) # "once" => (HasOnce(t)' <=> HasOnce(t))
  <2>1. todo[t] \in Seq(Ops) /\ todo[t] # << >> /\ todo'[t] = Tail(todo[t]) /\ Op(t) = Head(todo[t])
    BY DEF Op, Ends, PthreadIInv, Shapes
  <2>2. Head(todo[t]) # "once" =>
            ((\E i \in DOMAIN Tail(todo[t]) : Tail(todo[t])[i] = "once")
               <=> (\E i \in DOMAIN todo[t] : todo[t][i] = "once"))
    BY <2>1, LeftTail
  <2> QED
    BY <2>1, <2>2 DEF HasOnce
<1> USE DEF PthreadIInv, OnceWord
<1>4. OnceFresh' /\ OnceRunning'
  <2>1. CASE Op(t) = "once"
    BY <2>1 DEF OnceFresh, OnceRunning
  <2>2. CASE Op(t) # "once"
    BY <1>1, <1>2, <1>3, <2>2 DEF OnceFresh, OnceRunning, Ends
  <2> QED
    BY <2>1, <2>2
<1>5. OnceOver' /\ OneRunner'
  BY <1>1, <1>2 DEF OnceOver, OneRunner
<1>6. InOnce'
  BY <1>1, <1>2 DEF InOnce
<1> QED
  BY <1>4, <1>5, <1>6

\* The join records after a step that touches none.
LEMMA RecordsKept ==
    ASSUME PthreadIInv, NEW t \in Threads, Others(t), UNCHANGED <<join, value>>,
           at'[t] \in {"tell", "gone"} <=> at[t] \in {"tell", "gone"}
    PROVE  Records'
<1>1. \A u \in Threads : at'[u] \in {"tell", "gone"} <=> at[u] \in {"tell", "gone"}
  BY DEF Others
<1> QED
  BY <1>1 DEF PthreadIInv, Records

\* Labels of a thread that waits inside pthread_barrier_wait.
Inside == {"loop", "fwait", "check", "asleep", "awake", "clear", "return"}

\* What a step of t leaves alone in the barrier.
LEMMA OthersRound ==
    ASSUME NEW t \in Threads, Others(t), word'["cycle"] = word["cycle"], NEW u \in Threads \ {t}
    PROVE  /\ u \in Waiting' <=> u \in Waiting
           /\ Rounds(u)' = Rounds(u)
           /\ Released(u)' <=> Released(u)
           /\ Due(u)' = Due(u)
           /\ at'[u] = "arrive" <=> at[u] = "arrive"
           /\ at'[u] = "reset" <=> at[u] = "reset"
           /\ at'[u] = "bump" <=> at[u] = "bump"
           /\ at'[u] \in {"wake", "wakeall"} => at[u] \in {"wake", "wakeall"}
           /\ Op(u)' = Op(u) /\ reg'[u] = reg[u]
<1>1. /\ todo'[u] = todo[u] /\ reg'[u] = reg[u] /\ Op(u)' = Op(u)
      /\ \/ at'[u] = at[u]
         \/ at[u] = "asleep" /\ at'[u] = "awake"
         \/ at[u] = "jasleep" /\ at'[u] = "jcheck"
  BY DEF Others, Op
<1>2. Arrived(u)' <=> Arrived(u)
  BY <1>1 DEF Arrived
<1>3. Rounds(u)' = Rounds(u)
  BY <1>1 DEF Rounds
<1>4. /\ Released(u)' <=> Released(u)
      /\ u \in Waiting' <=> u \in Waiting
  BY <1>1, <1>2 DEF Released, Waiting
<1>5. Due(u)' = Due(u)
  BY <1>3, <1>4 DEF Due
<1> QED
  BY <1>1, <1>3, <1>4, <1>5

\* The barrier after a step that leaves in_count and cycle alone, when t's own
\* part in it does not change.
LEMMA BarrierKept ==
    ASSUME PthreadIInv, NEW t \in Threads, Others(t), word'["cycle"] = word["cycle"],
           in_count' = in_count,
           t \in Waiting' <=> t \in Waiting, Due(t)' = Due(t),
           at[t] \notin {"reset", "bump"}, at'[t] \notin {"reset", "bump"},
           at'[t] = "arrive" => reg'[t] = word["cycle"],
           Op(t)' = "barrier" /\ at'[t] \in {"wake", "wakeall"} => reg'[t] # word["cycle"]
    PROVE  Barrier'
<1> USE DEF PthreadIInv, Barrier
<1>1. ASSUME NEW u \in Threads \ {t}
      PROVE  /\ u \in Waiting' <=> u \in Waiting
             /\ Due(u)' = Due(u)
             /\ at'[u] = "arrive" <=> at[u] = "arrive"
             /\ at'[u] = "reset" <=> at[u] = "reset"
             /\ at'[u] = "bump" <=> at[u] = "bump"
             /\ at'[u] \in {"wake", "wakeall"} => at[u] \in {"wake", "wakeall"}
             /\ Op(u)' = Op(u) /\ reg'[u] = reg[u]
  BY OthersRound
<1>2. Waiting' = Waiting
  <2>1. Waiting' \subseteq Threads /\ Waiting \subseteq Threads
    BY DEF Waiting
  <2> QED
    BY <1>1, <2>1
<1>3. \A u \in Threads : RoundOf(u)'
  BY <1>1, <1>2 DEF RoundOf
<1>4. \A u, v \in Threads : at'[u] \in {"reset", "bump"} /\ at'[v] \in {"reset", "bump"} => u = v
  BY <1>1
<1>5. in_count' = IF \E u \in Threads : at'[u] = "bump" THEN 0 ELSE Cardinality(Waiting')
  <2>1. (\E u \in Threads : at'[u] = "bump") <=> (\E u \in Threads : at[u] = "bump")
    BY <1>1
  <2> QED
    BY <1>2, <2>1
<1>6. \A u \in Threads : Due(u)' = Due(u)
  BY <1>1
<1>7. \A u, v \in Threads : Due(u)' = Due(v)'
  BY <1>6
<1> QED
  BY <1>3, <1>4, <1>5, <1>7

\* Inside an operation, t's part is the same if t stays among those who wait.
LEMMA BarrierStay ==
    ASSUME PthreadIInv, NEW t \in Threads, Stays(t), reg'[t] = reg[t],
           word'["cycle"] = word["cycle"], in_count' = in_count,
           \/ Op(t) # "barrier" /\ at'[t] \notin {"arrive", "reset", "bump"}
           \/ at[t] \in Inside /\ at'[t] \in Inside
           \/ at[t] \in {"wake", "wakeall"} /\ at'[t] \in {"wake", "wakeall"}
    PROVE  Barrier'
<1>1. Others(t) /\ Op(t)' = Op(t) /\ todo'[t] = todo[t]
  BY DEF Stays, Op
<1>2. Arrived(t)' <=> Arrived(t)
  BY <1>1 DEF Arrived, Inside
<1>3. t \in Waiting' <=> t \in Waiting
  BY <1>2 DEF Waiting
<1>4. Released(t)' <=> Released(t)
  BY <1>2 DEF Released
<1>5. Due(t)' = Due(t)
  BY <1>1, <1>4 DEF Due, Rounds
<1>6. /\ at[t] \notin {"reset", "bump"} /\ at'[t] \notin {"reset", "bump"} /\ at'[t] # "arrive"
      /\ Op(t)' = "barrier" /\ at'[t] \in {"wake", "wakeall"} => reg'[t] # word["cycle"]
  BY <1>1 DEF Inside, PthreadIInv, Places, PlaceOf, Barrier, RoundOf
<1> QED
  BY <1>1, <1>3, <1>5, <1>6, BarrierKept

\* At its end too, if a barrier ends only for a thread let go.
LEMMA BarrierEnd ==
    ASSUME PthreadIInv, NEW t \in Threads, Ends(t), word'["cycle"] = word["cycle"],
           in_count' = in_count, Op(t) = "barrier" => Released(t) /\ at[t] \notin {"reset", "bump"}
    PROVE  Barrier'
<1>1. /\ Others(t) /\ todo[t] \in Seq(Ops) /\ todo[t] # << >> /\ todo'[t] = Tail(todo[t])
      /\ Op(t) = Head(todo[t]) /\ at'[t] = "start"
  BY DEF Ends, Op, PthreadIInv, Shapes
<1>2. ~Arrived(t)' /\ t \notin Waiting' /\ ~Released(t)'
  BY <1>1 DEF Arrived, Waiting, Released
<1>3. t \notin Waiting /\ at[t] \notin {"reset", "bump"} /\ (Released(t) <=> Op(t) = "barrier")
  BY DEF Waiting, Released, Arrived, PthreadIInv, Places, PlaceOf
<1>4. Rounds(t) = Cardinality(Places1(todo[t], "barrier"))
      /\ Rounds(t)' = Cardinality(Places1(Tail(todo[t]), "barrier"))
  BY <1>1 DEF Rounds, Places1
<1>5. /\ Rounds(t) \in Nat /\ Rounds(t)' \in Nat
      /\ Op(t) = "barrier" => Rounds(t)' = Rounds(t) - 1
      /\ Op(t) # "barrier" => Rounds(t)' = Rounds(t)
  BY <1>1, <1>4, CountTail
<1>6. Due(t)' = Due(t)
  BY <1>2, <1>3, <1>5 DEF Due
<1> QED
  BY <1>1, <1>2, <1>3, <1>6, BarrierKept

-----------------------------------------------------------------------------
(* From the parts to the invariant                                         *)

\* A step of t inside an operation keeps the invariant when the parts that it
\* may disturb are right afterwards.
LEMMA StaysInv ==
    ASSUME PthreadIInv, NEW t \in Threads, Shapes', Stays(t), PlaceOf(t)', OnceWord', Barrier',
           UNCHANGED <<join, value>>,
           at[t] \notin {"tell", "gone"}, at'[t] \notin {"tell", "gone"},
           \/ at'[t] # "start" /\ (word'["lock"] = 0 => word["lock"] = 0)
           \/ HasMutex(t) /\ ~HasMutex(t)'
    PROVE  PthreadIInv'
<1>1. Others(t)
  BY DEF Stays
<1>2. Places'
  BY PlacesStay
<1>3. Held' /\ Exclusion'
  BY <1>1, MutexKept DEF HasMutex
<1>4. Records'
  BY <1>1, RecordsKept
<1> QED
  BY <1>2, <1>3, <1>4 DEF PthreadIInv

\* So does a step of t that ends one.
LEMMA EndsInv ==
    ASSUME PthreadIInv, NEW t \in Threads, Shapes', Ends(t), chan'[t] = None,
           UNCHANGED <<join, value, in_count, ran>>,
           word'["once"] = word["once"], word'["cycle"] = word["cycle"],
           at[t] \notin {"tell", "gone", "init", "publish", "reset", "bump"},
           \/ /\ Op(t) \notin {"lock", "trylock"} /\ (Op(t) = "seq" => at[t] = "start")
              /\ word'["lock"] = word["lock"]
           \/ word["lock"] = 0 /\ word'["lock"] # 0
           \/ HasMutex(t) /\ ~HasMutex(t)',
           Op(t) = "once" => word["once"] \notin {0, 1},
           Op(t) = "barrier" => Released(t)
    PROVE  PthreadIInv'
<1>1. Others(t) /\ at'[t] = "start"
  BY DEF Ends
<1>2. Places'
  BY PlacesEnd
<1>3. Held' /\ Exclusion'
  BY <1>1, MutexKept, MutexEnd
<1>4. Records'
  BY <1>1, RecordsKept
<1>5. OnceWord'
  BY OnceEnd
<1>6. Barrier'
  BY BarrierEnd
<1> QED
  BY <1>2, <1>3, <1>4, <1>5, <1>6 DEF PthreadIInv

\* A step that moves t alone.
LEMMA GotoOthers ==
    ASSUME PthreadIInv, NEW t \in Threads, NEW l \in Labels, Goto(t, l),
           \A u \in Threads \ {t} : todo'[u] = todo[u] /\ reg'[u] = reg[u] /\ chan'[u] = chan[u]
    PROVE  Others(t) /\ at'[t] = l /\ at' \in [Threads -> Labels]
BY DEF PthreadIInv, Shapes, Places, PlaceOf, Others, Goto

\* A wake-up by t.
LEMMA RouseOthers ==
    ASSUME PthreadIInv, NEW t \in Threads, NEW c, c # None, NEW l \in Labels, Rouse(t, c, l),
           \A u \in Threads \ {t} : todo'[u] = todo[u] /\ reg'[u] = reg[u]
    PROVE  /\ Others(t) /\ at'[t] = l /\ at' \in [Threads -> Labels]
           /\ chan' = [u \in Threads |-> chan'[u]]
           /\ chan[t] = None => chan'[t] = None
<1>1. /\ at' = [u \in Threads |-> IF u = t THEN l
                                  ELSE IF chan[u] # c THEN at[u]
                                  ELSE IF at[u] = "asleep" THEN "awake" ELSE "jcheck"]
      /\ chan' = [u \in Threads |-> IF chan[u] = c THEN None ELSE chan[u]]
  BY DEF Rouse, Roused
<1>2. \A u \in Threads : at[u] \in Labels /\ (chan[u] # None => at[u] \in {"asleep", "jasleep"})
  BY DEF PthreadIInv, Shapes, Places, PlaceOf
<1>3. Others(t)
  BY <1>1, <1>2 DEF Others
<1>4. at' \in [Threads -> Labels] /\ at'[t] = l
  BY <1>1, <1>2 DEF Labels
<1> QED
  BY <1>1, <1>3, <1>4

\* A step inside an operation whose only effect in the library is where t is.
LEMMA QuietStay ==
    ASSUME PthreadIInv, NEW t \in Threads, NEW l \in Labels,
           Others(t), at'[t] = l, at' \in [Threads -> Labels], todo' = todo, reg' = reg,
           word' \in [Addrs -> Nat], word'["lock"] = 0 => word["lock"] = 0,
           word'["once"] = word["once"], word'["cycle"] = word["cycle"],
           UNCHANGED <<in_count, ran, join, value>>,
           chan' = [u \in Threads |-> chan'[u]],
           chan'[t] # None => l \in {"asleep", "jasleep"},
           at[t] \notin {"tell", "gone", "init", "publish"},
           l \notin {"start", "tell", "gone", "init", "publish", "arrive", "reset", "bump"},
           PlaceOf(t)',
           Op(t) = "once" => word["once"] # 0 /\ (l \in {"wake", "wakeall"} => word["once"] # 1),
           \/ Op(t) # "barrier"
           \/ at[t] \in Inside /\ l \in Inside
           \/ at[t] \in {"wake", "wakeall"} /\ l \in {"wake", "wakeall"}
    PROVE  PthreadIInv'
<1>1. Stays(t)
  BY DEF Stays
<1>2. Shapes'
  BY DEF PthreadIInv, Shapes
<1>3. OnceWord'
  BY <1>1, OnceStay
<1>4. Barrier'
  BY <1>1, BarrierStay
<1> QED
  BY <1>1, <1>2, <1>3, <1>4, StaysInv

\* What holds of a thread between two operations, or at the beginning of one.
LEMMA AtStart ==
    ASSUME PthreadIInv, NEW t \in Threads, at[t] = "start"
    PROVE  chan[t] = None /\ (Op(t) # "none" => todo[t] # << >> /\ Op(t) = Head(todo[t]))
BY DEF PthreadIInv, Places, PlaceOf, Op

\* The end of t's operation, as Done writes it.
LEMMA DoneEnds ==
    ASSUME PthreadIInv, NEW t \in Threads, Done(t), Op(t) # "none",
           \A u \in Threads \ {t} : reg'[u] = reg[u] /\ chan'[u] = chan[u]
    PROVE  Ends(t) /\ at' \in [Threads -> Labels] /\ todo' \in [Threads -> Seq(Ops)]
<1>1. todo[t] \in Seq(Ops) /\ todo[t] # << >> /\ todo \in [Threads -> Seq(Ops)]
  BY DEF PthreadIInv, Shapes, Op
<1>2. Tail(todo[t]) \in Seq(Ops)
  BY <1>1, TailOf
<1>3. todo' \in [Threads -> Seq(Ops)] /\ todo'[t] = Tail(todo[t])
      /\ \A u \in Threads \ {t} : todo'[u] = todo[u]
  BY <1>1, <1>2 DEF Done
<1>4. Others(t) /\ at'[t] = "start" /\ at' \in [Threads -> Labels]
  BY <1>3, GotoOthers DEF Done, Labels
<1> QED
  BY <1>1, <1>3, <1>4 DEF Ends

\* A store to one of the library's words.
LEMMA PutWord ==
    ASSUME PthreadIInv, NEW a \in Addrs, NEW v \in Nat, Put(a, v)
    PROVE  /\ word' \in [Addrs -> Nat] /\ word'[a] = v
           /\ \A b \in {"lock", "seq", "cycle", "once"} \ {a} : word'[b] = word[b]
BY PthreadAssumption DEF PthreadIInv, Shapes, Put

-----------------------------------------------------------------------------
(* One lemma per operation                                                 *)

\* pthread_mutex_lock keeps the invariant, up to its futex call.
LEMMA LockInv ==
    ASSUME PthreadIInv, NEW t \in Threads, Lock(t)
    PROVE  PthreadIInv'
<1> USE PthreadAssumption DEF Lock, Calls
<1>1. at[t] = "start" /\ Op(t) = "lock" /\ chan[t] = None
  BY AtStart
<1>2. CASE word["lock"] = 0
  <2>1. Ends(t) /\ at' \in [Threads -> Labels] /\ todo' \in [Threads -> Seq(Ops)]
    BY <1>1, <1>2, DoneEnds
  <2>2. /\ word' \in [Addrs -> Nat] /\ word'["lock"] = 1
        /\ word'["once"] = word["once"] /\ word'["cycle"] = word["cycle"]
    BY <1>2, PutWord
  <2>3. Shapes'
    BY <1>1, <2>1, <2>2 DEF PthreadIInv, Shapes
  <2>4. chan'[t] = None /\ UNCHANGED <<join, value, in_count, ran>>
    BY <1>1
  <2>5. word["lock"] = 0 /\ word'["lock"] # 0
    BY <1>2, <2>2
  <2> HIDE PthreadAssumption DEF Lock, Calls
  <2> QED
    BY <1>1, <2>1, <2>2, <2>3, <2>4, <2>5, EndsInv
<1>3. CASE word["lock"] # 0
  <2>1. PICK l \in {"xchg", "fwait"} : Goto(t, l)
    BY <1>3 DEF Enter
  <2>2. word' = word /\ todo' = todo
    BY <1>3
  <2>3. Others(t) /\ at'[t] = l /\ at' \in [Threads -> Labels]
    BY <2>1, <2>2, GotoOthers DEF Labels
  <2>4. PlaceOf(t)'
    BY <1>1, <2>1, <2>2, <2>3 DEF PlaceOf, Op, Sleepers
  <2> QED
    BY <1>1, <2>1, <2>2, <2>3, <2>4, QuietStay DEF Labels, PthreadIInv, Shapes
<1> QED
  BY <1>2, <1>3

\* The exchange keeps it: whoever finds 0 has the mutex, whoever does not has
\* changed nothing but the contention mark.
LEMMA LockExchangeInv ==
    ASSUME PthreadIInv, NEW t \in Threads, LockExchange(t)
    PROVE  PthreadIInv'
<1> USE PthreadAssumption DEF LockExchange, Free
<1>1. /\ chan[t] = None /\ word' \in [Addrs -> Nat] /\ word'["lock"] = 2
      /\ word'["once"] = word["once"] /\ word'["cycle"] = word["cycle"]
  BY PutWord DEF PthreadIInv, Places, PlaceOf
<1>2. CASE word["lock"] = 0
  <2>1. Ends(t) /\ at' \in [Threads -> Labels] /\ todo' \in [Threads -> Seq(Ops)]
    BY <1>1, <1>2, DoneEnds
  <2>2. Shapes'
    BY <1>1, <2>1 DEF PthreadIInv, Shapes
  <2>3. chan'[t] = None /\ UNCHANGED <<join, value, in_count, ran>> /\ Op(t) = "lock" /\ at[t] = "xchg"
    BY <1>1
  <2>4. word["lock"] = 0 /\ word'["lock"] # 0
    BY <1>1, <1>2
  <2> HIDE PthreadAssumption DEF LockExchange, Free
  <2> QED
    BY <1>1, <2>1, <2>2, <2>3, <2>4, EndsInv
<1>3. CASE word["lock"] # 0
  <2>1. Goto(t, "fwait") /\ todo' = todo
    BY <1>3 DEF Enter
  <2>2. Others(t) /\ at'[t] = "fwait" /\ at' \in [Threads -> Labels]
    BY <2>1, GotoOthers DEF Labels
  <2>3. PlaceOf(t)'
    BY <1>1, <2>1, <2>2 DEF PlaceOf, Op, Sleepers
  <2>4. /\ chan' = [u \in Threads |-> chan'[u]] /\ chan'[t] = None /\ word'["lock"] # 0
        /\ UNCHANGED <<reg, in_count, ran, join, value>> /\ Op(t) = "lock" /\ at[t] = "xchg"
    BY <1>1 DEF PthreadIInv, Shapes
  <2> HIDE PthreadAssumption DEF LockExchange, Free
  <2> QED
    BY <1>1, <2>1, <2>2, <2>3, <2>4, QuietStay DEF Labels
<1> QED
  BY <1>2, <1>3

\* A failed pthread_mutex_trylock keeps it: its caller skips the unlock.
LEMMA TryLockBusy ==
    ASSUME PthreadIInv, NEW t \in Threads, TryLock(t), word["lock"] # 0
    PROVE  PthreadIInv'
<1> USE PthreadAssumption DEF TryLock, Calls, LibraryOnly, kernel
<1>1. /\ at[t] = "start" /\ Op(t) = "trylock" /\ chan[t] = None
      /\ todo[t] \in Seq(Ops) /\ todo[t] # << >> /\ Head(todo[t]) = "trylock" /\ Rest(todo[t])
  BY AtStart DEF PthreadIInv, Shapes, Places
<1> DEFINE s == Tail(todo[t])
<1>2. /\ s \in Seq(Ops) /\ s # << >> /\ Head(s) = "unlock" /\ Rest(s)
  BY <1>1, TailOf, RestOfTail
<1>3. /\ Tail(s) \in Seq(Ops) /\ Rest(Tail(s)) /\ Next1(Tail(s)) \notin {"seq", "unlock"}
  BY <1>2, TailOf, RestOfTail
<1>4. /\ Cardinality(Places1(Tail(s), "barrier")) = Cardinality(Places1(todo[t], "barrier"))
      /\ (\E i \in DOMAIN Tail(s) : Tail(s)[i] = "once")
            <=> (\E i \in DOMAIN todo[t] : todo[t][i] = "once")
  <2>1. /\ Cardinality(Places1(s, "barrier")) = Cardinality(Places1(todo[t], "barrier"))
        /\ (\E i \in DOMAIN s : s[i] = "once") <=> (\E i \in DOMAIN todo[t] : todo[t][i] = "once")
    BY <1>1, CountTail, LeftTail
  <2>2. /\ Cardinality(Places1(Tail(s), "barrier")) = Cardinality(Places1(s, "barrier"))
        /\ (\E i \in DOMAIN Tail(s) : Tail(s)[i] = "once") <=> (\E i \in DOMAIN s : s[i] = "once")
    BY <1>2, CountTail, LeftTail
  <2> QED
    BY <2>1, <2>2
<1>5. todo' = [todo EXCEPT ![t] = Tail(s)] /\ word' = word /\ at' = at
  OBVIOUS
<1> HIDE DEF s
<1>6. Shapes'
  BY <1>3, <1>5 DEF PthreadIInv, Shapes
<1>7. /\ todo'[t] = Tail(s) /\ Op(t)' \notin {"seq", "unlock"}
      /\ \A u \in Threads \ {t} : todo'[u] = todo[u] /\ Op(u)' = Op(u)
  BY <1>3, <1>5 DEF PthreadIInv, Shapes, Op, Next1
<1>8. Others(t)
  BY <1>5, <1>7 DEF Others, PthreadIInv, Places, PlaceOf
<1>9. Places'
  <2>1. \A u \in Threads \ {t} : PlaceOf(u)' /\ Rest(todo[u])'
    BY <1>5, <1>7 DEF PthreadIInv, Places, PlaceOf
  <2>2. PlaceOf(t)' /\ Rest(todo[t])'
    BY <1>1, <1>3, <1>5, <1>7 DEF PlaceOf
  <2> QED
    BY <2>1, <2>2 DEF Places
<1>10. Held' /\ Exclusion'
  BY <1>5, <1>7, <1>8, MutexKept DEF HasMutex
<1>11. Records'
  BY <1>5, <1>8, RecordsKept
<1>12. OnceWord'
  <2>1. \A u \in Threads : (HasOnce(u)' <=> HasOnce(u)) /\ (Runs(u)' <=> Runs(u))
    BY <1>4, <1>5, <1>7 DEF HasOnce, Runs
  <2>2. OnceFresh' /\ OnceRunning' /\ OnceOver' /\ OneRunner'
    BY <1>5, <2>1 DEF PthreadIInv, OnceWord, OnceFresh, OnceRunning, OnceOver, OneRunner
  <2>3. InOnce'
    BY <1>1, <1>5, <1>7 DEF PthreadIInv, OnceWord, InOnce
  <2> QED
    BY <2>2, <2>3 DEF OnceWord
<1>13. Barrier'
  <2>1. ~Arrived(t) /\ ~Arrived(t)' /\ Rounds(t)' = Rounds(t)
    BY <1>1, <1>4, <1>5, <1>7 DEF Arrived, Rounds, Places1
  <2>2. /\ t \notin Waiting /\ t \notin Waiting'
        /\ Due(t)' = Due(t)
    BY <2>1 DEF Waiting, Released, Due
  <2> QED
    BY <1>1, <1>5, <1>8, <2>2, BarrierKept
<1> QED
  BY <1>6, <1>9, <1>10, <1>11, <1>12, <1>13 DEF PthreadIInv

\* pthread_mutex_trylock keeps the invariant.
LEMMA TryLockInv ==
    ASSUME PthreadIInv, NEW t \in Threads, TryLock(t)
    PROVE  PthreadIInv'
<1>1. CASE word["lock"] = 0
  <2> USE PthreadAssumption DEF TryLock, Calls, LibraryOnly, kernel
  <2>1. at[t] = "start" /\ Op(t) = "trylock" /\ chan[t] = None
    BY AtStart
  <2>2. Ends(t) /\ at' \in [Threads -> Labels] /\ todo' \in [Threads -> Seq(Ops)]
    BY <1>1, <2>1, DoneEnds
  <2>3. /\ word' \in [Addrs -> Nat] /\ word'["lock"] = 1
        /\ word'["once"] = word["once"] /\ word'["cycle"] = word["cycle"]
    BY <1>1, PutWord
  <2>4. Shapes'
    BY <2>1, <2>2, <2>3 DEF PthreadIInv, Shapes
  <2>5. chan'[t] = None /\ UNCHANGED <<join, value, in_count, ran>>
    BY <2>1
  <2>6. word["lock"] = 0 /\ word'["lock"] # 0
    BY <1>1, <2>3
  <2> HIDE PthreadAssumption DEF TryLock, Calls
  <2> QED
    BY <2>1, <2>2, <2>3, <2>4, <2>5, <2>6, EndsInv
<1>2. CASE word["lock"] # 0
  BY <1>2, TryLockBusy
<1> QED
  BY <1>1, <1>2

\* pthread_mutex_unlock keeps it: only the thread that has the mutex frees it.
LEMMA UnlockInv ==
    ASSUME PthreadIInv, NEW t \in Threads, Unlock(t)
    PROVE  PthreadIInv'
<1> USE PthreadAssumption DEF Unlock, Calls, LibraryOnly, kernel
<1>1. at[t] = "start" /\ Op(t) = "unlock" /\ chan[t] = None
  BY AtStart
<1>2. /\ word' \in [Addrs -> Nat] /\ HasMutex(t)
      /\ word'["once"] = word["once"] /\ word'["cycle"] = word["cycle"]
  BY <1>1, PutWord DEF HasMutex
<1>3. CASE word["lock"] = 2
  <2>1. Goto(t, "wake") /\ todo' = todo
    BY <1>3
  <2>2. Others(t) /\ at'[t] = "wake" /\ at' \in [Threads -> Labels]
    BY <2>1, GotoOthers DEF Labels
  <2>3. Shapes' /\ Stays(t)
    BY <1>1, <1>2, <2>1, <2>2 DEF PthreadIInv, Shapes, Stays
  <2>4. PlaceOf(t)' /\ ~HasMutex(t)'
    BY <1>1, <2>1, <2>2 DEF PlaceOf, Op, Wakes, HasMutex
  <2>5. OnceWord'
    BY <1>1, <1>2, <2>2, <2>3, OnceStay
  <2>6. Barrier'
    BY <1>1, <1>2, <2>2, <2>3, BarrierStay
  <2> QED
    BY <1>1, <1>2, <2>2, <2>3, <2>4, <2>5, <2>6, StaysInv
<1>4. CASE word["lock"] # 2
  <2>1. Ends(t) /\ at' \in [Threads -> Labels] /\ todo' \in [Threads -> Seq(Ops)]
    BY <1>1, <1>4, DoneEnds
  <2>2. Shapes'
    BY <1>1, <1>2, <2>1 DEF PthreadIInv, Shapes
  <2>3. ~HasMutex(t)'
    <3>1. Head(todo[t]) = "unlock" /\ todo[t] # << >>
      BY <1>1, AtStart
    <3>2. Next1(Tail(todo[t])) \notin {"seq", "unlock"}
      BY <3>1, RestOfTail DEF PthreadIInv, Places, Shapes
    <3> QED
      BY <2>1, <3>2, OpIsNext DEF HasMutex, Ends
  <2> QED
    BY <1>1, <1>2, <2>1, <2>2, <2>3, EndsInv
<1> QED
  BY <1>3, <1>4

\* Reading the condition's counter keeps the invariant.
LEMMA ReadSeqInv ==
    ASSUME PthreadIInv, NEW t \in Threads, ReadSeq(t)
    PROVE  PthreadIInv'
<1> USE DEF ReadSeq, Calls, LibraryOnly, kernel
<1>1. at[t] = "start" /\ Op(t) = "seq" /\ chan[t] = None
  BY AtStart
<1>2. reg' \in [Threads -> Nat] /\ \A u \in Threads \ {t} : reg'[u] = reg[u]
  BY PthreadAssumption DEF PthreadIInv, Shapes
<1>3. Ends(t) /\ at' \in [Threads -> Labels] /\ todo' \in [Threads -> Seq(Ops)]
  BY <1>1, <1>2, DoneEnds
<1>4. Shapes'
  BY <1>2, <1>3 DEF PthreadIInv, Shapes
<1> QED
  BY <1>1, <1>3, <1>4, EndsInv

\* The futex call of pthread_cond_wait keeps it.
LEMMA CondWaitInv ==
    ASSUME PthreadIInv, NEW t \in Threads, CondWait(t)
    PROVE  PthreadIInv'
<1> USE DEF CondWait, Enter
<1>1. at[t] = "start" /\ Op(t) \in {"wait", "timedwait"} /\ chan[t] = None
  BY AtStart
<1>2. Others(t) /\ at'[t] = "fwait" /\ at' \in [Threads -> Labels]
  BY GotoOthers DEF Labels
<1>3. PlaceOf(t)'
  BY <1>1, <1>2 DEF PlaceOf, Op, Sleepers
<1>4. /\ word' = word /\ word \in [Addrs -> Nat] /\ chan' = [u \in Threads |-> chan'[u]] /\ chan'[t] = None
      /\ UNCHANGED <<todo, reg, in_count, ran, join, value>>
  BY <1>1 DEF PthreadIInv, Shapes
<1> QED
  BY <1>1, <1>2, <1>3, <1>4, QuietStay DEF Labels

\* The store of pthread_cond_signal and pthread_cond_broadcast keeps it.
LEMMA CondSignalInv ==
    ASSUME PthreadIInv, NEW t \in Threads, CondSignal(t)
    PROVE  PthreadIInv'
<1> USE DEF CondSignal, LibraryOnly, kernel
<1>1. at[t] = "start" /\ Op(t) \in {"signal", "broadcast"} /\ chan[t] = None
  BY AtStart
<1>2. Others(t) /\ at'[t] = "wake" /\ at' \in [Threads -> Labels]
  BY GotoOthers DEF Labels
<1>3. PlaceOf(t)'
  BY <1>1, <1>2 DEF PlaceOf, Op, Wakes
<1>4. /\ word' \in [Addrs -> Nat] /\ word'["lock"] = word["lock"]
      /\ word'["once"] = word["once"] /\ word'["cycle"] = word["cycle"]
  <2>1. word["seq"] + 1 \in Nat /\ "seq" \in Addrs
    BY PthreadAssumption DEF PthreadIInv, Shapes
  <2> QED
    BY <2>1, PutWord
<1>5. /\ chan' = [u \in Threads |-> chan'[u]] /\ chan'[t] = None
      /\ UNCHANGED <<todo, reg, in_count, ran, join, value>>
  BY <1>1 DEF PthreadIInv, Shapes
<1> QED
  BY <1>1, <1>2, <1>3, <1>4, <1>5, QuietStay DEF Labels

\* Entering the barrier keeps it: the round that t reads is the current one.
LEMMA BarrierReadInv ==
    ASSUME PthreadIInv, NEW t \in Threads, BarrierRead(t)
    PROVE  PthreadIInv'
<1> USE DEF BarrierRead, Calls, LibraryOnly, kernel
<1>1. at[t] = "start" /\ Op(t) = "barrier" /\ chan[t] = None
  BY AtStart
<1>2. /\ reg' \in [Threads -> Nat] /\ reg'[t] = word["cycle"]
      /\ \A u \in Threads \ {t} : reg'[u] = reg[u]
  BY PthreadAssumption DEF PthreadIInv, Shapes
<1>3. Others(t) /\ at'[t] = "arrive" /\ at' \in [Threads -> Labels]
  BY <1>2, GotoOthers DEF Labels
<1>4. Stays(t) /\ Shapes' /\ Op(t)' = Op(t)
  BY <1>2, <1>3 DEF Stays, PthreadIInv, Shapes, Op
<1>5. PlaceOf(t)'
  BY <1>1, <1>3, <1>4 DEF PlaceOf
<1>6. OnceWord'
  BY <1>1, <1>3, <1>4, OnceStay
<1>7. Barrier'
  <2>1. ~Arrived(t) /\ ~Arrived(t)' /\ Rounds(t)' = Rounds(t)
    BY <1>1, <1>3 DEF Arrived, Rounds
  <2>2. t \notin Waiting /\ t \notin Waiting' /\ Due(t)' = Due(t)
    BY <2>1 DEF Waiting, Released, Due
  <2> QED
    BY <1>1, <1>2, <1>3, <2>2, BarrierKept
<1> QED
  BY <1>1, <1>3, <1>4, <1>5, <1>6, <1>7, StaysInv

\* The threads that wait are finitely many.
LEMMA WaitingFinite ==
    /\ IsFiniteSet(Threads) /\ IsFiniteSet(Waiting)
    /\ Cardinality(Waiting) \in Nat /\ Cardinality(Threads) \in Nat
<1>1. IsFiniteSet(Threads) /\ Waiting \subseteq Threads
  BY PthreadAssumption DEF Waiting
<1>2. IsFiniteSet(Waiting)
  BY <1>1, FS_Subset
<1> QED
  BY <1>1, <1>2, FS_CardinalityType

\* So are the barriers that a thread has before it.
LEMMA RoundsNat ==
    ASSUME PthreadIInv, NEW t \in Threads
    PROVE  Rounds(t) \in Nat
<1>1. todo[t] \in Seq(Ops)
  BY DEF PthreadIInv, Shapes
<1> QED
  BY <1>1, PlacesFinite DEF Rounds, Places1

\* Arriving keeps it: the count reaches the threshold only when everyone else
\* waits in the same round.
LEMMA BarrierArriveInv ==
    ASSUME PthreadIInv, NEW t \in Threads, BarrierArrive(t)
    PROVE  PthreadIInv'
<1> USE DEF BarrierArrive, LibraryOnly, kernel
<1>1. at[t] = "arrive" /\ Op(t) = "barrier" /\ chan[t] = None /\ reg[t] = word["cycle"]
  BY DEF PthreadIInv, Places, PlaceOf, Barrier, RoundOf
<1>2. PICK l \in {"reset", "loop"} : Goto(t, l) /\ (l = "reset" <=> IsLast)
  OBVIOUS
<1>3. Others(t) /\ at'[t] = l /\ at' \in [Threads -> Labels]
  BY <1>2, GotoOthers DEF Labels
<1>4. Stays(t) /\ Shapes' /\ Op(t)' = Op(t)
  BY <1>3 DEF Stays, PthreadIInv, Shapes, Op
<1>5. PlaceOf(t)'
  BY <1>1, <1>2, <1>3, <1>4 DEF PlaceOf
<1>6. OnceWord'
  BY <1>1, <1>2, <1>3, <1>4, OnceStay
<1>7. t \notin Waiting /\ Waiting # Threads
  BY <1>1 DEF Waiting, Arrived
<1>8. \A u \in Threads : at[u] \notin {"reset", "bump"}
  BY <1>7 DEF PthreadIInv, Barrier, RoundOf
<1>9. in_count = Cardinality(Waiting)
  BY <1>8 DEF PthreadIInv, Barrier
<1>10. ASSUME NEW u \in Threads \ {t}
       PROVE  /\ u \in Waiting' <=> u \in Waiting
              /\ Due(u)' = Due(u)
              /\ at'[u] = "arrive" <=> at[u] = "arrive"
              /\ at'[u] \notin {"reset", "bump"}
              /\ at'[u] \in {"wake", "wakeall"} => at[u] \in {"wake", "wakeall"}
              /\ Op(u)' = Op(u) /\ reg'[u] = reg[u]
  BY <1>3, <1>8, OthersRound
<1>11. Waiting' = Waiting \cup {t}
  <2>1. t \in Waiting'
    BY <1>1, <1>2, <1>3, <1>4 DEF Waiting, Arrived
  <2>2. Waiting \subseteq Threads /\ Waiting' \subseteq Threads
    BY DEF Waiting
  <2> QED
    BY <1>10, <2>1, <2>2
<1>12. Cardinality(Waiting') = in_count + 1 /\ in_count' = in_count + 1
  BY <1>7, <1>9, <1>11, WaitingFinite, FS_AddElement
<1>13. l = "reset" => Waiting' = Threads
  <2> SUFFICES ASSUME l = "reset" PROVE Waiting' = Threads
    OBVIOUS
  <2>1. Cardinality(Waiting') = Cardinality(Threads)
    BY <1>2, <1>12 DEF IsLast, threshold
  <2>2. Waiting' \subseteq Threads
    BY DEF Waiting
  <2> QED
    BY <2>1, <2>2, WaitingFinite, FS_Subset
<1>14. Due(t)' = Due(t)
  <2>1. ~Released(t) /\ ~Released(t)' /\ Rounds(t)' = Rounds(t)
    BY <1>1, <1>3, <1>4 DEF Released, Arrived, Rounds
  <2> QED
    BY <2>1 DEF Due
<1>15. Barrier'
  <2>1. \A u \in Threads : RoundOf(u)'
    <3>1. RoundOf(t)'
      BY <1>2, <1>3, <1>13 DEF RoundOf
    <3>2. ASSUME NEW u \in Threads \ {t} PROVE RoundOf(u)'
      BY <1>10 DEF RoundOf, PthreadIInv, Barrier
    <3> QED
      BY <3>1, <3>2
  <2>2. \A u, v \in Threads : at'[u] \in {"reset", "bump"} /\ at'[v] \in {"reset", "bump"} => u = v
    BY <1>10
  <2>3. \A u \in Threads : at'[u] # "bump"
    BY <1>2, <1>3, <1>10
  <2>4. in_count' = IF \E u \in Threads : at'[u] = "bump" THEN 0 ELSE Cardinality(Waiting')
    BY <1>12, <2>3
  <2>5. \A u, v \in Threads : Due(u)' = Due(v)'
    BY <1>10, <1>14 DEF PthreadIInv, Barrier
  <2> QED
    BY <2>1, <2>2, <2>4, <2>5 DEF Barrier
<1> QED
  BY <1>1, <1>2, <1>3, <1>4, <1>5, <1>6, <1>15, StaysInv

\* The last thread's reset of in_count keeps it: nobody arrives before the round
\* is over, for everyone waits in it.
LEMMA BarrierResetInv ==
    ASSUME PthreadIInv, NEW t \in Threads, BarrierReset(t)
    PROVE  PthreadIInv'
<1> USE DEF BarrierReset, LibraryOnly, kernel
<1>1. at[t] = "reset" /\ Op(t) = "barrier" /\ chan[t] = None /\ Waiting = Threads
  BY DEF PthreadIInv, Places, PlaceOf, Barrier, RoundOf
<1>2. Others(t) /\ at'[t] = "bump" /\ at' \in [Threads -> Labels]
  BY GotoOthers DEF Labels
<1>3. Stays(t) /\ Shapes' /\ Op(t)' = Op(t)
  BY <1>2 DEF Stays, PthreadIInv, Shapes, Op
<1>4. PlaceOf(t)'
  BY <1>1, <1>2, <1>3 DEF PlaceOf
<1>5. OnceWord'
  BY <1>1, <1>2, <1>3, OnceStay
<1>6. ASSUME NEW u \in Threads \ {t}
      PROVE  /\ u \in Waiting' /\ Due(u)' = Due(u)
             /\ at'[u] = "arrive" <=> at[u] = "arrive"
             /\ at'[u] \notin {"reset", "bump"}
             /\ at'[u] \in {"wake", "wakeall"} => at[u] \in {"wake", "wakeall"}
             /\ Op(u)' = Op(u) /\ reg'[u] = reg[u]
  <2>1. at[u] \notin {"reset", "bump"}
    BY <1>1 DEF PthreadIInv, Barrier
  <2> QED
    BY <1>1, <1>2, <2>1, OthersRound
<1>7. t \in Waiting' /\ Due(t)' = Due(t)
  <2>1. Arrived(t) /\ Arrived(t)' /\ reg[t] = word["cycle"]
    BY <1>1, <1>2, <1>3 DEF Waiting, Arrived
  <2>2. Rounds(t)' = Rounds(t) /\ ~Released(t) /\ ~Released(t)'
    BY <2>1 DEF Rounds, Released
  <2> QED
    BY <2>1, <2>2 DEF Waiting, Due
<1>8. Waiting' = Threads
  BY <1>6, <1>7 DEF Waiting
<1>9. Barrier'
  <2>1. ASSUME NEW u \in Threads PROVE RoundOf(u)'
    <3>1. RoundOf(u)
      BY DEF PthreadIInv, Barrier
    <3> QED
      BY <1>2, <1>6, <1>8, <3>1 DEF RoundOf
  <2>2. \A u, v \in Threads : at'[u] \in {"reset", "bump"} /\ at'[v] \in {"reset", "bump"} => u = v
    BY <1>6
  <2>3. in_count' = IF \E u \in Threads : at'[u] = "bump" THEN 0 ELSE Cardinality(Waiting')
    BY <1>2
  <2>4. \A u, v \in Threads : Due(u)' = Due(v)'
    BY <1>6, <1>7 DEF PthreadIInv, Barrier
  <2> QED
    BY <2>1, <2>2, <2>3, <2>4 DEF Barrier
<1>10. at[t] \notin {"tell", "gone"} /\ at'[t] \notin {"start", "tell", "gone"} /\ UNCHANGED <<join, value, word>>
  BY <1>1, <1>2
<1> QED
  BY <1>3, <1>4, <1>5, <1>9, <1>10, StaysInv

\* The next round keeps it: everyone who waits is let go at once, so all of
\* them owe one barrier less.
LEMMA BarrierBumpInv ==
    ASSUME PthreadIInv, NEW t \in Threads, BarrierBump(t)
    PROVE  PthreadIInv'
<1> USE DEF BarrierBump, LibraryOnly, kernel
<1>1. at[t] = "bump" /\ Op(t) = "barrier" /\ chan[t] = None /\ Waiting = Threads
  BY DEF PthreadIInv, Places, PlaceOf, Barrier, RoundOf
<1>2. Others(t) /\ at'[t] = "wake" /\ at' \in [Threads -> Labels]
  BY GotoOthers DEF Labels
<1>3. /\ word' \in [Addrs -> Nat] /\ word["cycle"] \in Nat /\ word'["cycle"] = word["cycle"] + 1
      /\ word'["lock"] = word["lock"] /\ word'["once"] = word["once"]
  <2>1. word["cycle"] \in Nat /\ word["cycle"] + 1 \in Nat /\ "cycle" \in Addrs
    BY PthreadAssumption DEF PthreadIInv, Shapes
  <2> QED
    BY <2>1, PutWord
<1>4. Stays(t) /\ Shapes' /\ Op(t)' = Op(t)
  BY <1>2, <1>3 DEF Stays, PthreadIInv, Shapes, Op
<1>5. PlaceOf(t)'
  BY <1>1, <1>2, <1>4 DEF PlaceOf, Wakes
<1>6. OnceWord'
  BY <1>1, <1>2, <1>3, <1>4, OnceStay
<1>7. ASSUME NEW u \in Threads
      PROVE  /\ Op(u)' = "barrier" /\ at'[u] \notin {"start", "arrive", "reset", "bump"}
             /\ reg'[u] # word'["cycle"] /\ Rounds(u)' = Rounds(u) /\ ~Released(u)
  <2>1. Arrived(u) /\ reg[u] = word["cycle"]
    BY <1>1 DEF Waiting
  <2>2. ~Released(u) /\ Op(u) = "barrier" /\ at[u] \notin {"start", "arrive"}
    BY <2>1 DEF Released, Arrived
  <2>3. u # t => at[u] \notin {"reset", "bump"}
    BY <1>1 DEF PthreadIInv, Barrier
  <2>4. Op(u)' = Op(u) /\ Rounds(u)' = Rounds(u)
    BY DEF Op, Rounds
  <2>5. reg'[u] = reg[u] /\ reg'[u] # word'["cycle"]
    BY <1>3, <2>1
  <2>6. at'[u] \notin {"start", "arrive", "reset", "bump"}
    BY <1>2, <2>2, <2>3 DEF Others
  <2> QED
    BY <2>2, <2>4, <2>5, <2>6
<1>8. \A u \in Threads : Released(u)'
  BY <1>7 DEF Released, Arrived
<1>9. Barrier'
  <2>1. Waiting' = {} /\ Cardinality(Waiting') = 0
    BY <1>7, FS_EmptySet DEF Waiting
  <2>2. \A u \in Threads : RoundOf(u)'
    BY <1>7 DEF RoundOf
  <2>3. \A u, v \in Threads : at'[u] \in {"reset", "bump"} /\ at'[v] \in {"reset", "bump"} => u = v
    BY <1>7
  <2>4. in_count' = IF \E u \in Threads : at'[u] = "bump" THEN 0 ELSE Cardinality(Waiting')
    BY <1>1, <2>1 DEF PthreadIInv, Barrier
  <2>5. \A u \in Threads : Due(u) = Rounds(u) - 0 /\ Due(u)' = Rounds(u) - 1
    BY <1>7, <1>8 DEF Due
  <2>6. \A u \in Threads : Rounds(u) \in Nat
    BY RoundsNat
  <2>7. \A u, v \in Threads : Due(u)' = Due(v)'
    BY <2>5, <2>6 DEF PthreadIInv, Barrier
  <2> QED
    BY <2>2, <2>3, <2>4, <2>7 DEF Barrier
<1>10. at[t] \notin {"tell", "gone"} /\ at'[t] \notin {"start", "tell", "gone"} /\ UNCHANGED <<join, value>>
  BY <1>1, <1>2
<1> QED
  BY <1>3, <1>4, <1>5, <1>6, <1>9, <1>10, StaysInv

\* The test of the round keeps it: only a thread let go leaves.
LEMMA BarrierLoopInv ==
    ASSUME PthreadIInv, NEW t \in Threads, BarrierLoop(t)
    PROVE  PthreadIInv'
<1> USE DEF BarrierLoop
<1>1. at[t] = "loop" /\ Op(t) = "barrier" /\ chan[t] = None /\ word \in [Addrs -> Nat]
  BY DEF PthreadIInv, Shapes, Places, PlaceOf
<1>2. /\ chan' = [u \in Threads |-> chan'[u]] /\ chan'[t] = None
      /\ UNCHANGED <<word, reg, in_count, ran, join, value>>
  BY <1>1 DEF PthreadIInv, Shapes
<1>3. CASE word["cycle"] = reg[t]
  <2>1. Goto(t, "fwait") /\ todo' = todo
    BY <1>3 DEF Enter
  <2>2. Others(t) /\ at'[t] = "fwait" /\ at' \in [Threads -> Labels]
    BY <2>1, GotoOthers DEF Labels
  <2>3. PlaceOf(t)'
    BY <1>1, <1>2, <2>1, <2>2 DEF PlaceOf, Op, Sleepers
  <2> HIDE DEF BarrierLoop
  <2> QED
    BY <1>1, <1>2, <2>1, <2>2, <2>3, QuietStay DEF Labels, Inside
<1>4. CASE word["cycle"] # reg[t]
  <2>1. Ends(t) /\ at' \in [Threads -> Labels] /\ todo' \in [Threads -> Seq(Ops)]
    BY <1>1, <1>4, DoneEnds
  <2>2. Shapes'
    BY <1>2, <2>1 DEF PthreadIInv, Shapes
  <2>3. Released(t)
    BY <1>1, <1>4 DEF Released, Arrived
  <2> HIDE DEF BarrierLoop
  <2> QED
    BY <1>1, <1>2, <2>1, <2>2, <2>3, EndsInv
<1> QED
  BY <1>3, <1>4

\* A step of the thread in pthread_once that runs the routine: what it leaves
\* alone is the same for every one of them.
LEMMA RoutineOthers ==
    ASSUME PthreadIInv, NEW t \in Threads, Stays(t), NEW u \in Threads
    PROVE  /\ Op(u)' = Op(u)
           /\ HasOnce(u)' <=> HasOnce(u)
           /\ u # t => (at'[u] = "init" <=> at[u] = "init") /\ (at'[u] = "publish" <=> at[u] = "publish")
           /\ u # t => (Runs(u)' <=> Runs(u))
           /\ u # t /\ at'[u] # "start" => at[u] # "start"
           /\ u # t /\ at'[u] \in {"wake", "wakeall"} => at[u] \in {"wake", "wakeall"}
BY DEF Stays, Others, Op, HasOnce, Runs

\* pthread_once keeps the invariant: the first thread becomes the one that runs
\* the routine, and no thread has passed it yet.
LEMMA OnceInv ==
    ASSUME PthreadIInv, NEW t \in Threads, Once(t)
    PROVE  PthreadIInv'
<1> USE DEF Once, Calls, LibraryOnly, kernel
<1>1. at[t] = "start" /\ Op(t) = "once" /\ chan[t] = None /\ word \in [Addrs -> Nat]
  BY AtStart DEF PthreadIInv, Shapes
<1>2. /\ chan' = [u \in Threads |-> chan'[u]] /\ chan'[t] = None
      /\ UNCHANGED <<reg, in_count, ran, join, value>>
  BY <1>1 DEF PthreadIInv, Shapes
<1>3. CASE word["once"] = 2
  <2>1. Ends(t) /\ at' \in [Threads -> Labels] /\ todo' \in [Threads -> Seq(Ops)] /\ word' = word
    BY <1>1, <1>3, DoneEnds
  <2>2. Shapes'
    BY <1>2, <2>1 DEF PthreadIInv, Shapes
  <2>3. /\ word'["once"] = word["once"] /\ word'["cycle"] = word["cycle"] /\ word'["lock"] = word["lock"]
        /\ word["once"] \notin {0, 1}
    BY <1>3, <2>1
  <2> HIDE DEF Once, Calls, LibraryOnly, kernel
  <2> QED
    BY <1>1, <1>2, <2>1, <2>2, <2>3, EndsInv
<1>4. CASE word["once"] = 1
  <2>1. Goto(t, "loop") /\ todo' = todo /\ word' = word
    BY <1>4
  <2>2. Others(t) /\ at'[t] = "loop" /\ at' \in [Threads -> Labels]
    BY <1>2, <2>1, GotoOthers DEF Labels
  <2>3. PlaceOf(t)'
    BY <1>1, <1>2, <2>1, <2>2 DEF PlaceOf, Op
  <2> HIDE DEF Once
  <2> QED
    BY <1>1, <1>2, <1>4, <2>1, <2>2, <2>3, QuietStay DEF Labels
<1>5. CASE word["once"] = 0
  <2>1. Goto(t, "init") /\ todo' = todo /\ Put("once", 1)
    BY <1>5
  <2>2. Others(t) /\ at'[t] = "init" /\ at' \in [Threads -> Labels]
    BY <1>2, <2>1, GotoOthers DEF Labels
  <2>3. /\ word' \in [Addrs -> Nat] /\ word'["once"] = 1
        /\ word'["lock"] = word["lock"] /\ word'["cycle"] = word["cycle"]
    BY <2>1, PutWord, PthreadAssumption
  <2>4. Stays(t) /\ Shapes'
    BY <1>2, <2>1, <2>2, <2>3 DEF Stays, PthreadIInv, Shapes
  <2>5. PlaceOf(t)'
    BY <1>1, <1>2, <2>1, <2>2 DEF PlaceOf, Op
  <2>6. /\ ran = 0
        /\ \A u \in Threads : ~Runs(u)
        /\ \A u \in Threads : HasOnce(u)
    <3>1. HasOnce(t)
      <4>1. todo[t] \in Seq(Ops) /\ todo[t] # << >> /\ Head(todo[t]) = "once"
        BY <1>1, AtStart DEF PthreadIInv, Shapes
      <4>2. 1 \in DOMAIN todo[t] /\ todo[t][1] = "once"
        BY <4>1, TailOf
      <4> QED
        BY <4>2 DEF HasOnce
    <3> QED
      BY <1>5, <3>1 DEF PthreadIInv, OnceWord, OnceFresh
  <2>7. Runs(t)' /\ \A u \in Threads \ {t} : ~Runs(u)'
    BY <2>2, <2>4, <2>6, RoutineOthers DEF Runs
  <2>8. OnceWord'
    <3>1. OnceFresh' /\ OnceOver'
      BY <2>3 DEF OnceFresh, OnceOver
    <3>2. OnceRunning'
      <4>1. \A u \in Threads : HasOnce(u)'
        BY <2>4, <2>6, RoutineOthers
      <4>2. \A u \in Threads : at'[u] # "publish"
        BY <2>2, <2>7 DEF Runs
      <4> QED
        BY <1>2, <2>6, <2>7, <4>1, <4>2 DEF OnceRunning
    <3>3. OneRunner'
      BY <2>7 DEF OneRunner
    <3>4. InOnce'
      <4>1. ASSUME NEW u \in Threads \ {t}, Op(u)' = "once", at'[u] # "start" PROVE FALSE
        <5>1. Op(u) = "once" /\ at[u] # "start"
          BY <2>4, <4>1, RoutineOthers
        <5> QED
          BY <1>5, <5>1 DEF PthreadIInv, OnceWord, InOnce
      <4> QED
        BY <2>2, <2>3, <4>1 DEF InOnce
    <3> QED
      BY <3>1, <3>2, <3>3, <3>4 DEF OnceWord
  <2>9. Barrier'
    BY <1>1, <1>2, <2>2, <2>3, <2>4, BarrierStay
  <2> HIDE DEF Once
  <2> QED
    BY <1>1, <1>2, <2>2, <2>3, <2>4, <2>5, <2>8, <2>9, StaysInv
<1> QED
  BY <1>3, <1>4, <1>5

\* The call of init_routine keeps it: the word is 1 and the routine has not run.
LEMMA OnceInitInv ==
    ASSUME PthreadIInv, NEW t \in Threads, OnceInit(t)
    PROVE  PthreadIInv'
<1> USE DEF OnceInit, LibraryOnly, kernel
<1>1. at[t] = "init" /\ Op(t) = "once" /\ chan[t] = None /\ Runs(t)
  BY DEF PthreadIInv, Places, PlaceOf, Runs
<1>2. word["once"] = 1 /\ ran = 0
  BY <1>1 DEF PthreadIInv, OnceWord, OnceFresh, OnceRunning, OnceOver
<1>3. Others(t) /\ at'[t] = "publish" /\ at' \in [Threads -> Labels]
  BY GotoOthers DEF Labels
<1>4. Stays(t) /\ Shapes'
  BY <1>3 DEF Stays, PthreadIInv, Shapes
<1>5. PlaceOf(t)'
  BY <1>1, <1>3 DEF PlaceOf, Op
<1>6. Runs(t)' /\ \A u \in Threads \ {t} : ~Runs(u) /\ ~Runs(u)'
  BY <1>1, <1>3, <1>4, RoutineOthers DEF Runs, PthreadIInv, OnceWord, OneRunner
<1>7. OnceWord'
  <2>1. word'["once"] = 1 /\ ran' = 1
    BY <1>2
  <2>2. OnceFresh' /\ OnceOver'
    BY <2>1 DEF OnceFresh, OnceOver
  <2>3. OnceRunning'
    <3>1. \A u \in Threads : HasOnce(u)'
      BY <1>2, <1>4, RoutineOthers DEF PthreadIInv, OnceWord, OnceRunning
    <3>2. \A u \in Threads : at'[u] # "init"
      BY <1>3, <1>6 DEF Runs
    <3> QED
      BY <1>6, <2>1, <3>1, <3>2 DEF OnceRunning
  <2>4. OneRunner'
    BY <1>6 DEF OneRunner
  <2>5. InOnce'
    <3>1. ASSUME NEW u \in Threads, Op(u)' = "once", at'[u] \in {"wake", "wakeall"} PROVE FALSE
      <4>1. u # t /\ Op(u) = "once" /\ at[u] \in {"wake", "wakeall"}
        BY <1>3, <1>4, <3>1, RoutineOthers
      <4> QED
        BY <1>2, <4>1 DEF PthreadIInv, OnceWord, InOnce
    <3> QED
      BY <2>1, <3>1 DEF InOnce
  <2> QED
    BY <2>2, <2>3, <2>4, <2>5 DEF OnceWord
<1>8. Barrier'
  BY <1>1, <1>3, <1>4, BarrierStay
<1> QED
  BY <1>1, <1>3, <1>4, <1>5, <1>7, <1>8, StaysInv

\* Publishing the end keeps it: the routine has run, and nobody else runs it.
LEMMA OncePublishInv ==
    ASSUME PthreadIInv, NEW t \in Threads, OncePublish(t)
    PROVE  PthreadIInv'
<1> USE DEF OncePublish, LibraryOnly, kernel
<1>1. at[t] = "publish" /\ Op(t) = "once" /\ chan[t] = None /\ Runs(t)
  BY DEF PthreadIInv, Places, PlaceOf, Runs
<1>2. word["once"] = 1 /\ ran = 1
  BY <1>1 DEF PthreadIInv, OnceWord, OnceFresh, OnceRunning, OnceOver
<1>3. Others(t) /\ at'[t] = "wake" /\ at' \in [Threads -> Labels]
  BY GotoOthers DEF Labels
<1>4. /\ word' \in [Addrs -> Nat] /\ word'["once"] = 2
      /\ word'["lock"] = word["lock"] /\ word'["cycle"] = word["cycle"]
  BY PutWord, PthreadAssumption
<1>5. Stays(t) /\ Shapes'
  BY <1>3, <1>4 DEF Stays, PthreadIInv, Shapes
<1>6. PlaceOf(t)'
  BY <1>1, <1>3 DEF PlaceOf, Op, Wakes
<1>7. \A u \in Threads : ~Runs(u)'
  <2>1. \A u \in Threads \ {t} : ~Runs(u)
    BY <1>1 DEF PthreadIInv, OnceWord, OneRunner
  <2> QED
    BY <1>3, <1>5, <2>1, RoutineOthers DEF Runs
<1>8. OnceWord'
  BY <1>2, <1>4, <1>7 DEF OnceWord, OnceFresh, OnceRunning, OnceOver, OneRunner, InOnce
<1>9. Barrier'
  BY <1>1, <1>3, <1>4, <1>5, BarrierStay
<1>10. UNCHANGED <<join, value>>
  OBVIOUS
<1> HIDE DEF OncePublish
<1> QED
  BY <1>1, <1>3, <1>4, <1>5, <1>6, <1>8, <1>9, <1>10, StaysInv

\* Waiting for the routine keeps it: only a word past 1 lets a thread out.
LEMMA OnceLoopInv ==
    ASSUME PthreadIInv, NEW t \in Threads, OnceLoop(t)
    PROVE  PthreadIInv'
<1> USE DEF OnceLoop
<1>1. /\ at[t] = "loop" /\ Op(t) = "once" /\ chan[t] = None /\ word \in [Addrs -> Nat]
      /\ word["once"] # 0
  BY DEF PthreadIInv, Shapes, Places, PlaceOf, OnceWord, InOnce
<1>2. /\ chan' = [u \in Threads |-> chan'[u]] /\ chan'[t] = None
      /\ UNCHANGED <<word, reg, in_count, ran, join, value>>
  BY <1>1 DEF PthreadIInv, Shapes
<1>3. CASE word["once"] = 1
  <2>1. Goto(t, "fwait") /\ todo' = todo
    BY <1>3 DEF Enter
  <2>2. Others(t) /\ at'[t] = "fwait" /\ at' \in [Threads -> Labels]
    BY <2>1, GotoOthers DEF Labels
  <2>3. PlaceOf(t)'
    BY <1>1, <1>2, <2>1, <2>2 DEF PlaceOf, Op, Sleepers
  <2> HIDE DEF OnceLoop
  <2> QED
    BY <1>1, <1>2, <2>1, <2>2, <2>3, QuietStay DEF Labels
<1>4. CASE word["once"] # 1
  <2>1. Ends(t) /\ at' \in [Threads -> Labels] /\ todo' \in [Threads -> Seq(Ops)]
    BY <1>1, <1>4, DoneEnds
  <2>2. Shapes'
    BY <1>2, <2>1 DEF PthreadIInv, Shapes
  <2> HIDE DEF OnceLoop
  <2> QED
    BY <1>1, <1>2, <1>4, <2>1, <2>2, EndsInv
<1> QED
  BY <1>3, <1>4

\* A thread that wakes the others has nothing left to do in its operation: the
\* routine has run, or the round is over.
LEMMA WakeOver ==
    ASSUME PthreadIInv, NEW t \in Threads, at[t] \in {"wake", "wakeall"}
    PROVE  /\ Op(t) \in Wakes /\ chan[t] = None
           /\ Op(t) = "once" => word["once"] \notin {0, 1}
           /\ Op(t) = "barrier" => Released(t)
<1>1. Op(t) \in Wakes /\ chan[t] = None
  BY DEF PthreadIInv, Places, PlaceOf
<1>2. Op(t) = "once" => word["once"] \notin {0, 1}
  BY DEF PthreadIInv, OnceWord, InOnce
<1>3. Op(t) = "barrier" => Released(t)
  BY DEF PthreadIInv, Barrier, RoundOf, Released, Arrived
<1> QED
  BY <1>1, <1>2, <1>3

\* FUTEX_WAKE keeps the invariant.
LEMMA WakeInv ==
    ASSUME PthreadIInv, NEW t \in Threads, Wake(t)
    PROVE  PthreadIInv'
<1> USE DEF Wake
<1>1. /\ at[t] = "wake" /\ Op(t) \in Wakes /\ chan[t] = None /\ word \in [Addrs -> Nat]
      /\ Op(t) = "once" => word["once"] \notin {0, 1}
      /\ Op(t) = "barrier" => Released(t)
  BY WakeOver DEF PthreadIInv, Shapes
<1>2. /\ chan' = [u \in Threads |-> chan'[u]] /\ chan'[t] = None
      /\ UNCHANGED <<word, reg, in_count, ran, join, value>>
  BY <1>1 DEF PthreadIInv, Shapes
<1>3. CASE Done(t)
  <2>1. Ends(t) /\ at' \in [Threads -> Labels] /\ todo' \in [Threads -> Seq(Ops)]
    BY <1>1, <1>3, DoneEnds DEF Wakes
  <2>2. Shapes'
    BY <1>2, <2>1 DEF PthreadIInv, Shapes
  <2> HIDE DEF Wake
  <2> QED
    BY <1>1, <1>2, <2>1, <2>2, EndsInv DEF Wakes
<1>4. CASE Goto(t, "wakeall") /\ todo' = todo
  <2>1. Others(t) /\ at'[t] = "wakeall" /\ at' \in [Threads -> Labels]
    BY <1>4, GotoOthers DEF Labels
  <2>2. PlaceOf(t)'
    BY <1>1, <1>2, <1>4, <2>1 DEF PlaceOf, Op
  <2> HIDE DEF Wake
  <2> QED
    BY <1>1, <1>2, <1>4, <2>1, <2>2, QuietStay DEF Labels
<1> QED
  BY <1>3, <1>4

\* sched_wake_all keeps it: the sleepers it wakes are where they were in their
\* operations.
LEMMA WakeAllInv ==
    ASSUME PthreadIInv, NEW t \in Threads, WakeAll(t)
    PROVE  PthreadIInv'
<1> USE DEF WakeAll
<1>1. /\ at[t] = "wakeall" /\ Op(t) \in Wakes /\ chan[t] = None
      /\ Op(t) = "once" => word["once"] \notin {0, 1}
      /\ Op(t) = "barrier" => Released(t)
  BY WakeOver
<1>2. PICK c \in Addrs : Rouse(t, c, "start") /\ c # None
  BY PthreadAssumption, FutexAssumption DEF WakeAddr
<1>3. todo \in [Threads -> Seq(Ops)] /\ todo[t] \in Seq(Ops) /\ todo[t] # << >>
  BY <1>1 DEF PthreadIInv, Shapes, Op, Wakes
<1>4. Tail(todo[t]) \in Seq(Ops)
  BY <1>3, TailOf
<1>5. todo' \in [Threads -> Seq(Ops)] /\ todo'[t] = Tail(todo[t])
      /\ \A u \in Threads \ {t} : todo'[u] = todo[u]
  BY <1>3, <1>4
<1>6. /\ Others(t) /\ at'[t] = "start" /\ at' \in [Threads -> Labels]
      /\ chan' = [u \in Threads |-> chan'[u]] /\ chan'[t] = None
  BY <1>1, <1>2, <1>5, RouseOthers DEF Labels
<1>7. Ends(t)
  BY <1>3, <1>5, <1>6 DEF Ends
<1>8. UNCHANGED <<word, reg, in_count, ran, join, value>>
  OBVIOUS
<1>9. Shapes'
  BY <1>5, <1>6, <1>8 DEF PthreadIInv, Shapes
<1> HIDE DEF WakeAll
<1> QED
  BY <1>1, <1>6, <1>7, <1>8, <1>9, EndsInv DEF Wakes

\* A thread inside FUTEX_WAIT that moves on inside it, or back to its caller's loop.
LEMMA InsideInv ==
    ASSUME PthreadIInv, NEW t \in Threads, NEW l \in Inside \cup {"xchg"}, Goto(t, l),
           at[t] \in Inside \ {"loop"}, l = "xchg" => Op(t) = "lock",
           l = "loop" => Op(t) \in {"barrier", "once"},
           UNCHANGED <<word, todo, reg, in_count, ran, join, value>>,
           chan' = [u \in Threads |-> chan'[u]], \A u \in Threads \ {t} : chan'[u] = chan[u],
           chan'[t] # None => l = "asleep"
    PROVE  PthreadIInv'
<1>1. Op(t) \in Sleepers /\ word \in [Addrs -> Nat] /\ (Op(t) = "once" => word["once"] # 0)
  BY DEF PthreadIInv, Shapes, Places, PlaceOf, OnceWord, InOnce, Inside
<1>2. l \in Labels
  BY DEF Inside, Labels
<1>3. Others(t) /\ at'[t] = l /\ at' \in [Threads -> Labels]
  BY <1>2, GotoOthers
<1>4. PlaceOf(t)'
  BY <1>1, <1>3 DEF PlaceOf, Op, Inside
<1>5. /\ at[t] \notin {"tell", "gone", "init", "publish"}
      /\ l \notin {"start", "tell", "gone", "init", "publish", "arrive", "reset", "bump", "wake", "wakeall"}
      /\ Op(t) = "barrier" => at[t] \in Inside /\ l \in Inside
  BY DEF Inside
<1> QED
  BY <1>1, <1>2, <1>3, <1>4, <1>5, QuietStay

\* The kernel's part of FUTEX_WAIT keeps the invariant, whatever slot it takes,
\* loses or clears.
LEMMA KernelInv ==
    ASSUME PthreadIInv, NEW t \in Threads, Kernel(t)
    PROVE  PthreadIInv'
<1>1. PICK l \in {"check", "return", "clear", "asleep"} :
          /\ Goto(t, l) /\ at[t] \in {"fwait", "check", "awake", "clear"}
          /\ chan' = chan \/ (l = "asleep" /\ chan' = [chan EXCEPT ![t] = fut[t].uaddr])
          /\ UNCHANGED <<word, todo, reg, in_count, ran, join, value>>
  BY DEF Kernel, TakeSlot, Check, Recheck, Clear
<1>2. chan[t] = None /\ chan = [u \in Threads |-> chan[u]]
  BY <1>1 DEF PthreadIInv, Shapes, Places, PlaceOf
<1>3. /\ chan' = [u \in Threads |-> chan'[u]]
      /\ \A u \in Threads \ {t} : chan'[u] = chan[u]
      /\ chan'[t] # None => l = "asleep"
  BY <1>1, <1>2
<1> QED
  BY <1>1, <1>3, InsideInv DEF Inside

\* The return from FUTEX_WAIT keeps it: a mutex, a barrier and a once are tested
\* again, and only a condition takes the return for a wake-up.
LEMMA ReturnInv ==
    ASSUME PthreadIInv, NEW t \in Threads, Return(t)
    PROVE  PthreadIInv'
<1> USE DEF Return
<1>1. at[t] = "return" /\ Op(t) \in Sleepers /\ chan[t] = None /\ chan = [u \in Threads |-> chan[u]]
  BY DEF PthreadIInv, Shapes, Places, PlaceOf
<1>2. UNCHANGED <<word, reg, in_count, ran, join, value, chan>>
  OBVIOUS
<1>3. CASE Op(t) \in {"wait", "timedwait"}
  <2>1. Ends(t) /\ at' \in [Threads -> Labels] /\ todo' \in [Threads -> Seq(Ops)]
    BY <1>3, DoneEnds
  <2>2. Shapes'
    BY <1>2, <2>1 DEF PthreadIInv, Shapes
  <2>3. chan'[t] = None
    BY <1>1, <1>2
  <2> HIDE DEF Return
  <2> QED
    BY <1>1, <1>2, <1>3, <2>1, <2>2, <2>3, EndsInv
<1>4. CASE Op(t) \notin {"wait", "timedwait"}
  <2>1. PICK l \in {"xchg", "loop"} : Goto(t, l) /\ (l = "xchg" <=> Op(t) = "lock") /\ todo' = todo
    BY <1>4
  <2>2. l = "loop" => Op(t) \in {"barrier", "once"}
    BY <1>1, <1>4, <2>1 DEF Sleepers
  <2>3. /\ chan' = [u \in Threads |-> chan'[u]] /\ chan'[t] = None
        /\ \A u \in Threads \ {t} : chan'[u] = chan[u]
    BY <1>1, <1>2
  <2> HIDE DEF Return
  <2> QED
    BY <1>1, <1>2, <2>1, <2>2, <2>3, InsideInv DEF Inside
<1> QED
  BY <1>3, <1>4

\* SYS_THREAD_EXIT keeps the invariant: the record is published, and no value of
\* the thread has been taken before.
LEMMA ExitInv ==
    ASSUME PthreadIInv, NEW t \in Threads, Exit(t)
    PROVE  PthreadIInv'
<1> USE DEF Exit, Calls, Publish
<1>1. at[t] = "start" /\ Op(t) = "exit" /\ chan[t] = None
  BY AtStart
<1>2. Others(t) /\ at'[t] = "tell" /\ at' \in [Threads -> Labels]
  BY GotoOthers DEF Labels
<1>3. join' \in [Threads -> {"running", "exited", "collected"}] /\ join'[t] = "exited"
      /\ \A u \in Threads \ {t} : join'[u] = join[u]
  BY DEF PthreadIInv, Shapes
<1>4. Stays(t) /\ Shapes'
  BY <1>2, <1>3 DEF Stays, PthreadIInv, Shapes
<1>5. PlaceOf(t)'
  BY <1>1, <1>2 DEF PlaceOf, Op
<1>6. Places'
  BY <1>4, <1>5, PlacesStay
<1>7. Held' /\ Exclusion'
  BY <1>2, MutexKept DEF HasMutex
<1>8. OnceWord'
  BY <1>1, <1>2, <1>4, OnceStay
<1>9. Barrier'
  BY <1>1, <1>2, <1>4, BarrierStay
<1>10. Records'
  <2>1. \A u \in Threads \ {t} : at'[u] \in {"tell", "gone"} <=> at[u] \in {"tell", "gone"}
    BY <1>2 DEF Others
  <2>2. join[t] = "running" /\ \A u \in Threads : JoinOf[u] \in Threads
    BY <1>1, PthreadAssumption DEF PthreadIInv, Records
  <2>3. \A u \in Threads : value[u] => JoinOf[u] # t
    BY <2>2 DEF PthreadIInv, Records
  <2>4. ASSUME NEW u \in Threads
        PROVE  /\ join'[u] # "running" <=> at'[u] \in {"tell", "gone"}
               /\ value'[u] => join'[JoinOf[u]] = "collected"
    BY <1>2, <1>3, <2>1, <2>2, <2>3 DEF PthreadIInv, Records
  <2>5. \A u, v \in Threads : value'[u] /\ value'[v] /\ JoinOf[u] = JoinOf[v] => u = v
    BY DEF PthreadIInv, Records
  <2> QED
    BY <2>4, <2>5 DEF Records
<1> QED
  BY <1>4, <1>6, <1>7, <1>8, <1>9, <1>10 DEF PthreadIInv

\* The wake-up of the joiners keeps it: pthread_exit was the last operation.
LEMMA ExitTellInv ==
    ASSUME PthreadIInv, NEW t \in Threads, ExitTell(t)
    PROVE  PthreadIInv'
<1> USE DEF ExitTell
<1>1. at[t] = "tell" /\ Op(t) = "exit" /\ chan[t] = None /\ t # None
  BY FutexAssumption DEF PthreadIInv, Places, PlaceOf
<1>2. /\ todo \in [Threads -> Seq(Ops)] /\ todo[t] \in Seq(Ops) /\ todo[t] # << >>
      /\ Head(todo[t]) = "exit" /\ Tail(todo[t]) = << >> /\ << >> \in Seq(Ops)
  <2>1. todo \in [Threads -> Seq(Ops)] /\ todo[t] \in Seq(Ops) /\ todo[t] # << >> /\ Head(todo[t]) = "exit"
    BY <1>1 DEF PthreadIInv, Shapes, Op
  <2>2. Tail(todo[t]) = << >>
    BY <2>1, RestOfTail DEF PthreadIInv, Places
  <2>3. Tail(todo[t]) \in Seq(Ops)
    BY <2>1, TailOf
  <2> QED
    BY <2>1, <2>2, <2>3
<1>3. todo' \in [Threads -> Seq(Ops)] /\ todo'[t] = Tail(todo[t])
      /\ \A u \in Threads \ {t} : todo'[u] = todo[u]
  BY <1>2
<1>4. /\ Others(t) /\ at'[t] = "gone" /\ at' \in [Threads -> Labels]
      /\ chan' = [u \in Threads |-> chan'[u]] /\ chan'[t] = None
  BY <1>1, <1>3, RouseOthers DEF Labels
<1>5. Shapes'
  BY <1>3, <1>4 DEF PthreadIInv, Shapes
<1>6. Op(t)' = "none" /\ \A u \in Threads \ {t} : Op(u)' = Op(u)
  BY <1>2, <1>3 DEF Op
<1>7. Places'
  <2>1. ASSUME NEW u \in Threads \ {t} PROVE Rest(todo[u])' /\ PlaceOf(u)'
    <3>1. Rest(todo[u]) /\ PlaceOf(u) /\ todo'[u] = todo[u] /\ Op(u)' = Op(u)
      BY <1>3, <1>6 DEF PthreadIInv, Places
    <3> QED
      BY <1>4, <3>1 DEF Others, PlaceOf
  <2>2. Rest(todo[t])' /\ PlaceOf(t)'
    BY <1>2, <1>3, <1>4, <1>6 DEF Rest, PlaceOf
  <2> QED
    BY <2>1, <2>2 DEF Places
<1>8. Held' /\ Exclusion'
  BY <1>4, MutexKept DEF HasMutex
<1>9. Records'
  BY <1>1, <1>4, RecordsKept
<1>10. OnceWord'
  <2>1. HasOnce(t)' <=> HasOnce(t)
    <3>1. (\E i \in DOMAIN Tail(todo[t]) : Tail(todo[t])[i] = "once")
            <=> (\E i \in DOMAIN todo[t] : todo[t][i] = "once")
      BY <1>2, LeftTail
    <3> QED
      BY <1>3, <3>1 DEF HasOnce
  <2>2. \A u \in Threads : /\ HasOnce(u)' <=> HasOnce(u)
                           /\ Runs(u)' <=> Runs(u)
                           /\ at'[u] = "init" <=> at[u] = "init"
                           /\ at'[u] = "publish" <=> at[u] = "publish"
                           /\ u # t /\ at'[u] # "start" => at[u] # "start"
                           /\ u # t /\ at'[u] \in {"wake", "wakeall"} => at[u] \in {"wake", "wakeall"}
    BY <1>1, <1>4, <2>1 DEF Others, Runs, HasOnce
  <2>3. OnceFresh' /\ OnceOver' /\ OneRunner'
    BY <2>2 DEF PthreadIInv, OnceWord, OnceFresh, OnceOver, OneRunner
  <2>4. OnceRunning'
    BY <2>2 DEF PthreadIInv, OnceWord, OnceRunning
  <2>5. InOnce'
    BY <1>6, <2>2 DEF PthreadIInv, OnceWord, InOnce
  <2> QED
    BY <2>3, <2>4, <2>5 DEF OnceWord
<1>11. Barrier'
  <2>1. ~Arrived(t) /\ ~Arrived(t)'
    BY <1>1, <1>6 DEF Arrived
  <2>2. Rounds(t)' = Rounds(t)
    <3>1. Cardinality(Places1(Tail(todo[t]), "barrier")) = Cardinality(Places1(todo[t], "barrier"))
      BY <1>2, CountTail
    <3> QED
      BY <1>3, <3>1 DEF Rounds, Places1
  <2>3. t \notin Waiting /\ t \notin Waiting' /\ Due(t)' = Due(t)
    BY <2>1, <2>2 DEF Waiting, Released, Due
  <2> QED
    BY <1>1, <1>4, <2>3, BarrierKept
<1> QED
  BY <1>5, <1>7, <1>8, <1>9, <1>10, <1>11 DEF PthreadIInv

\* A step of t inside SYS_THREAD_JOIN that touches no record.
LEMMA JoinMove ==
    ASSUME PthreadIInv, NEW t \in Threads, NEW l \in {"jcheck", "jasleep", "jtake", "jreturn"},
           Goto(t, l), Op(t) = "join", at[t] \in {"start", "jcheck", "jasleep", "jtake"},
           UNCHANGED <<word, todo, reg, in_count, ran, join, value>>,
           chan' = [u \in Threads |-> chan'[u]], \A u \in Threads \ {t} : chan'[u] = chan[u],
           chan'[t] # None => l = "jasleep"
    PROVE  PthreadIInv'
<1>1. word \in [Addrs -> Nat] /\ l \in Labels
  BY DEF PthreadIInv, Shapes, Labels
<1>2. Others(t) /\ at'[t] = l /\ at' \in [Threads -> Labels]
  BY <1>1, GotoOthers
<1>3. PlaceOf(t)'
  BY <1>2 DEF PlaceOf, Op
<1> QED
  BY <1>1, <1>2, <1>3, QuietStay

\* SYS_THREAD_JOIN keeps the invariant: the value goes to the joiner that finds
\* the record published, and the record is gone with it.
LEMMA JoinInv ==
    ASSUME PthreadIInv, NEW t \in Threads, Join(t)
    PROVE  PthreadIInv'
<1> DEFINE w == JoinOf[t]
<1>1. /\ w \in Threads /\ chan = [u \in Threads |-> chan[u]]
      /\ join \in [Threads -> {"running", "exited", "collected"}] /\ value \in [Threads -> BOOLEAN]
  BY PthreadAssumption DEF PthreadIInv, Shapes
<1>2. CASE Calls(t, "join") /\ JoinFind(t, w) /\ value' = value
  <2>1. at[t] = "start" /\ Op(t) = "join" /\ chan[t] = None
    BY <1>2, AtStart DEF Calls
  <2>2. PICK l \in {"jcheck", "jreturn"} : Goto(t, l)
    BY <1>2 DEF JoinFind
  <2>3. UNCHANGED <<word, todo, reg, in_count, ran, join, value, chan>>
    BY <1>2 DEF Join, JoinFind, kernel
  <2> QED
    BY <1>1, <2>1, <2>2, <2>3, JoinMove
<1>3. CASE JoinCheck(t, w) /\ value' = value
  <2>1. at[t] = "jcheck" /\ Op(t) = "join" /\ chan[t] = None
    BY <1>3 DEF JoinCheck, PthreadIInv, Places, PlaceOf
  <2>2. PICK l \in {"jtake", "jreturn", "jasleep"} :
            Goto(t, l) /\ (chan' = chan \/ (l = "jasleep" /\ chan' = [chan EXCEPT ![t] = w]))
    BY <1>3 DEF JoinCheck
  <2>3. UNCHANGED <<word, todo, reg, in_count, ran, join, value>>
    BY <1>3 DEF Join, JoinCheck
  <2>4. /\ chan' = [u \in Threads |-> chan'[u]]
        /\ \A u \in Threads \ {t} : chan'[u] = chan[u]
        /\ chan'[t] # None => l = "jasleep"
    BY <1>1, <2>1, <2>2
  <2> QED
    BY <2>1, <2>2, <2>3, <2>4, JoinMove
<1>4. CASE JoinTake(t, w) /\ value' = [value EXCEPT ![t] = Takes(w)]
  <2>1. at[t] = "jtake" /\ Op(t) = "join" /\ chan[t] = None
    BY <1>4 DEF JoinTake, PthreadIInv, Places, PlaceOf
  <2>2. UNCHANGED <<word, todo, reg, in_count, ran, chan>> /\ Goto(t, "jreturn")
    BY <1>4 DEF Join, JoinTake
  <2>3. Others(t) /\ at'[t] = "jreturn" /\ at' \in [Threads -> Labels]
    BY <2>2, GotoOthers DEF Labels
  <2>4. /\ join' \in [Threads -> {"running", "exited", "collected"}]
        /\ \A u \in Threads : join'[u] = IF u = w /\ join[w] = "exited" THEN "collected" ELSE join[u]
    BY <1>1, <1>4 DEF JoinTake, Takes
  <2>5. /\ value' \in [Threads -> BOOLEAN] /\ value'[t] = (join[w] = "exited")
        /\ \A u \in Threads \ {t} : value'[u] = value[u]
    <3>1. Takes(w) \in BOOLEAN
      BY DEF Takes
    <3> QED
      BY <1>1, <1>4, <3>1 DEF Takes
  <2>6. Stays(t) /\ Shapes'
    BY <2>2, <2>3, <2>4, <2>5 DEF Stays, PthreadIInv, Shapes
  <2>7. PlaceOf(t)'
    BY <2>1, <2>2, <2>3 DEF PlaceOf, Op
  <2>8. Places'
    BY <2>6, <2>7, PlacesStay
  <2>9. Held' /\ Exclusion'
    BY <2>2, <2>3, MutexKept DEF HasMutex
  <2>10. OnceWord'
    BY <2>1, <2>2, <2>3, <2>6, OnceStay
  <2>11. Barrier'
    BY <2>1, <2>2, <2>3, <2>6, BarrierStay
  <2>12. Records'
    <3>1. \A u \in Threads : at'[u] \in {"tell", "gone"} <=> at[u] \in {"tell", "gone"}
      BY <2>1, <2>3 DEF Others
    <3>2. \A u \in Threads : JoinOf[u] \in Threads
      BY PthreadAssumption
    <3>3. ASSUME NEW u \in Threads PROVE join'[u] # "running" <=> at'[u] \in {"tell", "gone"}
      <4>1. join[u] # "running" <=> at[u] \in {"tell", "gone"}
        BY DEF PthreadIInv, Records
      <4> QED
        BY <2>4, <3>1, <4>1
    <3>4. ASSUME NEW u \in Threads, value'[u] PROVE join'[JoinOf[u]] = "collected"
      <4>1. CASE u = t
        BY <1>1, <2>4, <2>5, <3>4, <4>1
      <4>2. CASE u # t
        <5>1. value[u] /\ join[JoinOf[u]] = "collected"
          BY <2>5, <3>4, <4>2 DEF PthreadIInv, Records
        <5> QED
          BY <2>4, <3>2, <5>1
      <4> QED
        BY <4>1, <4>2
    <3>5. ASSUME NEW u \in Threads \ {t}, value'[u], value'[t], JoinOf[u] = w PROVE FALSE
      <4>1. join[w] = "exited" /\ value[u]
        BY <2>5, <3>5
      <4>2. join[w] = "collected"
        BY <3>5, <4>1 DEF PthreadIInv, Records
      <4> QED
        BY <4>1, <4>2
    <3>6. \A u, v \in Threads \ {t} : value'[u] /\ value'[v] /\ JoinOf[u] = JoinOf[v] => u = v
      BY <2>5 DEF PthreadIInv, Records
    <3>7. \A u, v \in Threads : value'[u] /\ value'[v] /\ JoinOf[u] = JoinOf[v] => u = v
      BY <3>5, <3>6
    <3> QED
      BY <3>3, <3>4, <3>7 DEF Records
  <2> QED
    BY <2>6, <2>8, <2>9, <2>10, <2>11, <2>12 DEF PthreadIInv
<1> QED
  BY <1>2, <1>3, <1>4 DEF Join

\* So does its return.
LEMMA JoinReturnInv ==
    ASSUME PthreadIInv, NEW t \in Threads, JoinReturn(t)
    PROVE  PthreadIInv'
<1> USE DEF JoinReturn
<1>1. at[t] = "jreturn" /\ Op(t) = "join" /\ chan[t] = None
  BY DEF PthreadIInv, Places, PlaceOf
<1>2. UNCHANGED <<word, reg, in_count, ran, join, value, chan>> /\ chan'[t] = None
  BY <1>1
<1>3. Ends(t) /\ at' \in [Threads -> Labels] /\ todo' \in [Threads -> Seq(Ops)]
  BY <1>1, DoneEnds
<1>4. Shapes'
  BY <1>2, <1>3 DEF PthreadIInv, Shapes
<1> HIDE DEF JoinReturn
<1> QED
  BY <1>1, <1>2, <1>3, <1>4, EndsInv

\* The invariant does not depend on the waiter table, the signals or the deadlines.
LEMMA PthreadStutter ==
    ASSUME PthreadIInv, UNCHANGED <<word, at, todo, reg, in_count, ran, value, chan, join>>
    PROVE  PthreadIInv'
<1>1. Shapes' /\ Held' /\ Exclusion' /\ Records'
  BY DEF PthreadIInv, Shapes, Held, Exclusion, HasMutex, Op, Records
<1>2. Places'
  BY DEF PthreadIInv, Places, PlaceOf, Op
<1>3. OnceWord'
  BY DEF PthreadIInv, OnceWord, OnceFresh, OnceRunning, OnceOver, OneRunner, InOnce, HasOnce, Runs, Op
<1>4. Barrier'
  <2>1. \A t \in Threads : (Arrived(t)' <=> Arrived(t)) /\ Rounds(t)' = Rounds(t) /\ Op(t)' = Op(t)
    BY DEF Arrived, Rounds, Op
  <2>2. Waiting' = Waiting /\ \A t \in Threads : Released(t)' <=> Released(t)
    BY <2>1 DEF Waiting, Released
  <2>3. \A t \in Threads : Due(t)' = Due(t)
    BY <2>1, <2>2 DEF Due
  <2> QED
    BY <2>1, <2>2, <2>3 DEF PthreadIInv, Barrier, RoundOf
<1> QED
  BY <1>1, <1>2, <1>3, <1>4 DEF PthreadIInv

\* A signal takes its thread out of its sleep, and no further; a deadline does
\* nothing by itself.
LEMMA OutsideInv ==
    ASSUME PthreadIInv, NEW t \in Threads, Outside(t)
    PROVE  PthreadIInv'
<1>1. UNCHANGED <<word, todo, reg, in_count, ran, join, value>>
  BY DEF Outside, Signal, Deadline
<1>2. CASE UNCHANGED <<at, chan>>
  BY <1>1, <1>2, PthreadStutter
<1>3. CASE /\ chan[t] # None /\ chan' = [chan EXCEPT ![t] = None]
           /\ Goto(t, IF at[t] = "asleep" THEN "awake" ELSE "jcheck")
  <2>1. chan = [u \in Threads |-> chan[u]] /\ at[t] \in {"asleep", "jasleep"} /\ Op(t) \in Sleepers \cup {"join"}
    BY <1>3 DEF PthreadIInv, Shapes, Places, PlaceOf
  <2>2. /\ chan' = [u \in Threads |-> chan'[u]] /\ chan'[t] = None
        /\ \A u \in Threads \ {t} : chan'[u] = chan[u]
    BY <1>3, <2>1
  <2>3. CASE at[t] = "asleep"
    BY <1>1, <1>3, <2>2, <2>3, InsideInv DEF Inside
  <2>4. CASE at[t] = "jasleep"
    <3>1. Op(t) = "join" /\ Goto(t, "jcheck")
      BY <1>3, <2>4 DEF PthreadIInv, Places, PlaceOf
    <3> QED
      BY <1>1, <2>2, <2>4, <3>1, JoinMove
  <2> QED
    BY <2>1, <2>3, <2>4
<1> QED
  BY <1>2, <1>3 DEF Outside, Signal, Deadline

-----------------------------------------------------------------------------
(* The invariant holds initially, and every step keeps it                  *)

\* The process starts with every word 0, every thread before its program, and
\* the same number of barriers and of once calls in all programs.
LEMMA PthreadInitInv == Init => PthreadIInv
<1> SUFFICES ASSUME Init PROVE PthreadIInv
  OBVIOUS
<1> USE DEF Init, KernelInit
<1>1. /\ todo \in [Threads -> Seq(Ops)]
      /\ \A t \in Threads : WellFormed(todo[t])
      /\ \A t, u \in Threads : Cardinality(Places1(todo[t], "once")) = Cardinality(Places1(todo[u], "once"))
      /\ \A t, u \in Threads : Rounds(t) = Rounds(u)
  <2> DEFINE same(op) == \A t, u \in Threads :
        Cardinality({i \in DOMAIN todo[t] : todo[t][i] = op}) = Cardinality({i \in DOMAIN todo[u] : todo[u][i] = op})
  <2>1. todo \in [Threads -> Seq(Ops)] /\ \A t \in Threads : WellFormed(todo[t])
    BY PthreadAssumption
  <2>2. same("once") /\ same("barrier")
    BY PthreadAssumption
  <2> QED
    BY <2>1, <2>2 DEF Places1, Rounds
<1>2. /\ word \in [Addrs -> Nat] /\ word["lock"] = 0 /\ word["once"] = 0 /\ word["cycle"] = 0
      /\ \A t \in Threads : at[t] = "start" /\ chan[t] = None /\ reg[t] = 0 /\ ~value[t] /\ join[t] = "running"
  BY PthreadAssumption
<1>3. Shapes
  <2>1. at \in [Threads -> Labels]
    BY DEF Labels
  <2>2. chan = [t \in Threads |-> chan[t]]
    OBVIOUS
  <2>3. /\ reg \in [Threads -> Nat] /\ join \in [Threads -> {"running", "exited", "collected"}]
        /\ value \in [Threads -> BOOLEAN] /\ in_count \in Nat /\ ran \in Nat
    OBVIOUS
  <2> QED
    BY <1>1, <1>2, <2>1, <2>2, <2>3 DEF Shapes
<1>4. Places
  <2>1. ASSUME NEW t \in Threads PROVE Rest(todo[t])
    BY <1>1 DEF WellFormed, Rest
  <2> QED
    BY <1>2, <2>1 DEF Places, PlaceOf
<1>5. \A t \in Threads : ~HasMutex(t)
  <2> SUFFICES ASSUME NEW t \in Threads PROVE Op(t) \notin {"seq", "unlock"}
    BY DEF HasMutex
  <2>1. CASE todo[t] = << >>
    BY <2>1 DEF Op
  <2>2. CASE todo[t] # << >>
    <3>1. todo[t] \in Seq(Ops) /\ 1 \in DOMAIN todo[t] /\ Op(t) = todo[t][1]
      BY <1>1, <2>2 DEF Op
    <3>2. todo[t][1] \notin {"seq", "unlock"}
      BY <1>1, <3>1 DEF WellFormed
    <3> QED
      BY <3>1, <3>2
  <2> QED
    BY <2>1, <2>2
<1>6. Held /\ Exclusion
  BY <1>5 DEF Held, Exclusion
<1>7. OnceWord
  <2>1. ASSUME NEW t \in Threads PROVE HasOnce(t) <=> Cardinality(Places1(todo[t], "once")) # 0
    <3>1. IsFiniteSet(Places1(todo[t], "once"))
      BY <1>1, PlacesFinite
    <3>2. Cardinality(Places1(todo[t], "once")) = 0 <=> Places1(todo[t], "once") = {}
      BY <3>1, FS_EmptySet
    <3>3. HasOnce(t) <=> Places1(todo[t], "once") # {}
      BY DEF HasOnce, Places1
    <3> QED
      BY <3>2, <3>3
  <2>2. \A t, u \in Threads : HasOnce(t) => HasOnce(u)
    BY <1>1, <2>1
  <2>3. OnceFresh
    BY <1>2, <2>2 DEF OnceFresh, Runs
  <2>4. OnceRunning /\ OnceOver
    BY <1>2 DEF OnceRunning, OnceOver
  <2>5. OneRunner /\ InOnce
    BY <1>2 DEF OneRunner, InOnce, Runs
  <2> QED
    BY <2>3, <2>4, <2>5 DEF OnceWord
<1>8. Records
  BY <1>2 DEF Records
<1>9. Barrier
  <2>1. \A t \in Threads : ~Arrived(t) /\ ~Released(t)
    BY <1>2 DEF Arrived, Released
  <2>2. Waiting = {} /\ Cardinality(Waiting) = 0
    BY <2>1, FS_EmptySet DEF Waiting
  <2>3. \A t \in Threads : RoundOf(t)
    BY <1>2 DEF RoundOf
  <2>4. \A t, u \in Threads : Due(t) = Due(u)
    <3>1. \A t \in Threads : Due(t) = Rounds(t) - 0
      BY <2>1 DEF Due
    <3> QED
      BY <1>1, <3>1
  <2>5. in_count = IF \E t \in Threads : at[t] = "bump" THEN 0 ELSE Cardinality(Waiting)
    BY <2>2
  <2>6. \A t, u \in Threads : at[t] \in {"reset", "bump"} /\ at[u] \in {"reset", "bump"} => t = u
    BY <1>2
  <2> QED
    BY <2>3, <2>4, <2>5, <2>6 DEF Barrier
<1> QED
  BY <1>3, <1>4, <1>6, <1>7, <1>8, <1>9 DEF PthreadIInv

\* Every step of every thread, and of the kernel for it, keeps the invariant.
LEMMA PthreadStepInv == PthreadIInv /\ [Next]_vars => PthreadIInv'
<1> SUFFICES ASSUME PthreadIInv, [Next]_vars PROVE PthreadIInv'
  OBVIOUS
<1>1. CASE UNCHANGED vars
  BY <1>1, PthreadStutter DEF vars, kernel
<1>2. ASSUME NEW t \in Threads, Outside(t) PROVE PthreadIInv'
  BY <1>2, OutsideInv
<1>3. ASSUME NEW t \in Threads, Step(t) PROVE PthreadIInv'
  <2>1. CASE Lock(t) \/ LockExchange(t) \/ TryLock(t) \/ Unlock(t)
    BY <2>1, LockInv, LockExchangeInv, TryLockInv, UnlockInv
  <2>2. CASE ReadSeq(t) \/ CondWait(t) \/ CondSignal(t)
    BY <2>2, ReadSeqInv, CondWaitInv, CondSignalInv
  <2>3. CASE BarrierRead(t) \/ BarrierArrive(t) \/ BarrierReset(t) \/ BarrierBump(t) \/ BarrierLoop(t)
    BY <2>3, BarrierReadInv, BarrierArriveInv, BarrierResetInv, BarrierBumpInv, BarrierLoopInv
  <2>4. CASE Once(t) \/ OnceInit(t) \/ OncePublish(t) \/ OnceLoop(t)
    BY <2>4, OnceInv, OnceInitInv, OncePublishInv, OnceLoopInv
  <2>5. CASE Wake(t) \/ WakeAll(t) \/ Return(t)
    BY <2>5, WakeInv, WakeAllInv, ReturnInv
  <2>6. CASE Exit(t) \/ ExitTell(t) \/ Join(t) \/ JoinReturn(t)
    BY <2>6, ExitInv, ExitTellInv, JoinInv, JoinReturnInv
  <2>7. CASE Kernel(t)
    BY <2>7, KernelInv
  <2> QED
    BY <1>3, <2>1, <2>2, <2>3, <2>4, <2>5, <2>6, <2>7 DEF Step
<1> QED
  BY <1>1, <1>2, <1>3 DEF Next

(* The inductive invariant of the library and the kernel below it: every   *)
(* step of pthread.h, of SYS_FUTEX and of SYS_THREAD_JOIN keeps it.        *)
THEOREM PthreadInvariance == Spec => []PthreadIInv
<1>1. PthreadIInv /\ [Next]_vars => PthreadIInv'
  BY PthreadStepInv
<1> QED
  BY <1>1, PthreadInitInv, PTL DEF Spec

(* pthread_mutex_lock and pthread_mutex_trylock give the mutex to one      *)
(* thread at a time, for any number of threads, of waiter slots and of     *)
(* signals, and whatever FUTEX_WAIT returns.                               *)
THEOREM MutexExclusive == Spec => []Exclusion
<1>1. PthreadIInv => Exclusion
  BY DEF PthreadIInv
<1> QED
  BY <1>1, PthreadInvariance, PTL

(* pthread_barrier_wait lets nobody go before every thread of the process  *)
(* has arrived in the same round, however often the barrier is used.       *)
THEOREM BarrierHolds == Spec => []BarrierTogether
<1>1. PthreadIInv => BarrierTogether
  <2> SUFFICES ASSUME PthreadIInv, NEW t \in Threads, NEW u \in Threads, Rounds(t) < Rounds(u)
               PROVE  Arrived(u) /\ Rounds(u) = Rounds(t) + 1
    BY DEF BarrierTogether
  <2>1. Rounds(t) \in Nat /\ Rounds(u) \in Nat /\ Due(t) = Due(u)
    BY RoundsNat DEF PthreadIInv, Barrier
  <2>2. Released(u) /\ ~Released(t)
    BY <2>1 DEF Due
  <2>3. Due(u) = Rounds(u) - 1 /\ Due(t) = Rounds(t) - 0
    BY <2>2 DEF Due
  <2>4. Rounds(u) = Rounds(t) + 1
    BY <2>1, <2>3
  <2> QED
    BY <2>2, <2>4 DEF Released
<1> QED
  BY <1>1, PthreadInvariance, PTL

(* init_routine is called at most once, and no pthread_once returns before *)
(* that call has.                                                          *)
THEOREM OnceRuns == Spec => []OnceDone
<1>1. PthreadIInv => OnceDone
  <2> SUFFICES ASSUME PthreadIInv PROVE OnceDone
    OBVIOUS
  <2>1. ran \in Nat /\ (ran = 0 \/ ran = 1)
    BY DEF PthreadIInv, Shapes, OnceWord, OnceFresh, OnceRunning, OnceOver, Runs
  <2>2. ASSUME NEW t \in Threads, PastOnce(t) PROVE ran = 1
    <3>1. ~HasOnce(t) /\ word["once"] # 0
      BY <2>2 DEF PastOnce, HasOnce
    <3>2. word["once"] # 1
      BY <3>1 DEF PthreadIInv, OnceWord, OnceRunning
    <3> QED
      BY <3>1, <3>2 DEF PthreadIInv, OnceWord, OnceOver
  <2>3. ran <= 1
    BY <2>1
  <2> QED
    BY <2>2, <2>3 DEF OnceDone
<1> QED
  BY <1>1, PthreadInvariance, PTL

(* SYS_THREAD_JOIN gives a thread's exit value to one joiner at most, and  *)
(* only after the thread has published it.                                 *)
THEOREM JoinExclusive == Spec => []JoinOnce
<1>1. PthreadIInv => JoinOnce
  <2> SUFFICES ASSUME PthreadIInv, NEW t \in Threads, NEW u \in Threads, value[t]
               PROVE  /\ at[JoinOf[t]] \in {"tell", "gone"}
                      /\ value[u] /\ JoinOf[t] = JoinOf[u] => t = u
    BY DEF JoinOnce
  <2>1. JoinOf[t] \in Threads /\ join[JoinOf[t]] = "collected"
    BY PthreadAssumption DEF PthreadIInv, Records
  <2> QED
    BY <2>1 DEF PthreadIInv, Records
<1> QED
  BY <1>1, PthreadInvariance, PTL
=============================================================================
