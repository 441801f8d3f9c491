--------------------------- MODULE MCPthread ---------------------------
(* Three threads.  They run one of two programs, which between them use    *)
(* every operation; or they only lock and unlock, as the repository's own  *)
(* test does.                                                              *)
EXTENDS Pthread

Condition == [t1 |-> <<"lock", "unlock", "exit">>,
              t2 |-> <<"lock", "seq", "unlock", "timedwait", "lock", "unlock", "join", "exit">>,
              t3 |-> <<"trylock", "unlock", "broadcast", "signal", "join", "exit">>]
Rounds2 == [t \in Threads |-> <<"barrier", "once", "barrier", "exit">>]
MCPrograms == {Condition, Rounds2}
MCJoinOf == [t \in Threads |-> "t1"]

MutexPrograms == {[t1 |-> <<"lock", "unlock", "exit">>,
                   t2 |-> <<"lock", "unlock", "lock", "unlock", "exit">>,
                   t3 |-> <<"lock", "unlock", "exit">>]}
=============================================================================
