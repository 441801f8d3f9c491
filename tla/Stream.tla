------------------------------- MODULE Stream -------------------------------
(***************************************************************************)
(* What an anonymous pipe promises the threads that share it, as stated    *)
(* by the comment on pipe_create in src/src/fs/pipe.h: a bounded stream of *)
(* bytes, writes of up to PIPE_BUF bytes all at once or not at all, longer *)
(* ones a positive prefix, end of file and EPIPE after the hang-ups.       *)
(*                                                                         *)
(* A byte stands for its place in the request that wrote it, so that a     *)
(* lost, repeated or misplaced byte can be told apart.                     *)
(***************************************************************************)
EXTENDS Naturals, Sequences

CONSTANTS
    Threads,          \* the threads that share the descriptors
    PIPE_CAPACITY,    \* 65536 in the code
    PIPE_BUF,         \* 4096 in the code
    MaxCount          \* bound: the largest request

VARIABLES
    stream,    \* the bytes written and not yet read
    open,      \* the ends that have not hung up
    request,   \* per thread: the bytes its call asks to transfer
    answer     \* per thread: what its call is about to return

streamVars == <<stream, open, request, answer>>

Ends == {"read", "write"}
Counts == 1 .. MaxCount
Payload(k) == [i \in 1 .. k |-> i]

None == [status |-> "none", bytes |-> <<>>]
Transferred(bytes) == [status |-> "ok", bytes |-> bytes]
Status(s) == [status |-> s, bytes |-> <<>>]

StreamInit ==
    /\ stream = <<>>
    /\ open = {}
    /\ request = [t \in Threads |-> 0]
    /\ answer = [t \in Threads |-> None]

Open ==
    /\ open = {}
    /\ open' = Ends
    /\ stream' = <<>>
    /\ UNCHANGED <<request, answer>>

HangUp(e) ==
    /\ e \in open
    /\ open' = open \ {e}
    /\ UNCHANGED <<stream, request, answer>>

Ask(t, k) ==
    /\ request[t] = 0
    /\ request' = [request EXCEPT ![t] = k]
    /\ UNCHANGED <<stream, open, answer>>

HandOver(t) ==
    /\ request' = [request EXCEPT ![t] = 0]
    /\ answer' = [answer EXCEPT ![t] = None]
    /\ UNCHANGED <<stream, open>>

Put(t) ==
    /\ "read" \in open
    /\ answer[t] = None
    /\ \E n \in 1 .. request[t] :
        /\ n <= PIPE_CAPACITY - Len(stream)
        /\ request[t] <= PIPE_BUF => n = request[t]
        /\ stream' = stream \o Payload(n)
        /\ answer' = [answer EXCEPT ![t] = Transferred(Payload(n))]
    /\ UNCHANGED <<open, request>>

Take(t) ==
    /\ answer[t] = None
    /\ \E n \in 1 .. request[t] :
        /\ n <= Len(stream)
        /\ n < request[t] => n = Len(stream)
        /\ stream' = SubSeq(stream, n + 1, Len(stream))
        /\ answer' = [answer EXCEPT ![t] = Transferred(SubSeq(stream, 1, n))]
    /\ UNCHANGED <<open, request>>

\* End of file only once every byte is read and nobody can write another;
\* EPIPE only when nobody can read.
Refuse(t) ==
    /\ answer[t] = None
    /\ \/ /\ stream = <<>> /\ "write" \notin open
          /\ answer' = [answer EXCEPT ![t] = Status("EOF")]
       \/ /\ "read" \notin open
          /\ answer' = [answer EXCEPT ![t] = Status("EPIPE")]
       \/ \E s \in {"EINTR", "EAGAIN"} :
             answer' = [answer EXCEPT ![t] = Status(s)]
    /\ UNCHANGED <<stream, open, request>>

StreamNext ==
    \/ Open
    \/ \E e \in Ends : HangUp(e)
    \/ \E t \in Threads :
        \/ \E k \in Counts : Ask(t, k)
        \/ Put(t) \/ Take(t) \/ Refuse(t) \/ HandOver(t)

StreamSpec == StreamInit /\ [][StreamNext]_streamVars
=============================================================================
