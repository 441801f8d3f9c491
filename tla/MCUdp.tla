------------------------------- MODULE MCUdp -------------------------------
(***************************************************************************)
(* Two callers of one socket and one slab, for TLC.  The first call is     *)
(* made by First, which loses nothing since the actors are alike, and only *)
(* First gets signals; what the calls are is one of the Mixes, chosen at   *)
(* the start.  Datagrams arrive only where one of them receives.           *)
(***************************************************************************)
EXTENDS Udp

CONSTANTS First, Mixes
VARIABLE mix

Send == <<"send", FALSE>>
Recv == <<"recv", FALSE>>
DontWait == <<"recv", TRUE>>

MixNext ==
    /\ Next /\ mix' = mix
    /\ sig' \subseteq {First}
    /\ arrivals' > 0 => \E c \in DOMAIN mix : mix[c] # Send
    /\ ret = <<>> => \A a \in Actors \ {First} : pc'[a] = "idle"
    /\ Len(ret') > Len(ret) =>
          \E s \in Slots : /\ v'[s].id = Len(ret')
                          /\ mix[Len(ret')] = <<v'[s].kind, v'[s].nonblocking>>
MixInit == Init /\ mix \in Mixes
MixSpec == MixInit /\ [][MixNext]_<<vars, mix>> /\ Fairness

Pairs == {<<Send, Send>>, <<Recv, Send>>, <<Recv, Recv>>, <<Recv, DontWait>>}
=============================================================================
