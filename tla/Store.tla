---------------------------- MODULE Store ----------------------------
(***************************************************************************)
(* What the journal promises the file system above it (jbd2.h): a          *)
(* transaction's metadata reaches the home blocks all at once or not at    *)
(* all, whatever the power does; once the writer has reported DURABLE it   *)
(* is there for good; and a transaction that is there has its ordered data *)
(* in place.  The data of a transaction that did not make it may have been *)
(* written, partly written or not written: home data is overwritten in     *)
(* place before the commit.                                                *)
(***************************************************************************)
EXTENDS TLC

CONSTANTS Home,     \* home blocks of the file system
          Content   \* what a home block may hold

VARIABLES store,    \* what a reader finds in the home blocks after recovery
          phase,    \* "idle", "submitted" (commit called), "durable" (reported)
          pending   \* the transaction submitted: [meta, data], block -> content

storeVars == <<store, phase, pending>>

NoTxn == [meta |-> << >>, data |-> << >>]

Txn == [meta : UNION {[S -> Content] : S \in SUBSET Home},
        data : UNION {[S -> Content] : S \in SUBSET Home}]

\* Everything outside the blocks of t's ordered data keeps its contents.
OnlyData(t) == LET old == store  new == store'
               IN \A h \in Home \ DOMAIN t.data : new[h] = old[h]

\* The store with all of t in place.
Landed(t) == t.meta @@ t.data @@ store

SInit == /\ store \in [Home -> Content]
         /\ phase = "idle"
         /\ pending = NoTxn

SSubmit == /\ phase = "idle"
           /\ phase' = "submitted"
           /\ pending' \in Txn
           /\ store' \in [Home -> Content]
           /\ OnlyData(pending')

SLand == /\ phase = "submitted"
         /\ phase' = "durable"
         /\ store' = Landed(pending)
         /\ pending' = NoTxn

SRetire == /\ phase = "durable"
           /\ phase' = "idle"
           /\ UNCHANGED <<store, pending>>

\* A restart decides the fate of a submitted transaction, and of no other.
SRestart == /\ phase' = "idle"
            /\ pending' = NoTxn
            /\ \/ phase # "submitted" /\ UNCHANGED store
               \/ phase = "submitted" /\ store' \in [Home -> Content] /\ OnlyData(pending)
               \/ phase = "submitted" /\ store' = Landed(pending)

SNext == SSubmit \/ SLand \/ SRetire \/ SRestart

StoreSpec == SInit /\ [][SNext]_storeVars
=============================================================================
