----------------------------- MODULE MCSharing ------------------------------
(***************************************************************************)
(* What threads share by waiting for it: a behaviour is one of the         *)
(* reader-writer lock, of the client pool, or of threads whose calls wait  *)
(* for each other's transactions.                                          *)
(***************************************************************************)
EXTENDS RWLock, ClientPool, MCTransactions

VARIABLE part

sharingVars == <<part, vars, clientPoolVars, txVars>>

SharingInit == part \in {"rwlock", "pool", "calls"} /\ Init /\ ClientPoolInit /\ TxInit

SharingNext ==
  \/ part = "rwlock" /\ Next /\ UNCHANGED <<part, clientPoolVars, txVars>>
  \/ part = "pool" /\ ClientPoolNext /\ UNCHANGED <<part, vars, txVars>>
  \/ part = "calls" /\ TxNext /\ UNCHANGED <<part, vars, clientPoolVars>>
  \/ part # "rwlock" /\ UNCHANGED sharingVars   \* only the lock must never stop

SharingFairSpec ==
  SharingInit /\ [][SharingNext]_sharingVars /\ Fairness /\ ClientPoolFairness /\ TxFairness
=============================================================================
