--------------------------- MODULE MCTransactions ---------------------------
(***************************************************************************)
(* Workloads for Transactions: two threads that may write, one that reads. *)
(***************************************************************************)
EXTENDS Transactions

CONSTANTS t1, t2, t3   \* threads

TxOnly    == [tx |-> {t1, t2}, auto |-> {}, read |-> {}, preempts |-> FALSE]
Preempted == [TxOnly EXCEPT !.preempts = TRUE]
AutoOnly  == [tx |-> {}, auto |-> {t1, t2}, read |-> {t3}, preempts |-> FALSE]
Mixed     == [tx |-> {t1}, auto |-> {t2}, read |-> {}, preempts |-> FALSE]

Separate      == {TxOnly, Preempted, AutoOnly}
Transactional == {TxOnly}
Together      == {Mixed}
=============================================================================
