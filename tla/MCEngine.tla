------------------------------ MODULE MCEngine ------------------------------
(***************************************************************************)
(* The storage engine and the threads that use it: a behaviour is one of a *)
(* Database's tables (Storage), of processes at one file's pages (Pager),  *)
(* of threads at the page cache (BufferPool), or of threads that execute   *)
(* statements and transactions on one Database (Transactions).             *)
(***************************************************************************)
EXTENDS Storage, Pager, BufferPool, MCTransactions

VARIABLE part

engineVars == <<part, storeVars, pagerVars, poolVars, txVars>>

EngineInit ==
  /\ part \in {"store", "pager", "pool", "threads"}
  /\ StoreInit /\ PagerInit /\ PoolInit
  /\ TxInit /\ (part # "threads" => load = CHOOSE w \in Workloads : TRUE)

EngineNext ==
  \/ part = "store" /\ StoreNext /\ UNCHANGED <<part, pagerVars, poolVars, txVars>>
  \/ part = "pager" /\ PagerNext /\ UNCHANGED <<part, storeVars, poolVars, txVars>>
  \/ part = "pool" /\ PoolNext /\ UNCHANGED <<part, storeVars, pagerVars, txVars>>
  \/ part = "threads" /\ TxNext /\ UNCHANGED <<part, storeVars, pagerVars, poolVars>>

EngineSpec == EngineInit /\ [][EngineNext]_engineVars
=============================================================================
