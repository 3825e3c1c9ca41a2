----------------------------- MODULE RWLockSpec -----------------------------
(***************************************************************************)
(* What tinydb.concurrent.rwlock.RWLock promises, with the waiting left    *)
(* out: any number of threads inside read() at once, or one thread inside  *)
(* write(), never both.  RWLock implements this specification; the modules *)
(* above the lock are built on it.                                         *)
(***************************************************************************)
CONSTANT Callers

VARIABLES
  holdR,    \* threads inside "with lock.read()"
  holdW     \* threads inside "with lock.write()"

lockVars == <<holdR, holdW>>

LockInit ==
  /\ holdR = {}
  /\ holdW = {}

EnterRead(t) ==
  /\ t \notin holdR \cup holdW
  /\ holdW = {}
  /\ holdR' = holdR \cup {t}
  /\ UNCHANGED holdW

ExitRead(t) ==
  /\ t \in holdR
  /\ holdR' = holdR \ {t}
  /\ UNCHANGED holdW

EnterWrite(t) ==
  /\ holdR = {}
  /\ holdW = {}
  /\ holdW' = {t}
  /\ UNCHANGED holdR

ExitWrite(t) ==
  /\ t \in holdW
  /\ holdW' = holdW \ {t}
  /\ UNCHANGED holdR

LockNext ==
  \E t \in Callers : EnterRead(t) \/ ExitRead(t) \/ EnterWrite(t) \/ ExitWrite(t)

LockSpec == LockInit /\ [][LockNext]_lockVars
=============================================================================
