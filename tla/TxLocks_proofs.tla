-------------------------- MODULE TxLocks_proofs --------------------------
(***************************************************************************)
(* The threads of one process on one Database, any number of them: who     *)
(* holds which lock, for which transaction, and what is in hand.           *)
(***************************************************************************)
EXTENDS TxSteps_proofs

\* They keep who holds what ...
LEMMA QuietHolds ==
  ASSUME LockIInv, NEW t \in Callers, Quiet(t)
  PROVE  /\ \A u \in Callers : HoldsOK(u)'
         /\ LocksOK' /\ ActiveOwned'
<1>0. /\ \A u \in Callers : HoldsOK(u)
      /\ LocksOK /\ ActiveOwned
      /\ depth[t] \in Nat /\ loc[t].lock \in {"none", "read", "write"}
  BY DEF LockIInv, TxTypes, Locals
<1>1. /\ depth' = depth /\ active' = active /\ holdW' = holdW /\ holdR' = holdR /\ load' = load
      /\ loc'[t].tx = loc[t].tx /\ loc'[t].lock = loc[t].lock
      /\ \A u \in Callers \ {t} : loc'[u] = loc[u] /\ reached'[u] = reached[u]
  BY DEF Quiet, Frame
<1>2. ASSUME NEW u \in Callers, u # t PROVE HoldsOK(u)' /\ (Owns(u) => Owns(u)')
  BY <1>0, <1>1, <1>2 DEF HoldsOK, Level, Left, Owns
<1>3. Level(t)' = Level(t)
  BY <1>0, <1>1 DEF Level, Quiet, QuietMove, HoldsOK, Begins, Inserting
<1>4. HoldsOK(t)'
  <2>0. /\ HoldsOK(t) /\ (Left(t)' <=> Left(t)) /\ QuietMove(t)
        /\ loc[t].lock \in {"none", "read", "write"}
    <3>1. Left(t)' <=> Left(t)
      BY <1>1, <1>3 DEF Left
    <3> QED
      BY <1>0, <3>1 DEF Quiet
  <2>1. depth'[t] = Level(t)' \/ Left(t)'
    BY <1>1, <1>3, <2>0 DEF HoldsOK
  <2>2. Left(t)' => load'.preempts /\ active' # 0 /\ loc'[t].tx = 0 /\ reached'[t] \notin {"activate", "reset"}
    BY <1>1, <2>0 DEF HoldsOK, QuietMove, Begins, Inserting
  <2>3. /\ loc'[t].tx # 0 => active' = IF reached'[t] = "release" THEN 0 ELSE loc'[t].tx
        /\ reached'[t] \in Ending => loc'[t].tx # 0
        /\ reached'[t] \in {"activate", "reset"} => loc'[t].tx = 0
        /\ reached'[t] = "activate" => active' = 0
        /\ reached'[t] # "reset"
    BY <1>1, <2>0 DEF HoldsOK, QuietMove, Begins, Inserting, Ending
  <2>4. ASSUME reached'[t] \in {"lockW", "lockR"}
        PROVE  loc'[t].tx = 0 /\ loc'[t].lock = "none" /\ depth'[t] = 0
    <3>1. reached[t] = "idle" /\ active = 0
      BY <2>0, <2>4 DEF QuietMove, Begins, Inserting
    <3>2. loc[t].lock # "write" /\ loc[t].lock # "read"
      BY <2>0, <3>1 DEF HoldsOK, Inserting
    <3>3. ~Left(t)
      BY <2>0, <3>1 DEF HoldsOK
    <3>4. loc[t].tx = 0
      BY <2>0, <3>1 DEF HoldsOK
    <3>5. Level(t) = 0
      BY <3>1, <3>4 DEF Level
    <3>6. depth[t] = 0
      BY <2>0, <3>3, <3>5 DEF HoldsOK
    <3> QED
      BY <1>1, <2>0, <3>2, <3>4, <3>6
  <2>5. /\ loc'[t].lock # "none" => loc'[t].tx = 0 /\ depth'[t] = 0
        /\ loc'[t].lock = "write" => reached'[t] \in Inserting
        /\ loc'[t].lock = "read" => reached'[t] = "select"
    BY <1>0, <1>1, <2>0 DEF HoldsOK, QuietMove, Begins, Inserting
  <2> QED
    BY <2>1, <2>2, <2>3, <2>4, <2>5 DEF HoldsOK
<1>5. Owns(t) => Owns(t)'
  BY <1>0, <1>1, <1>3 DEF Owns, Left, HoldsOK, Quiet, QuietMove, Begins, Inserting
<1>6. LocksOK'
  BY <1>0, <1>1 DEF LocksOK
<1> QED
  BY <1>0, <1>1, <1>2, <1>4, <1>5, <1>6 DEF ActiveOwned

\* The other steps.  What the other threads hold stays, as nothing of theirs
\* changes: the active transaction does only in the hands of whoever has the lock.
LEMMA OthersHold ==
  ASSUME LockIInv, NEW t \in Callers, Frame(t), UNCHANGED active \/ depth[t] > 0,
         NEW u \in Callers, u # t
  PROVE  HoldsOK(u)' /\ (UNCHANGED active /\ Owns(u) => Owns(u)')
<1>0. /\ HoldsOK(u) /\ depth'[u] = depth[u] /\ loc'[u] = loc[u] /\ reached'[u] = reached[u] /\ load' = load
  BY DEF LockIInv, Frame
<1>1. CASE UNCHANGED active
  BY <1>0, <1>1 DEF HoldsOK, Level, Left, Owns
<1>2. CASE depth[t] > 0 /\ active' # active
  <2>1. /\ depth[u] = 0 /\ loc[u].lock = "none" /\ loc[u].tx = 0
        /\ reached[u] \notin {"locked", "activate", "reset"} \cup Ending
    BY <1>2, Alone
  <2>2. Level(u)' = 0 /\ ~Left(u)'
    BY <1>0, <2>1 DEF Level, Left
  <2> QED
    BY <1>0, <1>2, <2>1, <2>2 DEF HoldsOK
<1> QED
  BY <1>1, <1>2

\* What is left to show of a step: its thread, and the lock.
LEMMA HoldsSuffice ==
  ASSUME LockIInv, NEW t \in Callers, Frame(t), UNCHANGED active \/ depth[t] > 0,
         HoldsOK(t)', LocksOK', UNCHANGED active => (active # 0 /\ Owns(t) => Owns(t)'),
         active' # active => active' = 0 \/ Owns(t)'
  PROVE  /\ \A u \in Callers : HoldsOK(u)'
         /\ LocksOK' /\ ActiveOwned'
<1>1. \A u \in Callers : HoldsOK(u)'
  BY OthersHold
<1>2. ActiveOwned'
  <2>1. CASE active' # active
    BY <2>1 DEF ActiveOwned
  <2>2. CASE active' = active /\ active # 0
    <3>1. PICK u \in Callers : Owns(u)
      BY <2>2 DEF LockIInv, ActiveOwned
    <3>2. Owns(u)'
      BY <2>2, <3>1, OthersHold
    <3> QED
      BY <3>2 DEF ActiveOwned
  <2> QED
    BY <2>1, <2>2 DEF ActiveOwned
<1> QED
  BY <1>1, <1>2

\* begin() with the lock: taking it ...
LEMMA LockHolds ==
  ASSUME LockIInv, NEW t \in Callers, BeginLock(t)
  PROVE  /\ \A u \in Callers : HoldsOK(u)'
         /\ LocksOK' /\ ActiveOwned'
<1>0. Typed /\ HoldsOK(t) /\ LocksOK /\ depth[t] \in Nat /\ loc[t].lock \in {"none", "read", "write"}
  BY Zenon, InvTyped DEF LockIInv, Typed, Locals
<1>1. /\ Frame(t) /\ reached[t] = "acquire" /\ reached'[t] = "locked" /\ depth'[t] = depth[t] + 1
      /\ \/ depth[t] > 0 /\ UNCHANGED <<holdR, holdW>>
         \/ depth[t] = 0 /\ holdR = {} /\ holdW = {} /\ holdW' = {t} /\ UNCHANGED holdR
      /\ UNCHANGED <<loc, active>>
  BY <1>0, LockDoes
<1>2. Level(t)' = Level(t) + 1 /\ loc[t].lock = "none" /\ load' = load
  BY <1>0, <1>1 DEF Level, HoldsOK, Inserting, Frame
<1>3. Left(t)' <=> Left(t)
  BY <1>0, <1>1, <1>2 DEF Left, Level
<1>4. HoldsOK(t)' /\ (active # 0 /\ Owns(t) => Owns(t)')
  BY <1>0, <1>1, <1>2, <1>3 DEF HoldsOK, Ending, Owns
<1>5. LocksOK'
  <2>1. \A u \in Callers \ {t} : depth'[u] = depth[u]
    BY <1>1 DEF Frame
  <2>2. \A u \in Callers : (depth'[u] > 0 \/ loc'[u].lock = "write") <=> u \in holdW'
    BY <1>0, <1>1, <2>1 DEF LocksOK
  <2> QED
    BY <1>0, <1>1, <2>2 DEF LocksOK
<1> QED
  BY <1>1, <1>4, <1>5, HoldsSuffice

\* ... giving it back ...
LEMMA NestedHolds ==
  ASSUME LockIInv, NEW t \in Callers, BeginNested(t)
  PROVE  /\ \A u \in Callers : HoldsOK(u)'
         /\ LocksOK' /\ ActiveOwned'
<1>0. Typed /\ HoldsOK(t) /\ LocksOK /\ depth[t] \in Nat /\ loc[t].lock \in {"none", "read", "write"}
  BY Zenon, InvTyped DEF LockIInv, Typed, Locals
<1>1. /\ Frame(t) /\ reached[t] = "locked" /\ reached'[t] = "idle" /\ GivesBack(t) /\ active' = active
      /\ loc'[t].tx = loc[t].tx /\ loc'[t].lock = "none"
  BY <1>0, NestedDoes DEF Back
<1>2. Level(t) = Level(t)' + 1 /\ loc[t].lock = "none" /\ load' = load
  BY <1>0, <1>1 DEF Level, HoldsOK, Inserting, Frame
<1>3. Left(t)' <=> Left(t)
  BY <1>0, <1>1, <1>2 DEF Left, Level, GivesBack
<1>4. HoldsOK(t)' /\ (active # 0 /\ Owns(t) => Owns(t)')
  <2>1. depth'[t] = Level(t)' \/ Left(t)'
    BY <1>0, <1>1, <1>2, <1>3 DEF HoldsOK, Level, GivesBack
  <2> QED
    BY <1>0, <1>1, <1>2, <1>3, <2>1 DEF HoldsOK, Ending, Owns, Inserting
<1>5. LocksOK'
  <2>1. \A u \in Callers \ {t} : depth'[u] = depth[u] /\ loc'[u] = loc[u]
    BY <1>1 DEF Frame
  <2>2. \A u \in Callers : (depth'[u] > 0 \/ loc'[u].lock = "write") <=> u \in holdW'
    BY <1>0, <1>1, <1>2, <2>1 DEF LocksOK, GivesBack
  <2>3. \A u \in Callers : loc'[u].lock = "read" <=> u \in holdR'
    BY <1>0, <1>1, <1>2, <2>1 DEF LocksOK, GivesBack
  <2> QED
    BY <1>0, <1>1, <2>2, <2>3 DEF LocksOK, GivesBack
<1> QED
  BY <1>1, <1>4, <1>5, HoldsSuffice

\* ... making the transaction active ...
LEMMA ActivateHolds ==
  ASSUME LockIInv, NEW t \in Callers, BeginActivate(t)
  PROVE  /\ \A u \in Callers : HoldsOK(u)'
         /\ LocksOK' /\ ActiveOwned'
<1>0. Typed /\ HoldsOK(t) /\ LocalsOK(t) /\ LocksOK /\ loc[t].lock = "none" /\ depth[t] > 0
  <2>1. reached[t] = "activate"
    BY InvTyped, ActivateDoes
  <2> QED
    BY <2>1, InvTyped, OwnerHolds DEF LockIInv
<1>1. /\ Frame(t) /\ reached[t] = "activate" /\ reached'[t] = "reset" /\ active' = loc[t].id
      /\ UNCHANGED <<loc, holdR, holdW, depth, load>>
  BY <1>0, ActivateDoes DEF Frame
<1>2. Level(t)' = 1 /\ Level(t) = 1 /\ ~Left(t)
  BY <1>0, <1>1 DEF Level, HoldsOK
<1>3. ~Left(t)' /\ depth'[t] = Level(t)'
  BY <1>0, <1>1, <1>2 DEF Left, HoldsOK
<1>4. HoldsOK(t)' /\ Owns(t)'
  BY <1>0, <1>1, <1>3 DEF HoldsOK, Ending, Owns
<1>5. LocksOK'
  BY <1>0, <1>1 DEF LocksOK
<1> QED
  BY <1>0, <1>1, <1>4, <1>5, HoldsSuffice DEF Owns

\* ... and returning with it.
LEMMA ResetHolds ==
  ASSUME LockIInv, NEW t \in Callers, BeginReset(t)
  PROVE  /\ \A u \in Callers : HoldsOK(u)'
         /\ LocksOK' /\ ActiveOwned'
<1>0. Typed /\ HoldsOK(t) /\ LocalsOK(t) /\ LocksOK /\ loc[t].lock = "none" /\ depth[t] > 0 /\ nextTx \in Nat
  <2>1. reached[t] = "reset"
    BY InvTyped, ResetDoes
  <2> QED
    BY <2>1, InvTyped, OwnerHolds DEF LockIInv, Typed
<1>1. /\ Frame(t) /\ reached[t] = "reset" /\ reached'[t] = "idle"
      /\ loc'[t].tx = loc[t].id /\ loc'[t].lock = "none"
      /\ UNCHANGED <<holdR, holdW, depth, active, load>>
  BY <1>0, ResetDoes DEF Frame, Back
<1>2. loc[t].id # 0 /\ loc[t].tx = 0 /\ active = loc[t].id
  BY <1>0, <1>1 DEF LocalsOK, HoldsOK
<1>3. Level(t)' = 1 /\ Level(t) = 1 /\ ~Left(t)
  BY <1>0, <1>1, <1>2 DEF Level, HoldsOK
<1>4. ~Left(t)' /\ depth'[t] = Level(t)'
  BY SMTT(20), Z3T(20), <1>0, <1>1, <1>3 DEF Left, HoldsOK
<1>5. HoldsOK(t)' /\ Owns(t)'
  BY <1>0, <1>1, <1>2, <1>4 DEF HoldsOK, Ending, Owns
<1>6. LocksOK'
  <2>1. \A u \in Callers : loc'[u].lock = loc[u].lock
    BY <1>0, <1>1 DEF Frame
  <2> QED
    BY SMTT(20), Z3T(20), <1>0, <1>1, <2>1 DEF LocksOK
<1> QED
  BY SMTT(20), Z3T(20), <1>0, <1>1, <1>5, <1>6, HoldsSuffice

\* A statement takes its side of the lock ...
LEMMA StatementLockHolds ==
  ASSUME LockIInv, NEW t \in Callers, LockStatement(t)
  PROVE  /\ \A u \in Callers : HoldsOK(u)'
         /\ LocksOK' /\ ActiveOwned'
<1>0. Typed /\ HoldsOK(t) /\ LocksOK /\ depth[t] \in Nat
  BY InvTyped DEF LockIInv, Typed
<1>1. /\ Frame(t) /\ holdW = {} /\ loc'[t].tx = loc[t].tx
      /\ \/ /\ reached[t] = "lockW" /\ reached'[t] = "insert" /\ loc'[t].lock = "write"
            /\ holdR = {} /\ holdW' = {t} /\ UNCHANGED holdR
         \/ /\ reached[t] = "lockR" /\ reached'[t] = "select" /\ loc'[t].lock = "read"
            /\ holdR' = holdR \cup {t} /\ UNCHANGED holdW
      /\ UNCHANGED <<depth, active, load>>
  BY SMTT(20), Z3T(20), <1>0, LockStatementDoes DEF Frame
<1>2. loc[t].tx = 0 /\ loc[t].lock = "none" /\ depth[t] = 0
  BY <1>0, <1>1 DEF HoldsOK
<1>3. Level(t)' = 0 /\ ~Left(t)' /\ ~Left(t)
  BY <1>1, <1>2 DEF Level, Left
<1>4. HoldsOK(t)'
  BY <1>1, <1>2, <1>3 DEF HoldsOK, Ending, Inserting
<1>5. active # 0 => ~Owns(t)
  BY <1>1, <1>2, <1>3 DEF Owns
<1>6. LocksOK'
  <2>1. \A u \in Callers \ {t} : loc'[u] = loc[u]
    BY <1>1 DEF Frame
  <2>2. \A u \in Callers : (depth'[u] > 0 \/ loc'[u].lock = "write") <=> u \in holdW'
    BY <1>0, <1>1, <1>2, <2>1 DEF LocksOK
  <2>3. \A u \in Callers : loc'[u].lock = "read" <=> u \in holdR'
    BY <1>0, <1>1, <1>2, <2>1 DEF LocksOK
  <2>4. holdR' \subseteq Callers /\ holdW' \subseteq Callers
    BY <1>0, <1>1 DEF LocksOK
  <2> QED
    BY <1>1, <2>2, <2>3, <2>4 DEF LocksOK
<1> QED
  BY SMTT(20), Z3T(20), <1>1, <1>4, <1>5, <1>6, HoldsSuffice

\* ... and gives it back.
LEMMA FinishHolds ==
  ASSUME LockIInv, NEW t \in Callers, FinishInsert(t) \/ FinishSelect(t)
  PROVE  /\ \A u \in Callers : HoldsOK(u)'
         /\ LocksOK' /\ ActiveOwned'
<1>0. Typed /\ HoldsOK(t) /\ LocksOK /\ depth[t] \in Nat /\ loc[t].lock \in {"none", "read", "write"}
  BY SMTT(20), Z3T(20), InvTyped DEF LockIInv, Typed, Locals
<1>1. /\ Frame(t) /\ Unlocks(t) /\ reached[t] \in {"insert", "select"} /\ reached'[t] = "idle"
      /\ loc'[t].tx = loc[t].tx /\ loc'[t].lock = "none"
      /\ UNCHANGED <<depth, active, load>>
  BY <1>0, FinishInsertDoes, FinishSelectDoes DEF Frame, Back
<1>2. Level(t)' = Level(t)
  BY <1>1 DEF Level
<1>3. Left(t)' <=> Left(t)
  BY <1>1, <1>2 DEF Left
<1>4. HoldsOK(t)' /\ (active # 0 /\ Owns(t) => Owns(t)')
  BY <1>0, <1>1, <1>2, <1>3 DEF HoldsOK, Ending, Owns
<1>5. LocksOK'
  <2>0. loc[t].lock # "none" => depth[t] = 0
    BY <1>0 DEF HoldsOK
  <2>1. \A u \in Callers \ {t} : loc'[u] = loc[u]
    BY <1>1 DEF Frame
  <2>2. \A u \in Callers : (depth'[u] > 0 \/ loc'[u].lock = "write") <=> u \in holdW'
    BY SMTT(20), Z3T(20), <1>0, <1>1, <2>0, <2>1 DEF LocksOK, Unlocks
  <2>3. \A u \in Callers : loc'[u].lock = "read" <=> u \in holdR'
    BY <1>0, <1>1, <2>1 DEF LocksOK, Unlocks
  <2>4. holdR' \subseteq holdR /\ holdW' \subseteq holdW
    BY <1>1 DEF Unlocks
  <2> QED
    BY SMTT(20), Z3T(20), <1>0, <2>2, <2>3, <2>4 DEF LocksOK
<1> QED
  BY SMTT(20), Z3T(20), <1>1, <1>4, <1>5, HoldsSuffice

\* commit() and rollback() end the transaction ...
LEMMA ClearHolds ==
  ASSUME LockIInv, NEW t \in Callers, EndClear(t)
  PROVE  /\ \A u \in Callers : HoldsOK(u)'
         /\ LocksOK' /\ ActiveOwned'
<1>0. Typed /\ HoldsOK(t) /\ LocksOK /\ loc[t].lock = "none" /\ depth[t] > 0
  <2>1. reached[t] \in Ending
    BY InvTyped, ClearDoes DEF Ending
  <2> QED
    BY <2>1, InvTyped, OwnerHolds DEF LockIInv
<1>1. /\ Frame(t) /\ reached[t] = "clear" /\ reached'[t] = "release" /\ active' = 0
      /\ UNCHANGED <<loc, holdR, holdW, depth, load>>
  BY <1>0, ClearDoes DEF Frame
<1>2. loc[t].tx # 0 /\ Level(t)' = Level(t) /\ ~Left(t)
  BY <1>0, <1>1 DEF Level, HoldsOK, Ending
<1>3. ~Left(t)' /\ depth'[t] = Level(t)'
  BY SMTT(20), Z3T(20), <1>0, <1>1, <1>2 DEF Left, HoldsOK
<1>4. HoldsOK(t)'
  BY <1>0, <1>1, <1>2, <1>3 DEF HoldsOK
<1>5. LocksOK'
  BY <1>0, <1>1 DEF LocksOK
<1>6. active # 0
  BY SMTT(20), Z3T(20), <1>0, <1>1, <1>2 DEF HoldsOK
<1> QED
  BY SMTT(20), Z3T(20), <1>0, <1>1, <1>4, <1>5, <1>6, HoldsSuffice

\* ... or leave it and the lock as they are ...
LEMMA EndRaisesHolds ==
  ASSUME LockIInv, NEW t \in Callers, EndRaises(t)
  PROVE  /\ \A u \in Callers : HoldsOK(u)'
         /\ LocksOK' /\ ActiveOwned'
<1>0. Typed /\ HoldsOK(t) /\ LocksOK /\ loc[t].lock = "none" /\ depth[t] > 0
  <2>1. reached[t] \in Ending
    BY InvTyped, EndRaisesDoes DEF Ending
  <2> QED
    BY <2>1, InvTyped, OwnerHolds DEF LockIInv
<1>1. /\ Frame(t) /\ reached[t] = "end" /\ reached'[t] = "idle" /\ load.preempts
      /\ loc'[t].tx = 0 /\ loc'[t].lock = "none"
      /\ UNCHANGED <<holdR, holdW, depth, active, load>>
  BY <1>0, EndRaisesDoes DEF Frame, Back
<1>2. loc[t].tx # 0 /\ Level(t) = 1 /\ Level(t)' = 0 /\ ~Left(t) /\ active # 0
  BY <1>0, <1>1 DEF Level, HoldsOK, Ending
<1>3. Left(t)'
  BY <1>0, <1>1, <1>2 DEF Left, HoldsOK
<1>4. HoldsOK(t)' /\ Owns(t)'
  BY <1>1, <1>2, <1>3 DEF HoldsOK, Ending, Owns
<1>5. LocksOK'
  <2>1. \A u \in Callers : loc'[u].lock = loc[u].lock
    BY <1>0, <1>1 DEF Frame
  <2> QED
    BY <1>0, <1>1, <2>1 DEF LocksOK
<1> QED
  BY SMTT(20), Z3T(20), <1>1, <1>4, <1>5, HoldsSuffice

\* ... and the lock goes last.
LEMMA EndReleaseHolds ==
  ASSUME LockIInv, NEW t \in Callers, EndRelease(t)
  PROVE  /\ \A u \in Callers : HoldsOK(u)'
         /\ LocksOK' /\ ActiveOwned'
<1>0. Typed /\ HoldsOK(t) /\ LocksOK /\ loc[t].lock = "none" /\ depth[t] > 0
  <2>1. reached[t] \in Ending
    BY SMTT(20), Z3T(20), InvTyped, EndReleaseDoes DEF Ending
  <2> QED
    BY <2>1, InvTyped, OwnerHolds DEF LockIInv
<1>1. /\ Frame(t) /\ reached[t] = "release" /\ reached'[t] = "idle" /\ GivesBack(t)
      /\ loc'[t].tx = 0 /\ loc'[t].lock = "none" /\ UNCHANGED <<active, load>>
  BY <1>0, EndReleaseDoes DEF Frame, Back
<1>2. loc[t].tx # 0 /\ Level(t) = 1 /\ Level(t)' = 0 /\ ~Left(t) /\ active = 0
  BY <1>0, <1>1 DEF Level, HoldsOK, Ending
<1>3. depth[t] = 1 /\ depth'[t] = 0
  BY <1>0, <1>1, <1>2 DEF HoldsOK, GivesBack
<1>4. HoldsOK(t)'
  BY SMTT(20), Z3T(20), <1>1, <1>2, <1>3 DEF HoldsOK, Ending, Left
<1>5. LocksOK'
  <2>1. \A u \in Callers \ {t} : depth'[u] = depth[u] /\ loc'[u] = loc[u]
    BY <1>1 DEF Frame
  <2>2. \A u \in Callers : (depth'[u] > 0 \/ loc'[u].lock = "write") <=> u \in holdW'
    BY <1>0, <1>1, <1>3, <2>1 DEF LocksOK, GivesBack
  <2>3. \A u \in Callers : loc'[u].lock = "read" <=> u \in holdR'
    BY <1>0, <1>1, <1>3, <2>1 DEF LocksOK, GivesBack
  <2> QED
    BY SMTT(20), Z3T(20), <1>0, <1>1, <1>3, <2>2, <2>3 DEF LocksOK, GivesBack
<1> QED
  BY SMTT(20), Z3T(20), <1>1, <1>2, <1>4, <1>5, HoldsSuffice

\* Whatever the step, what threads hold stays in order.
LEMMA StepHolds ==
  ASSUME LockIInv, NEW t \in Callers, TxStep(t)
  PROVE  /\ \A u \in Callers : HoldsOK(u)'
         /\ LocksOK' /\ ActiveOwned'
<1>1. QuietAction(t) \/ LoudAction(t)
  BY LockKept DEF TxStep, TxBegin, TxStatement, TxEnd, QuietAction, LoudAction, BeginGuard
<1>2. CASE QuietAction(t)
  BY <1>2, QuietSteps, QuietHolds
<1>3. CASE LoudAction(t)
  BY SMTT(20), Z3T(20), <1>3, LockHolds, NestedHolds, ActivateHolds, ResetHolds, StatementLockHolds, FinishHolds,
     ClearHolds, EndRaisesHolds, EndReleaseHolds DEF LoudAction
<1> QED
  BY <1>1, <1>2, <1>3
-----------------------------------------------------------------------------
\* What a thread has in hand after a call that returned ...
LEMMA BackLocals ==
  ASSUME NEW t \in Callers, NEW tx, NEW mine, Back(t, tx, mine),
         tx \in 0..(nextTx' - 1), mine \subseteq 1..inserts'
  PROVE  LocalsOK(t)'
  BY DEF Back, LocalsOK, Begins, Inserting, RowsOf, Rows

\* ... and after a step that keeps most of it.
LEMMA LocalsKept ==
  ASSUME NEW t \in Callers, LocalsOK(t), UNCHANGED <<nextTx, inserts>>,
         loc'[t].tx = loc[t].tx, loc'[t].mine = loc[t].mine, loc'[t].undo = loc[t].undo,
         loc'[t].img \subseteq 1..inserts
  PROVE  /\ loc'[t].tx \in 0..(nextTx' - 1) /\ loc'[t].img \subseteq Rows' /\ loc'[t].mine \subseteq Rows'
         /\ RowsOf(loc[t].undo)'
  BY DEF LocalsOK, RowsOf, Rows

\* begin() has an id in hand that was the next one when it looked ...
LEMMA BeginLocals ==
  ASSUME LockIInv, NEW t \in Callers, TxBegin(t), ~lockLost'
  PROVE  LocalsOK(t)'
<1>0. /\ Typed /\ GraphOK /\ LocalsOK(t) /\ nextTx \in Nat \ {0} /\ active \in 0..(nextTx - 1)
      /\ inserts \in Nat /\ loc[t].img \subseteq 1..inserts /\ loc[t].mine \subseteq 1..inserts
      /\ loc[t].tx \in 0..(nextTx - 1)
  BY SMTT(20), Z3T(20), InvTyped DEF LockIInv, TxTypes, LocalsOK, Rows
<1>1. CASE BeginReserve(t)
  <2>1. /\ Keeps(t) /\ KeepsWork(t) /\ reached'[t] = "begin" /\ loc'[t].id = nextTx
        /\ UNCHANGED <<nextTx, inserts>>
    BY <1>0, <1>1, ReserveDoes
  <2> QED
    BY SMTT(20), Z3T(20), <1>0, <2>1, LocalsKept DEF LocalsOK, Keeps, KeepsWork, Begins, Inserting
<1>2. CASE BeginTest(t)
  <2>1. reached[t] = "begin" /\ reached'[t] \in {"lock", "holder"} /\ UNCHANGED <<loc, nextTx, inserts>>
    BY <1>0, <1>2, TestDoes
  <2> QED
    BY SMTT(20), Z3T(20), <1>0, <2>1 DEF LocalsOK, Begins, Inserting, RowsOf, Rows
<1>3. CASE BeginReadHolder(t)
  <2>1. /\ reached[t] = "holder" /\ UNCHANGED <<nextTx, inserts>>
        /\ \/ Back(t, loc[t].tx, loc[t].mine)
           \/ /\ Keeps(t) /\ KeepsWork(t) /\ active # 0 /\ reached'[t] = "wait"
              /\ loc'[t].holder = active /\ loc'[t].id = loc[t].id
    BY <1>0, <1>3, ReadHolderDoes
  <2>2. CASE Back(t, loc[t].tx, loc[t].mine)
    BY SMTT(20), Z3T(20), <1>0, <2>1, <2>2, BackLocals
  <2>3. CASE Keeps(t) /\ KeepsWork(t) /\ active # 0 /\ reached'[t] = "wait"
             /\ loc'[t].holder = active /\ loc'[t].id = loc[t].id
    BY SMTT(20), Z3T(20), <1>0, <2>1, <2>3, LocalsKept DEF LocalsOK, Keeps, KeepsWork, Begins, Inserting
  <2> QED
    BY <2>1, <2>2, <2>3
<1>4. CASE BeginAddWait(t) \/ BeginDetect(t)
  <2>1. /\ Keeps(t) /\ KeepsWork(t) /\ loc'[t].id = loc[t].id /\ UNCHANGED <<nextTx, inserts>>
        /\ reached[t] \in {"wait", "detect"} /\ reached'[t] \in {"detect", "unwait"}
    BY Zenon, <1>0, <1>4, AddWaitDoes, DetectDoes
  <2> QED
    BY SMTT(20), Z3T(20), <1>0, <2>1, LocalsKept DEF LocalsOK, Keeps, KeepsWork, Begins, Inserting
<1>5. CASE BeginRemoveWait(t) \/ BeginRaises(t) \/ BeginNested(t)
  <2>1. /\ UNCHANGED <<nextTx, inserts>>
        /\ \/ Back(t, loc[t].tx, loc[t].mine)
           \/ UNCHANGED loc /\ reached[t] = "unwait" /\ reached'[t] = "lock"
    BY SMTT(20), Z3T(20), <1>0, <1>5, RemoveWaitDoes, BeginRaisesDoes, NestedDoes
  <2>2. CASE Back(t, loc[t].tx, loc[t].mine)
    BY SMTT(20), Z3T(20), <1>0, <2>1, <2>2, BackLocals
  <2>3. CASE UNCHANGED loc /\ reached[t] = "unwait" /\ reached'[t] = "lock"
    BY SMTT(20), Z3T(20), <1>0, <2>1, <2>3 DEF LocalsOK, Begins, Inserting, RowsOf, Rows
  <2> QED
    BY SMTT(20), Z3T(20), <2>1, <2>2, <2>3
<1>6. CASE BeginGuard(t) \/ BeginLock(t)
  <2>1. /\ reached[t] \in {"lock", "create", "acquire"} /\ reached'[t] \in {"create", "acquire", "locked"}
        /\ UNCHANGED <<loc, nextTx, inserts>>
    BY SMTT(20), Z3T(20), <1>0, <1>6, GuardDoes, LockDoes
  <2> QED
    BY SMTT(20), Z3T(20), <1>0, <2>1 DEF LocalsOK, Begins, Inserting, RowsOf, Rows
<1>7. CASE BeginLog(t)
  <2>1. /\ Keeps(t) /\ KeepsWork(t) /\ loc'[t].id = nextTx /\ reached'[t] = "activate"
        /\ nextTx' = nextTx + 1 /\ UNCHANGED inserts
    BY Zenon, <1>0, <1>7, BeginLogDoes
  <2>2. RowsOf(loc[t].undo)'
    BY SMTT(20), Z3T(20), <1>0, <2>1 DEF LocalsOK, RowsOf, Rows, Keeps
  <2> QED
    BY SMTT(20), Z3T(20), <1>0, <2>1, <2>2 DEF LocalsOK, Keeps, KeepsWork, Begins, Inserting, Rows
<1>8. CASE BeginActivate(t)
  <2>1. reached[t] = "activate" /\ reached'[t] = "reset" /\ UNCHANGED <<loc, nextTx, inserts>>
    BY SMTT(20), Z3T(20), <1>0, <1>8, ActivateDoes
  <2> QED
    BY SMTT(20), Z3T(20), <1>0, <2>1 DEF LocalsOK, Begins, Inserting, RowsOf, Rows
<1>9. CASE BeginReset(t)
  <2>1. /\ reached[t] = "reset" /\ Back(t, loc[t].id, {}) /\ UNCHANGED <<nextTx, inserts>>
    BY SMTT(20), Z3T(20), <1>0, <1>9, ResetDoes
  <2>2. loc[t].id \in 0..(nextTx' - 1) /\ {} \subseteq 1..inserts'
    BY <1>0, <2>1 DEF LocalsOK
  <2> QED
    BY SMTT(20), Z3T(20), <2>1, <2>2, BackLocals
<1> QED
  BY SMTT(20), Z3T(20), <1>1, <1>2, <1>3, <1>4, <1>5, <1>6, <1>7, <1>8, <1>9, LockKept
     DEF TxBegin, BeginGuard

\* ... a statement the row it inserts and the page it works on ...
LEMMA StatementLocals ==
  ASSUME LockIInv, NEW t \in Callers, TxStatement(t)
  PROVE  LocalsOK(t)'
<1>0. /\ Typed /\ GraphOK /\ LocalsOK(t) /\ pages \in [Pages -> SUBSET (1..inserts)]
      /\ inserts \in Nat /\ loc[t].img \subseteq 1..inserts /\ loc[t].mine \subseteq 1..inserts
      /\ loc[t].tx \in 0..(nextTx - 1)
  BY SMTT(20), Z3T(20), InvTyped DEF LockIInv, TxTypes, LocalsOK, Rows
<1>1. CASE ExecuteInsert(t)
  <2>1. /\ Keeps(t) /\ reached'[t] \in {"insert", "lockW"} /\ inserts' = inserts + 1 /\ UNCHANGED nextTx
        /\ loc'[t].row = inserts + 1 /\ loc'[t].img = loc[t].img
    BY SMTT(20), Z3T(20), <1>0, <1>1, ExecuteInsertDoes
  <2>2. 1..inserts \subseteq 1..inserts' /\ inserts + 1 \in 1..inserts'
    BY SMTT(20), Z3T(20), <1>0, <2>1
  <2>3. RowsOf(loc[t].undo)'
    BY SMTT(20), Z3T(20), <1>0, <2>1, <2>2 DEF LocalsOK, RowsOf, Rows, Keeps
  <2> QED
    BY SMTT(20), Z3T(20), <1>0, <2>1, <2>2, <2>3 DEF LocalsOK, Keeps, Begins, Inserting, Rows
<1>2. CASE ExecuteSelect(t)
  <2>1. /\ Keeps(t) /\ reached'[t] \in {"select", "lockR"} /\ UNCHANGED <<nextTx, inserts>>
        /\ loc'[t].img = loc[t].img
    BY SMTT(20), Z3T(20), <1>0, <1>2, ExecuteSelectDoes
  <2> QED
    BY SMTT(20), Z3T(20), <1>0, <2>1, LocalsKept DEF LocalsOK, Keeps, Begins, Inserting
<1>3. CASE LockStatement(t)
  <2>1. /\ KeepsWork(t) /\ UNCHANGED <<nextTx, inserts>>
        /\ loc'[t].tx = loc[t].tx /\ loc'[t].mine = loc[t].mine /\ loc'[t].undo = loc[t].undo
        /\ (reached[t] = "lockW" /\ reached'[t] = "insert") \/ reached'[t] = "select"
    BY SMTT(20), Z3T(20), <1>0, <1>3, LockStatementDoes
  <2> QED
    BY SMTT(20), Z3T(20), <1>0, <2>1, LocalsKept DEF LocalsOK, KeepsWork, Begins, Inserting, Rows
<1>4. ASSUME NEW p \in Pages, ReadPage(t, p) PROVE LocalsOK(t)'
  <2>1. /\ Keeps(t) /\ reached[t] = "insert" /\ reached'[t] = "log" /\ UNCHANGED <<nextTx, inserts>>
        /\ loc'[t].page = p /\ loc'[t].img = pages[p] /\ loc'[t].row = loc[t].row
    BY <1>0, <1>4, ReadPageDoes
  <2>2. pages[p] \subseteq 1..inserts
    BY SMTT(20), Z3T(20), <1>0
  <2> QED
    BY SMTT(20), Z3T(20), <1>0, <2>1, <2>2, LocalsKept DEF LocalsOK, Keeps, Begins, Inserting, Rows
<1>5. CASE LogPage(t) \/ TxWritePage(t)
  <2>1. /\ reached[t] \in {"log", "write"} /\ reached'[t] \in Inserting \ {"log"}
        /\ UNCHANGED <<loc, nextTx, inserts>>
    BY Zenon, <1>0, <1>5, LogPageDoes, WritePageDoes DEF Inserting
  <2> QED
    BY SMTT(20), Z3T(20), <1>0, <2>1 DEF LocalsOK, Begins, Inserting, RowsOf, Rows
<1>6. ASSUME NEW p \in Pages, ScanPage(t, p) PROVE LocalsOK(t)'
  <2>1. /\ reached'[t] = "select" /\ UNCHANGED <<nextTx, inserts>>
        /\ loc'[t].tx = loc[t].tx /\ loc'[t].mine = loc[t].mine /\ loc'[t].undo = loc[t].undo
        /\ loc'[t].img = loc[t].img
    BY Zenon, <1>0, <1>6, ScanPageDoes
  <2> QED
    BY SMTT(20), Z3T(20), <1>0, <2>1, LocalsKept DEF LocalsOK, Begins, Inserting
<1>7. CASE FinishInsert(t)
  <2>1. /\ reached[t] = "insert" /\ UNCHANGED <<nextTx, inserts>>
        /\ Back(t, 0, {}) \/ Back(t, loc[t].tx, loc[t].mine \cup {loc[t].row})
    BY Zenon, <1>0, <1>7, FinishInsertDoes
  <2>2. loc[t].mine \cup {loc[t].row} \subseteq 1..inserts' /\ {} \subseteq 1..inserts'
    BY <1>0, <2>1 DEF LocalsOK, Inserting, Rows
  <2>3. 0 \in 0..(nextTx' - 1) /\ loc[t].tx \in 0..(nextTx' - 1)
    BY <1>0, <2>1 DEF Typed
  <2> QED
    BY SMTT(20), Z3T(20), <2>1, <2>2, <2>3, BackLocals
<1>8. CASE FinishSelect(t)
  <2>1. Back(t, loc[t].tx, loc[t].mine) /\ UNCHANGED <<nextTx, inserts>>
    BY <1>0, <1>8, FinishSelectDoes
  <2> QED
    BY <1>0, <2>1, BackLocals
<1> QED
  BY SMTT(20), Z3T(20), <1>1, <1>2, <1>3, <1>4, <1>5, <1>6, <1>7, <1>8 DEF TxStatement

\* ... and rollback() the images.
LEMMA EndLocals ==
  ASSUME LockIInv, NEW t \in Callers, TxEnd(t), ~lockLost'
  PROVE  LocalsOK(t)'
<1>0. /\ Typed /\ GraphOK /\ LocalsOK(t) /\ RowsOf(logged) /\ nextTx \in Nat \ {0}
      /\ inserts \in Nat /\ loc[t].img \subseteq 1..inserts /\ loc[t].mine \subseteq 1..inserts
      /\ loc[t].tx \in 0..(nextTx - 1)
  BY SMTT(20), Z3T(20), InvTyped DEF LockIInv, TxTypes, LocalsOK, Rows
<1>1. CASE CommitLog(t)
  <2>1. Keeps(t) /\ KeepsWork(t) /\ reached'[t] = "end" /\ UNCHANGED <<nextTx, inserts>>
    BY SMTT(20), Z3T(20), <1>0, <1>1, CommitLogDoes
  <2> QED
    BY SMTT(20), Z3T(20), <1>0, <2>1, LocalsKept DEF LocalsOK, Keeps, KeepsWork, Begins, Inserting
<1>2. CASE RollbackLog(t)
  <2>1. /\ KeepsWork(t) /\ reached'[t] = "undo" /\ UNCHANGED <<nextTx, inserts>>
        /\ loc'[t].tx = loc[t].tx /\ loc'[t].mine = loc[t].mine /\ loc'[t].undo = logged
    BY SMTT(20), Z3T(20), <1>0, <1>2, RollbackLogDoes
  <2>2. RowsOf(loc[t].undo)'
    BY SMTT(20), Z3T(20), <1>0, <2>1 DEF RowsOf, Rows
  <2> QED
    BY SMTT(20), Z3T(20), <1>0, <2>1, <2>2 DEF LocalsOK, KeepsWork, Begins, Inserting, Rows
<1>3. CASE RollbackRestore(t)
  <2>1. /\ KeepsWork(t) /\ reached'[t] = "undo" /\ UNCHANGED <<nextTx, inserts>>
        /\ loc'[t].tx = loc[t].tx /\ loc'[t].mine = loc[t].mine
        /\ loc[t].undo \in Seq(Images) /\ loc[t].undo # <<>>
        /\ loc'[t].undo = SubSeq(loc[t].undo, 1, Len(loc[t].undo) - 1)
    BY Zenon, <1>0, <1>3, RestoreDoes
  <2>2. \A k \in DOMAIN loc'[t].undo : k \in DOMAIN loc[t].undo /\ loc'[t].undo[k] = loc[t].undo[k]
    BY <2>1
  <2>3. RowsOf(loc[t].undo)'
    BY SMTT(20), Z3T(20), <1>0, <2>1, <2>2 DEF LocalsOK, RowsOf, Rows
  <2> QED
    BY SMTT(20), Z3T(20), <1>0, <2>1, <2>3 DEF LocalsOK, KeepsWork, Begins, Inserting, Rows
<1>4. CASE RollbackDone(t)
  <2>1. /\ KeepsWork(t) /\ reached'[t] = "end" /\ UNCHANGED <<nextTx, inserts>>
        /\ loc'[t].tx = loc[t].tx /\ loc'[t].mine = {} /\ loc'[t].undo = loc[t].undo
    BY SMTT(20), Z3T(20), <1>0, <1>4, RollbackDoneDoes
  <2>2. RowsOf(loc[t].undo)'
    BY SMTT(20), Z3T(20), <1>0, <2>1 DEF LocalsOK, RowsOf, Rows
  <2> QED
    BY SMTT(20), Z3T(20), <1>0, <2>1, <2>2 DEF LocalsOK, KeepsWork, Begins, Inserting, Rows
<1>5. CASE EndForget(t) \/ EndClear(t)
  <2>1. /\ reached'[t] \in {"clear", "release"} /\ UNCHANGED <<loc, nextTx, inserts>>
    BY Zenon, <1>0, <1>5, ForgetDoes, ClearDoes
  <2> QED
    BY SMTT(20), Z3T(20), <1>0, <2>1 DEF LocalsOK, Begins, Inserting, RowsOf, Rows
<1>6. CASE EndRaises(t) \/ EndRelease(t)
  <2>1. Back(t, 0, {}) /\ UNCHANGED <<nextTx, inserts>>
    BY <1>0, <1>6, EndRaisesDoes, EndReleaseDoes
  <2>2. 0 \in 0..(nextTx' - 1) /\ {} \subseteq 1..inserts'
    BY <1>0, <2>1
  <2> QED
    BY SMTT(20), Z3T(20), <2>1, <2>2, BackLocals
<1> QED
  BY SMTT(20), Z3T(20), <1>1, <1>2, <1>3, <1>4, <1>5, <1>6, LockKept DEF TxEnd
-----------------------------------------------------------------------------
\* The steps that only move a thread keep the edges ...
LEMMA WaitsKept ==
  ASSUME LockIInv, NEW t \in Callers, Frame(t), nextTx' \in {nextTx, nextTx + 1}, UNCHANGED waits,
         reached[t] \in {"detect", "unwait"} =>
           load.preempts \/ (reached'[t] \in {"detect", "unwait"} /\ loc'[t].id = loc[t].id)
  PROVE  WaitsOK'
<1>0. WaitsOK /\ nextTx \in Nat /\ load' = load
  BY DEF LockIInv, TxTypes, Frame
<1>1. \A u \in Callers \ {t} : loc'[u] = loc[u] /\ reached'[u] = reached[u]
  BY DEF Frame
<1>2. ASSUME NEW w \in DOMAIN waits, ~load.preempts
      PROVE  \E u \in Callers : reached'[u] \in {"detect", "unwait"} /\ loc'[u].id = w
  <2>1. PICK u \in Callers : reached[u] \in {"detect", "unwait"} /\ loc[u].id = w
    BY <1>0, <1>2 DEF WaitsOK
  <2> QED
    BY <1>1, <1>2, <2>1
<1> QED
  BY <1>0, <1>2 DEF WaitsOK

\* ... begin() adds its own ...
LEMMA WaitAdded ==
  ASSUME LockIInv, NEW t \in Callers, BeginAddWait(t)
  PROVE  WaitsOK'
<1>0. /\ Typed /\ GraphOK /\ WaitsOK /\ nextTx \in Nat
      /\ reached[t] = "wait" => loc[t].holder \in 1..(nextTx - 1)
      /\ reached[t] = "wait" => loc[t].id \in 1..nextTx
  BY SMTT(20), Z3T(20), InvTyped DEF LockIInv, TxTypes, LocalsOK, Begins
<1>1. /\ Frame(t) /\ loc'[t].id = loc[t].id /\ reached[t] = "wait" /\ reached'[t] = "detect"
      /\ waits' = AddWait(waits, loc[t].id, loc[t].holder) /\ UNCHANGED nextTx
  BY Zenon, <1>0, AddWaitDoes
<1>2. load' = load /\ \A u \in Callers \ {t} : loc'[u] = loc[u] /\ reached'[u] = reached[u]
  BY SMTT(20), Z3T(20), <1>1 DEF Frame
<1>3. /\ waits' = [w \in DOMAIN waits' |-> waits'[w]] /\ DOMAIN waits' = DOMAIN waits \cup {loc[t].id}
      /\ \A w \in DOMAIN waits' : waits'[w] = IF w = loc[t].id THEN loc[t].holder ELSE waits[w]
  BY SMTT(20), Z3T(20), <1>1 DEF AddWait
<1>4. ASSUME NEW w \in DOMAIN waits', ~load.preempts
      PROVE  \E u \in Callers : reached'[u] \in {"detect", "unwait"} /\ loc'[u].id = w
  <2>1. CASE w = loc[t].id
    BY <1>1, <2>1
  <2>2. CASE w # loc[t].id
    <3>1. PICK u \in Callers : reached[u] \in {"detect", "unwait"} /\ loc[u].id = w
      BY SMTT(20), Z3T(20), <1>0, <1>3, <1>4, <2>2 DEF WaitsOK
    <3> QED
      BY <1>1, <1>2, <3>1
  <2> QED
    BY <2>1, <2>2
<1>5. \A w \in DOMAIN waits' : w \in 1..nextTx /\ waits'[w] \in 1..(nextTx - 1)
  BY <1>0, <1>1, <1>3 DEF WaitsOK
<1> QED
  BY SMTT(20), Z3T(20), <1>1, <1>2, <1>3, <1>4, <1>5 DEF WaitsOK

\* ... and removal, of a thread's id, leaves the edges of others.
LEMMA WaitsRemoved ==
  ASSUME LockIInv, NEW t \in Callers, Frame(t), UNCHANGED nextTx, NEW id,
         waits' \in {RemoveWaits(waits, id), PopWait(waits, id)},
         reached[t] \in {"detect", "unwait"} => load.preempts \/ id = loc[t].id
  PROVE  WaitsOK'
<1>0. WaitsOK /\ nextTx \in Nat /\ load' = load
  BY SMTT(20), Z3T(20) DEF LockIInv, TxTypes, Frame
<1>1. \A u \in Callers \ {t} : loc'[u] = loc[u] /\ reached'[u] = reached[u]
  BY DEF Frame
<1>2. /\ waits' = [w \in DOMAIN waits' |-> waits'[w]] /\ DOMAIN waits' \subseteq DOMAIN waits \ {id}
      /\ \A w \in DOMAIN waits' : waits'[w] = waits[w]
  BY DEF RemoveWaits, PopWait
<1>3. ASSUME NEW w \in DOMAIN waits', ~load.preempts
      PROVE  \E u \in Callers : reached'[u] \in {"detect", "unwait"} /\ loc'[u].id = w
  <2>1. PICK u \in Callers : reached[u] \in {"detect", "unwait"} /\ loc[u].id = w
    BY <1>0, <1>2, <1>3 DEF WaitsOK
  <2>2. u # t
    BY SMTT(20), Z3T(20), <1>2, <1>3, <2>1
  <2> QED
    BY <1>1, <2>1, <2>2
<1> QED
  BY <1>0, <1>2, <1>3 DEF WaitsOK


\* So every edge has its thread, after any step.
LEMMA StepWaits ==
  ASSUME LockIInv, NEW t \in Callers, TxStep(t)
  PROVE  WaitsOK'
<1>0. Typed /\ GraphOK /\ Frame(t) /\ nextTx' \in {nextTx, nextTx + 1}
  BY InvTyped, CountedSteps DEF Counted
<1>1. CASE BeginAddWait(t)
  BY SMTT(20), Z3T(20), <1>1, WaitAdded
<1>2. CASE BeginRemoveWait(t)
  <2>1. UNCHANGED nextTx /\ waits' = RemoveWaits(waits, loc[t].id)
    BY Zenon, <1>0, <1>2, RemoveWaitDoes
  <2>2. waits' \in {RemoveWaits(waits, loc[t].id), PopWait(waits, loc[t].id)}
    BY <2>1
  <2> QED
    BY SMTT(20), Z3T(20), <1>0, <2>1, <2>2, WaitsRemoved
<1>3. CASE BeginRaises(t)
  <2>1. /\ load.preempts /\ UNCHANGED nextTx
        /\ waits' = waits \/ waits' = PopWait(waits, loc[t].id)
    BY <1>0, <1>3, BeginRaisesDoes
  <2> QED
    BY SMTT(20), Z3T(20), <1>0, <2>1, WaitsKept, WaitsRemoved
<1>4. CASE EndForget(t) \/ EndRaises(t)
  <2>1. /\ UNCHANGED nextTx /\ reached[t] = "end"
        /\ waits' = RemoveWaits(waits, loc[t].tx) \/ waits' = PopWait(waits, loc[t].tx)
    BY SMTT(20), Z3T(20), <1>0, <1>4, ForgetDoes, EndRaisesDoes
  <2> QED
    BY SMTT(20), Z3T(20), <1>0, <2>1, WaitsRemoved
<1>5. CASE BeginDetect(t)
  BY <1>0, <1>5, DetectDoes, WaitsKept
<1>6. CASE BeginReserve(t) \/ BeginTest(t) \/ BeginReadHolder(t) \/ BeginLock(t) \/ BeginNested(t)
           \/ BeginGuard(t) \/ BeginLog(t) \/ BeginActivate(t) \/ BeginReset(t)
  <2>1. reached[t] \notin {"detect", "unwait"} /\ UNCHANGED waits
    BY Zenon, <1>0, <1>6, ReserveDoes, TestDoes, ReadHolderDoes, LockDoes, NestedDoes, BeginLogDoes,
       GuardDoes, ActivateDoes, ResetDoes
  <2> QED
    BY SMTT(20), Z3T(20), <1>0, <2>1, WaitsKept
<1>7. CASE TxStatement(t)
  <2>1. reached[t] \notin {"detect", "unwait"} /\ UNCHANGED waits
    BY Zenon, <1>7 DEF TxStatement, ExecuteInsert, ExecuteSelect, Enter, LockStatement, ReadPage, LogPage,
                TxWritePage, ScanPage, FinishInsert, FinishSelect, shared
  <2> QED
    BY <1>0, <2>1, WaitsKept
<1>8. CASE CommitLog(t) \/ RollbackLog(t) \/ RollbackRestore(t) \/ RollbackDone(t) \/ EndClear(t)
           \/ EndRelease(t)
  <2>1. reached[t] \notin {"detect", "unwait"} /\ UNCHANGED waits
    BY SMTT(20), Z3T(20), <1>8 DEF CommitLog, RollbackLog, RollbackRestore, RollbackDone, EndClear, EndRelease, shared
  <2> QED
    BY <1>0, <2>1, WaitsKept
<1> QED
  BY SMTT(20), Z3T(20), <1>1, <1>2, <1>3, <1>4, <1>5, <1>6, <1>7, <1>8, LockKept
     DEF TxStep, TxBegin, TxEnd, BeginGuard

\* The other threads' locals stay what they are, as the counters only grow.
LEMMA OthersLocals ==
  ASSUME LockIInv, NEW t \in Callers, Frame(t), Counted, NEW u \in Callers, u # t
  PROVE  LocalsOK(u)'
<1>0. /\ LocalsOK(u) /\ nextTx \in Nat /\ inserts \in Nat
      /\ loc'[u] = loc[u] /\ reached'[u] = reached[u]
  BY DEF LockIInv, TxTypes, Frame
<1>1. 0..(nextTx - 1) \subseteq 0..(nextTx' - 1) /\ 1..nextTx \subseteq 1..nextTx'
      /\ 1..(nextTx - 1) \subseteq 1..(nextTx' - 1) /\ Rows \subseteq Rows'
  BY SMTT(20), Z3T(20), <1>0 DEF Counted, Rows
<1>2. RowsOf(loc[u].undo)'
  BY <1>0, <1>1 DEF LocalsOK, RowsOf
<1> QED
  BY <1>0, <1>1, <1>2 DEF LocalsOK

\* LockIInv is inductive.
LEMMA LockStep ==
  ASSUME LockIInv, NEW t \in Callers, TxStep(t)
  PROVE  LockIInv'
<1>1. Frame(t) /\ Counted /\ IdsStep(t)
  BY CountedSteps
<1>2. (\A u \in Callers : HoldsOK(u)') /\ LocksOK' /\ ActiveOwned'
  BY StepHolds
<1>3. LocalsOK(t)'
  BY BeginLocals, StatementLocals, EndLocals DEF TxStep
<1>4. \A u \in Callers : LocalsOK(u)'
  BY <1>1, <1>3, OthersLocals
<1>5. WaitsOK'
  BY SMTT(20), Z3T(20), <1>1, StepWaits
<1>6. TxTypes'
  <2>1. load' \in Workloads /\ nextTx' \in Nat \ {0}
    BY <1>1 DEF LockIInv, TxTypes, Frame, Counted
  <2>2. holdR' \subseteq Callers /\ holdW' \subseteq Callers
    BY <1>2 DEF LocksOK
  <2> QED
    BY Zenon, <1>1, <2>1, <2>2 DEF TxTypes, Frame, Counted
<1> QED
  BY <1>2, <1>4, <1>5, <1>6 DEF LockIInv
-----------------------------------------------------------------------------
\* It holds from the start, until the lock is lost; a step that changes nothing
\* keeps it.
LEMMA LockInv ==
  TxSpec => [](~lockLost => LockIInv)
<1>1. TxInit => LockIInv
  <2> SUFFICES ASSUME TxInit PROVE LockIInv
    OBVIOUS
  <2>1. \A t \in Callers : loc[t] = NoLocals /\ reached[t] = "idle" /\ depth[t] = 0
    BY Zenon DEF TxInit
  <2>2. /\ NoLocals.tx = 0 /\ NoLocals.lock = "none" /\ NoLocals.img = {} /\ NoLocals.undo = <<>>
        /\ NoLocals.mine = {}
    BY Zenon DEF NoLocals
  <2>3. NoLocals \in Locals
    BY NoLocalsTyped
  <2>4. /\ holdR = {} /\ holdW = {} /\ nextTx = 1 /\ active = 0 /\ logged = <<>> /\ waits = NoWaits
        /\ inserts = 0 /\ acked = {} /\ load \in Workloads
    BY DEF TxInit, LockInit
  <2>5. depth \in [Callers -> Nat] /\ reached \in [Callers -> Labels] /\ pages \in [Pages -> SUBSET Rows]
    BY DEF TxInit, Labels
  <2>6. loc \in [Callers -> Locals]
    BY <2>3 DEF TxInit
  <2>7. TxTypes
    <3>1. logged \in Seq(Images) /\ RowsOf(logged)
      BY <2>4 DEF RowsOf
    <3> QED
      BY SMTT(20), Z3T(20), <2>4, <2>5, <2>6, <3>1, TxBoundsAssumption DEF TxTypes
  <2>9. WaitsOK
    <3>1. DOMAIN waits = {} /\ waits = [w \in DOMAIN waits |-> waits[w]]
      BY SMTT(20), Z3T(20), <2>4 DEF NoWaits
    <3> QED
      BY <3>1 DEF WaitsOK
  <2>10. LocksOK /\ ActiveOwned
    BY SMTT(20), Z3T(20), <2>1, <2>2, <2>4 DEF LocksOK, ActiveOwned
  <2>11. \A t \in Callers : LocalsOK(t) /\ HoldsOK(t)
    <3> TAKE t \in Callers
    <3>1. LocalsOK(t)
      BY SMTT(20), Z3T(20), <2>1, <2>2, <2>4 DEF LocalsOK, Begins, Inserting, RowsOf
    <3>2. Level(t) = 0 /\ ~Left(t)
      BY <2>1, <2>2 DEF Level, Left
    <3> QED
      BY SMTT(20), Z3T(20), <2>1, <2>2, <2>4, <3>1, <3>2 DEF HoldsOK, Ending
  <2> QED
    BY <2>7, <2>9, <2>10, <2>11 DEF LockIInv
<1>2. (~lockLost => LockIInv) /\ [TxNext]_txVars => (~lockLost => LockIInv)'
  <2> SUFFICES ASSUME ~lockLost => LockIInv, [TxNext]_txVars, ~lockLost' PROVE LockIInv'
    OBVIOUS
  <2>0. LockIInv
    BY NextKeeps
  <2>1. CASE \E t \in Callers : TxStep(t)
    BY <2>0, <2>1, LockStep
  <2>2. CASE UNCHANGED txVars
    <3>1. UNCHANGED <<load, holdR, holdW, depth, nextTx, active, logged, waits, wal, pages, reached, loc, inserts, acked>>
      BY SMTT(20), Z3T(20), <2>2 DEF txVars
    <3>2. TxTypes' /\ WaitsOK'
      BY SMTT(20), Z3T(20), <2>0, <3>1 DEF LockIInv, TxTypes, WaitsOK, RowsOf, Rows
    <3>3. \A t \in Callers : LocalsOK(t)'
      <4> TAKE t \in Callers
      <4>1. LocalsOK(t)
        BY <2>0 DEF LockIInv
      <4> QED
        BY SMTT(20), Z3T(20), <3>1, <4>1 DEF LocalsOK, RowsOf, Rows
    <3>4. \A t \in Callers : (Level(t)' = Level(t)) /\ (Left(t)' <=> Left(t)) /\ (Owns(t)' <=> Owns(t))
      BY SMTT(20), Z3T(20), <3>1 DEF Level, Left, Owns
    <3>5. \A t \in Callers : HoldsOK(t)'
      <4> TAKE t \in Callers
      <4>1. HoldsOK(t)
        BY <2>0 DEF LockIInv
      <4> QED
        BY SMTT(20), Z3T(20), <3>1, <3>4, <4>1 DEF HoldsOK
    <3>6. LocksOK' /\ ActiveOwned'
      BY Zenon, <2>0, <3>1, <3>4 DEF LockIInv, LocksOK, ActiveOwned
    <3> QED
      BY SMTT(20), Z3T(20), <3>2, <3>3, <3>5, <3>6 DEF LockIInv
  <2> QED
    BY <2>1, <2>2, NextKeeps
<1> QED
  BY <1>1, <1>2, PTL DEF TxSpec
=============================================================================
