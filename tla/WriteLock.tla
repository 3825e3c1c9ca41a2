------------------------------ MODULE WriteLock ------------------------------
(***************************************************************************)
(* tinydb.tx.lock: the reentrant WriteLock over the write side of RWLock.  *)
(*                                                                         *)
(* The depths live in a _ReentrantWriteGuard, which _reentrant_for finds   *)
(* in, or adds to, a module-level dict without holding any lock: the look- *)
(* up and the store are two steps, and a guard is named by its creator.    *)
(* CPython frees a guard that was replaced with the last call that works   *)
(* on it, and the write() blocks in its _stacks are then closed by the     *)
(* thread that does.  Callers call acquire() and release() in matched      *)
(* pairs, nested up to a bound.                                            *)
(***************************************************************************)
EXTENDS RWLockSpec, Integers

CONSTANTS
  NoGuard,      \* the dict has no entry for the lock
  MaxDepth,     \* bound on nested acquires
  FirstGuards   \* the dict's entry at the start: {NoGuard} for a new lock

ASSUME GuardAssumption == NoGuard \notin Callers /\ FirstGuards \subseteq Callers \cup {NoGuard}
ASSUME DepthAssumption == MaxDepth \in Nat \ {0}

VARIABLES
  registry,   \* _REENTRANT[id(rwlock)]
  stacks,     \* stacks[g][t]: depth of t in the _stacks of guard g
  at,
  guard,      \* the guard the running call works on
  wanted,     \* acquires less releases, as the caller counts them
  raced       \* (history) a guard in use was replaced

guardVars == <<holdR, holdW, registry, stacks, at, guard, wanted, raced>>

NoCounts == [t \in Callers |-> 0]

GuardInit ==
  /\ LockInit
  /\ registry \in FirstGuards
  /\ stacks = [g \in Callers |-> NoCounts]
  /\ at = [t \in Callers |-> "idle"]
  /\ guard = [t \in Callers |-> NoGuard]
  /\ wanted = [t \in Callers |-> 0]
  /\ raced = FALSE

\* _reentrant_for, the get: with an entry the call goes on with it.
Lookup(t, found, missing) ==
  /\ guard' = [guard EXCEPT ![t] = registry]
  /\ at' = [at EXCEPT ![t] = IF registry = NoGuard THEN missing ELSE found]
  /\ UNCHANGED <<holdR, holdW, registry, stacks, raced>>

CallAcquire(t) ==
  /\ at[t] = "idle" /\ wanted[t] < MaxDepth /\ t \notin holdR
  /\ wanted' = [wanted EXCEPT ![t] = @ + 1]
  /\ Lookup(t, "acquire", "create")

RunsOn(t, g) == at[t] \notin {"idle", "create"} /\ guard[t] = g
InUse(g) == g \in Callers /\ \E t \in Callers : RunsOn(t, g) \/ stacks[g][t] > 0

\* _reentrant_for, the store: a new guard, whatever the dict holds by now.  One
\* on which no call runs is freed here, by a thread that has not got the lock:
\* release_write raises, and the lock stays as it is.
StoreGuard(t) ==
  /\ at[t] = "create"
  /\ registry' = t
  /\ guard' = [guard EXCEPT ![t] = t]
  /\ at' = [at EXCEPT ![t] = "acquire"]
  /\ raced' = (raced \/ InUse(registry))
  /\ stacks' = [g \in Callers |-> IF g = registry /\ \A u \in Callers : ~RunsOn(u, g)
                                   THEN NoCounts ELSE stacks[g]]
  /\ UNCHANGED <<holdR, holdW, wanted>>

Depth(t) == stacks[guard[t]][t]
SetDepth(t, n) == stacks' = [stacks EXCEPT ![guard[t]][t] = n]

\* A call returns, and leaves depth n.  When it was the last on a guard that was
\* replaced, the guard is freed: if it counts anyone, the lock is given up, as
\* far as this thread has it.
Frees(t) == guard[t] # registry /\ \A u \in Callers \ {t} : ~RunsOn(u, guard[t])
Free(t, counts) ==
  /\ stacks' = [stacks EXCEPT ![guard[t]] = NoCounts]
  /\ holdW' = IF counts = NoCounts THEN holdW ELSE holdW \ {t}
CallReturns(t, n) ==
  /\ at' = [at EXCEPT ![t] = "idle"]
  /\ IF Frees(t) THEN Free(t, [stacks[guard[t]] EXCEPT ![t] = n])
                 ELSE SetDepth(t, n) /\ UNCHANGED holdW
  /\ UNCHANGED <<holdR, registry, guard, wanted, raced>>

\* acquire(): the same thread again only counts.
Reenter(t) ==
  /\ at[t] = "acquire" /\ Depth(t) > 0
  /\ CallReturns(t, Depth(t) + 1)

\* acquire(): the first entry takes RWLock.write(), then counts.
EnterUnderlying(t) ==
  /\ at[t] = "acquire" /\ Depth(t) = 0
  /\ EnterWrite(t)
  /\ at' = [at EXCEPT ![t] = "push"]
  /\ UNCHANGED <<registry, stacks, guard, wanted, raced>>

Push(t) == at[t] = "push" /\ CallReturns(t, 1)

CallRelease(t) ==
  /\ at[t] = "idle" /\ wanted[t] > 0
  /\ wanted' = [wanted EXCEPT ![t] = @ - 1]
  /\ Lookup(t, "release", "release")

\* release(): without an entry of this thread, RuntimeError.
ReleaseRaises(t) == at[t] = "release" /\ Depth(t) = 0 /\ CallReturns(t, 0)

\* The last release() uncounts first and then leaves the write() block.
LastPop(t) ==
  /\ SetDepth(t, 0)
  /\ at' = [at EXCEPT ![t] = "exit"]
  /\ UNCHANGED <<holdR, holdW, registry, guard, wanted, raced>>

Pop_KeepsOuter(t) ==
  /\ at[t] = "release" /\ Depth(t) > 0
  /\ SetDepth(t, Depth(t) - 1)
  /\ at' = [at EXCEPT ![t] = "exit"]
  /\ UNCHANGED <<holdR, holdW, registry, guard, wanted, raced>>
Pop(t) ==
  /\ at[t] = "release" /\ Depth(t) > 0
  /\ IF Depth(t) = 1 THEN LastPop(t) ELSE CallReturns(t, Depth(t) - 1)

ExitUnderlying(t) ==
  /\ at[t] = "exit"
  /\ ExitWrite(t)
  /\ stacks' = IF Frees(t) THEN [stacks EXCEPT ![guard[t]] = NoCounts] ELSE stacks
  /\ at' = [at EXCEPT ![t] = "idle"]
  /\ UNCHANGED <<registry, guard, wanted, raced>>

\* SELECT outside a transaction takes the read side of the same lock.
Read(t) ==
  /\ at[t] = "idle" /\ wanted[t] = 0
  /\ EnterRead(t) \/ ExitRead(t)
  /\ UNCHANGED <<registry, stacks, at, guard, wanted, raced>>

GuardStep(t) ==
  \/ CallAcquire(t) \/ StoreGuard(t) \/ Reenter(t) \/ EnterUnderlying(t) \/ Push(t)
  \/ CallRelease(t) \/ ReleaseRaises(t) \/ Pop(t) \/ ExitUnderlying(t) \/ Read(t)

GuardNext == \E t \in Callers : GuardStep(t)
GuardSpec == GuardInit /\ [][GuardNext]_guardVars
-----------------------------------------------------------------------------
GuardTypeOK ==
  /\ holdR \subseteq Callers /\ holdW \subseteq Callers
  /\ registry \in Callers \cup {NoGuard}
  /\ stacks \in [Callers -> [Callers -> Nat]] /\ raced \in BOOLEAN
  /\ at \in [Callers -> {"idle", "create", "acquire", "push", "release", "exit"}]
  /\ guard \in [Callers -> Callers \cup {NoGuard}]
  /\ wanted \in [Callers -> 0..MaxDepth]

\* "the lock will only be released when an equal number of release() calls
\* have been made", and then it is: between calls a thread holds the write
\* side exactly while it has acquired more often than it has released; unless
\* a guard in use was replaced by a first acquire that overlapped with another.
HeldWhileWanted ==
  ~raced => \A t \in Callers : at[t] = "idle" => (t \in holdW <=> wanted[t] > 0)

\* Whoever is inside a nested section is alone in it: no other thread's
\* section and no reader overlaps it; with the same exception.
SectionsExclude ==
  ~raced =>
    \A t, u \in Callers :
      at[t] = "idle" /\ wanted[t] > 0 /\ u # t =>
        u \notin holdR /\ ~(at[u] = "idle" /\ wanted[u] > 0)

\* acquire and release: a nested section lasts as long as it should, and alone.
SectionsHeld == GuardTypeOK /\ HeldWhileWanted /\ SectionsExclude
=============================================================================
