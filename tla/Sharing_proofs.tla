--------------------------- MODULE Sharing_proofs ---------------------------
(***************************************************************************)
(* What the threads of one process share, for any number of threads.       *)
(*                                                                         *)
(* The reentrant WriteLock, for any nesting and whichever first acquires   *)
(* overlap: until a guard in use is replaced, a nested section is          *)
(* exclusive, and is held as long as it should be.                         *)
(*                                                                         *)
(* RWLock, with and without writer preference and timeouts: its counters   *)
(* agree with the threads they count, it excludes, it loses no wake-up,    *)
(* and it implements RWLockSpec.                                           *)
(*                                                                         *)
(* The client pool, for any timeouts and max_size: a client is in one      *)
(* place, no more than max_size are open, none after close().              *)
(***************************************************************************)
EXTENDS RWLock, WriteLock, ClientPool, TLAPS

(* WriteLock                                                               *)

\* How often the guard in the registry counts t.
Counted(t) == IF registry = NoGuard THEN 0 ELSE stacks[registry][t]

\* A call past _reentrant_for has a guard, and one is stored before any returns.
GuardsKnown ==
  /\ \A t \in Callers : at[t] \notin {"idle", "create"} => guard[t] \in Callers
  /\ registry = NoGuard => \A t \in Callers : wanted[t] > 0 => at[t] = "create"

\* While no guard in use is replaced, all count in the same one ...
OneGuard ==
  /\ \A t \in Callers : at[t] \notin {"idle", "create"} => guard[t] = registry
  /\ \A g, t \in Callers : g # registry => stacks[g][t] = 0

\* ... which agrees with what its callers count, ...
CountsCalls(t) ==
  /\ at[t] = "idle" => Counted(t) = wanted[t]
  /\ at[t] = "create" => Counted(t) = 0 /\ wanted[t] = 1
  /\ at[t] = "acquire" => Counted(t) = wanted[t] - 1
  /\ at[t] = "push" => Counted(t) = 0 /\ wanted[t] = 1
  /\ at[t] = "release" => Counted(t) = wanted[t] + 1
  /\ at[t] = "exit" => Counted(t) = 0 /\ wanted[t] = 0

\* ... and with the underlying lock: it is held by whoever is counted, and by a
\* thread between taking it and counting, or between uncounting and letting go.
LockMatches ==
  /\ \A t \in Callers : t \in holdW <=> at[t] \in {"push", "exit"} \/ Counted(t) > 0
  /\ \A t, u \in holdW : t = u
  /\ holdR # {} => holdW = {}

GuardSound == OneGuard /\ LockMatches /\ \A t \in Callers : CountsCalls(t)
GuardIInv == GuardTypeOK /\ GuardsKnown /\ (~raced => GuardSound)

\* The first state: nobody is counted, and nobody holds the lock.
LEMMA InitGuardIInv == GuardInit => GuardIInv
<1> SUFFICES ASSUME GuardInit PROVE GuardIInv
  OBVIOUS
<1>0. \A t \in Callers : at[t] = "idle" /\ wanted[t] = 0 /\ \A g \in Callers : stacks[g][t] = 0
  BY DEF GuardInit, NoCounts
<1>1. GuardTypeOK
  <2>1. stacks \in [Callers -> [Callers -> Nat]]
    BY DEF GuardInit, NoCounts
  <2>2. holdR \subseteq Callers /\ holdW \subseteq Callers /\ registry \in Callers \cup {NoGuard}
    BY GuardAssumption DEF GuardInit, LockInit
  <2>3. wanted \in [Callers -> 0..MaxDepth]
    BY DepthAssumption DEF GuardInit
  <2> QED
    BY <2>1, <2>2, <2>3 DEF GuardInit, GuardTypeOK
<1>2. GuardsKnown /\ OneGuard
  BY <1>0 DEF GuardsKnown, OneGuard
<1>3. \A t \in Callers : Counted(t) = 0
  BY <1>0, <1>1 DEF Counted, GuardTypeOK
<1>4. LockMatches
  BY <1>0, <1>3 DEF LockMatches, GuardInit, LockInit
<1>5. ASSUME NEW t \in Callers PROVE CountsCalls(t)
  BY <1>0, <1>3 DEF CountsCalls
<1> QED
  BY <1>1, <1>2, <1>4, <1>5 DEF GuardIInv, GuardSound

\* In whatever order the steps come, the variables keep their types.
LEMMA TypesKept ==
  ASSUME GuardTypeOK, GuardsKnown, NEW t \in Callers, GuardStep(t)
  PROVE  GuardTypeOK'
<1> USE GuardAssumption, DepthAssumption DEF GuardTypeOK
<1>1. ASSUME NEW n \in Nat, CallReturns(t, n), guard[t] \in Callers PROVE GuardTypeOK'
  <2>1. NoCounts \in [Callers -> Nat]
    BY DEF NoCounts
  <2>2. stacks' \in [Callers -> [Callers -> Nat]] /\ holdW' \subseteq Callers
    BY <1>1, <2>1 DEF CallReturns, Free, SetDepth
  <2>3. at' = [at EXCEPT ![t] = "idle"] /\ UNCHANGED <<holdR, registry, guard, wanted, raced>>
    BY <1>1 DEF CallReturns
  <2> QED
    BY <2>2, <2>3
<1>2. CASE CallAcquire(t) \/ CallRelease(t)
  <2>0. \A n : n \in 0..MaxDepth /\ n < MaxDepth => n + 1 \in 0..MaxDepth
    OBVIOUS
  <2>1. wanted' \in [Callers -> 0..MaxDepth]
    <3>1. wanted[t] \in 0..MaxDepth
      OBVIOUS
    <3>2. CASE CallAcquire(t)
      BY <2>0, <3>1, <3>2 DEF CallAcquire
    <3>3. CASE CallRelease(t)
      BY <3>1, <3>3 DEF CallRelease
    <3> QED
      BY <1>2, <3>2, <3>3
  <2>2. /\ guard' = [guard EXCEPT ![t] = registry]
        /\ at' \in [Callers -> {"idle", "create", "acquire", "push", "release", "exit"}]
        /\ UNCHANGED <<holdR, holdW, registry, stacks, raced>>
    BY <1>2 DEF CallAcquire, CallRelease, Lookup
  <2> QED
    BY <2>1, <2>2
<1>3. CASE StoreGuard(t)
  <2>1. \A g \in Callers : NoCounts \in [Callers -> Nat] /\ stacks[g] \in [Callers -> Nat]
    BY DEF NoCounts
  <2>2. stacks' \in [Callers -> [Callers -> Nat]]
    BY <1>3, <2>1 DEF StoreGuard
  <2> QED
    BY <1>3, <2>2 DEF StoreGuard
<1>4. at[t] \notin {"idle", "create"} => guard[t] \in Callers /\ Depth(t) \in Nat
  BY DEF GuardsKnown, Depth
<1>5. CASE Reenter(t) \/ Push(t) \/ ReleaseRaises(t)
  BY <1>1, <1>4, <1>5 DEF Reenter, Push, ReleaseRaises
<1>6. CASE Pop(t)
  <2>1. Depth(t) - 1 \in Nat
    BY <1>4, <1>6 DEF Pop
  <2>2. CASE LastPop(t)
    BY <1>4, <1>6, <2>2 DEF Pop, LastPop, SetDepth
  <2> QED
    BY <1>1, <1>4, <1>6, <2>1, <2>2 DEF Pop
<1>7. CASE EnterUnderlying(t)
  BY <1>7 DEF EnterUnderlying, EnterWrite
<1>8. CASE ExitUnderlying(t)
  BY <1>4, <1>8 DEF ExitUnderlying, ExitWrite, NoCounts
<1>9. CASE Read(t)
  BY <1>9 DEF Read, EnterRead, ExitRead
<1> QED
  BY <1>2, <1>3, <1>5, <1>6, <1>7, <1>8, <1>9 DEF GuardStep

\* What a step does to the registry and to the caller that takes it.
LEMMA KnownKept ==
  ASSUME GuardTypeOK, GuardsKnown, NEW t \in Callers, GuardStep(t)
  PROVE  GuardsKnown'
<1> USE GuardAssumption DEF GuardTypeOK, GuardsKnown
<1>1. CASE CallAcquire(t) \/ CallRelease(t)
  <2>1. /\ at[t] = "idle" /\ UNCHANGED registry /\ guard' = [guard EXCEPT ![t] = registry]
        /\ \A u \in Callers \ {t} : at'[u] = at[u] /\ wanted'[u] = wanted[u]
        /\ registry = NoGuard => at'[t] = "create"
    <3>1. CASE CallAcquire(t)
      BY <3>1 DEF CallAcquire, Lookup
    <3>2. CASE CallRelease(t)
      <4>1. registry # NoGuard
        BY <3>2 DEF CallRelease
      <4> QED
        BY <3>2, <4>1 DEF CallRelease, Lookup
    <3> QED
      BY <1>1, <3>1, <3>2
  <2> QED
    BY <2>1
<1>2. CASE StoreGuard(t)
  BY <1>2 DEF StoreGuard
<1>3. CASE Reenter(t) \/ Push(t) \/ ReleaseRaises(t) \/ Pop(t)
  <2>1. /\ at[t] \notin {"idle", "create"} /\ UNCHANGED <<registry, guard, wanted>>
        /\ at' = [at EXCEPT ![t] = "idle"] \/ at' = [at EXCEPT ![t] = "exit"]
    BY <1>3 DEF Reenter, Push, ReleaseRaises, Pop, LastPop, CallReturns
  <2> QED
    BY <2>1
<1>4. CASE EnterUnderlying(t) \/ ExitUnderlying(t)
  BY <1>4 DEF EnterUnderlying, ExitUnderlying
<1>5. CASE Read(t)
  BY <1>5 DEF Read
<1> QED
  BY <1>1, <1>2, <1>3, <1>4, <1>5 DEF GuardStep

\* A step of one thread's call: what is to be shown of that thread alone.
LEMMA CallerStep ==
  ASSUME GuardSound, NEW t \in Callers, registry' = registry,
         \A u \in Callers \ {t} :
           /\ at'[u] = at[u] /\ guard'[u] = guard[u] /\ wanted'[u] = wanted[u]
           /\ u \in holdW' <=> u \in holdW,
         \A g, u \in Callers : g # registry \/ u # t => stacks'[g][u] = stacks[g][u],
         registry = NoGuard \/ registry \in Callers,
         at'[t] \notin {"idle", "create"} => guard'[t] = registry,
         t \in holdW' <=> at'[t] \in {"push", "exit"} \/ Counted(t)' > 0,
         \A u, v \in holdW' : u = v,
         holdR' # {} => holdW' = {},
         CountsCalls(t)'
  PROVE  GuardSound'
<1>1. OneGuard'
  BY DEF GuardSound, OneGuard
<1>2. \A u \in Callers \ {t} : Counted(u)' = Counted(u)
  BY DEF Counted
<1>3. \A u \in Callers : CountsCalls(u)'
  BY <1>2 DEF GuardSound, CountsCalls
<1>4. LockMatches'
  BY <1>2 DEF GuardSound, LockMatches
<1> QED
  BY <1>1, <1>3, <1>4 DEF GuardSound

\* acquire() and release() look their guard up.
LEMMA LookupKeeps ==
  ASSUME GuardTypeOK, GuardsKnown, GuardSound, NEW t \in Callers, CallAcquire(t) \/ CallRelease(t)
  PROVE  GuardSound'
<1>1. /\ at[t] = "idle" /\ UNCHANGED <<holdR, holdW, registry, stacks>>
      /\ guard' = [guard EXCEPT ![t] = registry]
  BY DEF CallAcquire, CallRelease, Lookup
<1>2. \A u \in Callers \ {t} : at'[u] = at[u] /\ guard'[u] = guard[u] /\ wanted'[u] = wanted[u]
  BY DEF CallAcquire, CallRelease, Lookup, GuardTypeOK
<1>3. Counted(t)' = Counted(t) /\ Counted(t) = wanted[t] /\ wanted[t] \in Nat
  BY <1>1, DepthAssumption DEF Counted, GuardSound, CountsCalls, GuardTypeOK
<1>4. /\ at'[t] = "create" => registry = NoGuard /\ wanted'[t] = wanted[t] + 1
      /\ at'[t] = "acquire" => wanted'[t] = wanted[t] + 1
      /\ at'[t] = "release" => wanted'[t] = wanted[t] - 1
      /\ at'[t] \in {"create", "acquire", "release"} /\ guard'[t] = registry
  BY DEF CallAcquire, CallRelease, Lookup, GuardTypeOK
<1>5. CountsCalls(t)'
  BY <1>3, <1>4 DEF CountsCalls, Counted
<1>6. t \in holdW <=> Counted(t) > 0
  BY <1>1 DEF GuardSound, LockMatches
<1> QED
  BY <1>1, <1>2, <1>3, <1>4, <1>5, <1>6, CallerStep DEF GuardTypeOK, GuardSound, LockMatches

\* A new guard in place of one that is not in use: nobody is counted.
LEMMA StoreKeeps ==
  ASSUME GuardTypeOK, GuardsKnown, GuardSound, NEW t \in Callers, StoreGuard(t), ~InUse(registry)
  PROVE  GuardSound'
<1>1. /\ at[t] = "create" /\ registry' = t /\ UNCHANGED <<holdR, holdW, wanted>>
      /\ \A u \in Callers : /\ at'[u] = IF u = t THEN "acquire" ELSE at[u]
                            /\ guard'[u] = IF u = t THEN t ELSE guard[u]
  BY DEF StoreGuard, GuardTypeOK
<1>2. \A g, u \in Callers : stacks[g][u] = 0
  BY DEF InUse, GuardTypeOK, GuardSound, OneGuard
<1>3. \A g, u \in Callers : stacks'[g][u] = 0
  BY <1>2 DEF StoreGuard, NoCounts
<1>4. \A u \in Callers : Counted(u) = 0 /\ Counted(u)' = 0
  BY <1>1, <1>2, <1>3 DEF Counted, GuardTypeOK
<1>5. ASSUME NEW u \in Callers PROVE at[u] \in {"idle", "create"}
  <2>1. at[u] \notin {"idle", "create"} => guard[u] = registry /\ registry \in Callers
    BY DEF GuardSound, OneGuard, GuardsKnown
  <2> QED
    BY <2>1 DEF InUse, RunsOn
<1>6. OneGuard'
  BY <1>1, <1>3, <1>5 DEF OneGuard
<1>7. \A u \in Callers : CountsCalls(u)'
  BY <1>1, <1>4 DEF GuardSound, CountsCalls
<1>8. LockMatches'
  BY <1>1, <1>4, <1>5 DEF GuardSound, LockMatches
<1> QED
  BY <1>6, <1>7, <1>8 DEF GuardSound

\* A call that returns, or uncounts, leaves depth n in the one guard.
LEMMA CountKeeps ==
  ASSUME GuardTypeOK, GuardsKnown, GuardSound, NEW t \in Callers,
         Reenter(t) \/ Push(t) \/ Pop(t) \/ ReleaseRaises(t)
  PROVE  GuardSound'
<1>1. /\ at[t] \in {"acquire", "push", "release"} /\ guard[t] = registry /\ registry \in Callers
      /\ Counted(t) = Depth(t) /\ Depth(t) \in Nat /\ wanted[t] \in Nat
  <2>1. at[t] \in {"acquire", "push", "release"}
    BY DEF Reenter, Push, Pop, ReleaseRaises
  <2>2. guard[t] = registry /\ guard[t] \in Callers
    BY <2>1 DEF GuardsKnown, GuardSound, OneGuard
  <2> QED
    BY <2>1, <2>2, GuardAssumption, DepthAssumption DEF Counted, Depth, GuardTypeOK
<1>2. ~ReleaseRaises(t) /\ ~Frees(t)
  BY <1>1 DEF GuardSound, CountsCalls, ReleaseRaises, Frees
<1>3. PICK n \in Nat, l \in {"idle", "exit"} :
        /\ SetDepth(t, n) /\ at' = [at EXCEPT ![t] = l]
        /\ UNCHANGED <<holdR, holdW, registry, guard, wanted>>
        /\ n = wanted[t] /\ (l = "exit" <=> n = 0)
  <2> DEFINE P(n, l) == /\ SetDepth(t, n) /\ at' = [at EXCEPT ![t] = l]
                        /\ UNCHANGED <<holdR, holdW, registry, guard, wanted>>
                        /\ n = wanted[t] /\ (l = "exit" <=> n = 0)
  <2>1. CASE Reenter(t)
    <3>1. Depth(t) + 1 = wanted[t] /\ Depth(t) + 1 \in Nat /\ Depth(t) + 1 # 0
      BY <1>1, <2>1 DEF Reenter, GuardSound, CountsCalls
    <3>2. P(Depth(t) + 1, "idle")
      BY <1>2, <2>1, <3>1 DEF Reenter, CallReturns
    <3> QED
      BY <3>1, <3>2
  <2>2. CASE Push(t)
    <3>1. P(1, "idle")
      BY <1>1, <1>2, <2>2 DEF Push, CallReturns, GuardSound, CountsCalls
    <3> QED
      BY <3>1
  <2>3. CASE Pop(t) /\ Depth(t) = 1
    <3>1. P(0, "exit")
      BY <1>1, <2>3 DEF Pop, LastPop, GuardSound, CountsCalls
    <3> QED
      BY <3>1
  <2>4. CASE Pop(t) /\ Depth(t) # 1
    <3>1. Depth(t) - 1 = wanted[t] /\ Depth(t) - 1 \in Nat /\ Depth(t) - 1 # 0
      BY <1>1, <2>4 DEF Pop, GuardSound, CountsCalls
    <3>2. P(Depth(t) - 1, "idle")
      BY <1>2, <2>4, <3>1 DEF Pop, CallReturns
    <3> QED
      BY <3>1, <3>2
  <2> QED
    BY <1>2, <2>1, <2>2, <2>3, <2>4
<1>4. \A g, u \in Callers : stacks'[g][u] = IF g = registry /\ u = t THEN n ELSE stacks[g][u]
  BY <1>1, <1>3 DEF SetDepth, GuardTypeOK
<1>5. Counted(t)' = n /\ at'[t] = l /\ \A u \in Callers \ {t} : at'[u] = at[u]
  BY <1>1, <1>3, <1>4, GuardAssumption DEF Counted, GuardTypeOK
<1>6. t \in holdW
  <2>1. at[t] = "push" \/ Counted(t) > 0
    BY <1>1, <1>2 DEF Reenter, Push, Pop
  <2> QED
    BY <2>1 DEF GuardSound, LockMatches
<1>7. CountsCalls(t)'
  BY <1>3, <1>5 DEF CountsCalls
<1>8. t \in holdW' <=> at'[t] \in {"push", "exit"} \/ Counted(t)' > 0
  BY <1>3, <1>5, <1>6
<1>9. at'[t] \notin {"idle", "create"} => guard'[t] = registry
  BY <1>1, <1>3
<1> QED
  BY <1>1, <1>3, <1>4, <1>5, <1>7, <1>8, <1>9, CallerStep DEF GuardSound, LockMatches

\* The underlying lock is taken by a thread that is not counted, and given back
\* by one.
LEMMA MoveKeeps ==
  ASSUME GuardTypeOK, GuardsKnown, GuardSound, NEW t \in Callers,
         EnterUnderlying(t) \/ ExitUnderlying(t)
  PROVE  GuardSound'
<1> DEFINE l == IF at[t] = "acquire" THEN "push" ELSE "idle"
<1>1. /\ at[t] \in {"acquire", "exit"} /\ UNCHANGED <<holdR, registry, guard, wanted>>
      /\ at[t] = "acquire" => Depth(t) = 0 /\ holdR = {} /\ holdW = {} /\ holdW' = {t}
      /\ at[t] = "exit" => holdW' = holdW \ {t}
      /\ at' = [at EXCEPT ![t] = l]
  BY DEF EnterUnderlying, ExitUnderlying, EnterWrite, ExitWrite
<1>2. guard[t] = registry /\ registry \in Callers
  BY <1>1 DEF GuardsKnown, GuardSound, OneGuard
<1>3. UNCHANGED stacks
  BY <1>2 DEF EnterUnderlying, ExitUnderlying, Frees
<1>4. Counted(t) = 0 /\ Counted(t)' = 0 /\ at'[t] = l /\ \A u \in Callers \ {t} : at'[u] = at[u]
  BY <1>1, <1>2, <1>3, GuardAssumption DEF Counted, Depth, GuardSound, CountsCalls, GuardTypeOK
<1>5. CountsCalls(t)'
  BY <1>1, <1>4 DEF GuardSound, CountsCalls, GuardTypeOK
<1>6. /\ t \in holdW' <=> at'[t] \in {"push", "exit"} \/ Counted(t)' > 0
      /\ \A u \in Callers \ {t} : u \in holdW' <=> u \in holdW
      /\ \A u, v \in holdW' : u = v
      /\ holdR' # {} => holdW' = {}
  BY <1>1, <1>4 DEF GuardSound, LockMatches
<1> QED
  BY <1>1, <1>2, <1>3, <1>4, <1>5, <1>6, CallerStep

\* A reader enters only when no thread is inside the write side.
LEMMA ReadKeeps ==
  ASSUME GuardSound, NEW t \in Callers, Read(t)
  PROVE  GuardSound'
<1>1. /\ UNCHANGED <<holdW, registry, stacks, at, guard, wanted>>
      /\ holdR' # {} => holdW = {}
  BY DEF Read, EnterRead, ExitRead, GuardSound, LockMatches
<1> QED
  BY <1>1 DEF GuardSound, OneGuard, LockMatches, CountsCalls, Counted

\* Every step, of any thread, keeps the invariant.
LEMMA NextGuardIInv == GuardIInv /\ [GuardNext]_guardVars => GuardIInv'
<1> SUFFICES ASSUME GuardIInv, [GuardNext]_guardVars PROVE GuardIInv'
  OBVIOUS
<1>1. ASSUME NEW t \in Callers, GuardStep(t) PROVE GuardIInv'
  <2>1. GuardTypeOK' /\ GuardsKnown'
    BY <1>1, TypesKept, KnownKept DEF GuardIInv
  <2>2. raced => raced'
    BY <1>1 DEF GuardStep, CallAcquire, CallRelease, Lookup, StoreGuard, Reenter, Push, Pop, LastPop,
                ReleaseRaises, CallReturns, EnterUnderlying, ExitUnderlying, Read
  <2>3. ASSUME ~raced' PROVE GuardSound'
    <3>1. GuardTypeOK /\ GuardsKnown /\ GuardSound
      BY <2>2, <2>3 DEF GuardIInv
    <3>2. StoreGuard(t) => ~InUse(registry)
      BY <2>3 DEF StoreGuard
    <3> QED
      BY <1>1, <3>1, <3>2, LookupKeeps, StoreKeeps, CountKeeps, MoveKeeps, ReadKeeps DEF GuardStep
  <2> QED
    BY <2>1, <2>3 DEF GuardIInv
<1>2. CASE UNCHANGED guardVars
  BY <1>2 DEF guardVars, GuardIInv, GuardTypeOK, GuardsKnown, GuardSound, OneGuard, LockMatches,
              CountsCalls, Counted
<1> QED
  BY <1>1, <1>2 DEF GuardNext

\* Between calls, being counted is holding the lock.
LEMMA GuardIInvSuffices == GuardIInv => SectionsHeld
<1> SUFFICES ASSUME GuardIInv PROVE SectionsHeld
  OBVIOUS
<1>1. ASSUME ~raced, NEW t \in Callers, at[t] = "idle"
      PROVE  t \in holdW <=> wanted[t] > 0
  BY <1>1 DEF GuardIInv, GuardSound, LockMatches, CountsCalls
<1>2. HeldWhileWanted
  BY <1>1 DEF HeldWhileWanted
<1>3. SectionsExclude
  BY <1>1 DEF SectionsExclude, GuardIInv, GuardSound, LockMatches
<1> QED
  BY <1>2, <1>3 DEF SectionsHeld, GuardIInv

\* WriteLock.acquire and release, for any threads, any nesting depth and any
\* overlap of first acquires: until a guard in use is replaced, a thread holds
\* the lock from its first acquire() to its last release(), and no other section
\* and no reader is inside meanwhile.
THEOREM NestedSections == GuardSpec => []SectionsHeld
<1>1. GuardInit => GuardIInv
  BY InitGuardIInv
<1>2. GuardIInv /\ [GuardNext]_guardVars => GuardIInv'
  BY NextGuardIInv
<1>3. GuardIInv => SectionsHeld
  BY GuardIInvSuffices
<1> QED
  BY <1>1, <1>2, <1>3, PTL DEF GuardSpec

-----------------------------------------------------------------------------
INSTANCE FiniteSetTheorems

(* RWLock                                                                  *)

\* The inductive invariant.  Exclusion alone is not inductive: entering needs
\* the counters to be what they count; nor is the wake-up property, which
\* needs _writers_waiting > 0 to name a thread.
IInv == TypeOK /\ CountersAgree /\ MutualExclusion /\ NoLostWakeup

\* The sets the counters count are finite.
LEMMA CountedFinite == IsFiniteSet(Reading) /\ IsFiniteSet(QueuedWriters)
<1>1. Reading \in SUBSET Threads /\ QueuedWriters \in SUBSET Threads
  BY DEF Reading, QueuedWriters
<1> QED
  BY <1>1, ThreadsAssumption, FS_Subset

\* The size of a finite set with an element put in or taken out.
LEMMA CountAfter ==
  ASSUME NEW S, IsFiniteSet(S), NEW t
  PROVE  /\ Cardinality(S \cup {t}) = Cardinality(S) + (IF t \in S THEN 0 ELSE 1)
         /\ Cardinality(S \ {t}) = Cardinality(S) - (IF t \in S THEN 1 ELSE 0)
<1>1. Cardinality(S) \in Nat
  BY FS_CardinalityType
<1>2. Cardinality(S \cup {t}) = Cardinality(S) + (IF t \in S THEN 0 ELSE 1)
  BY <1>1, FS_AddElement
<1>3. Cardinality(S \ {t}) = Cardinality(S) - (IF t \in S THEN 1 ELSE 0)
  BY <1>1, FS_RemoveElement
<1> QED
  BY <1>2, <1>3

\* A thread that moves to l joins the set of l and leaves the one it was in.
LEMMA MoveOne ==
  ASSUME TypeOK, NEW t \in Threads, NEW l \in PcStates, Goto(t, l)
  PROVE  /\ pc' \in [Threads -> PcStates]
         /\ \A u \in Threads : pc'[u] = IF u = t THEN l ELSE pc[u]
         /\ Reading' = IF l = "reading" THEN Reading \cup {t} ELSE Reading \ {t}
         /\ Writing' = IF l = "writing" THEN Writing \cup {t} ELSE Writing \ {t}
         /\ QueuedWriters' = IF l \in {"writeWait", "writeCheck"}
                               THEN QueuedWriters \cup {t} ELSE QueuedWriters \ {t}
<1>1. /\ pc' \in [Threads -> PcStates]
      /\ \A u \in Threads : pc'[u] = IF u = t THEN l ELSE pc[u]
  BY DEF TypeOK, Goto
<1> QED
  BY <1>1 DEF Reading, Writing, QueuedWriters

\* The two sets that the lock counts, after the move.
LEMMA MoveCounts ==
  ASSUME TypeOK, CountersAgree, NEW t \in Threads, NEW l \in PcStates, Goto(t, l)
  PROVE  /\ Cardinality(Reading)' =
              readers + (IF l = "reading" THEN 1 ELSE 0) - (IF pc[t] = "reading" THEN 1 ELSE 0)
         /\ Cardinality(QueuedWriters)' =
              writersWaiting + (IF l \in {"writeWait", "writeCheck"} THEN 1 ELSE 0)
                             - (IF pc[t] \in {"writeWait", "writeCheck"} THEN 1 ELSE 0)
<1>1. /\ t \in Reading <=> pc[t] = "reading"
      /\ t \in QueuedWriters <=> pc[t] \in {"writeWait", "writeCheck"}
  BY DEF Reading, QueuedWriters
<1>2. readers \in Nat /\ writersWaiting \in Nat
      /\ readers = Cardinality(Reading) /\ writersWaiting = Cardinality(QueuedWriters)
  BY DEF TypeOK, CountersAgree
<1>3. /\ Reading' = IF l = "reading" THEN Reading \cup {t} ELSE Reading \ {t}
      /\ QueuedWriters' = IF l \in {"writeWait", "writeCheck"}
                            THEN QueuedWriters \cup {t} ELSE QueuedWriters \ {t}
  BY MoveOne
<1>4. /\ Cardinality(Reading \cup {t}) = readers + (IF t \in Reading THEN 0 ELSE 1)
      /\ Cardinality(Reading \ {t}) = readers - (IF t \in Reading THEN 1 ELSE 0)
  BY Zenon, <1>2, CountedFinite, CountAfter
<1>5. /\ Cardinality(QueuedWriters \cup {t}) =
           writersWaiting + (IF t \in QueuedWriters THEN 0 ELSE 1)
      /\ Cardinality(QueuedWriters \ {t}) =
           writersWaiting - (IF t \in QueuedWriters THEN 1 ELSE 0)
  BY <1>2, CountedFinite, CountAfter
<1>6. CASE l = "reading"
  BY <1>1, <1>2, <1>3, <1>4, <1>5, <1>6
<1>7. CASE l \in {"writeWait", "writeCheck"}
  BY <1>1, <1>2, <1>3, <1>4, <1>5, <1>7
<1>8. CASE l \notin {"reading", "writeWait", "writeCheck"}
  BY <1>1, <1>2, <1>3, <1>4, <1>5, <1>8
<1> QED
  BY <1>6, <1>7, <1>8

\* notify_all leaves nobody asleep, and moves nobody in or out of the blocks
\* or of the writers' queue but the thread that calls it.
LEMMA WakeMoves ==
  ASSUME TypeOK, NEW t \in Threads, pc[t] \in {"reading", "writing"}, pc' = WakeAll(t)
  PROVE  /\ pc' \in [Threads -> PcStates]
         /\ Reading' = Reading \ {t}
         /\ Writing' = Writing \ {t}
         /\ QueuedWriters' = QueuedWriters
         /\ SleepingReaders' = {}
         /\ SleepingWriters' = {}
<1>1. \A u \in Threads : /\ u = t => pc'[u] = "idle"
                         /\ u # t /\ pc[u] = "readWait" => pc'[u] = "readCheck"
                         /\ u # t /\ pc[u] = "writeWait" => pc'[u] = "writeCheck"
                         /\ u # t /\ pc[u] \notin {"readWait", "writeWait"} => pc'[u] = pc[u]
  BY DEF WakeAll
<1>2. pc' \in [Threads -> PcStates]
  BY <1>1 DEF WakeAll, TypeOK, PcStates
<1> QED
  BY <1>1, <1>2 DEF TypeOK, PcStates, Reading, Writing, QueuedWriters,
                    SleepingReaders, SleepingWriters

\* A new lock satisfies the invariant.
LEMMA InitIInv == Init => IInv
<1> SUFFICES ASSUME Init PROVE IInv
  OBVIOUS
<1>1. Reading = {} /\ QueuedWriters = {} /\ Writing = {} /\ SleepingReaders = {}
      /\ SleepingWriters = {}
  BY DEF Init, Reading, QueuedWriters, Writing, SleepingReaders, SleepingWriters
<1>2. CountersAgree
  BY <1>1, FS_EmptySet, ThreadsAssumption DEF CountersAgree, Init
<1>3. TypeOK
  BY DEF Init, TypeOK, PcStates
<1> QED
  BY <1>1, <1>2, <1>3 DEF Init, IInv, MutualExclusion, NoLostWakeup

\* Nobody is in a block whose guard is open.
LEMMA OpenGuards ==
  ASSUME IInv
  PROVE  /\ writer = NoThread => Writing = {}
         /\ readers = 0 => Reading = {}
         /\ writersWaiting > 0 => QueuedWriters # {}
<1>1. readers = 0 => Reading = {}
  BY Zenon, CountedFinite, FS_EmptySet DEF IInv, CountersAgree
<1>2. QueuedWriters = {} => writersWaiting = 0
  BY CountedFinite, FS_EmptySet DEF IInv, CountersAgree
<1>3. writer = NoThread => Writing = {}
  BY ThreadsAssumption DEF IInv, CountersAgree, Writing
<1> QED
  BY <1>1, <1>2, <1>3

\* One evaluation of acquire_read's loop keeps the invariant.
LEMMA ReadLoopIInv ==
  ASSUME IInv, NEW t \in Threads, pc[t] \in {"idle", "readCheck"}, ReadLoop(t)
  PROVE  IInv'
<1> USE DEF IInv
<1>1. CASE ~ReadBlocked /\ readers' = readers + 1 /\ Goto(t, "reading")
  <2>1. writer = NoThread /\ writer' = NoThread /\ writersWaiting' = writersWaiting
    BY <1>1 DEF ReadLoop, ReadBlocked
  <2>2. "reading" \in PcStates
    BY DEF PcStates
  <2>3. TypeOK'
    BY <1>1, <2>1, <2>2, MoveOne DEF TypeOK
  <2>4. CountersAgree'
    <3>1. Cardinality(Reading)' = readers' /\ Cardinality(QueuedWriters)' = writersWaiting'
      BY <1>1, <2>1, <2>2, MoveCounts DEF TypeOK
    <3>2. \A u \in Threads : pc'[u] = "writing" <=> writer' = u
      BY <1>1, <2>1, <2>2, MoveOne, ThreadsAssumption DEF CountersAgree
    <3> QED
      BY <3>1, <3>2 DEF CountersAgree
  <2>5. Writing' = {}
    BY <1>1, <2>1, <2>2, OpenGuards, MoveOne
  <2> QED
    BY <1>1, <2>3, <2>4, <2>5 DEF MutualExclusion, NoLostWakeup, TypeOK
<1>2. CASE /\ ReadBlocked /\ UNCHANGED readers
           /\ \/ Goto(t, "readWait")
              \/ t \in Timed /\ Goto(t, "idle")
  <2> PICK l \in {"readWait", "idle"} : Goto(t, l)
    BY <1>2
  <2>1. UNCHANGED <<readers, writer, writersWaiting>>
    BY <1>2 DEF ReadLoop
  <2>2. l \in PcStates /\ l \notin {"reading", "writing", "writeWait", "writeCheck"}
    BY DEF PcStates
  <2>3. \A u \in Threads : pc'[u] = IF u = t THEN l ELSE pc[u]
    BY <2>2, MoveOne
  <2>4. TypeOK'
    BY <2>1, <2>2, MoveOne DEF TypeOK
  <2>5. Reading' = Reading /\ Writing' = Writing /\ QueuedWriters' = QueuedWriters
        /\ SleepingWriters' = SleepingWriters /\ AwakeWriters' = AwakeWriters
    BY <2>2, <2>3 DEF Reading, Writing, QueuedWriters, SleepingWriters, AwakeWriters
  <2>6. CountersAgree'
    BY <2>1, <2>2, <2>3, <2>5 DEF CountersAgree
  <2>7. MutualExclusion'
    BY <2>5 DEF MutualExclusion
  <2>8. NoLostWakeup'
    <3> SUFFICES ASSUME readers = 0, writer = NoThread
                 PROVE  SleepingWriters = {} /\ AwakeWriters # {}
      BY <2>1, <2>5 DEF NoLostWakeup
    <3>1. QueuedWriters # {}
      BY <1>2, OpenGuards DEF ReadBlocked
    <3> QED
      BY <3>1 DEF NoLostWakeup, QueuedWriters, SleepingWriters, AwakeWriters
  <2> QED
    BY <2>4, <2>6, <2>7, <2>8
<1> QED
  BY <1>1, <1>2 DEF ReadLoop

\* One evaluation of acquire_write's loop keeps the invariant, when waiting
\* is the number of the other queued writers.
LEMMA WriteLoopIInv ==
  ASSUME IInv, NEW t \in Threads, NEW waiting,
         \/ pc[t] = "idle" /\ waiting = writersWaiting
         \/ pc[t] = "writeCheck" /\ waiting = writersWaiting - 1,
         WriteLoop(t, waiting)
  PROVE  IInv'
<1> USE DEF IInv
<1>1. CASE ~WriteBlocked /\ writer' = t /\ writersWaiting' = waiting /\ Goto(t, "writing")
  <2>1. readers = 0 /\ writer = NoThread /\ readers' = readers
    BY <1>1 DEF WriteLoop, WriteBlocked, TypeOK
  <2>2. "writing" \in PcStates
    BY DEF PcStates
  <2>3. Cardinality(Reading)' = readers' /\ Cardinality(QueuedWriters)' = writersWaiting'
    BY <1>1, <2>1, <2>2, MoveCounts DEF TypeOK
  <2>4. Cardinality(QueuedWriters)' \in Nat
    BY <1>1, <2>2, MoveOne, CountedFinite, FS_RemoveElement, FS_CardinalityType
  <2>5. TypeOK'
    BY <1>1, <2>1, <2>2, <2>3, <2>4, MoveOne DEF TypeOK
  <2>6. \A u \in Threads : pc'[u] = "writing" <=> writer' = u
    BY <1>1, <2>1, <2>2, MoveOne, ThreadsAssumption DEF CountersAgree
  <2>7. Reading' = {} /\ Writing' = {t}
    BY <1>1, <2>1, <2>2, OpenGuards, MoveOne
  <2> QED
    BY <1>1, <2>3, <2>5, <2>6, <2>7, ThreadsAssumption
       DEF CountersAgree, MutualExclusion, NoLostWakeup
<1>2. CASE /\ WriteBlocked /\ UNCHANGED writer
           /\ \/ writersWaiting' = waiting + 1 /\ Goto(t, "writeWait")
              \/ t \in Timed /\ writersWaiting' = waiting /\ Goto(t, "idle")
  <2> PICK l \in {"writeWait", "idle"} :
        Goto(t, l) /\ writersWaiting' = IF l = "writeWait" THEN waiting + 1 ELSE waiting
    BY <1>2
  <2>1. UNCHANGED <<readers, writer>> /\ (readers > 0 \/ writer # NoThread)
    BY <1>2 DEF WriteLoop, WriteBlocked
  <2>2. l \in PcStates /\ l \notin {"reading", "writing"}
    BY DEF PcStates
  <2>3. Cardinality(Reading)' = readers' /\ Cardinality(QueuedWriters)' = writersWaiting'
    BY <2>1, <2>2, MoveCounts DEF TypeOK
  <2>4. Cardinality(QueuedWriters)' \in Nat
    BY <2>2, MoveOne, CountedFinite, FS_AddElement, FS_RemoveElement, FS_CardinalityType
  <2>5. TypeOK'
    BY <2>1, <2>2, <2>3, <2>4, MoveOne DEF TypeOK
  <2>6. \A u \in Threads : pc'[u] = "writing" <=> writer' = u
    BY <2>1, <2>2, MoveOne DEF CountersAgree
  <2>7. Reading' = Reading /\ Writing' = Writing
    <3>1. t \notin Reading /\ t \notin Writing
      BY DEF Reading, Writing
    <3> QED
      BY <2>2, <3>1, MoveOne
  <2> QED
    BY <2>1, <2>3, <2>5, <2>6, <2>7 DEF CountersAgree, MutualExclusion, NoLostWakeup
<1> QED
  BY <1>1, <1>2 DEF WriteLoop

\* Both releases keep the invariant.
LEMMA ReleaseIInv ==
  ASSUME IInv, NEW t \in Threads, ReleaseRead(t) \/ ReleaseWrite(t)
  PROVE  IInv'
<1> USE DEF IInv
<1>1. CASE ReleaseRead(t) /\ readers # 1
  <2>1. Goto(t, "idle") /\ readers' = readers - 1 /\ readers' > 0 /\ readers' \in Nat
        /\ UNCHANGED <<writer, writersWaiting>> /\ pc[t] = "reading" /\ writer = NoThread
    BY <1>1 DEF ReleaseRead, TypeOK
  <2>2. "idle" \in PcStates
    BY DEF PcStates
  <2>3. TypeOK'
    BY <2>1, <2>2, MoveOne DEF TypeOK
  <2>4. Cardinality(Reading)' = readers' /\ Cardinality(QueuedWriters)' = writersWaiting'
    BY <2>1, <2>2, MoveCounts DEF TypeOK
  <2>5. \A u \in Threads : pc'[u] = "writing" <=> writer' = u
    BY <2>1, <2>2, MoveOne, ThreadsAssumption DEF CountersAgree
  <2>6. Writing' = {}
    BY <2>1, <2>2, MoveOne, OpenGuards
  <2> QED
    BY <2>1, <2>3, <2>4, <2>5, <2>6 DEF CountersAgree, MutualExclusion, NoLostWakeup
<1>2. CASE (ReleaseRead(t) /\ readers = 1) \/ ReleaseWrite(t)
  <2>1. pc' = WakeAll(t) /\ writer' = NoThread /\ UNCHANGED writersWaiting
        /\ pc[t] \in {"reading", "writing"}
    BY <1>2 DEF ReleaseRead, ReleaseWrite
  <2>2. /\ pc' \in [Threads -> PcStates] /\ SleepingReaders' = {} /\ SleepingWriters' = {}
        /\ QueuedWriters' = QueuedWriters
        /\ Reading' = Reading \ {t} /\ Writing' = Writing \ {t}
    BY <2>1, WakeMoves
  <2>3. readers' = Cardinality(Reading)' /\ readers' \in Nat
    <3>1. CASE pc[t] = "reading"
      <4>1. t \in Reading /\ readers = 1 /\ readers' = 0
        BY <1>2, <3>1 DEF Reading, ReleaseRead, ReleaseWrite
      <4>2. Cardinality(Reading) = 1
        BY <4>1 DEF CountersAgree
      <4>3. Cardinality(Reading \ {t}) = Cardinality(Reading) - (IF t \in Reading THEN 1 ELSE 0)
        BY Zenon, CountedFinite, CountAfter
      <4> QED
        BY <2>2, <4>1, <4>2, <4>3
    <3>2. CASE pc[t] = "writing"
      <4>1. t \notin Reading /\ readers' = readers
        BY <1>2, <3>2 DEF Reading, ReleaseRead, ReleaseWrite
      <4>2. Reading' = Reading
        BY <2>2, <4>1
      <4> QED
        BY <4>1, <4>2 DEF CountersAgree, TypeOK
    <3> QED
      BY <2>1, <3>1, <3>2
  <2>4. Writing' = {}
    <3>1. Writing \subseteq {t}
      BY <1>2, OpenGuards DEF ReleaseRead, ReleaseWrite, CountersAgree, Writing
    <3> QED
      BY <2>2, <3>1
  <2>5. \A u \in Threads : pc'[u] = "writing" <=> writer' = u
    BY <2>1, <2>4, ThreadsAssumption DEF Writing
  <2>6. TypeOK' /\ CountersAgree'
    BY <2>1, <2>2, <2>3, <2>5 DEF TypeOK, CountersAgree
  <2> QED
    BY <2>2, <2>4, <2>6 DEF MutualExclusion, NoLostWakeup
<1> QED
  BY <1>1, <1>2

\* A deadline that passes only takes its thread out of the sleepers.
LEMMA TimeoutIInv ==
  ASSUME IInv, NEW t \in Threads, Timeout(t)
  PROVE  IInv'
<1> USE DEF IInv
<1> PICK l \in {"readCheck", "writeCheck"} :
      /\ Goto(t, l)
      /\ pc[t] = IF l = "readCheck" THEN "readWait" ELSE "writeWait"
  BY DEF Timeout
<1>1. UNCHANGED <<readers, writer, writersWaiting>>
  BY DEF Timeout
<1>2. l \in PcStates /\ l \notin {"reading", "writing"}
  BY DEF PcStates
<1>3. \A u \in Threads : pc'[u] = IF u = t THEN l ELSE pc[u]
  BY <1>2, MoveOne
<1>4. Reading' = Reading /\ Writing' = Writing /\ QueuedWriters' = QueuedWriters
      /\ SleepingWriters' \subseteq SleepingWriters /\ AwakeWriters \subseteq AwakeWriters'
      /\ SleepingReaders' \subseteq SleepingReaders
  BY <1>2, <1>3 DEF Reading, Writing, QueuedWriters, SleepingWriters, AwakeWriters,
                    SleepingReaders
<1>5. TypeOK'
  BY <1>1, <1>2, MoveOne DEF TypeOK
<1>6. CountersAgree'
  BY <1>1, <1>2, <1>3, <1>4 DEF CountersAgree
<1>7. NoLostWakeup'
  BY <1>1, <1>4 DEF NoLostWakeup
<1> QED
  BY <1>4, <1>5, <1>6, <1>7 DEF MutualExclusion

\* Every step of every method keeps the invariant.
LEMMA NextIInv == IInv /\ [Next]_vars => IInv'
<1> SUFFICES ASSUME IInv, [Next]_vars PROVE IInv'
  OBVIOUS
<1>1. CASE UNCHANGED vars
  BY <1>1 DEF vars, IInv, TypeOK, CountersAgree, MutualExclusion, NoLostWakeup, Reading,
              Writing, QueuedWriters, SleepingReaders, SleepingWriters, AwakeWriters
<1>2. ASSUME NEW t \in Threads, AcquireRead(t) \/ RecheckRead(t)
      PROVE  IInv'
  BY <1>2, ReadLoopIInv DEF AcquireRead, RecheckRead
<1>3. ASSUME NEW t \in Threads, AcquireWrite(t) PROVE IInv'
  BY <1>3, WriteLoopIInv DEF AcquireWrite
<1>4. ASSUME NEW t \in Threads, RecheckWrite(t) PROVE IInv'
  BY <1>4, WriteLoopIInv DEF RecheckWrite
<1>5. ASSUME NEW t \in Threads, ReleaseRead(t) \/ ReleaseWrite(t) PROVE IInv'
  BY <1>5, ReleaseIInv
<1>6. ASSUME NEW t \in Threads, Timeout(t) PROVE IInv'
  BY <1>6, TimeoutIInv
<1> QED
  BY <1>1, <1>2, <1>3, <1>4, <1>5, <1>6 DEF Next

\* The invariant holds in every reachable state of the lock.
THEOREM InvariantHolds == Spec => []IInv
  BY InitIInv, NextIInv, PTL DEF Spec

\* Every variable keeps its type; no counter ever goes negative.
THEOREM TypeCorrect == Spec => []TypeOK
<1>1. IInv => TypeOK
  BY DEF IInv
<1> QED
  BY <1>1, InvariantHolds, PTL

\* _readers, _writers_waiting and _writer always agree with the threads they
\* stand for, so neither release method can raise inside a with block.
THEOREM CountersCorrect == Spec => []CountersAgree
<1>1. IInv => CountersAgree
  BY DEF IInv
<1> QED
  BY <1>1, InvariantHolds, PTL

\* A writer excludes every reader and every other writer.
THEOREM Exclusion == Spec => []MutualExclusion
<1>1. IInv => MutualExclusion
  BY DEF IInv
<1> QED
  BY <1>1, InvariantHolds, PTL

\* A free lock never leaves a queued writer asleep, nor a queued reader
\* unless a writer is awake to take it, whatever the timeouts.
THEOREM WakeupsReachSomeone == Spec => []NoLostWakeup
<1>1. IInv => NoLostWakeup
  BY DEF IInv
<1> QED
  BY <1>1, InvariantHolds, PTL

\* Every step of the lock is an entry or an exit of RWLockSpec, or moves no
\* thread in or out of the blocks.
LEMMA StepRefines ==
  ASSUME IInv, [Next]_vars
  PROVE  [Abstract!LockNext]_<<Reading, Writing>>
<1> USE DEF Abstract!LockNext, Abstract!EnterRead, Abstract!ExitRead, Abstract!EnterWrite,
            Abstract!ExitWrite
<1>1. CASE UNCHANGED vars
  BY <1>1 DEF vars, Reading, Writing
<1>2. ASSUME NEW t \in Threads, NEW l \in PcStates, Goto(t, l),
             pc[t] \notin {"reading", "writing"}, l \notin {"reading", "writing"}
      PROVE  UNCHANGED <<Reading, Writing>>
  <2>1. t \notin Reading /\ t \notin Writing
    BY <1>2 DEF Reading, Writing
  <2> QED
    BY <1>2, <2>1, MoveOne DEF IInv
<1>3. ASSUME NEW t \in Threads, ReadLoop(t), pc[t] \in {"idle", "readCheck"}
      PROVE  [Abstract!LockNext]_<<Reading, Writing>>
  <2>1. CASE ~ReadBlocked /\ Goto(t, "reading")
    <3>1. Reading' = Reading \cup {t} /\ Writing' = Writing \ {t}
      BY <2>1, MoveOne DEF IInv, PcStates
    <3>2. Writing = {} /\ t \notin Reading
      BY <1>3, <2>1, OpenGuards DEF ReadBlocked, Reading
    <3> QED
      BY <3>1, <3>2
  <2>2. CASE Goto(t, "readWait") \/ Goto(t, "idle")
    BY <1>2, <1>3, <2>2 DEF PcStates
  <2> QED
    BY <1>3, <2>1, <2>2 DEF ReadLoop
<1>4. ASSUME NEW t \in Threads, NEW waiting, WriteLoop(t, waiting),
             pc[t] \in {"idle", "writeCheck"}
      PROVE  [Abstract!LockNext]_<<Reading, Writing>>
  <2>1. CASE ~WriteBlocked /\ Goto(t, "writing")
    <3>1. Reading' = Reading \ {t} /\ Writing' = Writing \cup {t}
      BY <2>1, MoveOne DEF IInv, PcStates
    <3>2. Writing = {} /\ Reading = {}
      BY <2>1, OpenGuards DEF WriteBlocked, IInv, TypeOK
    <3> QED
      BY <3>1, <3>2
  <2>2. CASE Goto(t, "writeWait") \/ Goto(t, "idle")
    BY <1>2, <1>4, <2>2 DEF PcStates
  <2> QED
    BY <1>4, <2>1, <2>2 DEF WriteLoop
<1>5. ASSUME NEW t \in Threads, ReleaseRead(t) \/ ReleaseWrite(t)
      PROVE  [Abstract!LockNext]_<<Reading, Writing>>
  <2>1. pc[t] \in {"reading", "writing"} /\ (Goto(t, "idle") \/ pc' = WakeAll(t))
    BY <1>5 DEF ReleaseRead, ReleaseWrite
  <2>2. Reading' = Reading \ {t} /\ Writing' = Writing \ {t}
    BY <2>1, MoveOne, WakeMoves DEF IInv, PcStates
  <2>3. (t \in Reading /\ t \notin Writing) \/ (t \in Writing /\ t \notin Reading)
    BY <2>1 DEF Reading, Writing
  <2> QED
    BY <2>2, <2>3
<1>6. ASSUME NEW t \in Threads, Timeout(t)
      PROVE  [Abstract!LockNext]_<<Reading, Writing>>
  BY <1>2, <1>6 DEF Timeout, PcStates
<1> QED
  BY <1>1, <1>3, <1>4, <1>5, <1>6
     DEF Next, AcquireRead, RecheckRead, AcquireWrite, RecheckWrite

\* RWLock implements RWLockSpec, the lock the database is written against.
THEOREM Implements == Spec => ImplementsRWLockSpec
<1>1. Init => Abstract!LockInit
  BY DEF Init, Abstract!LockInit, Reading, Writing
<1>2. IInv /\ [Next]_vars => [Abstract!LockNext]_<<Reading, Writing>>
  BY StepRefines
<1> QED
  BY <1>1, <1>2, InvariantHolds, PTL
     DEF Spec, ImplementsRWLockSpec, Abstract!LockSpec, Abstract!lockVars

-----------------------------------------------------------------------------
(* ClientPool                                                              *)

Stages == {"out", "grow", "waiting", "using", "put", "forget"}

PoolTypeOK ==
  /\ made \in Nat /\ idle \in Seq(1..made)
  /\ known \subseteq 1..made /\ opened \subseteq known
  /\ closing \in {"no", "drain", "all", "done"}
  /\ stage \in [Borrowers -> Stages] /\ using \in [Borrowers -> 0..made]

\* A thread has a client exactly between acquire and the end of release or
\* _forget; the one it is about to forget is closed already.
UsingMatchesStage ==
  \A t \in Borrowers :
    /\ using[t] # None <=> stage[t] \in {"using", "put", "forget"}
    /\ stage[t] = "forget" => using[t] \notin opened

\* _all_clients is what the cap is tested against, so it must bound the open
\* clients; close() empties it last, and nothing is added once _closed is set.
KnownBounds ==
  /\ IsFiniteSet(known) /\ Cardinality(known) <= PoolSize
  /\ closing # "no" => shut
  /\ closing = "done" => known = {}

PoolIInv == PoolTypeOK /\ UsingMatchesStage /\ KnownBounds /\ ClientInOnePlace

\* Taking the head off the queue leaves the others, in place and distinct.
LEMMA QueueTail ==
  ASSUME NEW S, NEW q \in Seq(S), q # <<>>
  PROVE  /\ Head(q) \in S /\ Tail(q) \in Seq(S)
         /\ Head(q) = q[1] /\ 1 \in DOMAIN q
         /\ \A i \in DOMAIN Tail(q) : i + 1 \in DOMAIN q /\ Tail(q)[i] = q[i + 1] /\ i + 1 # 1
         /\ \A i, j \in DOMAIN Tail(q) : i # j => i + 1 # j + 1
  OBVIOUS

\* A new pool has no clients.
LEMMA InitPoolIInv == ClientPoolInit => PoolIInv
<1> SUFFICES ASSUME ClientPoolInit PROVE PoolIInv
  OBVIOUS
<1>1. IsFiniteSet(known) /\ Cardinality(known) = 0
  BY FS_EmptySet DEF ClientPoolInit
<1>2. PoolTypeOK
  BY DEF ClientPoolInit, PoolTypeOK, Stages, None
<1>3. UsingMatchesStage /\ ClientInOnePlace
  BY DEF ClientPoolInit, UsingMatchesStage, ClientInOnePlace, None
<1>4. KnownBounds
  BY <1>1, ClientPoolAssumption DEF ClientPoolInit, KnownBounds
<1> QED
  BY <1>2, <1>3, <1>4 DEF PoolIInv

\* What a move of one thread leaves of the other threads.
LEMMA MoveBorrower ==
  ASSUME PoolTypeOK, NEW t \in Borrowers, NEW l \in Stages, NEW c \in 0..made', Moves(t, l, c),
         made <= made', made' \in Nat
  PROVE  /\ stage' \in [Borrowers -> Stages] /\ using' \in [Borrowers -> 0..made']
         /\ \A u \in Borrowers : /\ stage'[u] = IF u = t THEN l ELSE stage[u]
                                 /\ using'[u] = IF u = t THEN c ELSE using[u]
  BY DEF PoolTypeOK, Moves

\* acquire takes the client at the head of the queue.
LEMMA TakeHead ==
  ASSUME PoolIInv, NEW t \in Borrowers, using[t] = None, idle # <<>>,
         Moves(t, "using", Head(idle)), idle' = Tail(idle),
         UNCHANGED <<known, shut, opened, closing, made>>
  PROVE  PoolIInv'
<1> USE DEF PoolIInv
<1>1. /\ Head(idle) = idle[1] /\ 1 \in DOMAIN idle /\ Head(idle) \in 1..made
      /\ idle' \in Seq(1..made)
      /\ \A i \in DOMAIN idle' : i + 1 \in DOMAIN idle /\ idle'[i] = idle[i + 1] /\ i + 1 # 1
      /\ \A i, j \in DOMAIN idle' : i # j => i + 1 # j + 1
  BY QueueTail DEF PoolTypeOK
<1>2. /\ stage' \in [Borrowers -> Stages] /\ using' \in [Borrowers -> 0..made']
      /\ \A u \in Borrowers : /\ stage'[u] = IF u = t THEN "using" ELSE stage[u]
                              /\ using'[u] = IF u = t THEN idle[1] ELSE using[u]
  BY <1>1, MoveBorrower DEF PoolTypeOK, Stages
<1>3. PoolTypeOK'
  BY <1>1, <1>2 DEF PoolTypeOK
<1>4. UsingMatchesStage'
  BY <1>1, <1>2 DEF UsingMatchesStage, None
<1>5. ClientInOnePlace'
  BY SMTT(20), Z3T(20), <1>1, <1>2 DEF ClientInOnePlace
<1> QED
  BY <1>3, <1>4, <1>5 DEF KnownBounds

\* A thread is without a client from here on: it had none, or gave it up.
LEMMA LetGo ==
  ASSUME PoolIInv, NEW t \in Borrowers, NEW l \in {"out", "grow", "waiting"}, Moves(t, l, None),
         known' \subseteq known, opened' \subseteq opened, opened' \subseteq known',
         UNCHANGED <<idle, shut, closing, made>>
  PROVE  PoolIInv'
<1> USE DEF PoolIInv
<1>1. /\ stage' \in [Borrowers -> Stages] /\ using' \in [Borrowers -> 0..made']
      /\ \A u \in Borrowers : /\ stage'[u] = IF u = t THEN l ELSE stage[u]
                              /\ using'[u] = IF u = t THEN None ELSE using[u]
  BY MoveBorrower DEF PoolTypeOK, Stages, None
<1>2. PoolTypeOK'
  BY <1>1 DEF PoolTypeOK
<1>3. UsingMatchesStage'
  BY <1>1 DEF UsingMatchesStage
<1>4. KnownBounds'
  <2>1. IsFiniteSet(known') /\ Cardinality(known') <= Cardinality(known)
    BY FS_Subset DEF KnownBounds
  <2>2. Cardinality(known') \in Nat /\ Cardinality(known) \in Nat
    BY SMTT(20), Z3T(20), <2>1, FS_CardinalityType DEF KnownBounds
  <2> QED
    BY <2>1, <2>2, ClientPoolAssumption DEF KnownBounds
<1>5. ClientInOnePlace'
  <2>1. \A i \in DOMAIN idle : idle[i] # None
    BY SMTT(20), Z3T(20) DEF PoolTypeOK, None
  <2> QED
    BY <1>1, <2>1 DEF ClientInOnePlace
<1> QED
  BY <1>2, <1>3, <1>4, <1>5

\* A thread goes on with the client it has: to put it back, or, once it is
\* closed, to forget it.
LEMMA Keep ==
  ASSUME PoolIInv, NEW t \in Borrowers, stage[t] = "using", NEW l \in {"put", "forget"},
         Moves(t, l, using[t]), opened' \subseteq opened, l = "forget" => using[t] \notin opened',
         UNCHANGED <<idle, known, shut, closing, made>>
  PROVE  PoolIInv'
<1> USE DEF PoolIInv
<1>1. /\ stage' \in [Borrowers -> Stages] /\ using' \in [Borrowers -> 0..made']
      /\ \A u \in Borrowers : /\ stage'[u] = IF u = t THEN l ELSE stage[u]
                              /\ using'[u] = using[u]
  BY MoveBorrower DEF PoolTypeOK, Stages
<1>2. PoolTypeOK'
  BY <1>1 DEF PoolTypeOK
<1>3. UsingMatchesStage' /\ ClientInOnePlace'
  BY <1>1 DEF UsingMatchesStage, ClientInOnePlace
<1> QED
  BY <1>2, <1>3 DEF KnownBounds

\* A new client is known before anybody else can see it.
LEMMA GrowNew ==
  ASSUME PoolIInv, NEW t \in Borrowers, Grow(t), ~shut, Cardinality(known) < PoolSize
  PROVE  PoolIInv'
<1> USE DEF PoolIInv
<1> DEFINE c == made + 1
<1>1. /\ made' = c /\ known' = known \cup {c} /\ opened' = opened \cup {c}
      /\ Moves(t, "using", c) /\ UNCHANGED <<idle, shut, closing>>
  BY DEF Grow
<1>2. made \in Nat /\ made' \in Nat /\ c \in 0..made' /\ made <= made'
  BY <1>1 DEF PoolTypeOK
<1>3. /\ stage' \in [Borrowers -> Stages] /\ using' \in [Borrowers -> 0..made']
      /\ \A u \in Borrowers : /\ stage'[u] = IF u = t THEN "using" ELSE stage[u]
                              /\ using'[u] = IF u = t THEN c ELSE using[u]
  BY <1>1, <1>2, MoveBorrower DEF Stages
<1>4. /\ \A u \in Borrowers : using[u] # c
      /\ \A i \in DOMAIN idle : idle[i] # c
      /\ c # None
  BY <1>2 DEF PoolTypeOK, None
<1>5. PoolTypeOK'
  <2>1. idle' \in Seq(1..made')
    BY <1>1, <1>2 DEF PoolTypeOK
  <2>2. known' \subseteq 1..made' /\ opened' \subseteq known'
    BY <1>1, <1>2 DEF PoolTypeOK
  <2> QED
    BY <1>1, <1>2, <1>3, <2>1, <2>2 DEF PoolTypeOK
<1>6. UsingMatchesStage' /\ ClientInOnePlace'
  BY <1>1, <1>3, <1>4 DEF UsingMatchesStage, ClientInOnePlace
<1>7. KnownBounds'
  <2>1. IsFiniteSet(known') /\ Cardinality(known') <= Cardinality(known) + 1
    <3>1. IsFiniteSet(known) /\ Cardinality(known) \in Nat
      BY FS_CardinalityType DEF KnownBounds
    <3>2. /\ IsFiniteSet(known \cup {c})
          /\ Cardinality(known \cup {c}) = IF c \in known THEN Cardinality(known)
                                                           ELSE Cardinality(known) + 1
      BY <3>1, FS_AddElement
    <3> QED
      BY <1>1, <3>1, <3>2
  <2>2. Cardinality(known') \in Nat /\ Cardinality(known) \in Nat
    BY <2>1, FS_CardinalityType DEF KnownBounds
  <2>3. closing = "no"
    BY DEF KnownBounds
  <2> QED
    BY <1>1, <2>1, <2>2, <2>3, ClientPoolAssumption DEF KnownBounds
<1> QED
  BY <1>5, <1>6, <1>7

\* release puts the client at the end of the queue, where nobody else has it.
LEMMA PutBack ==
  ASSUME PoolIInv, NEW t \in Borrowers, Put(t), Len(idle) < PoolSize
  PROVE  PoolIInv'
<1> USE DEF PoolIInv
<1>1. /\ stage' \in [Borrowers -> Stages] /\ using' \in [Borrowers -> 0..made']
      /\ \A u \in Borrowers : /\ stage'[u] = IF u = t THEN "out" ELSE stage[u]
                              /\ using'[u] = IF u = t THEN None ELSE using[u]
  BY MoveBorrower DEF Put, PoolTypeOK, Stages, None
<1>2. using[t] \in 1..made /\ using[t] # None
  BY DEF Put, UsingMatchesStage, PoolTypeOK, None
<1>3. /\ idle' \in Seq(1..made) /\ DOMAIN idle' = DOMAIN idle \cup {Len(idle) + 1}
      /\ Len(idle) + 1 \notin DOMAIN idle /\ idle'[Len(idle) + 1] = using[t]
      /\ \A i \in DOMAIN idle : idle'[i] = idle[i] /\ idle[i] # None
  <2>1. idle' = Append(idle, using[t]) /\ idle \in Seq(1..made) /\ made \in Nat
    BY DEF Put, PoolTypeOK
  <2> QED
    BY <1>2, <2>1 DEF None
<1>4. UNCHANGED <<known, shut, opened, closing, made>>
  BY DEF Put
<1>5. PoolTypeOK'
  BY SMTT(20), Z3T(20), <1>1, <1>3, <1>4 DEF PoolTypeOK
<1>6. UsingMatchesStage'
  BY SMTT(20), Z3T(20), <1>1, <1>4 DEF UsingMatchesStage
<1>7. ClientInOnePlace'
  <2>1. \A u, v \in Borrowers : u # v /\ using'[u] # None => using'[u] # using'[v]
    BY SMTT(20), Z3T(20), <1>1 DEF ClientInOnePlace
  <2>2. \A i \in DOMAIN idle' : \A u \in Borrowers : idle'[i] # using'[u]
    BY SMTT(20), Z3T(20), <1>1, <1>2, <1>3 DEF ClientInOnePlace
  <2>3. \A i \in DOMAIN idle : idle'[i] # using[t]
    BY <1>3 DEF ClientInOnePlace
  <2>4. \A i, j \in DOMAIN idle' : i # j => idle'[i] # idle'[j]
    BY <1>3, <2>3 DEF ClientInOnePlace
  <2> QED
    BY SMTT(20), Z3T(20), <2>1, <2>2, <2>4 DEF ClientInOnePlace
<1> QED
  BY <1>4, <1>5, <1>6, <1>7 DEF KnownBounds

\* close() takes clients off the queue, then closes all it knows of.
LEMMA CloseKeeps ==
  ASSUME PoolIInv, ClosePool \/ Drain \/ CloseAll
  PROVE  PoolIInv'
<1> USE DEF PoolIInv
<1>1. CASE ClosePool
  BY <1>1 DEF ClosePool, PoolTypeOK, UsingMatchesStage, ClientInOnePlace, KnownBounds
<1>2. CASE Drain /\ idle # <<>>
  <2>1. /\ idle' \in Seq(1..made)
        /\ \A i \in DOMAIN idle' : i + 1 \in DOMAIN idle /\ idle'[i] = idle[i + 1]
        /\ \A i, j \in DOMAIN idle' : i # j => i + 1 # j + 1
    <3>1. idle \in Seq(1..made) /\ idle # <<>> /\ idle' = Tail(idle)
      BY <1>2 DEF PoolTypeOK, Drain
    <3> QED
      BY <3>1, QueueTail
  <2>2. opened' \subseteq opened /\ UNCHANGED <<known, shut, stage, using, closing, made>>
    BY SMTT(20), Z3T(20), <1>2 DEF Drain
  <2>3. PoolTypeOK'
    BY SMTT(20), Z3T(20), <2>1, <2>2 DEF PoolTypeOK
  <2>4. UsingMatchesStage' /\ KnownBounds'
    BY SMTT(20), Z3T(20), <2>2 DEF UsingMatchesStage, KnownBounds
  <2>5. ClientInOnePlace'
    BY Zenon, <2>1, <2>2 DEF ClientInOnePlace
  <2> QED
    BY <2>3, <2>4, <2>5
<1>3. CASE Drain /\ idle = <<>>
  BY Zenon, <1>3 DEF Drain, PoolTypeOK, UsingMatchesStage, ClientInOnePlace, KnownBounds
<1>4. CASE CloseAll
  <2>1. /\ opened' = {} /\ known' = {} /\ closing' = "done" /\ closing = "all"
        /\ UNCHANGED <<idle, shut, stage, using, made>>
    BY <1>4 DEF CloseAll, PoolTypeOK
  <2>2. PoolTypeOK' /\ UsingMatchesStage' /\ ClientInOnePlace'
    BY <2>1 DEF PoolTypeOK, UsingMatchesStage, ClientInOnePlace
  <2>3. KnownBounds'
    BY <2>1, FS_EmptySet, ClientPoolAssumption DEF KnownBounds
  <2> QED
    BY <2>2, <2>3
<1> QED
  BY <1>1, <1>2, <1>3, <1>4

\* Every step of acquire, release and close keeps the invariant.
LEMMA NextPoolIInv == PoolIInv /\ [ClientPoolNext]_clientPoolVars => PoolIInv'
<1> SUFFICES ASSUME PoolIInv, [ClientPoolNext]_clientPoolVars PROVE PoolIInv'
  OBVIOUS
<1>1. ASSUME NEW t \in Borrowers, TakeIdle(t) PROVE PoolIInv'
  <2>1. opened \subseteq known /\ using[t] = None
    BY SMTT(20), Z3T(20), <1>1 DEF TakeIdle, PoolIInv, PoolTypeOK, UsingMatchesStage
  <2> QED
    BY <1>1, <2>1, TakeHead, LetGo DEF TakeIdle
<1>2. ASSUME NEW t \in Borrowers, Wait(t) PROVE PoolIInv'
  BY SMTT(20), Z3T(20), <1>2, TakeHead DEF Wait, PoolIInv, UsingMatchesStage
<1>3. ASSUME NEW t \in Borrowers, Grow(t) \/ GrowFails(t) \/ GiveUp(t) PROVE PoolIInv'
  <2>1. opened \subseteq known
    BY SMTT(20), Z3T(20) DEF PoolIInv, PoolTypeOK
  <2> QED
    BY <1>3, <2>1, LetGo, GrowNew DEF Grow, GrowFails, GiveUp
<1>4. ASSUME NEW t \in Borrowers, ReleaseTests(t) PROVE PoolIInv'
  <2>1. opened \subseteq known
    BY DEF PoolIInv, PoolTypeOK
  <2> QED
    BY Zenon, <1>4, <2>1, LetGo, Keep DEF ReleaseTests
<1>5. ASSUME NEW t \in Borrowers, Put(t) PROVE PoolIInv'
  <2>1. opened \subseteq known
    BY DEF PoolIInv, PoolTypeOK
  <2> QED
    BY SMTT(20), Z3T(20), <1>5, <2>1, LetGo, PutBack DEF Put
<1>6. ASSUME NEW t \in Borrowers, Fail(t) PROVE PoolIInv'
  BY SMTT(20), Z3T(20), <1>6, Keep DEF Fail
<1>7. ASSUME NEW t \in Borrowers, Forget(t) PROVE PoolIInv'
  <2>1. opened \subseteq known \ {using[t]}
    BY <1>7 DEF Forget, PoolIInv, PoolTypeOK, UsingMatchesStage
  <2> QED
    BY Zenon, <1>7, <2>1, LetGo DEF Forget
<1>8. CASE ClosePool \/ Drain \/ CloseAll
  BY <1>8, CloseKeeps
<1>9. CASE UNCHANGED clientPoolVars
  BY <1>9 DEF clientPoolVars, PoolIInv, PoolTypeOK, UsingMatchesStage, ClientInOnePlace, KnownBounds
<1> QED
  BY SMTT(20), Z3T(20), <1>1, <1>2, <1>3, <1>4, <1>5, <1>6, <1>7, <1>8, <1>9 DEF ClientPoolNext, BorrowerStep

\* The invariant says of the clients what ClientsAccountedFor does.
LEMMA PoolIInvSuffices == PoolIInv => ClientsAccountedFor
<1> SUFFICES ASSUME PoolIInv PROVE ClientsAccountedFor
  OBVIOUS
<1>1. Cardinality(opened) <= Cardinality(known)
  BY Zenon, FS_Subset DEF PoolIInv, PoolTypeOK, KnownBounds
<1>2. Cardinality(opened) \in Nat /\ Cardinality(known) \in Nat
  BY Zenon, FS_Subset, FS_CardinalityType DEF PoolIInv, PoolTypeOK, KnownBounds
<1> QED
  BY <1>1, <1>2, ClientPoolAssumption
     DEF PoolIInv, PoolTypeOK, KnownBounds, ClientsAccountedFor, OpenClientsCounted

\* Pool.acquire, release, _forget and close, in any interleaving: every client
\* is with one thread or once on the queue, at most max_size are open at any
\* time, and none once close() has returned.
THEOREM PoolAccounts == ClientPoolSpec => []ClientsAccountedFor
  BY InitPoolIInv, NextPoolIInv, PoolIInvSuffices, PTL DEF ClientPoolSpec

=============================================================================
