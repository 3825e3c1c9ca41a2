-------------------------- MODULE DeadlockDetector --------------------------
(***************************************************************************)
(* tinydb.concurrent.deadlock.DeadlockDetector: the wait-for graph is a    *)
(* dict with one holder per waiter, here a function on the waiters.        *)
(***************************************************************************)
EXTENDS Integers, FiniteSets

NoWaits == [w \in {} |-> 0]

\* _waits_for[waiter] = holder: a second wait of the same id replaces the first.
AddWait(waits, waiter, holder) ==
  [w \in DOMAIN waits \cup {waiter} |-> IF w = waiter THEN holder ELSE waits[w]]

\* remove: drop tx as a waiter, then every waiter that waits for it.
PopWait(waits, tx) == [w \in DOMAIN waits \ {tx} |-> waits[w]]
RemoveWaits(waits, tx) ==
  [w \in {v \in DOMAIN waits \ {tx} : waits[v] # tx} |-> waits[w]]

\* The ids on cycles.  Every id has at most one holder, so a set of waiters is
\* made of whole cycles exactly when the holders of the set are the set.
OnCycle(waits) ==
  UNION {S \in SUBSET DOMAIN waits : {waits[w] : w \in S} = S}

\* detect_cycle: the highest id on any cycle, 0 for None.
DetectCycle(waits) ==
  IF OnCycle(waits) = {} THEN 0
  ELSE CHOOSE m \in OnCycle(waits) : \A w \in OnCycle(waits) : w <= m
=============================================================================
