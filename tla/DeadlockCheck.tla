--------------------------- MODULE DeadlockCheck ---------------------------
(***************************************************************************)
(* The detector's depth-first search against OnCycle, on every graph that  *)
(* add_wait and remove can build over a few transaction ids.               *)
(***************************************************************************)
EXTENDS DeadlockDetector, Sequences

CONSTANT Txs    \* transaction ids

ASSUME TxsAssumption == Txs \subseteq Nat \ {0}

VARIABLE waits  \* _waits_for

GraphInit == waits = NoWaits
Wait(w, h)  == waits' = AddWait(waits, w, h)
Finish(tx)  == waits' = RemoveWaits(waits, tx)
GraphNext == \E t \in Txs : Finish(t) \/ \E h \in Txs : Wait(t, h)
-----------------------------------------------------------------------------
\* _dfs_cycle(node, path): the nodes of the cycle the search closes; {} for None.
RECURSIVE DfsCycle_WholePath(_, _)
DfsCycle_WholePath(node, path) ==
  IF \E k \in 1..Len(path) : path[k] = node THEN {path[k] : k \in 1..Len(path)}
  ELSE IF node \notin DOMAIN waits THEN {}
  ELSE DfsCycle_WholePath(waits[node], Append(path, node))

RECURSIVE DfsCycle(_, _)
DfsCycle(node, path) ==
  IF \E k \in 1..Len(path) : path[k] = node
    THEN LET idx == CHOOSE k \in 1..Len(path) : path[k] = node
         IN  {path[k] : k \in idx..Len(path)}
  ELSE IF node \notin DOMAIN waits THEN {}
  ELSE DfsCycle(waits[node], Append(path, node))

\* detect_cycle: victim is the highest id of any cycle found from any start.
Victim ==
  LET found == UNION {DfsCycle(start, <<>>) : start \in DOMAIN waits}
  IN  IF found = {} THEN 0 ELSE CHOOSE m \in found : \A w \in found : w <= m

\* "returns the highest transaction id in any cycle": the search finds a cycle
\* exactly when there is one, and reports its youngest member.
VictimIsYoungestOnCycle == Victim = DetectCycle(waits)
=============================================================================
