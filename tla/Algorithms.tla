----------------------------- MODULE Algorithms -----------------------------
(***************************************************************************)
(* The parts that stand alone, each on every history up to a bound: a      *)
(* behaviour writes a log for Recovery.replay, or builds a wait-for graph  *)
(* for the deadlock detector, or appends to, crashes and reopens a WAL     *)
(* file, or inserts into and deletes from a B-tree, or cuts a stream of    *)
(* protocol frames into chunks and puts it together again, or has threads  *)
(* enter and leave the reentrant write lock.                               *)
(***************************************************************************)
EXTENDS RecoveryCheck, DeadlockCheck, WalFile, BTree, Frames, WriteLock

VARIABLE part

Init ==
  /\ part \in {"log", "graph", "file", "tree", "frames", "guard"}
  /\ LogInit /\ GraphInit /\ FileInit /\ TreeInit
  /\ FramesInit /\ (part # "frames" => reader = "feed")
  /\ GuardInit /\ (part # "guard" => registry = NoGuard)

Next ==
  \/ part = "log" /\ LogNext /\ UNCHANGED <<part, waits, fileVars, treeVars, frameVars, guardVars>>
  \/ part = "graph" /\ GraphNext /\ UNCHANGED <<part, log, fileVars, treeVars, frameVars, guardVars>>
  \/ part = "file" /\ FileNext /\ UNCHANGED <<part, log, waits, treeVars, frameVars, guardVars>>
  \/ part = "tree" /\ TreeNext /\ UNCHANGED <<part, log, waits, fileVars, frameVars, guardVars>>
  \/ part = "frames" /\ FramesNext /\ UNCHANGED <<part, log, waits, fileVars, treeVars, guardVars>>
  \/ part = "guard" /\ GuardNext /\ UNCHANGED <<part, log, waits, fileVars, treeVars, frameVars>>

Spec == Init /\ [][Next]_<<part, log, waits, fileVars, treeVars, frameVars, guardVars>>
=============================================================================
