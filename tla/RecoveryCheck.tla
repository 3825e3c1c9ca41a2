--------------------------- MODULE RecoveryCheck ---------------------------
(***************************************************************************)
(* Recovery.replay over every log up to a bound, whoever wrote it: against *)
(* ReplayLoop, the method with its dicts, and against Outcome, what the    *)
(* log means.  A behaviour writes a log one record at a time.              *)
(***************************************************************************)
EXTENDS Recovery, SequencesExt

CONSTANTS
  Pages,        \* pages
  MaxTx,        \* bound on transaction ids
  MaxRecords    \* bound on the length of the log

ASSUME CheckAssumption == MaxTx \in Nat /\ MaxRecords \in Nat

VARIABLE log

\* Every record has images of its own: record i replaces 100 + i by i.
LogInit == log = <<>>
Control(rec(_)) == \E t \in 1..MaxTx : log' = Append(log, rec(t))
WriteOnce(t, p) == log' = Append(log, PageRec(t, p, 101 + Len(log), 1 + Len(log)))
LogNext ==
  /\ Len(log) < MaxRecords
  /\ \/ Control(BeginRec) \/ Control(CommitRec) \/ Control(RollbackRec)
     \/ \E t \in 0..MaxTx, p \in Pages : WriteOnce(t, p)
-----------------------------------------------------------------------------
\* page_touches as a sequence of records in insertion order of their keys.
StoreTouch(touches, r) ==
  LET same == {k \in DOMAIN touches : touches[k].tx = r.tx /\ touches[k].page = r.page}
  IN  IF same = {} THEN Append(touches, r)
      ELSE [k \in DOMAIN touches |-> IF k \in same THEN r ELSE touches[k]]

page_touches ==
  FoldLeft(StoreTouch, <<>>, SelectSeq(log, LAMBDA r : r.type = "PAGE"))

\* tx_state after the scan; tx_state.get(t, "UNKNOWN") for an absent t.
tx_state ==
  FoldLeft(LAMBDA st, r :
             CASE r.type = "COMMIT"   -> [st EXCEPT ![r.tx] = "COMMITTED"]
               [] r.type = "ROLLBACK" -> [st EXCEPT ![r.tx] = "ROLLED_BACK"]
               [] OTHER -> st,
           [t \in 0..MaxTx |-> "UNKNOWN"], log)

Winner(r) == tx_state[r.tx] = "COMMITTED" \/ r.tx = 0

\* The two dicts of the second loop; None where a page has no entry.
None == -1
committed_after ==
  FoldLeft(LAMBDA d, r : IF Winner(r) THEN [d EXCEPT ![r.page] = r.after] ELSE d,
           [p \in Pages |-> None], page_touches)
unknown_before ==
  FoldLeft(LAMBDA d, r : IF ~Winner(r) /\ d[r.page] = None
                           THEN [d EXCEPT ![r.page] = r.before] ELSE d,
           [p \in Pages |-> None], page_touches)

ReplayLoop(pages) ==
  [p \in Pages |-> IF committed_after[p] # None THEN committed_after[p]
                   ELSE IF unknown_before[p] # None THEN unknown_before[p]
                   ELSE pages[p]]
-----------------------------------------------------------------------------
Unwritten == [p \in Pages |-> 0]

\* The order-of-first-insertion form of replay is the method with its dicts.
LoopIsReplay == ReplayLoop(Unwritten) = Replay(log, Unwritten)

\* Provided no transaction touches a page twice (autocommit apart, where it
\* must be the page's only writer), each page ends up as the last winner left
\* it, or as the first loser found it: "latest after-image by any committed
\* tx", "earliest before-image by any uncommitted tx".
ReplayIsOutcome ==
  \A p \in Pages : TouchedOncePerTx(log, p) =>
    Replay(log, Unwritten)[p] = Outcome(log, Unwritten)[p]

\* Recovery.replay: the two properties above.
ReplayRight == LoopIsReplay /\ ReplayIsOutcome
=============================================================================
