------------------------------ MODULE Recovery ------------------------------
(***************************************************************************)
(* tinydb.tx.recovery.Recovery.replay as a function of the log.            *)
(*                                                                         *)
(* A log is the sequence of records that WAL.iter_from(1) yields.  A page  *)
(* image is any value: replay copies whole images and looks inside none.   *)
(* replay walks two Python dicts.  What it reads from them is only the     *)
(* value last stored under a key and the order in which keys were first    *)
(* inserted, and that is how they are written here; ReplayLoop keeps the   *)
(* dicts themselves and is checked against this form by TLC.               *)
(***************************************************************************)
EXTENDS Integers, Sequences

\* The records the transaction manager appends; tx 0 is autocommit.
BeginRec(t)        == [type |-> "BEGIN", tx |-> t]
CommitRec(t)       == [type |-> "COMMIT", tx |-> t]
RollbackRec(t)     == [type |-> "ROLLBACK", tx |-> t]
PageRec(t, p, b, a) == [type |-> "PAGE", tx |-> t, page |-> p, before |-> b, after |-> a]

AUTOCOMMIT == 0

\* Where the PAGE records of transaction t on page p are in the log.
TouchesAt(log, t, p) ==
  {i \in 1..Len(log) : log[i].type = "PAGE" /\ log[i].tx = t /\ log[i].page = p}

\* The transactions that touched p.
Touchers(log, p) ==
  {log[i].tx : i \in {j \in 1..Len(log) : log[j].type = "PAGE" /\ log[j].page = p}}

\* tx_state[t] = "COMMITTED": COMMIT and ROLLBACK overwrite the state, BEGIN
\* (setdefault) does not, so the last terminal record of t decides.
Committed(log, t) ==
  \E i \in 1..Len(log) :
    /\ log[i].type = "COMMIT" /\ log[i].tx = t
    /\ \A j \in (i+1)..Len(log) : ~(log[j].type = "ROLLBACK" /\ log[j].tx = t)

\* The branch of the REDO / UNDO loop that t's touches take.
Redoable_ForgetsAutocommit(log, t) == Committed(log, t)
Redoable(log, t) == t = AUTOCOMMIT \/ Committed(log, t)

IsFirst(i, S) == i \in S /\ \A j \in S : i <= j
IsLast(i, S)  == i \in S /\ \A j \in S : j <= i

\* page_touches[(t, p)]: later records replace the value of the key.
Touch(log, t, p) == log[CHOOSE i \in TouchesAt(log, t, p) : IsLast(i, TouchesAt(log, t, p))]

\* ... but leave its place in the dict's order, which is the first record's.
Place(log, t, p) == CHOOSE i \in TouchesAt(log, t, p) : IsFirst(i, TouchesAt(log, t, p))

RedoTxs(log, p) == {t \in Touchers(log, p) : Redoable(log, t)}
UndoTxs(log, p) == {t \in Touchers(log, p) : ~Redoable(log, t)}

\* committed_after[p]: assigned in dict order, so the last key's image stays.
CommittedAfter_FirstWins(log, p) ==
  LET t == CHOOSE t \in RedoTxs(log, p) :
             \A u \in RedoTxs(log, p) : Place(log, t, p) <= Place(log, u, p)
  IN  Touch(log, t, p).after
CommittedAfter(log, p) ==
  LET t == CHOOSE t \in RedoTxs(log, p) :
             \A u \in RedoTxs(log, p) : Place(log, u, p) <= Place(log, t, p)
  IN  Touch(log, t, p).after

\* unknown_before[p]: setdefault in dict order, so the first key's image stays.
UnknownBefore(log, p) ==
  LET t == CHOOSE t \in UndoTxs(log, p) :
             \A u \in UndoTxs(log, p) : Place(log, t, p) <= Place(log, u, p)
  IN  Touch(log, t, p).before

\* The page writes of the two phases; a page of neither is left alone.
Restored(log, p) == RedoTxs(log, p) # {} \/ UndoTxs(log, p) # {}
Image(log, p) ==
  IF RedoTxs(log, p) # {} THEN CommittedAfter(log, p) ELSE UnknownBefore(log, p)

Replay(log, pages) ==
  [p \in DOMAIN pages |-> IF Restored(log, p) THEN Image(log, p) ELSE pages[p]]
-----------------------------------------------------------------------------
(* What a log means, for comparison: transactions ran one after the other, *)
(* so a page shows the last write by a winner, or, if there is none, what  *)
(* the first write to it replaced.                                         *)
TouchesOf(log, p) == {i \in 1..Len(log) : log[i].type = "PAGE" /\ log[i].page = p}
WinsAt(log, p)    == {i \in TouchesOf(log, p) : Redoable(log, log[i].tx)}

OutcomeOf(log, p, image) ==
  IF WinsAt(log, p) # {}
    THEN log[CHOOSE i \in WinsAt(log, p) : IsLast(i, WinsAt(log, p))].after
  ELSE IF TouchesOf(log, p) # {}
    THEN log[CHOOSE i \in TouchesOf(log, p) : IsFirst(i, TouchesOf(log, p))].before
  ELSE image

Outcome(log, pages) == [p \in DOMAIN pages |-> OutcomeOf(log, p, pages[p])]

\* No transaction wrote p twice, or only autocommit wrote it.
TouchedOncePerTx(log, p) ==
  \/ \A i, j \in TouchesOf(log, p) : log[i].tx = log[j].tx => i = j
  \/ \A i \in TouchesOf(log, p) : log[i].tx = AUTOCOMMIT
=============================================================================
