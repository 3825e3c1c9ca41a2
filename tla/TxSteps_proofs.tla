--------------------------- MODULE TxSteps_proofs ---------------------------
(***************************************************************************)
(* The threads of one process on one Database: where they can be, and what *)
(* each step of a begin, a statement, a commit and a rollback does.        *)
(***************************************************************************)
EXTENDS Transactions, TLAPS

\* Where a thread is: in a begin() that may be nested in its transaction, in an
\* INSERT, in the commit or rollback of its transaction.
Begins    == {"begin", "holder", "wait", "detect", "unwait", "lock", "create", "acquire", "locked"}
Inserting == {"insert", "log", "write"}
Ending    == {"undo", "end", "clear", "release"}

Images == Pages \X SUBSET Nat
Seens  == UNION {[D -> SUBSET Nat] : D \in SUBSET Pages}
WaitGraphs == UNION {[D -> Nat] : D \in SUBSET Nat}
Sizes == {0} \cup {Cardinality(D) : D \in SUBSET Nat}
Victims == {0} \cup {DetectCycle(g) : g \in WaitGraphs}
Locals == [tx : Nat, id : Nat, holder : Nat, victim : Victims, lock : {"none", "read", "write"},
           todo : SUBSET Pages, page : Pages \cup {NoLocals.page}, img : SUBSET Nat, row : Nat,
           seen : Seens, undo : Seq(Images), mine : SUBSET Nat, waiting : Sizes,
           raised : {"no", "AttributeError", "DeadlockError", "RuntimeError", "NestedTransactionError"}]

Rows == 1..inserts
RowsOf(s) == \A k \in DOMAIN s : s[k] \in Pages \X SUBSET Rows

TxTypes ==
  /\ load \in Workloads
  /\ holdR \subseteq Callers /\ holdW \subseteq Callers /\ depth \in [Callers -> Nat]
  /\ nextTx \in Nat \ {0} /\ active \in 0..(nextTx - 1)
  /\ logged \in Seq(Images) /\ RowsOf(logged)
  /\ pages \in [Pages -> SUBSET Rows]
  /\ reached \in [Callers -> Labels] /\ loc \in [Callers -> Locals]
  /\ inserts \in 0..MaxInserts /\ acked \subseteq Rows

\* What a thread has in hand.
LocalsOK(t) ==
  /\ loc[t].tx \in 0..(nextTx - 1)
  /\ reached[t] \in Begins => loc[t].id \in 1..nextTx
  /\ reached[t] \in {"activate", "reset"} => loc[t].id \in 1..(nextTx - 1)
  /\ reached[t] = "wait" => loc[t].holder \in 1..(nextTx - 1)
  /\ loc[t].img \subseteq Rows /\ loc[t].mine \subseteq Rows /\ RowsOf(loc[t].undo)
  /\ reached[t] \in Inserting \cup {"lockW"} => loc[t].row \in Rows
  /\ reached[t] \in {"log", "write"} => loc[t].page \in Pages

\* _waits_for has the edges of threads in begin(), unless one was interrupted.
WaitsOK ==
  /\ waits = [w \in DOMAIN waits |-> waits[w]]
  /\ \A w \in DOMAIN waits :
       /\ w \in 1..nextTx /\ waits[w] \in 1..(nextTx - 1)
       /\ ~load.preempts => \E t \in Callers : reached[t] \in {"detect", "unwait"} /\ loc[t].id = w

\* The levels of the write lock a thread has for its calls, and whether a commit
\* that was interrupted left it one more.
Level(t) ==
  IF loc[t].tx # 0 THEN IF reached[t] = "locked" THEN 2 ELSE 1
  ELSE IF reached[t] \in {"locked", "activate", "reset"} THEN 1 ELSE 0
Left(t) == depth[t] = Level(t) + 1

HoldsOK(t) ==
  /\ depth[t] = Level(t) \/ Left(t)
  /\ Left(t) => load.preempts /\ active # 0 /\ loc[t].tx = 0 /\ reached[t] \notin {"activate", "reset"}
  /\ loc[t].tx # 0 => active = IF reached[t] = "release" THEN 0 ELSE loc[t].tx
  /\ reached[t] \in Ending => loc[t].tx # 0
  /\ reached[t] \in {"activate", "reset"} => loc[t].tx = 0
  /\ reached[t] = "activate" => active = 0
  /\ reached[t] = "reset" => active = loc[t].id
  /\ reached[t] \in {"lockW", "lockR"} => loc[t].tx = 0 /\ loc[t].lock = "none" /\ depth[t] = 0
  /\ loc[t].lock # "none" => loc[t].tx = 0 /\ depth[t] = 0
  /\ loc[t].lock = "write" => reached[t] \in Inserting
  /\ loc[t].lock = "read" => reached[t] = "select"

\* One thread at most holds the write lock, and whoever does knows of it.
LocksOK ==
  /\ holdW = {t \in Callers : depth[t] > 0 \/ loc[t].lock = "write"}
  /\ holdR = {t \in Callers : loc[t].lock = "read"}
  /\ \A t, u \in holdW : t = u
  /\ holdW = {} \/ holdR = {}

\* A transaction that is active has a thread that has it open, or had.
Owns(t) == \/ loc[t].tx = active /\ reached[t] # "release"
           \/ reached[t] = "reset"
           \/ Left(t)
ActiveOwned == active # 0 => \E t \in Callers : Owns(t)

LockIInv ==
  /\ TxTypes /\ WaitsOK /\ LocksOK /\ ActiveOwned
  /\ \A t \in Callers : LocalsOK(t) /\ HoldsOK(t)
-----------------------------------------------------------------------------
\* A step of a thread leaves the locals of the others ...
Stay(t) == loc' \in [Callers -> Locals] /\ \A u \in Callers \ {t} : loc'[u] = loc[u]

\* ... and of its own locals, most.
Keeps(t) ==
  /\ loc'[t].tx = loc[t].tx /\ loc'[t].lock = loc[t].lock /\ loc'[t].mine = loc[t].mine
  /\ loc'[t].seen = loc[t].seen /\ loc'[t].undo = loc[t].undo
KeepsWork(t) ==
  /\ loc'[t].todo = loc[t].todo /\ loc'[t].page = loc[t].page
  /\ loc'[t].img = loc[t].img /\ loc'[t].row = loc[t].row

\* Assignments to a thread's locals: the rest stay.  new_tx_id ...
LEMMA SetId ==
  ASSUME loc \in [Callers -> Locals], NEW t \in Callers, NEW v \in Nat,
         loc' = [loc EXCEPT ![t].id = v]
  PROVE  /\ Stay(t) /\ Keeps(t) /\ KeepsWork(t)
         /\ loc'[t].id = v
<1> DEFINE r == [loc[t] EXCEPT !.id = v]
<1>0. loc[t] \in Locals
  OBVIOUS
<1>1. r \in Locals
  BY Zenon, <1>0 DEF Locals
<1>2. /\ r.id = v /\ r.tx = loc[t].tx /\ r.holder = loc[t].holder
      /\ r.lock = loc[t].lock /\ r.todo = loc[t].todo /\ r.page = loc[t].page
      /\ r.img = loc[t].img /\ r.row = loc[t].row /\ r.seen = loc[t].seen
      /\ r.undo = loc[t].undo /\ r.mine = loc[t].mine
  BY <1>0 DEF Locals
<1>3. loc'[t] = r /\ loc' = [u \in Callers |-> IF u = t THEN r ELSE loc[u]]
  BY Zenon
<1> HIDE DEF r
<1> QED
  BY <1>1, <1>2, <1>3 DEF Stay, Keeps, KeepsWork

\* ... the holder that begin() waits for ...
LEMMA SetHolder ==
  ASSUME loc \in [Callers -> Locals], NEW t \in Callers, NEW v \in Nat,
         loc' = [loc EXCEPT ![t].holder = v]
  PROVE  /\ Stay(t) /\ Keeps(t) /\ KeepsWork(t)
         /\ loc'[t].holder = v
         /\ loc'[t].id = loc[t].id
<1> DEFINE r == [loc[t] EXCEPT !.holder = v]
<1>0. loc[t] \in Locals
  OBVIOUS
<1>1. r \in Locals
  BY Zenon, <1>0 DEF Locals
<1>2. /\ r.holder = v /\ r.tx = loc[t].tx /\ r.id = loc[t].id
      /\ r.lock = loc[t].lock /\ r.todo = loc[t].todo /\ r.page = loc[t].page
      /\ r.img = loc[t].img /\ r.row = loc[t].row /\ r.seen = loc[t].seen
      /\ r.undo = loc[t].undo /\ r.mine = loc[t].mine
  BY <1>0 DEF Locals
<1>3. loc'[t] = r /\ loc' = [u \in Callers |-> IF u = t THEN r ELSE loc[u]]
  BY Zenon
<1> HIDE DEF r
<1> QED
  BY <1>1, <1>2, <1>3 DEF Stay, Keeps, KeepsWork

\* ... the size of the graph that commit() is about to iterate over ...
LEMMA SetWaiting ==
  ASSUME loc \in [Callers -> Locals], NEW t \in Callers, NEW v \in Sizes,
         loc' = [loc EXCEPT ![t].waiting = v]
  PROVE  /\ Stay(t) /\ Keeps(t) /\ KeepsWork(t)
         /\ loc'[t].waiting = v
         /\ loc'[t].id = loc[t].id /\ loc'[t].holder = loc[t].holder
<1> DEFINE r == [loc[t] EXCEPT !.waiting = v]
<1>0. loc[t] \in Locals
  OBVIOUS
<1>1. r \in Locals
  BY Zenon, <1>0 DEF Locals
<1>2. /\ r.waiting = v /\ r.tx = loc[t].tx /\ r.id = loc[t].id
      /\ r.holder = loc[t].holder /\ r.lock = loc[t].lock /\ r.todo = loc[t].todo
      /\ r.page = loc[t].page /\ r.img = loc[t].img /\ r.row = loc[t].row
      /\ r.seen = loc[t].seen /\ r.undo = loc[t].undo /\ r.mine = loc[t].mine
  BY <1>0 DEF Locals
<1>3. loc'[t] = r /\ loc' = [u \in Callers |-> IF u = t THEN r ELSE loc[u]]
  BY Zenon
<1> HIDE DEF r
<1> QED
  BY <1>1, <1>2, <1>3 DEF Stay, Keeps, KeepsWork

\* ... the answer of detect_cycle ...
LEMMA SetVictim ==
  ASSUME loc \in [Callers -> Locals], NEW t \in Callers, NEW v \in Victims, NEW w \in Sizes,
         loc' = [loc EXCEPT ![t].victim = v, ![t].waiting = w]
  PROVE  /\ Stay(t) /\ Keeps(t) /\ KeepsWork(t)
         /\ loc'[t].victim = v /\ loc'[t].waiting = w
         /\ loc'[t].id = loc[t].id /\ loc'[t].holder = loc[t].holder
<1> DEFINE r == [loc[t] EXCEPT !.victim = v, !.waiting = w]
<1>0. loc[t] \in Locals
  OBVIOUS
<1>1. r \in Locals
  BY Zenon, <1>0 DEF Locals
<1>2. /\ r.victim = v /\ r.waiting = w
      /\ r.tx = loc[t].tx /\ r.id = loc[t].id /\ r.holder = loc[t].holder
      /\ r.lock = loc[t].lock /\ r.todo = loc[t].todo /\ r.page = loc[t].page
      /\ r.img = loc[t].img /\ r.row = loc[t].row /\ r.seen = loc[t].seen
      /\ r.undo = loc[t].undo /\ r.mine = loc[t].mine /\ r.raised = loc[t].raised
  BY <1>0 DEF Locals
<1>3. loc'[t] = r /\ loc' = [u \in Callers |-> IF u = t THEN r ELSE loc[u]]
  BY Zenon
<1> HIDE DEF r
<1> QED
  BY <1>1, <1>2, <1>3 DEF Stay, Keeps, KeepsWork

\* ... the side of the lock that execute took ...
LEMMA SetLock ==
  ASSUME loc \in [Callers -> Locals], NEW t \in Callers, NEW v \in {"none", "read", "write"},
         loc' = [loc EXCEPT ![t].lock = v]
  PROVE  /\ Stay(t) /\ KeepsWork(t)
         /\ loc'[t].lock = v
         /\ loc'[t].tx = loc[t].tx /\ loc'[t].mine = loc[t].mine /\ loc'[t].seen = loc[t].seen
         /\ loc'[t].undo = loc[t].undo /\ loc'[t].id = loc[t].id
<1> DEFINE r == [loc[t] EXCEPT !.lock = v]
<1>0. loc[t] \in Locals
  OBVIOUS
<1>1. r \in Locals
  BY Zenon, <1>0 DEF Locals
<1>2. /\ r.lock = v /\ r.tx = loc[t].tx /\ r.id = loc[t].id
      /\ r.holder = loc[t].holder /\ r.todo = loc[t].todo /\ r.page = loc[t].page
      /\ r.img = loc[t].img /\ r.row = loc[t].row /\ r.seen = loc[t].seen
      /\ r.undo = loc[t].undo /\ r.mine = loc[t].mine
  BY <1>0 DEF Locals
<1>3. loc'[t] = r /\ loc' = [u \in Callers |-> IF u = t THEN r ELSE loc[u]]
  BY Zenon
<1> HIDE DEF r
<1> QED
  BY <1>1, <1>2, <1>3 DEF Stay, Keeps, KeepsWork

\* ... the pages that a SELECT will scan ...
LEMMA SetTodo ==
  ASSUME loc \in [Callers -> Locals], NEW t \in Callers, NEW v \in SUBSET Pages,
         loc' = [loc EXCEPT ![t].todo = v]
  PROVE  /\ Stay(t) /\ Keeps(t)
         /\ loc'[t].todo = v
         /\ loc'[t].page = loc[t].page /\ loc'[t].img = loc[t].img /\ loc'[t].row = loc[t].row
         /\ loc'[t].id = loc[t].id
<1> DEFINE r == [loc[t] EXCEPT !.todo = v]
<1>0. loc[t] \in Locals
  OBVIOUS
<1>1. r \in Locals
  BY Zenon, <1>0 DEF Locals
<1>2. /\ r.todo = v /\ r.tx = loc[t].tx /\ r.id = loc[t].id
      /\ r.holder = loc[t].holder /\ r.lock = loc[t].lock /\ r.page = loc[t].page
      /\ r.img = loc[t].img /\ r.row = loc[t].row /\ r.seen = loc[t].seen
      /\ r.undo = loc[t].undo /\ r.mine = loc[t].mine
  BY <1>0 DEF Locals
<1>3. loc'[t] = r /\ loc' = [u \in Callers |-> IF u = t THEN r ELSE loc[u]]
  BY Zenon
<1> HIDE DEF r
<1> QED
  BY <1>1, <1>2, <1>3 DEF Stay, Keeps, KeepsWork

\* ... the pages and the row of an INSERT ...
LEMMA SetRow ==
  ASSUME loc \in [Callers -> Locals], NEW t \in Callers, inserts \in Nat,
         loc' = [loc EXCEPT ![t].todo = Pages, ![t].row = inserts + 1]
  PROVE  /\ Stay(t) /\ Keeps(t)
         /\ loc'[t].todo = Pages /\ loc'[t].row = inserts + 1
         /\ loc'[t].page = loc[t].page /\ loc'[t].img = loc[t].img /\ loc'[t].id = loc[t].id
<1> DEFINE r == [loc[t] EXCEPT !.todo = Pages, !.row = inserts + 1]
<1>0. loc[t] \in Locals /\ inserts + 1 \in Nat /\ Pages \in SUBSET Pages
  OBVIOUS
<1>1. r \in Locals
  BY Zenon, <1>0 DEF Locals
<1>2. /\ r.todo = Pages /\ r.row = inserts + 1
      /\ r.tx = loc[t].tx /\ r.id = loc[t].id /\ r.holder = loc[t].holder
      /\ r.victim = loc[t].victim /\ r.lock = loc[t].lock /\ r.page = loc[t].page
      /\ r.img = loc[t].img /\ r.seen = loc[t].seen /\ r.undo = loc[t].undo
      /\ r.mine = loc[t].mine /\ r.waiting = loc[t].waiting /\ r.raised = loc[t].raised
  BY <1>0 DEF Locals
<1>3. loc'[t] = r /\ loc' = [u \in Callers |-> IF u = t THEN r ELSE loc[u]]
  BY Zenon
<1> HIDE DEF r
<1> QED
  BY <1>1, <1>2, <1>3 DEF Stay, Keeps, KeepsWork

\* ... the page it read ...
LEMMA SetPage ==
  ASSUME loc \in [Callers -> Locals], NEW t \in Callers, NEW p \in Pages, pages[p] \in SUBSET Nat,
         loc' = [loc EXCEPT ![t].page = p, ![t].img = pages[p], ![t].todo = @ \ {p}]
  PROVE  /\ Stay(t) /\ Keeps(t)
         /\ loc'[t].page = p /\ loc'[t].img = pages[p] /\ loc'[t].todo = loc[t].todo \ {p}
         /\ loc'[t].row = loc[t].row /\ loc'[t].id = loc[t].id
<1> DEFINE r == [loc[t] EXCEPT !.page = p, !.img = pages[p], !.todo = loc[t].todo \ {p}]
<1>0. loc[t] \in Locals
  OBVIOUS
<1>1. r \in Locals
  BY Zenon, <1>0 DEF Locals
<1>2. /\ r.page = p /\ r.img = pages[p] /\ r.todo = loc[t].todo \ {p}
      /\ r.tx = loc[t].tx /\ r.id = loc[t].id /\ r.holder = loc[t].holder
      /\ r.victim = loc[t].victim /\ r.lock = loc[t].lock /\ r.row = loc[t].row
      /\ r.seen = loc[t].seen /\ r.undo = loc[t].undo /\ r.mine = loc[t].mine
      /\ r.waiting = loc[t].waiting /\ r.raised = loc[t].raised
  BY <1>0 DEF Locals
<1>3. loc'[t] = r /\ loc' = [u \in Callers |-> IF u = t THEN r ELSE loc[u]]
  BY Zenon
<1> HIDE DEF r
<1> QED
  BY <1>1, <1>2, <1>3 DEF Stay, Keeps, KeepsWork

\* ... the images that rollback() restores ...
LEMMA SetUndo ==
  ASSUME loc \in [Callers -> Locals], NEW t \in Callers, NEW v \in Seq(Images),
         loc' = [loc EXCEPT ![t].undo = v]
  PROVE  /\ Stay(t) /\ KeepsWork(t)
         /\ loc'[t].undo = v
         /\ loc'[t].tx = loc[t].tx /\ loc'[t].lock = loc[t].lock /\ loc'[t].mine = loc[t].mine
         /\ loc'[t].seen = loc[t].seen /\ loc'[t].id = loc[t].id
<1> DEFINE r == [loc[t] EXCEPT !.undo = v]
<1>0. loc[t] \in Locals
  OBVIOUS
<1>1. r \in Locals
  BY Zenon, <1>0 DEF Locals
<1>2. /\ r.undo = v /\ r.tx = loc[t].tx /\ r.id = loc[t].id
      /\ r.holder = loc[t].holder /\ r.lock = loc[t].lock /\ r.todo = loc[t].todo
      /\ r.page = loc[t].page /\ r.img = loc[t].img /\ r.row = loc[t].row
      /\ r.seen = loc[t].seen /\ r.mine = loc[t].mine
  BY <1>0 DEF Locals
<1>3. loc'[t] = r /\ loc' = [u \in Callers |-> IF u = t THEN r ELSE loc[u]]
  BY Zenon
<1> HIDE DEF r
<1> QED
  BY <1>1, <1>2, <1>3 DEF Stay, Keeps, KeepsWork

\* ... and the rows of a transaction rolled back.
LEMMA SetMine ==
  ASSUME loc \in [Callers -> Locals], NEW t \in Callers, NEW v \in SUBSET Nat, NEW w \in Sizes,
         loc' = [loc EXCEPT ![t].mine = v, ![t].waiting = w]
  PROVE  /\ Stay(t) /\ KeepsWork(t)
         /\ loc'[t].mine = v /\ loc'[t].waiting = w
         /\ loc'[t].tx = loc[t].tx /\ loc'[t].lock = loc[t].lock /\ loc'[t].seen = loc[t].seen
         /\ loc'[t].undo = loc[t].undo /\ loc'[t].id = loc[t].id
<1> DEFINE r == [loc[t] EXCEPT !.mine = v, !.waiting = w]
<1>0. loc[t] \in Locals
  OBVIOUS
<1>1. r \in Locals
  BY Zenon, <1>0 DEF Locals
<1>2. /\ r.mine = v /\ r.waiting = w
      /\ r.tx = loc[t].tx /\ r.id = loc[t].id /\ r.holder = loc[t].holder
      /\ r.victim = loc[t].victim /\ r.lock = loc[t].lock /\ r.todo = loc[t].todo
      /\ r.page = loc[t].page /\ r.img = loc[t].img /\ r.row = loc[t].row
      /\ r.seen = loc[t].seen /\ r.undo = loc[t].undo /\ r.raised = loc[t].raised
  BY <1>0 DEF Locals
<1>3. loc'[t] = r /\ loc' = [u \in Callers |-> IF u = t THEN r ELSE loc[u]]
  BY Zenon
<1> HIDE DEF r
<1> QED
  BY <1>1, <1>2, <1>3 DEF Stay, Keeps, KeepsWork

\* A page scanned is one more that the SELECT has seen.
LEMMA SetSeen ==
  ASSUME loc \in [Callers -> Locals], NEW t \in Callers, NEW p \in Pages, pages[p] \in SUBSET Nat,
         ScanPage(t, p)
  PROVE  /\ Stay(t)
         /\ loc'[t].todo = loc[t].todo \ {p}
         /\ \A q \in DOMAIN loc'[t].seen : \/ q = p /\ loc'[t].seen[q] = pages[p]
                                           \/ q \in DOMAIN loc[t].seen /\ loc'[t].seen[q] = loc[t].seen[q]
         /\ loc'[t].tx = loc[t].tx /\ loc'[t].lock = loc[t].lock /\ loc'[t].mine = loc[t].mine
         /\ loc'[t].undo = loc[t].undo /\ loc'[t].page = loc[t].page /\ loc'[t].img = loc[t].img
         /\ loc'[t].row = loc[t].row /\ loc'[t].id = loc[t].id
<1> DEFINE old == loc[t].seen
           new == [q \in DOMAIN old \cup {p} |-> IF q = p THEN pages[p] ELSE old[q]]
           r == [loc[t] EXCEPT !.todo = loc[t].todo \ {p}, !.seen = new]
<1>0. loc[t] \in Locals
  OBVIOUS
<1>1. PICK D \in SUBSET Pages : old \in [D -> SUBSET Nat]
  BY <1>0 DEF Locals, Seens
<1>2. new \in [D \cup {p} -> SUBSET Nat] /\ D \cup {p} \in SUBSET Pages
  <2>1. DOMAIN old = D /\ \A q \in D : old[q] \in SUBSET Nat
    BY <1>1
  <2>2. DOMAIN old \cup {p} = D \cup {p}
    BY <2>1
  <2>3. \A q \in D \cup {p} : (IF q = p THEN pages[p] ELSE old[q]) \in SUBSET Nat
    BY Zenon, <2>1
  <2> HIDE DEF old
  <2> QED
    BY Zenon, <2>2, <2>3
<1>3. new \in Seens
  BY Zenon, <1>2 DEF Seens
<1>4. loc'[t] = r /\ loc' = [u \in Callers |-> IF u = t THEN r ELSE loc[u]]
  BY Zenon DEF ScanPage
<1>5. \A q \in DOMAIN new : \/ q = p /\ new[q] = pages[p]
                            \/ q \in DOMAIN loc[t].seen /\ new[q] = loc[t].seen[q]
  OBVIOUS
<1> HIDE DEF new
<1>6. r \in Locals
  BY Zenon, <1>0, <1>3 DEF Locals
<1>7. /\ r.todo = loc[t].todo \ {p} /\ r.seen = new
      /\ r.tx = loc[t].tx /\ r.id = loc[t].id /\ r.holder = loc[t].holder
      /\ r.lock = loc[t].lock /\ r.page = loc[t].page /\ r.img = loc[t].img
      /\ r.row = loc[t].row /\ r.undo = loc[t].undo /\ r.mine = loc[t].mine
  BY <1>0 DEF Locals
<1> HIDE DEF r
<1> QED
  BY Zenon, <1>4, <1>5, <1>6, <1>7 DEF Stay

\* The locals of a thread that is in no call.
LEMMA NoLocalsTyped ==
  /\ NoLocals \in Locals /\ NoLocals.lock = "none" /\ NoLocals.img = {}
  /\ NoLocals.undo = <<>> /\ NoLocals.seen = NoRows /\ DOMAIN NoRows = {}
<1>1. <<>> \in Seq(Images) /\ 0 \in Victims /\ 0 \in Sizes
  BY DEF Victims, Sizes
<1>2. NoRows \in Seens /\ DOMAIN NoRows = {}
  <2>1. DOMAIN NoRows = {} /\ NoRows \in [{} -> SUBSET Nat]
    BY Zenon DEF NoRows
  <2> QED
    BY Zenon, <2>1 DEF Seens
<1> DEFINE pg == CHOOSE p \in Pages : TRUE
<1>3. NoLocals = [tx |-> 0, id |-> 0, holder |-> 0, victim |-> 0, lock |-> "none", todo |-> {},
                  page |-> pg, img |-> {}, row |-> 0, seen |-> NoRows,
                  undo |-> <<>>, mine |-> {}, waiting |-> 0, raised |-> "no"]
  BY Zenon DEF NoLocals
<1> HIDE DEF pg
<1> QED
  BY <1>1, <1>2, <1>3 DEF Locals

\* A call that returns keeps its transaction and that transaction's rows, no more.
LEMMA Returned ==
  ASSUME loc \in [Callers -> Locals], reached \in [Callers -> Labels],
         NEW t \in Callers, NEW tx \in Nat, NEW mine \in SUBSET Nat,
         NEW raised \in {"no", "AttributeError", "DeadlockError", "RuntimeError", "NestedTransactionError"},
         Return(t, tx, mine, raised)
  PROVE  /\ loc' \in [Callers -> Locals] /\ \A u \in Callers \ {t} : loc'[u] = loc[u]
         /\ reached' \in [Callers -> Labels] /\ \A u \in Callers \ {t} : reached'[u] = reached[u]
         /\ reached'[t] = "idle" /\ loc'[t].tx = tx /\ loc'[t].mine = mine
         /\ loc'[t].lock = "none" /\ loc'[t].img = {} /\ loc'[t].undo = <<>>
         /\ DOMAIN loc'[t].seen = {}
<1> DEFINE r == [NoLocals EXCEPT !.tx = tx, !.mine = mine, !.raised = raised]
<1>4. loc'[t] = r /\ loc' = [u \in Callers |-> IF u = t THEN r ELSE loc[u]]
  BY Zenon DEF Return
<1>5. /\ r \in Locals /\ r.tx = tx /\ r.mine = mine /\ r.lock = "none" /\ r.img = {} /\ r.undo = <<>>
      /\ r.seen = NoRows
  BY Zenon, NoLocalsTyped DEF Locals
<1> HIDE DEF r
<1>6. /\ reached' \in [Callers -> Labels] /\ \A u \in Callers \ {t} : reached'[u] = reached[u]
      /\ reached'[t] = "idle"
  BY DEF Return, TxGoto, Labels
<1> QED
  BY NoLocalsTyped, <1>4, <1>5, <1>6

-----------------------------------------------------------------------------
\* It leaves their places and depths, too ...
Frame(t) ==
  /\ loc' \in [Callers -> Locals] /\ reached' \in [Callers -> Labels] /\ depth' \in [Callers -> Nat]
  /\ \A u \in Callers \ {t} : loc'[u] = loc[u] /\ reached'[u] = reached[u] /\ depth'[u] = depth[u]
  /\ UNCHANGED load

\* ... and a call that returns, little of its own.
Back(t, tx, mine) ==
  /\ reached'[t] = "idle" /\ loc'[t].tx = tx /\ loc'[t].mine = mine
  /\ loc'[t].lock = "none" /\ loc'[t].img = {} /\ loc'[t].undo = <<>>
  /\ DOMAIN loc'[t].seen = {}

Typed == /\ loc \in [Callers -> Locals] /\ reached \in [Callers -> Labels]
         /\ depth \in [Callers -> Nat] /\ nextTx \in Nat /\ active \in Nat
         /\ inserts \in Nat /\ pages \in [Pages -> SUBSET Nat] /\ logged \in Seq(Images)

\* TxGoto moves one thread.
LEMMA Went ==
  ASSUME reached \in [Callers -> Labels], NEW t \in Callers, NEW l \in Labels, TxGoto(t, l)
  PROVE  /\ reached' \in [Callers -> Labels] /\ reached'[t] = l
         /\ \A u \in Callers \ {t} : reached'[u] = reached[u]
  BY DEF TxGoto

\* Return is a Frame step.
LEMMA Returns ==
  ASSUME Typed, NEW t \in Callers, NEW tx \in Nat, NEW mine \in SUBSET Nat,
         NEW raised \in {"no", "AttributeError", "DeadlockError", "RuntimeError", "NestedTransactionError"},
         Return(t, tx, mine, raised), UNCHANGED <<load, depth>>
  PROVE  Frame(t) /\ Back(t, tx, mine)
  BY Returned DEF Typed, Frame, Back

\* A call that raises returns with its transaction still open.
LEMMA Raises ==
  ASSUME Typed, NEW t \in Callers,
         NEW raised \in {"no", "AttributeError", "DeadlockError", "RuntimeError", "NestedTransactionError"},
         TxRaise(t, raised), UNCHANGED <<load, depth>>
  PROVE  Frame(t) /\ Back(t, loc[t].tx, loc[t].mine)
<1>1. loc[t].tx \in Nat /\ loc[t].mine \in SUBSET Nat
  BY DEF Typed, Locals
<1> QED
  BY <1>1, Returns DEF TxRaise

\* What begin() does before it has the lock: an id is reserved ...
LEMMA ReserveDoes ==
  ASSUME Typed, NEW t \in Callers, BeginReserve(t)
  PROVE  /\ Frame(t) /\ Keeps(t) /\ KeepsWork(t) /\ t \in load.tx /\ nextTx <= MaxTx
         /\ reached[t] = "idle" /\ reached'[t] = "begin" /\ loc'[t].id = nextTx
         /\ UNCHANGED <<holdR, holdW, depth, nextTx, active, logged, waits, wal, pages, inserts, acked>>
<1>1. /\ reached[t] = "idle" /\ t \in load.tx /\ nextTx <= MaxTx /\ TxGoto(t, "begin")
      /\ loc' = [loc EXCEPT ![t].id = nextTx]
      /\ UNCHANGED <<load, holdR, holdW, depth, nextTx, active, logged, waits, wal, pages, inserts, acked>>
  BY DEF BeginReserve, lockVars, shared, store
<1>2. /\ reached' \in [Callers -> Labels] /\ reached'[t] = "begin"
      /\ \A u \in Callers \ {t} : reached'[u] = reached[u]
  BY <1>1, Went DEF Typed, Labels
<1> QED
  BY Zenon, <1>1, <1>2, SetId DEF Typed, Frame, Keeps, KeepsWork, Stay

\* ... _active_tx is looked at ...
LEMMA TestDoes ==
  ASSUME Typed, NEW t \in Callers, BeginTest(t)
  PROVE  /\ Frame(t) /\ reached[t] = "begin" /\ reached'[t] \in {"lock", "holder"}
         /\ UNCHANGED <<loc, holdR, holdW, depth, nextTx, active, logged, waits, wal, pages, inserts, acked>>
<1>1. /\ reached[t] = "begin" /\ TxGoto(t, IF active = 0 THEN "lock" ELSE "holder")
      /\ UNCHANGED <<load, loc, holdR, holdW, depth, nextTx, active, logged, waits, wal, pages, inserts, acked>>
  BY DEF BeginTest, lockVars, shared, store
<1>2. /\ reached' \in [Callers -> Labels] /\ reached'[t] \in {"lock", "holder"}
      /\ \A u \in Callers \ {t} : reached'[u] = reached[u]
  BY <1>1, Went DEF Typed, Labels
<1> QED
  BY <1>1, <1>2 DEF Typed, Frame

\* ... and again ...
LEMMA ReadHolderDoes ==
  ASSUME Typed, NEW t \in Callers, BeginReadHolder(t)
  PROVE  /\ Frame(t) /\ reached[t] = "holder"
         /\ \/ Back(t, loc[t].tx, loc[t].mine)
            \/ /\ Keeps(t) /\ KeepsWork(t) /\ active # 0 /\ reached'[t] = "wait"
               /\ loc'[t].holder = active /\ loc'[t].id = loc[t].id
         /\ UNCHANGED <<holdR, holdW, depth, nextTx, active, logged, waits, wal, pages, inserts, acked>>
<1>1. /\ reached[t] = "holder"
      /\ UNCHANGED <<load, holdR, holdW, depth, nextTx, active, logged, waits, wal, pages, inserts, acked>>
  BY DEF BeginReadHolder, lockVars, shared, store
<1>2. CASE active = 0 /\ TxRaise(t, "AttributeError")
  BY <1>1, <1>2, Raises
<1>3. CASE active # 0 /\ loc' = [loc EXCEPT ![t].holder = active] /\ TxGoto(t, "wait")
  <2>1. /\ reached' \in [Callers -> Labels] /\ reached'[t] = "wait"
        /\ \A u \in Callers \ {t} : reached'[u] = reached[u]
    BY <1>3, Went DEF Typed, Labels
  <2> QED
    BY Zenon, <1>1, <1>3, <2>1, SetHolder DEF Typed, Frame, Keeps, KeepsWork, Stay
<1> QED
  BY <1>2, <1>3 DEF BeginReadHolder

GraphOK == waits \in WaitGraphs

\* The sizes of the graph, and of the graph with another edge.
LEMMA GraphSizes ==
  ASSUME GraphOK
  PROVE  /\ Cardinality(DOMAIN waits) \in Sizes
         /\ \A w \in Nat : \A h : Cardinality(DOMAIN AddWait(waits, w, h)) \in Sizes
<1>1. DOMAIN waits \in SUBSET Nat
  BY Zenon DEF GraphOK, WaitGraphs
<1>2. \A w, h : DOMAIN AddWait(waits, w, h) = DOMAIN waits \cup {w}
  BY DEF AddWait
<1>3. \A D \in SUBSET Nat : Cardinality(D) \in Sizes
  BY DEF Sizes
<1> QED
  BY Zenon, <1>1, <1>2, <1>3

\* ... an edge is added to the graph of waits ...
LEMMA AddWaitDoes ==
  ASSUME Typed, GraphOK, NEW t \in Callers, BeginAddWait(t)
  PROVE  /\ Frame(t) /\ Keeps(t) /\ KeepsWork(t) /\ loc'[t].id = loc[t].id
         /\ reached[t] = "wait" /\ reached'[t] = "detect"
         /\ waits' = AddWait(waits, loc[t].id, loc[t].holder)
         /\ UNCHANGED <<holdR, holdW, depth, nextTx, active, logged, wal, pages, inserts, acked>>
<1> DEFINE w == Cardinality(DOMAIN AddWait(waits, loc[t].id, loc[t].holder))
<1>1. /\ reached[t] = "wait" /\ TxGoto(t, "detect") /\ waits' = AddWait(waits, loc[t].id, loc[t].holder)
      /\ loc' = [loc EXCEPT ![t].waiting = w]
      /\ UNCHANGED <<load, holdR, holdW, depth, nextTx, active, logged, wal, pages, inserts, acked>>
  BY DEF BeginAddWait, lockVars, store
<1>2. /\ reached' \in [Callers -> Labels] /\ reached'[t] = "detect"
      /\ \A u \in Callers \ {t} : reached'[u] = reached[u]
  BY <1>1, Went DEF Typed, Labels
<1>3. w \in Sizes
  BY GraphSizes DEF Typed, Locals
<1> HIDE DEF w
<1> QED
  BY Zenon, <1>1, <1>2, <1>3, SetWaiting DEF Typed, Frame, Keeps, KeepsWork, Stay

\* ... the graph is searched ...
LEMMA DetectDoes ==
  ASSUME Typed, GraphOK, NEW t \in Callers, BeginDetect(t)
  PROVE  /\ Frame(t) /\ Keeps(t) /\ KeepsWork(t) /\ loc'[t].id = loc[t].id
         /\ reached[t] = "detect" /\ reached'[t] = "unwait"
         /\ UNCHANGED <<holdR, holdW, depth, nextTx, active, logged, waits, wal, pages, inserts, acked>>
<1> DEFINE w == Cardinality(DOMAIN waits)
           v == DetectCycle(waits)
<1>1. /\ reached[t] = "detect" /\ TxGoto(t, "unwait")
      /\ loc' = [loc EXCEPT ![t].victim = v, ![t].waiting = w]
      /\ UNCHANGED <<load, holdR, holdW, depth, nextTx, active, logged, waits, wal, pages, inserts, acked>>
  BY DEF BeginDetect, lockVars, shared, store
<1>2. /\ reached' \in [Callers -> Labels] /\ reached'[t] = "unwait"
      /\ \A u \in Callers \ {t} : reached'[u] = reached[u]
  BY <1>1, Went DEF Typed, Labels
<1>3. w \in Sizes /\ v \in Victims
  BY GraphSizes DEF GraphOK, Victims
<1> HIDE DEF w, v
<1> QED
  BY Zenon, <1>1, <1>2, <1>3, SetVictim DEF Typed, Frame, Keeps, KeepsWork, Stay

\* ... and the edge is removed; the thread has lost, or goes for the lock ...
LEMMA RemoveWaitDoes ==
  ASSUME Typed, NEW t \in Callers, BeginRemoveWait(t)
  PROVE  /\ Frame(t) /\ reached[t] = "unwait" /\ waits' = RemoveWaits(waits, loc[t].id)
         /\ \/ Back(t, loc[t].tx, loc[t].mine)
            \/ UNCHANGED loc /\ reached'[t] = "lock"
         /\ UNCHANGED <<holdR, holdW, depth, nextTx, active, logged, wal, pages, inserts, acked>>
<1>1. /\ reached[t] = "unwait" /\ waits' = RemoveWaits(waits, loc[t].id)
      /\ UNCHANGED <<load, holdR, holdW, depth, nextTx, active, logged, wal, pages, inserts, acked>>
  BY DEF BeginRemoveWait, lockVars, store
<1>2. CASE TxRaise(t, IF active = 0 THEN "AttributeError" ELSE "DeadlockError")
  BY <1>1, <1>2, Raises
<1>3. CASE TxGoto(t, "lock") /\ UNCHANGED loc
  <2>1. /\ reached' \in [Callers -> Labels] /\ reached'[t] = "lock"
        /\ \A u \in Callers \ {t} : reached'[u] = reached[u]
    BY <1>3, Went DEF Typed, Labels
  <2> QED
    BY <1>1, <1>3, <2>1 DEF Typed, Frame
<1> QED
  BY <1>2, <1>3 DEF BeginRemoveWait

\* ... unless the detector is interrupted.
LEMMA BeginRaisesDoes ==
  ASSUME Typed, NEW t \in Callers, BeginRaises(t)
  PROVE  /\ Frame(t) /\ reached[t] \in {"detect", "unwait"} /\ load.preempts
         /\ waits' \in {waits, PopWait(waits, loc[t].id)} /\ Back(t, loc[t].tx, loc[t].mine)
         /\ UNCHANGED <<holdR, holdW, depth, nextTx, active, logged, wal, pages, inserts, acked>>
<1>1. /\ reached[t] \in {"detect", "unwait"} /\ load.preempts /\ TxRaise(t, "RuntimeError")
      /\ waits' \in {waits, PopWait(waits, loc[t].id)}
      /\ UNCHANGED <<load, holdR, holdW, depth, nextTx, active, logged, wal, pages, inserts, acked>>
  BY DEF BeginRaises, GraphResized, lockVars, store
<1> QED
  BY <1>1, Raises

\* begin() finds the lock's guard, or makes it ...
BeginGuard(t) == BeginLookup(t) \/ BeginStore(t)

LEMMA GuardDoes ==
  ASSUME Typed, NEW t \in Callers, BeginGuard(t)
  PROVE  /\ Frame(t) /\ reached[t] \in {"lock", "create"} /\ reached'[t] \in {"create", "acquire"}
         /\ UNCHANGED <<loc, holdR, holdW, depth, nextTx, active, logged, waits, wal, pages, inserts, acked>>
<1>1. /\ reached[t] \in {"lock", "create"} /\ (TxGoto(t, "create") \/ TxGoto(t, "acquire"))
      /\ UNCHANGED <<load, loc, holdR, holdW, depth, nextTx, active, logged, waits, wal, pages, inserts, acked>>
  BY DEF BeginGuard, BeginLookup, BeginStore, lockVars, shared, store
<1>2. /\ reached' \in [Callers -> Labels] /\ reached'[t] \in {"create", "acquire"}
      /\ \A u \in Callers \ {t} : reached'[u] = reached[u]
  BY <1>1, Went DEF Typed, Labels
<1> QED
  BY <1>1, <1>2 DEF Typed, Frame

\* ... takes the lock, or one more level of it ...
LEMMA LockDoes ==
  ASSUME Typed, NEW t \in Callers, BeginLock(t)
  PROVE  /\ Frame(t) /\ reached[t] = "acquire" /\ reached'[t] = "locked" /\ depth'[t] = depth[t] + 1
         /\ \/ depth[t] > 0 /\ UNCHANGED <<holdR, holdW>>
            \/ depth[t] = 0 /\ holdR = {} /\ holdW = {} /\ holdW' = {t} /\ UNCHANGED holdR
         /\ UNCHANGED <<loc, nextTx, active, logged, waits, wal, pages, inserts, acked>>
<1>1. /\ reached[t] = "acquire" /\ TxGoto(t, "locked") /\ depth' = [depth EXCEPT ![t] = @ + 1]
      /\ IF depth[t] > 0 THEN UNCHANGED <<holdR, holdW>> ELSE EnterWrite(t)
      /\ UNCHANGED <<load, loc, nextTx, active, logged, waits, wal, pages, inserts, acked>>
  BY DEF BeginLock, lockVars, shared, store
<1>2. /\ reached' \in [Callers -> Labels] /\ reached'[t] = "locked"
      /\ \A u \in Callers \ {t} : reached'[u] = reached[u]
  BY <1>1, Went DEF Typed, Labels
<1>3. /\ depth' \in [Callers -> Nat] /\ depth'[t] = depth[t] + 1
      /\ \A u \in Callers \ {t} : depth'[u] = depth[u]
  BY <1>1 DEF Typed
<1>4. \/ depth[t] > 0 /\ UNCHANGED <<holdR, holdW>>
      \/ depth[t] = 0 /\ holdR = {} /\ holdW = {} /\ holdW' = {t} /\ UNCHANGED holdR
  BY <1>1 DEF Typed, EnterWrite
<1> QED
  BY <1>1, <1>2, <1>3, <1>4 DEF Typed, Frame

\* WriteLock.release gives one level back, and the lock with the last.
GivesBack(t) ==
  /\ depth[t] > 0 /\ depth'[t] = depth[t] - 1
  /\ \/ depth[t] = 1 /\ t \in holdW /\ holdW' = holdW \ {t} /\ UNCHANGED holdR
     \/ depth[t] > 1 /\ UNCHANGED <<holdR, holdW>>

\* ReleaseLevel moves one thread's depth.
LEMMA ReleaseDoes ==
  ASSUME Typed, NEW t \in Callers, ReleaseLevel(t)
  PROVE  /\ GivesBack(t) /\ depth' \in [Callers -> Nat]
         /\ \A u \in Callers \ {t} : depth'[u] = depth[u]
<1>1. depth[t] \in Nat /\ depth[t] > 0 /\ depth' = [depth EXCEPT ![t] = depth[t] - 1]
  BY DEF Typed, ReleaseLevel
<1>2. depth[t] - 1 \in Nat
  BY <1>1
<1>3. /\ depth' \in [Callers -> Nat] /\ depth'[t] = depth[t] - 1
      /\ \A u \in Callers \ {t} : depth'[u] = depth[u]
  BY <1>1, <1>2 DEF Typed
<1>4. \/ depth[t] = 1 /\ t \in holdW /\ holdW' = holdW \ {t} /\ UNCHANGED holdR
      \/ depth[t] > 1 /\ UNCHANGED <<holdR, holdW>>
  BY <1>1 DEF ReleaseLevel, ExitWrite, lockVars
<1> QED
  BY <1>1, <1>3, <1>4 DEF GivesBack

\* ... gives it back if a transaction is open ...
LEMMA NestedDoes ==
  ASSUME Typed, NEW t \in Callers, BeginNested(t)
  PROVE  /\ Frame(t) /\ reached[t] = "locked" /\ active # 0 /\ GivesBack(t)
         /\ Back(t, loc[t].tx, loc[t].mine)
         /\ UNCHANGED <<nextTx, active, logged, waits, wal, pages, inserts, acked>>
<1>1. /\ reached[t] = "locked" /\ active # 0 /\ ReleaseLevel(t) /\ TxRaise(t, "NestedTransactionError")
      /\ UNCHANGED <<load, nextTx, active, logged, waits, wal, pages, inserts, acked>>
  BY DEF BeginNested, shared, store
<1>2. loc[t].tx \in Nat /\ loc[t].mine \in SUBSET Nat
  BY DEF Typed, Locals
<1>3. /\ loc' \in [Callers -> Locals] /\ \A u \in Callers \ {t} : loc'[u] = loc[u]
      /\ reached' \in [Callers -> Labels] /\ \A u \in Callers \ {t} : reached'[u] = reached[u]
      /\ Back(t, loc[t].tx, loc[t].mine)
  BY <1>1, <1>2, Returned DEF Typed, TxRaise, Back
<1> QED
  BY <1>1, <1>3, ReleaseDoes DEF Frame

\* ... or logs its own ...
LEMMA BeginLogDoes ==
  ASSUME Typed, NEW t \in Callers, BeginLog(t)
  PROVE  /\ Frame(t) /\ Keeps(t) /\ KeepsWork(t) /\ loc'[t].id = nextTx
         /\ reached[t] = "locked" /\ reached'[t] = "activate" /\ active = 0 /\ nextTx' = nextTx + 1
         /\ wal' = Append(wal, BeginRec(nextTx))
         /\ UNCHANGED <<holdR, holdW, depth, active, logged, waits, pages, inserts, acked>>
<1>1. /\ reached[t] = "locked" /\ active = 0 /\ TxGoto(t, "activate") /\ nextTx' = nextTx + 1
      /\ wal' = Append(wal, BeginRec(nextTx)) /\ loc' = [loc EXCEPT ![t].id = nextTx]
      /\ UNCHANGED <<load, holdR, holdW, depth, active, logged, waits, pages, inserts, acked>>
  BY DEF BeginLog, lockVars
<1>2. /\ reached' \in [Callers -> Labels] /\ reached'[t] = "activate"
      /\ \A u \in Callers \ {t} : reached'[u] = reached[u]
  BY <1>1, Went DEF Typed, Labels
<1> QED
  BY Zenon, <1>1, <1>2, SetId DEF Typed, Frame, Keeps, KeepsWork, Stay

\* ... makes it the active one ...
LEMMA ActivateDoes ==
  ASSUME Typed, NEW t \in Callers, BeginActivate(t)
  PROVE  /\ Frame(t) /\ reached[t] = "activate" /\ reached'[t] = "reset" /\ active' = loc[t].id
         /\ UNCHANGED <<loc, holdR, holdW, depth, nextTx, logged, waits, wal, pages, inserts, acked>>
<1>1. /\ reached[t] = "activate" /\ TxGoto(t, "reset") /\ active' = loc[t].id
      /\ UNCHANGED <<load, loc, holdR, holdW, depth, nextTx, logged, waits, wal, pages, inserts, acked>>
  BY DEF BeginActivate, lockVars, store
<1>2. /\ reached' \in [Callers -> Labels] /\ reached'[t] = "reset"
      /\ \A u \in Callers \ {t} : reached'[u] = reached[u]
  BY <1>1, Went DEF Typed, Labels
<1> QED
  BY <1>1, <1>2 DEF Typed, Frame

\* ... and starts its list of images.
LEMMA ResetDoes ==
  ASSUME Typed, NEW t \in Callers, BeginReset(t)
  PROVE  /\ Frame(t) /\ reached[t] = "reset" /\ logged' = <<>> /\ Back(t, loc[t].id, {})
         /\ UNCHANGED <<holdR, holdW, depth, nextTx, active, waits, wal, pages, inserts, acked>>
<1>1. /\ reached[t] = "reset" /\ logged' = <<>> /\ Return(t, loc[t].id, {}, "no")
      /\ UNCHANGED <<load, holdR, holdW, depth, nextTx, active, waits, wal, pages, inserts, acked>>
  BY DEF BeginReset, lockVars, store
<1>2. loc[t].id \in Nat
  BY DEF Typed, Locals
<1> QED
  BY <1>1, <1>2, Returns

\* Database.execute starts an INSERT ...
LEMMA ExecuteInsertDoes ==
  ASSUME Typed, NEW t \in Callers, ExecuteInsert(t)
  PROVE  /\ Frame(t) /\ Keeps(t) /\ reached[t] = "idle" /\ reached'[t] = IF active # 0 THEN "insert" ELSE "lockW"
         /\ loc[t].tx # 0 \/ t \in load.auto
         /\ inserts < MaxInserts /\ inserts' = inserts + 1
         /\ loc'[t].todo = Pages /\ loc'[t].row = inserts + 1 /\ loc'[t].img = loc[t].img
         /\ UNCHANGED <<holdR, holdW, depth, nextTx, active, logged, waits, wal, pages, acked>>
<1>1. /\ reached[t] = "idle" /\ TxGoto(t, IF active # 0 THEN "insert" ELSE "lockW")
      /\ loc[t].tx # 0 \/ t \in load.auto
      /\ inserts < MaxInserts /\ inserts' = inserts + 1
      /\ UNCHANGED <<load, holdR, holdW, depth, nextTx, active, logged, waits, wal, pages, acked>>
  BY DEF ExecuteInsert, Enter, lockVars, shared, store
<1>2. /\ reached' \in [Callers -> Labels] /\ reached'[t] = IF active # 0 THEN "insert" ELSE "lockW"
      /\ \A u \in Callers \ {t} : reached'[u] = reached[u]
  BY <1>1, Went DEF Typed, Labels
<1>3. inserts \in Nat /\ loc \in [Callers -> Locals]
  BY DEF Typed
<1>4. /\ loc' \in [Callers -> Locals] /\ (\A u \in Callers \ {t} : loc'[u] = loc[u]) /\ Keeps(t)
      /\ loc'[t].todo = Pages /\ loc'[t].row = inserts + 1 /\ loc'[t].img = loc[t].img
  <2>1. loc' = [loc EXCEPT ![t].todo = Pages, ![t].row = inserts + 1]
    BY DEF ExecuteInsert
  <2> QED
    BY Zenon, <1>3, <2>1, SetRow DEF Keeps, Stay
<1>5. Frame(t)
  BY <1>1, <1>2, <1>4 DEF Typed, Frame
<1> QED
  BY <1>1, <1>2, <1>4, <1>5

\* ... or a SELECT ...
LEMMA ExecuteSelectDoes ==
  ASSUME Typed, NEW t \in Callers, ExecuteSelect(t)
  PROVE  /\ Frame(t) /\ Keeps(t) /\ reached[t] = "idle" /\ reached'[t] = IF active # 0 THEN "select" ELSE "lockR"
         /\ loc[t].tx # 0 \/ t \in load.read
         /\ loc'[t].todo = Pages /\ loc'[t].img = loc[t].img
         /\ UNCHANGED <<holdR, holdW, depth, nextTx, active, logged, waits, wal, pages, inserts, acked>>
<1>1. /\ reached[t] = "idle" /\ TxGoto(t, IF active # 0 THEN "select" ELSE "lockR")
      /\ loc[t].tx # 0 \/ t \in load.read
      /\ loc' = [loc EXCEPT ![t].todo = Pages]
      /\ UNCHANGED <<load, holdR, holdW, depth, nextTx, active, logged, waits, wal, pages, inserts, acked>>
  BY DEF ExecuteSelect, Enter, lockVars, shared, store
<1>2. /\ reached' \in [Callers -> Labels] /\ reached'[t] = IF active # 0 THEN "select" ELSE "lockR"
      /\ \A u \in Callers \ {t} : reached'[u] = reached[u]
  BY <1>1, Went DEF Typed, Labels
<1>3. Pages \in SUBSET Pages
  OBVIOUS
<1> QED
  BY Zenon, <1>1, <1>2, <1>3, SetTodo DEF Typed, Frame, Keeps, Stay

\* ... which takes its side of the lock ...
LEMMA LockStatementDoes ==
  ASSUME Typed, NEW t \in Callers, LockStatement(t)
  PROVE  /\ Frame(t) /\ KeepsWork(t) /\ holdW = {}
         /\ loc'[t].tx = loc[t].tx /\ loc'[t].mine = loc[t].mine
         /\ loc'[t].seen = loc[t].seen /\ loc'[t].undo = loc[t].undo
         /\ \/ /\ reached[t] = "lockW" /\ reached'[t] = "insert" /\ loc'[t].lock = "write"
               /\ holdR = {} /\ holdW' = {t} /\ UNCHANGED holdR
            \/ /\ reached[t] = "lockR" /\ reached'[t] = "select" /\ loc'[t].lock = "read"
               /\ holdR' = holdR \cup {t} /\ UNCHANGED holdW
         /\ UNCHANGED <<depth, nextTx, active, logged, waits, wal, pages, inserts, acked>>
<1>1. UNCHANGED <<load, depth, nextTx, active, logged, waits, wal, pages, inserts, acked>>
  BY DEF LockStatement, shared, store
<1>2. CASE /\ reached[t] = "lockW" /\ EnterWrite(t)
           /\ loc' = [loc EXCEPT ![t].lock = "write"] /\ TxGoto(t, "insert")
  <2>1. /\ reached' \in [Callers -> Labels] /\ reached'[t] = "insert"
        /\ \A u \in Callers \ {t} : reached'[u] = reached[u]
    BY <1>2, Went DEF Typed, Labels
  <2> QED
    BY Zenon, <1>1, <1>2, <2>1, SetLock DEF Typed, Frame, KeepsWork, EnterWrite, Stay
<1>3. CASE /\ reached[t] = "lockR" /\ EnterRead(t)
           /\ loc' = [loc EXCEPT ![t].lock = "read"] /\ TxGoto(t, "select")
  <2>1. /\ reached' \in [Callers -> Labels] /\ reached'[t] = "select"
        /\ \A u \in Callers \ {t} : reached'[u] = reached[u]
    BY <1>3, Went DEF Typed, Labels
  <2> QED
    BY Zenon, <1>1, <1>3, <2>1, SetLock DEF Typed, Frame, KeepsWork, EnterRead, Stay
<1> QED
  BY <1>2, <1>3 DEF LockStatement

\* ... reads a page ...
LEMMA ReadPageDoes ==
  ASSUME Typed, NEW t \in Callers, NEW p \in Pages, ReadPage(t, p)
  PROVE  /\ Frame(t) /\ Keeps(t) /\ reached[t] = "insert" /\ reached'[t] = "log"
         /\ p \in loc[t].todo /\ loc'[t].todo = loc[t].todo \ {p}
         /\ loc'[t].page = p /\ loc'[t].img = pages[p] /\ loc'[t].row = loc[t].row
         /\ UNCHANGED <<holdR, holdW, depth, nextTx, active, logged, waits, wal, pages, inserts, acked>>
<1>1. /\ reached[t] = "insert" /\ p \in loc[t].todo /\ TxGoto(t, "log")
      /\ loc' = [loc EXCEPT ![t].page = p, ![t].img = pages[p], ![t].todo = @ \ {p}]
      /\ UNCHANGED <<load, holdR, holdW, depth, nextTx, active, logged, waits, wal, pages, inserts, acked>>
  BY DEF ReadPage, lockVars, shared, store
<1>2. /\ reached' \in [Callers -> Labels] /\ reached'[t] = "log"
      /\ \A u \in Callers \ {t} : reached'[u] = reached[u]
  BY <1>1, Went DEF Typed, Labels
<1>3. pages[p] \in SUBSET Nat /\ loc \in [Callers -> Locals]
  BY DEF Typed
<1>4. /\ loc' \in [Callers -> Locals] /\ (\A u \in Callers \ {t} : loc'[u] = loc[u]) /\ Keeps(t)
      /\ loc'[t].todo = loc[t].todo \ {p}
      /\ loc'[t].page = p /\ loc'[t].img = pages[p] /\ loc'[t].row = loc[t].row
  BY Zenon, <1>1, <1>3, SetPage DEF Keeps, Stay
<1> QED
  BY <1>1, <1>2, <1>4 DEF Typed, Frame

\* ... logs what it will write ...
LEMMA LogPageDoes ==
  ASSUME Typed, NEW t \in Callers, LogPage(t)
  PROVE  /\ Frame(t) /\ reached[t] = "log" /\ reached'[t] = "write"
         /\ wal' = Append(wal, PageRec(active, loc[t].page, pages[loc[t].page], loc[t].img \cup {loc[t].row}))
         /\ logged' = Append(logged, <<loc[t].page, pages[loc[t].page]>>)
         /\ UNCHANGED <<loc, holdR, holdW, depth, nextTx, active, waits, pages, inserts, acked>>
<1>1. /\ reached[t] = "log" /\ TxGoto(t, "write")
      /\ wal' = Append(wal, PageRec(active, loc[t].page, pages[loc[t].page], loc[t].img \cup {loc[t].row}))
      /\ logged' = Append(logged, <<loc[t].page, pages[loc[t].page]>>)
      /\ UNCHANGED <<load, loc, holdR, holdW, depth, nextTx, active, waits, pages, inserts, acked>>
  BY DEF LogPage, lockVars
<1>2. /\ reached' \in [Callers -> Labels] /\ reached'[t] = "write"
      /\ \A u \in Callers \ {t} : reached'[u] = reached[u]
  BY <1>1, Went DEF Typed, Labels
<1> QED
  BY <1>1, <1>2 DEF Typed, Frame

\* ... writes it ...
LEMMA WritePageDoes ==
  ASSUME Typed, NEW t \in Callers, TxWritePage(t)
  PROVE  /\ Frame(t) /\ reached[t] = "write" /\ reached'[t] = "insert"
         /\ pages' = [pages EXCEPT ![loc[t].page] = loc[t].img \cup {loc[t].row}]
         /\ UNCHANGED <<loc, holdR, holdW, depth, nextTx, active, logged, waits, wal, inserts, acked>>
<1>1. /\ reached[t] = "write" /\ TxGoto(t, "insert")
      /\ pages' = [pages EXCEPT ![loc[t].page] = loc[t].img \cup {loc[t].row}]
      /\ UNCHANGED <<load, loc, holdR, holdW, depth, nextTx, active, logged, waits, wal, inserts, acked>>
  BY DEF TxWritePage, lockVars, shared
<1>2. /\ reached' \in [Callers -> Labels] /\ reached'[t] = "insert"
      /\ \A u \in Callers \ {t} : reached'[u] = reached[u]
  BY <1>1, Went DEF Typed, Labels
<1> QED
  BY <1>1, <1>2 DEF Typed, Frame

\* ... or scans one ...
LEMMA ScanPageDoes ==
  ASSUME Typed, NEW t \in Callers, NEW p \in Pages, ScanPage(t, p)
  PROVE  /\ Frame(t) /\ reached[t] = "select" /\ reached'[t] = "select"
         /\ loc'[t].tx = loc[t].tx /\ loc'[t].lock = loc[t].lock /\ loc'[t].mine = loc[t].mine
         /\ loc'[t].undo = loc[t].undo /\ loc'[t].img = loc[t].img
         /\ \A q \in DOMAIN loc'[t].seen : \/ q = p /\ loc'[t].seen[q] = pages[p]
                                           \/ q \in DOMAIN loc[t].seen /\ loc'[t].seen[q] = loc[t].seen[q]
         /\ UNCHANGED <<holdR, holdW, depth, nextTx, active, logged, waits, wal, pages, inserts, acked>>
<1>1. /\ reached[t] = "select" /\ UNCHANGED reached
      /\ UNCHANGED <<load, holdR, holdW, depth, nextTx, active, logged, waits, wal, pages, inserts, acked>>
  BY DEF ScanPage, lockVars, shared, store
<1>2. loc \in [Callers -> Locals] /\ pages[p] \in SUBSET Nat
  BY DEF Typed
<1>3. /\ loc' \in [Callers -> Locals] /\ \A u \in Callers \ {t} : loc'[u] = loc[u]
      /\ loc'[t].tx = loc[t].tx /\ loc'[t].lock = loc[t].lock /\ loc'[t].mine = loc[t].mine
      /\ loc'[t].undo = loc[t].undo /\ loc'[t].img = loc[t].img
      /\ \A q \in DOMAIN loc'[t].seen : \/ q = p /\ loc'[t].seen[q] = pages[p]
                                        \/ q \in DOMAIN loc[t].seen /\ loc'[t].seen[q] = loc[t].seen[q]
  BY <1>2, SetSeen DEF Stay
<1> QED
  BY <1>1, <1>3 DEF Typed, Frame

\* ... and gives its side of the lock back ...
Unlocks(t) ==
  \/ loc[t].lock = "write" /\ t \in holdW /\ holdW' = holdW \ {t} /\ UNCHANGED holdR
  \/ loc[t].lock = "read" /\ holdR' = holdR \ {t} /\ UNCHANGED holdW
  \/ loc[t].lock = "none" /\ UNCHANGED <<holdR, holdW>>

\* ... at the end of an INSERT ...
LEMMA FinishInsertDoes ==
  ASSUME Typed, NEW t \in Callers, FinishInsert(t)
  PROVE  /\ Frame(t) /\ Unlocks(t) /\ reached[t] = "insert" /\ loc[t].todo = {}
         /\ \/ loc[t].tx = 0 /\ Back(t, 0, {}) /\ acked' = acked \cup {loc[t].row}
            \/ loc[t].tx # 0 /\ Back(t, loc[t].tx, loc[t].mine \cup {loc[t].row}) /\ UNCHANGED acked
         /\ UNCHANGED <<depth, nextTx, active, logged, waits, wal, pages, inserts>>
<1>1. /\ reached[t] = "insert" /\ loc[t].todo = {} /\ UnlockStatement(t)
      /\ UNCHANGED <<load, depth, nextTx, active, logged, waits, wal, pages, inserts>>
  BY DEF FinishInsert, shared, store
<1>2. /\ loc[t].tx \in Nat /\ loc[t].mine \in SUBSET Nat /\ loc[t].row \in Nat
      /\ loc[t].lock \in {"none", "read", "write"}
  BY DEF Typed, Locals
<1>3. Unlocks(t)
  BY <1>1, <1>2 DEF Unlocks, UnlockStatement, ExitWrite, ExitRead, lockVars
<1>4. CASE loc[t].tx = 0 /\ Return(t, 0, {}, "no") /\ acked' = acked \cup {loc[t].row}
  BY <1>1, <1>3, <1>4, Returns
<1>5. CASE loc[t].tx # 0 /\ Return(t, loc[t].tx, loc[t].mine \cup {loc[t].row}, "no") /\ UNCHANGED acked
  <2>1. loc[t].mine \cup {loc[t].row} \in SUBSET Nat
    BY <1>2
  <2> QED
    BY <1>1, <1>2, <1>3, <1>5, <2>1, Returns
<1> QED
  BY <1>4, <1>5 DEF FinishInsert

\* ... or of a SELECT.
LEMMA FinishSelectDoes ==
  ASSUME Typed, NEW t \in Callers, FinishSelect(t)
  PROVE  /\ Frame(t) /\ Unlocks(t) /\ reached[t] = "select" /\ Back(t, loc[t].tx, loc[t].mine)
         /\ UNCHANGED <<depth, nextTx, active, logged, waits, wal, pages, inserts, acked>>
<1>1. /\ reached[t] = "select" /\ UnlockStatement(t) /\ Return(t, loc[t].tx, loc[t].mine, "no")
      /\ UNCHANGED <<load, depth, nextTx, active, logged, waits, wal, pages, inserts, acked>>
  BY DEF FinishSelect, shared, store
<1>2. /\ loc[t].tx \in Nat /\ loc[t].mine \in SUBSET Nat /\ loc[t].lock \in {"none", "read", "write"}
  BY DEF Typed, Locals
<1>3. Unlocks(t)
  BY <1>1, <1>2 DEF Unlocks, UnlockStatement, ExitWrite, ExitRead, lockVars
<1> QED
  BY <1>1, <1>2, <1>3, Returns

\* commit() logs the end of the transaction ...
LEMMA CommitLogDoes ==
  ASSUME Typed, GraphOK, NEW t \in Callers, CommitLog(t)
  PROVE  /\ Frame(t) /\ Keeps(t) /\ KeepsWork(t) /\ reached[t] = "idle" /\ reached'[t] = "end"
         /\ loc[t].tx # 0 /\ wal' = Append(wal, CommitRec(loc[t].tx))
         /\ UNCHANGED <<holdR, holdW, depth, nextTx, active, logged, waits, pages, inserts, acked>>
<1> DEFINE w == Cardinality(DOMAIN waits)
<1>1. /\ reached[t] = "idle" /\ loc[t].tx # 0 /\ TxGoto(t, "end")
      /\ wal' = Append(wal, CommitRec(loc[t].tx)) /\ loc' = [loc EXCEPT ![t].waiting = w]
      /\ UNCHANGED <<load, holdR, holdW, depth, nextTx, active, logged, waits, pages, inserts, acked>>
  BY DEF CommitLog, lockVars, shared
<1>2. /\ reached' \in [Callers -> Labels] /\ reached'[t] = "end"
      /\ \A u \in Callers \ {t} : reached'[u] = reached[u]
  BY <1>1, Went DEF Typed, Labels
<1>3. w \in Sizes
  BY GraphSizes
<1> HIDE DEF w
<1> QED
  BY Zenon, <1>1, <1>2, <1>3, SetWaiting DEF Typed, Frame, Keeps, KeepsWork, Stay

\* ... so does rollback(), which takes the list of images ...
LEMMA RollbackLogDoes ==
  ASSUME Typed, NEW t \in Callers, RollbackLog(t)
  PROVE  /\ Frame(t) /\ KeepsWork(t) /\ reached[t] = "idle" /\ reached'[t] = "undo"
         /\ loc'[t].tx = loc[t].tx /\ loc'[t].lock = loc[t].lock /\ loc'[t].mine = loc[t].mine
         /\ loc'[t].seen = loc[t].seen /\ loc'[t].undo = logged
         /\ loc[t].tx # 0 /\ wal' = Append(wal, RollbackRec(loc[t].tx))
         /\ UNCHANGED <<holdR, holdW, depth, nextTx, active, logged, waits, pages, inserts, acked>>
<1>1. /\ reached[t] = "idle" /\ loc[t].tx # 0 /\ TxGoto(t, "undo")
      /\ wal' = Append(wal, RollbackRec(loc[t].tx)) /\ loc' = [loc EXCEPT ![t].undo = logged]
      /\ UNCHANGED <<load, holdR, holdW, depth, nextTx, active, logged, waits, pages, inserts, acked>>
  BY DEF RollbackLog, lockVars, shared
<1>2. /\ reached' \in [Callers -> Labels] /\ reached'[t] = "undo"
      /\ \A u \in Callers \ {t} : reached'[u] = reached[u]
  BY <1>1, Went DEF Typed, Labels
<1> QED
  BY Zenon, <1>1, <1>2, SetUndo DEF Typed, Frame, KeepsWork, Stay

\* ... restores the page of the last ...
LEMMA RestoreDoes ==
  ASSUME Typed, NEW t \in Callers, RollbackRestore(t)
  PROVE  LET u == loc[t].undo IN
         /\ Frame(t) /\ KeepsWork(t) /\ reached[t] = "undo" /\ reached'[t] = "undo"
         /\ loc'[t].tx = loc[t].tx /\ loc'[t].lock = loc[t].lock /\ loc'[t].mine = loc[t].mine
         /\ loc'[t].seen = loc[t].seen
         /\ u \in Seq(Images) /\ u # <<>> /\ loc'[t].undo = SubSeq(u, 1, Len(u) - 1)
         /\ pages' = [pages EXCEPT ![u[Len(u)][1]] = u[Len(u)][2]]
         /\ UNCHANGED <<holdR, holdW, depth, nextTx, active, logged, waits, wal, inserts, acked>>
<1> DEFINE v == SubSeq(loc[t].undo, 1, Len(loc[t].undo) - 1)
<1>1. /\ reached[t] = "undo" /\ UNCHANGED reached /\ loc[t].undo # <<>>
      /\ pages' = [pages EXCEPT ![loc[t].undo[Len(loc[t].undo)][1]] = loc[t].undo[Len(loc[t].undo)][2]]
      /\ loc' = [loc EXCEPT ![t].undo = v]
      /\ UNCHANGED <<load, holdR, holdW, depth, nextTx, active, logged, waits, wal, inserts, acked>>
  BY DEF RollbackRestore, lockVars, shared
<1>2. loc[t].undo \in Seq(Images)
  BY DEF Typed, Locals
<1>3. v \in Seq(Images)
  BY <1>1, <1>2
<1> HIDE DEF v
<1>4. /\ loc' \in [Callers -> Locals] /\ (\A u \in Callers \ {t} : loc'[u] = loc[u]) /\ KeepsWork(t)
      /\ loc'[t].tx = loc[t].tx /\ loc'[t].lock = loc[t].lock /\ loc'[t].mine = loc[t].mine
      /\ loc'[t].seen = loc[t].seen /\ loc'[t].undo = v
  BY Zenon, <1>1, <1>3, SetUndo DEF Typed, KeepsWork, Stay
<1> QED
  BY <1>1, <1>2, <1>4 DEF Typed, Frame, v

\* ... until none is left.
LEMMA RollbackDoneDoes ==
  ASSUME Typed, GraphOK, NEW t \in Callers, RollbackDone(t)
  PROVE  /\ Frame(t) /\ KeepsWork(t) /\ reached[t] = "undo" /\ reached'[t] = "end" /\ loc[t].undo = <<>>
         /\ loc'[t].tx = loc[t].tx /\ loc'[t].lock = loc[t].lock /\ loc'[t].mine = {}
         /\ loc'[t].seen = loc[t].seen /\ loc'[t].undo = loc[t].undo
         /\ UNCHANGED <<holdR, holdW, depth, nextTx, active, logged, waits, wal, pages, inserts, acked>>
<1> DEFINE w == Cardinality(DOMAIN waits)
<1>1. /\ reached[t] = "undo" /\ TxGoto(t, "end") /\ loc[t].undo = <<>>
      /\ UNCHANGED <<load, holdR, holdW, depth, nextTx, active, logged, waits, wal, pages, inserts, acked>>
  BY DEF RollbackDone, lockVars, shared, store
<1>2. /\ reached' \in [Callers -> Labels] /\ reached'[t] = "end"
      /\ \A u \in Callers \ {t} : reached'[u] = reached[u]
  BY <1>1, Went DEF Typed, Labels
<1>3. w \in Sizes /\ {} \in SUBSET Nat /\ loc \in [Callers -> Locals]
  BY GraphSizes DEF Typed
<1>4. loc' = [loc EXCEPT ![t].mine = {}, ![t].waiting = w]
  BY DEF RollbackDone
<1> HIDE DEF w
<1>5. /\ loc' \in [Callers -> Locals] /\ (\A u \in Callers \ {t} : loc'[u] = loc[u]) /\ KeepsWork(t)
      /\ loc'[t].tx = loc[t].tx /\ loc'[t].lock = loc[t].lock /\ loc'[t].mine = {}
      /\ loc'[t].seen = loc[t].seen /\ loc'[t].undo = loc[t].undo
  BY Zenon, <1>3, <1>4, SetMine DEF KeepsWork, Stay
<1> QED
  BY <1>1, <1>2, <1>5 DEF Typed, Frame

\* Both forget the transaction's waits ...
LEMMA ForgetDoes ==
  ASSUME Typed, NEW t \in Callers, EndForget(t)
  PROVE  /\ Frame(t) /\ reached[t] = "end" /\ reached'[t] = "clear"
         /\ waits' = RemoveWaits(waits, loc[t].tx)
         /\ UNCHANGED <<loc, holdR, holdW, depth, nextTx, active, logged, wal, pages, inserts, acked>>
<1>1. /\ reached[t] = "end" /\ TxGoto(t, "clear") /\ waits' = RemoveWaits(waits, loc[t].tx)
      /\ UNCHANGED <<load, loc, holdR, holdW, depth, nextTx, active, logged, wal, pages, inserts, acked>>
  BY DEF EndForget, lockVars, store
<1>2. /\ reached' \in [Callers -> Labels] /\ reached'[t] = "clear"
      /\ \A u \in Callers \ {t} : reached'[u] = reached[u]
  BY <1>1, Went DEF Typed, Labels
<1> QED
  BY <1>1, <1>2 DEF Typed, Frame

\* ... then the transaction ...
LEMMA ClearDoes ==
  ASSUME Typed, NEW t \in Callers, EndClear(t)
  PROVE  /\ Frame(t) /\ reached[t] = "clear" /\ reached'[t] = "release" /\ logged' = <<>> /\ active' = 0
         /\ UNCHANGED <<loc, holdR, holdW, depth, nextTx, waits, wal, pages, inserts, acked>>
<1>1. /\ reached[t] = "clear" /\ TxGoto(t, "release") /\ logged' = <<>> /\ active' = 0
      /\ UNCHANGED <<load, loc, holdR, holdW, depth, nextTx, waits, wal, pages, inserts, acked>>
  BY DEF EndClear, lockVars, store
<1>2. /\ reached' \in [Callers -> Labels] /\ reached'[t] = "release"
      /\ \A u \in Callers \ {t} : reached'[u] = reached[u]
  BY <1>1, Went DEF Typed, Labels
<1> QED
  BY <1>1, <1>2 DEF Typed, Frame

\* ... and then the lock ...
LEMMA EndReleaseDoes ==
  ASSUME Typed, NEW t \in Callers, EndRelease(t)
  PROVE  /\ Frame(t) /\ reached[t] = "release" /\ GivesBack(t) /\ Back(t, 0, {})
         /\ acked' = acked \cup loc[t].mine
         /\ UNCHANGED <<nextTx, active, logged, waits, wal, pages, inserts>>
<1>1. /\ reached[t] = "release" /\ ReleaseLevel(t) /\ Return(t, 0, {}, "no")
      /\ acked' = acked \cup loc[t].mine
      /\ UNCHANGED <<load, nextTx, active, logged, waits, wal, pages, inserts>>
  BY DEF EndRelease, shared, store
<1>2. /\ loc' \in [Callers -> Locals] /\ \A u \in Callers \ {t} : loc'[u] = loc[u]
      /\ reached' \in [Callers -> Labels] /\ \A u \in Callers \ {t} : reached'[u] = reached[u]
      /\ Back(t, 0, {})
  BY Zenon, <1>1, Returned DEF Typed, Back
<1> QED
  BY <1>1, <1>2, ReleaseDoes DEF Frame

\* ... unless the detector is interrupted.
LEMMA EndRaisesDoes ==
  ASSUME Typed, NEW t \in Callers, EndRaises(t)
  PROVE  /\ Frame(t) /\ reached[t] = "end" /\ load.preempts /\ Back(t, 0, {})
         /\ waits' = PopWait(waits, loc[t].tx)
         /\ UNCHANGED <<holdR, holdW, depth, nextTx, active, logged, wal, pages, inserts, acked>>
<1>1. /\ reached[t] = "end" /\ load.preempts /\ Return(t, 0, {}, "RuntimeError")
      /\ waits' = PopWait(waits, loc[t].tx)
      /\ UNCHANGED <<load, holdR, holdW, depth, nextTx, active, logged, wal, pages, inserts, acked>>
  BY DEF EndRaises, GraphResized, lockVars, store
<1> QED
  BY <1>1, Returns
-----------------------------------------------------------------------------
\* A step that does not lose the lock: no log write of begin() fails, nor of
\* commit() or rollback().
TxStep(t) == ~lockLost' /\ (TxBegin(t) \/ TxStatement(t) \/ TxEnd(t))

LEMMA LockKept ==
  ASSUME ~lockLost', NEW t \in Callers
  PROVE  ~BeginLogFails(t) /\ ~EndFails(t)
  BY DEF BeginLogFails, EndFails

LEMMA NextKeeps ==
  ASSUME [TxNext]_txVars, ~lockLost'
  PROVE  ~lockLost /\ ((\E t \in Callers : TxStep(t)) \/ UNCHANGED txVars)
<1>1. CASE TxNext
  <2>1. PICK t \in Callers : TxBegin(t) \/ TxStatement(t) \/ TxEnd(t)
    BY <1>1 DEF TxNext
  <2>2. ~lockLost
    BY <2>1 DEF TxBegin, TxStatement, TxEnd
  <2> QED
    BY <2>1, <2>2 DEF TxStep
<1>2. CASE UNCHANGED txVars
  BY <1>2 DEF txVars
<1> QED
  BY <1>1, <1>2

\* The types that the steps need, of the whole invariant.
LEMMA InvTyped ==
  ASSUME LockIInv
  PROVE  Typed /\ GraphOK
<1>1. /\ TxTypes /\ WaitsOK /\ nextTx \in Nat
  BY DEF LockIInv, TxTypes
<1>2. pages \in [Pages -> SUBSET Nat] /\ inserts \in Nat
  BY <1>1 DEF TxTypes, Rows
<1>3. Typed
  BY <1>1, <1>2 DEF TxTypes, Typed
<1>4. DOMAIN waits \subseteq 1..nextTx /\ waits \in [DOMAIN waits -> Nat]
  BY <1>1 DEF WaitsOK
<1>5. waits \in WaitGraphs
  <2>1. DOMAIN waits \in SUBSET Nat
    BY <1>1, <1>4
  <2> QED
    BY <1>4, <2>1 DEF WaitGraphs
<1> QED
  BY <1>3, <1>5 DEF GraphOK

\* A thread with the write lock, at any level, is alone with it.
LEMMA Alone ==
  ASSUME LockIInv, NEW t \in Callers, depth[t] > 0 \/ loc[t].lock = "write",
         NEW u \in Callers, u # t
  PROVE  /\ depth[u] = 0 /\ loc[u].lock = "none" /\ loc[u].tx = 0 /\ ~Left(u)
         /\ reached[u] \notin {"locked", "activate", "reset"} \cup Ending
<1>1. HoldsOK(u) /\ LocksOK /\ depth[u] \in Nat /\ loc[u].lock \in {"none", "read", "write"}
  BY DEF LockIInv, TxTypes, Locals
<1>2. t \in holdW /\ u \notin holdW /\ holdR = {}
  BY <1>1 DEF LocksOK
<1>3. depth[u] = 0 /\ loc[u].lock = "none"
  BY <1>1, <1>2 DEF LocksOK
<1> QED
  BY <1>1, <1>3 DEF HoldsOK, Level, Left

\* A thread that owns a transaction has a level of the lock.
LEMMA OwnerHolds ==
  ASSUME LockIInv, NEW t \in Callers,
         loc[t].tx # 0 \/ reached[t] \in {"locked", "activate", "reset"} \cup Ending \/ Left(t)
  PROVE  depth[t] > 0 /\ loc[t].lock = "none"
<1>1. HoldsOK(t) /\ depth[t] \in Nat /\ loc[t].lock \in {"none", "read", "write"}
  BY DEF LockIInv, TxTypes, Locals
<1>2. depth[t] > 0
  BY <1>1 DEF HoldsOK, Level, Left
<1> QED
  BY <1>1, <1>2 DEF HoldsOK

-----------------------------------------------------------------------------
\* What a step may do to the counters: an id is reserved while there are ids
\* left, or becomes a transaction's, and its thread is done with begin() then.
IdsStep(t) ==
  \/ nextTx' = nextTx /\ (reached'[t] \in Begins => reached[t] \in Begins \/ nextTx <= MaxTx)
  \/ nextTx' = nextTx + 1 /\ reached[t] \in Begins /\ reached'[t] \notin Begins

Steady == UNCHANGED <<nextTx, active, logged, pages, inserts, acked>>
SteadyAction(t) ==
  \/ BeginReserve(t) \/ BeginTest(t) \/ BeginReadHolder(t) \/ BeginAddWait(t) \/ BeginDetect(t)
  \/ BeginRemoveWait(t) \/ BeginRaises(t) \/ BeginGuard(t) \/ BeginLock(t) \/ BeginNested(t)
  \/ ExecuteSelect(t) \/ LockStatement(t) \/ FinishSelect(t)
  \/ (\E p \in Pages : ReadPage(t, p) \/ ScanPage(t, p))
  \/ CommitLog(t) \/ RollbackLog(t) \/ RollbackDone(t) \/ EndForget(t) \/ EndRaises(t)

\* Most steps leave the counters and the pages alone.
LEMMA SteadySteps ==
  ASSUME LockIInv, NEW t \in Callers, SteadyAction(t)
  PROVE  Frame(t) /\ Steady /\ IdsStep(t)
<1>0. Typed /\ GraphOK
  BY InvTyped
<1>1. CASE BeginReserve(t)
  BY <1>0, <1>1, ReserveDoes DEF Steady, IdsStep
<1>2. CASE BeginTest(t)
  BY <1>0, <1>2, TestDoes DEF Steady, IdsStep, Begins
<1>3. CASE BeginReadHolder(t)
  BY <1>0, <1>3, ReadHolderDoes DEF Steady, IdsStep, Begins
<1>4. CASE BeginAddWait(t)
  BY <1>0, <1>4, AddWaitDoes DEF Steady, IdsStep, Begins
<1>5. CASE BeginDetect(t)
  BY <1>0, <1>5, DetectDoes DEF Steady, IdsStep, Begins
<1>6. CASE BeginRemoveWait(t)
  BY <1>0, <1>6, RemoveWaitDoes DEF Steady, IdsStep, Begins
<1>7. CASE BeginRaises(t)
  BY <1>0, <1>7, BeginRaisesDoes DEF Steady, IdsStep, Begins
<1>8. CASE BeginLock(t)
  BY <1>0, <1>8, LockDoes DEF Steady, IdsStep, Begins
<1>9. CASE BeginNested(t)
  BY <1>0, <1>9, NestedDoes DEF Steady, IdsStep, Begins
<1>10. CASE ExecuteSelect(t)
  BY <1>0, <1>10, ExecuteSelectDoes DEF Steady, IdsStep, Begins
<1>11. CASE LockStatement(t)
  BY <1>0, <1>11, LockStatementDoes DEF Steady, IdsStep, Begins
<1>12. CASE FinishSelect(t)
  BY <1>0, <1>12, FinishSelectDoes DEF Steady, IdsStep, Begins, Back
<1>13. ASSUME NEW p \in Pages, ReadPage(t, p) PROVE Frame(t) /\ Steady /\ IdsStep(t)
  BY <1>0, <1>13, ReadPageDoes DEF Steady, IdsStep, Begins
<1>14. ASSUME NEW p \in Pages, ScanPage(t, p) PROVE Frame(t) /\ Steady /\ IdsStep(t)
  BY <1>0, <1>14, ScanPageDoes DEF Steady, IdsStep, Begins
<1>15. CASE CommitLog(t)
  BY <1>0, <1>15, CommitLogDoes DEF Steady, IdsStep, Begins
<1>16. CASE RollbackLog(t)
  BY <1>0, <1>16, RollbackLogDoes DEF Steady, IdsStep, Begins
<1>17. CASE RollbackDone(t)
  BY <1>0, <1>17, RollbackDoneDoes DEF Steady, IdsStep, Begins
<1>18. CASE EndForget(t)
  BY <1>0, <1>18, ForgetDoes DEF Steady, IdsStep, Begins
<1>19. CASE EndRaises(t)
  BY <1>0, <1>19, EndRaisesDoes DEF Steady, IdsStep, Begins, Back
<1>20. CASE BeginGuard(t)
  BY <1>0, <1>20, GuardDoes DEF Steady, IdsStep, Begins
<1> QED
  BY SMTT(20), Z3T(20), <1>1, <1>2, <1>3, <1>4, <1>5, <1>6, <1>7, <1>8, <1>9, <1>10, <1>11, <1>12, <1>13, <1>14,
     <1>15, <1>16, <1>17, <1>18, <1>19, <1>20 DEF SteadyAction

\* The types of what the other steps change.
Counted ==
  /\ nextTx' \in {nextTx, nextTx + 1} /\ active' \in 0..(nextTx' - 1)
  /\ inserts' \in {inserts, inserts + 1} /\ inserts' \in 0..MaxInserts
  /\ logged' \in Seq(Images) /\ RowsOf(logged)'
  /\ pages' \in [Pages -> SUBSET Rows'] /\ acked' \subseteq Rows'

\* Each step counts on from the types, whatever it is.
LEMMA CountedSteps ==
  ASSUME LockIInv, NEW t \in Callers, TxStep(t)
  PROVE  Frame(t) /\ Counted /\ IdsStep(t)
<1>0. /\ Typed /\ LocalsOK(t) /\ nextTx \in Nat \ {0} /\ active \in 0..(nextTx - 1)
      /\ inserts \in 0..MaxInserts /\ logged \in Seq(Images) /\ RowsOf(logged)
      /\ pages \in [Pages -> SUBSET Rows] /\ acked \subseteq Rows
  BY InvTyped DEF LockIInv, TxTypes
<1>1. CASE SteadyAction(t)
  <2>1. Frame(t) /\ Steady /\ IdsStep(t)
    BY <1>1, SteadySteps
  <2>2. RowsOf(logged)' /\ Rows' = Rows
    BY <1>0, <2>1 DEF Steady, RowsOf, Rows
  <2> QED
    BY <1>0, <2>1, <2>2 DEF Steady, Counted
<1>2. CASE BeginLog(t)
  <2>1. /\ Frame(t) /\ IdsStep(t) /\ active = 0 /\ nextTx' = nextTx + 1
        /\ UNCHANGED <<active, logged, pages, inserts, acked>>
    BY <1>0, <1>2, BeginLogDoes DEF IdsStep, Begins
  <2>2. RowsOf(logged)' /\ Rows' = Rows
    BY SMTT(20), Z3T(20), <1>0, <2>1 DEF RowsOf, Rows
  <2> QED
    BY <1>0, <2>1, <2>2 DEF Counted
<1>3. CASE BeginActivate(t) \/ BeginReset(t) \/ EndClear(t)
  <2>1. /\ Frame(t) /\ UNCHANGED <<nextTx, pages, inserts, acked>>
        /\ \/ reached[t] = "activate" /\ active' = loc[t].id
           \/ active' = active
           \/ active' = 0
        /\ logged' \in {logged, <<>>} /\ reached'[t] \in {"reset", "idle", "release"}
    BY <1>0, <1>3, ActivateDoes, ResetDoes, ClearDoes DEF Back
  <2>2. Rows' = Rows /\ logged' \in Seq(Images)
    <3>1. <<>> \in Seq(Images)
      OBVIOUS
    <3>2. logged' \in Seq(Images)
      BY Zenon, <1>0, <2>1, <3>1
    <3> QED
      BY <2>1, <3>2 DEF Rows
  <2>4. RowsOf(logged)'
    <3>1. \A k \in DOMAIN logged' : k \in DOMAIN logged /\ logged'[k] = logged[k]
      BY <1>0, <2>1
    <3> QED
      BY <1>0, <2>2, <3>1 DEF RowsOf
  <2>3. active' \in 0..(nextTx' - 1)
    BY <1>0, <2>1 DEF LocalsOK
  <2> QED
    BY SMTT(20), Z3T(20), <1>0, <2>1, <2>2, <2>3, <2>4 DEF Counted, IdsStep, Begins
<1>4. CASE ExecuteInsert(t)
  <2>1. /\ Frame(t) /\ UNCHANGED <<nextTx, active, logged, pages, acked>>
        /\ inserts < MaxInserts /\ inserts' = inserts + 1 /\ reached'[t] \in {"insert", "lockW"}
    BY <1>0, <1>4, ExecuteInsertDoes
  <2>2. inserts' \in 0..MaxInserts /\ Rows \subseteq Rows'
    BY <1>0, <2>1, TxBoundsAssumption DEF Rows
  <2>3. RowsOf(logged)' /\ pages' \in [Pages -> SUBSET Rows']
    BY <1>0, <2>1, <2>2 DEF RowsOf
  <2> QED
    BY <1>0, <2>1, <2>2, <2>3 DEF Counted, IdsStep, Begins
<1>5. CASE LogPage(t)
  <2>1. /\ Frame(t) /\ UNCHANGED <<nextTx, active, pages, inserts, acked>>
        /\ logged' = Append(logged, <<loc[t].page, pages[loc[t].page]>>)
        /\ reached[t] = "log" /\ reached'[t] = "write"
    BY Zenon, <1>0, <1>5, LogPageDoes
  <2>2. /\ loc[t].page \in Pages /\ pages[loc[t].page] \in SUBSET Rows
        /\ pages[loc[t].page] \in SUBSET Nat /\ Rows' = Rows
    BY <1>0, <2>1 DEF LocalsOK, Typed, Rows
  <2>3. <<loc[t].page, pages[loc[t].page]>> \in Images
    BY <2>2 DEF Images
  <2>4. logged' \in Seq(Images) /\ \A k \in DOMAIN logged' : logged'[k] \in Pages \X SUBSET Rows
    BY SMTT(20), Z3T(20), <1>0, <2>1, <2>2, <2>3 DEF RowsOf
  <2> QED
    BY <1>0, <2>1, <2>2, <2>4 DEF Counted, IdsStep, Begins, RowsOf
<1>6. CASE TxWritePage(t)
  <2>1. /\ Frame(t) /\ UNCHANGED <<nextTx, active, logged, inserts, acked>>
        /\ pages' = [pages EXCEPT ![loc[t].page] = loc[t].img \cup {loc[t].row}]
        /\ reached[t] = "write" /\ reached'[t] = "insert"
    BY <1>0, <1>6, WritePageDoes
  <2>2. loc[t].img \cup {loc[t].row} \in SUBSET Rows /\ Rows' = Rows /\ RowsOf(logged)'
    BY <1>0, <2>1 DEF LocalsOK, Rows, Inserting, RowsOf
  <2>3. pages' \in [Pages -> SUBSET Rows]
    BY Zenon, <1>0, <2>1, <2>2
  <2> QED
    BY SMTT(20), Z3T(20), <1>0, <2>1, <2>2, <2>3 DEF Counted, IdsStep, Begins
<1>7. CASE FinishInsert(t)
  <2>1. /\ Frame(t) /\ UNCHANGED <<nextTx, active, logged, pages, inserts>>
        /\ reached[t] = "insert" /\ reached'[t] = "idle"
        /\ acked' \in {acked, acked \cup {loc[t].row}}
    BY <1>0, <1>7, FinishInsertDoes DEF Back
  <2>2. acked' \subseteq Rows /\ Rows' = Rows /\ RowsOf(logged)'
    BY <1>0, <2>1 DEF LocalsOK, Rows, Inserting, RowsOf
  <2> QED
    BY SMTT(20), Z3T(20), <1>0, <2>1, <2>2 DEF Counted, IdsStep, Begins
<1>8. CASE RollbackRestore(t)
  <2> DEFINE s == loc[t].undo
  <2>1. /\ Frame(t) /\ UNCHANGED <<nextTx, active, logged, inserts, acked>>
        /\ s \in Seq(Images) /\ s # <<>> /\ reached'[t] = "undo"
        /\ pages' = [pages EXCEPT ![s[Len(s)][1]] = s[Len(s)][2]]
    BY <1>0, <1>8, RestoreDoes
  <2>2. RowsOf(s) /\ Rows' = Rows /\ RowsOf(logged)'
    BY <1>0, <2>1 DEF LocalsOK, Rows, RowsOf
  <2> HIDE DEF s
  <2>3. Len(s) \in DOMAIN s
    BY <2>1
  <2>4. s[Len(s)][2] \in SUBSET Rows
    BY <2>2, <2>3 DEF RowsOf
  <2>5. pages' \in [Pages -> SUBSET Rows]
    BY Zenon, <1>0, <2>1, <2>4
  <2> QED
    BY <1>0, <2>1, <2>2, <2>5 DEF Counted, IdsStep, Begins
<1>9. CASE EndRelease(t)
  <2>1. /\ Frame(t) /\ UNCHANGED <<nextTx, active, logged, pages, inserts>>
        /\ acked' = acked \cup loc[t].mine /\ reached'[t] = "idle"
    BY <1>0, <1>9, EndReleaseDoes DEF Back
  <2>2. acked' \subseteq Rows /\ Rows' = Rows /\ RowsOf(logged)'
    BY Zenon, <1>0, <2>1 DEF LocalsOK, Rows, RowsOf
  <2> QED
    BY <1>0, <2>1, <2>2 DEF Counted, IdsStep, Begins
<1> QED
  BY SMTT(20), Z3T(20), <1>1, <1>2, <1>3, <1>4, <1>5, <1>6, <1>7, <1>8, <1>9, LockKept
     DEF TxStep, TxBegin, TxStatement, TxEnd, SteadyAction, BeginGuard
-----------------------------------------------------------------------------
\* The steps that change nothing of who has the lock and which transaction is
\* active, and between which places of the code they go.
QuietMove(t) ==
  \/ reached[t] \in {"idle"} \cup (Begins \ {"locked"}) /\ reached'[t] \in {"idle"} \cup (Begins \ {"locked"})
  \/ reached[t] = "locked" /\ reached'[t] = "activate" /\ active = 0
  \/ reached[t] = "idle" /\ reached'[t] \in {"lockW", "lockR"} /\ active = 0
  \/ reached[t] = "idle" /\ reached'[t] \in {"insert", "select"}
  \/ reached[t] \in Inserting /\ reached'[t] \in Inserting
  \/ reached[t] = "select" /\ reached'[t] = "select"
  \/ reached[t] = "idle" /\ reached'[t] \in {"undo", "end"} /\ loc[t].tx # 0
  \/ reached[t] \in {"undo", "end"} /\ reached'[t] \in {"undo", "end", "clear"}

Quiet(t) ==
  /\ Frame(t) /\ QuietMove(t) /\ UNCHANGED <<holdR, holdW, depth, active>>
  /\ loc'[t].tx = loc[t].tx /\ loc'[t].lock = loc[t].lock

QuietAction(t) ==
  \/ BeginReserve(t) \/ BeginTest(t) \/ BeginReadHolder(t) \/ BeginAddWait(t) \/ BeginDetect(t)
  \/ BeginRemoveWait(t) \/ BeginRaises(t) \/ BeginGuard(t) \/ BeginLog(t)
  \/ ExecuteInsert(t) \/ ExecuteSelect(t) \/ LogPage(t) \/ TxWritePage(t)
  \/ (\E p \in Pages : ReadPage(t, p) \/ ScanPage(t, p))
  \/ CommitLog(t) \/ RollbackLog(t) \/ RollbackRestore(t) \/ RollbackDone(t) \/ EndForget(t)

LoudAction(t) ==
  \/ BeginLock(t) \/ BeginNested(t) \/ BeginActivate(t) \/ BeginReset(t) \/ LockStatement(t)
  \/ FinishInsert(t) \/ FinishSelect(t) \/ EndClear(t) \/ EndRaises(t) \/ EndRelease(t)

\* Those steps are the ones named, by what each action does.
LEMMA QuietSteps ==
  ASSUME LockIInv, NEW t \in Callers, QuietAction(t)
  PROVE  Quiet(t)
<1>0. Typed /\ GraphOK /\ HoldsOK(t) /\ loc[t].lock \in {"none", "read", "write"}
  BY Zenon, InvTyped DEF LockIInv, Typed, Locals
<1>1. CASE BeginReserve(t)
  BY <1>0, <1>1, ReserveDoes DEF Quiet, QuietMove, Begins, Keeps
<1>2. CASE BeginTest(t)
  BY <1>0, <1>2, TestDoes DEF Quiet, QuietMove, Begins
<1>3. CASE BeginReadHolder(t)
  <2>1. reached[t] = "holder" /\ loc[t].lock = "none"
    BY <1>0, <1>3, ReadHolderDoes DEF HoldsOK, Inserting
  <2> QED
    BY SMTT(20), Z3T(20), <1>0, <1>3, <2>1, ReadHolderDoes DEF Quiet, QuietMove, Begins, Keeps, Back
<1>4. CASE BeginAddWait(t)
  BY <1>0, <1>4, AddWaitDoes DEF Quiet, QuietMove, Begins, Keeps
<1>5. CASE BeginDetect(t)
  BY SMTT(20), Z3T(20), <1>0, <1>5, DetectDoes DEF Quiet, QuietMove, Begins, Keeps
<1>6. CASE BeginRemoveWait(t)
  <2>1. reached[t] = "unwait" /\ loc[t].lock = "none"
    BY <1>0, <1>6, RemoveWaitDoes DEF HoldsOK, Inserting
  <2> QED
    BY <1>0, <1>6, <2>1, RemoveWaitDoes DEF Quiet, QuietMove, Begins, Back
<1>7. CASE BeginRaises(t)
  <2>1. reached[t] \in {"detect", "unwait"} /\ loc[t].lock = "none"
    BY SMTT(20), Z3T(20), <1>0, <1>7, BeginRaisesDoes DEF HoldsOK, Inserting
  <2> QED
    BY SMTT(20), Z3T(20), <1>0, <1>7, <2>1, BeginRaisesDoes DEF Quiet, QuietMove, Begins, Back
<1>8. CASE BeginLog(t)
  BY <1>0, <1>8, BeginLogDoes DEF Quiet, QuietMove, Keeps
<1>9. CASE ExecuteInsert(t)
  BY <1>0, <1>9, ExecuteInsertDoes DEF Quiet, QuietMove, Keeps
<1>10. CASE ExecuteSelect(t)
  BY <1>0, <1>10, ExecuteSelectDoes DEF Quiet, QuietMove, Keeps
<1>11. CASE LogPage(t)
  BY Zenon, <1>0, <1>11, LogPageDoes DEF Quiet, QuietMove, Inserting
<1>12. CASE TxWritePage(t)
  BY <1>0, <1>12, WritePageDoes DEF Quiet, QuietMove, Inserting
<1>13. ASSUME NEW p \in Pages, ReadPage(t, p) PROVE Quiet(t)
  BY <1>0, <1>13, ReadPageDoes DEF Quiet, QuietMove, Inserting, Keeps
<1>14. ASSUME NEW p \in Pages, ScanPage(t, p) PROVE Quiet(t)
  BY <1>0, <1>14, ScanPageDoes DEF Quiet, QuietMove
<1>15. CASE CommitLog(t)
  BY <1>0, <1>15, CommitLogDoes DEF Quiet, QuietMove, Keeps
<1>16. CASE RollbackLog(t)
  BY SMTT(20), Z3T(20), <1>0, <1>16, RollbackLogDoes DEF Quiet, QuietMove
<1>17. CASE RollbackRestore(t)
  BY <1>0, <1>17, RestoreDoes DEF Quiet, QuietMove
<1>18. CASE RollbackDone(t)
  BY SMTT(20), Z3T(20), <1>0, <1>18, RollbackDoneDoes DEF Quiet, QuietMove
<1>19. CASE EndForget(t)
  BY <1>0, <1>19, ForgetDoes DEF Quiet, QuietMove
<1>20. CASE BeginGuard(t)
  BY <1>0, <1>20, GuardDoes DEF Quiet, QuietMove, Begins
<1> QED
  BY <1>1, <1>2, <1>3, <1>4, <1>5, <1>6, <1>7, <1>8, <1>9, <1>10, <1>11, <1>12, <1>13, <1>14,
     <1>15, <1>16, <1>17, <1>18, <1>19, <1>20 DEF QuietAction
=============================================================================
