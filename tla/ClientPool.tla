----------------------------- MODULE ClientPool -----------------------------
(***************************************************************************)
(* tinydb.client.pool: threads borrow Clients from a Pool with             *)
(* "with pool.connection()", in which they may fail, while one thread      *)
(* closes the pool.  acquire, release, _forget and close interleave        *)
(* between their accesses to _closed, to the queue and to what _lock       *)
(* protects; opening a client, under _lock, is one step and may fail.      *)
(***************************************************************************)
EXTENDS Integers, Sequences, FiniteSets

CONSTANTS
  Borrowers,    \* threads
  Hurried,      \* those that call acquire with a timeout
  PoolSize,     \* max_size
  MaxBorrows,   \* bound on calls of connection()
  MaxBroken     \* bound on blocks that fail and on clients that cannot be opened

ASSUME ClientPoolAssumption ==
  Hurried \subseteq Borrowers /\ PoolSize \in Nat \ {0} /\ MaxBorrows \in Nat /\ MaxBroken \in Nat

VARIABLES
  idle,       \* _idle
  known,      \* _all_clients
  shut,       \* _closed
  opened,     \* the clients that are open
  stage,         \* where each thread is
  using,      \* the client it has, 0 for none
  closing,    \* how far close() is: "no", "drain", "all", "done"
  made, borrows, broken   \* clients made, calls, failures so far

clientPoolVars == <<idle, known, shut, opened, stage, using, closing, made, borrows, broken>>
None == 0

ClientPoolInit ==
  /\ idle = <<>> /\ known = {} /\ shut = FALSE /\ opened = {}
  /\ stage = [t \in Borrowers |-> "out"] /\ using = [t \in Borrowers |-> None]
  /\ closing = "no" /\ made = 0 /\ borrows = 0 /\ broken = 0

Moves(t, to, c) == stage' = [stage EXCEPT ![t] = to] /\ using' = [using EXCEPT ![t] = c]
-----------------------------------------------------------------------------
(* acquire *)
TakeIdle(t) ==
  /\ stage[t] = "out" /\ borrows < MaxBorrows /\ ~shut
  /\ borrows' = borrows + 1
  /\ IF idle # <<>>                            \* get_nowait
       THEN Moves(t, "using", Head(idle)) /\ idle' = Tail(idle)
       ELSE Moves(t, "grow", None) /\ idle' = idle
  /\ UNCHANGED <<known, shut, opened, closing, made, broken>>

\* with self._lock
Grow_ClosedNotSeen(t) ==
  /\ stage[t] = "grow"
  /\ IF Cardinality(known) < PoolSize
       THEN /\ made' = made + 1
            /\ known' = known \cup {made + 1} /\ opened' = opened \cup {made + 1}
            /\ Moves(t, "using", made + 1)
       ELSE Moves(t, "waiting", None) /\ UNCHANGED <<made, known, opened>>
  /\ UNCHANGED <<idle, shut, closing, borrows, broken>>
Grow(t) ==
  /\ stage[t] = "grow"
  /\ IF shut THEN Moves(t, "out", None) /\ UNCHANGED <<made, known, opened>>
     ELSE IF Cardinality(known) < PoolSize
       THEN /\ made' = made + 1
            /\ known' = known \cup {made + 1} /\ opened' = opened \cup {made + 1}
            /\ Moves(t, "using", made + 1)
       ELSE Moves(t, "waiting", None) /\ UNCHANGED <<made, known, opened>>
  /\ UNCHANGED <<idle, shut, closing, borrows, broken>>

\* Client() raises: nothing was added.
GrowFails(t) ==
  /\ stage[t] = "grow" /\ ~shut /\ Cardinality(known) < PoolSize /\ broken < MaxBroken
  /\ broken' = broken + 1
  /\ Moves(t, "out", None)
  /\ UNCHANGED <<idle, known, shut, opened, closing, made, borrows>>

\* _idle.get(timeout=timeout)
Wait(t) ==
  /\ stage[t] = "waiting" /\ idle # <<>>
  /\ Moves(t, "using", Head(idle)) /\ idle' = Tail(idle)
  /\ UNCHANGED <<known, shut, opened, closing, made, borrows, broken>>

\* queue.Empty, when the timeout has passed and nothing is on the queue
GiveUp(t) ==
  /\ t \in Hurried /\ stage[t] = "waiting" /\ idle = <<>>
  /\ Moves(t, "out", None)
  /\ UNCHANGED <<idle, known, shut, opened, closing, made, borrows, broken>>
-----------------------------------------------------------------------------
(* release: closed is tested first, the queue is filled later *)
ReleaseTests(t) ==
  /\ stage[t] = "using"
  /\ IF shut
       THEN Moves(t, "out", None) /\ opened' = opened \ {using[t]}
       ELSE Moves(t, "put", using[t]) /\ UNCHANGED opened
  /\ UNCHANGED <<idle, known, shut, closing, made, borrows, broken>>

Put_Lost(t) ==
  /\ stage[t] = "put"
  /\ Moves(t, "out", None)
  /\ UNCHANGED <<idle, known, shut, opened, closing, made, borrows, broken>>
Put(t) ==
  /\ stage[t] = "put"
  /\ Moves(t, "out", None)
  /\ IF Len(idle) < PoolSize                   \* else queue.Full
       THEN idle' = Append(idle, using[t]) /\ UNCHANGED opened
       ELSE opened' = opened \ {using[t]} /\ UNCHANGED idle
  /\ UNCHANGED <<known, shut, closing, made, borrows, broken>>

\* An exception in the block: the client is closed, then forgotten; a thread
\* that waits for the queue is not told that there is room now.
Fail(t) ==
  /\ stage[t] = "using" /\ broken < MaxBroken
  /\ broken' = broken + 1
  /\ opened' = opened \ {using[t]}
  /\ Moves(t, "forget", using[t])
  /\ UNCHANGED <<idle, known, shut, closing, made, borrows>>

Forget(t) ==
  /\ stage[t] = "forget"
  /\ known' = known \ {using[t]}
  /\ Moves(t, "out", None)
  /\ UNCHANGED <<idle, shut, opened, closing, made, borrows, broken>>
-----------------------------------------------------------------------------
(* close *)
ClosePool ==
  /\ closing = "no"
  /\ shut' = TRUE /\ closing' = "drain"
  /\ UNCHANGED <<idle, known, opened, stage, using, made, borrows, broken>>

Drain ==
  /\ closing = "drain"
  /\ IF idle # <<>>
       THEN opened' = opened \ {Head(idle)} /\ idle' = Tail(idle) /\ UNCHANGED closing
       ELSE closing' = "all" /\ UNCHANGED <<opened, idle>>
  /\ UNCHANGED <<known, shut, stage, using, made, borrows, broken>>

CloseAll ==
  /\ closing = "all"
  /\ opened' = opened \ known /\ known' = {} /\ closing' = "done"
  /\ UNCHANGED <<idle, shut, stage, using, made, borrows, broken>>

BorrowerStep(t) ==
  \/ Grow(t) \/ GrowFails(t) \/ Wait(t) \/ ReleaseTests(t) \/ Put(t) \/ Fail(t) \/ Forget(t)

ClientPoolNext ==
  \/ \E t \in Borrowers : TakeIdle(t) \/ GiveUp(t) \/ BorrowerStep(t)
  \/ ClosePool \/ Drain \/ CloseAll

ClientPoolSpec == ClientPoolInit /\ [][ClientPoolNext]_clientPoolVars

\* A thread leaves its block in the end, and runs; no timeout has to pass.
ClientPoolFairness == \A t \in Borrowers : WF_clientPoolVars(BorrowerStep(t))
-----------------------------------------------------------------------------
\* A client is in one place: with one thread, or once on the idle queue.
ClientInOnePlace ==
  /\ \A t, u \in Borrowers : t # u /\ using[t] # None => using[t] # using[u]
  /\ \A i \in DOMAIN idle : \A t \in Borrowers : idle[i] # using[t]
  /\ \A i, j \in DOMAIN idle : i # j => idle[i] # idle[j]

\* No more clients are open than max_size, also while failed ones are being
\* replaced; and once close() has returned none is, although a release may
\* have seen the pool open and put its client on the queue afterwards.
OpenClientsCounted ==
  /\ Cardinality(opened) <= PoolSize
  /\ closing = "done" => opened = {}

\* What acquire, release, _forget and close do to clients: each is in one place,
\* and none beyond max_size or after close() is open.
ClientsAccountedFor == ClientInOnePlace /\ OpenClientsCounted

\* "Once the cap is reached we block ... for a client to be released back to the
\* pool": who waits gets one, unless a block failed (its client is not replaced)
\* or the pool was closed.
WaiterServed ==
  \A t \in Borrowers : stage[t] = "waiting" ~> (stage[t] # "waiting" \/ broken > 0 \/ shut)
=============================================================================
