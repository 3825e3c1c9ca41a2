------------------------------ MODULE Network ------------------------------
(***************************************************************************)
(* The synchronous Client, the wire and the server: Client.execute, ping,  *)
(* transaction and close in several threads, the reader thread of each     *)
(* connection, and ServerSession.serve on the server's one event loop.     *)
(*                                                                         *)
(* A connection can break at any time, taking any suffix of what is under  *)
(* way in either direction with it, and the server may or may not be told; *)
(* calls time out; statements fail; the log can fail when the server ends  *)
(* a transaction.  A frame carries, beside its kind, the number of the     *)
(* call it answers, which the real frames do not have.                     *)
(***************************************************************************)
EXTENDS Integers, Sequences, FiniteSets

CONSTANTS
  Callers,      \* threads of the clients
  ClientOf,     \* the Client each thread uses
  Programs,     \* what may happen in a behaviour: ops, the operations each thread may
                \* call; and bounds on the calls, on those that give up waiting, on
                \* connections that break and on failures of the log; and whether
                \* statements may fail and connections break without a word
  MaxRetries,   \* Client(max_retries=...)
  MaxConns      \* bound on connections

Clients == {ClientOf[t] : t \in Callers}   \* 1, 2, ...: client c starts on connection c
Conns == 1..MaxConns
Ops == {"select", "insert", "transaction", "ping", "close"}

ASSUME NetworkAssumption ==
  /\ Programs \subseteq [ops : [Callers -> SUBSET Ops], calls : Nat, timeouts : Nat,
                          breaks : Nat, fails : Nat, errors : BOOLEAN, silent : BOOLEAN]
  /\ MaxRetries \in Nat /\ MaxConns \in Nat /\ Clients = 1..Cardinality(Clients) /\ Clients \subseteq Conns

VARIABLES
  program,   \* the behaviour's program, which never changes
  client,    \* each Client: sock, lock, closed, depth, queue
  conn,      \* each connection: the wire, the session, the reader thread
  call,      \* the running, or last, call of each thread
  db,        \* active: the session that began the open transaction; rows;
             \* undo: rows that its ROLLBACK takes out
  used,      \* how much of the program's bounds is used up
  ran,       \* (history) how often the server ran each call
  shared,    \* (history) autocommit rows written inside another session's transaction
  mixed      \* (history) clients on which calls overlapped or gave up waiting

netVars == <<program, client, conn, call, db, used, ran, shared, mixed>>

Frame(kind, n) == [kind |-> kind, call |-> n]
NoConn == 0

\* Client.__init__ and _connect have finished the handshake.
NewClient(k) == [sock |-> k, lock |-> FALSE, closed |-> FALSE, depth |-> 0, queue |-> <<>>]

\* link: "none" (not opened yet), "open", "closed" (by the client), "broken",
\* "vanished" (broken, and neither end is told: no FIN or RST arrives);
\* up, down: what is under way; serving: serve() runs; greeted: _handshake_done;
\* tx: _tx is set; reading: the reader thread runs.
Unused == [of |-> 1, link |-> "none", up |-> <<>>, down |-> <<>>,
           serving |-> FALSE, greeted |-> FALSE, tx |-> FALSE, reading |-> FALSE]
Opened(c, greeted) ==
  [of |-> c, link |-> "open", up |-> IF greeted THEN <<>> ELSE <<Frame("hello", 0)>>,
   down |-> <<>>, serving |-> TRUE, greeted |-> greeted, tx |-> FALSE, reading |-> greeted]

\* n: the call's number; op: the statement sent; got: the frames collected;
\* attempt: execute's loop; sock: the socket it took; inTx: between BEGIN and
\* the end of transaction(); out: how the call ended.
NoCall == [n |-> 0, op |-> "none", got |-> <<>>, attempt |-> 0, sock |-> NoConn,
           inTx |-> FALSE, pc |-> "idle", out |-> "none"]

NetInit ==
  /\ program \in Programs
  /\ client = [c \in Clients |-> NewClient(c)]
  /\ conn = [k \in Conns |-> IF k \in Clients THEN Opened(k, TRUE) ELSE Unused]
  /\ call = [t \in Callers |-> NoCall]
  /\ db = [active |-> NoConn, rows |-> {}, undo |-> {}]
  /\ used = [calls |-> 0, timeouts |-> 0, breaks |-> 0, fails |-> 0]
  /\ ran = [n \in 1..program.calls |-> 0] /\ shared = {} /\ mixed = {}

histories == <<ran, shared, mixed>>

Cl(t) == client[ClientOf[t]]
At(t, pc) == call[t].pc = pc
Goto(t, pc) == call' = [call EXCEPT ![t].pc = pc]
Unlocked(t) == ~Cl(t).lock
-----------------------------------------------------------------------------
(* Client.execute *)

\* Threads of one Client do not wait for each other's answers.
Overlap(t) == \E u \in Callers \ {t} : ClientOf[u] = ClientOf[t] /\ call[u].pc # "idle"
Begin(t, op, pc) ==
  /\ used.calls < program.calls
  /\ used' = [used EXCEPT !.calls = @ + 1]
  /\ call' = [call EXCEPT ![t] = [NoCall EXCEPT !.n = used.calls + 1, !.op = op, !.pc = pc,
                                                !.inTx = call[t].inTx]]
  /\ mixed' = IF Overlap(t) THEN mixed \cup {ClientOf[t]} ELSE mixed
  /\ UNCHANGED <<program, conn, db, ran, shared>>

Execute(t) ==
  /\ At(t, "idle")
  /\ \E op \in {"select", "insert", "ping"} \cap program.ops[t] : Begin(t, op, "take")
  /\ UNCHANGED client

Attempts_AlwaysRetries(op) == MaxRetries + 1
Attempts(op) == IF op = "select" THEN MaxRetries + 1 ELSE 1   \* _is_safe_to_retry

\* The call ends.  transaction() counts its depth down only after a COMMIT that
\* succeeded or a ROLLBACK, and not when BEGIN raised; now is the client's state
\* without that.
LowersDepth(op, out) == op = "rollback" \/ (op = "commit" /\ out = "answer")
InTransaction(c, out) ==
  IF c.op \in {"begin", "commit", "rollback"} THEN c.op = "begin" /\ out = "answer" ELSE c.inTx
Return(t, out, got, now) ==
  /\ call' = [call EXCEPT ![t] = [@ EXCEPT !.pc = "idle", !.sock = NoConn, !.out = out,
                                          !.got = got, !.inTx = InTransaction(call[t], out)]]
  /\ client' = [client EXCEPT ![ClientOf[t]] =
                  IF LowersDepth(call[t].op, out) THEN [now EXCEPT !.depth = @ - 1] ELSE now]

\* The socket, under _lock: a first attempt does not reconnect.
TakeSocket(t) ==
  /\ At(t, "take") /\ Unlocked(t) /\ Cl(t).sock # NoConn
  /\ call' = [call EXCEPT ![t].sock = Cl(t).sock, ![t].pc = "send"]
  /\ UNCHANGED <<program, client, conn, db, used, histories>>

TakeFails(t) ==
  /\ At(t, "take") /\ Unlocked(t) /\ Cl(t).sock = NoConn
  /\ IF call[t].op = "ping"
       THEN Return(t, "ConnectionError", <<>>, Cl(t))
       ELSE call[t].attempt = 0 /\ Goto(t, "failed") /\ UNCHANGED client
  /\ UNCHANGED <<program, conn, db, used, histories>>

\* _reconnect, which keeps _lock until the server's OK is there.
Reconnect(t) ==
  /\ At(t, "take") /\ Unlocked(t) /\ Cl(t).sock = NoConn /\ call[t].attempt > 0
  /\ \E k \in Conns :
       /\ conn[k].link = "none" /\ \A i \in 1..(k - 1) : conn[i].link # "none"
       /\ conn' = [conn EXCEPT ![k] = Opened(ClientOf[t], FALSE)]
       /\ call' = [call EXCEPT ![t].sock = k, ![t].pc = "hello"]
  /\ client' = [client EXCEPT ![ClientOf[t]].lock = TRUE]
  /\ UNCHANGED <<program, db, used, histories>>

Gone(k) == conn[k].link \in {"broken", "vanished"}
Lost(k) == conn[k].down = <<>> /\ (Gone(k) \/ ~conn[k].serving)

\* The new reader thread looks at _closed before anything else.
Greeted(t) ==
  LET k == call[t].sock  c == ClientOf[t] IN
  /\ At(t, "hello") /\ conn[k].down # <<>>
  /\ conn' = [conn EXCEPT ![k].down = Tail(@), ![k].reading = ~Cl(t).closed]
  /\ client' = [client EXCEPT ![c].sock = k, ![c].lock = FALSE]
  /\ Goto(t, "send")
  /\ UNCHANGED <<program, db, used, histories>>

NotGreeted(t) ==
  /\ At(t, "hello") /\ Lost(call[t].sock)
  /\ client' = [client EXCEPT ![ClientOf[t]].lock = FALSE]
  /\ Goto(t, "failed")
  /\ UNCHANGED <<program, conn, db, used, histories>>

\* A broken connection may take the bytes and lose them, or raise an OSError,
\* which execute does not catch; so does a socket closed meanwhile.
Send(t) ==
  /\ At(t, "send")
  /\ LET k == call[t].sock IN
       \/ /\ conn[k].link = "open" \/ Gone(k)
          /\ conn' = IF conn[k].link = "open" /\ conn[k].serving
                       THEN [conn EXCEPT ![k].up = Append(@, Frame(call[t].op, call[t].n))]
                       ELSE conn
          /\ Goto(t, IF call[t].op = "ping" THEN "wait" ELSE "check")
          /\ UNCHANGED client
       \/ /\ conn[k].link # "open" \/ ~conn[k].serving
          /\ Return(t, "OSError", <<>>, Cl(t))
          /\ UNCHANGED conn
  /\ UNCHANGED <<program, db, used, histories>>

\* _collect_response looks at _sock once before it waits.
CheckSocket(t) ==
  /\ At(t, "check") /\ Unlocked(t)
  /\ Goto(t, IF Cl(t).sock = NoConn THEN "failed" ELSE "wait")
  /\ UNCHANGED <<program, client, conn, db, used, histories>>

\* The next frame on the client's queue, whoever it is for: execute ends with
\* the first DONE or ERROR, ping with the first PONG; what ping meets before
\* is thrown away.
Last_AnyFrame(op, f) == TRUE
Last(op, f) == f.kind \in IF op = "ping" THEN {"pong"} ELSE {"done", "error"}
Collect(t) ==
  LET f == Head(Cl(t).queue)
      op == call[t].op
      got == IF op = "ping" /\ f.kind # "pong" THEN <<>> ELSE Append(call[t].got, f)
      popped == [Cl(t) EXCEPT !.queue = Tail(@)]
  IN
  /\ At(t, "wait") /\ Cl(t).queue # <<>>
  /\ IF Last(op, f)
       THEN Return(t, IF f.kind = "error" THEN "error" ELSE "answer", got, popped)
       ELSE /\ call' = [call EXCEPT ![t].got = got]
            /\ client' = [client EXCEPT ![ClientOf[t]] = popped]
  /\ UNCHANGED <<program, conn, db, used, histories>>

\* The timeout, with or without frames on the queue: only a socket that is gone
\* from the client itself counts as a lost connection.  The handshake times out
\* with _lock held.
GiveUp(t) ==
  /\ call[t].pc \in {"wait", "hello"} /\ used.timeouts < program.timeouts
  /\ used' = [used EXCEPT !.timeouts = @ + 1]
  /\ mixed' = mixed \cup {ClientOf[t]}
  /\ IF At(t, "wait") /\ Cl(t).queue = <<>> /\ (Cl(t).closed \/ Cl(t).sock = NoConn)
          /\ call[t].op # "ping"
       THEN Goto(t, "failed") /\ UNCHANGED client
       ELSE Return(t, "TimeoutError", <<>>,
                   IF At(t, "hello") THEN [Cl(t) EXCEPT !.lock = FALSE] ELSE Cl(t))
  /\ UNCHANGED <<program, conn, db, ran, shared>>

\* except ClientConnectionError: _drop_sock, whoever's socket it is by now, and
\* the next attempt.
DropSocket(t) ==
  /\ At(t, "failed") /\ Unlocked(t)
  /\ conn' = IF Cl(t).sock = NoConn THEN conn ELSE [conn EXCEPT ![Cl(t).sock].link =
                                                    IF @ = "open" THEN "closed" ELSE @]
  /\ LET now == [Cl(t) EXCEPT !.sock = NoConn] IN
       IF call[t].attempt + 1 >= Attempts(call[t].op)
         THEN Return(t, "ConnectionError", <<>>, now)
         ELSE /\ call' = [call EXCEPT ![t].attempt = @ + 1, ![t].got = <<>>, ![t].pc = "take"]
              /\ client' = [client EXCEPT ![ClientOf[t]] = now]
  /\ UNCHANGED <<program, db, used, histories>>
-----------------------------------------------------------------------------
(* Client.transaction and close *)

\* Entering the with block: BEGIN, unless the client is inside one.
EnterTransaction(t) ==
  /\ At(t, "idle") /\ ~call[t].inTx /\ "transaction" \in program.ops[t]
  /\ Cl(t).depth = 0
  /\ client' = [client EXCEPT ![ClientOf[t]].depth = @ + 1]
  /\ Begin(t, "begin", "take")

LeaveTransaction(t) ==
  /\ At(t, "idle") /\ call[t].inTx
  /\ \E op \in {"commit", "rollback"} : Begin(t, op, "take")
  /\ UNCHANGED client

\* close: take the socket, then set _closed, then send QUIT and shut it down.
Close(t) ==
  /\ At(t, "idle") /\ "close" \in program.ops[t] /\ Unlocked(t) /\ ~Cl(t).closed
  /\ call' = [call EXCEPT ![t] = [NoCall EXCEPT !.op = "close", !.sock = Cl(t).sock,
                                                !.pc = "close", !.inTx = call[t].inTx]]
  /\ client' = [client EXCEPT ![ClientOf[t]].sock = NoConn]
  /\ mixed' = IF Overlap(t) THEN mixed \cup {ClientOf[t]} ELSE mixed
  /\ UNCHANGED <<program, conn, db, used, ran, shared>>

SetClosed(t) ==
  /\ At(t, "close") /\ Unlocked(t)
  /\ client' = [client EXCEPT ![ClientOf[t]].closed = TRUE]
  /\ Goto(t, IF call[t].sock = NoConn THEN "idle" ELSE "quit")
  /\ UNCHANGED <<program, conn, db, used, histories>>

SendQuit(t) ==
  /\ At(t, "quit")
  /\ LET k == call[t].sock IN
       conn' = [conn EXCEPT ![k].up = IF conn[k].link = "open" /\ conn[k].serving
                                        THEN Append(@, Frame("quit", 0)) ELSE @,
                            ![k].link = IF @ = "open" THEN "closed" ELSE @]
  /\ Goto(t, "idle")
  /\ UNCHANGED <<program, client, db, used, histories>>
-----------------------------------------------------------------------------
(* Client._reader_loop *)
Read(k) ==
  /\ conn[k].reading /\ conn[k].down # <<>>
  /\ client' = [client EXCEPT ![conn[k].of].queue = Append(@, Head(conn[k].down))]
  /\ conn' = [conn EXCEPT ![k].down = Tail(@)]
  /\ UNCHANGED <<program, call, db, used, histories>>

\* EOF, an error, or _closed; nobody is told.
ReaderEnds(k) ==
  /\ conn[k].reading
  /\ Lost(k) \/ client[conn[k].of].closed \/ conn[k].link = "closed"
  /\ conn' = [conn EXCEPT ![k].reading = FALSE]
  /\ UNCHANGED <<program, client, call, db, used, histories>>
-----------------------------------------------------------------------------
(* ServerSession *)

\* The manager ends the transaction: ROLLBACK restores the pages it logged,
\* whichever session wrote them.
Ended(d, commits) ==
  [d EXCEPT !.active = NoConn, !.undo = {}, !.rows = IF commits THEN @ ELSE @ \ d.undo]

\* _handle_frame: the frames it answers, the session's _tx and the database
\* after it; fail: the log fails while the transaction ends, or the statement.
Outcome(frames, tx, d) == [frames |-> frames, tx |-> tx, db |-> d]
HandleBegin(k, n) ==
  IF conn[k].tx \/ db.active # NoConn     \* "already active", NestedTransactionError
    THEN Outcome(<<Frame("error", n)>>, conn[k].tx, db)
    ELSE Outcome(<<Frame("done", n)>>, TRUE, [db EXCEPT !.active = k, !.undo = {}])

\* _tx is cleared before the manager is called.
HandleEnd_ClearedAfter(k, n, commits, fail) ==
  IF ~conn[k].tx THEN Outcome(<<Frame("error", n)>>, FALSE, db)
  ELSE IF fail   THEN Outcome(<<Frame("error", n)>>, TRUE, db)
  ELSE Outcome(<<Frame("done", n)>>, FALSE, Ended(db, commits))
HandleEnd(k, n, commits, fail) ==
  IF ~conn[k].tx THEN Outcome(<<Frame("error", n)>>, FALSE, db)
  ELSE IF fail   THEN Outcome(<<Frame("error", n)>>, FALSE, db)
  ELSE Outcome(<<Frame("done", n)>>, FALSE, Ended(db, commits))

\* _rows_to_frames, the RESULT_ROWs counted in with the header
RowsToFrames(kind, n) ==
  IF kind = "select" THEN <<Frame("header", n), Frame("done", n)>>
  ELSE <<Frame("done", n)>>

\* _dispatch_sql: a statement runs inside whatever transaction is active; its
\* page is noted in _logged_pages either way.  One that raises is answered with
\* an error and is taken to change nothing (Statements says where that holds).
DispatchSql(k, kind, n, fail) ==
  IF fail THEN Outcome(<<Frame("error", n)>>, conn[k].tx, db)
  ELSE Outcome(RowsToFrames(kind, n), conn[k].tx,
               IF kind = "insert" THEN [db EXCEPT !.rows = @ \cup {n}, !.undo = @ \cup {n}] ELSE db)

AutoRollback(k, fail) == IF conn[k].tx /\ ~fail THEN Ended(db, FALSE) ELSE db

Handle(k, f, fail) ==
  LET n == f.call IN
  CASE f.kind = "ping"     -> Outcome(<<Frame("pong", n)>>, conn[k].tx, db)
    [] f.kind = "hello"    -> Outcome(<<Frame("ok", n)>>, conn[k].tx, db)
    [] f.kind = "quit"     -> Outcome(<<Frame("ok", n)>>, FALSE, AutoRollback(k, fail))
    [] f.kind = "begin"    -> HandleBegin(k, n)
    [] f.kind = "commit"   -> HandleEnd(k, n, TRUE, fail)
    [] f.kind = "rollback" -> HandleEnd(k, n, FALSE, fail)
    [] OTHER -> DispatchSql(k, f.kind, n, fail)

LogFails(k, f) ==
  conn[k].tx /\ used.fails < program.fails /\ f.kind \in {"commit", "rollback", "quit"}

\* One turn of serve's loop; nothing else runs on the event loop meanwhile.
Serve(k, fail) ==
  /\ conn[k].serving /\ conn[k].up # <<>>
  /\ LET f == Head(conn[k].up)
         o == Handle(k, f, fail)
     IN  /\ fail => IF f.kind \in {"select", "insert"} THEN program.errors ELSE LogFails(k, f)
         /\ conn' = [conn EXCEPT ![k].up = Tail(@), ![k].tx = o.tx,
                                 ![k].greeted = @ \/ f.kind = "hello",
                                 ![k].serving = f.kind # "quit",
                                 ![k].down = IF conn[k].link = "open" THEN @ \o o.frames ELSE @]
         /\ db' = o.db
         /\ ran' = IF f.call = 0 THEN ran ELSE [ran EXCEPT ![f.call] = @ + 1]
         /\ shared' = IF f.kind = "insert" /\ db.active # NoConn /\ ~conn[k].tx
                        THEN shared \cup {f.call} ELSE shared
         /\ used' = IF fail /\ f.kind \notin {"select", "insert"} THEN [used EXCEPT !.fails = @ + 1] ELSE used
  /\ UNCHANGED <<program, client, call, mixed>>

\* IncompleteReadError, ConnectionError: serve returns, and its finally clause
\* rolls back.
EndSession_OnlyAtEof(k, fail) ==
  /\ conn[k].serving /\ conn[k].up = <<>> /\ conn[k].link = "closed"
  /\ fail => conn[k].tx /\ used.fails < program.fails
  /\ conn' = [conn EXCEPT ![k].serving = FALSE, ![k].tx = FALSE]
  /\ db' = AutoRollback(k, fail)
  /\ used' = IF fail THEN [used EXCEPT !.fails = @ + 1] ELSE used
  /\ UNCHANGED <<program, client, call, histories>>
EndSession(k, fail) ==
  /\ conn[k].serving /\ conn[k].up = <<>> /\ (conn[k].link = "closed" \/ Gone(k))
  /\ fail => conn[k].tx /\ used.fails < program.fails
  /\ conn' = [conn EXCEPT ![k].serving = FALSE, ![k].tx = FALSE]
  /\ db' = AutoRollback(k, fail)
  /\ used' = IF fail THEN [used EXCEPT !.fails = @ + 1] ELSE used
  /\ UNCHANGED <<program, client, call, histories>>

\* The connection breaks: what was under way arrives up to some frame.  serve
\* reads without a timeout and nothing probes the peer, so that it hears of the
\* break from the network, or not at all.
Break(k) ==
  /\ used.breaks < program.breaks /\ conn[k].link = "open" /\ conn[k].serving
  /\ used' = [used EXCEPT !.breaks = @ + 1]
  /\ \E i \in 0..Len(conn[k].up), j \in 0..Len(conn[k].down),
        link \in IF program.silent THEN {"broken", "vanished"} ELSE {"broken"} :
       conn' = [conn EXCEPT ![k].link = link, ![k].up = SubSeq(@, 1, i),
                            ![k].down = SubSeq(@, 1, j)]
  /\ UNCHANGED <<program, client, call, db, histories>>
-----------------------------------------------------------------------------
CallerStep(t) ==
  \/ TakeSocket(t) \/ TakeFails(t) \/ Reconnect(t) \/ Greeted(t) \/ NotGreeted(t)
  \/ Send(t) \/ CheckSocket(t) \/ Collect(t) \/ GiveUp(t) \/ DropSocket(t)
  \/ SetClosed(t) \/ SendQuit(t)
ServerStep(k) == \E fail \in BOOLEAN : Serve(k, fail) \/ EndSession(k, fail)

NetNext ==
  \/ \E t \in Callers :
       Execute(t) \/ EnterTransaction(t) \/ LeaveTransaction(t) \/ Close(t) \/ CallerStep(t)
  \/ \E k \in Conns : Read(k) \/ ReaderEnds(k) \/ ServerStep(k) \/ Break(k)

NetSpec == NetInit /\ [][NetNext]_netVars

\* The server's event loop goes on while a session has a frame to handle or
\* has been told that its connection is gone; nobody has to find out alone.
Told(k) == conn[k].link # "vanished" \/ conn[k].up # <<>>
NetFairness == WF_netVars(\E k \in Conns : Told(k) /\ ServerStep(k))
NetFairSpec == NetSpec /\ NetFairness
-----------------------------------------------------------------------------
\* "dispatch incoming response frames back to the caller that issued the
\* request": a call that returns an answer returns its own, whole, as long as no
\* other call on the client overlapped with it and none before it gave up
\* waiting; whatever broke.
Answer(op) == IF op = "select" THEN <<"header", "done">> ELSE IF op = "ping" THEN <<"pong">> ELSE <<"done">>
OwnAnswer ==
  \A t \in Callers :
    At(t, "idle") /\ call[t].out = "answer" /\ ClientOf[t] \notin mixed =>
      /\ \A i \in DOMAIN call[t].got : call[t].got[i].call = call[t].n
      /\ [i \in DOMAIN call[t].got |-> call[t].got[i].kind] = Answer(call[t].op)

\* "silently re-executing an INSERT/UPDATE/DELETE could double-apply the change":
\* the server runs what is not a SELECT at most once, and exactly once if the
\* caller was told it is done.
AppliedOnce ==
  \A t \in Callers :
    call[t].n # 0 /\ call[t].op # "select" =>
      /\ ran[call[t].n] <= 1
      /\ call[t].out = "answer" /\ At(t, "idle") /\ ClientOf[t] \notin mixed => ran[call[t].n] = 1

\* The open transaction belongs to a session that can still end it, unless the
\* log failed when one ended; a session that thinks it has one, has it.
TransactionOwned ==
  /\ used.fails = 0 /\ db.active # NoConn => conn[db.active].tx /\ conn[db.active].serving
  /\ \A k \in Conns : conn[k].tx => db.active = k

\* An INSERT outside a transaction that was acknowledged stays, unless it was
\* written while another session's transaction was open.
AckedRowsStay ==
  \A t \in Callers :
    At(t, "idle") /\ call[t].op = "insert" /\ call[t].out = "answer" /\ ~call[t].inTx
      /\ ClientOf[t] \notin mixed /\ call[t].n \notin shared => call[t].n \in db.rows

\* Client and server agree on whether a transaction is open: while none of its
\* calls runs, a client is inside transaction() exactly if its session has one,
\* as long as the connection stands and no call overlapped or gave up.
TransactionAgrees ==
  \A c \in Clients \ mixed :
    LET mine == {t \in Callers : ClientOf[t] = c}
        k == client[c].sock
    IN  k # NoConn /\ (\A t \in mine : At(t, "idle")) /\ conn[k].link = "open" =>
          (conn[k].tx <=> \E t \in mine : call[t].inTx)

\* Client.execute with its retry: what was acknowledged was done once, and stays.
WritesOnceAndStay == AppliedOnce /\ AckedRowsStay

\* BEGIN, COMMIT and ROLLBACK over the wire: the transaction that is open has an
\* owner, on the server and on the client.
TransactionsOwned == TransactionAgrees /\ TransactionOwned

\* "Auto-rollback any in-flight transaction": when the server has been told that
\* a connection is closed or broken, the transaction it began ends, and its
\* writes with it, so that others can begin; unless the log fails just then.  Of
\* a peer that vanished without a word nothing is said: its transaction may stay.
OrphansEnd ==
  \A k \in Conns : conn[k].link \in {"closed", "broken"} ~> (db.active # k \/ used.fails > 0)
=============================================================================
