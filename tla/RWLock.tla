------------------------------- MODULE RWLock -------------------------------
(***************************************************************************)
(* tinydb.concurrent.rwlock.RWLock: one threading.Condition, the counters  *)
(* _readers and _writers_waiting, and the owner _writer.                   *)
(*                                                                         *)
(* Everything a method does between entering "with self._cond" and either  *)
(* leaving it or calling wait() is one step.  A thread asleep in wait() is *)
(* woken by notify_all() or, when its call had a timeout, by the deadline; *)
(* it then owns the mutex again and re-evaluates its while condition,      *)
(* which is a step of its own: other threads run in between.               *)
(***************************************************************************)
EXTENDS Integers, FiniteSets

CONSTANTS
  Threads,        \* threads that share the lock
  NoThread,       \* the owner None
  PreferWriter,   \* the constructor's prefer_writer
  Timed           \* the threads whose calls pass a timeout

ASSUME ThreadsAssumption == IsFiniteSet(Threads) /\ NoThread \notin Threads
ASSUME ModeAssumption == PreferWriter \in BOOLEAN /\ Timed \subseteq Threads

VARIABLES
  readers,         \* _readers
  writer,          \* _writer
  writersWaiting,  \* _writers_waiting
  pc               \* where each thread is

vars == <<readers, writer, writersWaiting, pc>>

\* "idle": outside; "...Wait": asleep in _cond.wait(); "...Check": awake
\* again, about to re-evaluate the while condition; "reading"/"writing":
\* inside the with block of read() / write().
PcStates == {"idle", "readWait", "readCheck", "reading",
             "writeWait", "writeCheck", "writing"}

Reading         == {t \in Threads : pc[t] = "reading"}
Writing         == {t \in Threads : pc[t] = "writing"}
QueuedWriters   == {t \in Threads : pc[t] \in {"writeWait", "writeCheck"}}
SleepingReaders == {t \in Threads : pc[t] = "readWait"}
SleepingWriters == {t \in Threads : pc[t] = "writeWait"}
AwakeWriters    == {t \in Threads : pc[t] = "writeCheck"}

Init ==
  /\ readers = 0
  /\ writer = NoThread
  /\ writersWaiting = 0
  /\ pc = [t \in Threads |-> "idle"]

\* Faulty variants (suffix _...) of the definitions that follow them are what
\* each property is shown to catch; the specification does not use them.
ReadBlocked_NoPreference == writer # NoThread
ReadBlocked == writer # NoThread \/ (PreferWriter /\ writersWaiting > 0)

WriteBlocked_IgnoresReaders == writer # NoThread
WriteBlocked == readers > 0 \/ writer # NoThread

Goto(t, l) == pc' = [pc EXCEPT ![t] = l]

\* pc after notify_all(), called by t as it leaves the lock.
WakeAll(t) ==
  [u \in Threads |-> CASE u = t                  -> "idle"
                       [] pc[u] = "readWait"     -> "readCheck"
                       [] pc[u] = "writeWait"    -> "writeCheck"
                       [] OTHER                  -> pc[u]]

\* One evaluation of acquire_read's while loop: enter, sleep, or, past the
\* deadline, return False.
ReadLoop(t) ==
  /\ UNCHANGED <<writer, writersWaiting>>
  /\ \/ ~ReadBlocked /\ readers' = readers + 1 /\ Goto(t, "reading")
     \/ ReadBlocked /\ UNCHANGED readers /\ Goto(t, "readWait")
     \/ ReadBlocked /\ t \in Timed /\ UNCHANGED readers /\ Goto(t, "idle")

AcquireRead(t) == pc[t] = "idle" /\ ReadLoop(t)
RecheckRead(t) == pc[t] = "readCheck" /\ ReadLoop(t)

\* acquire_write counts itself in _writers_waiting before the loop and out
\* of it in the finally clause; waiting is the count with the caller out.
WriteLoop_TimeoutStaysCounted(t, waiting) ==
  /\ UNCHANGED readers
  /\ \/ ~WriteBlocked /\ writer' = t /\ writersWaiting' = waiting /\ Goto(t, "writing")
     \/ WriteBlocked /\ writersWaiting' = waiting + 1 /\ UNCHANGED writer
          /\ Goto(t, "writeWait")
     \/ WriteBlocked /\ t \in Timed /\ writersWaiting' = waiting + 1 /\ UNCHANGED writer
          /\ Goto(t, "idle")
WriteLoop(t, waiting) ==
  /\ UNCHANGED readers
  /\ \/ ~WriteBlocked /\ writer' = t /\ writersWaiting' = waiting /\ Goto(t, "writing")
     \/ WriteBlocked /\ writersWaiting' = waiting + 1 /\ UNCHANGED writer
          /\ Goto(t, "writeWait")
     \/ WriteBlocked /\ t \in Timed /\ writersWaiting' = waiting /\ UNCHANGED writer
          /\ Goto(t, "idle")

AcquireWrite(t) == pc[t] = "idle" /\ WriteLoop(t, writersWaiting)
RecheckWrite(t) == pc[t] = "writeCheck" /\ WriteLoop(t, writersWaiting - 1)

\* The deadline passes inside wait(remaining).
Timeout(t) ==
  /\ t \in Timed
  /\ \/ pc[t] = "readWait"  /\ Goto(t, "readCheck")
     \/ pc[t] = "writeWait" /\ Goto(t, "writeCheck")
  /\ UNCHANGED <<readers, writer, writersWaiting>>

ReleaseRead_NoNotify(t) ==
  /\ pc[t] = "reading"
  /\ readers > 0 /\ writer = NoThread
  /\ readers' = readers - 1
  /\ Goto(t, "idle")
  /\ UNCHANGED <<writer, writersWaiting>>

\* release_read: the RuntimeError branch is the negated second conjunct.
ReleaseRead(t) ==
  /\ pc[t] = "reading"
  /\ readers > 0 /\ writer = NoThread
  /\ readers' = readers - 1
  /\ IF readers = 1 THEN pc' = WakeAll(t) ELSE Goto(t, "idle")
  /\ UNCHANGED <<writer, writersWaiting>>

ReleaseWrite_HandsOver(t) ==
  /\ pc[t] = "writing"
  /\ writer = t
  /\ \/ \E u \in QueuedWriters :
          /\ writer' = u /\ writersWaiting' = writersWaiting - 1
          /\ pc' = [pc EXCEPT ![t] = "idle", ![u] = "writing"]
     \/ QueuedWriters = {} /\ writer' = NoThread /\ pc' = WakeAll(t) /\ UNCHANGED writersWaiting
  /\ UNCHANGED readers
ReleaseWrite(t) ==
  /\ pc[t] = "writing"
  /\ writer = t
  /\ writer' = NoThread
  /\ pc' = WakeAll(t)
  /\ UNCHANGED <<readers, writersWaiting>>

Next ==
  \E t \in Threads :
    \/ AcquireRead(t)  \/ RecheckRead(t)  \/ ReleaseRead(t)
    \/ AcquireWrite(t) \/ RecheckWrite(t) \/ ReleaseWrite(t)
    \/ Timeout(t)

Spec == Init /\ [][Next]_vars

\* A woken thread re-evaluates its condition and a holder leaves its block;
\* nobody is obliged to call the lock, and no deadline is obliged to pass.
Fairness ==
  \A t \in Threads :
    /\ WF_vars(RecheckRead(t)) /\ WF_vars(ReleaseRead(t))
    /\ WF_vars(RecheckWrite(t)) /\ WF_vars(ReleaseWrite(t))

FairSpec == Spec /\ Fairness
-----------------------------------------------------------------------------
TypeOK ==
  /\ readers \in Nat
  /\ writersWaiting \in Nat
  /\ writer \in Threads \cup {NoThread}
  /\ pc \in [Threads -> PcStates]

\* The counters are what they count: _readers the threads inside read(),
\* _writers_waiting the threads queued in acquire_write, _writer the thread
\* inside write().  release_read and release_write raise RuntimeError, and
\* acquire_read over- or under-blocks, as soon as this fails.
CountersAgree ==
  /\ readers = Cardinality(Reading)
  /\ writersWaiting = Cardinality(QueuedWriters)
  /\ \A t \in Threads : pc[t] = "writing" <=> writer = t

\* A thread inside write() is alone: no reader and no second writer.
MutualExclusion ==
  \A t \in Writing : Reading \cup Writing = {t}

\* While nobody holds the lock no writer is asleep, and a reader may only
\* be asleep behind a writer that is already awake: a release wakes everyone
\* who can use it, and no later step puts the last candidate to sleep.
NoLostWakeup ==
  readers = 0 /\ writer = NoThread =>
    /\ SleepingWriters = {}
    /\ SleepingReaders # {} => AwakeWriters # {}

\* "once a writer calls acquire_write subsequent readers must wait until that
\* writer has run ... avoids writer starvation": however many readers keep
\* coming, a queued writer leads to some writer holding the lock, unless its
\* own deadline sends it away.
WriterNotStarved ==
  \A t \in Threads \ Timed :
    t \in QueuedWriters ~> Writing # {}

\* acquire_read "blocks while a writer is active or ... while a writer is
\* waiting": once writers stay away and the readers inside leave now and then,
\* a waiting reader gets in.  (The second condition is for readers that sleep
\* behind a writer whose timeout expires: it leaves without notify_all, and
\* they sleep until the last reader inside has left.)
ReaderNotStarved ==
  \A t \in Threads \ Timed :
    <>[](QueuedWriters \cup Writing = {}) /\ []<>(readers = 0) =>
       (pc[t] \in {"readWait", "readCheck"} ~> pc[t] = "reading")

\* acquire_write and acquire_read: neither side starves, in the sense of the two
\* properties above.
NobodyStarves == WriterNotStarved /\ ReaderNotStarved

\* The lock is an RWLockSpec whose holders are the threads inside the blocks.
Abstract == INSTANCE RWLockSpec WITH Callers <- Threads,
              holdR <- Reading, holdW <- Writing

\* RWLock implements the promise its callers are built on: every step is an
\* entry, an exit, or invisible.
ImplementsRWLockSpec == Abstract!LockSpec
=============================================================================
