----------------------------- MODULE BufferPool -----------------------------
(***************************************************************************)
(* tinydb.storage.buffer_pool: the LRU page cache that the threads of a    *)
(* Database share.  write_page, mark_dirty, flush_all and invalidate hold  *)
(* the write side of the pool's RWLock and are one step each; fetch_page   *)
(* holds only the read side, although it reorders, evicts and admits, so   *)
(* its accesses to the cache interleave with those of other fetches.       *)
(*                                                                         *)
(* A page's content is the number of the write_page that made it.          *)
(***************************************************************************)
EXTENDS Integers, FiniteSets, Sequences

CONSTANTS
  Fetchers,    \* threads
  PoolPages,   \* page ids
  Capacity,    \* pages the cache may hold
  MaxWrites,   \* bound on write_page calls
  MaxFetches   \* bound on fetch_page calls

ASSUME PoolAssumption ==
  /\ Capacity \in Nat \ {0} /\ MaxWrites \in Nat /\ MaxFetches \in Nat
  /\ IsFiniteSet(Fetchers) /\ Fetchers # {} /\ PoolPages # {}

VARIABLES
  lru,        \* _cache: the cached pages, least recently used first ...
  copy,       \* ... and their content
  stampOf,    \* _page_lsn
  dirty,      \* _dirty
  stored,     \* the pages in the file
  lastLsn,    \* Pager.last_lsn
  fetch,      \* the fetch_page of each thread
  writeCalls, \* (history) the number of write_page calls
  newest,     \* (history) the last content written to each page
  lost,       \* (history) pages whose dirty copy was dropped
  reread,     \* (history) pages read from the file while another fetch was
              \* writing their evicted copy
  fetches     \* (bound)

poolVars == <<lru, copy, stampOf, dirty, stored, lastLsn, fetch, writeCalls, newest, lost, reread, fetches>>

\* seen: the content the call has read; victim: the entry it evicted.
NoFetch == [at |-> "out", pid |-> CHOOSE p \in PoolPages : TRUE,
            seen |-> 0, lsn |-> 0, victim |-> [pid |-> CHOOSE p \in PoolPages : TRUE, data |-> 0]]

PoolInit ==
  /\ lru = <<>> /\ copy = [p \in PoolPages |-> 0] /\ stampOf = [p \in {} |-> 0]
  /\ dirty = {} /\ stored = [p \in PoolPages |-> 0] /\ lastLsn = 0
  /\ fetch = [t \in Fetchers |-> NoFetch]
  /\ writeCalls = 0 /\ newest = [p \in PoolPages |-> 0] /\ lost = {} /\ reread = {}
  /\ fetches = 0

Cached(p) == \E i \in 1..Len(lru) : lru[i] = p
PlaceOf(p) == CHOOSE i \in 1..Len(lru) : lru[i] = p
LruWithout(p) ==                                               \* _cache.pop(pid, None)
  IF Cached(p) THEN [i \in 1..Len(lru) - 1 |-> IF i < PlaceOf(p) THEN lru[i] ELSE lru[i + 1]] ELSE lru
PoolWithout(f, p) == [q \in DOMAIN f \ {p} |-> f[q]]
PoolWith(f, p, v) == [q \in DOMAIN f \cup {p} |-> IF q = p THEN v ELSE f[q]]
MoveToEnd(p) == Append(LruWithout(p), p)
PoolInsert(p) == IF Cached(p) THEN lru ELSE Append(lru, p)    \* _cache[pid] = data

Fetching(t, at) == fetch[t].at = at
Leave(t) == fetch' = [fetch EXCEPT ![t] = NoFetch]
history == <<writeCalls, newest>>
-----------------------------------------------------------------------------
(* fetch_page, under the read side of the lock *)

\* _cache.get, and the test of the snapshot: TransactionManager hands out the
\* header's LSN, now or when the transaction began.
FetchHit(t, p) ==
  /\ Fetching(t, "out") /\ Cached(p) /\ fetches < MaxFetches
  /\ fetches' = fetches + 1
  /\ \/ fetch' = [fetch EXCEPT ![t] = [NoFetch EXCEPT !.at = "hit", !.pid = p]]
     \/ \E snapshot \in 0..lastLsn :
          LET newer == (IF p \in DOMAIN stampOf THEN stampOf[p] ELSE 0) > snapshot IN
          fetch' = [fetch EXCEPT ![t] = [NoFetch EXCEPT !.at = IF newer THEN "drop" ELSE "hit", !.pid = p]]
  /\ UNCHANGED <<lru, copy, stampOf, dirty, stored, lastLsn, history, lost, reread>>

\* move_to_end; KeyError, to the caller, if the entry is gone by now.
FetchTouch(t) ==
  LET p == fetch[t].pid IN
  /\ Fetching(t, "hit")
  /\ lru' = IF Cached(p) THEN MoveToEnd(p) ELSE lru
  /\ Leave(t)
  /\ UNCHANGED <<copy, stampOf, dirty, stored, lastLsn, history, lost, reread, fetches>>

\* Newer than the snapshot: drop the copy, dirty or not.  An eviction that has
\* popped the entry and not yet looked whether it is dirty will not write it.
Popped(p) == \E u \in Fetchers : Fetching(u, "popped") /\ fetch[u].victim.pid = p
FetchDrop(t) ==
  LET p == fetch[t].pid IN
  /\ Fetching(t, "drop")
  /\ lru' = LruWithout(p)
  /\ stampOf' = PoolWithout(stampOf, p)
  /\ dirty' = dirty \ {p}
  /\ lost' = IF p \in dirty /\ (Cached(p) \/ Popped(p)) THEN lost \cup {p} ELSE lost
  /\ fetch' = [fetch EXCEPT ![t].at = "miss"]
  /\ UNCHANGED <<copy, stored, lastLsn, history, reread, fetches>>

FetchMiss(t, p) ==
  /\ Fetching(t, "out") /\ ~Cached(p) /\ fetches < MaxFetches
  /\ fetches' = fetches + 1
  /\ fetch' = [fetch EXCEPT ![t] = [NoFetch EXCEPT !.at = "miss", !.pid = p]]
  /\ UNCHANGED <<lru, copy, stampOf, dirty, stored, lastLsn, history, lost, reread>>

\* Pager.read_page and last_lsn.
InEviction(p) == \E u \in Fetchers : fetch[u].at \in {"popped", "writing"} /\ fetch[u].victim.pid = p
FetchLoad(t) ==
  /\ Fetching(t, "miss")
  /\ fetch' = [fetch EXCEPT ![t].at = "admit", ![t].seen = stored[fetch[t].pid], ![t].lsn = lastLsn]
  /\ reread' = IF InEviction(fetch[t].pid) THEN reread \cup {fetch[t].pid} ELSE reread
  /\ UNCHANGED <<lru, copy, stampOf, dirty, stored, lastLsn, history, lost, fetches>>

Full == Len(lru) >= Capacity

\* _admit: popitem if the cache is full ...
FetchEvict(t) ==
  /\ Fetching(t, "admit")
  /\ IF Full
       THEN LET p == Head(lru) IN
            /\ lru' = Tail(lru)
            /\ fetch' = [fetch EXCEPT ![t].victim = [pid |-> p, data |-> copy[p]], ![t].at = "popped"]
       ELSE lru' = lru /\ fetch' = [fetch EXCEPT ![t].at = "insert"]
  /\ UNCHANGED <<copy, stampOf, dirty, stored, lastLsn, history, lost, reread, fetches>>

\* ... the test whether the page is dirty ...
FetchCheckDirty(t) ==
  /\ Fetching(t, "popped")
  /\ fetch' = [fetch EXCEPT ![t].at = IF fetch[t].victim.pid \in dirty THEN "writing" ELSE "forget"]
  /\ UNCHANGED <<lru, copy, stampOf, dirty, stored, lastLsn, history, lost, reread, fetches>>

\* ... the page is written back ...
FetchWriteBack_Skipped(t) ==
  /\ Fetching(t, "writing")
  /\ dirty' = dirty \ {fetch[t].victim.pid}
  /\ fetch' = [fetch EXCEPT ![t].at = "forget"]
  /\ UNCHANGED <<lru, copy, stampOf, stored, lastLsn, history, lost, reread, fetches>>
FetchWriteBack(t) ==
  LET v == fetch[t].victim IN
  /\ Fetching(t, "writing")
  /\ stored' = [stored EXCEPT ![v.pid] = v.data]
  /\ dirty' = dirty \ {v.pid}
  /\ fetch' = [fetch EXCEPT ![t].at = "forget"]
  /\ UNCHANGED <<lru, copy, stampOf, lastLsn, history, lost, reread, fetches>>

\* ... its LSN is forgotten, even if the page is cached again by now ...
FetchForget(t) ==
  /\ Fetching(t, "forget")
  /\ stampOf' = PoolWithout(stampOf, fetch[t].victim.pid)
  /\ fetch' = [fetch EXCEPT ![t].at = "insert"]
  /\ UNCHANGED <<lru, copy, dirty, stored, lastLsn, history, lost, reread, fetches>>

\* ... and the page enters the cache, whatever another fetch put there.
FetchInsert(t) ==
  LET p == fetch[t].pid IN
  /\ Fetching(t, "insert")
  /\ lru' = PoolInsert(p)
  /\ copy' = [copy EXCEPT ![p] = fetch[t].seen]
  /\ stampOf' = PoolWith(stampOf, p, fetch[t].lsn)
  /\ Leave(t)
  /\ UNCHANGED <<dirty, stored, lastLsn, history, lost, reread, fetches>>
-----------------------------------------------------------------------------
(* The calls under the write side: no fetch is running *)
Exclusive == \A t \in Fetchers : Fetching(t, "out")

\* write_page; _admit as above.
PoolWrite(p) ==
  LET evicts == ~Cached(p) /\ Full IN
  /\ Exclusive /\ writeCalls < MaxWrites
  /\ writeCalls' = writeCalls + 1
  /\ newest' = [newest EXCEPT ![p] = writeCalls + 1]
  /\ copy' = [copy EXCEPT ![p] = writeCalls + 1]
  /\ lru' = IF Cached(p) THEN MoveToEnd(p) ELSE Append(IF evicts THEN Tail(lru) ELSE lru, p)
  /\ stored' = IF evicts /\ Head(lru) \in dirty THEN [stored EXCEPT ![Head(lru)] = copy[Head(lru)]]
                                                ELSE stored
  /\ stampOf' = PoolWith(IF evicts THEN PoolWithout(stampOf, Head(lru)) ELSE stampOf, p, writeCalls + 1)
  /\ dirty' = (IF evicts THEN dirty \ {Head(lru)} ELSE dirty) \cup {p}
  /\ UNCHANGED <<lastLsn, fetch, lost, reread, fetches>>

MarkDirty(p) ==
  /\ Exclusive /\ Cached(p) /\ p \notin dirty
  /\ dirty' = dirty \cup {p}
  /\ UNCHANGED <<lru, copy, stampOf, stored, lastLsn, fetch, history, lost, reread, fetches>>

\* flush_all, after which a commit stamps the header.
FlushAll ==
  /\ Exclusive
  /\ stored' = [p \in PoolPages |-> IF Cached(p) /\ p \in dirty THEN copy[p] ELSE stored[p]]
  /\ dirty' = {p \in dirty : ~Cached(p)}
  /\ lastLsn' = writeCalls
  /\ UNCHANGED <<lru, copy, stampOf, fetch, history, lost, reread, fetches>>

Invalidate(p) ==
  /\ Exclusive /\ Cached(p)
  /\ lru' = LruWithout(p)
  /\ stampOf' = PoolWithout(stampOf, p)
  /\ dirty' = dirty \ {p}
  /\ lost' = IF p \in dirty THEN lost \cup {p} ELSE lost
  /\ UNCHANGED <<copy, stored, lastLsn, fetch, history, reread, fetches>>

PoolNext ==
  \/ \E t \in Fetchers :
       \/ \E p \in PoolPages : FetchHit(t, p) \/ FetchMiss(t, p)
       \/ FetchTouch(t) \/ FetchDrop(t) \/ FetchLoad(t) \/ FetchEvict(t)
       \/ FetchCheckDirty(t) \/ FetchWriteBack(t) \/ FetchForget(t) \/ FetchInsert(t)
  \/ \E p \in PoolPages : PoolWrite(p) \/ MarkDirty(p) \/ Invalidate(p)
  \/ FlushAll

PoolSpec == PoolInit /\ [][PoolNext]_poolVars
-----------------------------------------------------------------------------
\* "before evicting a dirty entry we flush it through to the Pager so the caller
\* never silently loses a dirty write": what was last written to a page is in
\* the cache, in the file, or on its way there; unless the copy was dropped for
\* a snapshot or by invalidate, or a fetch read the page while another one was
\* writing the evicted copy.
DirtyKept ==
  \A p \in PoolPages \ (lost \cup reread) :
    \/ Cached(p) /\ copy[p] = newest[p]
    \/ stored[p] = newest[p]
    \/ \E t \in Fetchers :
         fetch[t].at \in {"popped", "writing"} /\ fetch[t].victim = [pid |-> p, data |-> newest[p]]

\* However the fetches of several threads evict and admit, a cached copy is
\* never older than the last write to its page, with the same exceptions.
CopiesNewest == \A p \in PoolPages \ (lost \cup reread) : Cached(p) => copy[p] = newest[p]

\* "fixed-capacity": fetches that overlap may each add a page to a cache that
\* was not full for the others, but no more than that.
CacheBounded == Len(lru) <= Capacity + Cardinality(Fetchers) - 1

\* fetch_page, write_page and eviction together: no write is lost in the cache, no
\* old copy is served from it, and it stays within its size.
CacheCoherent == CopiesNewest /\ DirtyKept /\ CacheBounded
=============================================================================
