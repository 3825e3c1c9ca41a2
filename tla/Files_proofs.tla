---------------------------- MODULE Files_proofs ----------------------------
(***************************************************************************)
(* The page cache, for any threads, pages and capacity: no write is lost   *)
(* in it, no old copy is served, and it stays within its size.             *)
(*                                                                         *)
(* Processes on one database, for any processes and pages: the flock that  *)
(* WAL.append takes for itself keeps every frame, whatever lock the        *)
(* statement around it has lost by then.                                   *)
(***************************************************************************)
EXTENDS BufferPool, Processes, TLAPS

(* The page cache *)

Stages == {"out", "hit", "drop", "miss", "admit", "popped", "writing", "forget", "insert"}
Fetches == [at : Stages, pid : PoolPages, seen : Nat, lsn : Nat, victim : [pid : PoolPages, data : Nat]]

CacheTypeOK ==
  /\ lru \in Seq(PoolPages) /\ writeCalls \in Nat /\ lastLsn \in Nat
  /\ copy \in [PoolPages -> Nat] /\ stored \in [PoolPages -> Nat] /\ newest \in [PoolPages -> Nat]
  /\ fetch \in [Fetchers -> Fetches]

Exempt == lost \cup reread
Evicting(t) == fetch[t].at \in {"popped", "writing"}

\* A page that is not dirty is in the file, or a fetch is writing it there.
CleanStored ==
  \A p \in PoolPages \ Exempt :
    \/ p \in dirty \/ stored[p] = newest[p]
    \/ \E t \in Fetchers : Fetching(t, "writing") /\ fetch[t].victim.pid = p

\* What an eviction is about to write, and what a fetch has read, is the
\* newest; a fetch that has yet to read finds it in the file, or is late.
VictimsNewest ==
  \A t \in Fetchers : Evicting(t) /\ fetch[t].victim.pid \notin Exempt =>
    fetch[t].victim.data = newest[fetch[t].victim.pid]
LoadsNewest ==
  \A t \in Fetchers : fetch[t].pid \notin Exempt =>
    /\ fetch[t].at \in {"admit", "popped", "writing", "forget", "insert"} =>
         fetch[t].seen = newest[fetch[t].pid]
    /\ fetch[t].at = "miss" => stored[fetch[t].pid] = newest[fetch[t].pid] \/ InEviction(fetch[t].pid)

Somewhere == \A p \in PoolPages \ Exempt : Cached(p) \/ stored[p] = newest[p] \/ InEviction(p)

\* A fetch that has made room in the cache, or found some, has yet to fill it.
Admitting == {t \in Fetchers : fetch[t].at \in {"popped", "writing", "forget", "insert"}}
RoomLeft == Len(lru) + Cardinality(Admitting) <= Capacity + Cardinality(Fetchers) - 1

CacheOK == CopiesNewest /\ CleanStored /\ VictimsNewest /\ LoadsNewest /\ Somewhere
CacheIInv == CacheTypeOK /\ CacheOK /\ RoomLeft
-----------------------------------------------------------------------------
(* The cache as a sequence of pages *)

In(s, p) == \E i \in 1..Len(s) : s[i] = p

LEMMA CachedIn == \A p : (Cached(p) <=> In(lru, p)) /\ (Cached(p)' <=> In(lru', p))
  BY DEF Cached, In

LEMMA AppendIn ==
  ASSUME NEW S, NEW s \in Seq(S), NEW p \in S
  PROVE  /\ Append(s, p) \in Seq(S) /\ Len(Append(s, p)) = Len(s) + 1
         /\ \A q : In(Append(s, p), q) <=> In(s, q) \/ q = p
  BY DEF In

LEMMA TailIn ==
  ASSUME NEW S, NEW s \in Seq(S), Len(s) > 0
  PROVE  /\ Head(s) \in S /\ In(s, Head(s)) /\ Tail(s) \in Seq(S) /\ Len(Tail(s)) = Len(s) - 1
         /\ \A q : (In(Tail(s), q) => In(s, q)) /\ (In(s, q) => q = Head(s) \/ In(Tail(s), q))
<1>1. Head(s) = s[1] /\ Len(s) \in Nat /\ \A i \in 1..Len(s) - 1 : Tail(s)[i] = s[i + 1]
  OBVIOUS
<1>2. /\ Tail(s) \in Seq(S) /\ Len(Tail(s)) = Len(s) - 1 /\ s[1] \in S /\ 1 \in 1..Len(s)
  OBVIOUS
<1>3. ASSUME NEW q, In(Tail(s), q) PROVE In(s, q)
  BY <1>1, <1>2, <1>3 DEF In
<1>4. ASSUME NEW q, In(s, q), q # Head(s) PROVE In(Tail(s), q)
  <2>1. PICK i \in 1..Len(s) : s[i] = q
    BY <1>4 DEF In
  <2>2. i # 1 /\ i - 1 \in 1..Len(s) - 1
    BY <1>1, <1>4, <2>1
  <2> QED
    BY <1>1, <1>2, <2>1, <2>2 DEF In
<1> QED
  BY <1>1, <1>2, <1>3, <1>4 DEF In

LEMMA WithoutIn ==
  ASSUME CacheTypeOK, NEW p \in PoolPages
  PROVE  /\ LruWithout(p) \in Seq(PoolPages)
         /\ Len(LruWithout(p)) = IF Cached(p) THEN Len(lru) - 1 ELSE Len(lru)
         /\ \A q : (In(LruWithout(p), q) => In(lru, q)) /\ (In(lru, q) => q = p \/ In(LruWithout(p), q))
<1>1. CASE ~Cached(p)
  BY <1>1 DEF LruWithout, CacheTypeOK
<1>2. CASE Cached(p)
  <2> DEFINE n == Len(lru)
             k == PlaceOf(p)
             s == [i \in 1..n - 1 |-> IF i < k THEN lru[i] ELSE lru[i + 1]]
  <2>1. n \in Nat /\ lru \in Seq(PoolPages) /\ \A i \in 1..n : lru[i] \in PoolPages
    BY DEF CacheTypeOK
  <2>2. k \in 1..n /\ lru[k] = p
    BY <1>2 DEF PlaceOf, Cached
  <2>3. LruWithout(p) = s
    BY <1>2 DEF LruWithout
  <2> HIDE DEF k, n
  <2>4. s \in Seq(PoolPages) /\ Len(s) = n - 1
    <3>1. n - 1 \in Nat /\ s \in [1..n - 1 -> PoolPages]
      BY <2>1, <2>2
    <3> HIDE DEF s
    <3> QED
      BY <3>1
  <2>5. ASSUME NEW q, In(s, q) PROVE In(lru, q)
    <3>1. PICK i \in 1..n - 1 : s[i] = q
      BY Zenon, <2>4, <2>5 DEF In
    <3> QED
      BY <2>1, <3>1 DEF In, n
  <2>6. ASSUME NEW q, In(lru, q), q # p PROVE In(s, q)
    <3>1. PICK i \in 1..n : lru[i] = q
      BY <2>6 DEF In, n
    <3>2. i # k
      BY <2>2, <2>6, <3>1
    <3>3. CASE i < k
      <4>1. i \in 1..n - 1 /\ s[i] = q
        BY <2>1, <2>2, <3>1, <3>3
      <4> QED
        BY Zenon, <2>4, <4>1 DEF In
    <3>4. CASE k < i
      <4>1. i - 1 \in 1..n - 1 /\ ~(i - 1 < k) /\ (i - 1) + 1 = i
        BY <2>1, <2>2, <3>1, <3>4
      <4>2. s[i - 1] = q
        BY <3>1, <4>1
      <4> QED
        BY Zenon, <2>4, <4>1, <4>2 DEF In
    <3> QED
      BY <2>1, <2>2, <3>2, <3>3, <3>4
  <2> QED
    BY Zenon, <1>2, <2>3, <2>4, <2>5, <2>6 DEF n
<1> QED
  BY <1>1, <1>2
-----------------------------------------------------------------------------
(* What each step does *)

\* Only t's fetch moves.
OnlyMoves(t) == fetch' \in [Fetchers -> Fetches] /\ \A u \in Fetchers \ {t} : fetch'[u] = fetch[u]

LEMMA Moves ==
  ASSUME CacheTypeOK, NEW t \in Fetchers, NEW c \in Fetches, fetch' = [fetch EXCEPT ![t] = c]
  PROVE  OnlyMoves(t) /\ fetch'[t] = c
  BY DEF CacheTypeOK, OnlyMoves

LEMMA Advances ==
  ASSUME CacheTypeOK, NEW t \in Fetchers, NEW place \in Stages, fetch' = [fetch EXCEPT ![t].at = place]
  PROVE  /\ OnlyMoves(t) /\ fetch'[t].at = place /\ fetch'[t].pid = fetch[t].pid
         /\ fetch'[t].seen = fetch[t].seen /\ fetch'[t].victim = fetch[t].victim
<1> DEFINE r == fetch[t]
           c == [r EXCEPT !.at = place]
<1>1. r \in Fetches /\ fetch' = [fetch EXCEPT ![t] = c]
  BY DEF CacheTypeOK
<1> HIDE DEF r
<1>2. c \in Fetches /\ c.at = place /\ c.pid = r.pid /\ c.seen = r.seen /\ c.victim = r.victim
  BY <1>1 DEF Fetches
<1> HIDE DEF c
<1>3. OnlyMoves(t) /\ fetch'[t] = c
  BY Zenon, <1>1, <1>2, Moves
<1> QED
  BY <1>2, <1>3 DEF r

Call(place, p) == [NoFetch EXCEPT !.at = place, !.pid = p]

LEMMA NoFetchIs == NoFetch \in Fetches /\ NoFetch.at = "out"
<1>1. (CHOOSE p \in PoolPages : TRUE) \in PoolPages
  BY PoolAssumption
<1> QED
  BY Zenon, <1>1 DEF NoFetch, Fetches, Stages

LEMMA CallIs ==
  ASSUME NEW place \in Stages, NEW p \in PoolPages
  PROVE  Call(place, p) \in Fetches /\ Call(place, p).at = place /\ Call(place, p).pid = p
<1>1. (CHOOSE q \in PoolPages : TRUE) \in PoolPages
  BY PoolAssumption
<1> QED
  BY Zenon, <1>1 DEF NoFetch, Fetches, Call

kept == <<copy, stored, newest, writeCalls, lastLsn>>

\* Looking a page up moves nothing.
LEMMA LookDoes ==
  ASSUME CacheTypeOK, NEW t \in Fetchers, NEW p \in PoolPages, FetchHit(t, p) \/ FetchMiss(t, p)
  PROVE  /\ fetch[t].at = "out"
         /\ OnlyMoves(t) /\ fetch'[t].pid = p
         /\ fetch'[t].at \in {"hit", "drop"} \/ (fetch'[t].at = "miss" /\ ~Cached(p))
         /\ UNCHANGED <<lru, dirty, lost, reread, kept>>
<1>1. CASE FetchMiss(t, p)
  <2>1. Call("miss", p) \in Fetches /\ Call("miss", p).at = "miss" /\ Call("miss", p).pid = p
    BY CallIs DEF Stages
  <2>2. fetch' = [fetch EXCEPT ![t] = Call("miss", p)] /\ fetch[t].at = "out" /\ ~Cached(p)
    BY Zenon, <1>1 DEF FetchMiss, Fetching, Call
  <2>3. OnlyMoves(t) /\ fetch'[t] = Call("miss", p)
    BY Zenon, <2>1, <2>2, Moves
  <2> QED
    BY Zenon, <1>1, <2>1, <2>2, <2>3 DEF FetchMiss, kept, history
<1>2. CASE FetchHit(t, p)
  <2>1. \E place \in {"hit", "drop"} : fetch' = [fetch EXCEPT ![t] = Call(place, p)]
    BY Zenon, <1>2 DEF FetchHit, Call
  <2>2. PICK place \in {"hit", "drop"} : fetch' = [fetch EXCEPT ![t] = Call(place, p)]
    BY Zenon, <2>1
  <2>3. Call(place, p) \in Fetches /\ Call(place, p).at = place /\ Call(place, p).pid = p
    BY CallIs DEF Stages
  <2>4. OnlyMoves(t) /\ fetch'[t] = Call(place, p)
    BY Zenon, <2>2, <2>3, Moves
  <2>5. fetch[t].at = "out" /\ UNCHANGED <<lru, dirty, lost, reread, kept>>
    BY Zenon, <1>2 DEF FetchHit, Fetching, kept, history
  <2> QED
    BY Zenon, <2>3, <2>4, <2>5
<1> QED
  BY Zenon, <1>1, <1>2

\* A hit moves its page to the end, if it is still there.
LEMMA TouchDoes ==
  ASSUME CacheTypeOK, NEW t \in Fetchers, FetchTouch(t)
  PROVE  /\ fetch[t].at = "hit" /\ OnlyMoves(t) /\ fetch'[t].at = "out"
         /\ lru' \in Seq(PoolPages) /\ Len(lru') = Len(lru) /\ \A p : Cached(p)' <=> Cached(p)
         /\ UNCHANGED <<dirty, lost, reread, kept>>
<1> DEFINE p == fetch[t].pid
<1>1. p \in PoolPages /\ Len(lru) \in Nat /\ lru \in Seq(PoolPages)
  BY DEF CacheTypeOK, Fetches
<1>2. /\ fetch[t].at = "hit" /\ fetch' = [fetch EXCEPT ![t] = NoFetch]
      /\ lru' = IF Cached(p) THEN Append(LruWithout(p), p) ELSE lru
      /\ UNCHANGED <<dirty, lost, reread, kept>>
  BY DEF FetchTouch, Fetching, Leave, MoveToEnd, kept, history
<1>3. OnlyMoves(t) /\ fetch'[t].at = "out"
  BY Zenon, <1>2, Moves, NoFetchIs
<1> HIDE DEF p
<1>4. CASE ~Cached(p)
  BY <1>1, <1>2, <1>3, <1>4, CachedIn
<1>5. CASE Cached(p)
  <2> DEFINE s == LruWithout(p)
  <2>1. /\ s \in Seq(PoolPages) /\ Len(s) = Len(lru) - 1 /\ lru' = Append(s, p)
        /\ \A q : (In(s, q) => In(lru, q)) /\ (In(lru, q) => q = p \/ In(s, q))
    BY <1>1, <1>2, <1>5, WithoutIn
  <2> HIDE DEF s
  <2>2. /\ lru' \in Seq(PoolPages) /\ Len(lru') = Len(lru)
        /\ \A q : In(lru', q) <=> In(s, q) \/ q = p
    BY <1>1, <2>1, AppendIn
  <2>3. In(lru, p)
    BY <1>5, CachedIn
  <2>4. \A q : Cached(q)' <=> Cached(q)
    BY <2>1, <2>2, <2>3, CachedIn
  <2> QED
    BY <1>2, <1>3, <2>2, <2>4
<1> QED
  BY <1>4, <1>5

\* The copy that is newer than the snapshot goes; it is lost if it was dirty
\* and no eviction has seen that yet.
LEMMA DropDoes ==
  ASSUME CacheTypeOK, NEW t \in Fetchers, FetchDrop(t)
  PROVE  /\ OnlyMoves(t) /\ fetch[t].at = "drop" /\ fetch'[t].at = "miss" /\ fetch'[t].pid = fetch[t].pid
         /\ lru' \in Seq(PoolPages) /\ Len(lru') <= Len(lru)
         /\ \A p : Cached(p)' => Cached(p)
         /\ \A p : Cached(p) => p = fetch[t].pid \/ Cached(p)'
         /\ dirty' = dirty \ {fetch[t].pid}
         /\ lost' = IF fetch[t].pid \in dirty /\ (Cached(fetch[t].pid) \/ Popped(fetch[t].pid))
                      THEN lost \cup {fetch[t].pid} ELSE lost
         /\ UNCHANGED <<reread, kept>>
<1>1. /\ fetch[t].at = "drop" /\ fetch' = [fetch EXCEPT ![t].at = "miss"] /\ lru' = LruWithout(fetch[t].pid)
      /\ dirty' = dirty \ {fetch[t].pid}
      /\ lost' = IF fetch[t].pid \in dirty /\ (Cached(fetch[t].pid) \/ Popped(fetch[t].pid))
                   THEN lost \cup {fetch[t].pid} ELSE lost
      /\ UNCHANGED <<reread, kept>>
  BY DEF FetchDrop, Fetching, kept, history
<1>2. OnlyMoves(t) /\ fetch'[t].at = "miss" /\ fetch'[t].pid = fetch[t].pid
  BY Zenon, <1>1, Advances DEF Stages
<1>3. fetch[t].pid \in PoolPages /\ Len(lru) \in Nat
  BY DEF CacheTypeOK, Fetches
<1>4. /\ lru' \in Seq(PoolPages) /\ Len(lru') <= Len(lru)
      /\ \A q : (In(lru', q) => In(lru, q)) /\ (In(lru, q) => q = fetch[t].pid \/ In(lru', q))
  BY <1>1, <1>3, WithoutIn
<1>5. /\ \A p : Cached(p)' => Cached(p)
      /\ \A p : Cached(p) => p = fetch[t].pid \/ Cached(p)'
  BY Zenon, <1>4, CachedIn
<1> QED
  BY Zenon, <1>1, <1>2, <1>4, <1>5

LEMMA LoadDoes ==
  ASSUME CacheTypeOK, NEW t \in Fetchers, FetchLoad(t)
  PROVE  /\ OnlyMoves(t) /\ fetch[t].at = "miss" /\ fetch'[t].at = "admit" /\ fetch'[t].pid = fetch[t].pid
         /\ fetch'[t].seen = stored[fetch[t].pid]
         /\ reread' = IF InEviction(fetch[t].pid) THEN reread \cup {fetch[t].pid} ELSE reread
         /\ UNCHANGED <<lru, dirty, lost, kept>>
<1> DEFINE r == fetch[t]
           v == stored[r.pid]
           c == [r EXCEPT !.at = "admit", !.seen = v, !.lsn = lastLsn]
<1>1. r \in Fetches /\ fetch' = [fetch EXCEPT ![t] = c]
  BY Zenon DEF CacheTypeOK, FetchLoad
<1>2. v \in Nat /\ lastLsn \in Nat
  BY <1>1 DEF CacheTypeOK, Fetches
<1> HIDE DEF r, v
<1>3. c \in Fetches /\ c.at = "admit" /\ c.pid = r.pid /\ c.seen = v
  BY Zenon, <1>1, <1>2 DEF Fetches, Stages
<1> HIDE DEF c
<1>4. OnlyMoves(t) /\ fetch'[t] = c
  BY Zenon, <1>1, <1>3, Moves
<1>5. /\ fetch[t].at = "miss"
      /\ reread' = IF InEviction(fetch[t].pid) THEN reread \cup {fetch[t].pid} ELSE reread
      /\ UNCHANGED <<lru, dirty, lost, kept>>
  BY Zenon DEF FetchLoad, Fetching, kept, history
<1> QED
  BY <1>3, <1>4, <1>5 DEF r, v

\* popitem takes the first page, if the cache is full.
LEMMA EvictDoes ==
  ASSUME CacheTypeOK, NEW t \in Fetchers, FetchEvict(t)
  PROVE  /\ OnlyMoves(t) /\ fetch[t].at = "admit"
         /\ fetch'[t].pid = fetch[t].pid /\ fetch'[t].seen = fetch[t].seen
         /\ lru' \in Seq(PoolPages) /\ \A p : Cached(p)' => Cached(p)
         /\ \/ /\ Len(lru) < Capacity /\ lru' = lru /\ fetch'[t].at = "insert"
            \/ /\ Len(lru') = Len(lru) - 1 /\ fetch'[t].at = "popped"
               /\ Cached(fetch'[t].victim.pid) /\ fetch'[t].victim.data = copy[fetch'[t].victim.pid]
               /\ \A p : Cached(p) => p = fetch'[t].victim.pid \/ Cached(p)'
         /\ UNCHANGED <<dirty, lost, reread, kept>>
<1>0. lru \in Seq(PoolPages) /\ Len(lru) \in Nat /\ Capacity \in Nat \ {0}
  BY PoolAssumption DEF CacheTypeOK
<1>1. fetch[t].at = "admit" /\ UNCHANGED <<dirty, lost, reread, kept>>
  BY Zenon DEF FetchEvict, Fetching, kept, history
<1>2. CASE ~Full
  <2>1. lru' = lru /\ fetch' = [fetch EXCEPT ![t].at = "insert"] /\ Len(lru) < Capacity
    BY <1>0, <1>2 DEF FetchEvict, Full
  <2>2. /\ OnlyMoves(t) /\ fetch'[t].at = "insert"
        /\ fetch'[t].pid = fetch[t].pid /\ fetch'[t].seen = fetch[t].seen
    BY Zenon, <2>1, Advances DEF Stages
  <2>3. \A p : Cached(p)' => Cached(p)
    BY Zenon, <2>1, CachedIn
  <2> QED
    BY Zenon, <1>0, <1>1, <2>1, <2>2, <2>3
<1>3. CASE Full
  <2> DEFINE p == Head(lru)
             v == [pid |-> p, data |-> copy[p]]
             r == fetch[t]
             c == [r EXCEPT !.victim = v, !.at = "popped"]
  <2>1. lru' = Tail(lru) /\ fetch' = [fetch EXCEPT ![t] = c]
    BY Zenon, <1>3 DEF FetchEvict
  <2>2. /\ p \in PoolPages /\ In(lru, p) /\ lru' \in Seq(PoolPages) /\ Len(lru') = Len(lru) - 1
        /\ \A q : (In(lru', q) => In(lru, q)) /\ (In(lru, q) => q = p \/ In(lru', q))
    BY <1>0, <1>3, <2>1, TailIn DEF Full
  <2> HIDE DEF p
  <2>3. r \in Fetches /\ v \in [pid : PoolPages, data : Nat] /\ v.pid = p /\ v.data = copy[p]
    BY <2>2 DEF CacheTypeOK
  <2> HIDE DEF r, v
  <2>4. c \in Fetches /\ c.at = "popped" /\ c.pid = r.pid /\ c.seen = r.seen /\ c.victim = v
    BY Zenon, <2>3 DEF Fetches, Stages
  <2> HIDE DEF c
  <2>5. OnlyMoves(t) /\ fetch'[t] = c
    BY Zenon, <2>1, <2>4, Moves
  <2>6. Cached(p) /\ \A q : (Cached(q)' => Cached(q)) /\ (Cached(q) => q = p \/ Cached(q)')
    BY Zenon, <2>2, CachedIn
  <2>7. fetch'[t].pid = fetch[t].pid /\ fetch'[t].seen = fetch[t].seen
    BY Zenon, <2>4, <2>5 DEF r
  <2>8. fetch'[t].at = "popped" /\ fetch'[t].victim.pid = p /\ fetch'[t].victim.data = copy[p]
    BY Zenon, <2>3, <2>4, <2>5
  <2> QED
    BY Zenon, <1>1, <2>2, <2>5, <2>6, <2>7, <2>8
<1> QED
  BY <1>2, <1>3

LEMMA CheckDoes ==
  ASSUME CacheTypeOK, NEW t \in Fetchers, FetchCheckDirty(t)
  PROVE  /\ OnlyMoves(t) /\ fetch[t].at = "popped"
         /\ fetch'[t].at = IF fetch[t].victim.pid \in dirty THEN "writing" ELSE "forget"
         /\ fetch'[t].pid = fetch[t].pid /\ fetch'[t].seen = fetch[t].seen /\ fetch'[t].victim = fetch[t].victim
         /\ UNCHANGED <<lru, dirty, lost, reread, kept>>
<1> DEFINE place == IF fetch[t].victim.pid \in dirty THEN "writing" ELSE "forget"
<1>1. /\ fetch' = [fetch EXCEPT ![t].at = place] /\ place \in Stages
      /\ fetch[t].at = "popped" /\ UNCHANGED <<lru, dirty, lost, reread, kept>>
  BY Zenon DEF FetchCheckDirty, Fetching, Stages, kept, history
<1> HIDE DEF place
<1>2. /\ OnlyMoves(t) /\ fetch'[t].at = place /\ fetch'[t].pid = fetch[t].pid
      /\ fetch'[t].seen = fetch[t].seen /\ fetch'[t].victim = fetch[t].victim
  BY Zenon, <1>1, Advances
<1> QED
  BY Zenon, <1>1, <1>2 DEF place

LEMMA WriteBackDoes ==
  ASSUME CacheTypeOK, NEW t \in Fetchers, FetchWriteBack(t)
  PROVE  /\ OnlyMoves(t) /\ fetch[t].at = "writing" /\ fetch'[t].at = "forget"
         /\ fetch'[t].pid = fetch[t].pid /\ fetch'[t].seen = fetch[t].seen /\ fetch'[t].victim = fetch[t].victim
         /\ stored' \in [PoolPages -> Nat] /\ stored'[fetch[t].victim.pid] = fetch[t].victim.data
         /\ \A p \in PoolPages : p # fetch[t].victim.pid => stored'[p] = stored[p]
         /\ dirty' = dirty \ {fetch[t].victim.pid}
         /\ UNCHANGED <<lru, lost, reread, copy, newest, writeCalls, lastLsn>>
<1>1. /\ fetch' = [fetch EXCEPT ![t].at = "forget"] /\ fetch[t].at = "writing"
      /\ stored' = [stored EXCEPT ![fetch[t].victim.pid] = fetch[t].victim.data]
      /\ dirty' = dirty \ {fetch[t].victim.pid}
      /\ UNCHANGED <<lru, lost, reread, copy, newest, writeCalls, lastLsn>>
  BY Zenon DEF FetchWriteBack, Fetching, history
<1>2. /\ OnlyMoves(t) /\ fetch'[t].at = "forget" /\ fetch'[t].pid = fetch[t].pid
      /\ fetch'[t].seen = fetch[t].seen /\ fetch'[t].victim = fetch[t].victim
  BY Zenon, <1>1, Advances DEF Stages
<1>3. fetch[t].victim.pid \in PoolPages /\ fetch[t].victim.data \in Nat /\ stored \in [PoolPages -> Nat]
  BY DEF CacheTypeOK, Fetches
<1>4. /\ stored' \in [PoolPages -> Nat] /\ stored'[fetch[t].victim.pid] = fetch[t].victim.data
      /\ \A p \in PoolPages : p # fetch[t].victim.pid => stored'[p] = stored[p]
  BY <1>1, <1>3
<1> QED
  BY Zenon, <1>1, <1>2, <1>4

LEMMA ForgetDoes ==
  ASSUME CacheTypeOK, NEW t \in Fetchers, FetchForget(t)
  PROVE  /\ OnlyMoves(t) /\ fetch[t].at = "forget" /\ fetch'[t].at = "insert"
         /\ fetch'[t].pid = fetch[t].pid /\ fetch'[t].seen = fetch[t].seen
         /\ UNCHANGED <<lru, dirty, lost, reread, kept>>
<1>1. /\ fetch' = [fetch EXCEPT ![t].at = "insert"] /\ fetch[t].at = "forget"
      /\ UNCHANGED <<lru, dirty, lost, reread, kept>>
  BY Zenon DEF FetchForget, Fetching, kept, history
<1> QED
  BY Zenon, <1>1, Advances DEF Stages

LEMMA InsertDoes ==
  ASSUME CacheTypeOK, NEW t \in Fetchers, FetchInsert(t)
  PROVE  /\ OnlyMoves(t) /\ fetch[t].at = "insert" /\ fetch'[t].at = "out"
         /\ lru' \in Seq(PoolPages) /\ Len(lru') <= Len(lru) + 1
         /\ \A p : Cached(p)' <=> Cached(p) \/ p = fetch[t].pid
         /\ copy' \in [PoolPages -> Nat] /\ copy'[fetch[t].pid] = fetch[t].seen
         /\ \A p \in PoolPages : p # fetch[t].pid => copy'[p] = copy[p]
         /\ UNCHANGED <<dirty, lost, reread, stored, newest, writeCalls, lastLsn>>
<1> DEFINE p == fetch[t].pid
<1>1. /\ fetch' = [fetch EXCEPT ![t] = NoFetch] /\ fetch[t].at = "insert"
      /\ lru' = IF Cached(p) THEN lru ELSE Append(lru, p)
      /\ copy' = [copy EXCEPT ![p] = fetch[t].seen]
      /\ UNCHANGED <<dirty, lost, reread, stored, newest, writeCalls, lastLsn>>
  BY Zenon DEF FetchInsert, Fetching, Leave, PoolInsert, history
<1>2. p \in PoolPages /\ fetch[t].seen \in Nat /\ lru \in Seq(PoolPages) /\ Len(lru) \in Nat
      /\ copy \in [PoolPages -> Nat]
  BY DEF CacheTypeOK, Fetches
<1>3. OnlyMoves(t) /\ fetch'[t].at = "out"
  BY Zenon, <1>1, Moves, NoFetchIs
<1> HIDE DEF p
<1>4. /\ copy' \in [PoolPages -> Nat] /\ copy'[p] = fetch[t].seen
      /\ \A q \in PoolPages : q # p => copy'[q] = copy[q]
  BY <1>1, <1>2
<1>5. lru' \in Seq(PoolPages) /\ Len(lru') <= Len(lru) + 1 /\ \A q : Cached(q)' <=> Cached(q) \/ q = p
  <2>1. CASE Cached(p)
    BY <1>1, <1>2, <2>1, CachedIn
  <2>2. CASE ~Cached(p)
    <3>1. /\ lru' \in Seq(PoolPages) /\ Len(lru') = Len(lru) + 1
          /\ \A q : In(lru', q) <=> In(lru, q) \/ q = p
      BY <1>1, <1>2, <2>2, AppendIn
    <3> QED
      BY <1>2, <3>1, CachedIn
  <2> QED
    BY <2>1, <2>2
<1> QED
  BY Zenon, <1>1, <1>3, <1>4, <1>5 DEF p

\* write_page evicts the pages in out, at most one, to make room for p.
Writes(p, out) ==
  /\ p \notin out /\ \A q \in out : Cached(q) /\ q \in PoolPages
  /\ lru' \in Seq(PoolPages) /\ (Len(lru') <= Len(lru) \/ Len(lru') <= Capacity)
  /\ \A q : (Cached(q)' => Cached(q) \/ q = p) /\ (Cached(q) => q \in out \/ Cached(q)')
  /\ Cached(p)' /\ dirty' = (dirty \ out) \cup {p}
  /\ stored' \in [PoolPages -> Nat]
  /\ \A q \in PoolPages : stored'[q] = IF q \in out /\ q \in dirty THEN copy[q] ELSE stored[q]

LEMMA WriteDoes ==
  ASSUME CacheTypeOK, NEW p \in PoolPages, PoolWrite(p)
  PROVE  /\ Exclusive /\ \E out : Writes(p, out)
         /\ copy' \in [PoolPages -> Nat] /\ newest' \in [PoolPages -> Nat] /\ writeCalls' \in Nat
         /\ copy'[p] = newest'[p]
         /\ \A q \in PoolPages : q # p => copy'[q] = copy[q] /\ newest'[q] = newest[q]
         /\ UNCHANGED <<fetch, lost, reread, lastLsn>>
<1>0. /\ lru \in Seq(PoolPages) /\ Len(lru) \in Nat /\ Capacity \in Nat \ {0} /\ writeCalls \in Nat
      /\ copy \in [PoolPages -> Nat] /\ newest \in [PoolPages -> Nat] /\ stored \in [PoolPages -> Nat]
  BY PoolAssumption DEF CacheTypeOK
<1>1. /\ Exclusive /\ writeCalls' = writeCalls + 1 /\ UNCHANGED <<fetch, lost, reread, lastLsn>>
      /\ newest' = [newest EXCEPT ![p] = writeCalls + 1] /\ copy' = [copy EXCEPT ![p] = writeCalls + 1]
  BY Zenon DEF PoolWrite
<1>2. /\ copy' \in [PoolPages -> Nat] /\ newest' \in [PoolPages -> Nat] /\ writeCalls' \in Nat
      /\ copy'[p] = newest'[p]
      /\ \A q \in PoolPages : q # p => copy'[q] = copy[q] /\ newest'[q] = newest[q]
  BY <1>0, <1>1
<1>3. CASE Cached(p)
  <2>1. lru' = Append(LruWithout(p), p) /\ stored' = stored /\ dirty' = dirty \cup {p}
    BY Zenon, <1>3 DEF PoolWrite, MoveToEnd
  <2> DEFINE s == LruWithout(p)
  <2>2. /\ s \in Seq(PoolPages) /\ Len(s) = Len(lru) - 1
        /\ \A q : (In(s, q) => In(lru, q)) /\ (In(lru, q) => q = p \/ In(s, q))
    BY <1>3, WithoutIn
  <2> HIDE DEF s
  <2>3. /\ lru' \in Seq(PoolPages) /\ Len(lru') = Len(s) + 1
        /\ \A q : In(lru', q) <=> In(s, q) \/ q = p
    BY <2>1, <2>2, AppendIn DEF s
  <2>4. \A q : (Cached(q)' => Cached(q) \/ q = p) /\ (Cached(q) => Cached(q)') /\ Cached(p)'
    BY Zenon, <2>2, <2>3, CachedIn
  <2>5. Len(lru') <= Len(lru)
    BY <1>0, <2>2, <2>3
  <2>6. dirty' = (dirty \ {}) \cup {p}
    BY <2>1
  <2>7. Writes(p, {})
    BY <1>0, <2>1, <2>3, <2>4, <2>5, <2>6 DEF Writes
  <2> QED
    BY Zenon, <1>1, <1>2, <2>7
<1>4. CASE ~Cached(p) /\ ~Full
  <2>1. lru' = Append(lru, p) /\ stored' = stored /\ dirty' = dirty \cup {p}
    BY Zenon, <1>4 DEF PoolWrite
  <2>2. /\ lru' \in Seq(PoolPages) /\ Len(lru') = Len(lru) + 1
        /\ \A q : In(lru', q) <=> In(lru, q) \/ q = p
    BY <1>0, <2>1, AppendIn
  <2>3. \A q : (Cached(q)' => Cached(q) \/ q = p) /\ (Cached(q) => Cached(q)') /\ Cached(p)'
    BY Zenon, <2>2, CachedIn
  <2>4. Len(lru') <= Capacity
    BY <1>0, <1>4, <2>2 DEF Full
  <2>5. dirty' = (dirty \ {}) \cup {p}
    BY <2>1
  <2>6. Writes(p, {})
    BY <1>0, <2>1, <2>2, <2>3, <2>4, <2>5 DEF Writes
  <2> QED
    BY Zenon, <1>1, <1>2, <2>6
<1>5. CASE ~Cached(p) /\ Full
  <2> DEFINE h == Head(lru)
             s == Tail(lru)
  <2>1. /\ lru' = Append(s, p) /\ dirty' = (dirty \ {h}) \cup {p}
        /\ stored' = IF h \in dirty THEN [stored EXCEPT ![h] = copy[h]] ELSE stored
    BY Zenon, <1>5 DEF PoolWrite
  <2>2. /\ h \in PoolPages /\ In(lru, h) /\ s \in Seq(PoolPages) /\ Len(s) = Len(lru) - 1
        /\ \A q : (In(s, q) => In(lru, q)) /\ (In(lru, q) => q = h \/ In(s, q))
    BY <1>0, <1>5, TailIn DEF Full
  <2> HIDE DEF h, s
  <2>3. /\ lru' \in Seq(PoolPages) /\ Len(lru') = Len(s) + 1
        /\ \A q : In(lru', q) <=> In(s, q) \/ q = p
    BY <2>1, <2>2, AppendIn
  <2>4. /\ Cached(h) /\ h # p
        /\ \A q : (Cached(q)' => Cached(q) \/ q = p) /\ (Cached(q) => q \in {h} \/ Cached(q)') /\ Cached(p)'
    BY Zenon, <1>5, <2>2, <2>3, CachedIn
  <2>5. Len(lru') <= Len(lru)
    BY <1>0, <2>2, <2>3
  <2>6. /\ stored' \in [PoolPages -> Nat]
        /\ \A q \in PoolPages : stored'[q] = IF q \in {h} /\ q \in dirty THEN copy[q] ELSE stored[q]
    BY <1>0, <2>1, <2>2
  <2>7. Writes(p, {h})
    BY <2>1, <2>2, <2>3, <2>4, <2>5, <2>6 DEF Writes
  <2> QED
    BY Zenon, <1>1, <1>2, <2>7
<1> QED
  BY <1>3, <1>4, <1>5

LEMMA FlushDoes ==
  ASSUME CacheTypeOK, FlushAll
  PROVE  /\ Exclusive /\ stored' \in [PoolPages -> Nat] /\ lastLsn' \in Nat
         /\ \A p \in PoolPages : stored'[p] = IF Cached(p) /\ p \in dirty THEN copy[p] ELSE stored[p]
         /\ dirty' = {p \in dirty : ~Cached(p)}
         /\ UNCHANGED <<lru, copy, newest, writeCalls, fetch, lost, reread>>
<1>1. /\ Exclusive /\ lastLsn' = writeCalls /\ dirty' = {p \in dirty : ~Cached(p)}
      /\ stored' = [p \in PoolPages |-> IF Cached(p) /\ p \in dirty THEN copy[p] ELSE stored[p]]
      /\ UNCHANGED <<lru, copy, newest, writeCalls, fetch, lost, reread>>
  BY Zenon DEF FlushAll, history
<1> QED
  BY <1>1 DEF CacheTypeOK

LEMMA InvalidateDoes ==
  ASSUME CacheTypeOK, NEW p \in PoolPages, Invalidate(p)
  PROVE  /\ Exclusive /\ lru' \in Seq(PoolPages) /\ Len(lru') <= Len(lru)
         /\ \A q : (Cached(q)' => Cached(q)) /\ (Cached(q) => q = p \/ Cached(q)')
         /\ dirty' = dirty \ {p} /\ lost' = IF p \in dirty THEN lost \cup {p} ELSE lost
         /\ UNCHANGED <<fetch, reread, kept>>
<1>1. /\ Exclusive /\ lru' = LruWithout(p) /\ dirty' = dirty \ {p}
      /\ lost' = IF p \in dirty THEN lost \cup {p} ELSE lost
      /\ UNCHANGED <<fetch, reread, kept>>
  BY Zenon DEF Invalidate, kept, history
<1>2. Len(lru) \in Nat
  BY DEF CacheTypeOK
<1>3. /\ lru' \in Seq(PoolPages) /\ Len(lru') <= Len(lru)
      /\ \A q : (In(lru', q) => In(lru, q)) /\ (In(lru, q) => q = p \/ In(lru', q))
  BY <1>1, <1>2, WithoutIn
<1>4. \A q : (Cached(q)' => Cached(q)) /\ (Cached(q) => q = p \/ Cached(q)')
  BY Zenon, <1>3, CachedIn
<1> QED
  BY Zenon, <1>1, <1>3, <1>4

-----------------------------------------------------------------------------
(* The invariant *)

LEMMA CacheTypeKept == CacheTypeOK /\ PoolNext => CacheTypeOK'
<1> SUFFICES ASSUME CacheTypeOK, PoolNext PROVE CacheTypeOK'
  OBVIOUS
<1>1. ASSUME NEW t \in Fetchers, NEW p \in PoolPages, FetchHit(t, p) \/ FetchMiss(t, p) PROVE CacheTypeOK'
  BY Zenon, <1>1, LookDoes DEF CacheTypeOK, OnlyMoves, kept
<1>2. ASSUME NEW t \in Fetchers, FetchTouch(t) PROVE CacheTypeOK'
  BY Zenon, <1>2, TouchDoes DEF CacheTypeOK, OnlyMoves, kept
<1>3. ASSUME NEW t \in Fetchers, FetchDrop(t) PROVE CacheTypeOK'
  BY Zenon, <1>3, DropDoes DEF CacheTypeOK, OnlyMoves, kept
<1>4. ASSUME NEW t \in Fetchers, FetchLoad(t) PROVE CacheTypeOK'
  BY Zenon, <1>4, LoadDoes DEF CacheTypeOK, OnlyMoves, kept
<1>5. ASSUME NEW t \in Fetchers, FetchEvict(t) PROVE CacheTypeOK'
  BY Zenon, <1>5, EvictDoes DEF CacheTypeOK, OnlyMoves, kept
<1>6. ASSUME NEW t \in Fetchers, FetchCheckDirty(t) PROVE CacheTypeOK'
  BY Zenon, <1>6, CheckDoes DEF CacheTypeOK, OnlyMoves, kept
<1>7. ASSUME NEW t \in Fetchers, FetchWriteBack(t) PROVE CacheTypeOK'
  BY Zenon, <1>7, WriteBackDoes DEF CacheTypeOK, OnlyMoves
<1>8. ASSUME NEW t \in Fetchers, FetchForget(t) PROVE CacheTypeOK'
  BY Zenon, <1>8, ForgetDoes DEF CacheTypeOK, OnlyMoves, kept
<1>9. ASSUME NEW t \in Fetchers, FetchInsert(t) PROVE CacheTypeOK'
  BY Zenon, <1>9, InsertDoes DEF CacheTypeOK, OnlyMoves
<1>10. ASSUME NEW p \in PoolPages, PoolWrite(p) PROVE CacheTypeOK'
  BY Zenon, <1>10, WriteDoes DEF CacheTypeOK, Writes
<1>11. ASSUME NEW p \in PoolPages, MarkDirty(p) PROVE CacheTypeOK'
  BY Zenon, <1>11 DEF CacheTypeOK, MarkDirty, history
<1>12. ASSUME NEW p \in PoolPages, Invalidate(p) PROVE CacheTypeOK'
  BY Zenon, <1>12, InvalidateDoes DEF CacheTypeOK, kept
<1>13. CASE FlushAll
  BY Zenon, <1>13, FlushDoes DEF CacheTypeOK
<1> QED
  BY <1>1, <1>2, <1>3, <1>4, <1>5, <1>6, <1>7, <1>8, <1>9, <1>10, <1>11, <1>12, <1>13 DEF PoolNext

LEMMA FetchPages ==
  CacheTypeOK => \A u \in Fetchers : fetch[u].pid \in PoolPages /\ fetch[u].victim.pid \in PoolPages
  BY DEF CacheTypeOK, Fetches

LEMMA LookKeeps ==
  ASSUME CacheTypeOK, CacheOK, NEW t \in Fetchers, NEW p \in PoolPages, FetchHit(t, p) \/ FetchMiss(t, p)
  PROVE  CacheOK'
<1>0. /\ fetch[t].at = "out" /\ OnlyMoves(t) /\ fetch'[t].pid = p
      /\ fetch'[t].at \in {"hit", "drop"} \/ (fetch'[t].at = "miss" /\ ~Cached(p))
      /\ UNCHANGED <<lru, dirty, lost, reread, kept>>
  BY Zenon, LookDoes
<1>1. CopiesNewest'
  BY <1>0 DEF CacheOK, CopiesNewest, kept, Cached
<1>2. CleanStored'
  BY <1>0 DEF CacheOK, CleanStored, kept, OnlyMoves, Exempt, Fetching
<1>3. VictimsNewest'
  BY <1>0 DEF CacheOK, VictimsNewest, kept, OnlyMoves, Exempt, Evicting
<1>4. LoadsNewest'
  BY <1>0 DEF CacheOK, LoadsNewest, Somewhere, kept, OnlyMoves, Exempt, InEviction
<1>5. Somewhere'
  BY <1>0 DEF CacheOK, Somewhere, kept, OnlyMoves, Exempt, InEviction, Cached
<1> QED
  BY <1>1, <1>2, <1>3, <1>4, <1>5 DEF CacheOK

LEMMA TouchKeeps ==
  ASSUME CacheTypeOK, CacheOK, NEW t \in Fetchers, FetchTouch(t)
  PROVE  CacheOK'
<1>0. /\ fetch[t].at = "hit" /\ OnlyMoves(t) /\ fetch'[t].at = "out" /\ \A p : Cached(p)' <=> Cached(p)
      /\ UNCHANGED <<dirty, lost, reread, kept>>
  BY Zenon, TouchDoes
<1>1. CopiesNewest'
  BY <1>0 DEF CacheOK, CopiesNewest, kept
<1>2. CleanStored'
  BY <1>0 DEF CacheOK, CleanStored, kept, OnlyMoves, Exempt, Fetching
<1>3. VictimsNewest'
  BY <1>0 DEF CacheOK, VictimsNewest, kept, OnlyMoves, Exempt, Evicting
<1>4. LoadsNewest'
  BY <1>0 DEF CacheOK, LoadsNewest, kept, OnlyMoves, Exempt, InEviction
<1>5. Somewhere'
  BY <1>0 DEF CacheOK, Somewhere, kept, OnlyMoves, Exempt, InEviction
<1> QED
  BY <1>1, <1>2, <1>3, <1>4, <1>5 DEF CacheOK

LEMMA DropKeeps ==
  ASSUME CacheTypeOK, CacheOK, NEW t \in Fetchers, FetchDrop(t)
  PROVE  CacheOK'
<1>0. /\ OnlyMoves(t) /\ fetch[t].at = "drop" /\ fetch'[t].at = "miss" /\ fetch'[t].pid = fetch[t].pid
      /\ \A p : Cached(p)' => Cached(p)
      /\ \A p : Cached(p) => p = fetch[t].pid \/ Cached(p)'
      /\ dirty' = dirty \ {fetch[t].pid}
      /\ lost' = IF fetch[t].pid \in dirty /\ (Cached(fetch[t].pid) \/ Popped(fetch[t].pid))
                   THEN lost \cup {fetch[t].pid} ELSE lost
      /\ fetch[t].pid \in PoolPages /\ UNCHANGED <<reread, kept>>
  BY Zenon, DropDoes, FetchPages
<1>1. CopiesNewest'
  BY <1>0 DEF CacheOK, CopiesNewest, kept
<1>2. CleanStored'
  BY <1>0 DEF CacheOK, CleanStored, Somewhere, kept, OnlyMoves, Exempt, Fetching, InEviction, Popped
<1>3. VictimsNewest'
  BY <1>0 DEF CacheOK, VictimsNewest, kept, OnlyMoves, Exempt, Evicting
<1>4. LoadsNewest'
  BY <1>0 DEF CacheOK, LoadsNewest, CleanStored, Somewhere, kept, OnlyMoves, Exempt, Fetching, InEviction, Popped
<1>5. Somewhere'
  BY <1>0 DEF CacheOK, Somewhere, CleanStored, kept, OnlyMoves, Exempt, InEviction, Fetching, Popped
<1> QED
  BY <1>1, <1>2, <1>3, <1>4, <1>5 DEF CacheOK

LEMMA LoadKeeps ==
  ASSUME CacheTypeOK, CacheOK, NEW t \in Fetchers, FetchLoad(t)
  PROVE  CacheOK'
<1>0. /\ OnlyMoves(t) /\ fetch[t].at = "miss" /\ fetch'[t].at = "admit" /\ fetch'[t].pid = fetch[t].pid
      /\ fetch'[t].seen = stored[fetch[t].pid]
      /\ reread' = IF InEviction(fetch[t].pid) THEN reread \cup {fetch[t].pid} ELSE reread
      /\ UNCHANGED <<lru, dirty, lost, kept>>
  BY Zenon, LoadDoes
<1>1. CopiesNewest'
  BY <1>0 DEF CacheOK, CopiesNewest, kept, Cached
<1>2. CleanStored'
  BY <1>0 DEF CacheOK, CleanStored, kept, OnlyMoves, Exempt, Fetching
<1>3. VictimsNewest'
  BY <1>0 DEF CacheOK, VictimsNewest, kept, OnlyMoves, Exempt, Evicting
<1>4. LoadsNewest'
  BY <1>0 DEF CacheOK, LoadsNewest, kept, OnlyMoves, Exempt, InEviction
<1>5. Somewhere'
  BY <1>0 DEF CacheOK, Somewhere, kept, OnlyMoves, Exempt, InEviction, Cached
<1> QED
  BY <1>1, <1>2, <1>3, <1>4, <1>5 DEF CacheOK

LEMMA EvictKeeps ==
  ASSUME CacheTypeOK, CacheOK, NEW t \in Fetchers, FetchEvict(t)
  PROVE  CacheOK'
<1>0. /\ OnlyMoves(t) /\ fetch[t].at = "admit"
      /\ fetch'[t].pid = fetch[t].pid /\ fetch'[t].seen = fetch[t].seen /\ \A p : Cached(p)' => Cached(p)
      /\ \/ lru' = lru /\ fetch'[t].at = "insert"
         \/ /\ fetch'[t].at = "popped"
            /\ Cached(fetch'[t].victim.pid) /\ fetch'[t].victim.data = copy[fetch'[t].victim.pid]
            /\ \A p : Cached(p) => p = fetch'[t].victim.pid \/ Cached(p)'
      /\ UNCHANGED <<dirty, lost, reread, kept>>
  BY Zenon, EvictDoes
<1>a. fetch'[t].victim.pid \in PoolPages
  BY <1>0 DEF OnlyMoves, Fetches
<1>1. CopiesNewest'
  BY <1>0 DEF CacheOK, CopiesNewest, kept
<1>2. CleanStored'
  BY <1>0 DEF CacheOK, CleanStored, kept, OnlyMoves, Exempt, Fetching
<1>3. VictimsNewest'
  BY <1>0, <1>a DEF CacheOK, VictimsNewest, CopiesNewest, kept, OnlyMoves, Exempt, Evicting
<1>4. LoadsNewest'
  BY <1>0 DEF CacheOK, LoadsNewest, kept, OnlyMoves, Exempt, InEviction
<1>5. Somewhere'
  BY <1>0, CachedIn DEF CacheOK, Somewhere, kept, OnlyMoves, Exempt, InEviction
<1> QED
  BY <1>1, <1>2, <1>3, <1>4, <1>5 DEF CacheOK

LEMMA CheckKeeps ==
  ASSUME CacheTypeOK, CacheOK, NEW t \in Fetchers, FetchCheckDirty(t)
  PROVE  CacheOK'
<1>0. /\ OnlyMoves(t) /\ fetch[t].at = "popped"
      /\ fetch'[t].at = IF fetch[t].victim.pid \in dirty THEN "writing" ELSE "forget"
      /\ fetch'[t].pid = fetch[t].pid /\ fetch'[t].seen = fetch[t].seen /\ fetch'[t].victim = fetch[t].victim
      /\ UNCHANGED <<lru, dirty, lost, reread, kept>>
  BY Zenon, CheckDoes
<1>1. CopiesNewest'
  BY <1>0 DEF CacheOK, CopiesNewest, kept, Cached
<1>2. CleanStored'
  BY <1>0 DEF CacheOK, CleanStored, kept, OnlyMoves, Exempt, Fetching
<1>3. VictimsNewest'
  BY <1>0 DEF CacheOK, VictimsNewest, kept, OnlyMoves, Exempt, Evicting
<1>a. ASSUME NEW p \in PoolPages \ Exempt, InEviction(p) PROVE stored[p] = newest[p] \/ InEviction(p)'
  BY <1>0, <1>a DEF CacheOK, CleanStored, OnlyMoves, InEviction, Fetching
<1>4. LoadsNewest'
  BY <1>0, <1>a, FetchPages DEF CacheOK, LoadsNewest, kept, OnlyMoves, Exempt
<1>5. Somewhere'
  BY <1>0, <1>a, CachedIn DEF CacheOK, Somewhere, kept, Exempt
<1> QED
  BY <1>1, <1>2, <1>3, <1>4, <1>5 DEF CacheOK

LEMMA WriteBackKeeps ==
  ASSUME CacheTypeOK, CacheOK, NEW t \in Fetchers, FetchWriteBack(t)
  PROVE  CacheOK'
<1>0. /\ OnlyMoves(t) /\ fetch[t].at = "writing" /\ fetch'[t].at = "forget"
      /\ fetch'[t].pid = fetch[t].pid /\ fetch'[t].seen = fetch[t].seen /\ fetch'[t].victim = fetch[t].victim
      /\ stored'[fetch[t].victim.pid] = fetch[t].victim.data
      /\ \A p \in PoolPages : p # fetch[t].victim.pid => stored'[p] = stored[p]
      /\ dirty' = dirty \ {fetch[t].victim.pid}
      /\ UNCHANGED <<lru, lost, reread, copy, newest>>
  BY Zenon, WriteBackDoes
<1>a. \A p \in PoolPages \ Exempt : /\ stored[p] = newest[p] => stored'[p] = newest'[p]
                                    /\ p = fetch[t].victim.pid => stored'[p] = newest'[p]
  BY <1>0 DEF CacheOK, VictimsNewest, Evicting
<1>b. \A p \in PoolPages \ Exempt :
        stored[p] = newest[p] \/ InEviction(p) => stored'[p] = newest'[p] \/ InEviction(p)'
  BY <1>0, <1>a DEF OnlyMoves, InEviction
<1>1. CopiesNewest'
  BY <1>0 DEF CacheOK, CopiesNewest, Cached
<1>2. CleanStored'
  BY <1>0, <1>a DEF CacheOK, CleanStored, OnlyMoves, Exempt, Fetching
<1>3. VictimsNewest'
  BY <1>0 DEF CacheOK, VictimsNewest, OnlyMoves, Exempt, Evicting
<1>4. LoadsNewest'
  BY <1>0, <1>b, FetchPages DEF CacheOK, LoadsNewest, OnlyMoves, Exempt
<1>5. Somewhere'
  BY <1>0, <1>b, CachedIn DEF CacheOK, Somewhere, Exempt
<1> QED
  BY <1>1, <1>2, <1>3, <1>4, <1>5 DEF CacheOK

LEMMA ForgetKeeps ==
  ASSUME CacheTypeOK, CacheOK, NEW t \in Fetchers, FetchForget(t)
  PROVE  CacheOK'
<1>0. /\ OnlyMoves(t) /\ fetch[t].at = "forget" /\ fetch'[t].at = "insert"
      /\ fetch'[t].pid = fetch[t].pid /\ fetch'[t].seen = fetch[t].seen
      /\ UNCHANGED <<lru, dirty, lost, reread, kept>>
  BY Zenon, ForgetDoes
<1>1. CopiesNewest'
  BY <1>0 DEF CacheOK, CopiesNewest, kept, Cached
<1>2. CleanStored'
  BY <1>0 DEF CacheOK, CleanStored, kept, OnlyMoves, Exempt, Fetching
<1>3. VictimsNewest'
  BY <1>0 DEF CacheOK, VictimsNewest, kept, OnlyMoves, Exempt, Evicting
<1>4. LoadsNewest'
  BY <1>0 DEF CacheOK, LoadsNewest, kept, OnlyMoves, Exempt, InEviction
<1>5. Somewhere'
  BY <1>0 DEF CacheOK, Somewhere, kept, OnlyMoves, Exempt, InEviction, Cached
<1> QED
  BY <1>1, <1>2, <1>3, <1>4, <1>5 DEF CacheOK

LEMMA InsertKeeps ==
  ASSUME CacheTypeOK, CacheOK, NEW t \in Fetchers, FetchInsert(t)
  PROVE  CacheOK'
<1>0. /\ OnlyMoves(t) /\ fetch[t].at = "insert" /\ fetch'[t].at = "out"
      /\ \A p : Cached(p)' <=> Cached(p) \/ p = fetch[t].pid
      /\ copy'[fetch[t].pid] = fetch[t].seen
      /\ \A p \in PoolPages : p # fetch[t].pid => copy'[p] = copy[p]
      /\ UNCHANGED <<dirty, lost, reread, stored, newest>>
  BY Zenon, InsertDoes
<1>1. CopiesNewest'
  BY <1>0 DEF CacheOK, CopiesNewest, LoadsNewest, Exempt
<1>2. CleanStored'
  BY <1>0 DEF CacheOK, CleanStored, OnlyMoves, Exempt, Fetching
<1>3. VictimsNewest'
  BY <1>0 DEF CacheOK, VictimsNewest, OnlyMoves, Exempt, Evicting
<1>4. LoadsNewest'
  BY <1>0 DEF CacheOK, LoadsNewest, OnlyMoves, Exempt, InEviction
<1>5. Somewhere'
  BY <1>0 DEF CacheOK, Somewhere, OnlyMoves, Exempt, InEviction
<1> QED
  BY <1>1, <1>2, <1>3, <1>4, <1>5 DEF CacheOK

\* While no fetch runs, nothing is on its way.
LEMMA NoneRunning ==
  ASSUME Exclusive
  PROVE  /\ \A p : ~InEviction(p) /\ ~ \E t \in Fetchers : Fetching(t, "writing") /\ fetch[t].victim.pid = p
         /\ fetch' = fetch => /\ VictimsNewest' /\ LoadsNewest' /\ Admitting' = {}
                              /\ \A t \in Fetchers : fetch'[t].at = "out"
<1>1. \A t \in Fetchers : fetch[t].at = "out"
  BY DEF Exclusive, Fetching
<1> QED
  BY <1>1 DEF InEviction, Fetching, VictimsNewest, LoadsNewest, Evicting, Admitting

LEMMA WriteKeeps ==
  ASSUME CacheTypeOK, CacheOK, NEW p \in PoolPages, PoolWrite(p)
  PROVE  CacheOK'
<1>0. /\ copy'[p] = newest'[p]
      /\ \A q \in PoolPages : q # p => copy'[q] = copy[q] /\ newest'[q] = newest[q]
      /\ UNCHANGED <<fetch, lost, reread>>
  BY Zenon, WriteDoes
<1>1. /\ \A q : ~InEviction(q) /\ ~ \E t \in Fetchers : Fetching(t, "writing") /\ fetch[t].victim.pid = q
      /\ VictimsNewest' /\ LoadsNewest'
  BY Zenon, <1>0, WriteDoes, NoneRunning
<1>2. PICK out : Writes(p, out)
  BY Zenon, WriteDoes
<1>3. CopiesNewest'
  BY <1>0, <1>2 DEF CacheOK, CopiesNewest, Writes
<1>4. \A q \in PoolPages \ Exempt : q \notin dirty => stored[q] = newest[q]
  BY <1>1 DEF CacheOK, CleanStored
<1>5. \A q \in PoolPages \ Exempt : q \in out => stored'[q] = newest[q]
  BY <1>2, <1>4 DEF CacheOK, CopiesNewest, Writes, Exempt
<1>6. CleanStored'
  BY <1>0, <1>2, <1>4, <1>5 DEF CleanStored, Writes, Exempt
<1>7. Somewhere'
  <2>1. \A q \in PoolPages \ Exempt : Cached(q) \/ stored[q] = newest[q]
    BY <1>1 DEF CacheOK, Somewhere
  <2>2. ASSUME NEW q \in PoolPages \ Exempt PROVE Cached(q)' \/ stored'[q] = newest'[q]
    BY <1>0, <1>2, <1>5, <2>1 DEF Writes
  <2> QED
    BY Zenon, <1>0, <2>2 DEF Somewhere, Exempt
<1> QED
  BY <1>1, <1>3, <1>6, <1>7 DEF CacheOK

LEMMA MarkKeeps ==
  ASSUME CacheTypeOK, CacheOK, NEW p \in PoolPages, MarkDirty(p)
  PROVE  CacheOK'
<1>0. /\ dirty' = dirty \cup {p} /\ UNCHANGED <<lru, fetch, lost, reread, copy, stored, newest>>
  BY Zenon DEF MarkDirty, history
<1>1. CopiesNewest'
  BY <1>0 DEF CacheOK, CopiesNewest, Cached
<1>2. CleanStored'
  BY <1>0 DEF CacheOK, CleanStored, Exempt, Fetching
<1>3. VictimsNewest'
  BY <1>0 DEF CacheOK, VictimsNewest, Exempt, Evicting
<1>4. LoadsNewest'
  BY <1>0 DEF CacheOK, LoadsNewest, Exempt, InEviction
<1>5. Somewhere'
  BY <1>0 DEF CacheOK, Somewhere, Exempt, InEviction, Cached
<1> QED
  BY <1>1, <1>2, <1>3, <1>4, <1>5 DEF CacheOK

LEMMA InvalidateKeeps ==
  ASSUME CacheTypeOK, CacheOK, NEW p \in PoolPages, Invalidate(p)
  PROVE  CacheOK'
<1>0. /\ Exclusive /\ \A q : (Cached(q)' => Cached(q)) /\ (Cached(q) => q = p \/ Cached(q)')
      /\ dirty' = dirty \ {p} /\ lost' = IF p \in dirty THEN lost \cup {p} ELSE lost
      /\ UNCHANGED <<fetch, reread, kept>>
  BY Zenon, InvalidateDoes
<1>a. /\ \A q : ~InEviction(q) /\ ~ \E t \in Fetchers : Fetching(t, "writing") /\ fetch[t].victim.pid = q
      /\ VictimsNewest' /\ LoadsNewest'
  BY Zenon, <1>0, NoneRunning
<1>b. \A q \in PoolPages \ Exempt : /\ q \notin dirty => stored[q] = newest[q]
                                    /\ Cached(q) \/ stored[q] = newest[q]
  BY <1>a DEF CacheOK, CleanStored, Somewhere
<1>1. CopiesNewest'
  BY <1>0 DEF CacheOK, CopiesNewest, kept
<1>2. CleanStored'
  BY <1>0, <1>b DEF CleanStored, Exempt, kept
<1>3. VictimsNewest'
  BY <1>a
<1>4. LoadsNewest'
  BY <1>a
<1>5. Somewhere'
  BY <1>0, <1>b DEF Somewhere, Exempt, kept
<1> QED
  BY <1>1, <1>2, <1>3, <1>4, <1>5 DEF CacheOK

LEMMA FlushKeeps ==
  ASSUME CacheTypeOK, CacheOK, FlushAll
  PROVE  CacheOK'
<1>0. /\ Exclusive /\ dirty' = {p \in dirty : ~Cached(p)}
      /\ \A p \in PoolPages : stored'[p] = IF Cached(p) /\ p \in dirty THEN copy[p] ELSE stored[p]
      /\ UNCHANGED <<lru, copy, newest, fetch, lost, reread>>
  BY Zenon, FlushDoes
<1>a. /\ \A q : ~InEviction(q) /\ ~ \E t \in Fetchers : Fetching(t, "writing") /\ fetch[t].victim.pid = q
      /\ VictimsNewest' /\ LoadsNewest'
  BY Zenon, <1>0, NoneRunning
<1>b. \A q \in PoolPages \ Exempt : /\ q \notin dirty => stored[q] = newest[q]
                                    /\ Cached(q) \/ stored[q] = newest[q]
  BY <1>a DEF CacheOK, CleanStored, Somewhere
<1>1. CopiesNewest'
  BY <1>0 DEF CacheOK, CopiesNewest, Cached
<1>2. CleanStored'
  BY <1>0, <1>b DEF CacheOK, CopiesNewest, CleanStored, Exempt
<1>3. VictimsNewest'
  BY <1>a
<1>4. LoadsNewest'
  BY <1>a
<1>5. Somewhere'
  BY <1>0, <1>b, CachedIn DEF CacheOK, CopiesNewest, Somewhere, Exempt
<1> QED
  BY <1>1, <1>2, <1>3, <1>4, <1>5 DEF CacheOK
-----------------------------------------------------------------------------
(* Processes on one database *)

Seens == UNION {[D -> SUBSET (1..MaxCalls)] : D \in SUBSET Pages}
Locals == [todo : SUBSET Pages, page : Pages \cup {NoLocals.page}, img : SUBSET (1..MaxCalls),
           row : 0..MaxCalls, seen : Seens, end : Nat]

\* The locals of an INSERT on its way to a page.
LocalsOK ==
  /\ loc \in [Procs -> Locals]
  /\ nextLsn \in [Procs -> Nat \ {0}] /\ cached \in [Procs -> Nat]
  /\ \A p \in Procs :
       /\ at[p] \in {"insert", "append", "frame", "write"} => loc[p].row \in 1..calls
       /\ at[p] \in {"append", "frame", "write"} =>
            loc[p].page \in Pages /\ loc[p].img \subseteq 1..calls

\* flock(2), and the place a running append has seeked to.
LocksOK ==
  /\ \A p, q \in Procs : flock[p] = "ex" /\ q # p => flock[q] = "none"
  /\ \A p \in Procs : at[p] \in {"frame", "lastframe"} =>
       flock[p] = "ex" /\ loc[p].end = Len(wal)

\* Each process numbers its own frames upwards.
FramesOK ==
  /\ \A i \in DOMAIN wal : wal[i].lsn < nextLsn[wal[i].proc]
  /\ \A i, j \in DOMAIN wal : wal[i] = wal[j] => i = j
  /\ \A f \in appended : \E i \in DOMAIN wal : wal[i] = f

\* A committer's header is behind the record it is about to stamp.
StampsOK ==
  \A p \in Procs :
    /\ at[p] \in {"commit", "lastframe", "stamp"} => p \in Committers
    /\ cached[p] < nextLsn[p]
    /\ at[p] = "stamp" => cached[p] < nextLsn[p] - 1

\* What a process has cached is the LSN of a frame of its own, and the header
\* holds what some process has cached.
HeaderOK ==
  /\ \A p \in Procs :
       /\ cached[p] = 0 \/ [proc |-> p, lsn |-> cached[p]] \in appended
       /\ at[p] = "stamp" => [proc |-> p, lsn |-> nextLsn[p] - 1] \in appended
       /\ p \notin Committers => cached[p] = 0
  /\ header = 0 \/ \E p \in Procs : header = cached[p]

ProcIInv == ProcTypeOK /\ LocalsOK /\ LocksOK /\ FramesOK /\ StampsOK /\ HeaderOK

\* The new database: no locks, no frames.
LEMMA InitProcIInv == ProcInit => ProcIInv
<1> SUFFICES ASSUME ProcInit PROVE ProcIInv
  OBVIOUS
<1>1. NoLocals \in Locals
  <2>1. NoRows \in [{} -> SUBSET (1..MaxCalls)]
    BY DEF NoRows
  <2>2. NoRows \in Seens
    BY <2>1 DEF Seens
  <2> QED
    BY <2>2, MaxCallsAssumption DEF NoLocals, Locals
<1>2. ProcTypeOK
  BY MaxCallsAssumption DEF ProcInit, ProcTypeOK
<1>3. LocalsOK
  BY <1>1 DEF ProcInit, LocalsOK
<1>4. LocksOK /\ FramesOK
  BY DEF ProcInit, LocksOK, FramesOK
<1>5. StampsOK /\ HeaderOK
  BY DEF ProcInit, StampsOK, HeaderOK, Procs
<1> QED
  BY <1>2, <1>3, <1>4, <1>5 DEF ProcIInv

\* Every step leaves a function of the processes one, changed at p at most.
LEMMA LocalsMove ==
  ASSUME ProcTypeOK, LocalsOK, NEW p \in Procs, ProcStep(p)
  PROVE  /\ loc' \in [Procs -> Locals] /\ \A q \in Procs \ {p} : loc'[q] = loc[q]
         /\ at' \in [Procs -> {"idle", "insert", "append", "frame", "write", "commit",
                               "lastframe", "stamp", "select", "closed"}]
         /\ \A q \in Procs \ {p} : at'[q] = at[q]
         /\ flock' \in [Procs -> {"none", "sh", "ex"}] /\ \A q \in Procs \ {p} : flock'[q] = flock[q]
         /\ calls' \in 0..MaxCalls /\ calls <= calls'
<1>0. /\ loc \in [Procs -> Locals]
      /\ flock \in [Procs -> {"none", "sh", "ex"}] /\ calls \in 0..MaxCalls
      /\ at \in [Procs -> {"idle", "insert", "append", "frame", "write", "commit",
                           "lastframe", "stamp", "select", "closed"}]
  BY DEF ProcTypeOK, LocalsOK
<1>1. NoLocals \in Locals
  <2>1. NoRows \in [{} -> SUBSET (1..MaxCalls)]
    BY DEF NoRows
  <2>2. NoRows \in Seens
    BY SMTT(20), Z3T(20), <2>1 DEF Seens
  <2> QED
    BY <2>2, MaxCallsAssumption DEF NoLocals, Locals
<1>2. /\ at' \in [Procs -> {"idle", "insert", "append", "frame", "write", "commit",
                            "lastframe", "stamp", "select", "closed"}]
      /\ \A q \in Procs \ {p} : at'[q] = at[q]
  BY Zenon, <1>0 DEF ProcStep, ProcGoto, ExecuteInsert, WritePage, FinishInsert, AppendLock, AppendWrite,
     Commit, StampHeader, ExecuteSelect, FinishSelect, ReadPage, ScanPage, Close
<1>3. /\ flock' \in [Procs -> {"none", "sh", "ex"}] /\ \A q \in Procs \ {p} : flock'[q] = flock[q]
  BY Zenon, <1>0 DEF ProcStep, LockEx, LockSh, Unlock, ExecuteInsert, WritePage, FinishInsert,
     AppendLock, AppendWrite, Commit, StampHeader, ExecuteSelect, FinishSelect, ReadPage, ScanPage, Close
<1>5. calls' \in 0..MaxCalls /\ calls <= calls'
  <2>1. CASE ExecuteInsert(p) \/ Commit(p) \/ Close(p)
    <3>1. calls' = calls + 1 /\ calls < MaxCalls
      BY <2>1 DEF ExecuteInsert, Commit, Close
    <3> QED
      BY <1>0, <3>1, MaxCallsAssumption
  <2>2. CASE ~(ExecuteInsert(p) \/ Commit(p) \/ Close(p))
    <3>1. calls' = calls
      BY Zenon, <2>2 DEF ProcStep, WritePage, FinishInsert, AppendLock, AppendWrite, StampHeader,
         ExecuteSelect, FinishSelect, ReadPage, ScanPage
    <3> QED
      BY SMTT(20), Z3T(20), <1>0, <3>1
  <2> QED
    BY <2>1, <2>2
<1>6. \A g \in Pages : pages[g] \subseteq 1..MaxCalls
  <2>1. 1..calls \subseteq 1..MaxCalls
    BY <1>0, MaxCallsAssumption
  <2>2. \A g \in Pages : pages[g] \subseteq 1..calls
    BY DEF ProcTypeOK
  <2> QED
    BY <2>1, <2>2
<1>4. loc' \in [Procs -> Locals] /\ \A q \in Procs \ {p} : loc'[q] = loc[q]
  <2> SUFFICES ASSUME loc' # loc
               PROVE  \E r \in Locals : loc' = [loc EXCEPT ![p] = r]
    BY <1>0
  <2>1. CASE ExecuteInsert(p)
    <3> DEFINE r == [NoLocals EXCEPT !.todo = Pages, !.row = calls + 1]
    <3>1. calls + 1 \in 0..MaxCalls
      BY <1>0, <2>1, MaxCallsAssumption DEF ExecuteInsert
    <3>2. r \in Locals /\ loc' = [loc EXCEPT ![p] = r]
      BY Zenon, <1>1, <2>1, <3>1 DEF ExecuteInsert, Locals
    <3> QED
      BY Zenon, <3>2
  <2>2. CASE AppendLock(p)
    <3> DEFINE r == [loc[p] EXCEPT !.end = Len(wal)]
    <3>1. Len(wal) \in Nat
      BY DEF ProcTypeOK
    <3>2. r \in Locals
      BY Zenon, <1>0, <3>1 DEF Locals
    <3>3. loc' = [loc EXCEPT ![p] = r]
      BY <1>0, <2>2 DEF AppendLock
    <3> QED
      BY Zenon, <3>2, <3>3
  <2>3. CASE FinishInsert(p) \/ StampHeader(p) \/ FinishSelect(p)
    BY <1>1, <2>3 DEF FinishInsert, StampHeader, FinishSelect
  <2>4. CASE ExecuteSelect(p)
    BY Zenon, <1>1, <2>4 DEF ExecuteSelect, Locals
  <2>5. ASSUME NEW g \in Pages, ReadPage(p, g)
        PROVE  \E r \in Locals : loc' = [loc EXCEPT ![p] = r]
    <3> DEFINE r == [loc[p] EXCEPT !.page = g, !.img = pages[g], !.todo = @ \ {g}]
    <3>2. r \in Locals
      BY Zenon, <1>0, <1>6, <2>5 DEF Locals
    <3>3. loc' = [loc EXCEPT ![p] = r]
      BY Zenon, <1>0, <2>5 DEF ReadPage, Locals
    <3> QED
      BY Zenon, <3>2, <3>3
  <2>6. ASSUME NEW g \in Pages, ScanPage(p, g)
        PROVE  \E r \in Locals : loc' = [loc EXCEPT ![p] = r]
    <3>0. loc[p].seen \in Seens
      BY <1>0 DEF Locals
    <3>1. PICK D \in SUBSET Pages : loc[p].seen \in [D -> SUBSET (1..MaxCalls)]
      BY <3>0 DEF Seens
    <3> DEFINE s == [h \in DOMAIN loc[p].seen \cup {g} |->
                       IF h = g THEN pages[g] ELSE loc[p].seen[h]]
    <3>2. s \in [D \cup {g} -> SUBSET (1..MaxCalls)]
      BY <1>6, <3>1
    <3>3. s \in Seens
      BY Zenon, <3>2 DEF Seens
    <3>4. loc' = [loc EXCEPT ![p] = [loc[p] EXCEPT !.todo = @ \ {g}, !.seen = s]]
      BY Zenon, <1>0, <2>6 DEF ScanPage, Locals
    <3> QED
      BY Zenon, <1>0, <3>3, <3>4 DEF Locals
  <2>7. CASE WritePage(p) \/ AppendWrite(p) \/ Commit(p) \/ Close(p)
    BY <2>7 DEF WritePage, AppendWrite, Commit, Close
  <2> QED
    BY <2>1, <2>2, <2>3, <2>4, <2>5, <2>6, <2>7 DEF ProcStep
<1> QED
  BY <1>2, <1>3, <1>4, <1>5

\* The frame goes to the place the append seeked to, which is still the end.
LEMMA FrameAtEnd ==
  ASSUME ProcIInv, NEW p \in Procs, AppendWrite(p)
  PROVE  LET frame == [proc |-> p, lsn |-> nextLsn[p]]
         IN  /\ frame \in [proc : Procs, lsn : Nat]
             /\ wal' \in Seq([proc : Procs, lsn : Nat]) /\ Len(wal') = Len(wal) + 1
             /\ DOMAIN wal' = DOMAIN wal \cup {Len(wal) + 1} /\ Len(wal) + 1 \notin DOMAIN wal
             /\ \A i \in DOMAIN wal' : wal'[i] = IF i = Len(wal) + 1 THEN frame ELSE wal[i]
<1> DEFINE frame == [proc |-> p, lsn |-> nextLsn[p]]
<1>1. wal \in Seq([proc : Procs, lsn : Nat]) /\ frame \in [proc : Procs, lsn : Nat]
  BY DEF ProcIInv, ProcTypeOK, LocalsOK
<1>2. loc[p].end = Len(wal)
  BY DEF ProcIInv, LocksOK, AppendWrite
<1>3. wal' = [i \in DOMAIN wal \cup {Len(wal) + 1} |-> IF i = Len(wal) + 1 THEN frame ELSE wal[i]]
  BY <1>2 DEF AppendWrite
<1> HIDE DEF frame
<1>4. DOMAIN wal = 1..Len(wal) /\ Len(wal) \in Nat
  BY <1>1
<1>5. DOMAIN wal \cup {Len(wal) + 1} = 1..(Len(wal) + 1) /\ Len(wal) + 1 \notin DOMAIN wal
  BY <1>4
<1>6. wal' \in [1..(Len(wal) + 1) -> [proc : Procs, lsn : Nat]]
  <2> DEFINE S == [proc : Procs, lsn : Nat]
  <2>2. frame \in S /\ wal \in Seq(S)
    BY <1>1
  <2> HIDE DEF S
  <2>1. \A i \in DOMAIN wal : wal[i] \in S
    BY <1>4, <2>2
  <2>3. wal' \in [1..(Len(wal) + 1) -> S]
    BY <1>3, <1>5, <2>1, <2>2
  <2> QED
    BY <2>3 DEF S
<1>7. wal' \in Seq([proc : Procs, lsn : Nat]) /\ Len(wal') = Len(wal) + 1
  <2> DEFINE S == [proc : Procs, lsn : Nat]
             n == Len(wal) + 1
  <2>1. wal' \in [1..n -> S] /\ n \in Nat
    BY <1>4, <1>6
  <2> HIDE DEF S, n
  <2>2. wal' \in Seq(S)
    BY <2>1
  <2>3. Len(wal') = n
    BY <2>1, <2>2
  <2> QED
    BY <2>2, <2>3 DEF S, n
<1> QED
  BY <1>1, <1>3, <1>5, <1>7 DEF frame

\* What a step leaves of the file when it is not the write of a frame.
LEMMA WalKept ==
  ASSUME NEW p \in Procs, ProcStep(p), ~AppendWrite(p)
  PROVE  UNCHANGED <<wal, nextLsn, appended>>
  BY Zenon DEF ProcStep, files, ExecuteInsert, WritePage, FinishInsert, AppendLock, Commit, StampHeader,
     ExecuteSelect, FinishSelect, ReadPage, ScanPage, Close

\* Types are kept: rows reach a page from an image read and a row started before.
LEMMA TypeKept ==
  ASSUME ProcIInv, NEW p \in Procs, ProcStep(p)
  PROVE  ProcTypeOK'
<1>0. ProcTypeOK /\ LocalsOK
  BY DEF ProcIInv
<1>1. wal' \in Seq([proc : Procs, lsn : Nat])
  <2>1. CASE AppendWrite(p)
    BY Zenon, <2>1, FrameAtEnd
  <2> QED
    BY <1>0, <2>1, WalKept DEF ProcTypeOK
<1>2. 1..calls \subseteq 1..calls'
  BY <1>0, LocalsMove DEF ProcTypeOK
<1>3. pages' \in [Pages -> SUBSET (1..calls')]
  <2>1. CASE WritePage(p)
    <3>1. loc[p].img \cup {loc[p].row} \subseteq 1..calls
      BY <1>0, <2>1 DEF LocalsOK, WritePage
    <3> QED
      BY Zenon, <1>0, <1>2, <2>1, <3>1 DEF WritePage, ProcTypeOK
  <2>2. CASE ~WritePage(p)
    <3>1. pages' = pages
      BY Zenon, <2>2 DEF ProcStep, files, ExecuteInsert, FinishInsert, AppendLock, AppendWrite, Commit,
         StampHeader, ExecuteSelect, FinishSelect, ReadPage, ScanPage, Close
    <3> QED
      BY <1>0, <1>2, <3>1 DEF ProcTypeOK
  <2> QED
    BY <2>1, <2>2
<1>4. header' \in Nat
  <2>1. CASE StampHeader(p)
    <3>1. nextLsn[p] - 1 \in Nat
      BY <1>0 DEF LocalsOK
    <3> QED
      BY <1>0, <2>1, <3>1 DEF StampHeader, ProcTypeOK
  <2>2. CASE ~StampHeader(p)
    <3>1. header' = header \/ header' = cached[p]
      BY Zenon, <2>2 DEF ProcStep, files, ExecuteInsert, WritePage, FinishInsert, AppendLock, AppendWrite,
         Commit, ExecuteSelect, FinishSelect, ReadPage, ScanPage, Close, WriteHeader
    <3>2. header \in Nat /\ cached[p] \in Nat
      BY <1>0 DEF ProcTypeOK, LocalsOK
    <3> QED
      BY Zenon, <3>1, <3>2
  <2> QED
    BY <2>1, <2>2
<1> QED
  BY <1>0, <1>1, <1>3, <1>4, LocalsMove DEF ProcTypeOK

\* The locals of the call that moved, and of the others.
LEMMA LocalsKept ==
  ASSUME ProcIInv, NEW p \in Procs, ProcStep(p)
  PROVE  LocalsOK'
<1>0. ProcTypeOK /\ LocalsOK
  BY DEF ProcIInv
<1>1. /\ loc' \in [Procs -> Locals] /\ \A q \in Procs \ {p} : loc'[q] = loc[q] /\ at'[q] = at[q]
      /\ calls \in Nat /\ calls' \in Nat /\ calls <= calls'
  BY <1>0, LocalsMove, MaxCallsAssumption DEF ProcTypeOK
<1>2. nextLsn' \in [Procs -> Nat \ {0}]
  <2>1. CASE AppendWrite(p)
    <3>1. nextLsn[p] + 1 \in Nat \ {0}
      BY <1>0 DEF LocalsOK
    <3> QED
      BY <1>0, <2>1, <3>1 DEF LocalsOK, AppendWrite
  <2> QED
    BY <1>0, <2>1, WalKept DEF LocalsOK
<1>3. cached' \in [Procs -> Nat]
  <2>1. CASE StampHeader(p)
    <3>1. nextLsn[p] - 1 \in Nat
      BY <1>0 DEF LocalsOK
    <3> QED
      BY <1>0, <2>1, <3>1 DEF StampHeader, LocalsOK
  <2>2. CASE ~StampHeader(p)
    <3>1. cached' = cached
      BY Zenon, <2>2 DEF ProcStep, ExecuteInsert, WritePage, FinishInsert, AppendLock, AppendWrite,
         Commit, ExecuteSelect, FinishSelect, ReadPage, ScanPage, Close
    <3> QED
      BY SMTT(20), Z3T(20), <1>0, <3>1 DEF LocalsOK
  <2> QED
    BY <2>1, <2>2
<1>4. /\ at'[p] \in {"insert", "append", "frame", "write"} => loc'[p].row \in 1..calls'
      /\ at'[p] \in {"append", "frame", "write"} =>
           loc'[p].page \in Pages /\ loc'[p].img \subseteq 1..calls'
  <2>0. at \in [Procs -> {"idle", "insert", "append", "frame", "write", "commit", "lastframe",
                          "stamp", "select", "closed"}] /\ loc \in [Procs -> Locals]
    BY <1>0 DEF ProcTypeOK, LocalsOK
  <2>1. CASE ExecuteInsert(p)
    <3>1. at'[p] = "insert" /\ loc'[p].row = calls + 1 /\ calls' = calls + 1
      BY <2>0, <2>1 DEF ExecuteInsert, ProcGoto, NoLocals
    <3> QED
      BY <1>1, <3>1
  <2>2. CASE WritePage(p) \/ AppendWrite(p)
    <3>1. /\ at[p] = "write" => at'[p] = "insert"
          /\ at[p] = "frame" => at'[p] = "write"
          /\ at[p] = "lastframe" => at'[p] = "stamp"
          /\ at[p] \in {"write", "frame", "lastframe"} /\ UNCHANGED <<loc, calls>>
      BY <2>0, <2>2 DEF WritePage, AppendWrite, ProcGoto
    <3> QED
      BY <1>0, <3>1 DEF LocalsOK
  <2>3. CASE AppendLock(p)
    <3>1. /\ at[p] = "append" => at'[p] = "frame"
          /\ at[p] = "commit" => at'[p] = "lastframe"
          /\ at[p] \in {"append", "commit"} /\ UNCHANGED calls
          /\ loc'[p].row = loc[p].row /\ loc'[p].page = loc[p].page /\ loc'[p].img = loc[p].img
      BY <2>0, <2>3 DEF AppendLock, ProcGoto, Locals
    <3> QED
      BY <1>0, <3>1 DEF LocalsOK
  <2>4. ASSUME NEW g \in Pages, ReadPage(p, g)
        PROVE  loc'[p].row \in 1..calls' /\ loc'[p].page \in Pages /\ loc'[p].img \subseteq 1..calls'
    <3>1. /\ at[p] = "insert" /\ UNCHANGED calls
          /\ loc'[p].row = loc[p].row /\ loc'[p].page = g /\ loc'[p].img = pages[g]
      BY <2>0, <2>4 DEF ReadPage, Locals
    <3>2. pages[g] \subseteq 1..calls
      BY <1>0 DEF ProcTypeOK
    <3> QED
      BY <1>0, <3>1, <3>2 DEF LocalsOK
  <2>5. CASE \/ FinishInsert(p) \/ Commit(p) \/ StampHeader(p) \/ ExecuteSelect(p) \/ FinishSelect(p)
             \/ Close(p) \/ \E g \in Pages : ScanPage(p, g)
    <3>1. at'[p] \in {"idle", "commit", "select", "closed"}
      BY Zenon, <2>0, <2>5 DEF FinishInsert, Commit, StampHeader, ExecuteSelect, FinishSelect, ScanPage,
         Close, ProcGoto
    <3> QED
      BY <3>1
  <2> QED
    BY Zenon, <2>1, <2>2, <2>3, <2>4, <2>5 DEF ProcStep
<1>5. 1..calls \subseteq 1..calls'
  BY <1>1
<1>6. ASSUME NEW q \in Procs \ {p}
      PROVE  /\ at'[q] \in {"insert", "append", "frame", "write"} => loc'[q].row \in 1..calls'
             /\ at'[q] \in {"append", "frame", "write"} =>
                  loc'[q].page \in Pages /\ loc'[q].img \subseteq 1..calls'
  BY <1>0, <1>1, <1>5 DEF LocalsOK
<1> QED
  BY <1>1, <1>2, <1>3, <1>4, <1>6 DEF LocalsOK

\* A frame is written only by the process that has the lock, so that nobody
\* else's append stands at a place that moves.
LEMMA LocksKept ==
  ASSUME ProcIInv, NEW p \in Procs, ProcStep(p)
  PROVE  LocksOK'
<1>0. ProcTypeOK /\ LocalsOK /\ LocksOK
  BY DEF ProcIInv
<1>1. /\ \A q \in Procs \ {p} : loc'[q] = loc[q] /\ at'[q] = at[q] /\ flock'[q] = flock[q]
      /\ flock' \in [Procs -> {"none", "sh", "ex"}]
  BY <1>0, LocalsMove
<1>2. /\ flock'[p] \in {flock[p], "none"} \/ LockEx(p) \/ LockSh(p)
      /\ at'[p] \in {"frame", "lastframe"} =>
           flock'[p] = "ex" /\ loc'[p].end = Len(wal') /\ UNCHANGED wal
  <2>0. /\ at \in [Procs -> {"idle", "insert", "append", "frame", "write", "commit", "lastframe",
                             "stamp", "select", "closed"}]
        /\ loc \in [Procs -> Locals] /\ flock \in [Procs -> {"none", "sh", "ex"}]
    BY <1>0 DEF ProcTypeOK, LocalsOK
  <2>1. CASE AppendLock(p)
    BY <2>0, <2>1 DEF AppendLock, LockEx, files, Locals
  <2>2. CASE ~AppendLock(p)
    <3>1. at'[p] \notin {"frame", "lastframe"}
      BY Zenon, <2>0, <2>2 DEF ProcStep, ProcGoto, ExecuteInsert, WritePage, FinishInsert, AppendWrite,
         Commit, StampHeader, ExecuteSelect, FinishSelect, ReadPage, ScanPage, Close
    <3>2. flock'[p] \in {flock[p], "none"} \/ LockEx(p) \/ LockSh(p)
      BY Zenon, <2>0, <2>2 DEF ProcStep, Unlock, ExecuteInsert, WritePage, FinishInsert, AppendWrite,
         Commit, StampHeader, ExecuteSelect, FinishSelect, ReadPage, ScanPage, Close
    <3> QED
      BY <3>1, <3>2
  <2> QED
    BY <2>1, <2>2
<1>3. \A q, r \in Procs : flock'[q] = "ex" /\ r # q => flock'[r] = "none"
  <2>1. CASE flock'[p] \in {flock[p], "none"}
    BY <1>0, <1>1, <2>1 DEF LocksOK
  <2>2. CASE LockEx(p)
    BY <1>0, <1>1, <2>2 DEF LocksOK, LockEx
  <2>3. CASE LockSh(p)
    <3>1. flock'[p] = "sh" /\ \A q \in Procs \ {p} : flock[q] # "ex"
      BY <1>0, <2>3 DEF LockSh, ProcTypeOK
    <3> QED
      BY <1>1, <3>1
  <2> QED
    BY <1>2, <2>1, <2>2, <2>3
<1>4. ASSUME NEW q \in Procs \ {p}, at'[q] \in {"frame", "lastframe"}
      PROVE  flock'[q] = "ex" /\ loc'[q].end = Len(wal')
  <2>1. flock[q] = "ex" /\ loc[q].end = Len(wal)
    BY <1>0, <1>1, <1>4 DEF LocksOK
  <2>2. ~AppendWrite(p)
    BY <1>0, <2>1 DEF LocksOK, AppendWrite
  <2> QED
    BY <1>1, <2>1, <2>2, WalKept
<1> QED
  BY <1>2, <1>3, <1>4 DEF LocksOK

\* The new frame has an LSN its process has not used, and overwrites nothing.
LEMMA FramesKept ==
  ASSUME ProcIInv, NEW p \in Procs, ProcStep(p)
  PROVE  FramesOK'
<1>0. ProcTypeOK /\ LocalsOK /\ FramesOK
  BY DEF ProcIInv
<1>1. CASE AppendWrite(p)
  <2> DEFINE frame == [proc |-> p, lsn |-> nextLsn[p]]
             new == Len(wal) + 1
  <2>1. /\ DOMAIN wal' = DOMAIN wal \cup {new} /\ new \notin DOMAIN wal
        /\ \A i \in DOMAIN wal' : wal'[i] = IF i = new THEN frame ELSE wal[i]
    BY Zenon, <1>1, FrameAtEnd
  <2>2. /\ \A q \in Procs : nextLsn'[q] = IF q = p THEN nextLsn[q] + 1 ELSE nextLsn[q]
        /\ \A q \in Procs : nextLsn[q] \in Nat
        /\ appended' = appended \cup {frame}
    BY <1>0, <1>1 DEF AppendWrite, LocalsOK
  <2>3. \A i \in DOMAIN wal : wal[i].proc \in Procs /\ wal[i].lsn \in Nat
    <3> DEFINE S == [proc : Procs, lsn : Nat]
    <3>1. wal \in Seq(S)
      BY <1>0 DEF ProcTypeOK
    <3> HIDE DEF S
    <3>2. \A i \in DOMAIN wal : wal[i] \in S
      BY <3>1
    <3> QED
      BY <3>2 DEF S
  <2>4. frame.proc = p /\ frame.lsn = nextLsn[p]
    OBVIOUS
  <2> HIDE DEF frame, new
  <2>5. \A i \in DOMAIN wal : wal[i] # frame /\ wal[i].lsn < nextLsn'[wal[i].proc]
    BY <1>0, <2>2, <2>3, <2>4 DEF FramesOK
  <2>6. frame.lsn < nextLsn'[frame.proc]
    BY <2>2, <2>4
  <2>7. \A i \in DOMAIN wal' : wal'[i].lsn < nextLsn'[wal'[i].proc]
    BY <2>1, <2>5, <2>6
  <2>8. \A i, j \in DOMAIN wal' : wal'[i] = wal'[j] => i = j
    BY <1>0, <2>1, <2>5 DEF FramesOK
  <2>9. \A f \in appended' : \E i \in DOMAIN wal' : wal'[i] = f
    BY SMTT(20), Z3T(20), <1>0, <2>1, <2>2 DEF FramesOK
  <2> QED
    BY <2>7, <2>8, <2>9 DEF FramesOK
<1> QED
  BY <1>0, <1>1, WalKept DEF FramesOK

\* A process stamps the header only after a record of its own, and each
\* record is past what the process has stamped before.
LEMMA StampsKept ==
  ASSUME ProcIInv, NEW p \in Procs, ProcStep(p)
  PROVE  /\ StampsOK'
         /\ \A q \in Procs \ {p} : cached'[q] = cached[q]
         /\ StampHeader(p) => cached'[p] = nextLsn[p] - 1 /\ header' = nextLsn[p] - 1
         /\ ~StampHeader(p) => UNCHANGED cached /\ (header' = header \/ header' = cached[p])
<1>0. ProcTypeOK /\ LocalsOK /\ StampsOK
  BY DEF ProcIInv
<1>1. /\ \A q \in Procs \ {p} : at'[q] = at[q]
      /\ \A q \in Procs : nextLsn[q] \in Nat /\ cached[q] \in Nat
      /\ cached \in [Procs -> Nat] /\ nextLsn \in [Procs -> Nat \ {0}]
      /\ at \in [Procs -> {"idle", "insert", "append", "frame", "write", "commit", "lastframe",
                           "stamp", "select", "closed"}]
  BY Zenon, <1>0, LocalsMove DEF LocalsOK, ProcTypeOK
<1>2. CASE StampHeader(p)
  <2>1. /\ at[p] = "stamp" /\ at'[p] = "idle" /\ UNCHANGED nextLsn
        /\ nextLsn[p] - 1 > cached[p]
    BY <1>0, <1>1, <1>2 DEF StampHeader, ProcGoto, StampsOK
  <2>2. header' = nextLsn[p] - 1 /\ cached' = [cached EXCEPT ![p] = nextLsn[p] - 1]
    BY <1>2, <2>1 DEF StampHeader
  <2>3. \A q \in Procs : cached'[q] = IF q = p THEN nextLsn[p] - 1 ELSE cached[q]
    BY <1>1, <2>2
  <2>4. StampsOK'
    BY SMTT(20), Z3T(20), <1>0, <1>1, <2>1, <2>3 DEF StampsOK
  <2> QED
    BY <1>2, <2>2, <2>3, <2>4
<1>3. CASE AppendWrite(p)
  <2>1. /\ at[p] \in {"frame", "lastframe"}
        /\ at[p] = "frame" => at'[p] = "write"
        /\ at[p] = "lastframe" => at'[p] = "stamp"
        /\ UNCHANGED <<cached, header>>
        /\ \A q \in Procs : nextLsn'[q] = IF q = p THEN nextLsn[q] + 1 ELSE nextLsn[q]
    BY <1>1, <1>3 DEF AppendWrite, ProcGoto
  <2>2. ~StampHeader(p)
    BY <2>1 DEF StampHeader
  <2>3. StampsOK'
    BY <1>0, <1>1, <2>1 DEF StampsOK
  <2> QED
    BY SMTT(20), Z3T(20), <2>1, <2>2, <2>3
<1>4. CASE ~StampHeader(p) /\ ~AppendWrite(p)
  <2>1. UNCHANGED <<cached, nextLsn>> /\ (header' = header \/ header' = cached[p])
    BY Zenon, <1>4 DEF ProcStep, files, ExecuteInsert, WritePage, FinishInsert, AppendLock, Commit,
       ExecuteSelect, FinishSelect, ReadPage, ScanPage, Close, WriteHeader
  <2>2. /\ at'[p] # "stamp"
        /\ at'[p] \in {"commit", "lastframe"} => at[p] = "commit" \/ p \in Committers
    BY Zenon, <1>1, <1>4 DEF ProcStep, ProcGoto, ExecuteInsert, WritePage, FinishInsert, AppendLock, Commit,
       ExecuteSelect, FinishSelect, ReadPage, ScanPage, Close
  <2>3. StampsOK'
    BY <1>0, <1>1, <2>1, <2>2 DEF StampsOK
  <2> QED
    BY SMTT(20), Z3T(20), <1>4, <2>1, <2>3
<1> QED
  BY <1>2, <1>3, <1>4

\* The header changes to what the process that writes it has cached, and that
\* is the LSN of a record whose append returned.
LEMMA HeaderKept ==
  ASSUME ProcIInv, NEW p \in Procs, ProcStep(p)
  PROVE  HeaderOK'
<1>0. ProcTypeOK /\ LocalsOK /\ StampsOK /\ HeaderOK
  BY DEF ProcIInv
<1>1. \A q \in Procs \ {p} : at'[q] = at[q]
  BY <1>0, LocalsMove
<1>2. appended \subseteq appended'
  <2>1. CASE AppendWrite(p)
    BY <2>1 DEF AppendWrite
  <2> QED
    BY <2>1, WalKept
<1>3. CASE StampHeader(p)
  <2>1. /\ at[p] = "stamp" /\ at'[p] # "stamp" /\ p \in Committers /\ UNCHANGED <<nextLsn, appended>>
    BY <1>0, <1>3 DEF StampHeader, StampsOK, ProcGoto, ProcTypeOK
  <2>2. /\ cached'[p] = nextLsn[p] - 1 /\ header' = cached'[p]
        /\ \A q \in Procs \ {p} : cached'[q] = cached[q]
    BY Zenon, <1>3, StampsKept
  <2>3. [proc |-> p, lsn |-> nextLsn[p] - 1] \in appended
    BY Zenon, <1>0, <2>1 DEF HeaderOK
  <2> QED
    BY <1>0, <1>1, <2>1, <2>2, <2>3 DEF HeaderOK
<1>4. CASE ~StampHeader(p)
  <2>1. UNCHANGED cached /\ (header' = header \/ header' = cached[p])
    BY Zenon, <1>4, StampsKept
  <2>2. \A q \in Procs : /\ cached'[q] = 0 \/ [proc |-> q, lsn |-> cached'[q]] \in appended'
                         /\ q \notin Committers => cached'[q] = 0
    BY Zenon, <1>0, <1>2, <2>1 DEF HeaderOK
  <2>3. header' = 0 \/ \E q \in Procs : header' = cached'[q]
    BY <1>0, <2>1 DEF HeaderOK
  <2>4. ASSUME NEW q \in Procs, at'[q] = "stamp"
        PROVE  [proc |-> q, lsn |-> nextLsn'[q] - 1] \in appended'
    <3>1. CASE AppendWrite(p) /\ q = p
      <4>1. nextLsn'[p] - 1 = nextLsn[p]
        BY <1>0, <3>1 DEF AppendWrite, LocalsOK
      <4>2. [proc |-> p, lsn |-> nextLsn[p]] \in appended'
        BY <3>1 DEF AppendWrite
      <4> QED
        BY <3>1, <4>1, <4>2
    <3>2. CASE q # p
      <4>1. nextLsn'[q] = nextLsn[q]
        <5>1. CASE AppendWrite(p)
          BY <1>0, <3>2, <5>1 DEF AppendWrite, LocalsOK
        <5> QED
          BY <5>1, WalKept
      <4>2. at[q] = "stamp"
        BY <1>1, <2>4, <3>2
      <4> QED
        BY Zenon, <1>0, <1>2, <4>1, <4>2 DEF HeaderOK
    <3>3. CASE ~AppendWrite(p) /\ q = p
      <4>1. at'[p] # "stamp"
        BY Zenon, <1>0, <1>4, <3>3 DEF ProcStep, ProcGoto, ProcTypeOK, ExecuteInsert, WritePage, FinishInsert,
           AppendLock, Commit, ExecuteSelect, FinishSelect, ReadPage, ScanPage, Close
      <4> QED
        BY <2>4, <3>3, <4>1
    <3> QED
      BY <3>1, <3>2, <3>3
  <2> QED
    BY <2>2, <2>3, <2>4 DEF HeaderOK
<1> QED
  BY <1>3, <1>4

\* Every step, of any process, keeps the invariant.
LEMMA NextProcIInv == ProcIInv /\ [ProcNext]_procVars => ProcIInv'
<1> SUFFICES ASSUME ProcIInv, [ProcNext]_procVars PROVE ProcIInv'
  OBVIOUS
<1>1. ASSUME NEW p \in Procs, ProcStep(p) PROVE ProcIInv'
  BY SMTT(20), Z3T(20), <1>1, TypeKept, LocalsKept, LocksKept, FramesKept, StampsKept, HeaderKept DEF ProcIInv
<1>2. CASE UNCHANGED procVars
  BY <1>2 DEF procVars, ProcIInv, ProcTypeOK, LocalsOK, LocksOK, FramesOK, StampsOK, HeaderOK
<1> QED
  BY <1>1, <1>2 DEF ProcNext

\* The LSN that some process has cached is in the log.
LEMMA LoggedHeader == ProcIInv => ProcTypeOK /\ AppendsKept /\ HeaderLogged
<1> SUFFICES ASSUME ProcIInv PROVE ProcTypeOK /\ AppendsKept /\ HeaderLogged
  OBVIOUS
<1>1. ProcTypeOK /\ AppendsKept
  BY Zenon DEF ProcIInv, FramesOK, AppendsKept
<1>2. ASSUME header # 0
      PROVE  \E i \in DOMAIN wal : wal[i].lsn = header
  <2>1. PICK p \in Procs : header = cached[p]
    BY Zenon, <1>2 DEF ProcIInv, HeaderOK
  <2>2. [proc |-> p, lsn |-> header] \in appended
    BY Zenon, <1>2, <2>1 DEF ProcIInv, HeaderOK
  <2>3. PICK i \in DOMAIN wal : wal[i] = [proc |-> p, lsn |-> header]
    BY Zenon, <2>2 DEF ProcIInv, FramesOK
  <2> QED
    BY <2>3
<1> QED
  BY <1>1, <1>2 DEF HeaderLogged

\* Any number of processes may write, commit and close: no append overwrites
\* the frame of another, the file holds each frame once, and the header, by
\* whomever it was written last, names a frame that is there.
THEOREM FramesStay == ProcSpec => [](ProcTypeOK /\ AppendsKept /\ HeaderLogged)
  BY InitProcIInv, NextProcIInv, LoggedHeader, PTL DEF ProcSpec

\* WAL.append, set_last_lsn and the header writes, when one process commits and
\* any number write, read and close: frames stay, the header is not ahead of
\* the log, and a commit changes the header's last_lsn when it stamps it.
THEOREM SharedFiles ==
  ASSUME \A p, q \in Committers : p = q
  PROVE  ProcSpec => SharedFilesKept
<1>1. ASSUME ProcIInv, [ProcNext]_procVars
      PROVE  [ProcTypeOK' /\ AppendsKept' /\ HeaderLogged' /\ CommitsDetectable]_procVars
  <2>1. ProcIInv'
    BY SMTT(20), Z3T(20), <1>1, NextProcIInv
  <2>2. ProcTypeOK' /\ AppendsKept' /\ HeaderLogged'
    BY <2>1, LoggedHeader, PTL
  <2>3. ASSUME NEW p \in Procs, StampHeader(p)
        PROVE  header' # header
    <3>1. p \in Committers /\ cached[p] < nextLsn[p] - 1
      BY SMTT(20), Z3T(20), <1>1, <2>3 DEF ProcIInv, StampsOK, StampHeader
    <3>2. header' = nextLsn[p] - 1
      BY Zenon, <1>1, <2>3, StampsKept DEF ProcStep
    <3>3. cached[p] \in Nat /\ nextLsn[p] \in Nat
      BY <1>1 DEF ProcIInv, LocalsOK
    <3>4. header = 0 \/ header = cached[p]
      BY Zenon, <1>1, <3>1 DEF ProcIInv, HeaderOK
    <3> QED
      BY <3>1, <3>2, <3>3, <3>4
  <2> QED
    BY <2>2, <2>3 DEF CommitsDetectable
<1> QED
  BY <1>1, InitProcIInv, NextProcIInv, PTL DEF ProcSpec, SharedFilesKept
-----------------------------------------------------------------------------
(* The size of the page cache, and all it promises *)

INSTANCE FiniteSetTheorems

LEMMA AdmittingCounts ==
  /\ Capacity \in Nat \ {0} /\ Cardinality(Fetchers) \in Nat /\ Cardinality(Fetchers) >= 1
  /\ IsFiniteSet(Admitting) /\ Cardinality(Admitting) \in Nat /\ Cardinality(Admitting) <= Cardinality(Fetchers)
<1>1. IsFiniteSet(Fetchers) /\ Fetchers # {} /\ Admitting \subseteq Fetchers /\ Capacity \in Nat \ {0}
  BY PoolAssumption DEF Admitting
<1>2. Cardinality(Fetchers) \in Nat /\ Cardinality(Fetchers) # 0
  BY <1>1, FS_CardinalityType, FS_EmptySet
<1>3. IsFiniteSet(Admitting) /\ Cardinality(Admitting) <= Cardinality(Fetchers)
  BY Zenon, <1>1, FS_Subset
<1>4. Cardinality(Admitting) \in Nat
  BY Zenon, <1>3, FS_CardinalityType
<1> QED
  BY <1>1, <1>2, <1>3, <1>4

\* The fetch that moves starts to admit its page, or is done with it.
LEMMA AdmittingMoves ==
  ASSUME NEW t \in Fetchers, OnlyMoves(t)
  PROVE  /\ (t \in Admitting <=> t \in Admitting') => Cardinality(Admitting') = Cardinality(Admitting)
         /\ t \notin Admitting => Cardinality(Admitting') <= Cardinality(Admitting) + 1
         /\ t \in Admitting /\ t \notin Admitting' => Cardinality(Admitting') = Cardinality(Admitting) - 1
         /\ Cardinality(Admitting') <= Cardinality(Fetchers) /\ Cardinality(Admitting') \in Nat
<1>1. \A u : u # t => (u \in Admitting <=> u \in Admitting')
  BY DEF OnlyMoves, Admitting
<1>2. IsFiniteSet(Admitting) /\ IsFiniteSet(Fetchers) /\ Admitting' \subseteq Fetchers
  BY AdmittingCounts, PoolAssumption DEF Admitting
<1>3. Cardinality(Admitting') <= Cardinality(Fetchers) /\ Cardinality(Admitting') \in Nat
  BY Zenon, <1>2, FS_Subset, FS_CardinalityType
<1>4. Cardinality(Admitting) \in Nat
  BY AdmittingCounts
<1>5. CASE t \in Admitting <=> t \in Admitting'
  <2>1. Admitting' = Admitting
    BY <1>1, <1>5
  <2> QED
    BY <1>3, <1>4, <1>5, <2>1
<1>6. CASE t \notin Admitting /\ t \in Admitting'
  <2>1. Admitting' = Admitting \cup {t}
    BY <1>1, <1>6
  <2>2. Cardinality(Admitting') = Cardinality(Admitting) + 1
    BY Zenon, <1>2, <1>6, <2>1, FS_AddElement
  <2> QED
    BY <1>3, <1>4, <1>6, <2>2
<1>7. CASE t \in Admitting /\ t \notin Admitting'
  <2>1. Admitting' = Admitting \ {t}
    BY <1>1, <1>7
  <2>2. Cardinality(Admitting') = Cardinality(Admitting) - 1
    BY Zenon, <1>2, <1>7, <2>1, FS_RemoveElement
  <2> QED
    BY <1>3, <1>4, <1>7, <2>2
<1> QED
  BY <1>5, <1>6, <1>7

LEMMA RoomKept == CacheTypeOK /\ RoomLeft /\ PoolNext => RoomLeft'
<1> SUFFICES ASSUME CacheTypeOK, RoomLeft, PoolNext PROVE RoomLeft'
  OBVIOUS
<1> DEFINE n == Cardinality(Admitting)
           F == Cardinality(Fetchers)
<1>0. /\ Len(lru) \in Nat /\ Len(lru') \in Nat /\ n \in Nat /\ F \in Nat /\ F >= 1 /\ Capacity \in Nat
      /\ Len(lru) + n <= Capacity + F - 1 /\ Admitting \subseteq Fetchers
  BY AdmittingCounts, CacheTypeKept DEF CacheTypeOK, RoomLeft, Admitting
<1>1. ASSUME NEW t \in Fetchers, OnlyMoves(t), Len(lru') <= Len(lru), t \in Admitting <=> t \in Admitting'
      PROVE  RoomLeft'
  <2>1. n' = n
    BY Zenon, <1>1, AdmittingMoves
  <2> QED
    BY <1>0, <1>1, <2>1 DEF RoomLeft
<1>2. ASSUME NEW t \in Fetchers, FetchEvict(t) PROVE RoomLeft'
  <2>1. OnlyMoves(t) /\ t \notin Admitting
    BY <1>2, EvictDoes DEF Admitting
  <2>2. n' <= n + 1 /\ n' <= F /\ n' \in Nat
    BY Zenon, <2>1, AdmittingMoves
  <2>3. (Len(lru) < Capacity /\ lru' = lru) \/ Len(lru') = Len(lru) - 1
    BY Zenon, <1>2, EvictDoes
  <2> HIDE DEF n, F
  <2> QED
    BY <1>0, <2>2, <2>3 DEF RoomLeft, n, F
<1>3. ASSUME NEW t \in Fetchers, FetchInsert(t) PROVE RoomLeft'
  <2>1. OnlyMoves(t) /\ t \in Admitting /\ t \notin Admitting'
    BY <1>3, InsertDoes DEF Admitting
  <2>2. n' = n - 1
    BY Zenon, <2>1, AdmittingMoves
  <2>3. Len(lru') <= Len(lru) + 1
    BY Zenon, <1>3, InsertDoes
  <2> QED
    BY <1>0, <2>2, <2>3 DEF RoomLeft
<1>4. ASSUME NEW t \in Fetchers, NEW p \in PoolPages, FetchHit(t, p) \/ FetchMiss(t, p) PROVE RoomLeft'
  <2>1. OnlyMoves(t) /\ lru' = lru /\ fetch[t].at = "out" /\ fetch'[t].at \in {"hit", "drop", "miss"}
    BY <1>4, LookDoes
  <2>2. t \notin Admitting /\ t \notin Admitting' /\ Len(lru') <= Len(lru)
    BY <1>0, <2>1 DEF Admitting
  <2> QED
    BY <1>1, <2>1, <2>2
<1>5. ASSUME NEW t \in Fetchers, FetchTouch(t) \/ FetchDrop(t) \/ FetchLoad(t) PROVE RoomLeft'
  <2>1. /\ OnlyMoves(t) /\ (Len(lru') <= Len(lru) \/ Len(lru') = Len(lru))
        /\ fetch[t].at \in {"hit", "drop", "miss"} /\ fetch'[t].at \in {"out", "miss", "admit"}
    <3>1. CASE FetchTouch(t)
      BY Zenon, <3>1, TouchDoes
    <3>2. CASE FetchDrop(t)
      BY Zenon, <3>2, DropDoes
    <3>3. CASE FetchLoad(t)
      BY Zenon, <3>3, LoadDoes
    <3> QED
      BY Zenon, <1>5, <3>1, <3>2, <3>3
  <2>2. t \notin Admitting /\ t \notin Admitting' /\ Len(lru') <= Len(lru)
    BY <1>0, <2>1 DEF Admitting
  <2> QED
    BY Zenon, <1>1, <2>1, <2>2
<1>6. ASSUME NEW t \in Fetchers, FetchCheckDirty(t) \/ FetchWriteBack(t) \/ FetchForget(t) PROVE RoomLeft'
  <2>1. /\ OnlyMoves(t) /\ lru' = lru
        /\ fetch[t].at \in {"popped", "writing", "forget"} /\ fetch'[t].at \in {"writing", "forget", "insert"}
    BY <1>6, CheckDoes, WriteBackDoes, ForgetDoes
  <2>2. t \in Admitting /\ t \in Admitting' /\ Len(lru') <= Len(lru)
    BY <1>0, <2>1 DEF Admitting
  <2> QED
    BY SMTT(20), Z3T(20), <1>1, <2>1, <2>2
<1>7. ASSUME Exclusive, fetch' = fetch, Len(lru') <= Len(lru) \/ Len(lru') <= Capacity PROVE RoomLeft'
  <2>1. Admitting' = {} /\ Admitting = {} /\ Cardinality({}) = 0
    BY <1>7, FS_EmptySet DEF Admitting, Exclusive, Fetching
  <2> QED
    BY <1>0, <1>7, <2>1 DEF RoomLeft
<1>8. ASSUME NEW p \in PoolPages, PoolWrite(p) \/ MarkDirty(p) \/ Invalidate(p) PROVE RoomLeft'
  <2>1. CASE PoolWrite(p)
    BY Zenon, <1>7, <2>1, WriteDoes DEF Writes
  <2>2. CASE MarkDirty(p)
    <3>1. Exclusive /\ fetch' = fetch /\ lru' = lru
      BY Zenon, <2>2 DEF MarkDirty
    <3> QED
      BY <1>0, <1>7, <3>1
  <2>3. CASE Invalidate(p)
    BY Zenon, <1>7, <2>3, InvalidateDoes
  <2> QED
    BY <1>8, <2>1, <2>2, <2>3
<1>9. CASE FlushAll
  <2>1. Exclusive /\ fetch' = fetch /\ lru' = lru
    BY Zenon, <1>9, FlushDoes
  <2> QED
    BY <1>0, <1>7, <2>1
<1> QED
  BY Zenon, <1>2, <1>3, <1>4, <1>5, <1>6, <1>8, <1>9 DEF PoolNext

LEMMA CacheInit == PoolInit => CacheIInv
<1> SUFFICES ASSUME PoolInit PROVE CacheIInv
  OBVIOUS
<1>1. /\ lru = <<>> /\ copy = [p \in PoolPages |-> 0] /\ stored = [p \in PoolPages |-> 0]
      /\ newest = [p \in PoolPages |-> 0] /\ writeCalls = 0 /\ lastLsn = 0
      /\ fetch = [t \in Fetchers |-> NoFetch] /\ NoFetch \in Fetches /\ NoFetch.at = "out"
  BY NoFetchIs DEF PoolInit
<1>2. \A t \in Fetchers : fetch[t].at = "out"
  BY <1>1
<1>3. CacheTypeOK
  BY <1>1 DEF CacheTypeOK
<1>4. CacheOK
  BY <1>1, <1>2 DEF CacheOK, CopiesNewest, CleanStored, VictimsNewest, LoadsNewest, Somewhere, Evicting, Cached
<1>5. Admitting = {} /\ Cardinality({}) = 0 /\ Len(lru) = 0
  BY <1>1, <1>2, FS_EmptySet DEF Admitting
<1>6. RoomLeft
  BY <1>5, AdmittingCounts DEF RoomLeft
<1> QED
  BY <1>3, <1>4, <1>6 DEF CacheIInv

LEMMA CacheStep == CacheIInv /\ [PoolNext]_poolVars => CacheIInv'
<1>1. ASSUME CacheIInv, PoolNext PROVE CacheIInv'
  <2>0. CacheTypeOK /\ CacheOK /\ RoomLeft
    BY <1>1 DEF CacheIInv
  <2>1. CASE \E t \in Fetchers : \E p \in PoolPages : FetchHit(t, p) \/ FetchMiss(t, p)
    BY Zenon, <2>0, <2>1, LookKeeps, CacheTypeKept, RoomKept, <1>1 DEF CacheIInv
  <2>2. ASSUME CacheOK' PROVE CacheIInv'
    BY Zenon, <1>1, <2>0, <2>2, CacheTypeKept, RoomKept DEF CacheIInv
  <2>3. ASSUME NEW t \in Fetchers, FetchTouch(t) \/ FetchDrop(t) \/ FetchLoad(t) PROVE CacheIInv'
    BY Zenon, <2>0, <2>2, <2>3, TouchKeeps, DropKeeps, LoadKeeps
  <2>4. ASSUME NEW t \in Fetchers, FetchEvict(t) \/ FetchCheckDirty(t) \/ FetchWriteBack(t) PROVE CacheIInv'
    BY Zenon, <2>0, <2>2, <2>4, EvictKeeps, CheckKeeps, WriteBackKeeps
  <2>5. ASSUME NEW t \in Fetchers, FetchForget(t) \/ FetchInsert(t) PROVE CacheIInv'
    BY Zenon, <2>0, <2>2, <2>5, ForgetKeeps, InsertKeeps
  <2>6. ASSUME NEW p \in PoolPages, PoolWrite(p) \/ MarkDirty(p) \/ Invalidate(p) PROVE CacheIInv'
    BY Zenon, <2>0, <2>2, <2>6, WriteKeeps, MarkKeeps, InvalidateKeeps
  <2>7. CASE FlushAll
    BY Zenon, <2>0, <2>2, <2>7, FlushKeeps
  <2> QED
    BY Zenon, <1>1, <2>1, <2>3, <2>4, <2>5, <2>6, <2>7 DEF PoolNext
<1>2. ASSUME CacheIInv, UNCHANGED poolVars PROVE CacheIInv'
  <2>1. CacheTypeOK' /\ RoomLeft'
    BY SMTT(20), Z3T(20), <1>2 DEF CacheIInv, CacheTypeOK, RoomLeft, Admitting, poolVars
  <2>2. CopiesNewest' /\ Somewhere'
    BY SMTT(20), Z3T(20), <1>2 DEF CacheIInv, CacheOK, CopiesNewest, Somewhere, Exempt, InEviction, Cached, poolVars
  <2>3. CleanStored' /\ VictimsNewest' /\ LoadsNewest'
    BY <1>2 DEF CacheIInv, CacheOK, CleanStored, VictimsNewest, LoadsNewest, Exempt, Evicting, Fetching, InEviction,
       poolVars
  <2> QED
    BY Zenon, <2>1, <2>2, <2>3 DEF CacheIInv, CacheOK
<1> QED
  BY <1>1, <1>2

\* The page cache, for any threads, pages, capacity and number of calls: what
\* was last written to a page is in the cache, in the file or on its way there,
\* a cached copy is the newest, and no more than one page per thread but one is
\* over the capacity; whatever steps of fetch_page overlap.
THEOREM PoolCoherent == PoolSpec => []CacheCoherent
<1>1. CacheIInv => CacheCoherent
  <2> SUFFICES ASSUME CacheIInv PROVE CacheCoherent
    OBVIOUS
  <2>1. CacheTypeOK /\ CacheOK /\ RoomLeft
    BY DEF CacheIInv
  <2>2. CopiesNewest
    BY Zenon, <2>1 DEF CacheOK
  <2>3. DirtyKept
    <3> SUFFICES ASSUME NEW p \in PoolPages \ (lost \cup reread), stored[p] # newest[p], ~Cached(p)
                 PROVE  \E t \in Fetchers :
                          fetch[t].at \in {"popped", "writing"} /\ fetch[t].victim = [pid |-> p, data |-> newest[p]]
      BY Zenon, <2>2 DEF DirtyKept, CopiesNewest
    <3>1. PICK t \in Fetchers : fetch[t].at \in {"popped", "writing"} /\ fetch[t].victim.pid = p
      BY <2>1 DEF CacheOK, Somewhere, Exempt, InEviction
    <3>2. fetch[t].victim.data = newest[p] /\ fetch[t].victim \in [pid : PoolPages, data : Nat]
      BY <2>1, <3>1 DEF CacheOK, VictimsNewest, Evicting, Exempt, CacheTypeOK, Fetches
    <3> QED
      BY Zenon, <3>1, <3>2
  <2>4. CacheBounded
    BY <2>1, AdmittingCounts DEF RoomLeft, CacheBounded, CacheTypeOK
  <2> QED
    BY <2>2, <2>3, <2>4 DEF CacheCoherent
<1> QED
  BY <1>1, CacheInit, CacheStep, PTL DEF PoolSpec
=============================================================================
