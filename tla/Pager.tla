------------------------------- MODULE Pager --------------------------------
(***************************************************************************)
(* Processes that have one file open, and allocate and free pages in it.   *)
(* A process may be killed between any two writes.  A behaviour is         *)
(* followed to the end of the first call that started from a stale cache,  *)
(* or until a process died between the two writes of a pop: beyond, the    *)
(* free list may lead anywhere and nothing is claimed.                     *)
(***************************************************************************)
EXTENDS PagerCalls, FiniteSets

CONSTANTS
  Procs,
  MaxFilePages,   \* bound on the pages of the file
  MaxKilled       \* bound on the processes killed

ASSUME PagerAssumption == MaxFilePages \in Nat /\ MaxFilePages > Reserved /\ MaxKilled \in Nat

VARIABLES
  file,    \* page id -> page
  cached,  \* _num_pages and _free_head of each process
  writes,  \* writes the running call of each process has still to make
  job,     \* the page that call hands out, or NO_PAGE
  held,    \* pages handed out and not freed
  killed,
  torn,    \* (history) a process was killed between the two writes of a pop
  stale    \* (history) a process started a call during another's, or with an old header cached

pagerVars == <<file, cached, writes, job, held, killed, torn, stale>>

Closed == [num |-> 0, free |-> NO_FREE]
IsOpen(p) == cached[p] # Closed
Quiet(p)  == writes[p] = <<>>
Trustworthy == ~torn /\ ~stale

PagerInit ==
  /\ file = EmptyFile
  /\ cached = [p \in Procs |-> Closed] /\ writes = [p \in Procs |-> <<>>]
  /\ job = [p \in Procs |-> NO_PAGE] /\ held = {}
  /\ killed = 0 /\ torn = FALSE /\ stale = FALSE

Head0      == Header(file)
CacheOf(r) == [num |-> r.num, free |-> r.free]
Stale(p)   == cached[p] # Head0 \/ \E q \in Procs : ~Quiet(q)

OpenFile(p) ==
  /\ ~IsOpen(p) /\ HasMagic(file)
  /\ cached' = [cached EXCEPT ![p] = Head0]
  /\ UNCHANGED <<file, writes, job, held, killed, torn, stale>>

\* A call, up to its first write; its writes follow one by one.
Start(p, c) ==
  /\ IsOpen(p) /\ Quiet(p) /\ Trustworthy
  /\ ~c.err /\ c.num <= MaxFilePages
  /\ cached' = [cached EXCEPT ![p] = CacheOf(c)]
  /\ writes' = [writes EXCEPT ![p] = c.out]
  /\ job' = [job EXCEPT ![p] = c.got]
  /\ stale' = (stale \/ Stale(p))
  /\ UNCHANGED <<file, killed, torn>>

Allocate(p) == Start(p, AllocatePage(Call(file, cached[p]))) /\ UNCHANGED held
Free(p, pid) ==
  /\ pid \in held
  /\ Start(p, FreePage(Call(file, cached[p]), pid))
  /\ held' = held \ {pid}

\* set_last_lsn and close write the header as this process knows it.
Stamp(p) == Start(p, WriteHeader(Call(file, cached[p]))) /\ UNCHANGED held
CloseFile(p) ==
  /\ IsOpen(p) /\ Quiet(p) /\ Trustworthy
  /\ file' = WriteHeader(Call(file, cached[p])).pages
  /\ cached' = [cached EXCEPT ![p] = Closed]
  /\ stale' = (stale \/ Stale(p))
  /\ UNCHANGED <<writes, job, held, killed, torn>>

FlushWrite(p) ==
  /\ ~Quiet(p)
  /\ file' = Put(file, Head(writes[p]))
  /\ writes' = [writes EXCEPT ![p] = Tail(@)]
  /\ IF Len(writes[p]) = 1 /\ job[p] # NO_PAGE
       THEN held' = held \cup {job[p]} /\ job' = [job EXCEPT ![p] = NO_PAGE]
       ELSE UNCHANGED <<held, job>>
  /\ UNCHANGED <<cached, killed, torn, stale>>

\* Between the two writes of a pop the header names a page that is zero.
PoppingIn == Head0.free \in DOMAIN file /\ file[Head0.free] = Blank

KillProcess(p) ==
  /\ IsOpen(p) /\ Trustworthy /\ killed < MaxKilled
  /\ killed' = killed + 1
  /\ torn' = (torn \/ (~Quiet(p) /\ PoppingIn))
  /\ cached' = [cached EXCEPT ![p] = Closed]
  /\ writes' = [writes EXCEPT ![p] = <<>>]
  /\ job' = [job EXCEPT ![p] = NO_PAGE]
  /\ UNCHANGED <<file, held, stale>>

PagerNext ==
  \E p \in Procs :
    \/ OpenFile(p) \/ Allocate(p) \/ Stamp(p) \/ CloseFile(p) \/ FlushWrite(p) \/ KillProcess(p)
    \/ \E pid \in held : Free(p, pid)
PagerSpec == PagerInit /\ [][PagerNext]_pagerVars
-----------------------------------------------------------------------------
\* The free list as a reader of the file finds it: where each page leads.
Link(pid)   == IF pid \in DOMAIN file THEN file[pid].word ELSE NO_FREE
FreeList    ==
  LET Reach[n \in 0..MaxFilePages] ==
        IF n = 0 THEN {Head0.free} \ {NO_FREE}
        ELSE LET seen == Reach[n - 1] IN seen \cup ({Link(i) : i \in seen} \ {NO_FREE})
  IN  Reach[MaxFilePages]
DataPages   == Reserved..(Head0.num - 1)

\* "Pages 1..3 are reserved for the catalog and cannot be allocated for data":
\* whatever a process was killed in, but for the two writes of a pop, and as
\* long as no process works from a header that another has changed since, the
\* free list holds data pages that nobody uses, and it ends.
FreeListSound ==
  Trustworthy /\ ~(\E p \in Procs : ~Quiet(p) /\ PoppingIn) =>
    /\ FreeList \subseteq DataPages \ held
    /\ \A i, j \in FreeList : Link(i) = Link(j) => i = j

\* "Return a fresh, zero-filled page_id": the page a call is about to hand out
\* is a data page in nobody's hands, in this process or another, now or since
\* before a restart.
HandedOutOnce ==
  [][Trustworthy' => \A p \in Procs : job'[p] \notin {job[p], NO_PAGE} =>
       job'[p] >= Reserved /\ job'[p] \notin held \cup {job[q] : q \in Procs}]_pagerVars

\* "tinydb reuses pages via the free list": unless a process was killed, no page is lost.
NoPageLost ==
  killed = 0 /\ ~stale /\ (\A p \in Procs : Quiet(p)) => DataPages = held \cup FreeList

\* The header never counts pages the file does not have, whatever happened.
HeaderWithinFile == ~stale => Head0.num <= Cardinality(DOMAIN file)

\* allocate_page, free_page and _write_header together: the free list, the pages
\* in use and the header account for the file.
PagesAccountedFor == FreeListSound /\ NoPageLost /\ HeaderWithinFile
=============================================================================
