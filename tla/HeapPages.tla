------------------------------ MODULE HeapPages ------------------------------
(***************************************************************************)
(* storage/heap.py and free_space.py: records in slotted pages, chained by *)
(* the first word of the page.  Calls are those of PagerCalls with a log:  *)
(* _write_page_logged hands the new image to log_page_write, outside a     *)
(* transaction an append to the WAL, before it writes the page.            *)
(*                                                                         *)
(* A record is its name and its length; positions are byte offsets, so a   *)
(* record that runs into its own slot or under the page header is known.   *)
(***************************************************************************)
EXTENDS PagerCalls, FiniteSets

CONSTANTS
  PageSize,   \* PAGE_SIZE
  SlotSize,   \* SLOT_SIZE
  DataStart,  \* DATA_START
  MaxPages    \* bound on the pages of the file

ASSUME HeapAssumption ==
  PageSize \in Nat /\ SlotSize \in Nat \ {0} /\ DataStart \in Nat /\ MaxPages > Reserved

NO_NEXT == NO_FREE
NoRow   == 0            \* a slot whose flag is 0

HeapPage(next, slots, end) == Page(next, [kind |-> "heap", slots |-> slots, end |-> end])
EmptyHeap == HeapPage(NO_NEXT, <<>>, DataStart)

\* _read_header: a zero page reads as one without slots whose data start at 0;
\* on the file header the words of MAGIC are taken for the counts.
IsHeap(page) == page.body.kind \in {"heap", "zero"}
Slots(page)  == IF page.body.kind = "heap" THEN page.body.slots ELSE <<>>
DataEnd(page) == IF page.body.kind = "heap" THEN page.body.end ELSE 0

\* _refresh_fsm raises (FreeSpaceMap.update) when this is negative.
FreeBytes(page) ==
  IF IsHeap(page) THEN PageSize - Len(Slots(page)) * SlotSize - DataEnd(page) ELSE -1

\* The pages that scan and insert visit, up to one that is no heap page.
Chain(pages, head) ==
  LET Visit[n \in 0..MaxPages] ==
        IF n = 0 THEN <<head>>
        ELSE LET seen == Visit[n - 1]
                 last == pages[seen[Len(seen)]]
             IN  IF IsHeap(last) /\ last.word \in DOMAIN pages /\ Len(seen) = n
                 THEN Append(seen, last.word) ELSE seen
  IN  Visit[MaxPages]
ChainEnds(pages, head) ==
  LET chain == Chain(pages, head) IN pages[chain[Len(chain)]].word = NO_NEXT

\* A write of the log: the image of one page.
Logged(pid, page) == [at |-> {pid}, page |-> page, log |-> TRUE]
IsLogged(w) == "log" \in DOMAIN w

WriteLogged(c, pid, page) ==
  IF c.err THEN c ELSE WritePage([c EXCEPT !.out = Append(@, Logged(pid, page))], pid, page)

\* Heap.__init__
NewHeap(c) == LET c1 == AllocatePage(c) IN WritePage(c1, c1.got, EmptyHeap)

\* _append_overflow_page; got is the new page.
AppendOverflowPage_LinkLost(c, tail) ==
  LET c1 == AllocatePage(c)
  IN  IF c1.err THEN c1 ELSE WriteLogged(c1, c1.got, EmptyHeap)
AppendOverflowPage(c, tail) ==
  LET c1 == AllocatePage(c)
      c2 == WriteLogged(c1, tail, [c1.pages[tail] EXCEPT !.word = c1.got])
  IN  IF c1.err THEN c1 ELSE WriteLogged(c2, c1.got, EmptyHeap)

\* The second half of insert.  A page image longer than a page is refused by
\* log_page_write; one whose free space is negative is found out afterwards.
PutRecord(c, pid, row, len) ==
  LET page  == c.pages[pid]
      slots == Slots(page)
      start == DataEnd(page)
      whole == start >= DataStart /\ start + len <= PageSize - (Len(slots) + 1) * SlotSize
      new   == HeapPage(page.word, Append(slots, [row |-> row, len |-> len, whole |-> whole]),
                        start + len)
      c1    == WriteLogged(c, pid, new)
  IN  IF start + len > PageSize THEN Raise(c)
      ELSE IF FreeBytes(new) < 0 THEN Raise(c1) ELSE c1

\* Heap.insert: the first page of the chain with room, or a new one.
InsertRecord(c, head, row, len) ==
  LET needed == SlotSize + len
      chain  == Chain(c.pages, head)
      free   == [i \in DOMAIN chain |-> FreeBytes(c.pages[chain[i]])]
      stops  == {i \in DOMAIN chain : free[i] < 0 \/ free[i] >= needed}
      i      == CHOOSE i \in stops : \A j \in stops : i <= j
      c1     == AppendOverflowPage(c, chain[Len(chain)])
  IN  CASE stops # {} /\ free[i] < 0            -> Raise(c)
        [] stops # {} /\ free[i] >= 0           -> PutRecord(c, chain[i], row, len)
        [] stops = {} /\ ~ChainEnds(c.pages, head) -> Raise(c)
        [] stops = {} /\ ChainEnds(c.pages, head)  ->
             IF c1.err THEN c1 ELSE PutRecord(c1, c1.got, row, len)

\* Heap.delete
DeleteRecord(c, pid, s) ==
  LET page == c.pages[pid]
      gone == [row |-> NoRow, len |-> 0, whole |-> TRUE]
  IN  WriteLogged(c, pid, HeapPage(page.word, [Slots(page) EXCEPT ![s] = gone], DataEnd(page)))

\* Heap.scan: the places of the live records.
Live(pages, head) ==
  LET chain == Chain(pages, head)
  IN  UNION {{<<chain[i], s>> : s \in {s \in DOMAIN Slots(pages[chain[i]]) :
                                        Slots(pages[chain[i]])[s].row # NoRow}} : i \in DOMAIN chain}
\* Heap.read
RecordAt(pages, rid) == Slots(pages[rid[1]])[rid[2]]
=============================================================================
