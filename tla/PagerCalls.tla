---------------------------- MODULE PagerCalls ------------------------------
(***************************************************************************)
(* storage/pager.py: page 0 is the header, the pages below Reserved belong *)
(* to the catalog, and the rest is handed out by allocate_page, first from *)
(* a list threaded through the free pages, then by extending the file.     *)
(* A process caches page count and list head when it opens the file.       *)
(*                                                                         *)
(* A call is a record: the file as the process sees it (pages), what it    *)
(* caches (num, free), and the writes it has issued (out).  Every write    *)
(* names the pages it covers and is flushed before the next is issued, so  *)
(* a process that is killed leaves the writes of a prefix of out.  Once    *)
(* the call has raised (err) nothing more is written.                      *)
(***************************************************************************)
EXTENDS Integers, Sequences

CONSTANT Reserved   \* _RESERVED_PAGES

ASSUME ReservedAssumption == Reserved \in Nat \ {0}

NO_FREE == -1
NO_PAGE == -2
Magic   == 1498296660       \* the first four bytes of MAGIC as a u32

\* A page is its first word, where a free page keeps its link, and the rest.
Page(word, body) == [word |-> word, body |-> body]
Blank            == Page(0, [kind |-> "zero"])
HeaderPage(num, free) == Page(Magic, [kind |-> "header", num |-> num, free |-> free])
Write(at, page) == [at |-> at, page |-> page]
Put(file, w)    == [i \in DOMAIN file \cup w.at |-> IF i \in w.at THEN w.page ELSE file[i]]
Emit(c, at, page) ==
  IF c.err THEN c
  ELSE [c EXCEPT !.pages = Put(@, Write(at, page)), !.out = Append(@, Write(at, page))]

Call(file, m) == [pages |-> file, num |-> m.num, free |-> m.free,
                  out |-> <<>>, got |-> NO_PAGE, err |-> FALSE]
Raise(c)      == [c EXCEPT !.err = TRUE, !.got = NO_PAGE]

\* _write_header_unlocked
WriteHeader(c) == Emit(c, {0}, HeaderPage(c.num, c.free))

\* _extend_to_unlocked
Extend(c, n) ==
  IF n <= c.num THEN c
  ELSE WriteHeader([Emit(c, c.num..(n - 1), Blank) EXCEPT !.num = n])

\* read_page returns: the page was allocated and is in the file.
Readable(c, pid) == pid \in 0..(c.num - 1) /\ pid \in DOMAIN c.pages

\* write_page: page 0 keeps the header fields.
WritePage(c, pid, page) ==
  LET grown == Extend(c, pid + 1)
  IN  Emit(grown, {pid}, IF pid = 0 THEN HeaderPage(grown.num, grown.free) ELSE page)

AllocatePage_OffByOne(c) ==
  IF c.free # NO_FREE
  THEN IF c.err \/ c.free \notin DOMAIN c.pages THEN Raise(c)
       ELSE WriteHeader([Emit(c, {c.free}, Blank)
                           EXCEPT !.free = c.pages[c.free].word, !.got = c.free])
  ELSE [Extend(c, c.num + 1) EXCEPT !.got = c.num - 1]
\* allocate_page: the link is read from the page, whatever is there.
AllocatePage(c) ==
  IF c.free # NO_FREE
  THEN IF c.err \/ c.free \notin DOMAIN c.pages THEN Raise(c)
       ELSE WriteHeader([Emit(c, {c.free}, Blank)
                           EXCEPT !.free = c.pages[c.free].word, !.got = c.free])
  ELSE [Extend(c, c.num + 1) EXCEPT !.got = c.num]

\* free_page writes the first word only.
FreePage_NotLinked(c, pid) ==
  IF pid < Reserved \/ pid >= c.num THEN Raise(c)
  ELSE WriteHeader([c EXCEPT !.free = pid])
FreePage(c, pid) ==
  IF pid < Reserved \/ pid >= c.num THEN Raise(c)
  ELSE WriteHeader([Emit(c, {pid}, [c.pages[pid] EXCEPT !.word = c.free]) EXCEPT !.free = pid])

\* _init_new; _open_file raises when page 0 has lost its magic.
EmptyFile      == [i \in 0..(Reserved - 1) |-> IF i = 0 THEN HeaderPage(Reserved, NO_FREE) ELSE Blank]
HasMagic(file) == file[0].word = Magic
\* _read_header
Header(file)   == IF HasMagic(file) THEN [num |-> file[0].body.num, free |-> file[0].body.free]
                                    ELSE [num |-> 0, free |-> NO_FREE]
=============================================================================
