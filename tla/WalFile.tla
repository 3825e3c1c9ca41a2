------------------------------- MODULE WalFile -------------------------------
(***************************************************************************)
(* tinydb.tx.wal.WAL as a file: frames appended by one process after the   *)
(* other, some cut short by a crash in the middle of the write.            *)
(*                                                                         *)
(* A frame is its header (lsn, type, length), its payload and its CRC; of  *)
(* its size bytes the file has the first have.  The readers walk the file  *)
(* from frame to frame by the length in the header, so behind a frame that *)
(* was cut short they take the bytes of later frames for its own.  The CRC *)
(* finds such a mixture out; bytes are not corrupted otherwise.            *)
(***************************************************************************)
EXTENDS Integers, Sequences, Folds

CONSTANTS
  HeaderSize,        \* _HEADER_SIZE
  Sizes,             \* sizes of whole frames
  AppendsPastTear,   \* whether callers append behind a frame cut short
  MaxFrames          \* bound on frames written

ASSUME SizesAssumption ==
  /\ HeaderSize \in Nat \ {0}
  /\ \A s \in Sizes : s \in Nat /\ s > HeaderSize
ASSUME LimitAssumption == AppendsPastTear \in BOOLEAN /\ MaxFrames \in Nat

VARIABLES
  file,     \* the frames in the file
  open,     \* whether a process has it open
  next,     \* its _next_lsn
  written,  \* (bound, and the identity of frames) frames written so far
  kept      \* (history) frames whose append returned, less the truncated

fileVars == <<file, open, next, written, kept>>

FileInit == file = <<>> /\ open = FALSE /\ next = 1 /\ written = 0 /\ kept = <<>>

Whole(f) == f.have = f.size
\* The frames the walk finds intact: those before the first one cut short.
Intact == {i \in DOMAIN file : \A j \in 1..i : Whole(file[j])}
Aligned == Len(file) = 0 \/ Len(file) \in Intact

\* The bytes from frame i on.
BytesFrom(i) ==
  MapThenFoldSet(+, 0, LAMBDA j : file[j].have, LAMBDA S : CHOOSE x \in S : TRUE, i..Len(file))

\* How iter_from ends: at the end of the file, at a "torn tail", or with
\* WALCorruptionError.  A header that mixes two frames may say any length.
Ending ==
  IF Aligned THEN {"eof"}
  ELSE LET i == CHOOSE i \in DOMAIN file : ~Whole(file[i]) /\ \A j \in 1..(i - 1) : Whole(file[j])
       IN  IF BytesFrom(i) < HeaderSize THEN {"torn"}
           ELSE IF file[i].have < HeaderSize THEN {"torn", "corrupt"}
           ELSE IF BytesFrom(i) < file[i].size THEN {"torn"} ELSE {"corrupt"}

\* _recover_lsn: the walk also stops at a frame whose lsn is not the next.
RecoverLsn ==
  CHOOSE n \in 1..(Len(file) + 1) :
    /\ \A i \in 1..(n - 1) : i \in Intact /\ file[i].lsn = i
    /\ n \in Intact => file[n].lsn # n

Open ==
  /\ ~open /\ open' = TRUE
  /\ next' = RecoverLsn
  /\ UNCHANGED <<file, written, kept>>

\* close, or the death of the process between two calls.
Leave ==
  /\ open /\ open' = FALSE
  /\ UNCHANGED <<file, next, written, kept>>

Frame(n, have) == [lsn |-> next, id |-> written + 1, size |-> n, have |-> have]

\* append: seek to the end, write, flush.
MayAppend == open /\ written < MaxFrames /\ (Aligned \/ AppendsPastTear)

AppendFrame(n) ==
  /\ MayAppend
  /\ file' = Append(file, Frame(n, n))
  /\ next' = next + 1
  /\ written' = written + 1
  /\ kept' = Append(kept, written + 1)
  /\ UNCHANGED open

\* The process dies in the write: the file has some of the bytes.
AppendCutShort(n, have) ==
  /\ MayAppend
  /\ file' = Append(file, Frame(n, have))
  /\ open' = FALSE
  /\ written' = written + 1
  /\ UNCHANGED <<next, kept>>

\* truncate_to: cut the file at the first frame with LSN >= lsn whose header
\* can be read; with none the file and _next_lsn stay as they are.
Cuttable(i, lsn) == file[i].lsn >= lsn /\ file[i].have >= HeaderSize

TruncateTo_LsnStays(lsn) ==
  /\ open /\ lsn \in 1..next
  /\ \A i \in DOMAIN file : Whole(file[i]) \/ i = Len(file)
  /\ file' = SelectSeq(file, LAMBDA f : f.lsn < lsn)
  /\ kept' = SubSeq(kept, 1, IF lsn - 1 < Len(kept) THEN lsn - 1 ELSE Len(kept))
  /\ UNCHANGED <<open, next, written>>
TruncateTo(lsn) ==
  /\ open /\ lsn \in 1..next
  /\ \A i \in DOMAIN file : Whole(file[i]) \/ i = Len(file)
  /\ IF \E i \in DOMAIN file : Cuttable(i, lsn)
       THEN LET i == CHOOSE i \in DOMAIN file :
                       Cuttable(i, lsn) /\ \A j \in 1..(i - 1) : ~Cuttable(j, lsn)
            IN  file' = SubSeq(file, 1, i - 1) /\ next' = lsn
       ELSE UNCHANGED <<file, next>>
  /\ kept' = SubSeq(kept, 1, IF lsn - 1 < Len(kept) THEN lsn - 1 ELSE Len(kept))
  /\ UNCHANGED <<open, written>>

FileNext ==
  \/ Open \/ Leave
  \/ \E n \in Sizes : AppendFrame(n) \/ \E have \in 1..(n - 1) : AppendCutShort(n, have)
  \/ \E lsn \in 1..(MaxFrames + 1) : TruncateTo(lsn)

FileSpec == FileInit /\ [][FileNext]_fileVars
-----------------------------------------------------------------------------
FileTypeOK ==
  /\ \A i \in DOMAIN file : /\ file[i].size \in Sizes /\ file[i].have \in 1..file[i].size
                            /\ file[i].lsn \in 1..MaxFrames /\ file[i].id \in 1..written
  /\ open \in BOOLEAN /\ next \in 1..(MaxFrames + 1) /\ written \in 0..MaxFrames
  /\ kept \in Seq(1..written)

\* Reading the log back, now or after any crash, gives the frames whose append
\* returned and that were not truncated: all of them, once, in order.
ReadsBackAppends == [i \in Intact |-> file[i].id] = kept

\* LSNs count the frames, and the next one is new: neither a reopening nor a
\* truncation nor a frame cut short makes append reuse the LSN of a frame.
LsnsCountFrames ==
  /\ \A i \in Intact : file[i].lsn = i
  /\ open => \A i \in Intact : file[i].lsn < next

\* "Stops cleanly at a torn tail; raises WALCorruptionError on a completed frame
\* whose CRC32 does not match its contents": with none such, it never raises.
StopsCleanly == "corrupt" \notin Ending

\* append, _recover_lsn, iter_from and truncate_to together: the log reads back
\* what was appended, under LSNs that count the frames.
LogReadsBack == FileTypeOK /\ ReadsBackAppends /\ LsnsCountFrames
=============================================================================
