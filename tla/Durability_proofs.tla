-------------------------- MODULE Durability_proofs --------------------------
(***************************************************************************)
(* One database file and its log through any number of crashes and         *)
(* reopenings, for any pages, workload and bounds: the log is ahead of the *)
(* pages, and as long as it is clean the file reopens to what was          *)
(* acknowledged.                                                           *)
(***************************************************************************)
EXTENDS DurableLog_proofs

(* A clean log                                                             *)

Sound == DurIInv /\ ImagesOK /\ LogIsClean /\ CleanIInv

\* What the log says of a page that it has records of does not depend on the
\* page; of the others it says nothing.
LEMMA SaysOf ==
  ASSUME NEW log, NEW p
  PROVE  /\ TouchesOf(log, p) # {} => \A x, y : OutcomeOf(log, p, x) = OutcomeOf(log, p, y)
         /\ TouchesOf(log, p) = {} => \A x : OutcomeOf(log, p, x) = x
  BY DEF OutcomeOf, WinsAt

\* A transaction without a COMMIT is not redone.
LEMMA OpenNotRedone == active # 0 /\ ~Has("COMMIT", active) => ~Redoable(wal, active)
  BY DEF Redoable, Committed, Has, AUTOCOMMIT

\* A clean log has the id of a transaction that begins only once, ...
LEMMA BeginsFresh ==
  ASSUME DurIInv, LogIsClean', Begin
  PROVE  \A i \in 1..Len(wal) :
           wal[i].type \in {"BEGIN", "PAGE", "COMMIT", "ROLLBACK"} => wal[i].tx # nextTx
<1> DEFINE n == Len(wal)
<1>0. n \in Nat /\ nextTx \in Nat /\ nextTx > 0 /\ TypeOK
  BY LogLength DEF DurIInv, ManagerOK, TypeOK
<1>1. Grows(wal, BeginRec(nextTx), wal') /\ BeginRec(nextTx).type = "BEGIN" /\ BeginRec(nextTx).tx = nextTx
  BY <1>0, WalMore
<1>2. wal'[n + 1].type = "BEGIN" /\ wal'[n + 1].tx = nextTx /\ \A i \in 1..n : wal'[i] = wal[i]
  BY <1>1 DEF Grows
<1>3. DOMAIN wal' = 1..(n + 1)
  <2>1. BeginRec(nextTx) \in Records
    BY <1>0 DEF Records, BeginRec
  <2>2. wal' \in Seq(Records) /\ Len(wal') = n + 1
    BY <1>0, <2>1, WalGrows DEF Begin
  <2> QED
    BY <2>2, SeqIs
<1>4. \A i \in 1..n : i \in 1..(n + 1) /\ i # n + 1
  BY <1>0
<1>5. n + 1 \in 1..(n + 1)
  BY <1>0
<1>6. ASSUME NEW i \in 1..n, wal[i].type = "BEGIN" PROVE wal[i].tx # nextTx
  BY <1>2, <1>3, <1>4, <1>5, <1>6 DEF LogIsClean
<1>7. ASSUME NEW i \in 1..n, wal[i].type \in {"PAGE", "COMMIT", "ROLLBACK"} PROVE wal[i].tx # nextTx
  <2>1. \A j \in 1..(i - 1) : j \in 1..n
    BY <1>0
  <2> QED
    BY <1>0, <1>6, <1>7, <2>1 DEF DurIInv, BeginsOK
<1> QED
  BY <1>6, <1>7

\* ... and a page that a transaction writes it has not written before.
LEMMA WritesOnce ==
  ASSUME TypeOK, LogIsClean', NEW p \in Pages, LogWrite(p), active # 0
  PROVE  TouchesAt(wal, active, p) = {}
<1> DEFINE n == Len(wal)
<1>0. n \in Nat
  BY LogLength
<1>1. /\ TouchesOf(wal', p) = TouchesOf(wal, p) \cup {n + 1}
      /\ \A i \in 1..n : wal'[i] = wal[i]
  BY PageLogged DEF Kept
<1>2. wal'[n + 1].tx = active
  <2>1. Grows(wal, PageRec(active, p, pages[p], fresh + 1), wal')
    BY WalMore
  <2> QED
    BY <2>1 DEF Grows, PageRec
<1>3. TouchedOncePerTx(wal', p)
  BY DEF LogIsClean
<1>4. ASSUME NEW i \in TouchesAt(wal, active, p) PROVE FALSE
  <2>1. i \in TouchesOf(wal, p) /\ i \in 1..n /\ wal[i].tx = active
    BY DEF TouchesAt, TouchesOf
  <2>2. i # n + 1 /\ wal'[i] = wal[i]
    BY <1>0, <1>1, <2>1
  <2> QED
    BY <1>1, <1>2, <1>3, <2>1, <2>2 DEF TouchedOncePerTx, AUTOCOMMIT
<1> QED
  BY <1>4

\* The pages that the open transaction has written have its record last.
LEMMA WroteLast ==
  ASSUME Sound, active # 0, step = "ready", NEW p \in Pages, NEW w \in TouchesAt(wal, active, p)
  PROVE  /\ w \in TouchesOf(wal, p) /\ wal[w].tx = active /\ wal[w].after = pages[p]
         /\ \A j \in TouchesOf(wal, p) : j <= w
<1>0. Len(wal) \in Nat
  BY LogLength DEF Sound, DurIInv
<1>1. w \in TouchesOf(wal, p) /\ w \in 1..Len(wal) /\ wal[w].tx = active /\ wal[w].type = "PAGE" /\ wal[w].page = p
  BY DEF TouchesAt, TouchesOf
<1>2. wal[w].after = pages[p] /\ \A j \in 1..Len(wal) : wal[j].type = "PAGE" /\ wal[j].tx # active => j < w
  BY <1>1 DEF Sound, CleanIInv, OpenTxOK
<1>3. TouchedOncePerTx(wal, p)
  BY DEF Sound, LogIsClean
<1>4. ASSUME NEW j \in TouchesOf(wal, p) PROVE j <= w
  <2>1. j \in 1..Len(wal) /\ wal[j].type = "PAGE"
    BY DEF TouchesOf
  <2>2. CASE wal[j].tx # active
    BY <1>0, <1>1, <1>2, <2>1, <2>2
  <2>3. CASE wal[j].tx = active
    <3>1. j = w
      <4>1. \E i \in TouchesOf(wal, p) : wal[i].tx # 0
        BY <1>1
      <4>2. \A i, k \in TouchesOf(wal, p) : wal[i].tx = wal[k].tx => i = k
        BY <1>3, <4>1 DEF TouchedOncePerTx, AUTOCOMMIT
      <4>3. wal[j].tx = wal[w].tx /\ j \in TouchesOf(wal, p) /\ w \in TouchesOf(wal, p)
        BY <1>1, <2>3
      <4> QED
        BY <4>2, <4>3, Zenon
    <3> QED
      BY <1>0, <1>1, <3>1
  <2> QED
    BY <2>2, <2>3
<1> QED
  BY <1>1, <1>2, <1>4

\* What was lost with the power says nothing of any page.
LEMMA SaysCut ==
  ASSUME Sound, PowerFails # "any", PowerLoss, NEW p \in Pages
  PROVE  Says(p)' = Says(p)
<1>0. Len(wal) \in Nat /\ synced \in 0..Len(wal) /\ TypeOK
  BY LogLength DEF Sound, DurIInv, TypeOK
<1>1. PICK n \in synced..Len(wal) :
        Len(wal') = n /\ n \in Nat /\ n <= Len(wal) /\ \A i \in 1..n : i \in 1..Len(wal) /\ wal'[i] = wal[i]
  BY <1>0, WalCut
<1>2. \A i \in 1..Len(wal) : wal[i].type = "PAGE" => i \in 1..synced
  <2>1. \A i \in (synced + 1)..Len(wal) : wal[i].type # "PAGE"
    BY WorkloadAssumption DEF PowerLoss
  <2>2. \A i \in 1..Len(wal) : i \in 1..synced \/ i \in (synced + 1)..Len(wal)
    BY <1>0
  <2> QED
    BY <2>1, <2>2
<1>3. \A i \in 1..synced : i \in 1..n
  BY <1>0, <1>1
<1>4. TouchesOf(wal', p) = TouchesOf(wal, p) /\ \A i \in TouchesOf(wal, p) : wal'[i] = wal[i]
  BY <1>1, <1>2, <1>3 DEF TouchesOf
<1>5. ASSUME NEW i \in TouchesOf(wal, p)
      PROVE  Redoable(wal', wal[i].tx) <=> Redoable(wal, wal[i].tx)
  <2> DEFINE t == wal[i].tx
  <2>1. i \in 1..synced /\ wal[i].type = "PAGE"
    BY <1>2 DEF TouchesOf
  <2>2. \A j \in 1..Len(wal) : wal[j].type \in {"COMMIT", "ROLLBACK"} /\ wal[j].tx = t => j <= synced
    BY <2>1 DEF Sound, CleanIInv, EndsOK
  <2>3. \A j \in 1..Len(wal) : wal[j].type \in {"COMMIT", "ROLLBACK"} /\ wal[j].tx = t => j \in 1..n
    BY <1>0, <1>1, <2>2
  <2> HIDE DEF t
  <2>4. \A j \in 1..Len(wal) : \A k \in (j + 1)..Len(wal) : k \in 1..Len(wal) /\ (k \in 1..n => k \in (j + 1)..n)
    BY <1>0, <1>1
  <2>5. \A j \in 1..n : \A k \in (j + 1)..n : k \in (j + 1)..Len(wal) /\ k \in 1..n
    BY <1>0, <1>1
  <2>6. Committed(wal, t) => Committed(wal', t)
    BY <1>1, <2>3, <2>5 DEF Committed
  <2>7. Committed(wal', t) => Committed(wal, t)
    BY <1>1, <2>3, <2>4 DEF Committed
  <2> QED
    BY <2>6, <2>7 DEF Redoable, t
<1>6. WinsAt(wal', p) = WinsAt(wal, p)
  BY <1>4, <1>5 DEF WinsAt
<1>7. \A x : OutcomeOf(wal', p, x) = OutcomeOf(wal, p, x)
  BY <1>0, <1>4, <1>6, OutcomeSame
<1>8. CASE TouchesOf(wal, p) # {}
  BY <1>7, <1>8, SaysOf DEF Says
<1>9. CASE TouchesOf(wal, p) = {}
  <2>1. pages'[p] = pages[p]
    <3>1. media[p] = {pages[p]}
      BY <1>9 DEF Sound, ImagesOK
    <3>2. p \in DOMAIN pages
      BY <1>0 DEF TypeOK
    <3>3. pages'[p] \in media[p]
      BY <3>2 DEF PowerLoss
    <3> QED
      BY <3>1, <3>3
  <2> QED
    BY <1>7, <2>1 DEF Says
<1> QED
  BY <1>8, <1>9

\* What the log says of the pages after a step: what it said, unless the step
\* is an autocommit write, of its page, ...
LEMMA SaysKept ==
  ASSUME Sound, LogIsClean', PowerFails # "any", Next, ~AppendCommit, NEW p \in Pages,
         LogWrite(p) => active # 0
  PROVE  Says(p)' = Says(p)
<1>0. Len(wal) \in Nat /\ TypeOK /\ ManagerOK /\ p # HeaderPage
  BY LogLength, PagesAssumption DEF Sound, DurIInv, HeaderPage
<1>1. ASSUME wal' = wal, pages'[p] = pages[p] \/ TouchesOf(wal, p) # {}
      PROVE  Says(p)' = Says(p)
  <2>1. CASE TouchesOf(wal, p) # {}
    BY <1>1, <2>1, SaysOf DEF Says
  <2>2. CASE pages'[p] = pages[p]
    BY <1>1, <2>2 DEF Says
  <2> QED
    BY <1>1, <2>1, <2>2
<1>2. ASSUME NEW q \in Pages, NEW v \in Nat, WriteFile(q, v), wal' = wal, TouchesOf(wal, q) # {}
      PROVE  Says(p)' = Says(p)
  <2>1. pages'[p] = IF p = q THEN v ELSE pages[p]
    <3>1. TypeOK
      BY <1>0
    <3>2. \A x \in Pages \cup {HeaderPage} : pages'[x] = IF x = q THEN v ELSE pages[x]
      BY Zenon, <1>2, <3>1, FileWritten
    <3> QED
      BY <3>2
  <2> QED
    BY <1>1, <1>2, <2>1
<1>3. CASE Begin \/ Checkpoint
  <2>1. PICK r : Grows(wal, r, wal') /\ r.type \notin {"PAGE", "COMMIT", "ROLLBACK"}
    BY Zenon, <1>0, <1>3, WalMore
  <2>2. pages' = pages
    BY <1>3 DEF Begin, Checkpoint
  <2>3. OutcomeOf(wal', p, pages[p]) = OutcomeOf(wal, p, pages[p])
    BY <1>0, <2>1, OutcomeIdle
  <2> QED
    BY <2>2, <2>3 DEF Says
<1>4. ASSUME NEW q \in Pages, LogWrite(q) PROVE Says(p)' = Says(p)
  <2> DEFINE r == PageRec(active, q, pages[q], fresh + 1)
  <2>1. /\ Grows(wal, r, wal') /\ r.type = "PAGE" /\ r.page = q /\ r.before = pages[q] /\ r.tx = active
        /\ pages' = pages
    <3>1. /\ Grows(wal, r, wal') /\ r.type = "PAGE" /\ r.page = q /\ r.before = pages[q] /\ r.tx = active
      BY Zenon, <1>0, <1>4, WalMore
    <3>2. pages' = pages
      BY <1>4 DEF LogWrite
    <3> QED
      BY <3>1, <3>2
  <2> HIDE DEF r
  <2>2. CASE active # 0
    <3>1. ~Has("COMMIT", active)
      BY <1>4, <2>2 DEF Sound, CleanIInv, OpenTxOK, LogWrite, Running, Committing
    <3>2. ~Redoable(wal, r.tx)
      BY <2>1, <2>2, <3>1, OpenNotRedone
    <3>3. OutcomeOf(wal', p, pages[p]) = OutcomeOf(wal, p, pages[p])
      BY <1>0, <2>1, <3>2, OutcomeLoser
    <3> QED
      BY <2>1, <3>3 DEF Says
  <2>3. CASE active = 0
    <3>1. p # q
      BY <1>4, <2>3
    <3>2. TouchesOf(wal', p) = TouchesOf(wal, p) /\ \A i \in TouchesOf(wal, p) : wal'[i] = wal[i]
      BY <1>0, <2>1, <3>1, TouchesGrow
    <3>3. \A t : Redoable(wal', t) <=> Redoable(wal, t)
      BY <1>0, <2>1, RedoableGrows
    <3>4. WinsAt(wal', p) = WinsAt(wal, p)
      BY <3>2, <3>3 DEF WinsAt
    <3>5. OutcomeOf(wal', p, pages[p]) = OutcomeOf(wal, p, pages[p])
      BY <1>0, <3>2, <3>4, OutcomeSame
    <3> QED
      BY <2>1, <3>5 DEF Says
  <2> QED
    BY <2>2, <2>3
<1>5. CASE AppendRollback
  <2>1. /\ Grows(wal, RollbackRec(active), wal') /\ RollbackRec(active).type = "ROLLBACK"
        /\ RollbackRec(active).tx = active /\ pages' = pages /\ active # 0
    BY Zenon, <1>0, <1>5, WalMore DEF AppendRollback
  <2>2. ~Has("COMMIT", active)
    BY Zenon, <1>5 DEF Sound, CleanIInv, OpenTxOK, AppendRollback, Running, Committing
  <2>3. ~Redoable(wal, active)
    BY <2>1, <2>2, OpenNotRedone
  <2>4. OutcomeOf(wal', p, pages[p]) = OutcomeOf(wal, p, pages[p])
    BY <1>0, <2>1, <2>3, OutcomeEnd DEF AUTOCOMMIT
  <2> QED
    BY <2>1, <2>4 DEF Says
<1>6. CASE PowerLoss
  BY <1>6, SaysCut
<1>7. CASE /\ ~(PowerLoss \/ Begin \/ AppendRollback \/ Checkpoint)
           /\ ~\E q \in Pages : LogWrite(q)
  <2>1. wal' = wal
    BY <1>7, WalSame DEF Next
  <2>2. CASE UNCHANGED <<pages, media>> \/ Close
    BY <1>1, <2>1, <2>2 DEF Close
  <2>3. CASE ApplyWrite /\ cur[1] \in Pages /\ WriteFile(cur[1], cur[2])
    <3>1. cur[2] \in Nat /\ InLog(cur[1], cur[2])
      BY <1>0, <2>3 DEF TypeOK, Sound, ImagesOK, ApplyWrite, Running
    <3>2. TouchesOf(wal, cur[1]) # {}
      BY <3>1 DEF InLog
    <3> QED
      BY SMTT(20), Z3T(20), <1>2, <2>1, <2>3, <3>1, <3>2
  <2>4. CASE StampHeader /\ WriteFile(HeaderPage, Len(wal))
    <3>1. TypeOK
      BY <1>0
    <3>2. \A x \in Pages \cup {HeaderPage} : pages'[x] = IF x = HeaderPage THEN Len(wal) ELSE pages[x]
      BY Zenon, <1>0, <2>4, <3>1, FileWritten
    <3> QED
      BY <1>0, <1>1, <2>1, <3>2
  <2>5. CASE /\ UndoWrite /\ logged # <<>> /\ Len(logged) \in DOMAIN logged
             /\ logged[Len(logged)] \in Pages \X Nat
             /\ WriteFile(logged[Len(logged)][1], logged[Len(logged)][2])
    <3>1. InLog(logged[Len(logged)][1], logged[Len(logged)][2])
      BY Zenon, <2>5 DEF Sound, ImagesOK
    <3>2. TouchesOf(wal, logged[Len(logged)][1]) # {}
      BY <3>1 DEF InLog
    <3> QED
      BY Zenon, <1>2, <2>1, <2>5, <3>2
  <2>6. ASSUME NEW q \in Pages, WriteFile(q, Image(wal, q)), TouchesOf(wal, q) # {}
        PROVE  Says(p)' = Says(p)
    BY <1>0, <1>2, <2>1, <2>6, ImageType
  <2> QED
    BY <1>0, <1>7, <2>2, <2>3, <2>4, <2>5, <2>6, FileSteps
<1> QED
  BY <1>3, <1>4, <1>5, <1>6, <1>7

\* ... what it writes, ...
LEMMA SaysWritten ==
  ASSUME Sound, NEW p \in Pages, LogWrite(p), active = 0
  PROVE  Says(p)' = fresh + 1
<1> DEFINE n == Len(wal)
           r == PageRec(active, p, pages[p], fresh + 1)
<1>0. n \in Nat /\ TypeOK
  BY LogLength DEF Sound, DurIInv
<1>1. /\ TouchesOf(wal', p) = TouchesOf(wal, p) \cup {n + 1}
      /\ wal'[n + 1].after = fresh + 1
  BY <1>0, PageLogged
<1>2. Grows(wal, r, wal') /\ r.tx = active
  BY <1>0, WalMore
<1>3. wal'[n + 1].tx = 0 /\ Len(wal') \in Nat
  BY <1>0, <1>2 DEF Grows
<1>4. \A j \in TouchesOf(wal', p) : j <= n + 1
  BY <1>0, <1>1 DEF TouchesOf
<1>5. Redoable(wal', wal'[n + 1].tx)
  BY <1>3 DEF Redoable, AUTOCOMMIT
<1>6. n + 1 \in TouchesOf(wal', p)
  BY <1>1
<1> HIDE DEF n
<1>7. \A x : OutcomeOf(wal', p, x) = wal'[n + 1].after
  BY <1>3, <1>4, <1>5, <1>6, OutcomeWinner
<1> QED
  BY <1>1, <1>7 DEF Says

\* ... or a COMMIT: what the pages are.
LEMMA SaysCommitted ==
  ASSUME Sound, AppendCommit, NEW p \in Pages
  PROVE  Says(p)' = pages[p] /\ pages'[p] = pages[p]
<1>0. Len(wal) \in Nat /\ TypeOK /\ active # 0 /\ step = "ready" /\ phase = "up" /\ pages' = pages
  BY LogLength DEF Sound, DurIInv, AppendCommit, Running
<1> DEFINE r == CommitRec(active)
<1>1. Grows(wal, r, wal') /\ r.type = "COMMIT" /\ r.tx = active
  BY Zenon, <1>0, WalMore
<1> HIDE DEF r
<1>2. TouchesOf(wal', p) = TouchesOf(wal, p) /\ \A i \in TouchesOf(wal, p) : wal'[i] = wal[i]
  BY <1>0, <1>1, TouchesGrow
<1>3. CASE TouchesAt(wal, active, p) = {}
  <2>1. OutcomeOf(wal', p, pages[p]) = OutcomeOf(wal, p, pages[p])
    BY <1>0, <1>1, <1>3, OutcomeEnd DEF AUTOCOMMIT
  <2>2. \A k \in DOMAIN logged : logged[k][1] # p
    BY <1>0, <1>3 DEF Sound, CleanIInv, OpenTxOK
  <2>3. pages[p] = Says(p)
    BY <1>0, <2>2 DEF Sound, CleanIInv, StateOK, Committing
  <2> QED
    BY <1>0, <2>1, <2>3 DEF Says
<1>4. ASSUME NEW w \in TouchesAt(wal, active, p) PROVE Says(p)' = pages[p]
  <2>1. /\ w \in TouchesOf(wal, p) /\ wal[w].tx = active /\ wal[w].after = pages[p]
        /\ \A j \in TouchesOf(wal, p) : j <= w
    BY <1>0, WroteLast
  <2>2. Redoable(wal', active) /\ Len(wal') \in Nat
    BY <1>0, <1>1, RedoableGrows, GrowsKeeps
  <2>3. w \in TouchesOf(wal', p) /\ Redoable(wal', wal'[w].tx) /\ \A j \in TouchesOf(wal', p) : j <= w
    BY <1>2, <2>1, <2>2
  <2>4. \A x : OutcomeOf(wal', p, x) = wal'[w].after
    BY <2>2, <2>3, OutcomeWinner
  <2>5. wal'[w].after = pages[p]
    BY <1>2, <2>1
  <2> QED
    BY <2>4, <2>5 DEF Says
<1> QED
  BY <1>0, <1>3, <1>4
-----------------------------------------------------------------------------
\* commit() and rollback() fsync what ends a transaction with all it wrote.
LEMMA EndsKept ==
  ASSUME Sound, Next
  PROVE  EndsOK'
<1> DEFINE n == Len(wal)
<1>0. n \in Nat /\ synced \in 0..n /\ TypeOK /\ \A i \in 1..synced : i \in 1..n
  BY LogLength DEF Sound, DurIInv, TypeOK
<1>e. \A i \in 1..synced, j \in 1..n :
        /\ wal[i].type = "PAGE" /\ wal[j].type \in {"COMMIT", "ROLLBACK"} /\ wal[i].tx = wal[j].tx
        => j <= synced
  BY DEF Sound, CleanIInv, EndsOK
<1>1. ASSUME NEW r, Grows(wal, r, wal'), synced' = synced,
             r.type \in {"COMMIT", "ROLLBACK"} =>
               \A i \in 1..synced : wal[i].type = "PAGE" => wal[i].tx # r.tx
      PROVE  EndsOK'
  <2>1. Len(wal') = n + 1 /\ wal'[n + 1] = r /\ \A i \in 1..n : wal'[i] = wal[i]
    BY <1>1 DEF Grows
  <2>2. \A j \in 1..(n + 1) : j \in 1..n \/ j = n + 1
    BY <1>0
  <2> HIDE DEF n
  <2> QED
    BY <1>0, <1>1, <1>e, <2>1, <2>2 DEF EndsOK
<1>2. ASSUME wal' = wal, synced' = synced PROVE EndsOK'
  BY <1>2, <1>e DEF EndsOK
<1>3. CASE \/ Begin \/ Checkpoint \/ \E p \in Pages : LogWrite(p)
  <2>1. synced' = synced
    BY <1>3 DEF Begin, Checkpoint, LogWrite
  <2>2. \E r : Grows(wal, r, wal') /\ r.type \notin {"COMMIT", "ROLLBACK"}
    BY <1>0, <1>3, WalMore
  <2> QED
    BY <1>1, <2>1, <2>2
<1>4. CASE AppendCommit \/ AppendRollback
  <2>1. synced' = synced /\ active # 0 /\ step = "ready"
    BY <1>4 DEF AppendCommit, AppendRollback, Running
  <2>2. \A i \in 1..n : wal[i].type = "PAGE" /\ wal[i].tx = active => i > synced
    BY <2>1 DEF Sound, CleanIInv, OpenTxOK
  <2>3. \A i \in 1..synced : ~(i > synced)
    BY <1>0
  <2>4. \E r : Grows(wal, r, wal') /\ r.tx = active
    BY <1>0, <1>4, WalMore
  <2> QED
    BY <1>0, <1>1, <2>1, <2>2, <2>3, <2>4
<1>5. CASE FsyncCommit \/ FsyncRollback
  <2>1. synced' = n /\ wal' = wal
    BY <1>5 DEF FsyncCommit, FsyncRollback, FsyncWal
  <2>2. \A j \in 1..n : j <= n
    BY <1>0
  <2> QED
    BY <2>1, <2>2 DEF EndsOK
<1>6. CASE PowerLoss
  <2>1. PICK m \in synced..n :
          Len(wal') = m /\ m \in Nat /\ m <= n /\ \A i \in 1..m : i \in 1..n /\ wal'[i] = wal[i]
    BY <1>0, <1>6, WalCut
  <2>2. synced' = synced /\ \A i \in 1..synced : i \in 1..m
    BY <1>0, <1>6, <2>1 DEF PowerLoss
  <2> QED
    BY <1>e, <2>1, <2>2 DEF EndsOK
<1>7. CASE \/ ApplyWrite \/ \E p \in Pages : ReplayPage(p)
           \/ StampHeader \/ FinishCommit \/ UndoWrite \/ FinishRollback
           \/ Close \/ Crash \/ Open \/ OpenDone
  <2>1. synced' = synced
    BY <1>7 DEF ApplyWrite, ReplayPage, StampHeader, FinishCommit,
       UndoWrite, FinishRollback, Close, Crash, Open, OpenDone, files
  <2> QED
    BY <1>2, <1>7, <2>1, WalSame
<1> QED
  BY <1>3, <1>4, <1>5, <1>6, <1>7 DEF Next

\* The open transaction after a step.
LEMMA OpenTxKept ==
  ASSUME Sound, LogIsClean', Next
  PROVE  OpenTxOK'
<1> DEFINE n == Len(wal)
<1>0. n \in Nat /\ synced \in 0..n /\ TypeOK /\ ManagerOK /\ logged \in Seq(Pages \X Nat)
  BY LogLength DEF Sound, DurIInv, TypeOK
<1>1. CASE Begin
  <2>1. \A i \in 1..n : wal[i].type \in {"BEGIN", "PAGE", "COMMIT", "ROLLBACK"} => wal[i].tx # nextTx
    BY <1>1, BeginsFresh DEF Sound
  <2>2. /\ Grows(wal, BeginRec(nextTx), wal') /\ BeginRec(nextTx).type = "BEGIN"
        /\ active' = nextTx /\ logged' = <<>> /\ step' = "ready"
    BY Zenon, <1>0, <1>1, WalMore DEF Begin, Running
  <2>3. Len(wal') = n + 1 /\ wal'[n + 1].type = "BEGIN" /\ \A i \in 1..n : wal'[i] = wal[i]
    BY <2>2 DEF Grows
  <2>4. \A i \in 1..(n + 1) : i \in 1..n \/ i = n + 1
    BY <1>0
  <2> HIDE DEF n
  <2>5. \A i \in 1..Len(wal') : wal'[i].type \in {"PAGE", "COMMIT"} => wal'[i].tx # active'
    BY <2>1, <2>2, <2>3, <2>4
  <2>6. DOMAIN logged' = {} /\ step' # "logged"
    BY <2>2
  <2> QED
    BY <2>5, <2>6 DEF OpenTxOK, Has
<1>2. ASSUME NEW p \in Pages, LogWrite(p), active # 0 PROVE OpenTxOK'
  <2> DEFINE r == PageRec(active, p, pages[p], fresh + 1)
  <2>1. /\ Grows(wal, r, wal') /\ r.type = "PAGE" /\ r.tx = active /\ r.page = p /\ r.after = fresh + 1
    BY Zenon, <1>0, <1>2, WalMore
  <2> HIDE DEF r
  <2>2. Len(wal') = n + 1 /\ wal'[n + 1] = r /\ \A i \in 1..n : wal'[i] = wal[i]
    BY <2>1 DEF Grows
  <2>3. /\ UNCHANGED <<synced, pages, active>> /\ step = "ready" /\ step' = "logged"
        /\ logged' = Append(logged, <<p, pages[p]>>) /\ cur' = <<p, fresh + 1>>
    BY <1>2 DEF LogWrite, Running
  <2>4. \A k \in DOMAIN logged' : (k \in DOMAIN logged /\ logged'[k] = logged[k]) \/ logged'[k] = <<p, pages[p]>>
    BY <1>0, <2>3
  <2>5. /\ \A k \in DOMAIN logged : k \in DOMAIN logged' /\ logged'[k] = logged[k]
        /\ \E k \in DOMAIN logged' : logged'[k][1] = p
    <3>1. /\ Len(logged) + 1 \in DOMAIN logged' /\ logged'[Len(logged) + 1] = <<p, pages[p]>>
          /\ \A k \in DOMAIN logged : k \in DOMAIN logged' /\ logged'[k] = logged[k]
      BY <1>0, <2>3
    <3> QED
      BY <3>1
  <2>6. TouchesAt(wal, active, p) = {}
    BY <1>0, <1>2, WritesOnce
  <2>7. \A i \in 1..(n + 1) : i \in 1..n \/ i = n + 1
    BY <1>0
  <2>8. n + 1 > synced /\ n + 1 \in 1..(n + 1) /\ \A j \in 1..n : j < n + 1 /\ j \in 1..(n + 1)
    BY <1>0
  <2>9. /\ ~Has("COMMIT", active)
        /\ \A i \in 1..n : wal[i].type = "PAGE" /\ wal[i].tx = active =>
             /\ i > synced
             /\ \A j \in 1..n : wal[j].type = "PAGE" /\ wal[j].tx # active => j < i
             /\ \E k \in DOMAIN logged : logged[k][1] = wal[i].page
             /\ wal[i].after = pages[wal[i].page]
        /\ \A k \in DOMAIN logged : TouchesAt(wal, active, logged[k][1]) # {}
    BY <1>2, <2>3 DEF Sound, CleanIInv, OpenTxOK, Committing
  <2> HIDE DEF n
  <2>10. ~Has("COMMIT", active)'
    BY <2>1, <2>2, <2>3, <2>7, <2>9 DEF Has, n
  <2>11. ASSUME NEW i \in 1..n, wal[i].type = "PAGE", wal[i].tx = active PROVE wal[i].page # p
    BY <2>6, <2>11 DEF TouchesAt, n
  <2>12. cur'[1] = p /\ cur'[2] = fresh + 1
    BY <2>3
  <2>13. ASSUME NEW i \in 1..Len(wal'), wal'[i].type = "PAGE", wal'[i].tx = active
         PROVE  /\ i > synced
                /\ \A j \in 1..Len(wal') : wal'[j].type = "PAGE" /\ wal'[j].tx # active => j < i
                /\ \E k \in DOMAIN logged' : logged'[k][1] = wal'[i].page
                /\ wal'[i].after = IF wal'[i].page = cur'[1] THEN cur'[2] ELSE pages[wal'[i].page]
    <3>1. CASE i \in 1..n
      <4>1. wal'[i] = wal[i] /\ wal[i].page # p
        BY <2>2, <2>11, <2>13, <3>1
      <4>2. \A j \in 1..Len(wal') : wal'[j].tx # active => j \in 1..n /\ wal'[j] = wal[j]
        BY <2>1, <2>2, <2>7
      <4>3. i > synced /\ wal[i].after = pages[wal[i].page]
        BY <2>9, <2>13, <3>1, <4>1
      <4>4. \A j \in 1..Len(wal') : wal'[j].type = "PAGE" /\ wal'[j].tx # active => j < i
        BY <2>9, <2>13, <3>1, <4>1, <4>2
      <4>5. \E k \in DOMAIN logged' : logged'[k][1] = wal'[i].page
        BY <2>5, <2>9, <2>13, <3>1, <4>1
      <4> QED
        BY <2>12, <4>1, <4>3, <4>4, <4>5
    <3>2. CASE i = n + 1
      <4>1. \A j \in 1..Len(wal') : wal'[j].tx # active => j < i
        BY <2>1, <2>2, <2>7, <2>8, <3>2
      <4> QED
        BY <2>1, <2>2, <2>5, <2>8, <2>12, <3>2, <4>1
    <3> QED
      BY <2>2, <2>7, <3>1, <3>2
  <2>14. ASSUME NEW k \in DOMAIN logged' PROVE TouchesAt(wal', active, logged'[k][1]) # {}
    <3>1. CASE k \in DOMAIN logged /\ logged'[k] = logged[k]
      <4>1. PICK i \in TouchesAt(wal, active, logged[k][1]) : TRUE
        BY <2>9, <3>1
      <4>2. i \in TouchesAt(wal', active, logged[k][1])
        BY <2>2, <2>8, <4>1 DEF TouchesAt, n
      <4> QED
        BY <3>1, <4>2
    <3>2. CASE logged'[k] = <<p, pages[p]>>
      <4>1. n + 1 \in TouchesAt(wal', active, p)
        BY <2>1, <2>2, <2>8 DEF TouchesAt
      <4> QED
        BY <3>2, <4>1
    <3> QED
      BY <2>4, <3>1, <3>2
  <2> QED
    BY Zenon, <2>3, <2>5, <2>10, <2>12, <2>13, <2>14 DEF OpenTxOK
<1>4. CASE ApplyWrite
  <2>1. /\ UNCHANGED <<wal, synced, active, logged>> /\ step = "logged" /\ step' = "ready"
        /\ WriteFile(cur[1], cur[2]) /\ cur[1] \in Pages \cup {HeaderPage} /\ cur[2] \in Nat
    BY <1>0, <1>4 DEF ApplyWrite, Running, TypeOK
  <2>2. \A q \in Pages \cup {HeaderPage} : pages'[q] = IF q = cur[1] THEN cur[2] ELSE pages[q]
    <3>1. TypeOK
      BY <1>0
    <3>2. \A q \in Pages \cup {HeaderPage}, v \in Nat : WriteFile(q, v) =>
            \A x \in Pages \cup {HeaderPage} : pages'[x] = IF x = q THEN v ELSE pages[x]
      BY Zenon, <3>1, FileWritten
    <3> QED
      BY <2>1, <3>2
  <2>3. \A i \in 1..n : wal[i].type = "PAGE" => wal[i].page \in Pages
    BY <1>0, RecordFields
  <2>4. ASSUME NEW i \in 1..n, wal[i].type = "PAGE", wal[i].tx = active, active # 0
        PROVE  wal[i].after = pages'[wal[i].page]
    <3>1. wal[i].after = IF wal[i].page = cur[1] THEN cur[2] ELSE pages[wal[i].page]
      BY <2>1, <2>4 DEF Sound, CleanIInv, OpenTxOK
    <3> QED
      BY <2>2, <2>3, <2>4, <3>1
  <2>5. ASSUME active # 0
        PROVE  /\ ~Has("COMMIT", active)
               /\ \A i \in 1..n : wal[i].type = "PAGE" /\ wal[i].tx = active =>
                    /\ i > synced
                    /\ \A j \in 1..n : wal[j].type = "PAGE" /\ wal[j].tx # active => j < i
                    /\ \E k \in DOMAIN logged : logged[k][1] = wal[i].page
               /\ \A k \in DOMAIN logged : TouchesAt(wal, active, logged[k][1]) # {}
    BY <2>1, <2>5 DEF Sound, CleanIInv, OpenTxOK, Committing
  <2> QED
    BY <2>1, <2>4, <2>5 DEF OpenTxOK, Has
<1>5. CASE AppendCommit \/ FsyncCommit \/ StampHeader
  BY Zenon, <1>5 DEF AppendCommit, FsyncCommit, FsyncWal, StampHeader, OpenTxOK, Committing
<1>6. CASE AppendRollback
  <2>1. Grows(wal, RollbackRec(active), wal') /\ RollbackRec(active).type = "ROLLBACK"
    BY Zenon, <1>0, <1>6, WalMore
  <2>2. active' = active /\ step' = "aborting" /\ (active # 0 => ~Has("COMMIT", active))
    BY <1>6 DEF AppendRollback, Running, Sound, CleanIInv, OpenTxOK, Committing
  <2>3. Len(wal') = n + 1 /\ wal'[n + 1].type = "ROLLBACK" /\ \A i \in 1..n : wal'[i] = wal[i]
    BY <2>1 DEF Grows
  <2>4. \A i \in 1..(n + 1) : i \in 1..n \/ i = n + 1
    BY <1>0
  <2>5. active # 0 => ~Has("COMMIT", active)'
    BY <2>2, <2>3, <2>4 DEF Has
  <2> QED
    BY <2>2, <2>5 DEF OpenTxOK
<1>7. CASE FsyncRollback \/ UndoWrite
  <2>1. wal' = wal /\ active' = active /\ step' = "undoing" /\ step \in {"aborting", "undoing"}
    BY <1>7 DEF FsyncRollback, FsyncWal, UndoWrite, Running
  <2> QED
    BY Zenon, <2>1 DEF Sound, CleanIInv, OpenTxOK, Has, Committing
<1>8. CASE Checkpoint
  <2>1. PICK r : Grows(wal, r, wal') /\ r.type = "CKPT"
    BY Zenon, <1>0, <1>8, WalMore
  <2>2. UNCHANGED <<synced, pages, cur, active, logged>> /\ step' = "ready" /\ step = "ready"
    BY <1>8 DEF Checkpoint, manager, Running
  <2>3. Len(wal') = n + 1 /\ wal'[n + 1].type = "CKPT" /\ \A i \in 1..n : wal'[i] = wal[i]
    BY <2>1 DEF Grows
  <2>4. \A i \in 1..(n + 1) : i \in 1..n \/ i = n + 1
    BY <1>0
  <2>5. ASSUME active # 0
        PROVE  /\ ~Has("COMMIT", active)
               /\ \A i \in 1..n : wal[i].type = "PAGE" /\ wal[i].tx = active =>
                    /\ i > synced
                    /\ \A j \in 1..n : wal[j].type = "PAGE" /\ wal[j].tx # active => j < i
                    /\ \E k \in DOMAIN logged : logged[k][1] = wal[i].page
                    /\ wal[i].after = pages[wal[i].page]
               /\ \A k \in DOMAIN logged : TouchesAt(wal, active, logged[k][1]) # {}
    BY <2>2, <2>5 DEF Sound, CleanIInv, OpenTxOK, Committing
  <2>6. \A q : TouchesAt(wal', active, q) = TouchesAt(wal, active, q)
    <3>1. \A i \in 1..n : i \in 1..(n + 1)
      BY <1>0
    <3> QED
      BY <2>3, <2>4, <3>1 DEF TouchesAt
  <2>7. ASSUME active # 0 PROVE ~Has("COMMIT", active)'
    BY <2>2, <2>3, <2>4, <2>5, <2>7 DEF Has
  <2> HIDE DEF n
  <2>8. \A i \in 1..Len(wal') : wal'[i].type = "PAGE" => i \in 1..n /\ wal'[i] = wal[i]
    BY <2>3, <2>4
  <2> QED
    BY Zenon, <2>2, <2>5, <2>6, <2>7, <2>8 DEF OpenTxOK
<1>9. CASE \/ FinishCommit \/ FinishRollback \/ Close \/ Crash \/ PowerLoss \/ Open \/ OpenDone
           \/ (\E p \in Pages : ReplayPage(p)) \/ (active = 0 /\ \E p \in Pages : LogWrite(p))
  <2>1. active' = 0
    BY <1>0, <1>9 DEF FinishCommit, FinishRollback, Close, Crash, PowerLoss, Open, OpenDone,
       ReplayPage, LogWrite, Volatile, manager, ManagerOK
  <2> QED
    BY <2>1 DEF OpenTxOK
<1> QED
  BY <1>1, <1>2, <1>4, <1>5, <1>6, <1>7, <1>8, <1>9 DEF Next

\* The pages against the log after a step.
LEMMA StateKept ==
  ASSUME Sound, LogIsClean', PowerFails # "any", Next
  PROVE  StateOK'
<1>0. /\ TypeOK /\ ManagerOK /\ Len(wal) \in Nat /\ logged \in Seq(Pages \X Nat) /\ outcomes \subseteq [Pages -> Nat]
      /\ Said \in outcomes
  BY LogLength DEF Sound, DurIInv, TypeOK, CleanIInv, StateOK
<1>1. ASSUME \A p \in Pages : Says(p)' = Says(p) PROVE Said' = Said
  BY <1>1 DEF Said
<1>2. ASSUME ~AppendCommit, active # 0 \/ ~\E p \in Pages : LogWrite(p)
      PROVE  /\ \A p \in Pages : Says(p)' = Says(p)
             /\ Said' = Said
  BY <1>1, <1>2, SaysKept
<1>3. ASSUME phase = "up", active = 0 \/ step \in Committing, step # "logged"
      PROVE  \A p \in Pages : pages[p] = Says(p)
  BY <1>3 DEF Sound, CleanIInv, StateOK
<1>4. ASSUME phase = "up", active = 0, step = "ready"
      PROVE  outcomes = {Said} /\ \A p \in Pages : pages[p] = Says(p)
  BY <1>4 DEF Sound, CleanIInv, StateOK
<1>5. ASSUME phase = "up", active # 0, step \notin Committing
      PROVE  /\ outcomes = {Said}
             /\ \A k \in DOMAIN logged : logged[k][2] = Says(logged[k][1])
             /\ \A p \in Pages : (\A k \in DOMAIN logged : logged[k][1] # p) => pages[p] = Says(p)
  BY <1>5 DEF Sound, CleanIInv, StateOK
<1>6. ASSUME \A p \in Pages : pages[p] = Says(p) PROVE Contents(pages) = Said
  BY <1>6 DEF Contents, Said
<1>7. \A k \in DOMAIN logged : logged[k][1] \in Pages
  BY <1>0
<1> DEFINE Clauses == /\ Said' \in outcomes'
                      /\ phase' = "up" /\ active' # 0 /\ step' \notin Committing =>
                           /\ outcomes' = {Said'}
                           /\ \A k \in DOMAIN logged' : logged'[k][2] = OutcomeOf(wal', logged'[k][1], pages'[logged'[k][1]])
                           /\ \A p \in Pages : (\A k \in DOMAIN logged' : logged'[k][1] # p) => pages'[p] = Says(p)'
                      /\ phase' = "up" /\ active' = 0 /\ step' = "ready" => outcomes' = {Said'}
                      /\ phase' = "up" /\ active' = 0 /\ step' = "logged" =>
                           OutcomeOf(wal', cur'[1], pages'[cur'[1]]) = cur'[2]
                      /\ phase' = "up" /\ (active' = 0 \/ step' \in Committing) =>
                           \A p \in Pages : pages'[p] = Says(p)' \/ (step' = "logged" /\ p = cur'[1])
                      /\ phase' = "replaying" => \A p \in Pages \ todo' : pages'[p] = Says(p)'
<1>8. Clauses => StateOK'
  BY Zenon DEF StateOK, Says
<1>9. CASE Begin
  <2>1. /\ phase = "up" /\ active = 0 /\ step = "ready" /\ pages' = pages /\ outcomes' = outcomes
        /\ phase' = "up" /\ active' # 0 /\ step' = "ready" /\ logged' = <<>>
    BY <1>0, <1>9 DEF Begin, Running, ManagerOK
  <2>2. (\A p \in Pages : Says(p)' = Says(p)) /\ Said' = Said
    BY <1>2, <1>9 DEF Begin, AppendCommit, LogWrite, AppendWal
  <2> QED
    BY <1>4, <1>8, <2>1, <2>2 DEF Committing
<1>10. ASSUME NEW p \in Pages, LogWrite(p), active # 0 PROVE StateOK'
  <2>1. /\ phase = "up" /\ step = "ready" /\ pages' = pages /\ outcomes' = outcomes /\ active' = active
        /\ phase' = "up" /\ step' = "logged" /\ logged' = Append(logged, <<p, pages[p]>>)
    BY <1>10 DEF LogWrite, Running
  <2>2. ~AppendCommit
    BY <1>10, <2>1 DEF AppendCommit
  <2>3. (\A q \in Pages : Says(q)' = Says(q)) /\ Said' = Said
    BY <1>2, <1>10, <2>2
  <2>4. TouchesAt(wal, active, p) = {}
    BY <1>0, <1>10, WritesOnce
  <2>5. \A k \in DOMAIN logged : logged[k][1] # p
    BY <1>10, <2>1, <2>4 DEF Sound, CleanIInv, OpenTxOK
  <2>6. pages[p] = Says(p)
    BY <1>5, <1>10, <2>1, <2>5 DEF Committing
  <2>7. \A k \in DOMAIN logged' : (k \in DOMAIN logged /\ logged'[k] = logged[k]) \/ logged'[k] = <<p, pages[p]>>
    BY <1>0, <2>1
  <2>8. \A k \in DOMAIN logged : k \in DOMAIN logged' /\ logged'[k] = logged[k]
    BY <1>0, <2>1
  <2>9. \A q \in Pages : OutcomeOf(wal', q, pages'[q]) = Says(q)
    BY <2>3 DEF Says
  <2>10. ASSUME NEW k \in DOMAIN logged'
         PROVE  logged'[k][2] = OutcomeOf(wal', logged'[k][1], pages'[logged'[k][1]])
    <3>1. CASE k \in DOMAIN logged /\ logged'[k] = logged[k]
      BY <1>5, <1>7, <1>10, <2>1, <2>9, <3>1 DEF Committing
    <3>2. CASE logged'[k] = <<p, pages[p]>>
      BY <2>6, <2>9, <3>2
    <3> QED
      BY <2>7, <3>1, <3>2
  <2>11. outcomes' = {Said'}
    BY <1>5, <1>10, <2>1, <2>3 DEF Committing
  <2>12. ASSUME NEW q \in Pages, \A k \in DOMAIN logged' : logged'[k][1] # q PROVE pages'[q] = Says(q)'
    <3>1. \A k \in DOMAIN logged : logged[k][1] # q
      BY <2>8, <2>12
    <3> QED
      BY <1>5, <1>10, <2>1, <2>3, <3>1 DEF Committing
  <2> QED
    BY <1>8, <1>10, <2>1, <2>10, <2>11, <2>12 DEF Committing
<1>11. ASSUME NEW p \in Pages, LogWrite(p), active = 0 PROVE StateOK'
  <2>1. /\ phase = "up" /\ step = "ready" /\ pages' = pages /\ active' = 0
        /\ phase' = "up" /\ step' = "logged" /\ cur'[1] = p /\ cur'[2] = fresh + 1
        /\ outcomes' = outcomes \cup {[f EXCEPT ![p] = fresh + 1] : f \in outcomes}
    BY <1>11 DEF LogWrite, Running
  <2>2. Says(p)' = fresh + 1
    BY <1>11, SaysWritten
  <2>3. ASSUME NEW q \in Pages, q # p PROVE Says(q)' = Says(q)
    <3>1. ~AppendCommit
      BY <1>11 DEF AppendCommit
    <3>2. ~LogWrite(q)
      BY <1>11, <2>1, <2>3 DEF LogWrite
    <3> QED
      BY <3>1, <3>2, SaysKept
  <2>4. Said' = [Said EXCEPT ![p] = fresh + 1]
    BY Zenon, <2>2, <2>3 DEF Said
  <2>5. Said' \in outcomes'
    BY Zenon, <1>0, <2>1, <2>4
  <2>6. OutcomeOf(wal', cur'[1], pages'[cur'[1]]) = cur'[2]
    BY <2>1, <2>2 DEF Says
  <2>7. \A q \in Pages : pages'[q] = Says(q)' \/ q = cur'[1]
    BY <1>4, <1>11, <2>1, <2>3
  <2> QED
    BY <1>8, <2>1, <2>5, <2>6, <2>7
<1>12. CASE ApplyWrite
  <2>1. /\ phase = "up" /\ phase' = "up" /\ step = "logged" /\ step' = "ready" /\ UNCHANGED <<wal, active, logged>>
        /\ WriteFile(cur[1], cur[2]) /\ cur[1] \in Pages /\ cur[2] \in Nat
        /\ outcomes' = IF active # 0 THEN outcomes ELSE {Contents(pages)'}
    BY <1>0, <1>12 DEF ApplyWrite, Running, TypeOK, ManagerOK, Contents
  <2>2. \A q \in Pages : pages'[q] = IF q = cur[1] THEN cur[2] ELSE pages[q]
    <3>1. TypeOK
      BY <1>0
    <3>2. \A q \in Pages \cup {HeaderPage}, v \in Nat : WriteFile(q, v) =>
            \A x \in Pages \cup {HeaderPage} : pages'[x] = IF x = q THEN v ELSE pages[x]
      BY Zenon, <3>1, FileWritten
    <3> QED
      BY <2>1, <3>2
  <2>3. (\A q \in Pages : Says(q)' = Says(q)) /\ Said' = Said
    <3>1. ~AppendCommit /\ ~\E p \in Pages : LogWrite(p)
      BY <2>1 DEF AppendCommit, LogWrite, Running
    <3> QED
      BY <1>2, <3>1
  <2>4. \A q \in Pages : OutcomeOf(wal', q, pages'[q]) = Says(q)
    BY <2>3 DEF Says
  <2>5. CASE active = 0
    <3>1. Says(cur[1]) = cur[2] /\ \A q \in Pages : pages[q] = Says(q) \/ q = cur[1]
      BY <2>1, <2>5 DEF Sound, CleanIInv, StateOK
    <3>2. \A q \in Pages : pages'[q] = Says(q)'
      BY <2>2, <2>3, <3>1
    <3>3. outcomes' = {Said'}
      BY <2>1, <2>5, <3>2 DEF Contents, Said
    <3> QED
      BY Zenon, <1>8, <2>1, <2>5, <3>2, <3>3
  <2>6. CASE active # 0
    <3>1. outcomes' = {Said'}
      BY Zenon, <1>5, <2>1, <2>3, <2>6 DEF Committing
    <3>2. PICK k \in DOMAIN logged : logged[k][1] = cur[1]
      BY Zenon, <2>1, <2>6 DEF Sound, CleanIInv, OpenTxOK
    <3>3. ASSUME NEW q \in Pages, \A j \in DOMAIN logged : logged[j][1] # q PROVE pages'[q] = Says(q)'
      BY Zenon, <1>5, <2>1, <2>2, <2>3, <2>6, <3>2, <3>3 DEF Committing
    <3>4. ASSUME NEW j \in DOMAIN logged
          PROVE  logged[j][2] = OutcomeOf(wal', logged[j][1], pages'[logged[j][1]])
      BY <1>5, <1>7, <2>1, <2>4, <2>6 DEF Committing
    <3> QED
      BY Zenon, <1>8, <2>1, <2>6, <3>1, <3>3, <3>4 DEF Committing
  <2> QED
    BY <2>5, <2>6
<1>13. CASE AppendCommit
  <2>1. /\ phase' = "up" /\ active' # 0 /\ step' = "committing" /\ pages' = pages
        /\ outcomes' = outcomes \cup {Contents(pages)}
    BY <1>13 DEF AppendCommit, Running
  <2>2. \A p \in Pages : Says(p)' = pages[p]
    BY <1>13, SaysCommitted
  <2>3. Said' = Contents(pages)
    BY <2>2 DEF Said, Contents
  <2> QED
    BY <1>8, <2>1, <2>2, <2>3 DEF Committing
<1>14. CASE FsyncCommit \/ StampHeader
  <2>1. /\ phase = "up" /\ phase' = "up" /\ active' = active /\ step \in Committing /\ step' \in Committing
        /\ step \in {"committing", "stamping"} /\ step' \in {"stamping", "finishing"} /\ outcomes' = outcomes
    BY <1>14 DEF FsyncCommit, FsyncWal, StampHeader, Running, Committing
  <2>2. (\A q \in Pages : Says(q)' = Says(q)) /\ Said' = Said
    <3>1. ~AppendCommit /\ ~\E p \in Pages : LogWrite(p)
      BY <2>1 DEF AppendCommit, LogWrite, Running
    <3> QED
      BY <1>2, <3>1
  <2>3. \A q \in Pages : pages'[q] = pages[q]
    <3>1. CASE pages' = pages
      BY <3>1
    <3>2. CASE WriteFile(HeaderPage, Len(wal))
      <4>1. TypeOK
        BY <1>0
      <4>2. \A x \in Pages \cup {HeaderPage} : pages'[x] = IF x = HeaderPage THEN Len(wal) ELSE pages[x]
        BY Zenon, <1>0, <3>2, <4>1, FileWritten
      <4> QED
        BY Zenon, <4>2, PagesAssumption DEF HeaderPage
    <3> QED
      BY <1>14, <3>1, <3>2 DEF FsyncCommit, FsyncWal, StampHeader
  <2>4. \A p \in Pages : pages'[p] = Says(p)'
    BY <1>3, <2>1, <2>2, <2>3
  <2>5. active' # 0
    BY <1>0, <2>1 DEF ManagerOK
  <2> QED
    BY <1>0, <1>8, <2>1, <2>2, <2>4, <2>5
<1>15. CASE FinishCommit \/ FinishRollback
  <2>1. /\ phase = "up" /\ phase' = "up" /\ active' = 0 /\ step \in {"finishing", "undoing"} /\ step' = "ready"
        /\ pages' = pages /\ active # 0 /\ (FinishRollback => outcomes' = outcomes /\ logged = <<>> /\ step = "undoing")
        /\ (FinishCommit => outcomes' = {Contents(pages)} /\ step = "finishing")
    BY Zenon, <1>0, <1>15 DEF FinishCommit, FinishRollback, Running, files, ManagerOK, Committing, Aborting
  <2>2. (\A q \in Pages : Says(q)' = Says(q)) /\ Said' = Said
    <3>1. ~AppendCommit /\ ~\E p \in Pages : LogWrite(p)
      BY <2>1 DEF AppendCommit, LogWrite, Running
    <3> QED
      BY <1>2, <3>1
  <2>3. \A p \in Pages : pages[p] = Says(p)
    <3>1. CASE step = "finishing"
      BY <1>3, <2>1, <3>1 DEF Committing
    <3>2. CASE FinishRollback
      BY <1>5, <2>1, <3>2 DEF Committing
    <3> QED
      BY <1>15, <2>1, <3>1, <3>2
  <2>4. outcomes' = {Said'}
    <3>1. CASE FinishCommit
      BY <1>6, <2>1, <2>2, <2>3, <3>1
    <3>2. CASE FinishRollback
      BY <1>5, <2>1, <2>2, <3>2 DEF Committing
    <3> QED
      BY <1>15, <3>1, <3>2
  <2>5. \A p \in Pages : pages'[p] = Says(p)'
    BY <2>1, <2>2, <2>3
  <2> QED
    BY <1>8, <2>1, <2>4, <2>5
<1>16. CASE AppendRollback \/ FsyncRollback \/ Checkpoint
  <2>1. /\ phase = "up" /\ phase' = "up" /\ active' = active /\ UNCHANGED <<pages, outcomes, logged>>
        /\ step \in {"ready", "aborting"} /\ step' \in {"ready", "aborting", "undoing"}
        /\ (active = 0 => step = "ready" /\ step' = "ready")
    BY <1>0, <1>16 DEF AppendRollback, FsyncRollback, FsyncWal, Checkpoint, Running, manager, ManagerOK,
       Committing, Aborting
  <2>2. (\A q \in Pages : Says(q)' = Says(q)) /\ Said' = Said
    <3>1. ~\E p \in Pages : LogWrite(p)
      <4>1. step' # "logged"
        BY <2>1
      <4> QED
        BY <4>1 DEF LogWrite
    <3>2. ~AppendCommit
      <4>1. step' # "committing"
        BY <2>1
      <4> QED
        BY <4>1 DEF AppendCommit
    <3> QED
      BY <1>2, <3>1, <3>2
  <2>3. CASE active = 0
    BY <1>4, <1>8, <2>1, <2>2, <2>3
  <2>4. CASE active # 0
    <3>1. \A k \in DOMAIN logged : OutcomeOf(wal', logged[k][1], pages[logged[k][1]]) = Says(logged[k][1])
      BY <1>7, <2>1, <2>2 DEF Says
    <3>2. step \notin Committing /\ step' \notin Committing
      BY <2>1 DEF Committing
    <3> QED
      BY <1>5, <1>8, <2>1, <2>2, <2>4, <3>1, <3>2
  <2> QED
    BY <2>3, <2>4
<1>17. CASE UndoWrite
  <2> DEFINE m == Len(logged)
  <2>1. /\ phase = "up" /\ phase' = "up" /\ active' = active /\ active # 0 /\ step = "undoing" /\ step' = "undoing"
        /\ outcomes' = outcomes /\ logged' = SubSeq(logged, 1, m - 1) /\ logged # <<>>
        /\ WriteFile(logged[m][1], logged[m][2])
    BY <1>0, <1>17 DEF UndoWrite, Running, ManagerOK, Aborting
  <2>2. m \in DOMAIN logged /\ logged[m][1] \in Pages /\ logged[m][2] \in Nat
    BY <1>0, <2>1, LoggedTypes
  <2>3. /\ \A k \in DOMAIN logged' : k \in DOMAIN logged /\ logged'[k] = logged[k]
        /\ \A k \in DOMAIN logged : k = m \/ (k \in DOMAIN logged' /\ logged'[k] = logged[k])
    <3> DEFINE S == Pages \X Nat
    <3>1. logged \in Seq(S)
      BY <1>0
    <3> HIDE DEF S
    <3>2. m \in Nat /\ DOMAIN logged = 1..m /\ m # 0
      BY <2>1, <3>1, SeqIs
    <3>3. DOMAIN logged' = 1..(m - 1) /\ \A k \in 1..(m - 1) : logged'[k] = logged[k]
      BY <2>1, <3>1, <3>2
    <3> HIDE DEF m
    <3>4. \A k \in 1..m : k = m \/ k \in 1..(m - 1)
      BY <3>2
    <3>5. \A k \in 1..(m - 1) : k \in 1..m
      BY <3>2
    <3> QED
      BY <3>2, <3>3, <3>4, <3>5
  <2>4. \A q \in Pages : pages'[q] = IF q = logged[m][1] THEN logged[m][2] ELSE pages[q]
    <3>1. TypeOK
      BY <1>0
    <3>2. \A q \in Pages \cup {HeaderPage}, v \in Nat : WriteFile(q, v) =>
            \A x \in Pages \cup {HeaderPage} : pages'[x] = IF x = q THEN v ELSE pages[x]
      BY Zenon, <3>1, FileWritten
    <3> QED
      BY <2>1, <2>2, <3>2
  <2>5. (\A q \in Pages : Says(q)' = Says(q)) /\ Said' = Said
    <3>1. ~AppendCommit /\ ~\E p \in Pages : LogWrite(p)
      BY <2>1 DEF AppendCommit, LogWrite, Running
    <3> QED
      BY <1>2, <3>1
  <2>6. \A q \in Pages : OutcomeOf(wal', q, pages'[q]) = Says(q)
    BY <2>5 DEF Says
  <2>7. step \notin Committing
    BY <2>1 DEF Committing
  <2>8. outcomes' = {Said'}
    BY <1>5, <2>1, <2>5, <2>7
  <2>9. ASSUME NEW q \in Pages, \A k \in DOMAIN logged' : logged'[k][1] # q PROVE pages'[q] = Says(q)'
    <3>1. CASE q = logged[m][1]
      BY <1>5, <2>1, <2>2, <2>4, <2>5, <2>7, <3>1
    <3>2. CASE q # logged[m][1]
      <4>1. \A k \in DOMAIN logged : logged[k][1] # q
        BY <2>3, <2>9, <3>2
      <4> QED
        BY <1>5, <2>1, <2>4, <2>5, <2>7, <3>2, <4>1
    <3> QED
      BY <3>1, <3>2
  <2>10. ASSUME NEW k \in DOMAIN logged'
         PROVE  logged'[k][2] = OutcomeOf(wal', logged'[k][1], pages'[logged'[k][1]])
    BY <1>5, <1>7, <2>1, <2>3, <2>6, <2>7
  <2> QED
    BY <1>8, <2>1, <2>7, <2>8, <2>9, <2>10
<1>18. CASE Close \/ Crash \/ PowerLoss
  <2>1. phase' = "down" /\ outcomes' = outcomes /\ step' = "ready"
    BY <1>18 DEF Close, Crash, PowerLoss, Volatile
  <2>2. Said' = Said
    <3>1. ~AppendCommit /\ ~\E p \in Pages : LogWrite(p)
      BY <2>1 DEF AppendCommit, LogWrite
    <3> QED
      BY <1>2, <3>1
  <2> QED
    BY <1>0, <1>8, <2>1, <2>2
<1>19. CASE Open
  <2>1. /\ phase' = "replaying" /\ outcomes' = outcomes /\ pages' = pages /\ wal' = wal
        /\ todo' = {p \in Pages : Restored(wal, p)} /\ phase = "down"
    BY <1>19 DEF Open, files
  <2>2. (\A q \in Pages : Says(q)' = Says(q)) /\ Said' = Said
    <3>1. ~AppendCommit /\ ~\E p \in Pages : LogWrite(p)
      BY <2>1 DEF AppendCommit, LogWrite, Running
    <3> QED
      BY <1>2, <3>1
  <2>3. ASSUME NEW p \in Pages \ todo' PROVE pages'[p] = Says(p)'
    <3>1. TouchesOf(wal, p) = {}
      BY <1>0, <2>1, TouchersAre
    <3>2. Says(p) = pages[p]
      BY <3>1, SaysOf DEF Says
    <3> QED
      BY <2>1, <2>2, <3>2
  <2> QED
    BY <1>0, <1>8, <2>1, <2>2, <2>3
<1>20. ASSUME NEW p \in Pages, ReplayPage(p) PROVE StateOK'
  <2>1. /\ phase' = "replaying" /\ phase = "replaying" /\ outcomes' = outcomes /\ wal' = wal
        /\ todo' = todo \ {p} /\ p \in todo /\ WriteFile(p, Image(wal, p))
    BY <1>20 DEF ReplayPage
  <2>2. (\A q \in Pages : Says(q)' = Says(q)) /\ Said' = Said
    <3>1. ~AppendCommit /\ ~\E q \in Pages : LogWrite(q)
      BY <2>1 DEF AppendCommit, LogWrite, Running
    <3> QED
      BY <1>2, <3>1
  <2>3. TouchesOf(wal, p) # {} /\ Restored(wal, p) /\ Image(wal, p) \in Nat
    BY <1>0, <2>1, ImageType DEF ManagerOK
  <2>4. Image(wal, p) = Says(p)
    <3>1. TouchedOncePerTx(wal, p)
      BY DEF Sound, LogIsClean
    <3>2. (IF Restored(wal, p) THEN Image(wal, p) ELSE pages[p]) = OutcomeOf(wal, p, pages[p])
      BY <1>0, <3>1, ReplayGivesOutcome
    <3> QED
      BY <2>3, <3>2 DEF Says
  <2>5. \A q \in Pages : pages'[q] = IF q = p THEN Image(wal, p) ELSE pages[q]
    <3>1. TypeOK
      BY <1>0
    <3> QED
      BY Zenon, <2>1, <2>3, <3>1, FileWritten
  <2>6. ASSUME NEW q \in Pages \ todo' PROVE pages'[q] = Says(q)'
    <3>1. CASE q = p
      BY <2>2, <2>4, <2>5, <3>1
    <3>2. CASE q # p
      <4>1. q \in Pages \ todo
        BY <2>1, <3>2
      <4>2. pages[q] = Says(q)
        BY <2>1, <4>1 DEF Sound, CleanIInv, StateOK
      <4> QED
        BY <2>2, <2>5, <3>2, <4>2
    <3> QED
      BY <3>1, <3>2
  <2> QED
    BY Zenon, <1>0, <1>8, <2>1, <2>2, <2>6
<1>21. CASE OpenDone
  <2>1. /\ phase' = "up" /\ phase = "replaying" /\ pages' = pages /\ wal' = wal /\ todo = {}
        /\ outcomes' = IF Contents(pages) \in outcomes THEN {Contents(pages)} ELSE outcomes
        /\ active' = 0 /\ step' = "ready"
    BY Zenon, <1>0, <1>21 DEF OpenDone, files, manager, ManagerOK
  <2>2. (\A q \in Pages : Says(q)' = Says(q)) /\ Said' = Said
    <3>1. ~AppendCommit /\ ~\E q \in Pages : LogWrite(q)
      BY <2>1 DEF AppendCommit, LogWrite, Running
    <3> QED
      BY <1>2, <3>1
  <2>3. \A p \in Pages : pages[p] = Says(p)
    BY <2>1 DEF Sound, CleanIInv, StateOK
  <2>4. Contents(pages) = Said
    BY <1>6, <2>3
  <2>5. outcomes' = {Said'}
    BY <1>0, <2>1, <2>2, <2>4
  <2> QED
    BY Zenon, <1>8, <2>1, <2>2, <2>3, <2>5
<1> QED
  BY <1>9, <1>10, <1>11, <1>12, <1>13, <1>14, <1>15, <1>16, <1>17, <1>18, <1>19, <1>20, <1>21 DEF Next

\* Nothing moves in a step that leaves every variable.
LEMMA Stutter ==
  ASSUME UNCHANGED vars
  PROVE  (DurIInv => DurIInv') /\ (ImagesOK => ImagesOK')
<1>1. TypeOK => TypeOK'
  BY DEF vars, TypeOK
<1>2. ManagerOK => ManagerOK'
  BY DEF vars, ManagerOK
<1>3. HeaderOK => HeaderOK'
  BY DEF vars, HeaderOK
<1>4. BeginsOK => BeginsOK'
  BY DEF vars, BeginsOK, Has
<1>5. ImagesOK => ImagesOK'
  BY DEF vars, ImagesOK, InLog
<1> QED
  BY <1>1, <1>2, <1>3, <1>4, <1>5 DEF DurIInv

\* The pages, the acknowledged state and the log agree for as long as the log
\* is clean, through every call, crash, loss of power and replay.
LEMMA SoundKept ==
  ASSUME PowerFails # "any"
  PROVE  Sound /\ [Next]_vars /\ LogIsClean' => Sound'
<1>1. ASSUME Sound, Next, LogIsClean' PROVE Sound'
  <2>1. DurIInv /\ ImagesOK
    BY <1>1 DEF Sound
  <2>2. DurIInv'
    BY <1>1, <2>1, TypeKept, ManagerKept, HeaderKept, BeginsKept DEF DurIInv
  <2>3. ImagesOK'
    BY <1>1, <2>1, ImagesKept DEF DurIInv
  <2>4. CleanIInv'
    BY <1>1, EndsKept, OpenTxKept, StateKept DEF CleanIInv
  <2> QED
    BY <1>1, <2>2, <2>3, <2>4 DEF Sound
<1>2. ASSUME Sound, UNCHANGED vars PROVE Sound'
  <2>1. DurIInv' /\ ImagesOK'
    BY <1>2, Stutter DEF Sound
  <2>2. LogIsClean'
    BY <1>2 DEF vars, Sound, LogIsClean
  <2>3. OpenTxOK' /\ EndsOK'
    BY <1>2 DEF vars, Sound, CleanIInv, OpenTxOK, EndsOK, Has
  <2>4. StateOK'
    BY Zenon, <1>2 DEF vars, Sound, CleanIInv, StateOK, Says, Said
  <2> QED
    BY <2>1, <2>2, <2>3, <2>4 DEF Sound, CleanIInv
<1> QED
  BY <1>1, <1>2

\* A file just created.
LEMMA SoundInit == Init => Sound
<1> SUFFICES ASSUME Init PROVE Sound
  OBVIOUS
<1>0. Len(wal) = 0 /\ wal = <<>> /\ 1..Len(wal) = {} /\ DOMAIN wal = {} /\ DOMAIN logged = {}
  BY DEF Init
<1>1. \A p : TouchesOf(wal, p) = {}
  BY <1>0 DEF TouchesOf
<1>2. TypeOK
  <2>1. <<>> \in Seq(Records) /\ <<>> \in Seq(Pages \X Nat) /\ 0 \in 0..Len(wal)
    BY <1>0
  <2> QED
    BY <2>1, TypeIs DEF Init, Types, Steps, NoWrite, HeaderPage
<1>3. ManagerOK
  BY DEF Init, ManagerOK, Committing, Aborting
<1>4. HeaderOK
  BY DEF Init, HeaderOK, HeaderPage
<1>5. BeginsOK
  BY Zenon, <1>0 DEF Init, BeginsOK
<1>6. ImagesOK
  BY <1>0, <1>1 DEF Init, ImagesOK
<1>7. LogIsClean
  BY Zenon, <1>0, <1>1 DEF LogIsClean, TouchedOncePerTx
<1>8. \A p \in Pages : Says(p) = pages[p] /\ pages[p] = 0
  BY <1>1, SaysOf DEF Says, Init
<1>9. Said = [p \in Pages |-> 0]
  BY <1>8 DEF Said
<1>10. StateOK
  BY <1>8, <1>9 DEF Init, StateOK
<1>11. OpenTxOK /\ EndsOK
  BY <1>0 DEF Init, OpenTxOK, EndsOK
<1> QED
  BY <1>2, <1>3, <1>4, <1>5, <1>6, <1>7, <1>10, <1>11 DEF Sound, DurIInv, CleanIInv

\* What the agreement gives a client and a process that reopens the file.
LEMMA SoundSuffices == Sound => CleanLogRecoverable /\ LiveStateAcknowledged
<1> SUFFICES ASSUME Sound PROVE CleanLogRecoverable /\ LiveStateAcknowledged
  OBVIOUS
<1>0. Len(wal) \in Nat /\ TypeOK /\ Said \in outcomes /\ DOMAIN pages = Pages \cup {HeaderPage}
  BY LogLength DEF Sound, DurIInv, TypeOK, CleanIInv, StateOK
<1>1. \A p \in Pages : Replay(wal, pages)[p] = Says(p)
  <2> SUFFICES ASSUME NEW p \in Pages PROVE Replay(wal, pages)[p] = Says(p)
    OBVIOUS
  <2>1. TouchedOncePerTx(wal, p)
    BY DEF Sound, LogIsClean
  <2>2. (IF Restored(wal, p) THEN Image(wal, p) ELSE pages[p]) = OutcomeOf(wal, p, pages[p])
    BY <1>0, <2>1, ReplayGivesOutcome
  <2> QED
    BY <1>0, <2>2 DEF Replay, Says
<1>2. Contents(Replay(wal, pages)) = Said
  BY <1>1 DEF Contents, Said
<1>3. ASSUME phase = "up", step = "ready", active = 0 PROVE Contents(pages) \in outcomes
  <2>1. \A p \in Pages : pages[p] = Says(p)
    BY <1>3 DEF Sound, CleanIInv, StateOK
  <2> QED
    BY <1>0, <2>1 DEF Contents, Said
<1> QED
  BY <1>0, <1>2, <1>3 DEF CleanLogRecoverable, LiveStateAcknowledged, Recoverable
-----------------------------------------------------------------------------
(* The theorems                                                            *)

\* The log kept what it had, so it was clean if it is.
LEMMA CleanBefore ==
  ASSUME TypeOK, TypeOK', Kept, LogIsClean'
  PROVE  LogIsClean
<1>0. DOMAIN wal = 1..Len(wal)
  BY LogLength
<1>1. DOMAIN wal' = 1..Len(wal')
  <2>1. wal' \in Seq(Records)
    BY TypeIs DEF Types
  <2> QED
    BY <2>1, SeqIs
<1>2. \A i, j \in 1..Len(wal) :
        wal[i].type = "BEGIN" /\ wal[j].type = "BEGIN" /\ wal[i].tx = wal[j].tx => i = j
  BY <1>1 DEF LogIsClean, Kept
<1>3. ASSUME NEW p \in Pages PROVE TouchedOncePerTx(wal, p)
  <2>1. \A i \in TouchesOf(wal, p) : i \in TouchesOf(wal', p) /\ wal'[i] = wal[i]
    BY DEF Kept, TouchesOf
  <2>2. TouchedOncePerTx(wal', p)
    BY DEF LogIsClean
  <2> QED
    BY <2>1, <2>2 DEF TouchedOncePerTx
<1> QED
  BY <1>0, <1>2, <1>3 DEF LogIsClean

\* The first half of the invariant needs nothing of the log or the power.
LEMMA DurKept == DurIInv /\ [Next]_vars => DurIInv'
<1>1. ASSUME DurIInv, Next PROVE DurIInv'
  BY <1>1, TypeKept, ManagerKept, HeaderKept, BeginsKept DEF DurIInv
<1> QED
  BY <1>1, Stutter

\* A page takes only images that are in the log.
LEMMA ImagesLogged ==
  ASSUME DurIInv, ImagesOK, Next
  PROVE  WalBeforeData
<1>0. TypeOK /\ ManagerOK /\ DOMAIN wal = 1..Len(wal) /\ DOMAIN pages = Pages \cup {HeaderPage}
  BY LogLength DEF DurIInv, TypeOK
<1> SUFFICES ASSUME NEW p \in Pages, pages'[p] # pages[p] PROVE InLog(p, pages'[p])
  BY <1>0 DEF WalBeforeData, InLog, TouchesOf
<1>1. ASSUME NEW q \in Pages, NEW v \in Nat, WriteFile(q, v), InLog(q, v) PROVE InLog(p, pages'[p])
  <2>1. TypeOK
    BY <1>0
  <2>2. \A x \in Pages \cup {HeaderPage} : pages'[x] = IF x = q THEN v ELSE pages[x]
    BY Zenon, <1>1, <2>1, FileWritten
  <2> QED
    BY <1>1, <2>2
<1>2. CASE UNCHANGED <<pages, media>> \/ Close
  BY <1>2 DEF Close
<1>3. CASE ApplyWrite /\ cur[1] \in Pages /\ WriteFile(cur[1], cur[2])
  <2>1. cur[2] \in Nat /\ InLog(cur[1], cur[2])
    BY Zenon, <1>0, <1>3 DEF TypeOK, ImagesOK, ApplyWrite, Running
  <2> QED
    BY <1>1, <1>3, <2>1
<1>4. CASE StampHeader /\ WriteFile(HeaderPage, Len(wal))
  <2>1. TypeOK /\ Len(wal) \in Nat
    BY <1>0, LogLength
  <2>2. \A x \in Pages \cup {HeaderPage} : pages'[x] = IF x = HeaderPage THEN Len(wal) ELSE pages[x]
    BY Zenon, <1>4, <2>1, FileWritten
  <2> QED
    BY <2>2, PagesAssumption DEF HeaderPage
<1>5. CASE /\ UndoWrite /\ logged # <<>> /\ Len(logged) \in DOMAIN logged
           /\ logged[Len(logged)] \in Pages \X Nat
           /\ WriteFile(logged[Len(logged)][1], logged[Len(logged)][2])
  <2>1. InLog(logged[Len(logged)][1], logged[Len(logged)][2])
    BY <1>5 DEF ImagesOK
  <2> QED
    BY <1>1, <1>5, <2>1
<1>6. ASSUME NEW q \in Pages, WriteFile(q, Image(wal, q)), TouchesOf(wal, q) # {} PROVE InLog(p, pages'[p])
  BY <1>0, <1>1, <1>6, ImageType
<1>7. CASE PowerLoss
  <2>1. pages'[p] \in media[p]
    BY <1>0, <1>7 DEF PowerLoss
  <2> QED
    BY <2>1 DEF ImagesOK
<1> QED
  BY <1>0, <1>2, <1>3, <1>4, <1>5, <1>6, <1>7, FileSteps

\* set_last_lsn: whatever crashes and power losses there are, the header's
\* last_lsn names a COMMIT record that is synced.
THEOREM HeaderDurable == Spec => []HeaderLsnIsDurable
<1>1. Init => DurIInv
  BY SoundInit DEF Sound
<1>2. DurIInv => HeaderLsnIsDurable
  <2> SUFFICES ASSUME DurIInv PROVE HeaderLsnIsDurable
    OBVIOUS
  <2>1. synced \in Nat
    BY LogLength DEF DurIInv, TypeOK
  <2> QED
    BY <2>1 DEF DurIInv, HeaderOK, HeaderLsnIsDurable
<1> QED
  BY <1>1, <1>2, DurKept, PTL DEF Spec

\* log_page_write comes before the page write, and no page takes an image that
\* the log does not have, as long as the power leaves the records of the pages
\* that were written.
THEOREM LogAhead ==
  ASSUME PowerFails # "any"
  PROVE  Spec => LogLeads
<1> DEFINE Inv == DurIInv /\ ImagesOK
<1>1. Init => Inv
  BY SoundInit DEF Sound
<1>2. Inv /\ [Next]_vars => Inv'
  <2>1. ASSUME Inv, Next PROVE ImagesOK'
    BY <2>1, ImagesKept DEF DurIInv
  <2>2. ASSUME Inv, UNCHANGED vars PROVE ImagesOK'
    BY <2>2, Stutter
  <2> QED
    BY <2>1, <2>2, DurKept
<1>3. Inv /\ Inv' /\ [Next]_vars => [TypeOK' /\ HeaderLsnIsDurable' /\ WalBeforeData]_vars
  <2> SUFFICES ASSUME Inv, Inv', Next PROVE TypeOK' /\ HeaderLsnIsDurable' /\ WalBeforeData
    OBVIOUS
  <2>1. WalBeforeData
    BY ImagesLogged
  <2>2. TypeOK' /\ HeaderOK'
    BY DEF DurIInv
  <2>3. synced' \in Nat
    <3>1. synced' \in 0..Len(wal') /\ wal' \in Seq(Records)
      BY <2>2, TypeIs DEF Types
    <3> QED
      BY <3>1, SeqIs
  <2>4. HeaderLsnIsDurable'
    BY <2>2, <2>3 DEF HeaderOK, HeaderLsnIsDurable
  <2> QED
    BY <2>1, <2>2, <2>4
<1> QED
  BY <1>1, <1>2, <1>3, PTL DEF Spec, LogLeads

\* Recovery.replay, commit and rollback: as long as the log stays clean and the
\* power fails only while the log is synced, a file reopens to what was
\* acknowledged, or to that and the whole of the call then running, and clients
\* see what was acknowledged.
THEOREM CleanRecovery ==
  ASSUME PowerFails # "any"
  PROVE  Spec /\ []LogIsClean => [](CleanLogRecoverable /\ LiveStateAcknowledged)
<1>1. Sound /\ [Next]_vars /\ LogIsClean' => Sound'
  BY SoundKept
<1> QED
  BY <1>1, SoundInit, SoundSuffices, PTL DEF Spec

\* Where only processes die, never the machine, nothing more is asked of the
\* log than that it is clean at the time: once unclean it stays so.
THEOREM CrashRecovery ==
  ASSUME PowerFails = "never"
  PROVE  Spec => [](CleanLogRecoverable /\ LiveStateAcknowledged)
<1> DEFINE Inv == DurIInv /\ ImagesOK /\ (LogIsClean => Sound)
<1>0. PowerFails # "any"
  OBVIOUS
<1>1. Init => Inv
  BY SoundInit DEF Sound
<1>2. Inv /\ [Next]_vars => Inv'
  <2>1. ASSUME Inv, Next PROVE Inv'
    <3>1. DurIInv' /\ ImagesOK'
      BY <1>0, <2>1, DurKept, ImagesKept DEF DurIInv
    <3>2. Kept
      <4>1. TypeOK /\ Len(wal) \in Nat
        BY <2>1, LogLength DEF DurIInv
      <4>2. ~PowerLoss
        BY DEF PowerLoss
      <4>3. wal' = wal \/ Kept
        BY <2>1, <4>1, <4>2, WalSame, WalMore, GrowsKeeps DEF Next
      <4> QED
        BY <4>1, <4>3 DEF Kept
    <3>3. LogIsClean' => LogIsClean
      BY <2>1, <3>1, <3>2, CleanBefore DEF DurIInv
    <3> QED
      BY <1>0, <2>1, <3>1, <3>3, SoundKept
  <2>2. ASSUME Inv, UNCHANGED vars PROVE Inv'
    <3>1. DurIInv' /\ ImagesOK'
      BY <2>2, Stutter
    <3>2. LogIsClean' => LogIsClean
      BY <2>2 DEF vars, LogIsClean
    <3> QED
      BY <1>0, <2>2, <3>1, <3>2, SoundKept
  <2> QED
    BY <2>1, <2>2
<1>3. Inv => CleanLogRecoverable /\ LiveStateAcknowledged
  <2>1. ~LogIsClean => CleanLogRecoverable /\ LiveStateAcknowledged
    BY DEF CleanLogRecoverable, LiveStateAcknowledged
  <2> QED
    BY <2>1, SoundSuffices
<1> QED
  BY <1>1, <1>2, <1>3, PTL DEF Spec
==============================================================================
