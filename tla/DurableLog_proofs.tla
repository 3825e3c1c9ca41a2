-------------------------- MODULE DurableLog_proofs --------------------------
(***************************************************************************)
(* Recovery.replay on a log of any length: what it restores, and how a     *)
(* record added to the log changes that.                                   *)
(*                                                                         *)
(* The steps of one database file and its log: what each keeps of the      *)
(* types, the manager, the header, the transactions' records and the page  *)
(* images in the log.                                                      *)
(***************************************************************************)
EXTENDS Durability, WellFoundedInduction, TLAPS

\* A set of naturals has a least element.
LEMMA HasLeast ==
  ASSUME NEW S \in SUBSET Nat, S # {}
  PROVE  \E x \in S : \A y \in S : x <= y
<1>1. PICK x \in S : \A y \in S : ~ (<<y, x>> \in OpToRel(<, Nat))
  BY Zenon, NatLessThanWellFounded, WFMin
<1>2. ASSUME NEW y \in S PROVE x <= y
  <2>1. <<y, x>> \in OpToRel(<, Nat) <=> y < x
    BY DEF OpToRel
  <2>2. ~(y < x)
    BY Zenon, <1>1, <2>1
  <2> QED
    BY <2>2
<1> QED
  BY <1>2

\* A bounded one has a greatest element: the least distance from the bound.
LEMMA HasGreatest ==
  ASSUME NEW n \in Nat, NEW S \in SUBSET (1..n), S # {}
  PROVE  \E x \in S : \A y \in S : y <= x
<1> DEFINE T == {n - x : x \in S}
<1>1. T \in SUBSET Nat /\ T # {}
  <2>1. \A x \in S : n - x \in Nat
    OBVIOUS
  <2> QED
    BY Zenon, <2>1
<1> HIDE DEF T
<1>2. PICK m \in T : \A y \in T : m <= y
  BY <1>1, HasLeast
<1>3. PICK x \in S : m = n - x
  BY DEF T
<1>4. ASSUME NEW y \in S PROVE y <= x
  <2>1. n - x <= n - y
    BY Zenon, <1>2, <1>3 DEF T
  <2> QED
    BY <2>1
<1> QED
  BY <1>4

\* The positions that replay chooses in a log exist.
LEMMA FirstAndLast ==
  ASSUME NEW n \in Nat, NEW S \in SUBSET (1..n), S # {}
  PROVE  /\ IsFirst(CHOOSE i \in S : IsFirst(i, S), S)
         /\ IsLast(CHOOSE i \in S : IsLast(i, S), S)
<1>1. \E i \in S : IsFirst(i, S)
  BY HasLeast DEF IsFirst
<1>2. \E i \in S : IsLast(i, S)
  BY Zenon, HasGreatest DEF IsLast
<1> QED
  BY <1>1, <1>2

\* There is one first and one last position.
LEMMA OneFirstOneLast ==
  ASSUME NEW S, NEW i \in Int, NEW j \in Int
  PROVE  /\ IsFirst(i, S) /\ IsFirst(j, S) => i = j
         /\ IsLast(i, S) /\ IsLast(j, S) => i = j
  BY DEF IsFirst, IsLast

\* The sets replay goes by, in terms of the positions of the page's records.
LEMMA TouchersAre ==
  ASSUME NEW log, Len(log) \in Nat, NEW p
  PROVE  /\ Touchers(log, p) = {log[i].tx : i \in TouchesOf(log, p)}
         /\ RedoTxs(log, p) # {} <=> WinsAt(log, p) # {}
         /\ Restored(log, p) <=> TouchesOf(log, p) # {}
         /\ \A t : TouchesAt(log, t, p) = {i \in TouchesOf(log, p) : log[i].tx = t}
         /\ TouchesOf(log, p) \in SUBSET (1..Len(log)) /\ WinsAt(log, p) \subseteq TouchesOf(log, p)
<1>1. Touchers(log, p) = {log[i].tx : i \in TouchesOf(log, p)}
  BY DEF Touchers, TouchesOf
<1>2. \A t : TouchesAt(log, t, p) = {i \in TouchesOf(log, p) : log[i].tx = t}
  BY DEF TouchesAt, TouchesOf
<1>3. RedoTxs(log, p) # {} <=> WinsAt(log, p) # {}
  BY <1>1 DEF RedoTxs, WinsAt
<1>4. Restored(log, p) <=> TouchesOf(log, p) # {}
  BY Zenon, <1>1 DEF Restored, RedoTxs, UndoTxs
<1> QED
  BY <1>1, <1>2, <1>3, <1>4 DEF TouchesOf, WinsAt

\* Recovery.replay, on any log whoever wrote it: a page that no transaction
\* wrote twice, or that only autocommit wrote, gets the last after-image of a
\* winner, or, without one, the first before-image; one without records is as found.
THEOREM ReplayGivesOutcome ==
  ASSUME NEW log, Len(log) \in Nat, NEW p, NEW image, TouchedOncePerTx(log, p)
  PROVE  (IF Restored(log, p) THEN Image(log, p) ELSE image) = OutcomeOf(log, p, image)
<1> DEFINE T == TouchesOf(log, p)
           W == WinsAt(log, p)
           Of(t) == TouchesAt(log, t, p)
<1>0. /\ Touchers(log, p) = {log[i].tx : i \in T}
      /\ RedoTxs(log, p) # {} <=> W # {}
      /\ Restored(log, p) <=> T # {}
      /\ \A t : Of(t) = {i \in T : log[i].tx = t}
      /\ T \in SUBSET (1..Len(log)) /\ W \subseteq T
  BY TouchersAre
<1>1. CASE T = {}
  BY <1>0, <1>1 DEF OutcomeOf
<1>2. CASE T # {} /\ \A i \in T : log[i].tx = AUTOCOMMIT
  <2>1. RedoTxs(log, p) = {AUTOCOMMIT} /\ W = T /\ Of(AUTOCOMMIT) = T
    BY Zenon, <1>0, <1>2 DEF RedoTxs, WinsAt, Redoable
  <2>2. CommittedAfter(log, p) = Touch(log, AUTOCOMMIT, p).after
    <3>1. \A t \in RedoTxs(log, p) : t = AUTOCOMMIT
      BY <2>1
    <3>2. AUTOCOMMIT \in RedoTxs(log, p)
      BY <2>1
    <3>3. Of(AUTOCOMMIT) \in SUBSET (1..Len(log)) /\ Of(AUTOCOMMIT) # {}
      BY <1>0, <1>2, <2>1
    <3>4. Place(log, AUTOCOMMIT, p) \in Int
      <4>1. IsFirst(Place(log, AUTOCOMMIT, p), Of(AUTOCOMMIT))
        BY Zenon, <3>3, FirstAndLast DEF Place
      <4> QED
        BY <3>3, <4>1 DEF IsFirst
    <3>5. Place(log, AUTOCOMMIT, p) <= Place(log, AUTOCOMMIT, p)
      BY <3>4
    <3>6. \E t \in RedoTxs(log, p) : \A u \in RedoTxs(log, p) : Place(log, u, p) <= Place(log, t, p)
      BY <3>1, <3>2, <3>5
    <3> QED
      BY <3>1, <3>6 DEF CommittedAfter
  <2>3. OutcomeOf(log, p, image) = log[CHOOSE i \in T : IsLast(i, T)].after
    BY <1>2, <2>1 DEF OutcomeOf
  <2>4. Touch(log, AUTOCOMMIT, p) = log[CHOOSE i \in T : IsLast(i, T)]
    BY <2>1 DEF Touch
  <2> QED
    BY <1>0, <1>2, <2>1, <2>2, <2>3, <2>4 DEF Image
<1>3. CASE T # {} /\ \A i, j \in T : log[i].tx = log[j].tx => i = j
  <2>1. ASSUME NEW i \in T
        PROVE  Place(log, log[i].tx, p) = i /\ Touch(log, log[i].tx, p) = log[i]
    <3>1. Of(log[i].tx) = {i} /\ i \in Int
      BY <1>0, <1>3, <2>1
    <3>2. IsFirst(i, {i}) /\ IsLast(i, {i})
      BY <3>1 DEF IsFirst, IsLast
    <3> QED
      BY Zenon, <3>1, <3>2 DEF Place, Touch
  <2>2. CASE W # {}
    <3> DEFINE w == CHOOSE i \in W : IsLast(i, W)
    <3>1. IsLast(w, W)
      BY Zenon, <1>0, <2>2, FirstAndLast
    <3> HIDE DEF w
    <3>2. w \in W /\ w \in T /\ \A i \in W : i <= w
      BY <1>0, <3>1 DEF IsLast
    <3>3. RedoTxs(log, p) = {log[i].tx : i \in W}
      BY <1>0 DEF RedoTxs, WinsAt
    <3>4. log[w].tx \in RedoTxs(log, p)
          /\ \A u \in RedoTxs(log, p) : Place(log, u, p) <= Place(log, log[w].tx, p)
      BY <1>0, <2>1, <3>2, <3>3
    <3>5. ASSUME NEW t \in RedoTxs(log, p),
                 \A u \in RedoTxs(log, p) : Place(log, u, p) <= Place(log, t, p)
          PROVE  t = log[w].tx
      <4>1. PICK i \in W : t = log[i].tx
        BY <3>3
      <4>2. Place(log, t, p) = i /\ Place(log, log[w].tx, p) = w
        BY <1>0, <2>1, <3>2, <4>1
      <4>3. w <= i /\ i <= w /\ i \in Int /\ w \in Int
        BY <1>0, <3>2, <3>4, <3>5, <4>2
      <4> QED
        BY <4>1, <4>3
    <3>6. CommittedAfter(log, p) = log[w].after
      BY <2>1, <3>2, <3>4, <3>5 DEF CommittedAfter
    <3>7. OutcomeOf(log, p, image) = log[w].after
      BY <2>2 DEF OutcomeOf, w
    <3> QED
      BY <1>0, <1>3, <2>2, <3>6, <3>7 DEF Image
  <2>3. CASE W = {}
    <3> DEFINE w == CHOOSE i \in T : IsFirst(i, T)
    <3>1. IsFirst(w, T)
      BY Zenon, <1>0, <1>3, FirstAndLast
    <3> HIDE DEF w
    <3>2. w \in T /\ \A i \in T : w <= i
      BY <3>1 DEF IsFirst
    <3>3. UndoTxs(log, p) = {log[i].tx : i \in T}
      BY <1>0, <2>3 DEF RedoTxs, UndoTxs
    <3>4. log[w].tx \in UndoTxs(log, p)
          /\ \A u \in UndoTxs(log, p) : Place(log, log[w].tx, p) <= Place(log, u, p)
      BY <2>1, <3>2, <3>3
    <3>5. ASSUME NEW t \in UndoTxs(log, p),
                 \A u \in UndoTxs(log, p) : Place(log, t, p) <= Place(log, u, p)
          PROVE  t = log[w].tx
      <4>1. PICK i \in T : t = log[i].tx
        BY <3>3
      <4>2. Place(log, t, p) = i /\ Place(log, log[w].tx, p) = w
        BY <2>1, <3>2, <4>1
      <4>3. w <= i /\ i <= w /\ i \in Int /\ w \in Int
        BY <1>0, <3>2, <3>4, <3>5, <4>2
      <4> QED
        BY <4>1, <4>3
    <3>6. UnknownBefore(log, p) = log[w].before
      BY <2>1, <3>2, <3>4, <3>5 DEF UnknownBefore
    <3>7. OutcomeOf(log, p, image) = log[w].before
      BY <1>3, <2>3 DEF OutcomeOf, w
    <3> QED
      BY <1>0, <1>3, <2>3, <3>6, <3>7 DEF Image
  <2> QED
    BY <2>2, <2>3
<1> QED
  BY <1>1, <1>2, <1>3 DEF TouchedOncePerTx

\* What replay writes to a page is an image that some record has of it,
\* whether or not the log is one it handles.
LEMMA ImageInLog ==
  ASSUME NEW log, Len(log) \in Nat, NEW p, Restored(log, p)
  PROVE  \E i \in TouchesOf(log, p) : Image(log, p) \in {log[i].before, log[i].after}
<1> DEFINE T == TouchesOf(log, p)
<1>0. /\ Touchers(log, p) = {log[i].tx : i \in T} /\ T \in SUBSET (1..Len(log))
      /\ \A t : TouchesAt(log, t, p) = {i \in T : log[i].tx = t}
  BY TouchersAre
<1>1. ASSUME NEW t \in Touchers(log, p)
      PROVE  Place(log, t, p) \in 1..Len(log) /\ \E i \in T : Touch(log, t, p) = log[i]
  <2> DEFINE S == TouchesAt(log, t, p)
             l == CHOOSE i \in S : IsLast(i, S)
  <2>1. S \in SUBSET (1..Len(log)) /\ S # {} /\ S \subseteq T
    BY Zenon, <1>0
  <2>2. IsFirst(Place(log, t, p), S) /\ IsLast(l, S)
    BY Zenon, <2>1, FirstAndLast DEF Place
  <2>3. l \in T /\ Touch(log, t, p) = log[l]
    BY <2>1, <2>2 DEF IsLast, Touch
  <2> QED
    BY Zenon, <2>1, <2>2, <2>3 DEF IsFirst
<1>2. CASE RedoTxs(log, p) # {}
  <2> DEFINE R == RedoTxs(log, p)
             P == {Place(log, t, p) : t \in R}
  <2>1. R \subseteq Touchers(log, p) /\ R # {}
    BY <1>2 DEF RedoTxs
  <2>2. P \in SUBSET (1..Len(log)) /\ P # {}
    BY <1>1, <2>1
  <2>3. \E x \in P : \A y \in P : y <= x
    BY Zenon, <2>2, HasGreatest
  <2>4. \E t \in R : \A u \in R : Place(log, u, p) <= Place(log, t, p)
    BY <2>3
  <2>5. \E t \in R : CommittedAfter(log, p) = Touch(log, t, p).after
    BY Zenon, <2>4 DEF CommittedAfter
  <2>6. \E i \in T : CommittedAfter(log, p) = log[i].after
    BY <1>1, <2>1, <2>5
  <2> QED
    BY <1>2, <2>6 DEF Image
<1>3. CASE RedoTxs(log, p) = {}
  <2> DEFINE U == UndoTxs(log, p)
             P == {Place(log, t, p) : t \in U}
  <2>1. U \subseteq Touchers(log, p) /\ U # {}
    BY <1>3 DEF UndoTxs, Restored
  <2>2. P \in SUBSET Nat /\ P # {}
    BY <1>1, <2>1
  <2>3. \E x \in P : \A y \in P : x <= y
    BY Zenon, <2>2, HasLeast
  <2>4. \E t \in U : \A u \in U : Place(log, t, p) <= Place(log, u, p)
    BY <2>3
  <2>5. \E t \in U : UnknownBefore(log, p) = Touch(log, t, p).before
    BY Zenon, <2>4 DEF UnknownBefore
  <2>6. \E i \in T : UnknownBefore(log, p) = log[i].before
    BY <1>1, <2>1, <2>5
  <2> QED
    BY <1>3, <2>6 DEF Image
<1> QED
  BY <1>2, <1>3

-----------------------------------------------------------------------------
(* A record more, or fewer                                                 *)

\* log2 is log with the record r at its end.
Grows(log, r, log2) ==
  /\ Len(log2) = Len(log) + 1 /\ log2[Len(log) + 1] = r
  /\ \A i \in 1..Len(log) : log2[i] = log[i]

\* WAL.append.
LEMMA AppendGrows ==
  ASSUME NEW S, NEW log \in Seq(S), NEW r \in S
  PROVE  Grows(log, r, Append(log, r)) /\ Append(log, r) \in Seq(S) /\ Len(log) \in Nat
  BY DEF Grows

\* The elements of a sequence, and a prefix of it.
LEMMA SeqIs ==
  ASSUME NEW S, NEW s \in Seq(S)
  PROVE  /\ Len(s) \in Nat /\ DOMAIN s = 1..Len(s) /\ \A i \in 1..Len(s) : s[i] \in S
         /\ s # <<>> => Len(s) # 0
  OBVIOUS

LEMMA PrefixIs ==
  ASSUME NEW S, NEW s \in Seq(S), NEW n \in 0..Len(s)
  PROVE  /\ SubSeq(s, 1, n) \in Seq(S) /\ Len(SubSeq(s, 1, n)) = n
         /\ \A i \in 1..n : SubSeq(s, 1, n)[i] = s[i]
<1>1. Len(s) \in Nat /\ \A i \in 1..n : i \in 1..Len(s)
  OBVIOUS
<1> QED
  BY <1>1

\* What an outcome is computed from.
LEMMA OutcomeSame ==
  ASSUME NEW log, NEW log2, NEW p, NEW image, Len(log) \in Nat,
         TouchesOf(log2, p) = TouchesOf(log, p), WinsAt(log2, p) = WinsAt(log, p),
         \A i \in TouchesOf(log, p) : log2[i] = log[i]
  PROVE  OutcomeOf(log2, p, image) = OutcomeOf(log, p, image)
<1> DEFINE T == TouchesOf(log, p)
           W == WinsAt(log, p)
           w == CHOOSE i \in W : IsLast(i, W)
           f == CHOOSE i \in T : IsFirst(i, T)
<1>0. T \in SUBSET (1..Len(log)) /\ W \subseteq T
  BY TouchersAre
<1>1. (W # {} => w \in T) /\ (T # {} => f \in T)
  <2>1. W # {} => IsLast(w, W)
    BY Zenon, <1>0, FirstAndLast
  <2>2. T # {} => IsFirst(f, T)
    BY Zenon, <1>0, FirstAndLast
  <2> QED
    BY <1>0, <2>1, <2>2 DEF IsFirst, IsLast
<1>2. (W # {} => log2[w] = log[w]) /\ (T # {} => log2[f] = log[f])
  BY <1>1
<1> QED
  BY <1>2 DEF OutcomeOf

\* Only a COMMIT or ROLLBACK of t says anything new of t.
LEMMA RedoableGrows ==
  ASSUME NEW log, NEW r, NEW log2, Len(log) \in Nat, Grows(log, r, log2), NEW t
  PROVE  /\ r.type = "COMMIT" /\ r.tx = t => Redoable(log2, t)
         /\ r.type = "ROLLBACK" /\ r.tx = t => (Redoable(log2, t) <=> t = AUTOCOMMIT)
         /\ ~(r.type \in {"COMMIT", "ROLLBACK"} /\ r.tx = t) => (Redoable(log2, t) <=> Redoable(log, t))
<1> DEFINE n == Len(log)
<1>0. n \in Nat /\ Len(log2) = n + 1 /\ log2[n + 1] = r /\ \A i \in 1..n : log2[i] = log[i]
  BY DEF Grows
<1> HIDE DEF n
<1>1. \A i \in 1..(n + 1) : i \in 1..n \/ i = n + 1
  BY <1>0
<1>2. \A i \in 1..n : i \in 1..(n + 1) /\ (n + 1) \in (i + 1)..(n + 1) /\ n + 1 # i
  BY <1>0
<1>3. n + 1 \in 1..(n + 1) /\ \A j \in (n + 1 + 1)..(n + 1) : FALSE
  BY <1>0
<1>4. r.type = "COMMIT" /\ r.tx = t => Committed(log2, t)
  BY <1>0, <1>3 DEF Committed
<1>5. r.type = "ROLLBACK" /\ r.tx = t => ~Committed(log2, t)
  BY <1>0, <1>1, <1>2 DEF Committed
<1>6. ASSUME ~(r.type \in {"COMMIT", "ROLLBACK"} /\ r.tx = t)
      PROVE  Committed(log2, t) <=> Committed(log, t)
  <2>1. \A i \in 1..n : \A j \in (i + 1)..(n + 1) : j \in (i + 1)..n \/ j = n + 1
    BY <1>0
  <2>2. \A i \in 1..n : \A j \in (i + 1)..n : j \in (i + 1)..(n + 1) /\ j \in 1..n
    BY <1>0
  <2>3. Committed(log2, t) => Committed(log, t)
    BY <1>0, <1>1, <1>6, <2>2 DEF Committed, n
  <2>4. Committed(log, t) => Committed(log2, t)
    BY <1>0, <1>2, <1>6, <2>1, <2>2 DEF Committed, n
  <2> QED
    BY <2>3, <2>4
<1> QED
  BY <1>4, <1>5, <1>6 DEF Redoable

\* The records of a page in the longer log.
LEMMA TouchesGrow ==
  ASSUME NEW log, NEW r, NEW log2, Len(log) \in Nat, Grows(log, r, log2), NEW p
  PROVE  /\ r.type = "PAGE" /\ r.page = p =>
              TouchesOf(log2, p) = TouchesOf(log, p) \cup {Len(log) + 1}
         /\ ~(r.type = "PAGE" /\ r.page = p) => TouchesOf(log2, p) = TouchesOf(log, p)
         /\ \A i \in TouchesOf(log, p) : log2[i] = log[i] /\ i <= Len(log)
<1> DEFINE n == Len(log)
<1>0. n \in Nat /\ Len(log2) = n + 1 /\ log2[n + 1] = r /\ \A i \in 1..n : log2[i] = log[i]
  BY DEF Grows
<1>1. 1..(n + 1) = 1..n \cup {n + 1} /\ \A i \in 1..n : i <= n
  BY <1>0
<1> QED
  BY <1>0, <1>1 DEF TouchesOf

\* A record that ends no transaction and writes nothing leaves every outcome.
LEMMA OutcomeIdle ==
  ASSUME NEW log, NEW r, NEW log2, Len(log) \in Nat, Grows(log, r, log2), NEW p, NEW image,
         r.type \notin {"PAGE", "COMMIT", "ROLLBACK"}
  PROVE  OutcomeOf(log2, p, image) = OutcomeOf(log, p, image)
<1>1. TouchesOf(log2, p) = TouchesOf(log, p) /\ \A i \in TouchesOf(log, p) : log2[i] = log[i]
  BY TouchesGrow
<1>2. WinsAt(log2, p) = WinsAt(log, p)
  BY <1>1, RedoableGrows DEF WinsAt
<1> QED
  BY <1>1, <1>2, OutcomeSame

\* The end of a transaction leaves the pages it did not write, and a ROLLBACK
\* of one that was not redone leaves them all.
LEMMA OutcomeEnd ==
  ASSUME NEW log, NEW r, NEW log2, Len(log) \in Nat, Grows(log, r, log2), NEW p, NEW image,
         r.type \in {"COMMIT", "ROLLBACK"}, r.tx # AUTOCOMMIT,
         \/ TouchesAt(log, r.tx, p) = {}
         \/ r.type = "ROLLBACK" /\ ~Redoable(log, r.tx)
  PROVE  OutcomeOf(log2, p, image) = OutcomeOf(log, p, image)
<1>1. TouchesOf(log2, p) = TouchesOf(log, p) /\ \A i \in TouchesOf(log, p) : log2[i] = log[i]
  BY TouchesGrow
<1>2. TouchesAt(log, r.tx, p) = {i \in TouchesOf(log, p) : log[i].tx = r.tx}
  BY DEF TouchesAt, TouchesOf
<1>3. \A i \in TouchesOf(log, p) : Redoable(log2, log[i].tx) <=> Redoable(log, log[i].tx)
  <2>1. ASSUME NEW i \in TouchesOf(log, p), log[i].tx = r.tx
        PROVE  Redoable(log2, r.tx) <=> Redoable(log, r.tx)
    <3>1. r.type = "ROLLBACK" /\ ~Redoable(log, r.tx)
      BY <1>2, <2>1
    <3> QED
      BY <3>1, RedoableGrows
  <2>2. ASSUME NEW i \in TouchesOf(log, p), log[i].tx # r.tx
        PROVE  Redoable(log2, log[i].tx) <=> Redoable(log, log[i].tx)
    BY <2>2, RedoableGrows
  <2> QED
    BY <2>1, <2>2
<1>4. WinsAt(log2, p) = WinsAt(log, p)
  BY <1>1, <1>3 DEF WinsAt
<1> QED
  BY <1>1, <1>4, OutcomeSame

\* A write by a transaction that is not redone: its page keeps its outcome,
\* which for a page written for the first time is the before-image.
LEMMA OutcomeLoser ==
  ASSUME NEW log, NEW r, NEW log2, Len(log) \in Nat, Grows(log, r, log2), NEW p, NEW image,
         r.type = "PAGE", ~Redoable(log, r.tx), r.page = p => r.before = image
  PROVE  OutcomeOf(log2, p, image) = OutcomeOf(log, p, image)
<1>0. \A t : Redoable(log2, t) <=> Redoable(log, t)
  BY RedoableGrows
<1>1. \A i \in TouchesOf(log, p) : log2[i] = log[i] /\ i <= Len(log)
  BY TouchesGrow
<1>2. CASE r.page # p
  <2>1. TouchesOf(log2, p) = TouchesOf(log, p)
    BY <1>2, TouchesGrow
  <2>2. WinsAt(log2, p) = WinsAt(log, p)
    BY <1>0, <1>1, <2>1 DEF WinsAt
  <2> QED
    BY <1>1, <2>1, <2>2, OutcomeSame
<1>3. CASE r.page = p
  <2> DEFINE n == Len(log) + 1
             T == TouchesOf(log, p)
  <2>0. log2[n] = r
    BY DEF Grows
  <2>1. TouchesOf(log2, p) = T \cup {n} /\ log2[n] = r
    BY <1>3, <2>0, TouchesGrow
  <2>2. WinsAt(log2, p) = WinsAt(log, p)
    <3>1. ~Redoable(log2, log2[n].tx)
      BY <1>0, <2>1
    <3>2. \A i \in T : Redoable(log2, log2[i].tx) <=> Redoable(log, log[i].tx)
      BY <1>0, <1>1
    <3> QED
      BY <2>1, <3>1, <3>2 DEF WinsAt
  <2>3. T \in SUBSET (1..Len(log)) /\ WinsAt(log, p) \subseteq T
    BY TouchersAre
  <2>4. CASE WinsAt(log, p) # {}
    <3> DEFINE w == CHOOSE i \in WinsAt(log, p) : IsLast(i, WinsAt(log, p))
    <3>1. IsLast(w, WinsAt(log, p))
      BY Zenon, <2>3, <2>4, FirstAndLast
    <3>2. log2[w] = log[w]
      BY <1>1, <2>3, <3>1 DEF IsLast
    <3> QED
      BY <2>2, <2>4, <3>2 DEF OutcomeOf
  <2>5. CASE WinsAt(log, p) = {} /\ T # {}
    <3> DEFINE f == CHOOSE i \in T : IsFirst(i, T)
               g == CHOOSE i \in T \cup {n} : IsFirst(i, T \cup {n})
    <3>0. IsFirst(f, T)
      BY Zenon, <2>3, <2>5, FirstAndLast
    <3>1. f \in T /\ IsFirst(f, T)
      BY <3>0 DEF IsFirst
    <3>2. f < n /\ f \in Int /\ n \in Int
      BY <2>3, <3>1
    <3>3. IsFirst(f, T \cup {n})
      <4> HIDE DEF f, T, n
      <4>1. \A j \in T \cup {n} : f <= j
        BY <3>1, <3>2 DEF IsFirst
      <4> QED
        BY <3>1, <4>1 DEF IsFirst
    <3>4. T \cup {n} \in SUBSET (1..n) /\ n \in Nat
      BY <2>3
    <3>5. IsFirst(g, T \cup {n}) /\ g \in T \cup {n}
      BY <3>3 DEF IsFirst
    <3>6. f = g
      BY <3>2, <3>3, <3>4, <3>5, OneFirstOneLast
    <3>7. log2[g] = log[f]
      BY Zenon, <1>1, <3>1, <3>6
    <3>8. OutcomeOf(log2, p, image) = log2[g].before /\ OutcomeOf(log, p, image) = log[f].before
      BY <2>1, <2>2, <2>5 DEF OutcomeOf
    <3> QED
      BY <3>7, <3>8
  <2>6. CASE WinsAt(log, p) = {} /\ T = {}
    <3>1. n \in Int /\ IsFirst(n, {n}) /\ TouchesOf(log2, p) = {n}
      BY <2>1, <2>6 DEF IsFirst
    <3>2. OutcomeOf(log2, p, image) = r.before
      BY Zenon, <2>1, <2>2, <2>6, <3>1 DEF OutcomeOf
    <3> QED
      BY <1>3, <2>6, <3>2 DEF OutcomeOf
  <2> QED
    BY <2>4, <2>5, <2>6
<1> QED
  BY <1>2, <1>3

\* A winner's write that no other follows is what its page ends up as.
LEMMA OutcomeWinner ==
  ASSUME NEW log, Len(log) \in Nat, NEW p, NEW image, NEW w \in TouchesOf(log, p),
         Redoable(log, log[w].tx), \A j \in TouchesOf(log, p) : j <= w
  PROVE  OutcomeOf(log, p, image) = log[w].after
<1> DEFINE W == WinsAt(log, p)
           v == CHOOSE i \in W : IsLast(i, W)
<1>1. W \in SUBSET (1..Len(log)) /\ W \subseteq TouchesOf(log, p) /\ w \in W
  BY TouchersAre DEF WinsAt
<1>2. IsLast(w, W) /\ w \in Int
  BY <1>1 DEF IsLast
<1>3. IsLast(v, W) /\ v \in Int
  <2>1. IsLast(v, W)
    BY Zenon, <1>1, FirstAndLast
  <2> QED
    BY <1>1, <2>1 DEF IsLast
<1>4. v = w
  BY Zenon, <1>2, <1>3, OneFirstOneLast
<1> QED
  BY Zenon, <1>1, <1>4 DEF OutcomeOf

-----------------------------------------------------------------------------
\* The calls that end a transaction, on the two ways out.
Committing == {"committing", "stamping", "finishing"}
Aborting   == {"aborting", "undoing"}

Has(type, t) == \E i \in 1..Len(wal) : wal[i].type = type /\ wal[i].tx = t
InLog(p, image) == \E i \in TouchesOf(wal, p) : image \in {wal[i].before, wal[i].after}

\* Where the manager can be.
ManagerOK ==
  /\ nextTx > 0
  /\ phase # "up" => step = "ready" /\ active = 0 /\ logged = <<>>
  /\ step \in Committing \cup Aborting => active # 0
  /\ step = "logged" => cur[1] \in Pages
  /\ step \in {"committing", "stamping"} => Len(wal) > 0 /\ wal[Len(wal)].type = "COMMIT"
  /\ step = "stamping" => synced = Len(wal)
  /\ phase # "replaying" => todo = {}
  /\ \A p \in todo : TouchesOf(wal, p) # {}

\* Whatever the power leaves of the header names a COMMIT that is synced.
HeaderOK ==
  /\ pages[HeaderPage] \in media[HeaderPage]
  /\ \A v \in media[HeaderPage] : v # 0 => v \in 1..synced /\ wal[v].type = "COMMIT"

\* Whatever the power leaves of a page is in the log, unless it was never
\* written; so are the images a rollback or a running call is going to write.
ImagesOK ==
  /\ \A p \in Pages :
       /\ pages[p] \in media[p]
       /\ TouchesOf(wal, p) = {} => media[p] = {pages[p]}
       /\ TouchesOf(wal, p) # {} => \A v \in media[p] : InLog(p, v)
  /\ \A k \in DOMAIN logged : InLog(logged[k][1], logged[k][2])
  /\ step = "logged" => InLog(cur[1], cur[2])

\* A transaction's records follow its BEGIN.
BeginsOK ==
  /\ active # 0 => Has("BEGIN", active)
  /\ \A i \in 1..Len(wal) : wal[i].type \in {"PAGE", "COMMIT", "ROLLBACK"} =>
       /\ wal[i].tx # 0 => \E j \in 1..(i - 1) : wal[j].type = "BEGIN" /\ wal[j].tx = wal[i].tx
       /\ wal[i].tx = 0 => wal[i].type = "PAGE"

DurIInv == TypeOK /\ ManagerOK /\ HeaderOK /\ BeginsOK

\* What the log says each page is, and the state it says was acknowledged.
Says(p) == OutcomeOf(wal, p, pages[p])
Said == [p \in Pages |-> Says(p)]

\* The transaction that is open wrote last, and wrote what the pages show.
OpenTxOK ==
  active # 0 =>
    /\ step \notin Committing => ~Has("COMMIT", active)
    /\ step \in {"ready", "logged"} =>
         /\ \A i \in 1..Len(wal) : wal[i].type = "PAGE" /\ wal[i].tx = active =>
              /\ i > synced
              /\ \A j \in 1..Len(wal) : wal[j].type = "PAGE" /\ wal[j].tx # active => j < i
              /\ \E k \in DOMAIN logged : logged[k][1] = wal[i].page
              /\ wal[i].after = IF step = "logged" /\ wal[i].page = cur[1]
                                  THEN cur[2] ELSE pages[wal[i].page]
         /\ \A k \in DOMAIN logged : TouchesAt(wal, active, logged[k][1]) # {}
         /\ step = "logged" => \E k \in DOMAIN logged : logged[k][1] = cur[1]

\* What ended a transaction is synced with the pages it wrote.
EndsOK ==
  \A i \in 1..synced, j \in 1..Len(wal) :
    /\ wal[i].type = "PAGE" /\ wal[j].type \in {"COMMIT", "ROLLBACK"} /\ wal[i].tx = wal[j].tx
    => j <= synced

\* The pages and the acknowledged state against what the log says.
StateOK ==
  /\ Said \in outcomes
  /\ phase = "up" /\ active # 0 /\ step \notin Committing =>
       /\ outcomes = {Said}
       /\ \A k \in DOMAIN logged : logged[k][2] = Says(logged[k][1])
       /\ \A p \in Pages : (\A k \in DOMAIN logged : logged[k][1] # p) => pages[p] = Says(p)
  /\ phase = "up" /\ active = 0 /\ step = "ready" => outcomes = {Said}
  /\ phase = "up" /\ active = 0 /\ step = "logged" => Says(cur[1]) = cur[2]
  /\ phase = "up" /\ (active = 0 \/ step \in Committing) =>
       \A p \in Pages : pages[p] = Says(p) \/ (step = "logged" /\ p = cur[1])
  /\ phase = "replaying" => \A p \in Pages \ todo : pages[p] = Says(p)

CleanIInv == OpenTxOK /\ EndsOK /\ StateOK
-----------------------------------------------------------------------------
(* Types                                                                   *)

Records == [type : {"BEGIN", "COMMIT", "ROLLBACK"}, tx : Nat]
           \cup [type : {"PAGE"}, tx : Nat, page : Pages, before : Nat, after : Nat]
           \cup [type : {"CKPT"}, lsn : Nat]

\* The records that the manager appends.
LEMMA RecordTypes ==
  ASSUME NEW t \in Nat, NEW p \in Pages, NEW b \in Nat, NEW a \in Nat
  PROVE  /\ BeginRec(t) \in Records /\ BeginRec(t).type = "BEGIN" /\ BeginRec(t).tx = t
         /\ CommitRec(t) \in Records /\ CommitRec(t).type = "COMMIT" /\ CommitRec(t).tx = t
         /\ RollbackRec(t) \in Records /\ RollbackRec(t).type = "ROLLBACK" /\ RollbackRec(t).tx = t
         /\ PageRec(t, p, b, a) \in Records /\ PageRec(t, p, b, a).type = "PAGE"
         /\ PageRec(t, p, b, a).tx = t /\ PageRec(t, p, b, a).page = p
         /\ PageRec(t, p, b, a).before = b /\ PageRec(t, p, b, a).after = a
  BY DEF Records, BeginRec, CommitRec, RollbackRec, PageRec

\* ... and the fields of those it finds in the log.
LEMMA RecordFields ==
  ASSUME TypeOK, NEW i \in 1..Len(wal)
  PROVE  /\ wal[i] \in Records
         /\ wal[i].type \in {"BEGIN", "COMMIT", "ROLLBACK", "PAGE"} => wal[i].tx \in Nat
         /\ wal[i].type = "PAGE" => wal[i].page \in Pages /\ wal[i].before \in Nat /\ wal[i].after \in Nat
<1>1. wal \in Seq(Records)
  BY DEF TypeOK, Records
<1>2. wal[i] \in Records
  BY <1>1, SeqIs
<1> QED
  BY <1>2 DEF Records

\* The log is a sequence of them.
LEMMA LogLength == TypeOK => Len(wal) \in Nat /\ wal \in Seq(Records) /\ DOMAIN wal = 1..Len(wal)
<1>1. TypeOK => wal \in Seq(Records)
  BY DEF TypeOK, Records
<1> QED
  BY <1>1, SeqIs

\* AppendWal: the log grows by a record.
LEMMA WalGrows ==
  ASSUME TypeOK, NEW r \in Records, AppendWal(r)
  PROVE  /\ Grows(wal, r, wal') /\ wal' \in Seq(Records) /\ Len(wal') = Len(wal) + 1
         /\ Len(wal) \in Nat /\ synced \in 0..Len(wal')
<1>1. wal \in Seq(Records) /\ Len(wal) \in Nat /\ synced \in 0..Len(wal)
  BY LogLength DEF TypeOK
<1>2. wal' = Append(wal, r)
  BY DEF AppendWal
<1>3. Grows(wal, r, wal') /\ wal' \in Seq(Records)
  BY <1>1, <1>2, AppendGrows
<1>4. Len(wal') = Len(wal) + 1
  BY <1>3 DEF Grows
<1> QED
  BY <1>1, <1>3, <1>4

\* WriteFile: one page changes, and may be what the power leaves.
LEMMA FileWritten ==
  ASSUME TypeOK, NEW q \in Pages \cup {HeaderPage}, NEW v \in Nat, WriteFile(q, v)
  PROVE  /\ pages' \in [Pages \cup {HeaderPage} -> Nat]
         /\ media' \in [Pages \cup {HeaderPage} -> SUBSET Nat]
         /\ \A p \in Pages \cup {HeaderPage} :
              /\ pages'[p] = IF p = q THEN v ELSE pages[p]
              /\ media'[p] = IF p = q THEN media[p] \cup {v} ELSE media[p]
  BY Zenon DEF TypeOK, WriteFile

\* Replay writes a page image that a record has.
LEMMA ImageType ==
  ASSUME TypeOK, NEW p \in Pages, TouchesOf(wal, p) # {}
  PROVE  Image(wal, p) \in Nat /\ InLog(p, Image(wal, p)) /\ Restored(wal, p)
<1>1. Len(wal) \in Nat /\ Restored(wal, p)
  BY LogLength, TouchersAre
<1>2. PICK i \in TouchesOf(wal, p) : Image(wal, p) \in {wal[i].before, wal[i].after}
  BY <1>1, ImageInLog
<1>3. i \in 1..Len(wal) /\ wal[i].type = "PAGE"
  BY DEF TouchesOf
<1> QED
  BY <1>1, <1>2, <1>3, RecordFields DEF InLog

\* The type invariant in these terms.
Types ==
  /\ wal \in Seq(Records) /\ synced \in 0..Len(wal)
  /\ pages \in [Pages \cup {HeaderPage} -> Nat] /\ media \in [Pages \cup {HeaderPage} -> SUBSET Nat]
  /\ phase \in {"down", "replaying", "up"} /\ todo \in SUBSET Pages /\ step \in Steps
  /\ cur \in (Pages \cup {HeaderPage}) \X Nat /\ nextTx \in Nat /\ active \in Nat
  /\ logged \in Seq(Pages \X Nat) /\ session \in Nat /\ fresh \in Nat
  /\ outcomes \in SUBSET [Pages -> Nat]

\* They are the same, before a step and after it.
LEMMA TypeIs == (TypeOK <=> Types) /\ (TypeOK' <=> Types')
  BY DEF TypeOK, Types, Records

\* A dead process leaves nothing in memory.
LEMMA VolatileTypes ==
  Volatile => /\ phase' \in {"down", "replaying", "up"} /\ todo' \in SUBSET Pages /\ step' \in Steps
              /\ cur' \in (Pages \cup {HeaderPage}) \X Nat /\ nextTx' \in Nat /\ active' \in Nat
              /\ logged' \in Seq(Pages \X Nat)
  BY DEF Volatile, Steps, NoWrite, HeaderPage

\* Adding an element keeps the type of a list of before-images.
LEMMA LoggedTypes ==
  ASSUME TypeOK
  PROVE  /\ \A p \in Pages : Append(logged, <<p, pages[p]>>) \in Seq(Pages \X Nat)
         /\ logged # <<>> => /\ Len(logged) \in DOMAIN logged
                             /\ logged[Len(logged)] \in Pages \X Nat
                             /\ SubSeq(logged, 1, Len(logged) - 1) \in Seq(Pages \X Nat)
<1>0. logged \in Seq(Pages \X Nat) /\ \A p \in Pages : pages[p] \in Nat
  BY DEF TypeOK
<1>1. \A p \in Pages : Append(logged, <<p, pages[p]>>) \in Seq(Pages \X Nat)
  BY <1>0
<1> DEFINE S == Pages \X Nat
<1>2. ASSUME logged # <<>>
      PROVE  /\ Len(logged) \in DOMAIN logged /\ logged[Len(logged)] \in S
             /\ SubSeq(logged, 1, Len(logged) - 1) \in Seq(S)
  <2>1. logged \in Seq(S)
    BY <1>0
  <2> HIDE DEF S
  <2>2. Len(logged) \in Nat /\ Len(logged) # 0 /\ DOMAIN logged = 1..Len(logged)
    BY <1>2, <2>1, SeqIs
  <2>3. Len(logged) \in 1..Len(logged) /\ \A i \in 1..(Len(logged) - 1) : i \in 1..Len(logged)
    BY <2>2
  <2>4. logged[Len(logged)] \in S
    BY <2>1, <2>3, SeqIs
  <2>5. SubSeq(logged, 1, Len(logged) - 1) \in Seq(S)
    BY <2>1, <2>2, <2>3
  <2> QED
    BY <2>2, <2>3, <2>4, <2>5
<1> QED
  BY <1>1, <1>2

\* Every step keeps the types.
LEMMA TypeKept ==
  ASSUME TypeOK, ManagerOK, Next
  PROVE  TypeOK'
<1> SUFFICES Types'
  BY TypeIs
<1>0. Types /\ Len(wal) \in Nat
  BY TypeIs, LogLength
<1> USE DEF Types
<1>1. Contents(pages) \in [Pages -> Nat] /\ <<>> \in Seq(Pages \X Nat) /\ 0 \in Nat
  BY <1>0 DEF Contents
<1>2. CASE Begin
  <2>1. BeginRec(nextTx) \in Records /\ nextTx + 1 \in Nat
    BY <1>0 DEF Records, BeginRec
  <2>2. wal' \in Seq(Records) /\ synced' \in 0..Len(wal')
    BY <1>2, <2>1, WalGrows DEF Begin
  <2> QED
    BY <1>0, <1>1, <1>2, <2>1, <2>2 DEF Begin, Steps
<1>3. ASSUME NEW p \in Pages, LogWrite(p) PROVE Types'
  <2>1. fresh + 1 \in Nat /\ pages[p] \in Nat
    BY <1>0
  <2>2. PageRec(active, p, pages[p], fresh + 1) \in Records
    BY Zenon, <1>0, <2>1, RecordTypes
  <2>3. wal' \in Seq(Records) /\ synced' \in 0..Len(wal')
    BY <1>3, <2>2, WalGrows DEF LogWrite
  <2>4. outcomes' \in SUBSET [Pages -> Nat]
    <3>1. \A f \in outcomes : [f EXCEPT ![p] = fresh + 1] \in [Pages -> Nat]
      BY <1>0, <2>1
    <3>2. outcomes' \subseteq outcomes \cup {[f EXCEPT ![p] = fresh + 1] : f \in outcomes}
      BY <1>3 DEF LogWrite
    <3>3. outcomes \subseteq [Pages -> Nat]
      BY <1>0
    <3> HIDE DEF Types
    <3> QED
      BY <3>1, <3>2, <3>3
  <2>5. logged' \in Seq(Pages \X Nat)
    BY <1>3, LoggedTypes DEF LogWrite
  <2> QED
    BY Zenon, <1>0, <1>3, <2>1, <2>3, <2>4, <2>5 DEF LogWrite, Steps
<1>4. CASE ApplyWrite
  <2>1. cur[1] \in Pages \cup {HeaderPage} /\ cur[2] \in Nat /\ NoWrite \in (Pages \cup {HeaderPage}) \X Nat
    BY <1>0 DEF NoWrite, HeaderPage
  <2>2. /\ pages' \in [Pages \cup {HeaderPage} -> Nat]
        /\ media' \in [Pages \cup {HeaderPage} -> SUBSET Nat]
    BY <1>4, <2>1, FileWritten DEF ApplyWrite
  <2>3. outcomes' \in SUBSET [Pages -> Nat]
    BY <1>0, <1>4, <2>2 DEF ApplyWrite, Contents
  <2> QED
    BY <1>0, <1>4, <2>1, <2>2, <2>3 DEF ApplyWrite, Steps
<1>5. ASSUME NEW p \in Pages, ReplayPage(p) PROVE Types'
  <2>1. Image(wal, p) \in Nat
    BY <1>5, ImageType DEF ReplayPage, ManagerOK
  <2>2. /\ pages' \in [Pages \cup {HeaderPage} -> Nat]
        /\ media' \in [Pages \cup {HeaderPage} -> SUBSET Nat]
    BY Zenon, <1>5, <2>1, FileWritten DEF ReplayPage
  <2> QED
    BY <1>0, <1>5, <2>2 DEF ReplayPage, manager
<1>6. CASE AppendCommit
  <2>1. CommitRec(active) \in Records
    BY <1>0 DEF Records, CommitRec
  <2>2. wal' \in Seq(Records) /\ synced' \in 0..Len(wal')
    BY <1>6, <2>1, WalGrows DEF AppendCommit
  <2> QED
    BY <1>0, <1>1, <1>6, <2>2 DEF AppendCommit, Steps
<1>7. CASE FsyncCommit \/ FsyncRollback
  <2>1. synced' \in 0..Len(wal') /\ wal' = wal
    BY <1>0, <1>7 DEF FsyncCommit, FsyncRollback, FsyncWal
  <2> QED
    BY <1>0, <1>7, <2>1 DEF FsyncCommit, FsyncRollback, FsyncWal, Steps
<1>8. CASE StampHeader
  <2>1. /\ pages' \in [Pages \cup {HeaderPage} -> Nat]
        /\ media' \in [Pages \cup {HeaderPage} -> SUBSET Nat]
    BY Zenon, <1>0, <1>8, FileWritten DEF StampHeader
  <2> QED
    BY <1>0, <1>8, <2>1 DEF StampHeader, Steps
<1>9. CASE FinishCommit \/ FinishRollback
  BY Zenon, <1>0, <1>1, <1>9 DEF FinishCommit, FinishRollback, Steps, files
<1>10. CASE AppendRollback
  <2>1. RollbackRec(active) \in Records
    BY <1>0 DEF Records, RollbackRec
  <2>2. wal' \in Seq(Records) /\ synced' \in 0..Len(wal')
    BY <1>10, <2>1, WalGrows DEF AppendRollback
  <2> QED
    BY <1>0, <1>10, <2>2 DEF AppendRollback, Steps
<1>11. CASE UndoWrite
  <2>1. logged[Len(logged)] \in Pages \X Nat /\ logged' \in Seq(Pages \X Nat)
    BY <1>11, LoggedTypes DEF UndoWrite
  <2>2. /\ pages' \in [Pages \cup {HeaderPage} -> Nat]
        /\ media' \in [Pages \cup {HeaderPage} -> SUBSET Nat]
    BY Zenon, <1>11, <2>1, FileWritten DEF UndoWrite
  <2> QED
    BY <1>0, <1>11, <2>1, <2>2 DEF UndoWrite
<1>12. CASE Checkpoint
  <2>1. [type |-> "CKPT", lsn |-> Len(wal) + 1] \in Records
    BY <1>0 DEF Records
  <2>2. wal' \in Seq(Records) /\ synced' \in 0..Len(wal')
    BY <1>12, <2>1, WalGrows DEF Checkpoint
  <2> QED
    BY <1>0, <1>12, <2>2 DEF Checkpoint, manager
<1>13. CASE Close \/ Crash
  <2>1. media' \in [Pages \cup {HeaderPage} -> SUBSET Nat] /\ UNCHANGED <<wal, synced, pages>>
    BY <1>0, <1>13 DEF Close, Crash, files
  <2>2. Volatile /\ UNCHANGED <<session, fresh, outcomes>>
    BY <1>13 DEF Close, Crash
  <2> QED
    BY <1>0, <2>1, <2>2, VolatileTypes
<1>14. CASE PowerLoss
  <2>1. PICK n \in synced..Len(wal) : wal' = SubSeq(wal, 1, n)
    BY <1>14 DEF PowerLoss
  <2>2. wal' \in Seq(Records) /\ Len(wal') = n /\ n \in Nat
    BY <1>0, <2>1, PrefixIs
  <2>3. synced' \in 0..Len(wal')
    BY <1>0, <1>14, <2>1, <2>2 DEF PowerLoss
  <2>4. /\ pages' \in [Pages \cup {HeaderPage} -> Nat]
        /\ media' \in [Pages \cup {HeaderPage} -> SUBSET Nat]
    BY Zenon, <1>0, <1>14 DEF PowerLoss
  <2>5. Volatile /\ UNCHANGED <<session, fresh, outcomes>>
    BY <1>14 DEF PowerLoss
  <2> QED
    BY <1>0, <2>2, <2>3, <2>4, <2>5, VolatileTypes
<1>15. CASE Open
  <2>1. session' \in Nat
    BY <1>0, <1>15 DEF Open
  <2> QED
    BY <1>0, <1>15, <2>1 DEF Open, files, manager
<1>16. CASE OpenDone
  <2>1. outcomes' \in SUBSET [Pages -> Nat]
    BY <1>0, <1>1, <1>16 DEF OpenDone
  <2> QED
    BY <1>0, <1>16, <2>1 DEF OpenDone, files, manager
<1> QED
  BY Zenon, <1>2, <1>3, <1>4, <1>5, <1>6, <1>7, <1>8, <1>9, <1>10, <1>11, <1>12, <1>13, <1>14, <1>15,
     <1>16 DEF Next
-----------------------------------------------------------------------------
(* The log against the files                                               *)

\* The log has all it had.
Kept == Len(wal) <= Len(wal') /\ \A i \in 1..Len(wal) : i \in 1..Len(wal') /\ wal'[i] = wal[i]

\* It does when a record is appended.
LEMMA GrowsKeeps ==
  ASSUME Len(wal) \in Nat, NEW r, Grows(wal, r, wal')
  PROVE  Kept /\ Len(wal') = Len(wal) + 1 /\ wal'[Len(wal')] = r
  BY DEF Grows, Kept

\* What is in the log stays there.
LEMMA InLogStays ==
  ASSUME Kept, NEW p
  PROVE  /\ TouchesOf(wal, p) \subseteq TouchesOf(wal', p)
         /\ \A v : InLog(p, v) => InLog(p, v)'
<1>1. ASSUME NEW i \in TouchesOf(wal, p) PROVE i \in TouchesOf(wal', p) /\ wal'[i] = wal[i]
  BY DEF Kept, TouchesOf
<1>2. ASSUME NEW v, InLog(p, v) PROVE InLog(p, v)'
  <2>1. PICK i \in TouchesOf(wal, p) : v \in {wal[i].before, wal[i].after}
    BY <1>2 DEF InLog
  <2> QED
    BY <1>1, <2>1 DEF InLog
<1> QED
  BY <1>1, <1>2

\* The steps, by what they do to the log: nothing, ...
LEMMA WalSame ==
  ASSUME \/ ApplyWrite \/ \E p \in Pages : ReplayPage(p)
         \/ FsyncCommit \/ StampHeader \/ FinishCommit \/ FsyncRollback \/ UndoWrite \/ FinishRollback
         \/ Close \/ Crash \/ Open \/ OpenDone
  PROVE  wal' = wal
  BY DEF ApplyWrite, ReplayPage, FsyncCommit, FsyncWal, StampHeader, FinishCommit, FsyncRollback,
     UndoWrite, FinishRollback, Close, Crash, Open, OpenDone, files

\* ... or add a record to it.
LEMMA WalMore ==
  ASSUME TypeOK
  PROVE  /\ Begin => /\ Grows(wal, BeginRec(nextTx), wal')
                     /\ BeginRec(nextTx).type = "BEGIN" /\ BeginRec(nextTx).tx = nextTx
         /\ \A p \in Pages : LogWrite(p) =>
              LET r == PageRec(active, p, pages[p], fresh + 1)
              IN  /\ Grows(wal, r, wal') /\ r.type = "PAGE" /\ r.tx = active /\ r.page = p
                  /\ r.before = pages[p] /\ r.after = fresh + 1
         /\ AppendCommit => /\ Grows(wal, CommitRec(active), wal')
                            /\ CommitRec(active).type = "COMMIT" /\ CommitRec(active).tx = active
         /\ AppendRollback => /\ Grows(wal, RollbackRec(active), wal')
                              /\ RollbackRec(active).type = "ROLLBACK" /\ RollbackRec(active).tx = active
         /\ Checkpoint => \E r : Grows(wal, r, wal') /\ r.type = "CKPT"
<1>0. active \in Nat /\ nextTx \in Nat /\ fresh + 1 \in Nat /\ \A p \in Pages : pages[p] \in Nat
  BY DEF TypeOK
<1>1. Begin => /\ Grows(wal, BeginRec(nextTx), wal')
               /\ BeginRec(nextTx).type = "BEGIN" /\ BeginRec(nextTx).tx = nextTx
  BY <1>0, WalGrows DEF Begin, BeginRec, Records
<1>2. ASSUME NEW p \in Pages, LogWrite(p)
      PROVE  LET r == PageRec(active, p, pages[p], fresh + 1)
             IN  /\ Grows(wal, r, wal') /\ r.type = "PAGE" /\ r.tx = active /\ r.page = p
                 /\ r.before = pages[p] /\ r.after = fresh + 1
  BY <1>0, <1>2, WalGrows, RecordTypes DEF LogWrite
<1>3. AppendCommit => /\ Grows(wal, CommitRec(active), wal')
                      /\ CommitRec(active).type = "COMMIT" /\ CommitRec(active).tx = active
  BY <1>0, WalGrows DEF AppendCommit, CommitRec, Records
<1>4. AppendRollback => /\ Grows(wal, RollbackRec(active), wal')
                        /\ RollbackRec(active).type = "ROLLBACK" /\ RollbackRec(active).tx = active
  BY <1>0, WalGrows DEF AppendRollback, RollbackRec, Records
<1>5. ASSUME Checkpoint PROVE \E r : Grows(wal, r, wal') /\ r.type = "CKPT"
  <2> DEFINE r == [type |-> "CKPT", lsn |-> Len(wal) + 1]
  <2>1. r \in Records /\ r.type = "CKPT"
    BY LogLength DEF Records
  <2>2. Grows(wal, r, wal')
    BY <1>5, <2>1, WalGrows DEF Checkpoint
  <2> QED
    BY <2>1, <2>2
<1> QED
  BY <1>1, <1>2, <1>3, <1>4, <1>5

\* Where the manager can be, after a step.
LEMMA ManagerKept ==
  ASSUME TypeOK, ManagerOK, Next
  PROVE  ManagerOK'
<1>0. /\ Len(wal) \in Nat /\ nextTx \in Nat /\ active \in Nat
      /\ phase \in {"down", "replaying", "up"} /\ step \in Steps
  BY LogLength DEF TypeOK
<1>1. CASE Begin
  <2>1. nextTx' > 0 /\ active' # 0 /\ phase' = phase /\ phase = "up" /\ todo' = todo /\ step' = "ready"
    BY <1>0, <1>1 DEF Begin, Running, ManagerOK
  <2> QED
    BY <2>1 DEF ManagerOK, Committing, Aborting
<1>2. ASSUME NEW p \in Pages, LogWrite(p) PROVE ManagerOK'
  <2>1. UNCHANGED <<nextTx, phase, todo>> /\ phase = "up" /\ step' = "logged" /\ cur'[1] = p
    BY <1>2 DEF LogWrite, Running
  <2> QED
    BY <2>1 DEF ManagerOK, Committing, Aborting
<1>3. CASE ApplyWrite \/ FinishCommit \/ FinishRollback \/ Checkpoint
  <2>1. UNCHANGED <<nextTx, phase, todo>> /\ phase = "up" /\ step' = "ready"
    BY <1>3 DEF ApplyWrite, FinishCommit, FinishRollback, Checkpoint, Running, manager
  <2> QED
    BY <2>1 DEF ManagerOK, Committing, Aborting
<1>4. CASE AppendCommit
  <2>1. /\ UNCHANGED <<nextTx, phase, todo, active>> /\ phase = "up" /\ step' = "committing"
        /\ active # 0
    BY <1>4 DEF AppendCommit, Running
  <2>2. Len(wal') > 0 /\ wal'[Len(wal')].type = "COMMIT"
    BY <1>0, <1>4, WalMore, GrowsKeeps
  <2> QED
    BY <2>1, <2>2 DEF ManagerOK, Committing, Aborting
<1>5. CASE FsyncCommit
  <2>1. /\ UNCHANGED <<wal, nextTx, phase, todo, active>> /\ phase = "up" /\ step = "committing"
        /\ step' = "stamping" /\ synced' = Len(wal)
    BY <1>5 DEF FsyncCommit, FsyncWal, Running
  <2> QED
    BY <2>1 DEF ManagerOK, Committing, Aborting
<1>6. CASE StampHeader \/ FsyncRollback \/ UndoWrite
  <2>1. /\ UNCHANGED <<nextTx, phase, todo, active>> /\ phase = "up"
        /\ step \in {"stamping", "aborting", "undoing"} /\ step' \in {"finishing", "undoing"}
    BY <1>6 DEF StampHeader, FsyncRollback, UndoWrite, FsyncWal, Running
  <2> QED
    BY <2>1 DEF ManagerOK, Committing, Aborting
<1>7. CASE AppendRollback
  <2>1. /\ UNCHANGED <<nextTx, phase, todo, active>> /\ phase = "up" /\ step' = "aborting"
        /\ active # 0
    BY <1>7 DEF AppendRollback, Running
  <2> QED
    BY <2>1 DEF ManagerOK, Committing, Aborting
<1>8. CASE Close \/ Crash \/ PowerLoss
  <2>1. Volatile
    BY <1>8 DEF Close, Crash, PowerLoss
  <2> QED
    BY <2>1 DEF ManagerOK, Committing, Aborting, Volatile
<1>9. CASE Open \/ OpenDone
  <2>1. UNCHANGED <<wal, step, cur, nextTx, active, logged>> /\ phase # "up"
    BY <1>9 DEF Open, OpenDone, manager, files
  <2>2. step = "ready"
    BY <2>1 DEF ManagerOK
  <2>3. \/ phase' = "replaying" /\ todo' = {p \in Pages : Restored(wal, p)}
        \/ phase' = "up" /\ todo' = {}
    BY <1>9 DEF Open, OpenDone
  <2>4. \A p \in todo' : TouchesOf(wal, p) # {}
    BY <1>0, <2>3, TouchersAre
  <2> QED
    BY <2>1, <2>2, <2>3, <2>4 DEF ManagerOK, Committing, Aborting
<1>10. ASSUME NEW p \in Pages, ReplayPage(p) PROVE ManagerOK'
  <2>1. /\ UNCHANGED <<wal, synced, phase, step, cur, nextTx, active, logged>> /\ todo' \subseteq todo
        /\ phase = "replaying"
    BY <1>10 DEF ReplayPage, manager
  <2> QED
    BY <2>1 DEF ManagerOK, Committing, Aborting
<1> QED
  BY <1>1, <1>2, <1>3, <1>4, <1>5, <1>6, <1>7, <1>8, <1>9, <1>10 DEF Next

\* What a power loss leaves of the log: a prefix with all that was synced.
LEMMA WalCut ==
  ASSUME TypeOK, PowerLoss
  PROVE  \E n \in synced..Len(wal) :
           /\ wal' = SubSeq(wal, 1, n) /\ Len(wal') = n /\ n \in Nat /\ n <= Len(wal)
           /\ \A i \in 1..n : i \in 1..Len(wal) /\ wal'[i] = wal[i]
           /\ \A i \in 1..synced : i \in 1..n
<1>0. wal \in Seq(Records) /\ Len(wal) \in Nat /\ synced \in 0..Len(wal)
  BY LogLength DEF TypeOK
<1>1. PICK n \in synced..Len(wal) : wal' = SubSeq(wal, 1, n)
  BY DEF PowerLoss
<1>2. n \in Nat /\ n <= Len(wal) /\ synced <= n
  BY <1>0
<1>3. Len(wal') = n /\ \A i \in 1..n : wal'[i] = wal[i]
  BY <1>0, <1>1, <1>2, PrefixIs
<1> QED
  BY <1>0, <1>1, <1>2, <1>3

\* What the steps do to the files: one page is written, or none is; a close
\* or a power loss settles what the power may leave.
LEMMA FileSteps ==
  ASSUME TypeOK, ManagerOK, Next
  PROVE  \/ UNCHANGED <<pages, media>>
         \/ ApplyWrite /\ cur[1] \in Pages /\ WriteFile(cur[1], cur[2])
         \/ StampHeader /\ WriteFile(HeaderPage, Len(wal))
         \/ /\ UndoWrite /\ logged # <<>> /\ Len(logged) \in DOMAIN logged
            /\ logged[Len(logged)] \in Pages \X Nat
            /\ WriteFile(logged[Len(logged)][1], logged[Len(logged)][2])
         \/ \E p \in Pages : ReplayPage(p) /\ WriteFile(p, Image(wal, p)) /\ TouchesOf(wal, p) # {}
         \/ Close \/ PowerLoss
<1>1. CASE ApplyWrite
  BY <1>1 DEF ApplyWrite, ManagerOK, Running
<1>2. CASE StampHeader
  BY <1>2 DEF StampHeader
<1>3. CASE UndoWrite
  BY <1>3, LoggedTypes DEF UndoWrite
<1>4. ASSUME NEW p \in Pages, ReplayPage(p)
      PROVE  WriteFile(p, Image(wal, p)) /\ TouchesOf(wal, p) # {}
  BY <1>4 DEF ReplayPage, ManagerOK
<1>5. CASE \/ Begin \/ AppendCommit \/ FsyncCommit \/ FinishCommit \/ AppendRollback \/ FsyncRollback
           \/ FinishRollback \/ Checkpoint \/ Crash \/ Open \/ OpenDone \/ \E p \in Pages : LogWrite(p)
  BY <1>5 DEF Begin, AppendCommit, FsyncCommit, FsyncWal, FinishCommit, AppendRollback, FsyncRollback,
     FinishRollback, Checkpoint, Crash, Open, OpenDone, LogWrite, files
<1> QED
  BY <1>1, <1>2, <1>3, <1>4, <1>5 DEF Next

\* No step takes back what was synced.
LEMMA SyncedKept ==
  ASSUME TypeOK, Next
  PROVE  synced <= synced' /\ \A i \in 1..synced : i \in 1..Len(wal') /\ wal'[i] = wal[i]
<1>0. Len(wal) \in Nat /\ synced \in 0..Len(wal)
  BY LogLength DEF TypeOK
<1>1. CASE PowerLoss
  BY <1>0, <1>1, WalCut DEF PowerLoss
<1>2. CASE FsyncCommit \/ FsyncRollback
  BY <1>0, <1>2 DEF FsyncCommit, FsyncRollback, FsyncWal
<1>3. CASE ~(PowerLoss \/ FsyncCommit \/ FsyncRollback)
  <2>1. synced' = synced
    BY <1>3 DEF Next, Begin, LogWrite, ApplyWrite, ReplayPage, AppendCommit, StampHeader, FinishCommit,
       AppendRollback, UndoWrite, FinishRollback, Checkpoint, Close, Crash, Open, OpenDone, files
  <2>2. wal' = wal \/ Kept
    BY <1>0, <1>3, WalSame, WalMore, GrowsKeeps DEF Next
  <2> QED
    BY <1>0, <2>1, <2>2 DEF Kept
<1> QED
  BY <1>1, <1>2, <1>3

\* The header is stamped right after the fsync of the COMMIT it names.
LEMMA HeaderKept ==
  ASSUME TypeOK, ManagerOK, HeaderOK, Next
  PROVE  HeaderOK'
<1>0. /\ Len(wal) \in Nat /\ synced \in 0..Len(wal) /\ synced' \in Nat /\ synced <= synced'
      /\ \A i \in 1..synced : wal'[i] = wal[i]
  <2>1. TypeOK'
    BY TypeKept
  <2>2. synced' \in Nat
    BY <2>1, TypeIs DEF Types
  <2> QED
    BY <2>2, LogLength, SyncedKept DEF TypeOK
<1>1. HeaderPage \notin Pages
  BY PagesAssumption DEF HeaderPage
<1>2. ASSUME media'[HeaderPage] \subseteq media[HeaderPage], pages'[HeaderPage] \in media'[HeaderPage]
      PROVE  HeaderOK'
  BY <1>0, <1>2 DEF HeaderOK
<1>3. ASSUME NEW q \in Pages, NEW v \in Nat, WriteFile(q, v)
      PROVE  HeaderOK'
  <2>1. pages'[HeaderPage] = pages[HeaderPage] /\ media'[HeaderPage] = media[HeaderPage]
    BY Zenon, <1>1, <1>3, FileWritten
  <2> QED
    BY <1>2, <2>1 DEF HeaderOK
<1>4. CASE UNCHANGED <<pages, media>>
  BY <1>2, <1>4 DEF HeaderOK
<1>5. CASE StampHeader /\ WriteFile(HeaderPage, Len(wal))
  <2>1. /\ pages'[HeaderPage] = Len(wal) /\ media'[HeaderPage] = media[HeaderPage] \cup {Len(wal)}
        /\ wal' = wal /\ synced' = synced
    BY Zenon, <1>0, <1>5, FileWritten DEF StampHeader
  <2>2. Len(wal) \in 1..synced /\ wal[Len(wal)].type = "COMMIT"
    BY <1>0, <1>5 DEF StampHeader, Running, ManagerOK
  <2> QED
    BY <2>1, <2>2 DEF HeaderOK
<1>6. CASE Close
  <2>1. pages' = pages /\ media'[HeaderPage] = {pages[HeaderPage]}
    BY <1>6 DEF Close, TypeOK
  <2> QED
    BY <1>2, <2>1 DEF HeaderOK
<1>7. CASE PowerLoss
  <2>1. pages'[HeaderPage] \in media[HeaderPage] /\ media'[HeaderPage] = {pages'[HeaderPage]}
    BY <1>7 DEF PowerLoss, TypeOK
  <2> QED
    BY <1>2, <2>1
<1>8. CASE ApplyWrite /\ cur[1] \in Pages /\ WriteFile(cur[1], cur[2])
  BY <1>3, <1>8 DEF TypeOK
<1>9. CASE logged[Len(logged)] \in Pages \X Nat /\ WriteFile(logged[Len(logged)][1], logged[Len(logged)][2])
  BY <1>3, <1>9
<1>10. ASSUME NEW p \in Pages, WriteFile(p, Image(wal, p)), TouchesOf(wal, p) # {}
       PROVE  HeaderOK'
  BY <1>3, <1>10, ImageType
<1> QED
  BY <1>4, <1>5, <1>6, <1>7, <1>8, <1>9, <1>10, FileSteps

\* A record is added for the transaction that is open, after its BEGIN.
LEMMA BeginsKept ==
  ASSUME TypeOK, ManagerOK, BeginsOK, Next
  PROVE  BeginsOK'
<1>0. Len(wal) \in Nat
  BY LogLength
<1>1. ASSUME NEW r, Grows(wal, r, wal'),
             active' # 0 => active' = active \/ (r.type = "BEGIN" /\ r.tx = active'),
             r.type \in {"PAGE", "COMMIT", "ROLLBACK"} =>
               r.tx = active /\ (active = 0 => r.type = "PAGE")
      PROVE  BeginsOK'
  <2> DEFINE n == Len(wal)
  <2>1. /\ Len(wal') = n + 1 /\ wal'[n + 1] = r /\ n \in Nat
        /\ \A i \in 1..n : i \in 1..(n + 1) /\ wal'[i] = wal[i]
        /\ \A i \in 1..(n + 1) : i \in 1..n \/ i = n + 1
    BY <1>0, <1>1 DEF Grows
  <2>2. (active # 0 => Has("BEGIN", active))'
    <3>1. ASSUME active' # 0, active' = active PROVE Has("BEGIN", active)'
      BY <2>1, <3>1 DEF BeginsOK, Has
    <3>2. ASSUME active' # 0, r.type = "BEGIN" /\ r.tx = active' PROVE Has("BEGIN", active)'
      <4>1. n + 1 \in 1..Len(wal')
        BY <2>1
      <4> QED
        BY <2>1, <3>2, <4>1 DEF Has
    <3> QED
      BY <1>1, <3>1, <3>2
  <2>3. ASSUME NEW i \in 1..n, wal'[i].type \in {"PAGE", "COMMIT", "ROLLBACK"}
        PROVE  /\ wal'[i].tx # 0 => \E j \in 1..(i - 1) : wal'[j].type = "BEGIN" /\ wal'[j].tx = wal'[i].tx
               /\ wal'[i].tx = 0 => wal'[i].type = "PAGE"
    <3>1. \A j \in 1..(i - 1) : j \in 1..n
      BY <2>1
    <3> QED
      BY <2>1, <2>3, <3>1 DEF BeginsOK
  <2>4. ASSUME r.type \in {"PAGE", "COMMIT", "ROLLBACK"}
        PROVE  /\ r.tx # 0 => \E j \in 1..n : wal'[j].type = "BEGIN" /\ wal'[j].tx = r.tx
               /\ r.tx = 0 => r.type = "PAGE"
    BY <1>1, <2>1, <2>4 DEF BeginsOK, Has
  <2>5. (n + 1) - 1 = n
    BY <2>1
  <2>6. \A i \in 1..Len(wal') : i \in 1..n \/ i = n + 1
    BY <2>1
  <2>7. ASSUME NEW i \in 1..Len(wal'), wal'[i].type \in {"PAGE", "COMMIT", "ROLLBACK"}
        PROVE  /\ wal'[i].tx # 0 => \E j \in 1..(i - 1) : wal'[j].type = "BEGIN" /\ wal'[j].tx = wal'[i].tx
               /\ wal'[i].tx = 0 => wal'[i].type = "PAGE"
    <3>1. CASE i \in 1..n
      BY <2>3, <2>7, <3>1
    <3>2. CASE i = n + 1
      BY <2>1, <2>4, <2>5, <2>7, <3>2
    <3> QED
      BY <2>6, <3>1, <3>2
  <2> QED
    BY <2>2, <2>7 DEF BeginsOK
<1>2. ASSUME wal' = wal, active' # 0 => active' = active
      PROVE  BeginsOK'
  BY <1>2 DEF BeginsOK, Has
<1>3. CASE Begin
  BY <1>1, <1>3, WalMore DEF Begin
<1>4. ASSUME NEW p \in Pages, LogWrite(p) PROVE BeginsOK'
  <2>1. active' = active
    BY <1>4 DEF LogWrite
  <2> QED
    BY <1>1, <1>4, <2>1, WalMore
<1>5. CASE AppendCommit \/ AppendRollback
  <2>1. active' = active /\ active # 0
    BY <1>5 DEF AppendCommit, AppendRollback
  <2> QED
    BY <1>1, <1>5, <2>1, WalMore
<1>6. CASE Checkpoint
  <2>1. active' = active
    BY <1>6 DEF Checkpoint, manager
  <2> QED
    BY <1>1, <1>6, <2>1, WalMore
<1>7. CASE \/ ApplyWrite \/ \E p \in Pages : ReplayPage(p)
           \/ FsyncCommit \/ StampHeader \/ FinishCommit \/ FsyncRollback \/ UndoWrite \/ FinishRollback
           \/ Close \/ Crash \/ Open \/ OpenDone
  <2>1. active' # 0 => active' = active
    BY Zenon, <1>7 DEF ApplyWrite, ReplayPage, FsyncCommit, FsyncWal, StampHeader, FinishCommit, FsyncRollback,
       UndoWrite, FinishRollback, Close, Crash, Open, OpenDone, Volatile, manager
  <2> QED
    BY SMTT(20), Z3T(20), <1>2, <1>7, <2>1, WalSame
<1>8. CASE PowerLoss
  <2>1. active' = 0
    BY Zenon, <1>8 DEF PowerLoss, Volatile
  <2>2. PICK n \in synced..Len(wal) :
          Len(wal') = n /\ n \in Nat /\ n <= Len(wal) /\ \A i \in 1..n : i \in 1..Len(wal) /\ wal'[i] = wal[i]
    BY <1>8, WalCut
  <2>3. \A i \in 1..n : \A j \in 1..(i - 1) : j \in 1..n
    BY <2>2
  <2> QED
    BY SMTT(20), Z3T(20), <2>1, <2>2, <2>3 DEF BeginsOK
<1> QED
  BY <1>3, <1>4, <1>5, <1>6, <1>7, <1>8 DEF Next

\* log_page_write: the record has the page's image and the one to come.
LEMMA PageLogged ==
  ASSUME TypeOK, NEW q \in Pages, LogWrite(q)
  PROVE  /\ Kept /\ TouchesOf(wal', q) = TouchesOf(wal, q) \cup {Len(wal) + 1}
         /\ \A p : p # q => TouchesOf(wal', p) = TouchesOf(wal, p)
         /\ wal'[Len(wal) + 1].before = pages[q] /\ wal'[Len(wal) + 1].after = fresh + 1
         /\ \A v \in {pages[q], fresh + 1} :
              \E i \in TouchesOf(wal', q) : v \in {wal'[i].before, wal'[i].after}
<1> DEFINE r == PageRec(active, q, pages[q], fresh + 1)
<1>0. Len(wal) \in Nat
  BY LogLength
<1>1. Grows(wal, r, wal') /\ r.type = "PAGE" /\ r.page = q /\ r.before = pages[q] /\ r.after = fresh + 1
  BY Zenon, WalMore
<1> HIDE DEF r
<1>2. Kept
  BY Zenon, <1>0, <1>1, GrowsKeeps
<1>3. /\ TouchesOf(wal', q) = TouchesOf(wal, q) \cup {Len(wal) + 1}
      /\ \A p : p # q => TouchesOf(wal', p) = TouchesOf(wal, p)
  BY SMTT(20), Z3T(20), <1>0, <1>1, TouchesGrow
<1>4. wal'[Len(wal) + 1] = r
  BY <1>1 DEF Grows
<1>5. Len(wal) + 1 \in TouchesOf(wal', q)
  BY <1>3
<1>6. \A v \in {pages[q], fresh + 1} : v \in {wal'[Len(wal) + 1].before, wal'[Len(wal) + 1].after}
  BY <1>1, <1>4
<1> QED
  BY <1>1, <1>2, <1>3, <1>4, <1>5, <1>6

\* Every image a page takes is in the log by then, and what is in the log of
\* the pages is not lost: the power fails only while it is synced.
LEMMA ImagesKept ==
  ASSUME PowerFails # "any", TypeOK, ManagerOK, ImagesOK, Next
  PROVE  ImagesOK'
<1>0. Len(wal) \in Nat
  BY LogLength
<1> DEFINE PageOK(p) == /\ pages'[p] \in media'[p]
                        /\ TouchesOf(wal', p) = {} => media'[p] = {pages'[p]}
                        /\ TouchesOf(wal', p) # {} => \A v \in media'[p] : InLog(p, v)'
<1>1. ASSUME NEW p \in Pages, Kept, TouchesOf(wal', p) = TouchesOf(wal, p),
             pages'[p] \in media'[p], media'[p] \subseteq media[p]
      PROVE  PageOK(p)
  BY SMTT(20), Z3T(20), <1>1, InLogStays DEF ImagesOK
<1>2. ASSUME NEW p \in Pages, Kept, NEW q \in Pages, NEW v \in Nat, WriteFile(q, v), wal' = wal, InLog(q, v)
      PROVE  PageOK(p)
  <2>1. TouchesOf(wal, q) # {}
    BY <1>2 DEF InLog
  <2>2. /\ pages'[p] = IF p = q THEN v ELSE pages[p]
        /\ media'[p] = IF p = q THEN media[p] \cup {v} ELSE media[p]
    BY Zenon, <1>2, FileWritten
  <2> QED
    BY SMTT(20), Z3T(20), <1>2, <2>1, <2>2, InLogStays DEF ImagesOK
<1>3. ASSUME NEW p \in Pages PROVE PageOK(p)
  <2>1. ASSUME NEW q \in Pages, LogWrite(q) PROVE PageOK(p)
    <3>1. UNCHANGED <<pages, media>>
      BY <2>1 DEF LogWrite
    <3>2. Kept
      BY <2>1, PageLogged
    <3>3. CASE p # q
      <4>1. TouchesOf(wal', p) = TouchesOf(wal, p)
        BY <2>1, <3>3, PageLogged
      <4> QED
        BY <1>1, <3>1, <3>2, <4>1 DEF ImagesOK
    <3>4. CASE p = q
      <4>1. TouchesOf(wal', p) # {} /\ \E i \in TouchesOf(wal', p) : pages[p] \in {wal'[i].before, wal'[i].after}
        BY <2>1, <3>4, PageLogged
      <4>2. InLog(p, pages[p])'
        BY <3>1, <4>1 DEF InLog
      <4>3. \A v \in media[p] : v = pages[p] \/ InLog(p, v)
        BY DEF ImagesOK
      <4> QED
        BY <3>1, <3>2, <4>1, <4>2, <4>3, InLogStays DEF ImagesOK
    <3> QED
      BY <3>3, <3>4
  <2>2. CASE Begin \/ AppendCommit \/ AppendRollback \/ Checkpoint
    <3>1. PICK r : Grows(wal, r, wal') /\ r.type # "PAGE"
      BY <2>2, WalMore
    <3>2. UNCHANGED <<pages, media>>
      BY <2>2 DEF Begin, AppendCommit, AppendRollback, Checkpoint
    <3> QED
      BY <1>0, <1>1, <3>1, <3>2, GrowsKeeps, TouchesGrow DEF ImagesOK
  <2>3. CASE PowerLoss
    <3>1. PICK n \in synced..Len(wal) :
            Len(wal') = n /\ n \in Nat /\ \A i \in 1..n : i \in 1..Len(wal) /\ wal'[i] = wal[i]
      BY <2>3, WalCut
    <3>2. \A i \in (synced + 1)..Len(wal) : wal[i].type # "PAGE"
      BY <2>3, WorkloadAssumption DEF PowerLoss
    <3>3. \A i \in 1..Len(wal) : i \in 1..n \/ i \in (synced + 1)..Len(wal)
      BY <1>0, <3>1 DEF TypeOK
    <3>4. TouchesOf(wal', p) = TouchesOf(wal, p)
      BY <3>1, <3>2, <3>3 DEF TouchesOf
    <3>5. \A i \in TouchesOf(wal, p) : wal'[i] = wal[i]
      BY <3>1, <3>4 DEF TouchesOf
    <3>6. pages'[p] \in media[p] /\ media'[p] = {pages'[p]}
      BY <2>3 DEF PowerLoss, TypeOK
    <3>7. \A v : InLog(p, v) => InLog(p, v)'
      BY <3>4, <3>5 DEF InLog
    <3> QED
      BY <3>4, <3>6, <3>7 DEF ImagesOK
  <2>4. CASE /\ ~(PowerLoss \/ Begin \/ AppendCommit \/ AppendRollback \/ Checkpoint)
             /\ ~\E q \in Pages : LogWrite(q)
    <3>1. wal' = wal /\ Kept
      BY <1>0, <2>4, WalSame DEF Next, Kept
    <3>2. CASE UNCHANGED <<pages, media>>
      BY SMTT(20), Z3T(20), <1>1, <3>1, <3>2 DEF ImagesOK
    <3>3. CASE ApplyWrite /\ cur[1] \in Pages /\ WriteFile(cur[1], cur[2])
      <4>1. InLog(cur[1], cur[2]) /\ cur[2] \in Nat
        BY SMTT(20), Z3T(20), <3>3 DEF ImagesOK, ApplyWrite, Running, TypeOK
      <4> QED
        BY Zenon, <1>2, <3>1, <3>3, <4>1
    <3>4. CASE StampHeader /\ WriteFile(HeaderPage, Len(wal))
      <4>1. HeaderPage \notin Pages
        BY PagesAssumption DEF HeaderPage
      <4>2. pages'[p] = pages[p] /\ media'[p] = media[p]
        BY Zenon, <1>0, <3>4, <4>1, FileWritten
      <4> QED
        BY Zenon, <1>1, <3>1, <4>2 DEF ImagesOK
    <3>5. CASE /\ UndoWrite /\ logged # <<>> /\ Len(logged) \in DOMAIN logged
               /\ logged[Len(logged)] \in Pages \X Nat
               /\ WriteFile(logged[Len(logged)][1], logged[Len(logged)][2])
      BY SMTT(20), Z3T(20), <1>2, <3>1, <3>5 DEF ImagesOK
    <3>6. ASSUME NEW q \in Pages, WriteFile(q, Image(wal, q)), TouchesOf(wal, q) # {}
          PROVE  PageOK(p)
      BY Zenon, <1>2, <3>1, <3>6, ImageType
    <3>7. CASE Close
      <4>1. pages' = pages /\ media'[p] = {pages[p]}
        BY <3>7 DEF Close, TypeOK
      <4> QED
        BY <1>1, <3>1, <4>1 DEF ImagesOK
    <3> QED
      BY Zenon, <2>4, <3>2, <3>3, <3>4, <3>5, <3>6, <3>7, FileSteps
  <2> QED
    BY <2>1, <2>2, <2>3, <2>4
<1>4. ASSUME NEW k \in DOMAIN logged' PROVE InLog(logged[k][1], logged[k][2])'
  <2>0. ASSUME Kept, k \in DOMAIN logged, logged'[k] = logged[k]
        PROVE  InLog(logged[k][1], logged[k][2])'
    <3> DEFINE q == logged[k][1]
               v == logged[k][2]
    <3>1. InLog(q, v)
      BY <2>0 DEF ImagesOK
    <3>2. PICK i \in TouchesOf(wal, q) : v \in {wal[i].before, wal[i].after}
      BY <3>1 DEF InLog
    <3>3. i \in TouchesOf(wal', q) /\ wal'[i] = wal[i]
      BY <2>0 DEF Kept, TouchesOf
    <3> QED
      BY <2>0, <3>2, <3>3 DEF InLog
  <2>1. ASSUME NEW q \in Pages, LogWrite(q) PROVE InLog(logged[k][1], logged[k][2])'
    <3>2. Kept /\ \E i \in TouchesOf(wal', q) : pages[q] \in {wal'[i].before, wal'[i].after}
      BY <2>1, PageLogged
    <3>3. logged' = Append(logged, <<q, pages[q]>>) /\ logged \in Seq(Pages \X Nat)
      BY <2>1 DEF LogWrite, TypeOK
    <3>4. (k \in DOMAIN logged /\ logged'[k] = logged[k]) \/ logged'[k] = <<q, pages[q]>>
      BY <3>3
    <3>7. CASE logged'[k] = <<q, pages[q]>>
      <4>1. logged'[k][1] = q /\ logged'[k][2] = pages[q]
        BY <3>7
      <4> QED
        BY <3>2, <4>1 DEF InLog
    <3> QED
      BY <2>0, <3>2, <3>4, <3>7
  <2>2. CASE UndoWrite
    <3>1. logged' = SubSeq(logged, 1, Len(logged) - 1) /\ logged \in Seq(Pages \X Nat) /\ logged # <<>>
      BY <2>2 DEF UndoWrite, TypeOK
    <3>2. k \in DOMAIN logged /\ logged'[k] = logged[k]
      BY <3>1
    <3>3. wal' = wal /\ Kept
      BY <1>0, <2>2, WalSame DEF Kept
    <3> QED
      BY <2>0, <3>2, <3>3
  <2>3. CASE ~UndoWrite /\ ~\E q \in Pages : LogWrite(q)
    <3>1. logged' = <<>> \/ logged' = logged
      BY Zenon, <2>3 DEF Next, Begin, ApplyWrite, ReplayPage, AppendCommit, FsyncCommit, FsyncRollback, FsyncWal,
         StampHeader, FinishCommit, AppendRollback, FinishRollback, Checkpoint, Close, Crash,
         PowerLoss, Volatile, Open, OpenDone, manager
    <3>2. logged' = logged /\ ~PowerLoss
      BY <3>1, <1>4 DEF PowerLoss, Volatile
    <3>3. Kept
      <4>1. wal' = wal \/ Kept
        BY Zenon, <1>0, <2>3, <3>2, WalSame, WalMore, GrowsKeeps DEF Next
      <4> QED
        BY SMTT(20), Z3T(20), <1>0, <4>1 DEF Kept
    <3> QED
      BY SMTT(20), Z3T(20), <1>4, <2>0, <3>2, <3>3
  <2> QED
    BY <2>1, <2>2, <2>3
<1>5. ASSUME step' = "logged" PROVE InLog(cur[1], cur[2])'
  <2>1. PICK q \in Pages : LogWrite(q)
    <3>1. CASE Checkpoint \/ ReplayPage(CHOOSE q \in Pages : TRUE) \/ Open \/ OpenDone
      BY Zenon, <1>5, <3>1 DEF Checkpoint, ReplayPage, Open, OpenDone, manager, Running, ManagerOK
    <3> QED
      BY <1>5, <3>1 DEF Next, Begin, ApplyWrite, ReplayPage, AppendCommit, FsyncCommit, FsyncRollback,
         FsyncWal, StampHeader, FinishCommit, AppendRollback, UndoWrite, FinishRollback, Close, Crash,
         PowerLoss, Volatile, manager, Running, ManagerOK
  <2>2. \E i \in TouchesOf(wal', q) : fresh + 1 \in {wal'[i].before, wal'[i].after}
    BY <2>1, PageLogged
  <2>3. cur'[1] = q /\ cur'[2] = fresh + 1
    BY <2>1 DEF LogWrite
  <2> QED
    BY SMTT(20), Z3T(20), <2>2, <2>3 DEF InLog
<1> QED
  BY <1>3, <1>4, <1>5 DEF ImagesOK
=============================================================================
