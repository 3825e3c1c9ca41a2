------------------------------- MODULE BTree -------------------------------
(***************************************************************************)
(* tinydb.index.btree.BTreeIndex: insertion with splits, deletion with     *)
(* borrows, merges and root collapse, and the three ways to look keys up.  *)
(*                                                                         *)
(* nodes[pid] is the page with that id; a page the tree lets go keeps what *)
(* it last held, as in the file.  A leaf has entries (its parallel lists   *)
(* keys and rids) and next, 0 for NO_NEXT; an internal node has keys and   *)
(* children.  The cached _root_view always equals the page of the root.    *)
(* What fits a page is a number of entries: keys of equal encoded length.  *)
(***************************************************************************)
EXTENDS Integers, FiniteSets, SequencesExt

CONSTANTS
  Keys,         \* indexed values
  Rids,         \* rows under one key: a single one models a UNIQUE index
  LeafCap,      \* entries that fit a leaf page
  SepCap,       \* separators that fit an internal page
  MinLeaf,      \* MIN_LEAF_ENTRIES
  MinChildren,  \* MIN_INTERNAL_CHILDREN
  MaxCalls      \* bound on calls

ASSUME TreeAssumption ==
  /\ Keys \subseteq Int
  /\ LeafCap \in Nat /\ SepCap \in Nat /\ MinLeaf \in 1..LeafCap /\ MinChildren \in 2..SepCap
  /\ MaxCalls \in Nat

VARIABLES
  nodes,    \* the index's pages, by order of allocation
  root,     \* _root_pid
  entries,  \* (history) the entries inserted and not deleted
  rotated,  \* (history) whether an internal node has borrowed a child
  raised,   \* whether a call has raised BTreeOverflowError
  calls     \* (bound) calls so far

treeVars == <<nodes, root, entries, rotated, raised, calls>>

LeafNode(es, next) == [entries |-> es, next |-> next]
InternalNode(ks, cs) == [keys |-> ks, children |-> cs]
IsLeaf(n) == "entries" \in DOMAIN n
KeysOf(leaf) == [i \in DOMAIN leaf.entries |-> leaf.entries[i].key]

\* create_index allocates the root page; a fresh page reads as an empty leaf.
TreeInit ==
  /\ nodes = <<LeafNode(<<>>, 0)>> /\ root = 1
  /\ entries = {} /\ rotated = FALSE /\ raised = FALSE /\ calls = 0

Call == calls < MaxCalls /\ calls' = calls + 1

UpperBound(ks, k) == Cardinality({i \in DOMAIN ks : ks[i] <= k})

FindChild(k, n) == UpperBound(n.keys, k) + 1
-----------------------------------------------------------------------------
(* insert.  Its helpers return the pages and what the parent must add:     *)
(* <<separator, right page>>, or <<>> when the node did not split.         *)

SplitLeaf(ns, pid, n) ==
  LET mid == Len(n.entries) \div 2
      right == Len(ns) + 1
  IN  [nodes |-> Append([ns EXCEPT ![pid] = LeafNode(SubSeq(n.entries, 1, mid), right)],
                        LeafNode(SubSeq(n.entries, mid + 1, Len(n.entries)), n.next)),
       up |-> <<n.entries[mid + 1].key, right>>]

SplitInternal(ns, pid, n) ==
  LET mid == Len(n.keys) \div 2
      right == Len(ns) + 1
  IN  [nodes |-> Append([ns EXCEPT ![pid] = InternalNode(SubSeq(n.keys, 1, mid),
                                                         SubSeq(n.children, 1, mid + 1))],
                        InternalNode(SubSeq(n.keys, mid + 2, Len(n.keys)),
                                     SubSeq(n.children, mid + 2, Len(n.children)))),
       up |-> <<n.keys[mid + 1], right>>]

RECURSIVE InsertInto(_, _, _)
InsertInto(ns, pid, e) ==
  LET n == ns[pid] IN
  IF IsLeaf(n)
    THEN LET m == [n EXCEPT !.entries = InsertAt(@, UpperBound(KeysOf(n), e.key) + 1, e)]
         IN  IF Len(m.entries) <= LeafCap THEN [nodes |-> [ns EXCEPT ![pid] = m], up |-> <<>>]
             ELSE SplitLeaf(ns, pid, m)
    ELSE LET i == FindChild(e.key, n)
             below == InsertInto(ns, n.children[i], e)
             m == InternalNode(InsertAt(n.keys, i, below.up[1]),
                               InsertAt(n.children, i + 1, below.up[2]))
         IN  IF below.up = <<>> THEN below
             ELSE IF Len(m.keys) <= SepCap
                    THEN [nodes |-> [below.nodes EXCEPT ![pid] = m], up |-> <<>>]
                    ELSE SplitInternal(below.nodes, pid, m)

\* A root that split becomes the left child of a new root.  An entry is a row of
\* its own, and in a UNIQUE index on_insert has found the key absent.
Insert(e) ==
  /\ Call /\ e \notin entries
  /\ LET done == InsertInto(nodes, root, e)
     IN  IF done.up = <<>> THEN nodes' = done.nodes /\ UNCHANGED root
         ELSE /\ nodes' = Append(done.nodes, InternalNode(<<done.up[1]>>, <<root, done.up[2]>>))
              /\ root' = Len(done.nodes) + 1
  /\ entries' = entries \cup {e}
  /\ UNCHANGED <<rotated, raised>>
-----------------------------------------------------------------------------
(* delete.  Its helpers return the pages, whether the node underflows (it  *)
(* does only if the entry was removed), and the two flags.                 *)

Result(ns, under) ==
  [nodes |-> ns, under |-> under, rotated |-> FALSE, raised |-> FALSE]

DeleteFromLeaf(ns, pid, e) ==
  IF e \notin ToSet(ns[pid].entries) THEN Result(ns, FALSE)
  ELSE LET m == [ns[pid] EXCEPT !.entries = RemoveFirst(@, e)]
       IN  Result([ns EXCEPT ![pid] = m], Len(m.entries) < MinLeaf)

SiblingHasSpare(n) ==
  IF IsLeaf(n) THEN Len(n.entries) > MinLeaf ELSE Len(n.children) > MinChildren

\* borrow_from_sibling, left: children[i] takes the last entry of children[i - 1],
\* whose key becomes the separator.  An internal child takes that same key for
\* its own first separator.
BorrowLeft(ns, pid, i) ==
  LET n == ns[pid]
      c == n.children[i]       child == ns[c]
      s == n.children[i - 1]   sibling == ns[s]
  IN  IF IsLeaf(child)
        THEN LET e == Last(sibling.entries)
             IN  [ns EXCEPT ![s].entries = Front(@), ![c].entries = Cons(e, @),
                            ![pid].keys[i - 1] = e.key]
        ELSE LET k == Last(sibling.keys)
             IN  [ns EXCEPT ![s] = InternalNode(Front(sibling.keys), Front(sibling.children)),
                            ![c] = InternalNode(Cons(k, child.keys),
                                                Cons(Last(sibling.children), child.children)),
                            ![pid].keys[i - 1] = k]

\* Right: children[i] takes the first entry of children[i + 1]; the separator
\* becomes the sibling's new first key.
BorrowRight_OldKey(ns, pid, i) ==
  LET n == ns[pid]
      c == n.children[i]
      s == n.children[i + 1]
      e == Head(ns[s].entries)
  IN  [ns EXCEPT ![s].entries = Tail(@), ![c].entries = Append(@, e), ![pid].keys[i] = e.key]
BorrowRight(ns, pid, i) ==
  LET n == ns[pid]
      c == n.children[i]       child == ns[c]
      s == n.children[i + 1]   sibling == ns[s]
  IN  IF IsLeaf(child)
        THEN [ns EXCEPT ![s].entries = Tail(@), ![c].entries = Append(@, Head(sibling.entries)),
                        ![pid].keys[i] = sibling.entries[2].key]
        ELSE [ns EXCEPT ![s] = InternalNode(Tail(sibling.keys), Tail(sibling.children)),
                        ![c] = InternalNode(Append(child.keys, Head(sibling.keys)),
                                            Append(child.children, Head(sibling.children))),
                        ![pid].keys[i] = sibling.keys[2]]

\* _merge_into_right: children[l + 1] takes over what children[l] holds.
Merged(ns, n, l) ==
  LET left == ns[n.children[l]]
      right == ns[n.children[l + 1]]
  IN  IF IsLeaf(left) THEN LeafNode(left.entries \o right.entries, right.next)
      ELSE InternalNode(Append(left.keys, n.keys[l]) \o right.keys, left.children \o right.children)

Fits(n) == IF IsLeaf(n) THEN Len(n.entries) <= LeafCap ELSE Len(n.keys) <= SepCap

\* The parent drops children[l].  Nothing else is written: not children[l], nor
\* the leaf whose next it is.
MergeIntoRight(ns, pid, l) ==
  LET n == ns[pid]
  IN  [ns EXCEPT ![n.children[l + 1]] = Merged(ns, n, l),
                 ![pid] = InternalNode(RemoveAt(n.keys, l), RemoveAt(n.children, l))]

\* _try_borrow_or_merge for children[i] of pid, and the underflow of pid itself.
\* A merge without room raises before it writes anything.
BorrowOrMerge(ns, pid, i) ==
  LET n == ns[pid]
      internal == ~IsLeaf(ns[n.children[i]])
      l == IF i < Len(n.children) THEN i ELSE i - 1
      Rebalanced(after, turned) ==
        [Result(after, Len(after[pid].children) < MinChildren) EXCEPT !.rotated = turned]
  IN  IF i > 1 /\ SiblingHasSpare(ns[n.children[i - 1]])
        THEN Rebalanced(BorrowLeft(ns, pid, i), internal)
      ELSE IF i < Len(n.children) /\ SiblingHasSpare(ns[n.children[i + 1]])
        THEN Rebalanced(BorrowRight(ns, pid, i), internal)
      ELSE IF Fits(Merged(ns, n, l)) THEN Rebalanced(MergeIntoRight(ns, pid, l), FALSE)
      ELSE [Result(ns, FALSE) EXCEPT !.raised = TRUE]

RECURSIVE DeleteFrom(_, _, _)
DeleteFrom(ns, pid, e) ==
  IF IsLeaf(ns[pid]) THEN DeleteFromLeaf(ns, pid, e)
  ELSE LET i == FindChild(e.key, ns[pid])
           below == DeleteFrom(ns, ns[pid].children[i], e)
           here == BorrowOrMerge(below.nodes, pid, i)
       IN  IF ~below.under THEN below
           ELSE [here EXCEPT !.rotated = @ \/ below.rotated]

\* A root left with one child hands over to it.
CollapsedRoot(ns) ==
  IF ~IsLeaf(ns[root]) /\ Len(ns[root].children) = 1 THEN ns[root].children[1] ELSE root

\* The entry of a row the executor has read.
Delete(e) ==
  /\ Call /\ e \in entries
  /\ LET done == DeleteFrom(nodes, root, e)
     IN  /\ nodes' = done.nodes
         /\ root' = IF done.raised THEN root ELSE CollapsedRoot(done.nodes)
         /\ rotated' = (rotated \/ done.rotated)
         /\ raised' = (raised \/ done.raised)
  /\ entries' = entries \ {e}

Entries == [key : Keys, rid : Rids]
TreeNext == \E e \in Entries : Insert(e) \/ Delete(e)
TreeSpec == TreeInit /\ [][TreeNext]_treeVars
-----------------------------------------------------------------------------
(* Look-ups.                                                               *)

RECURSIVE Descend(_, _)
Descend(pid, k) ==
  IF IsLeaf(nodes[pid]) THEN pid
  ELSE Descend(nodes[pid].children[FindChild(k, nodes[pid])], k)

\* search: one leaf only.
Search(k) == SelectSeq(nodes[Descend(root, k)].entries, LAMBDA e : e.key = k)

\* The walk along the sibling chain from leaf pid: entries with keys from lo on,
\* up to the first key beyond last.
RECURSIVE Chain(_, _, _)
Chain(pid, lo, last) ==
  LET es == SelectSeq(nodes[pid].entries, LAMBDA e : e.key >= lo)
      within == SelectSeq(es, LAMBDA e : e.key <= last)
  IN  IF within # es \/ nodes[pid].next = 0 THEN within
      ELSE within \o Chain(nodes[pid].next, lo, last)

\* range, and IndexLookup.range with a strict lower bound.  On integers "< hi" is
\* "<= hi - 1" and "> lo" is ">= lo + 1", but the descent is for lo itself.
RangeScan(lo, hi, inclusive) == Chain(Descend(root, lo), lo, IF inclusive THEN hi ELSE hi - 1)
ScanAfter(lo, hi) == Chain(Descend(root, lo), lo + 1, hi)

\* IndexLookup._walk_leaves without a lower bound: a descent for the first key of
\* the first leaf; nothing if that leaf is empty.
RECURSIVE FirstLeaf(_)
FirstLeaf(pid) == IF IsLeaf(nodes[pid]) THEN pid ELSE FirstLeaf(nodes[pid].children[1])
ScanUpTo(hi) ==
  LET first == nodes[FirstLeaf(root)].entries
  IN  IF first = <<>> THEN <<>>
      ELSE Chain(Descend(root, first[1].key), CHOOSE k \in Keys : \A j \in Keys : k <= j, hi)
-----------------------------------------------------------------------------
RECURSIVE Subtree(_)
Subtree(pid) ==
  {pid} \cup (IF IsLeaf(nodes[pid]) THEN {}
              ELSE UNION {Subtree(nodes[pid].children[i]) : i \in DOMAIN nodes[pid].children})
Held == Subtree(root)

Sorted(S) == SetToSortSeq(S, LAMBDA a, b : a.key < b.key)
InOrder(lo, hi) == Sorted({e \in entries : e.key \in lo..hi})

\* search returns the entries under its key, all and only those inserted and not
\* deleted, whatever was split, borrowed, merged or collapsed on the way; unless
\* an internal node has borrowed a child, which misplaces a separator.
SearchFinds == ~rotated => \A k \in Keys : ToSet(Search(k)) = {e \in entries : e.key = k}

\* Every form of range scan yields the entries between its bounds once, in order,
\* as long as no leaf of the tree points to a page the tree has let go.
ChainInTree == \A p \in Held : IsLeaf(nodes[p]) => nodes[p].next \in Held \cup {0}
ScansInOrder ==
  \A lo, hi \in Keys : lo <= hi =>
    /\ RangeScan(lo, hi, TRUE) = InOrder(lo, hi)
    /\ RangeScan(lo, hi, FALSE) = InOrder(lo, hi - 1)
    /\ ScanAfter(lo, hi) = InOrder(lo + 1, hi)
    /\ ScanUpTo(hi) = Sorted({e \in entries : e.key <= hi})
RangeFinds == ~rotated /\ ChainInTree => ScansInOrder

\* All leaves are equally deep, every node but the root keeps the minimum, and
\* delete never raises BTreeOverflowError: provided two minimal nodes fit a page.
RECURSIVE Depths(_)
Depths(pid) ==
  IF IsLeaf(nodes[pid]) THEN {0}
  ELSE {d + 1 : d \in UNION {Depths(nodes[pid].children[i]) : i \in DOMAIN nodes[pid].children}}
Balanced ==
  2 * MinLeaf - 1 <= LeafCap /\ 2 * MinChildren - 2 <= SepCap =>
    /\ ~raised
    /\ Cardinality(Depths(root)) = 1
    /\ \A p \in Held \ {root} :
         IF IsLeaf(nodes[p]) THEN Len(nodes[p].entries) >= MinLeaf
                             ELSE Len(nodes[p].children) >= MinChildren

\* insert, delete, search and range together: the tree stays balanced, and what
\* is looked up in it is found, with the exceptions named above.
TreeSound == Balanced /\ SearchFinds /\ RangeFinds
=============================================================================
