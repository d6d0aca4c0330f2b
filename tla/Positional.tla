----------------------------- MODULE Positional -----------------------------
(***************************************************************************)
(* The positional store (ferratomic-positional/src): one sorted array of   *)
(* datoms, and the structures that answer questions about it by position.  *)
(*                                                                         *)
(* A datom is <<entity, attribute, value, tx, op>>, five naturals; op is 0 *)
(* for Assert, 1 for Retract.  Positions count from 0, as in the code.     *)
(* What may be absent is a sequence of at most one element.  The XOR of    *)
(* content hashes is the symmetric difference of sets of datoms.           *)
(***************************************************************************)
EXTENDS Integers, SequencesExt

CONSTANT
    PrefixSize       \* how many entities share their first eight bytes

ASSUME PrefixAssumption == PrefixSize \in Nat \ {0}

None == << >>
At(s, pos) == s[pos + 1]

\* The derived order of tuples.
Before(x, y) == \E i \in DOMAIN x : x[i] < y[i] /\ \A j \in 1..(i - 1) : x[j] = y[j]

\* A set in the order of the keys of its elements; no two have the same key.
SortedBy(S, Key(_)) ==
    LET Rank(x) == Cardinality({y \in S : Before(Key(y), Key(x))})
    IN  [i \in 1..Cardinality(S) |-> CHOOSE x \in S : Rank(x) = i - 1]

\* PositionalStore::from_datoms: sorted, without duplicates.
FromDatoms(datoms) == SortedBy(datoms, LAMBDA d : d)

-----------------------------------------------------------------------------
RECURSIVE MergeSortDedup(_, _)
MergeSortDedup(a, b) ==
    IF a = << >> \/ b = << >> THEN a \o b
    ELSE IF Before(Head(a), Head(b)) THEN <<Head(a)>> \o MergeSortDedup(Tail(a), b)
    ELSE IF Before(Head(b), Head(a)) THEN <<Head(b)>> \o MergeSortDedup(a, Tail(b))
    ELSE <<Head(a)>> \o MergeSortDedup(Tail(a), Tail(b))

\* The position that decides for the run from i up to j; a faulty choice takes
\* the first.
DecidesFirst(i, j) == i
Decides(i, j) == j - 1

\* live_positions_from_sorted_runs over the runs of one (entity, attribute,
\* value): the last position of a run, if it is an assertion.
RECURSIVE LivePositions(_, _)
LivePositions(canonical, i) ==
    IF i >= Len(canonical) THEN {}
    ELSE LET Triple(p) == SubSeq(At(canonical, p), 1, 3)
             j == Min({p \in (i + 1)..Len(canonical) :
                         p = Len(canonical) \/ Triple(p) # Triple(i)})
         IN  {p \in {Decides(i, j)} : At(canonical, p)[5] = 0} \cup LivePositions(canonical, j)

\* AdjacencyIndex::from_canonical, with a value that is an entity for a Ref:
\* the edges <<source, attribute, target>>, in the order of the array.
Edges(canonical, live, intern) ==
    LET IsEdge(p) == p \in live /\ At(canonical, p)[2] \in intern
        all == [i \in DOMAIN canonical |-> i - 1]
        kept == SelectSeq(all, IsEdge)
    IN  [i \in DOMAIN kept |-> SubSeq(At(canonical, kept[i]), 1, 3)]

Neighbors(edges, e) ==
    LET own == SelectSeq(edges, LAMBDA x : x[1] = e)
    IN  [i \in DOMAIN own |-> <<own[i][2], own[i][3]>>]

ReverseNeighbors(edges, e) ==
    LET own == SelectSeq(edges, LAMBDA x : x[3] = e)
    IN  [i \in DOMAIN own |-> <<own[i][2], own[i][1]>>]

-----------------------------------------------------------------------------
\* The first eight bytes of an entity as an integer.
EntityPrefix(d) == d[1] \div PrefixSize

\* The place to look at between lo and hi.
Estimate(canonical, key, lo, hi) ==
    LET low == EntityPrefix(At(canonical, lo))
        high == EntityPrefix(At(canonical, hi))
        above == Max({EntityPrefix(key) - low, 0})
    IN  IF low = high THEN lo + (hi - lo) \div 2
        ELSE Max({lo, Min({hi, lo + (above * (hi - lo)) \div (high - low)})})

RECURSIVE Probe(_, _, _, _)
Probe(canonical, key, lo, hi) ==
    IF lo > hi THEN None
    ELSE LET pos == Estimate(canonical, key, lo, hi)
             found == At(canonical, pos)
         IN  IF found = key THEN <<found>>
             ELSE IF Before(found, key) THEN Probe(canonical, key, pos + 1, hi)
             ELSE IF pos = 0 THEN None
             ELSE Probe(canonical, key, lo, pos - 1)

InterpolationSearch(canonical, key) ==
    IF canonical = << >> THEN None ELSE Probe(canonical, key, 0, Len(canonical) - 1)

-----------------------------------------------------------------------------
\* The fields of the keys of the secondary indexes, in their order.
AEVT == <<2, 1, 3, 4, 5>>
VAET == <<3, 2, 1, 4, 5>>
AVET == <<2, 3, 1, 4, 5>>

KeyOf(d, order) == [i \in DOMAIN order |-> d[order[i]]]

\* build_permutation: positions by the key of their datom.
BuildPermutation(canonical, order) ==
    SortedBy(0..(Len(canonical) - 1), LAMBDA p : KeyOf(At(canonical, p), order))

\* perm_txid: by transaction, then by position.
TxPermutation(canonical) ==
    SortedBy(0..(Len(canonical) - 1), LAMBDA p : <<At(canonical, p)[4], p>>)

\* A faulty fill: a node takes its element before its left subtree.
RECURSIVE FillPreorder(_, _, _, _)
FillPreorder(sorted, n, acc, node) ==
    IF node > n \/ acc.src >= Len(sorted) THEN acc
    ELSE LET mid == [bfs |-> [acc.bfs EXCEPT ![node] = At(sorted, acc.src)], src |-> acc.src + 1]
         IN  FillPreorder(sorted, n, FillPreorder(sorted, n, mid, 2 * node), 2 * node + 1)

\* fill_bfs: the implicit tree of n nodes takes the elements in order.
RECURSIVE FillBfs(_, _, _, _)
FillBfs(sorted, n, acc, node) ==
    IF node > n THEN acc
    ELSE LET left == FillBfs(sorted, n, acc, 2 * node)
             mid == IF left.src < Len(sorted)
                    THEN [bfs |-> [left.bfs EXCEPT ![node] = At(sorted, left.src)],
                          src |-> left.src + 1]
                    ELSE left
         IN  FillBfs(sorted, n, mid, 2 * node + 1)

\* layout_permutation, without the sentinel at index 0.
LayoutPermutation(sorted) ==
    FillBfs(sorted, Len(sorted), [bfs |-> [i \in DOMAIN sorted |-> -1], src |-> 0], 1).bfs

RECURSIVE LayoutSearch(_, _, _, _, _)
LayoutSearch(bfs, canonical, key, order, node) ==
    IF node > Len(bfs) THEN None
    ELSE LET found == At(canonical, bfs[node])
         IN  IF KeyOf(found, order) = key THEN <<found>>
             ELSE LayoutSearch(bfs, canonical, key, order,
                               IF Before(KeyOf(found, order), key) THEN 2 * node + 1 ELSE 2 * node)

\* inorder_collect, from layout_to_sorted.
RECURSIVE LayoutToSorted(_, _)
LayoutToSorted(bfs, node) ==
    IF node > Len(bfs) THEN << >>
    ELSE LayoutToSorted(bfs, 2 * node) \o <<bfs[node]>> \o LayoutToSorted(bfs, 2 * node + 1)
=============================================================================
