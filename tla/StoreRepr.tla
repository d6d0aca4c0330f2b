------------------------------ MODULE StoreRepr ------------------------------
(***************************************************************************)
(* The two representations of a store (ferratomic-store/src/repr.rs): the  *)
(* positional array, and the one for writes, a set of datoms with four     *)
(* indexes on arrays that are sorted late (ferratomic-index/src).  What    *)
(* the calls that add datoms do to each.                                   *)
(*                                                                         *)
(* An index holds datoms; the key of a datom is its fields in the order of *)
(* the index.                                                              *)
(***************************************************************************)
EXTENDS Positional

EAVT == <<1, 2, 3, 4, 5>>
IndexOrders == {EAVT, AEVT, VAET, AVET}

-----------------------------------------------------------------------------
\* SortedVecBackend.
EmptyBackend == [entries |-> << >>, sorted |-> TRUE]

BackendInsert(b, d) == [entries |-> Append(b.entries, d), sorted |-> FALSE]

\* Without what is equal to its predecessor.
Dedup(s) ==
    LET at == SelectSeq([i \in DOMAIN s |-> i], LAMBDA i : i = 1 \/ s[i] # s[i - 1])
    IN  [i \in DOMAIN at |-> s[at[i]]]

BackendSort(b, order) ==
    IF b.sorted THEN b
    ELSE [entries |-> Dedup(SortSeq(b.entries, LAMBDA x, y : Before(KeyOf(x, order), KeyOf(y, order)))),
          sorted |-> TRUE]

RECURSIVE BinarySearch(_, _, _, _, _)
BinarySearch(entries, order, key, lo, hi) ==
    IF lo > hi THEN None
    ELSE LET mid == (lo + hi) \div 2
             found == KeyOf(entries[mid], order)
         IN  IF found = key THEN <<entries[mid]>>
             ELSE IF Before(found, key) THEN BinarySearch(entries, order, key, mid + 1, hi)
             ELSE BinarySearch(entries, order, key, lo, mid - 1)

\* A lookup in an array that is not sorted finds nothing.
BackendGet(b, order, key) ==
    IF ~ b.sorted THEN None ELSE BinarySearch(b.entries, order, key, 1, Len(b.entries))

-----------------------------------------------------------------------------
\* GenericIndexes.
IndexesInsert(indexes, d) == [o \in IndexOrders |-> BackendInsert(indexes[o], d)]

IndexesFromDatoms(datoms) ==
    FoldSeq(LAMBDA d, acc : IndexesInsert(acc, d), [o \in IndexOrders |-> EmptyBackend], datoms)

SortAll(indexes) == [o \in IndexOrders |-> BackendSort(indexes[o], o)]

VerifyBijection(indexes) ==
    /\ \A o \in IndexOrders : Len(indexes[o].entries) = Len(indexes[EAVT].entries)
    /\ \A o \in IndexOrders : Range(indexes[o].entries) = Range(indexes[EAVT].entries)

-----------------------------------------------------------------------------
PositionalRepr(canonical) == [kind |-> "positional", canonical |-> canonical]

\* The datoms in the order of the store's iterator.
Iter(repr) == IF repr.kind = "positional" THEN repr.canonical ELSE FromDatoms(repr.datoms)

PromoteRepr(repr) ==
    IF repr.kind = "ordmap" THEN repr
    ELSE [kind |-> "ordmap", datoms |-> Range(repr.canonical),
          indexes |-> SortAll(IndexesFromDatoms(repr.canonical))]

DemoteRepr(repr) ==
    IF repr.kind = "positional" THEN repr ELSE PositionalRepr(FromDatoms(repr.datoms))

EnsureIndexesSorted(repr) ==
    IF repr.kind = "positional" THEN repr ELSE [repr EXCEPT !.indexes = SortAll(@)]

\* The set first, then the indexes, once per datom.
AddAll(repr, datoms) ==
    FoldLeft(LAMBDA acc, d : [acc EXCEPT !.datoms = @ \cup {d}, !.indexes = IndexesInsert(@, d)],
             repr, datoms)

\* Store::insert, once per datom of an entry in replay_entry.
InsertRepr(repr, datoms) == AddAll(PromoteRepr(repr), datoms)

\* A faulty splice merges what it was given as it came.
SpliceUnsorted(repr, datoms) == PositionalRepr(MergeSortDedup(repr.canonical, datoms))

Splice(repr, datoms) ==
    PositionalRepr(MergeSortDedup(repr.canonical, FromDatoms(Range(datoms))))

\* The last step of transact and batch_splice_transact.
TransactRepr(repr, datoms) ==
    IF repr.kind = "positional" THEN Splice(repr, datoms) ELSE DemoteRepr(AddAll(repr, datoms))

\* batch_replay; entries ends with the entry whose schema does not evolve, if
\* there is one: the call ends there, and the store is not demoted.
BatchReplay(repr, entries, evolves) ==
    LET replayed == AddAll(PromoteRepr(repr), FlattenSeq(entries))
    IN  IF entries = << >> THEN repr
        ELSE IF evolves THEN DemoteRepr(replayed) ELSE replayed

\* merge_repr.
MergeRepr(a, b) == PositionalRepr(MergeSortDedup(Iter(a), Iter(b)))
=============================================================================
