---------------------------- MODULE StoreSketch -----------------------------
(***************************************************************************)
(* The MinHash sketch of a store (ferratomic-store/src/sketch.rs): the     *)
(* smallest content hashes of its datoms, and how many datoms it has.  A   *)
(* datom is its content hash, a natural number.  Both sketches have the    *)
(* same capacity; a comparison of others is refused before it starts.      *)
(***************************************************************************)
EXTENDS Integers, SequencesExt

CONSTANT
    Capacity   \* hashes kept: DEFAULT_CAPACITY is 256 in the code

ASSUME CapacityAssumption == Capacity \in Nat \ {0}

\* One datom of the iteration.
Keep(heap, h) ==
    IF Cardinality(heap) < Capacity THEN heap \cup {h}
    ELSE IF h < Max(heap) THEN (heap \ {Max(heap)}) \cup {h}
    ELSE heap

\* StoreSketch::compute, over the datoms in the order of the iterator.
Compute(datoms) ==
    [hashes |-> SetToSortSeq(FoldLeft(Keep, {}, datoms), LAMBDA x, y : x < y), count |-> Len(datoms)]

\* sorted_set_counts: two sorted arrays in lockstep.
RECURSIVE SortedSetCounts(_, _)
SortedSetCounts(a, b) ==
    IF a = << >> \/ b = << >> THEN [intersection |-> 0, union |-> Len(a) + Len(b)]
    ELSE LET both == Head(a) = Head(b)
             rest == SortedSetCounts(IF Head(a) <= Head(b) THEN Tail(a) ELSE a,
                                     IF Head(b) <= Head(a) THEN Tail(b) ELSE b)
         IN  [intersection |-> rest.intersection + (IF both THEN 1 ELSE 0), union |-> rest.union + 1]

\* A faulty estimate: the counts of the hashes, not of the stores, are scaled.
EstimatedDiffOfHashes(a, b) ==
    LET counts == SortedSetCounts(a.hashes, b.hashes)
    IN  counts.union - counts.intersection

\* estimated_diff_size: rounded to the nearest.
EstimatedDiffSize(a, b) ==
    LET counts == SortedSetCounts(a.hashes, b.hashes)
        total == a.count + b.count
        sum == counts.union + counts.intersection
    IN  IF a.hashes = << >> THEN b.count
        ELSE IF b.hashes = << >> THEN a.count
        ELSE IF counts.intersection = counts.union THEN 0
        ELSE (total * (counts.union - counts.intersection) + sum \div 2) \div sum

\* merge: both arrays merged without duplicates, then cut.
RECURSIVE MergeHashes(_, _)
MergeHashes(a, b) ==
    IF a = << >> \/ b = << >> THEN a \o b
    ELSE <<Min({Head(a), Head(b)})>>
            \o MergeHashes(IF Head(a) <= Head(b) THEN Tail(a) ELSE a,
                           IF Head(b) <= Head(a) THEN Tail(b) ELSE b)

MergeSketches(a, b) ==
    LET merged == MergeHashes(a.hashes, b.hashes)
    IN  [hashes |-> SubSeq(merged, 1, Min({Len(merged), Capacity})), count |-> a.count + b.count]
=============================================================================
