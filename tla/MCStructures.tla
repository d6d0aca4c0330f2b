---------------------------- MODULE MCStructures ----------------------------
(***************************************************************************)
(* Chunks in transit, and the structures at rest they are made of: the     *)
(* callers of ChunkTransfer copy a snapshot between chunk stores, or, with *)
(* no caller at work, one sample of the inputs of an algorithm is looked   *)
(* at.  The samples are enumerated in two steps, the second from each      *)
(* result of the first.                                                    *)
(***************************************************************************)
EXTENDS MCChunkTransfer, ProllyTree, CheckpointFormat, StoreRepr, StoreSketch

CONSTANTS
    Keys,      \* the keys of sampled maps, an interval of integers
    MaxCalls,  \* the most calls on a sampled store
    BitCount   \* the length of the longest sampled bit vector

VARIABLE
    sample     \* the sample, or NoSample while callers are at work

NoSample == [kind |-> "none"]
FirstSample == [kind |-> "start"]

StructVars == <<transferVars, sample>>

StructInit ==
    \/ Init /\ sample = NoSample
    \/ Init /\ dst = {} /\ sample = FirstSample

\* A map with every value 1, and what the Gear hash makes of its keys; the
\* hash of the last key plays no part.
PickMap ==
    /\ sample.kind = "start"
    /\ \E keys \in SUBSET Keys, pat \in SUBSET (Keys \ {Max(Keys)}) :
          sample' = [kind |-> "map", pat |-> pat, left |-> [k \in keys |-> 1]]

\* Another map: every key is in it or not, with the same value or another.
PickPair ==
    /\ sample.kind = "map"
    /\ \E keys \in SUBSET Keys, changed \in SUBSET (DOMAIN sample.left) :
          /\ changed \subseteq keys
          /\ sample' = [kind |-> "maps", pat |-> sample.pat, left |-> sample.left,
                        right |-> [k \in keys |-> IF k \in changed THEN 2 ELSE 1]]

\* Datoms for arrays: entities 0 and 1 have a prefix in common, a triple has
\* an assertion and a retraction in one transaction, values are entities.
Universe ==
    {<<0, 1, 2, 1, 0>>, <<0, 1, 2, 2, 0>>, <<0, 1, 2, 2, 1>>, <<1, 1, 0, 1, 0>>, <<1, 2, 9, 1, 1>>,
     <<1, 2, 9, 3, 0>>, <<2, 1, 9, 2, 0>>, <<9, 1, 1, 1, 0>>, <<9, 2, 0, 3, 0>>}

\* What a second array is made of.
OtherUniverse ==
    {<<0, 1, 2, 1, 0>>, <<0, 2, 1, 4, 0>>, <<1, 1, 0, 1, 0>>, <<2, 1, 9, 2, 0>>, <<9, 2, 0, 4, 0>>}

PickArray ==
    /\ sample.kind = "start"
    /\ \E datoms \in SUBSET Universe : sample' = [kind |-> "array", left |-> FromDatoms(datoms)]

PickOther ==
    /\ sample.kind = "array"
    /\ \E datoms \in SUBSET OtherUniverse :
          sample' = [kind |-> "arrays", left |-> sample.left, right |-> FromDatoms(datoms)]

\* The hashes of five entities.  They are the first bytes of the entities: in
\* the order of the entities, and equal for some.
HashTriples == (0..1) \X (0..1) \X (0..2)

Ascending(h) == \A i \in 2..Len(h) : ~ Before(h[i], h[i - 1])

PickHashes ==
    /\ sample.kind = "start"
    /\ \E h \in {s \in [1..2 -> HashTriples] : Ascending(s)} : sample' = [kind |-> "prefix", h |-> h]

PickMoreHashes ==
    /\ sample.kind = "prefix"
    /\ \E h \in {s \in [1..3 -> HashTriples] : Ascending(sample.h \o s)} :
          sample' = [kind |-> "hashes", h |-> sample.h \o h]

PickBits ==
    /\ sample.kind = "start"
    /\ \E n \in 0..BitCount : \E bits \in [1..n -> BOOLEAN] : sample' = [kind |-> "bits", bits |-> bits]

\* The content hashes of a store in the order of its iterator, then of another.
ContentHashes == 1..5

PickStore ==
    /\ sample.kind = "start"
    /\ \E n \in 0..4 : \E datoms \in {s \in [1..n -> ContentHashes] : IsInjective(s)} :
          sample' = [kind |-> "store", left |-> datoms]

PickOtherStore ==
    /\ sample.kind = "store"
    /\ \E datoms \in SUBSET ContentHashes :
          sample' = [kind |-> "stores", left |-> sample.left,
                     right |-> SetToSortSeq(datoms, LAMBDA x, y : x > y)]

\* A store, and the calls on it: what each is given, in any order and with
\* repetitions.
CallUniverse == {<<0, 2, 1, 4, 0>>, <<1, 1, 0, 1, 0>>, <<1, 2, 9, 3, 0>>}

Given == UNION {[1..n -> CallUniverse] : n \in 1..2}

PickRepr ==
    /\ sample.kind = "start"
    /\ \E datoms \in SUBSET CallUniverse :
          sample' = [kind |-> "repr", calls |-> 0, given |-> datoms,
                     repr |-> PositionalRepr(FromDatoms(datoms))]

Called(repr, datoms) ==
    sample' = [sample EXCEPT !.calls = @ + 1, !.given = @ \cup datoms, !.repr = repr]

CallInsert == \E ds \in Given : Called(InsertRepr(sample.repr, ds), Range(ds))
CallTransact == \E ds \in Given : Called(TransactRepr(sample.repr, ds), Range(ds))
CallReplay ==
    \E d, e \in CallUniverse, ok \in BOOLEAN :
        Called(BatchReplay(sample.repr, <<<<d>>, <<e>>>>, ok), {d, e})
CallSort == Called(EnsureIndexesSorted(sample.repr), {})
CallPromote == Called(PromoteRepr(sample.repr), {})
CallMerge ==
    \E datoms \in SUBSET CallUniverse :
        \E other \in {PositionalRepr(FromDatoms(datoms)), PromoteRepr(PositionalRepr(FromDatoms(datoms)))} :
            Called(MergeRepr(sample.repr, other), datoms)

NextSample ==
    /\ sample.kind \in {"maps", "arrays", "hashes", "bits", "repr", "stores"}
    /\ sample' = FirstSample

StructNext ==
    \/ sample = NoSample /\ Next /\ UNCHANGED sample
    \/ /\ sample # NoSample
       /\ \/ PickMap \/ PickPair
          \/ PickArray \/ PickOther
          \/ PickHashes \/ PickMoreHashes
          \/ PickBits
          \/ PickRepr
          \/ /\ sample.kind = "repr" /\ sample.calls < MaxCalls
             /\ \/ CallInsert \/ CallTransact \/ CallReplay
                \/ CallSort \/ CallPromote \/ CallMerge
          \/ PickStore \/ PickOtherStore
          \/ NextSample
       /\ UNCHANGED transferVars

StructSpec ==
    /\ StructInit
    /\ [][StructNext]_StructVars
    /\ \A p \in Callers : WF_StructVars(sample = NoSample /\ Step(p) /\ UNCHANGED sample)

-----------------------------------------------------------------------------
Tree(kvs) == BuildProllyTree(kvs, sample.pat)

\* INV-FERR-049: "read_prolly_tree(S, root_hash(T)) = T": a tree reads back as
\* its map, and with any one of its chunks missing reading it fails: it never
\* returns a part of the map.
TreeReadsBack ==
    sample.kind = "map" =>
        LET top == Tree(sample.left)
            chunks == ChunksBelow(top)
        IN  /\ ReadSubtree(top, chunks) = [ok |-> TRUE, entries |-> EntriesOf(sample.left)]
            /\ \A c \in chunks : ~ ReadSubtree(top, chunks \ {c}).ok
            /\ \A c \in chunks : Len(c.entries) <= MaxChunk /\ Len(c.children) <= MaxChunk

\* INV-FERR-047 (diff.rs:55): "Returns exactly KV1 symmetric_diff KV2 - no
\* missed changes, no phantom entries", whatever the heights of the trees and
\* however their boundaries have shifted; and when a chunk is missing it fails
\* or does not need that chunk.
DiffIsExact ==
    sample.kind = "maps" =>
        LET l == Tree(sample.left)
            r == Tree(sample.right)
            have == ChunksBelow(l) \cup ChunksBelow(r)
            Entry(kvs, k) == IF k \in DOMAIN kvs THEN <<[key |-> k, value |-> kvs[k]]>> ELSE << >>
            difference == {p \in {[l |-> Entry(sample.left, k), r |-> Entry(sample.right, k)] : k \in Keys} : p.l # p.r}
            Exact(d) == d.ok /\ Range(d.out) = difference /\ IsInjective(d.out)
        IN  /\ Exact(DiffExact(l, r, have))
            /\ \A c \in have : LET d == DiffExact(l, r, have \ {c}) IN d.ok => Exact(d)

-----------------------------------------------------------------------------
\* INV-FERR-076, INV-FERR-071: the interpolation search on the array and the
\* searches of the three permutations in Eytzinger layout find every datom of
\* the store and nothing else; the layout is undone exactly, and the
\* run-length column names the entity of every position.
SearchesAgree ==
    sample.kind = "array" =>
        LET canonical == sample.left
            rle == FromEntities([i \in DOMAIN canonical |-> canonical[i][1]])
            Found(d) == IF d \in Range(canonical) THEN <<d>> ELSE None
        IN  /\ \A d \in Universe \cup OtherUniverse : InterpolationSearch(canonical, d) = Found(d)
            /\ \A order \in {AEVT, VAET, AVET} :
                  LET sorted == BuildPermutation(canonical, order)
                      bfs == LayoutPermutation(sorted)
                  IN  /\ LayoutToSorted(bfs, 1) = sorted
                      /\ \A d \in Universe \cup OtherUniverse :
                            LayoutSearch(bfs, canonical, KeyOf(d, order), order, 1) = Found(d)
            /\ LET sorted == TxPermutation(canonical)
               IN  LayoutToSorted(LayoutPermutation(sorted), 1) = sorted
            /\ \A p \in 0..Len(canonical) :
                  EntityAtPosition(rle, p) = IF p < Len(canonical) THEN <<At(canonical, p)[1]>> ELSE None
            /\ \A g \in 0..(Len(rle.runs) - 1) : \A p \in 0..(Len(canonical) - 1) :
                  (GroupOf(rle, p) = <<g>>) <=> (p >= GroupRange(rle, g)[1] /\ p < GroupRange(rle, g)[2])

\* INV-FERR-029, INV-FERR-083 (adjacency.rs:47): an edge of the graph is a
\* triple whose latest event, by transaction and then retraction last, is an
\* assertion; an edge has one entry at each of its ends.
EdgesAreLive ==
    sample.kind = "array" =>
        LET canonical == sample.left
            datoms == Range(canonical)
            edges == Edges(canonical, LivePositions(canonical, 0), {1, 2})
            entities == {0, 1, 2, 9}
            Holds(t) == \E d \in datoms :
                /\ SubSeq(d, 1, 3) = t /\ d[5] = 0
                /\ \A o \in datoms : SubSeq(o, 1, 3) = t => ~ Before(<<d[4], d[5]>>, <<o[4], o[5]>>)
        IN  \A s, t \in entities : \A a \in {1, 2} :
               LET forth == SelectSeq(Neighbors(edges, s), LAMBDA x : x = <<a, t>>)
                   back == SelectSeq(ReverseNeighbors(edges, t), LAMBDA x : x = <<a, s>>)
               IN  Len(forth) = Len(back) /\ Len(forth) = IF Holds(<<s, a, t>>) THEN 1 ELSE 0

\* INV-FERR-079 (chunk_fingerprints.rs:115): "only differing chunks need datom
\* transfer": merged with the other array's datoms of the chunks that differ,
\* in either order, an array is the sorted array of the union of both
\* (INV-FERR-001, INV-FERR-003, merge.rs:11), also when its fingerprints were
\* kept up with insert_hash while datoms were inserted and positions shifted;
\* and the store fingerprint is then that of its datoms.
ReconcileSuffices ==
    sample.kind = "arrays" =>
        LET b == sample.right
            fb == ChunkFingerprints(b)
            Needed(fa) == {d \in Range(b) : \E c \in DiffChunks(fa, fb) : d \in ChunkAt(fb, c)}
            Suffices(datoms, fa) ==
                /\ StoreFingerprint(fa) = datoms
                /\ LET mine == FromDatoms(datoms)
                       sent == FromDatoms(Needed(fa))
                       union == FromDatoms(datoms \cup Range(b))
                   IN  MergeSortDedup(mine, sent) = union /\ MergeSortDedup(sent, mine) = union
            datoms == Range(sample.left)
            fa == ChunkFingerprints(sample.left)
            Pos(d) == Cardinality({x \in datoms : Before(x, d)})
        IN  /\ Suffices(datoms, fa)
            /\ \A d \in OtherUniverse \ datoms : Suffices(datoms \cup {d}, InsertHash(fa, Pos(d), d))

\* INV-FERR-005, INV-FERR-071 (backend.rs:221, 224): a store may be given a
\* datom twice, and its indexes then hold it twice until they are sorted; they
\* never disagree with one another, a lookup never finds what the store does
\* not have, and once sorted every index has each datom of the store once and
\* finds it.
IndexesBijective ==
    sample.repr.kind = "ordmap" =>
        LET sorted == EnsureIndexesSorted(sample.repr).indexes
        IN  /\ VerifyBijection(sample.repr.indexes)
            /\ \A o \in IndexOrders, d \in CallUniverse :
                  /\ BackendGet(sample.repr.indexes[o], o, KeyOf(d, o)) \in {None} \cup {<<x>> : x \in sample.given \cap {d}}
                  /\ BackendGet(sorted[o], o, KeyOf(d, o)) = IF d \in sample.given THEN <<d>> ELSE None
            /\ \A o \in IndexOrders : Len(sorted[o].entries) = Cardinality(sample.given)

\* INV-FERR-072 (apply.rs:355, "identical datom set to promote+insert+demote"):
\* whatever calls a store has been through, and whichever representation each
\* of them left it in, a failed replay included, it iterates over exactly the
\* datoms it was given, once each and sorted, and its indexes
\* are in bijection with it.
ReprsAgree ==
    sample.kind = "repr" => Iter(sample.repr) = FromDatoms(sample.given) /\ IndexesBijective

\* INV-FERR-013 ("load(checkpoint(S)) = S", lib.rs:205) and INV-FERR-075:
\* whatever the format, and the memory-mapped one, a store loads as it was
\* written, LIVE bits included; a file whose header no longer matches its hash
\* is refused by every reader.  The part of a LIVE-first file that is loaded
\* first shows the values of the whole store, except for triples that one
\* transaction both asserted and retracted (the LIVE bits of the store take
\* these for retracted, its live set for asserted), and the rest completes it.
CheckpointRoundTrip ==
    sample.kind = "array" =>
        LET canonical == sample.left
            store == [epoch |-> 1, datoms |-> canonical, live |-> LivePositions(canonical, 0)]
            data == Extract(store)
            legacy == Written([format |-> "v2", epoch |-> 1, datoms |-> Reverse(canonical)])
            liveFirst == SerializeLiveFirst(data)
            mapped == SerializeMmap(data)
            files == {legacy, SerializeV3(data), liveFirst, SerializeV4(data)}
            Damaged(f) == {[f EXCEPT !.content.epoch = 2]} \cup
                          {[f EXCEPT !.content.format = g] :
                              g \in {"v2", "v3", "liveFirst", "v4", "mmap"} \ {f.content.format}}
            Unread(f) == Load(f) = None /\ DeserializePartial(f) = None /\ Promote(f) = None
            partial == DeserializePartial(liveFirst)[1]
            Tied(t) == \E d \in Range(canonical) :
                SubSeq(d, 1, 3) = t /\ d[5] = 0 /\ [d EXCEPT ![5] = 1] \in Range(canonical)
        IN  /\ \A f \in files : Load(f) = <<store>>
            /\ Promote(mapped) = <<store>>
            /\ \A f \in files \cup {mapped} : \A g \in Damaged(f) : Unread(g)
            /\ \A f \in files \ {liveFirst} : DeserializePartial(f) = None
            /\ LoadHistorical(partial) = <<store>>
            /\ \A t \in {SubSeq(d, 1, 3) : d \in Range(canonical)} :
                  Tied(t) \/ (t \in LiveValues(LiveStore(partial)[1]) <=> t \in LiveValues(store))

\* INV-FERR-027 (mph.rs:256): "Zero false negatives for construction keys. For
\* absent keys, the backend returns an arbitrary slot; the key comparison
\* against canonical rejects it": whatever the hashes, and whether or not a
\* perfect hash is found, a lookup gives an entity's first position, and the
\* Bloom filter never hides an entity.
EntityLookupExact ==
    sample.kind = "hashes" =>
        \A absent \in 1..Len(sample.h) :
            LET present == SetToSortSeq((1..Len(sample.h)) \ {absent}, LAMBDA x, y : x < y)
                first == [i \in 1..Len(present) |-> <<present[i], 1, 1, 1, 0>>]
                second == [i \in 1..Len(present) |-> <<present[i], 1, 1, 2, 1>>]
                canonical == [i \in 1..(2 * Len(present)) |->
                                IF i % 2 = 1 THEN first[(i + 1) \div 2] ELSE second[i \div 2]]
                keys == UniqueEntities(canonical)
            IN  /\ \A order \in BucketOrders(Buckets(keys, sample.h)) :
                     LET chd == ChdBuild(keys, sample.h, order)
                     IN  \A e \in 1..Len(sample.h) :
                            EntityLookup(canonical, chd, keys, sample.h, e)
                              = IF e = absent THEN None ELSE <<Min({i - 1 : i \in {j \in DOMAIN canonical : canonical[j][1] = e}})>>
                /\ \A e \in 1..Len(sample.h) : EntityExists(canonical, sample.h, e) <=> e # absent

\* succinct.rs: rank counts the ones before a position, select is its
\* inverse, and both agree at the ends of words and of the vector.
RankSelect ==
    sample.kind = "bits" =>
        LET bits == sample.bits
            prefix == PrefixSums(bits)
        IN  /\ \A pos \in 0..(Len(bits) + 1) : Rank1(bits, prefix, pos) = Ones(bits, 0, pos)
            /\ \A k \in 0..(Len(bits) + 1) :
                  LET p == Select1(bits, prefix, k)
                  IN  IF k >= Ones(bits, 0, Len(bits)) THEN p = None
                      ELSE p # None /\ At(bits, p[1]) /\ Rank1(bits, prefix, p[1]) = k

\* Every way to look something up by key, position or rank gives what a scan of
\* the array gives: the searches, the perfect hash with its filter, rank and
\* select.
LookupsExact == SearchesAgree /\ EntityLookupExact /\ RankSelect

\* sketch.rs:206: "For identical stores (J=1): returns 0. For completely
\* disjoint stores (J=0): returns count_a + count_b": for those of any size,
\* and for any stores that fit in their sketches, the estimate is the size of
\* the symmetric difference; and sketches merge to the sketch of the union,
\* whose count is right when nothing was in both.
SketchEstimates ==
    sample.kind = "stores" =>
        LET a == Range(sample.left)
            b == Range(sample.right)
            l == Compute(sample.left)
            r == Compute(sample.right)
            merged == MergeSketches(l, r)
            union == Compute(SetToSortSeq(a \cup b, LAMBDA x, y : x < y))
        IN  /\ \/ a = b
               \/ a \cap b = {}
               \/ Cardinality(a) <= Capacity /\ Cardinality(b) <= Capacity
               => EstimatedDiffSize(l, r) = Cardinality(SymDiff(a, b))
            /\ merged.hashes = union.hashes
            /\ a \cap b = {} => merged = union
=============================================================================
