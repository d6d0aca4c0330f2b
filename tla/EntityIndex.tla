---------------------------- MODULE EntityIndex -----------------------------
(***************************************************************************)
(* What the positional store derives from its array: the perfect hash and  *)
(* the Bloom filter over its entities, the run-length encoding of the      *)
(* entity column, bit vectors with rank and select, and the fingerprints   *)
(* of its chunks (mph.rs, bloom.rs, search.rs, entity_rle.rs, succinct.rs, *)
(* chunk_fingerprints.rs).                                                 *)
(*                                                                         *)
(* The bytes of an entity are a BLAKE3 hash; the three integers the code   *)
(* reads from them are a parameter: h[e] = <<h1, h2, h3>>.                 *)
(***************************************************************************)
EXTENDS Positional

CONSTANTS
    ChunkSize,       \* datoms per fingerprint: DEFAULT_CHUNK_SIZE in the code
    MaxDisplacement, \* MAX_DISPLACEMENT: 1024 in the code
    BucketRatio,     \* BUCKET_RATIO: 4 in the code
    HashRange,       \* the hashes of an entity are in 0 .. HashRange - 1
    BloomSize,       \* bits of the Bloom filter
    BloomHashes,     \* NUM_HASHES: 7 in the code
    WordSize         \* bits of a word of a bit vector: 64 in the code

ASSUME IndexAssumption ==
    {ChunkSize, MaxDisplacement, BucketRatio, HashRange, BloomSize, BloomHashes, WordSize}
        \subseteq Nat \ {0}

-----------------------------------------------------------------------------
\* unique_entities_with_positions: the entities and where each begins.
UniqueEntities(canonical) ==
    LET begins == SelectSeq([i \in DOMAIN canonical |-> i],
                            LAMBDA i : i = 1 \/ canonical[i][1] # canonical[i - 1][1])
    IN  [i \in DOMAIN begins |-> [entity |-> canonical[begins[i]][1], pos |-> begins[i] - 1]]

\* partition_point, then a comparison.
FirstDatomPosition(canonical, e) ==
    LET pos == Cardinality({i \in DOMAIN canonical : canonical[i][1] < e})
    IN  IF pos < Len(canonical) /\ At(canonical, pos)[1] = e THEN <<pos>> ELSE None

\* slot_for_key: the sum and the product wrap.
SlotForKey(h, e, d, slots) == ((h[e][2] + d * h[e][3]) % HashRange) % slots

BucketOf(h, e, buckets) == h[e][1] % buckets

\* The orders in which sort_unstable_by may leave the buckets: larger ones
\* first.
BucketOrders(bucket) ==
    {o \in SetToSeqs(DOMAIN bucket) :
        \A i \in 2..Len(o) : Len(bucket[o[i]]) <= Len(bucket[o[i - 1]])}

\* try_displacement: a slot of its own for every key of the bucket.
TryDisplacement(bucket, keys, h, d, slots, taken) ==
    LET slot == [i \in DOMAIN bucket |-> SlotForKey(h, keys[bucket[i]].entity, d, slots)]
    IN  IF IsInjective(slot) /\ Range(slot) \cap taken = {} THEN <<slot>> ELSE None

\* ChdBackend::build, given the order of the buckets; keys is the result of
\* UniqueEntities.  displacement[b] belongs to bucket b, key[s] is the index
\* of the key in slot s, or 0.
ChdStart(buckets, slots) ==
    [ok |-> TRUE, displacement |-> [b \in 0..(buckets - 1) |-> 0], key |-> [s \in 0..(slots - 1) |-> 0]]

Buckets(keys, h) ==
    LET n == Len(keys) \div BucketRatio + 1
    IN  [b \in 0..(n - 1) |->
           SelectSeq([i \in DOMAIN keys |-> i], LAMBDA i : BucketOf(h, keys[i].entity, n) = b)]

ChdBuild(keys, h, order) ==
    LET bucket == Buckets(keys, h)
        slots == Len(keys) + Len(keys) \div 4 + 1
        Place(t, b) ==
          LET taken == {s \in DOMAIN t.key : t.key[s] # 0}
              Fits(d) == TryDisplacement(bucket[b], keys, h, d, slots, taken)
              fitting == {d \in 0..(MaxDisplacement - 1) : Fits(d) # None}
          IN  IF ~ t.ok \/ bucket[b] = << >> THEN t
              ELSE IF fitting = {} THEN [t EXCEPT !.ok = FALSE]
              ELSE LET d == Min(fitting)
                       slot == Fits(d)[1]
                   IN  [t EXCEPT !.displacement[b] = d,
                                 !.key = [s \in DOMAIN @ |->
                                            IF s \in Range(slot)
                                            THEN bucket[b][CHOOSE i \in DOMAIN slot : slot[i] = s]
                                            ELSE @[s]]]
    IN  FoldLeft(Place, ChdStart(Cardinality(DOMAIN bucket), slots), order)

\* Mph::entity_position: the backend's slot, the key in it, and the datom at
\* its position to confirm it.
EntityPosition(chd, keys, h, e, canonical) ==
    IF keys = << >> THEN None
    ELSE LET b == BucketOf(h, e, Cardinality(DOMAIN chd.displacement))
             key == chd.key[SlotForKey(h, e, chd.displacement[b], Cardinality(DOMAIN chd.key))]
         IN  IF key = 0 THEN None
             ELSE IF At(canonical, keys[key].pos)[1] = e THEN <<keys[key].pos>> ELSE None

\* PositionalStore::entity_lookup, once the hash has been built.
EntityLookup(canonical, chd, keys, h, e) ==
    IF chd.ok THEN EntityPosition(chd, keys, h, e, canonical) ELSE FirstDatomPosition(canonical, e)

\* The bits of an entity in the Bloom filter; the second hash is made odd.
BloomProbes(h, e) ==
    LET odd == h[e][2] + 1 - (h[e][2] % 2)
    IN  {(h[e][1] + i * odd) % BloomSize : i \in 0..(BloomHashes - 1)}

\* PositionalStore::entity_exists.
EntityExists(canonical, h, e) ==
    LET keys == UniqueEntities(canonical)
        bits == UNION {BloomProbes(h, keys[i].entity) : i \in DOMAIN keys}
    IN  BloomProbes(h, e) \subseteq bits /\ FirstDatomPosition(canonical, e) # None

-----------------------------------------------------------------------------
\* EntityRle: the runs of the entity column, and where each begins and ends.
FromEntities(entities) ==
    LET Step(t, e) ==
          IF e = t.current THEN [t EXCEPT !.len = @ + 1]
          ELSE [runs |-> Append(t.runs, t.current), sums |-> Append(t.sums, Last(t.sums) + t.len),
                current |-> e, len |-> 1]
        t == FoldLeft(Step, [runs |-> << >>, sums |-> <<0>>, current |-> Head(entities), len |-> 1],
                      Tail(entities))
    IN  IF entities = << >> THEN [runs |-> << >>, sums |-> <<0>>]
        ELSE [runs |-> Append(t.runs, t.current), sums |-> Append(t.sums, Last(t.sums) + t.len)]

GroupOf(rle, pos) ==
    IF pos >= Last(rle.sums) THEN None
    ELSE <<Cardinality({i \in DOMAIN rle.sums : rle.sums[i] <= pos}) - 1>>

GroupRange(rle, group) ==
    IF group >= Len(rle.runs) THEN None ELSE <<At(rle.sums, group), At(rle.sums, group + 1)>>

EntityAtPosition(rle, pos) ==
    LET group == GroupOf(rle, pos) IN IF group = None THEN None ELSE <<At(rle.runs, group[1])>>

-----------------------------------------------------------------------------
\* SuccinctBitVec::from_bitvec: the ones before each word, and in all.  The
\* bits are booleans; a word ends with the vector.
Ones(bits, from, to) == Cardinality({p \in from..(to - 1) : p < Len(bits) /\ At(bits, p)})

WordCount(bits) == (Len(bits) + WordSize - 1) \div WordSize

PrefixSums(bits) == [w \in 1..(WordCount(bits) + 1) |-> Ones(bits, 0, (w - 1) * WordSize)]

Rank1(bits, prefix, pos) ==
    IF pos = 0 THEN 0
    ELSE IF pos >= Len(bits) THEN Last(prefix)
    ELSE LET word == pos \div WordSize
         IN  At(prefix, word) + Ones(bits, word * WordSize, pos)

\* The first word whose ones reach the target.
RECURSIVE WordReaching(_, _, _, _)
WordReaching(prefix, target, lo, hi) ==
    IF lo >= hi THEN lo
    ELSE LET mid == lo + (hi - lo) \div 2
         IN  IF At(prefix, mid + 1) < target THEN WordReaching(prefix, target, mid + 1, hi)
             ELSE WordReaching(prefix, target, lo, mid)

\* select_in_word, from the first bit of the word.
SelectInWord(bits, word, k) ==
    LET ones == {p \in (word * WordSize)..(word * WordSize + WordSize - 1) :
                    p < Len(bits) /\ At(bits, p)}
        found == {p \in ones : Cardinality({q \in ones : q < p}) = k}
    IN  IF found = {} THEN None ELSE <<Min(found)>>

Select1(bits, prefix, k) ==
    IF k >= Last(prefix) THEN None
    ELSE LET word == WordReaching(prefix, k + 1, 0, Len(prefix) - 1)
         IN  SelectInWord(bits, word, k - At(prefix, word))

-----------------------------------------------------------------------------
\* ChunkFingerprints::from_canonical.
ChunkFingerprints(canonical) ==
    [c \in 1..((Len(canonical) + ChunkSize - 1) \div ChunkSize) |->
        {canonical[i] : i \in {i \in DOMAIN canonical : (i - 1) \div ChunkSize = c - 1}}]

Xor(a, b) == SymDiff(a, b)

\* chunk_at: beyond the end the fingerprint is zero.
ChunkAt(chunks, c) == IF c < Len(chunks) THEN At(chunks, c) ELSE {}

InsertHash(chunks, pos, d) ==
    LET c == pos \div ChunkSize
    IN  [i \in 1..Max({Len(chunks), c + 1}) |->
            IF i = c + 1 THEN Xor(ChunkAt(chunks, c), {d}) ELSE ChunkAt(chunks, i - 1)]

StoreFingerprint(chunks) == FoldLeft(Xor, {}, chunks)

\* A faulty comparison: it stops at the end of the shorter one.
DiffChunksShort(a, b) ==
    {c \in 0..(Min({Len(a), Len(b)}) - 1) : ChunkAt(a, c) # ChunkAt(b, c)}

DiffChunks(a, b) ==
    {c \in 0..(Max({Len(a), Len(b)}) - 1) : ChunkAt(a, c) # ChunkAt(b, c)}
=============================================================================
