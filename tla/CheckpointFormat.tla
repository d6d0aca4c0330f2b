-------------------------- MODULE CheckpointFormat --------------------------
(***************************************************************************)
(* The checkpoint formats (ferratomic-checkpoint/src): what each writer    *)
(* puts into a file and what the readers make of it, up to the store that  *)
(* is rebuilt.                                                             *)
(*                                                                         *)
(* A file is its content and the BLAKE3 hash after it; the hash of a       *)
(* content is that content.  The magic and the version of a header are the *)
(* format; the schema and the genesis node travel with the epoch.  A bit   *)
(* vector is a sequence of Booleans.  What may fail is a sequence of at    *)
(* most one element.                                                       *)
(***************************************************************************)
EXTENDS EntityIndex

Written(content) == [content |-> content, hash |-> content]

\* live_bits_clone, and from_sorted_with_live back to positions.
BitsOf(live, n) == [i \in 1..n |-> i - 1 \in live]
PositionsOf(bits) == {i - 1 : i \in {j \in DOMAIN bits : bits[j]}}

\* extract_checkpoint_data.
Extract(store) ==
    [epoch |-> store.epoch, datoms |-> store.datoms,
     bits |-> <<BitsOf(store.live, Len(store.datoms))>>]

-----------------------------------------------------------------------------
SerializeV3(data) ==
    Written([format |-> "v3", epoch |-> data.epoch, datoms |-> data.datoms, bits |-> data.bits[1]])

\* The datoms whose bit is b, in their order.
Partition(data, b) ==
    LET at == SelectSeq([i \in DOMAIN data.datoms |-> i], LAMBDA i : data.bits[1][i] = b)
    IN  [i \in DOMAIN at |-> data.datoms[at[i]]]

SerializeLiveFirst(data) ==
    Written([format |-> "liveFirst", epoch |-> data.epoch,
             live |-> Partition(data, TRUE), hist |-> Partition(data, FALSE)])

\* One column per field of a datom; the operation is TRUE for Assert.
SerializeV4(data) ==
    Written([format |-> "v4", epoch |-> data.epoch,
             columns |-> [f \in 1..4 |-> [i \in DOMAIN data.datoms |-> data.datoms[i][f]]],
             ops |-> [i \in DOMAIN data.datoms |-> data.datoms[i][5] = 0],
             bits |-> data.bits[1]])

\* The backing words of the bits, the last filled up.
SerializeMmap(data) ==
    LET n == Len(data.bits[1])
        words == (n + WordSize - 1) \div WordSize
    IN  Written([format |-> "mmap", epoch |-> data.epoch, datoms |-> data.datoms, len |-> n,
                 words |-> [i \in 1..(words * WordSize) |-> i <= n /\ data.bits[1][i]]])

-----------------------------------------------------------------------------
\* verify_blake3, verify_checksum, then the header.
Verified(file, format) == file.hash = file.content /\ file.content.format = format

DeserializeV3(file) ==
    LET c == file.content
    IN  IF Verified(file, "v3") /\ Len(c.bits) = Len(c.datoms)
        THEN <<[epoch |-> c.epoch, datoms |-> c.datoms, bits |-> <<c.bits>>]>>
        ELSE None

DeserializePartial(file) == IF Verified(file, "liveFirst") THEN <<file.content>> ELSE None

\* A faulty merge: the historical datoms after the live ones.
MergedAppended(live, hist, epoch) ==
    [epoch |-> epoch, datoms |-> live \o hist,
     bits |-> <<BitsOf(LivePositions(live \o hist, 0), Len(live \o hist))>>]

\* Both parts merged, and the LIVE bits built anew.
Merged(live, hist, epoch) ==
    LET all == MergeSortDedup(live, hist)
    IN  [epoch |-> epoch, datoms |-> all, bits |-> <<BitsOf(LivePositions(all, 0), Len(all))>>]

DeserializeLiveFirst(file) ==
    LET p == DeserializePartial(file)
    IN  IF p = None THEN None ELSE <<Merged(p[1].live, p[1].hist, p[1].epoch)>>

\* validate_column_lengths, then the columns zipped.
DeserializeV4(file) ==
    LET c == file.content
        n == Len(c.columns[1])
        Datom(i) == [f \in 1..5 |-> IF f < 5 THEN c.columns[f][i] ELSE IF c.ops[i] THEN 0 ELSE 1]
    IN  IF /\ Verified(file, "v4")
           /\ \A f \in 2..4 : Len(c.columns[f]) = n
           /\ Len(c.ops) = n /\ Len(c.bits) = n
        THEN <<[epoch |-> c.epoch, datoms |-> [i \in 1..n |-> Datom(i)], bits |-> <<c.bits>>]>>
        ELSE None

\* The legacy format: datoms in any order, no LIVE bits.
DeserializeV2(file) ==
    IF Verified(file, "v2")
    THEN <<[epoch |-> file.content.epoch, datoms |-> file.content.datoms, bits |-> None]>>
    ELSE None

\* deserialize_checkpoint_bytes.
Deserialize(file) ==
    CASE file.content.format = "v2" -> DeserializeV2(file)
      [] file.content.format = "v3" -> DeserializeV3(file)
      [] file.content.format = "liveFirst" -> DeserializeLiveFirst(file)
      [] file.content.format = "v4" -> DeserializeV4(file)
      [] OTHER -> None

-----------------------------------------------------------------------------
FromSortedWithLive(epoch, datoms, bits) ==
    IF Len(bits) = Len(datoms) /\ \A i \in 2..Len(datoms) : Before(datoms[i - 1], datoms[i])
    THEN <<[epoch |-> epoch, datoms |-> datoms, live |-> PositionsOf(bits)]>>
    ELSE None

\* store_from_checkpoint_data.
StoreFrom(data) ==
    IF data.bits # None THEN FromSortedWithLive(data.epoch, data.datoms, data.bits[1])
    ELSE LET sorted == FromDatoms(Range(data.datoms))
         IN  <<[epoch |-> data.epoch, datoms |-> sorted, live |-> LivePositions(sorted, 0)]>>

Load(file) == LET d == Deserialize(file) IN IF d = None THEN None ELSE StoreFrom(d[1])

\* mmap_cold_start, then promote_to_positional: the words, cut to length.
Promote(file) ==
    IF Verified(file, "mmap")
    THEN FromSortedWithLive(file.content.epoch, file.content.datoms,
                            SubSeq(file.content.words, 1, file.content.len))
    ELSE None

\* deserialize_live_first_partial: a store in which every bit is set.
LiveStore(partial) ==
    FromSortedWithLive(partial.epoch, partial.live, [i \in DOMAIN partial.live |-> TRUE])

\* PartialStore::load_historical.
LoadHistorical(partial) ==
    StoreFrom(Merged(LiveStore(partial)[1].datoms, partial.hist, partial.epoch))

\* live_values of a store: build_live_causal keeps the first datom at the
\* latest transaction of a triple, derive_live_set the assertions.
LiveValues(store) ==
    LET datoms == Range(store.datoms)
        Latest(d) == \A o \in datoms : SubSeq(o, 1, 3) = SubSeq(d, 1, 3) => o[4] <= d[4]
    IN  {SubSeq(d, 1, 3) : d \in {x \in datoms : x[5] = 0 /\ Latest(x)}}
=============================================================================
