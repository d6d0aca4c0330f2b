----------------------------- MODULE ProllyTree -----------------------------
(***************************************************************************)
(* Prolly trees (ferratomic-core/src/prolly): building one from a map,     *)
(* reading it back and comparing two of them.                              *)
(*                                                                         *)
(* A chunk's address is the hash of its content, so here a chunk is its    *)
(* own address: its entries if it is a leaf, else its level and its        *)
(* children, each below a separator.  A chunk store is the set of chunks   *)
(* it holds.  What the Gear hash makes of a key is a parameter: pat is the *)
(* set of keys whose hash matches the boundary pattern.                    *)
(***************************************************************************)
EXTENDS Integers, SequencesExt

CONSTANTS
    MinChunk,   \* MIN_CHUNK_SIZE: 32 in the code
    MaxChunk    \* MAX_CHUNK_SIZE: 1024 in the code

\* build_internal_nodes shortens the list of children only if a chunk that is
\* split off has two of them.
ASSUME ChunkSizeAssumption == MinChunk \in Nat /\ MaxChunk \in Nat /\ 2 <= MinChunk /\ MinChunk <= MaxChunk

LeafOf(entries) == [level |-> 0, entries |-> entries, children |-> << >>]
NodeOf(level, children) == [level |-> level, entries |-> << >>, children |-> children]
IsLeaf(chunk) == chunk.level = 0

-----------------------------------------------------------------------------
IsBoundary(key, pat, since) ==
    /\ since >= MinChunk
    /\ since >= MaxChunk \/ key \in pat

\* split_at_boundaries, for entries and for children: the last item never ends
\* a group.
Split(items, pat) ==
    LET Push(acc, i) ==
          LET current == Append(acc.current, items[i])
          IN  IF i < Len(items) /\ IsBoundary(items[i].key, pat, Len(current))
              THEN [groups |-> Append(acc.groups, current), current |-> << >>]
              ELSE [acc EXCEPT !.current = current]
        end == FoldLeft(Push, [groups |-> << >>, current |-> << >>],
                        [i \in DOMAIN items |-> i])
    IN  Append(end.groups, end.current)

RECURSIVE BuildInternalNodes(_, _, _)
BuildInternalNodes(children, pat, level) ==
    IF Len(children) = 1 THEN children[1].chunk
    ELSE LET groups == Split(children, pat)
         IN  BuildInternalNodes(
               [i \in DOMAIN groups |->
                   [key |-> groups[i][1].key, chunk |-> NodeOf(level, groups[i])]],
               pat, level + 1)

\* The entries of a map from keys to values, by key.
EntriesOf(kvs) ==
    LET keys == SetToSortSeq(DOMAIN kvs, <)
    IN  [i \in DOMAIN keys |-> [key |-> keys[i], value |-> kvs[keys[i]]]]

\* build_prolly_tree: the root.
BuildProllyTree(kvs, pat) ==
    IF DOMAIN kvs = {} THEN LeafOf(<< >>)
    ELSE LET groups == Split(EntriesOf(kvs), pat)
         IN  BuildInternalNodes(
               [i \in DOMAIN groups |->
                   [key |-> groups[i][1].key, chunk |-> LeafOf(groups[i])]],
               pat, 1)

\* decode_child_addrs.
ChildChunks(chunk) == [i \in DOMAIN chunk.children |-> chunk.children[i].chunk]

\* The chunks that building the tree has put into the store.
RECURSIVE ChunksBelow(_)
ChunksBelow(chunk) ==
    {chunk} \cup UNION {ChunksBelow(c) : c \in Range(ChildChunks(chunk))}

-----------------------------------------------------------------------------
Failed == [ok |-> FALSE, entries |-> << >>]

\* A faulty walk: a chunk that is not there is passed over.
RECURSIVE ReadSkipping(_, _)
ReadSkipping(addr, have) ==
    IF addr \notin have THEN [ok |-> TRUE, entries |-> << >>]
    ELSE IF IsLeaf(addr) THEN [ok |-> TRUE, entries |-> addr.entries]
    ELSE FoldLeft(LAMBDA acc, c :
                    LET sub == ReadSkipping(c, have)
                    IN  [ok |-> acc.ok /\ sub.ok, entries |-> acc.entries \o sub.entries],
                  [ok |-> TRUE, entries |-> << >>], ChildChunks(addr))

\* read_subtree_vec: the entries in the order of the walk, or an error as soon
\* as a chunk is missing.
RECURSIVE ReadSubtree(_, _)
ReadSubtree(addr, have) ==
    IF addr \notin have THEN Failed
    ELSE IF IsLeaf(addr) THEN [ok |-> TRUE, entries |-> addr.entries]
    ELSE FoldLeft(LAMBDA acc, c :
                    LET sub == ReadSubtree(c, have)
                    IN  IF acc.ok /\ sub.ok
                        THEN [ok |-> TRUE, entries |-> acc.entries \o sub.entries]
                        ELSE Failed,
                  [ok |-> TRUE, entries |-> << >>], ChildChunks(addr))

-----------------------------------------------------------------------------
\* Two lists of items, by key: side by side where they have the same key.
RECURSIVE MergeJoin(_, _)
MergeJoin(l, r) ==
    CASE l = << >> /\ r = << >> -> << >>
      [] l # << >> /\ (r = << >> \/ l[1].key < r[1].key) ->
           <<[l |-> <<l[1]>>, r |-> << >>]>> \o MergeJoin(Tail(l), r)
      [] r # << >> /\ (l = << >> \/ r[1].key < l[1].key) ->
           <<[l |-> << >>, r |-> <<r[1]>>]>> \o MergeJoin(l, Tail(r))
      [] OTHER -> <<[l |-> <<l[1]>>, r |-> <<r[1]>>]>> \o MergeJoin(Tail(l), Tail(r))

\* diff_sorted_entries and merge_join_children: what is on one side only
\* (LeftOnly, RightOnly) and what differs (Modified, Compare).
DiffSorted(l, r) == SelectSeq(MergeJoin(l, r), LAMBDA p : p.l # p.r)

\* All of the items as those of one side.
OneSided(items, left) ==
    [i \in DOMAIN items |-> IF left THEN [l |-> <<items[i]>>, r |-> << >>]
                            ELSE [l |-> << >>, r |-> <<items[i]>>]]

\* enumerate_subtree: the entries of a leaf are output, the children of a node
\* are pushed for the walk, the first on top.
Enumerate(d, item, left) ==
    IF IsLeaf(item.chunk)
    THEN [d EXCEPT !.out = @ \o OneSided(item.chunk.entries, left)]
    ELSE [d EXCEPT !.stack = @ \o OneSided(Reverse(item.chunk.children), left)]

\* compare_chunks: entry by entry, child by child, or all of both where one is
\* a leaf and the other is not.
CompareChunks(d, l, r) ==
    IF IsLeaf(l.chunk) # IsLeaf(r.chunk)
    THEN Enumerate(Enumerate(d, l, TRUE), r, FALSE)
    ELSE IF IsLeaf(l.chunk)
    THEN [d EXCEPT !.out = @ \o DiffSorted(l.chunk.entries, r.chunk.entries)]
    ELSE [d EXCEPT !.stack = @ \o DiffSorted(l.chunk.children, r.chunk.children)]

\* DiffIterator::advance, one entry of the stack.
Advance(d, have) ==
    LET top == Last(d.stack)
        rest == [d EXCEPT !.stack = Front(@)]
    IN  CASE \E item \in Range(top.l \o top.r) : item.chunk \notin have ->
               [rest EXCEPT !.ok = FALSE]
          [] top.r = << >> -> Enumerate(rest, top.l[1], TRUE)
          [] top.l = << >> -> Enumerate(rest, top.r[1], FALSE)
          [] OTHER -> CompareChunks(rest, top.l[1], top.r[1])

\* The iterator collected up to its end or its first error.
RECURSIVE Collect(_, _)
Collect(d, have) == IF d.stack = << >> \/ ~ d.ok THEN d ELSE Collect(Advance(d, have), have)

Diff(root1, root2, have) ==
    LET start == IF root1 = root2 THEN << >>
                 ELSE <<[l |-> <<[key |-> 0, chunk |-> root1]>>,
                         r |-> <<[key |-> 0, chunk |-> root2]>>]>>
    IN  Collect([stack |-> start, out |-> << >>, ok |-> TRUE], have)

\* A faulty repair: the entries are joined in the order in which they came.
DeduplicateUnsorted(out) ==
    LET lefts == SelectSeq(out, LAMBDA p : p.r = << >>)
        rights == SelectSeq(out, LAMBDA p : p.l = << >>)
    IN  SelectSeq(out, LAMBDA p : p.l # << >> /\ p.r # << >>)
          \o DiffSorted([i \in DOMAIN lefts |-> lefts[i].l[1]],
                        [i \in DOMAIN rights |-> rights[i].r[1]])

\* deduplicate_phantom_entries: an entry reported on both sides has only moved
\* between chunks, or was modified.
DeduplicatePhantoms(out) ==
    LET ByKey(items) == SortSeq(items, LAMBDA a, b : a.key < b.key)
        lefts == SelectSeq(out, LAMBDA p : p.r = << >>)
        rights == SelectSeq(out, LAMBDA p : p.l = << >>)
    IN  SelectSeq(out, LAMBDA p : p.l # << >> /\ p.r # << >>)
          \o DiffSorted(ByKey([i \in DOMAIN lefts |-> lefts[i].l[1]]),
                        ByKey([i \in DOMAIN rights |-> rights[i].r[1]]))

\* diff_exact.
DiffExact(root1, root2, have) ==
    LET d == Diff(root1, root2, have)
    IN  [ok |-> d.ok, out |-> IF d.ok THEN DeduplicatePhantoms(d.out) ELSE << >>]
=============================================================================
