-------------------------------- MODULE Store --------------------------------
(***************************************************************************)
(* The datom store: ferratomic-store/src (apply.rs, store.rs, merge.rs,    *)
(* query.rs, schema_evolution.rs) and the LIVE kernel and merge of         *)
(* ferratomic-positional/src.  Replicas commit transactions, merge each    *)
(* other's stores wholly or through a filter, write checkpoints, and       *)
(* recover from a checkpoint and the log.                                  *)
(*                                                                         *)
(* A store keeps three accounts of which facts hold: the LIVE bits of the  *)
(* sorted array (computed from all datoms), the causal map (the latest     *)
(* event of each entity-attribute-value triple, maintained datom by datom) *)
(* and the live set (its projection, maintained beside it).                *)
(*                                                                         *)
(* A key stands for an entity and an attribute, and a triple is a key with *)
(* a value.  The datoms db/ident, db/valueType and db/cardinality of one   *)
(* entity are one datom: its key is the attribute they define, its value   *)
(* the definition.  The metadata datoms of a transaction are left out:     *)
(* their entity is the transaction's own, so nothing else touches their    *)
(* triples.  Positional and OrdMap representations hold the same set.      *)
(***************************************************************************)
EXTENDS Integers, Sequences

CONSTANTS
    Replicas,
    DataKeys,    \* keys of ordinary facts
    Attrs,       \* attributes; each is also the key of its definitions
    AttrOf,      \* the attribute of each data key
    Values,      \* values and definitions, in their order
    Genesis,     \* the definitions of genesis_schema
    TxIds,       \* transaction ids, in their order
    NodeOf,      \* the replica whose clock makes each id
    Payloads,    \* what callers put in a transaction: sequences of changes
    Filters      \* the filters callers pass to selective_merge

Assert == 0
Retract == 1
Ops == {Assert, Retract}
NoDef == 0

Keys == DataKeys \cup Attrs
Triples == Keys \X Values
Change == [triple : Triples, op : Ops]
Datom == [triple : Triples, tx : TxIds, op : Ops]
Filter == [keys : SUBSET Keys, nodes : SUBSET Replicas]

ASSUME StoreAssumption ==
    /\ DataKeys \cap Attrs = {}
    /\ AttrOf \in [DataKeys -> Attrs]
    /\ Values \subseteq Nat \ {0}
    /\ Genesis \in [Attrs -> Values \cup {NoDef}]
    /\ TxIds \subseteq Nat \ {0}
    /\ NodeOf \in [TxIds -> Replicas]
    /\ Payloads \subseteq Seq(Change)
    /\ Filters \subseteq Filter

\* Of the ids in any set of datoms one is the latest: they are finitely many.
ASSUME LatestAssumption ==
    \A S \in SUBSET TxIds : S # {} => \E m \in S : \A n \in S : n <= m

VARIABLES
    store,   \* store[r]: the replica's store
    saved,   \* saved[r]: its checkpoint
    log,     \* log[r]: the entries of its log
    todo,    \* todo[r]: the entries recovery has yet to replay
    acked,   \* history: datoms, schema and epoch after its last operation
    used     \* history: the transaction ids handed out

storeVars == <<store, saved, log, todo, acked, used>>

\* An event of a triple: the id 0 stands for a triple not in the causal map.
Event == [tx : TxIds \cup {0}, op : Ops]
Never == [tx |-> 0, op |-> Retract]

StoreType == [datoms : SUBSET Datom, causal : [Triples -> Event],
              live : SUBSET Triples, schema : [Attrs -> Values \cup {NoDef}],
              epoch : Nat]
CheckpointData == [datoms : SUBSET Datom, schema : [Attrs -> Values \cup {NoDef}],
                   epoch : Nat]
Entry == [epoch : Nat, tx : TxIds, changes : Seq(Change)]

-----------------------------------------------------------------------------
EmptyStore == [datoms |-> {}, causal |-> [t \in Triples |-> Never], live |-> {},
               schema |-> Genesis, epoch |-> 0]

\* derive_live_set.
DeriveLive(causal) ==
    {t \in Triples : causal[t].tx # 0 /\ causal[t].op = Assert}

\* A faulty rebuild: the first event of the run is kept.
EarliestEvent(D, t) ==
    LET E == {d \in D : d.triple = t}
    IN  IF E = {} THEN Never
        ELSE LET d == CHOOSE d \in E : \A x \in E : d.tx <= x.tx
             IN  [tx |-> d.tx, op |-> d.op]

\* build_live_causal for one triple, over datoms in sorted order: the latest
\* id, and at that id the operation that sorts first.
LatestEvent(D, t) ==
    LET E == {d \in D : d.triple = t}
    IN  IF E = {} THEN Never
        ELSE LET m == CHOOSE m \in TxIds : /\ \E d \in E : d.tx = m
                                           /\ \A d \in E : d.tx <= m
             IN  [tx |-> m,
                  op |-> IF \E d \in E : d.tx = m /\ d.op = Assert
                         THEN Assert ELSE Retract]

BuildCausal(D) == [t \in Triples |-> LatestEvent(D, t)]

\* live_positions_kernel: the last datom of the run of a triple in the sorted
\* array decides; at equal ids Retract sorts last.
KernelLive(D) ==
    {t \in Triples : \E d \in D :
        /\ d.triple = t /\ d.op = Assert
        /\ \A x \in D : x.triple = t => x.tx < d.tx \/ x = d}

\* from_checkpoint, from_checkpoint_v3.
FromCheckpoint(c) ==
    LET causal == BuildCausal(c.datoms)
    IN  [datoms |-> c.datoms, causal |-> causal, live |-> DeriveLive(causal),
         schema |-> c.schema, epoch |-> c.epoch]

\* extract_checkpoint_data.
CheckpointOf(s) == [datoms |-> s.datoms, schema |-> s.schema, epoch |-> s.epoch]

-----------------------------------------------------------------------------
\* The changes of a transaction to one triple, by position.
At(changes, t) == {i \in 1..Len(changes) : changes[i].triple = t}

\* live_apply for the changes of one transaction, in the caller's order, on
\* one triple.  All carry the same id, so only the first can be later than
\* the event in the map.
Applies(s, tx, changes, t) == At(changes, t) # {} /\ tx > s.causal[t].tx

FirstOp(changes, t) ==
    changes[CHOOSE i \in At(changes, t) : \A j \in At(changes, t) : i <= j].op

AppliedCausal(s, tx, changes) ==
    [t \in Triples |-> IF Applies(s, tx, changes, t)
                       THEN [tx |-> tx, op |-> FirstOp(changes, t)]
                       ELSE s.causal[t]]

\* A faulty update of the live set: retracted values are left in it.
AppliedLiveGrows(s, tx, changes) ==
    s.live \cup {t \in Triples : /\ Applies(s, tx, changes, t)
                                 /\ FirstOp(changes, t) = Assert}

\* The live set moves with the causal map: a value enters when it was dead
\* and leaves when it was live.
AppliedLive(s, tx, changes) ==
    LET was(t) == s.causal[t].tx # 0 /\ s.causal[t].op = Assert
        hits == {t \in Triples : Applies(s, tx, changes, t)}
        in == {t \in hits : FirstOp(changes, t) = Assert /\ ~was(t)}
        out == {t \in hits : FirstOp(changes, t) = Retract /\ was(t)}
    IN  (s.live \cup in) \ out

\* stamp_datoms.
Stamped(tx, changes) ==
    {[triple |-> changes[i].triple, tx |-> tx, op |-> changes[i].op] :
        i \in 1..Len(changes)}

\* The definitions that a transaction carries for an attribute, asserted or
\* retracted.
Defining(changes, a) ==
    {v \in Values : \E i \in 1..Len(changes) : changes[i].triple = <<a, v>>}

\* evolve_schema: entities are visited in the order of a HashMap, so of two
\* that define one attribute either may be the last.
Evolved(schema, changes) ==
    {n \in [Attrs -> Values \cup {NoDef}] : \A a \in Attrs :
        IF Defining(changes, a) = {} THEN n[a] = schema[a]
        ELSE n[a] \in Defining(changes, a)}

\* The store after the datoms of a transaction, at its epoch.
Apply(s, epoch, tx, changes, schema) ==
    [datoms |-> s.datoms \cup Stamped(tx, changes),
     causal |-> AppliedCausal(s, tx, changes),
     live |-> AppliedLive(s, tx, changes),
     schema |-> schema,
     epoch |-> epoch]

-----------------------------------------------------------------------------
\* std::cmp::max of two events: by id, then by operation.
LaterEvent(x, y) ==
    IF x.tx > y.tx \/ (x.tx = y.tx /\ x.op >= y.op) THEN x ELSE y

\* merge_causal; an absent triple is below every event.
MergeCausal(a, b) ==
    [t \in Triples |-> IF a[t].tx = 0 THEN b[t]
                       ELSE IF b[t].tx = 0 THEN a[t] ELSE LaterEvent(a[t], b[t])]

\* A faulty merge of schemas: the first definition seen is kept.
FirstSchemas(a, b) == [x \in Attrs |-> IF a[x] = NoDef THEN b[x] ELSE a[x]]

\* merge_schemas: of two definitions the one that sorts first.
MergeSchemas(a, b) ==
    [x \in Attrs |-> IF a[x] = NoDef THEN b[x]
                     ELSE IF b[x] = NoDef THEN a[x]
                     ELSE IF b[x] < a[x] THEN b[x] ELSE a[x]]

Later(m, n) == IF m > n THEN m ELSE n

\* from_merge.
FromMerge(a, b) ==
    LET causal == MergeCausal(a.causal, b.causal)
    IN  [datoms |-> a.datoms \cup b.datoms, causal |-> causal,
         live |-> DeriveLive(causal), schema |-> MergeSchemas(a.schema, b.schema),
         epoch |-> Later(a.epoch, b.epoch)]

\* DatomFilter::matches: by attribute or entity, and by node.
Matches(f, d) == d.triple[1] \in f.keys /\ NodeOf[d.tx] \in f.nodes

\* A faulty selective merge: the remote schema is left behind.
SelectiveMergeOwn(a, b, f) ==
    LET datoms == a.datoms \cup {d \in b.datoms : Matches(f, d)}
    IN  [datoms |-> datoms, causal |-> BuildCausal(datoms),
         live |-> DeriveLive(BuildCausal(datoms)), schema |-> a.schema,
         epoch |-> Later(a.epoch, b.epoch)]

\* selective_merge: the datoms that match, but the whole remote schema; the
\* causal map is built anew.
SelectiveMerge(a, b, f) ==
    LET datoms == a.datoms \cup {d \in b.datoms : Matches(f, d)}
        causal == BuildCausal(datoms)
    IN  [datoms |-> datoms, causal |-> causal, live |-> DeriveLive(causal),
         schema |-> MergeSchemas(a.schema, b.schema),
         epoch |-> Later(a.epoch, b.epoch)]

-----------------------------------------------------------------------------
Init ==
    /\ store = [r \in Replicas |-> EmptyStore]
    /\ saved = [r \in Replicas |-> CheckpointOf(EmptyStore)]
    /\ log = [r \in Replicas |-> << >>]
    /\ todo = [r \in Replicas |-> << >>]
    /\ acked = [r \in Replicas |-> CheckpointOf(EmptyStore)]
    /\ used = {}

Open(r) == todo[r] = << >>

\* validate_datoms: every attribute is in the schema.
Valid(schema, changes) ==
    \A i \in 1..Len(changes) :
        changes[i].triple[1] \in DataKeys =>
            schema[AttrOf[changes[i].triple[1]]] # NoDef

\* Transaction::commit and Database::transact: the store's clone is changed,
\* the log entry written, the clone published.  A clock may be behind ids
\* that came with a merge, and a reopened one behind its own: any unused id.
Transact(r) ==
    /\ Open(r)
    /\ \E tx \in TxIds \ used, changes \in Payloads :
         /\ NodeOf[tx] = r
         /\ changes # << >>
         /\ Valid(store[r].schema, changes)
         /\ \E schema \in Evolved(store[r].schema, changes) :
              LET new == Apply(store[r], store[r].epoch + 1, tx, changes, schema)
              IN  /\ store' = [store EXCEPT ![r] = new]
                  /\ acked' = [acked EXCEPT ![r] = CheckpointOf(new)]
         /\ log' = [log EXCEPT ![r] =
                      Append(@, [epoch |-> store[r].epoch + 1, tx |-> tx,
                                 changes |-> changes])]
         /\ used' = used \cup {tx}
    /\ UNCHANGED <<saved, todo>>

\* The caller merges stores, saves the result and opens a database over it
\* with a new log (write_checkpoint, from_store_with_wal).
Install(r, new) ==
    /\ store' = [store EXCEPT ![r] = new]
    /\ acked' = [acked EXCEPT ![r] = CheckpointOf(new)]
    /\ saved' = [saved EXCEPT ![r] = CheckpointOf(new)]
    /\ log' = [log EXCEPT ![r] = << >>]
    /\ UNCHANGED <<todo, used>>

Merge(r, s) ==
    /\ r # s /\ Open(r) /\ Open(s)
    /\ Install(r, FromMerge(store[r], store[s]))

MergeSome(r, s) ==
    /\ r # s /\ Open(r) /\ Open(s)
    /\ \E f \in Filters : Install(r, SelectiveMerge(store[r], store[s], f))

\* write_checkpoint of the open store; the log is kept.
Checkpoint(r) ==
    /\ Open(r)
    /\ saved' = [saved EXCEPT ![r] = CheckpointOf(store[r])]
    /\ UNCHANGED <<store, log, todo, acked, used>>

\* A crash at any time, also during recovery, and the start of
\* Database::recover: load the checkpoint, read the log.
Recover(r) ==
    /\ store' = [store EXCEPT ![r] = FromCheckpoint(saved[r])]
    /\ todo' = [todo EXCEPT ![r] = log[r]]
    /\ UNCHANGED <<saved, log, acked, used>>

\* An entry at or before the epoch of the checkpoint is passed over.
SkipEntry(r) ==
    /\ todo[r] # << >>
    /\ Head(todo[r]).epoch <= saved[r].epoch
    /\ todo' = [todo EXCEPT ![r] = Tail(@)]
    /\ UNCHANGED <<store, saved, log, acked, used>>

\* A faulty replay_entry: the schema is not evolved.
ReplayDatoms(r) ==
    /\ todo[r] # << >>
    /\ Head(todo[r]).epoch > saved[r].epoch
    /\ LET e == Head(todo[r])
       IN  store' = [store EXCEPT ![r] =
                       Apply(store[r], e.epoch, e.tx, e.changes, store[r].schema)]
    /\ todo' = [todo EXCEPT ![r] = Tail(@)]
    /\ UNCHANGED <<saved, log, acked, used>>

\* replay_entry: insert the datoms, set the epoch, evolve the schema.
ReplayEntry(r) ==
    /\ todo[r] # << >>
    /\ Head(todo[r]).epoch > saved[r].epoch
    /\ LET e == Head(todo[r])
       IN  \E schema \in Evolved(store[r].schema, e.changes) :
             store' = [store EXCEPT ![r] =
                         Apply(store[r], e.epoch, e.tx, e.changes, schema)]
    /\ todo' = [todo EXCEPT ![r] = Tail(@)]
    /\ UNCHANGED <<saved, log, acked, used>>

Next ==
    \/ \E r \in Replicas : \/ Transact(r) \/ Checkpoint(r)
                           \/ Recover(r) \/ SkipEntry(r) \/ ReplayEntry(r)
    \/ \E r, s \in Replicas : Merge(r, s) \/ MergeSome(r, s)

Spec == Init /\ [][Next]_storeVars

-----------------------------------------------------------------------------
TypeOK ==
    /\ store \in [Replicas -> StoreType]
    /\ saved \in [Replicas -> CheckpointData]
    /\ log \in [Replicas -> Seq(Entry)]
    /\ todo \in [Replicas -> Seq(Entry)]
    /\ acked \in [Replicas -> CheckpointData]
    /\ used \subseteq TxIds

\* The causal map of every store, however it came about (live_apply datom by
\* datom, build_live_causal, merge_causal), holds for each triple an event
\* that the store's datoms contain and no later one exists: it is a function
\* of the datoms up to operations at one id.
ExactEvent(c, D, t) ==
    IF {d \in D : d.triple = t} = {} THEN c = Never
    ELSE /\ [triple |-> t, tx |-> c.tx, op |-> c.op] \in D
         /\ \A d \in D : d.triple = t => d.tx <= c.tx

CausalExact ==
    \A r \in Replicas : \A t \in Triples :
        ExactEvent(store[r].causal[t], store[r].datoms, t)

\* A triple that one transaction both asserts and retracts.
Tied(D, t) ==
    \E d, x \in D : d.triple = t /\ x.triple = t /\ d.tx = x.tx /\ d.op # x.op

\* Every reader sees the same facts: the live set (live_values) and the LIVE
\* bits of the sorted array (live_datoms) agree in every store on every triple
\* that no single transaction both asserted and retracted.  The bits depend on
\* the datoms alone, so replicas with the same datoms agree too, whatever the
\* order in which they committed, merged, crashed and recovered.
ViewsAgree ==
    \A r \in Replicas : \A t \in Triples :
        \/ Tied(store[r].datoms, t)
        \/ t \in store[r].live <=> t \in KernelLive(store[r].datoms)

\* No store holds a fact whose attribute its schema lacks, although merge
\* validates nothing, a filter may leave the defining datoms behind, and
\* recovery rebuilds the schema from a checkpoint and the log.
AttributesDefined ==
    \A r \in Replicas : \A d \in store[r].datoms :
        LET k == d.triple[1]
        IN  store[r].schema[IF k \in DataKeys THEN AttrOf[k] ELSE k] # NoDef

\* An attribute that one transaction of the log defines in two ways.
Ambiguous(r, a) ==
    \E i \in 1..Len(log[r]) : \E v, w \in Defining(log[r][i].changes, a) : v # w

\* Recovery brings back the store that was there: the same datoms and epoch,
\* and the same definition of every attribute that no logged transaction
\* defines twice, even when later transactions redefine it.
RecoveredExact ==
    \A r \in Replicas : Open(r) =>
        /\ store[r].datoms = acked[r].datoms
        /\ store[r].epoch = acked[r].epoch
        /\ \A a \in Attrs : \/ Ambiguous(r, a)
                            \/ store[r].schema[a] = acked[r].schema[a]

\* from_merge is commutative, and merging what is already there changes
\* nothing, on whole stores (datoms, causal map, live set, schema and epoch)
\* and not on datoms only.
MergeLaws ==
    \A r, s \in Replicas :
        LET merged == FromMerge(store[r], store[s])
        IN  /\ merged = FromMerge(store[s], store[r])
            /\ FromMerge(merged, store[s]) = merged
            /\ r = s => merged = store[r]
=============================================================================
