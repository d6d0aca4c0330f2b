----------------------------- MODULE StoreProofs -----------------------------
(***************************************************************************)
(* The three accounts of which facts hold agree, for all replicas, payloads *)
(* and filters.  The invariant says that every causal map holds a latest    *)
(* event of each triple and that every live set is its projection; the     *)
(* agreement with the sorted array and the laws of merge follow from it.   *)
(***************************************************************************)
EXTENDS Store, TLAPS, WellFoundedInduction

\* What a store's three accounts have to do with each other.
Sound(s) ==
    /\ s \in StoreType
    /\ \A t \in Triples : ExactEvent(s.causal[t], s.datoms, t)
    /\ s.live = DeriveLive(s.causal)

StoresSound == \A r \in Replicas : Sound(store[r])

StoreInv == TypeOK /\ StoresSound

\* A set of positions has a first one.
LEMMA FirstPosition ==
    ASSUME NEW T, T \subseteq Nat, T # {}
    PROVE  \E x \in T : \A y \in T : x <= y
<1> DEFINE R == {p \in Nat \X Nat : p[1] < p[2]}
<1>1. IsWellFoundedOn(R, Nat)
  BY NatLessThanWellFounded, Zenon DEF OpToRel
<1>2. \E x \in T : \A y \in T : ~ (<<y, x>> \in R)
  <2> HIDE DEF R
  <2> QED BY <1>1, WFMin, Zenon
<1>3. \A x, y \in Nat : y < x => <<y, x>> \in R
  BY Zenon
<1> HIDE DEF R
<1>4. PICK x \in T : \A y \in T : <<y, x>> \notin R
  BY <1>2, Zenon
<1>5. ASSUME NEW y \in T PROVE x <= y
  <2>1. <<y, x>> \notin R /\ x \in Nat /\ y \in Nat
    BY <1>4, Zenon
  <2>2. ~ (y < x)
    BY <1>3, <2>1, Zenon
  <2> QED BY <2>1, <2>2
<1> QED BY <1>4, <1>5, Zenon

\* live_apply takes the operation of one of the transaction's changes.
LEMMA FirstOpFound ==
    ASSUME NEW changes \in Seq(Change), NEW t, At(changes, t) # {}
    PROVE  \E i \in At(changes, t) : FirstOp(changes, t) = changes[i].op
<1>1. At(changes, t) \subseteq Nat
  BY DEF At
<1>2. \E i \in At(changes, t) : \A j \in At(changes, t) : i <= j
  BY <1>1, FirstPosition, Zenon
<1> QED BY <1>2, ZenonT(40) DEF FirstOp

\* Two datoms with the same fields are the same datom.
LEMMA DatomFields ==
    ASSUME NEW d \in Datom
    PROVE  /\ d = [triple |-> d.triple, tx |-> d.tx, op |-> d.op]
           /\ d.triple \in Triples /\ d.tx \in TxIds /\ d.op \in Ops
  BY Zenon DEF Datom

\* build_live_causal finds a latest event of every triple.
LEMMA LatestExact ==
    ASSUME NEW D, D \subseteq Datom, NEW t \in Triples
    PROVE  LatestEvent(D, t) \in Event /\ ExactEvent(LatestEvent(D, t), D, t)
<1> DEFINE E == {d \in D : d.triple = t}
           S == {d.tx : d \in E}
           IsLast(m) == (\E d \in E : d.tx = m) /\ (\A d \in E : d.tx <= m)
           m == CHOOSE n \in TxIds : IsLast(n)
           op == IF \E d \in E : d.tx = m /\ d.op = Assert THEN Assert ELSE Retract
<1>1. CASE E = {}
  BY <1>1, Zenon DEF LatestEvent, ExactEvent, Event, Never, Ops
<1>2. CASE E # {}
  <2>1. S \in SUBSET TxIds /\ S # {}
    BY <1>2, DatomFields, Zenon
  <2>2. \E n \in S : \A k \in S : k <= n
    BY <2>1, LatestAssumption, ZenonT(40)
  <2>3. \E n \in TxIds : IsLast(n)
    BY <2>1, <2>2, Zenon
  <2>4. m \in TxIds /\ IsLast(m)
    BY <2>3, Zenon
  <2>5. LatestEvent(D, t) = [tx |-> m, op |-> op]
    BY <1>2, Zenon DEF LatestEvent
  <2>6. op \in Ops
    BY Zenon DEF Ops
  <2>7. PICK d \in E : d.tx = m /\ d.op = op
    <3>1. CASE \E d \in E : d.tx = m /\ d.op = Assert
      BY <3>1, Zenon
    <3>2. CASE ~ \E d \in E : d.tx = m /\ d.op = Assert
      <4>1. PICK d \in E : d.tx = m
        BY <2>4, Zenon
      <4>2. d.op \in {Assert, Retract}
        BY DatomFields, Zenon DEF Ops
      <4> QED BY <3>2, <4>1, <4>2, Zenon
    <3> QED BY <3>1, <3>2, Zenon
  <2>8. d = [triple |-> t, tx |-> m, op |-> op]
    BY <2>7, DatomFields, Zenon
  <2>9. [triple |-> t, tx |-> m, op |-> op] \in D
    BY <2>8, Zenon
  <2> HIDE DEF m, op
  <2>10. LatestEvent(D, t) \in Event
    BY <2>4, <2>5, <2>6 DEF Event
  <2>11. \A x \in D : x.triple = t => x.tx <= m
    BY <2>4, Zenon
  <2> QED BY <1>2, <2>5, <2>9, <2>10, <2>11 DEF ExactEvent
<1> QED BY <1>1, <1>2, Zenon

\* A store loaded from a checkpoint is sound (from_checkpoint).
LEMMA LoadedSound ==
    ASSUME NEW c \in CheckpointData
    PROVE  Sound(FromCheckpoint(c))
<1> DEFINE s == FromCheckpoint(c)
<1>1. c.datoms \subseteq Datom
  BY Zenon DEF CheckpointData
<1>2. \A t \in Triples : LatestEvent(c.datoms, t) \in Event
                         /\ ExactEvent(LatestEvent(c.datoms, t), c.datoms, t)
  BY <1>1, LatestExact, Zenon
<1>3. /\ BuildCausal(c.datoms) \in [Triples -> Event]
      /\ \A t \in Triples : BuildCausal(c.datoms)[t] = LatestEvent(c.datoms, t)
  BY <1>2, Zenon DEF BuildCausal
<1>4. DeriveLive(BuildCausal(c.datoms)) \subseteq Triples
  BY Zenon DEF DeriveLive
<1> QED BY <1>2, <1>3, <1>4, Zenon DEF Sound, FromCheckpoint, StoreType, CheckpointData

\* A replica starts with a sound store (Store::genesis).
LEMMA EmptySound == Sound(EmptyStore)
<1>1. EmptyStore \in StoreType
  BY StoreAssumption, Zenon DEF EmptyStore, StoreType, Event, Never, Ops
<1>2. \A t \in Triples : EmptyStore.causal[t] = Never
  BY Zenon DEF EmptyStore
<1>3. EmptyStore.live = DeriveLive(EmptyStore.causal)
  BY <1>2, Zenon DEF EmptyStore, DeriveLive, Never
<1> QED BY <1>1, <1>2, <1>3, Zenon DEF Sound, ExactEvent, EmptyStore

\* A checkpoint of a store (extract_checkpoint_data).
LEMMA CheckpointTyped ==
    ASSUME NEW s \in StoreType
    PROVE  CheckpointOf(s) \in CheckpointData
  BY Zenon DEF CheckpointOf, CheckpointData, StoreType

\* The datoms that a transaction stamps (stamp_datoms).
LEMMA StampedDatoms ==
    ASSUME NEW tx \in TxIds, NEW changes \in Seq(Change)
    PROVE  /\ Stamped(tx, changes) \subseteq Datom
           /\ \A t \in Triples : \A d \in Stamped(tx, changes) :
                 d.tx = tx /\ (d.triple = t => At(changes, t) # {})
           /\ \A t \in Triples : \A i \in At(changes, t) :
                 [triple |-> t, tx |-> tx, op |-> changes[i].op] \in Stamped(tx, changes)
<1>1. \A i \in 1..Len(changes) : changes[i] \in Change
  OBVIOUS
<1>2. Stamped(tx, changes) \subseteq Datom
  BY <1>1 DEF Stamped, Datom, Change
<1>3. \A t \in Triples : \A d \in Stamped(tx, changes) :
         d.tx = tx /\ (d.triple = t => At(changes, t) # {})
  BY DEF Stamped, At
<1>4. \A t \in Triples : \A i \in At(changes, t) :
         [triple |-> t, tx |-> tx, op |-> changes[i].op] \in Stamped(tx, changes)
  BY Zenon DEF Stamped, At
<1> QED BY <1>2, <1>3, <1>4, Zenon

\* Applying a transaction, committed or replayed, keeps a store sound
\* (live_apply on every datom).
LEMMA ApplySound ==
    ASSUME NEW s, Sound(s), NEW epoch \in Nat, NEW tx \in TxIds,
           NEW changes \in Seq(Change), NEW schema \in [Attrs -> Values \cup {NoDef}]
    PROVE  Sound(Apply(s, epoch, tx, changes, schema))
<1> DEFINE D == s.datoms \cup Stamped(tx, changes)
           c == AppliedCausal(s, tx, changes)
           l == AppliedLive(s, tx, changes)
<1>0. /\ s.datoms \subseteq Datom /\ s.causal \in [Triples -> Event]
      /\ s.live \subseteq Triples /\ s.live = DeriveLive(s.causal)
      /\ TxIds \subseteq Nat \ {0}
  BY StoreAssumption, Zenon DEF Sound, StoreType
<1>1. D \subseteq Datom
  BY <1>0, StampedDatoms, Zenon
<1>2. \A t \in Triples : At(changes, t) # {} =>
         /\ [triple |-> t, tx |-> tx, op |-> FirstOp(changes, t)] \in D
         /\ FirstOp(changes, t) \in Ops
  <2> SUFFICES ASSUME NEW t \in Triples, At(changes, t) # {}
               PROVE  /\ [triple |-> t, tx |-> tx, op |-> FirstOp(changes, t)] \in D
                      /\ FirstOp(changes, t) \in Ops
    BY Zenon
  <2>1. PICK i \in At(changes, t) : FirstOp(changes, t) = changes[i].op
    BY FirstOpFound, Zenon
  <2>2. changes[i] \in Change
    BY DEF At
  <2> QED BY <2>1, <2>2, StampedDatoms, ZenonT(40) DEF Change
<1>3. \A t \in Triples :
         c[t] = IF Applies(s, tx, changes, t)
                THEN [tx |-> tx, op |-> FirstOp(changes, t)] ELSE s.causal[t]
  BY Zenon DEF AppliedCausal
<1>4. c \in [Triples -> Event]
  <2>1. \A t \in Triples : Applies(s, tx, changes, t) =>
           [tx |-> tx, op |-> FirstOp(changes, t)] \in Event
    BY <1>2, ZenonT(40) DEF Event, Applies
  <2> QED BY <2>1, <1>0, Zenon DEF AppliedCausal
<1>5. ASSUME NEW t \in Triples
      PROVE  ExactEvent(c[t], D, t)
  <2>0. ExactEvent(s.causal[t], s.datoms, t) /\ s.causal[t] \in Event
    BY <1>0, Zenon DEF Sound
  <2>1. \A d \in Stamped(tx, changes) :
           d.tx = tx /\ (d.triple = t => At(changes, t) # {})
    BY StampedDatoms, Zenon
  <2>2. CASE Applies(s, tx, changes, t)
    <3>1. c[t].tx = tx /\ [triple |-> t, tx |-> c[t].tx, op |-> c[t].op] \in D
      <4>1. c[t] = [tx |-> tx, op |-> FirstOp(changes, t)]
        BY <1>3, <2>2, Zenon
      <4>2. [triple |-> t, tx |-> tx, op |-> FirstOp(changes, t)] \in D
        BY <1>2, <2>2, Zenon DEF Applies
      <4> HIDE DEF c, D
      <4> QED BY <4>1, <4>2
    <3>2. \A d \in s.datoms : d.triple = t => d.tx <= tx
      <4> SUFFICES ASSUME NEW d \in s.datoms, d.triple = t PROVE d.tx <= tx
        BY Zenon
      <4>1. d.tx <= s.causal[t].tx
        BY <2>0, Zenon DEF ExactEvent
      <4>2. tx > s.causal[t].tx
        BY <2>2, Zenon DEF Applies
      <4>3. d.tx \in Nat /\ tx \in Nat /\ s.causal[t].tx \in Nat
        BY <1>0, <2>0, DatomFields DEF Event
      <4> QED BY <4>1, <4>2, <4>3
    <3>3. \A d \in D : d.triple = t => d.tx <= c[t].tx
      BY <1>0, <2>1, <3>1, <3>2
    <3>4. {d \in D : d.triple = t} # {}
      BY <3>1
    <3> HIDE DEF c, D
    <3> QED BY <3>1, <3>3, <3>4, Zenon DEF ExactEvent
  <2>3. CASE ~ Applies(s, tx, changes, t)
    <3>1. c[t] = s.causal[t]
      BY <1>3, <2>3, ZenonT(40)
    <3>2. CASE At(changes, t) = {}
      <4>1. \A d \in D : d.triple = t => d \in s.datoms
        BY <2>1, <3>2, Zenon
      <4>2. s.datoms \subseteq D
        BY Zenon
      <4> HIDE DEF c, D
      <4> QED BY <2>0, <3>1, <4>1, <4>2, Zenon DEF ExactEvent
    <3>3. CASE At(changes, t) # {}
      <4>1. tx <= s.causal[t].tx /\ tx # 0 /\ s.causal[t].tx # 0
        BY <1>0, <2>0, <2>3, <3>3 DEF Applies, Event
      <4>2. {d \in s.datoms : d.triple = t} # {}
        BY <2>0, <4>1 DEF ExactEvent, Never
      <4>3. [triple |-> t, tx |-> c[t].tx, op |-> c[t].op] \in D
        BY <2>0, <3>1, <4>2, Zenon DEF ExactEvent
      <4>4. \A d \in D : d.triple = t => d.tx <= c[t].tx
        BY <2>0, <2>1, <3>1, <4>1, <4>2, Zenon DEF ExactEvent
      <4>5. {d \in D : d.triple = t} # {}
        BY <4>3
      <4> HIDE DEF c, D
      <4> QED BY <4>3, <4>4, <4>5, Zenon DEF ExactEvent
    <3> QED BY <3>2, <3>3, Zenon
  <2> QED BY <2>2, <2>3, Zenon
<1>6. l = DeriveLive(c) /\ l \subseteq Triples
  <2>1. \A t \in Triples : Applies(s, tx, changes, t) =>
           FirstOp(changes, t) \in {Assert, Retract}
    BY <1>2, ZenonT(40) DEF Applies, Ops
  <2>2. \A t \in Triples : t \in s.live <=> (s.causal[t].tx # 0 /\ s.causal[t].op = Assert)
    BY <1>0, Zenon DEF DeriveLive
  <2>3. Assert # Retract /\ tx # 0
    BY <1>0 DEF Assert, Retract
  <2>4. \A t \in Triples : t \in l <=> (c[t].tx # 0 /\ c[t].op = Assert)
    <3> SUFFICES ASSUME NEW t \in Triples
                 PROVE  t \in l <=> (c[t].tx # 0 /\ c[t].op = Assert)
      BY Zenon
    <3>1. CASE Applies(s, tx, changes, t)
      <4>1. c[t].tx = tx /\ c[t].op = FirstOp(changes, t)
        <5>1. c[t] = [tx |-> tx, op |-> FirstOp(changes, t)]
          BY <1>3, <3>1, Zenon
        <5> HIDE DEF c
        <5> QED BY <5>1
      <4>2. t \in l <=> FirstOp(changes, t) = Assert
        <5>1. CASE FirstOp(changes, t) = Assert
          <6>1. t \notin s.live =>
                   ~ (s.causal[t].tx # 0 /\ s.causal[t].op = Assert)
            BY <2>2, Zenon
          <6> QED BY <2>3, <3>1, <5>1, <6>1, Zenon DEF AppliedLive
        <5>2. CASE FirstOp(changes, t) = Retract
          <6>1. t \in s.live => s.causal[t].tx # 0 /\ s.causal[t].op = Assert
            BY <2>2, Zenon
          <6> QED BY <2>3, <3>1, <5>2, <6>1, Zenon DEF AppliedLive
        <5> QED BY <2>1, <3>1, <5>1, <5>2, Zenon
      <4> HIDE DEF l, c
      <4> QED BY <2>3, <4>1, <4>2, Zenon
    <3>2. CASE ~ Applies(s, tx, changes, t)
      <4>1. c[t] = s.causal[t]
        BY <1>3, <3>2, ZenonT(40)
      <4>2. t \in l <=> t \in s.live
        BY <3>2, Zenon DEF AppliedLive
      <4> HIDE DEF l, c
      <4> QED BY <2>2, <4>1, <4>2, Zenon
    <3> QED BY <3>1, <3>2, Zenon
  <2>5. l \subseteq Triples
    BY <1>0, Zenon DEF AppliedLive
  <2> HIDE DEF l, c
  <2> QED BY <2>4, <2>5, Zenon DEF DeriveLive
<1> HIDE DEF D, c, l
<1>7. Apply(s, epoch, tx, changes, schema) =
         [datoms |-> D, causal |-> c, live |-> l, schema |-> schema, epoch |-> epoch]
  BY Zenon DEF Apply, D, c, l
<1> QED BY <1>1, <1>4, <1>5, <1>6, <1>7 DEF Sound, StoreType

\* Of two exact events of a triple the later is exact for the union of the
\* datoms (merge_causal against build_live_causal).
LEMMA MergedExact ==
    ASSUME NEW a, Sound(a), NEW b, Sound(b), NEW t \in Triples
    PROVE  /\ MergeCausal(a.causal, b.causal)[t] \in Event
           /\ ExactEvent(MergeCausal(a.causal, b.causal)[t], a.datoms \cup b.datoms, t)
<1> DEFINE x == a.causal[t]
           y == b.causal[t]
           z == MergeCausal(a.causal, b.causal)[t]
           D == a.datoms \cup b.datoms
<1>1. /\ x \in Event /\ ExactEvent(x, a.datoms, t)
      /\ y \in Event /\ ExactEvent(y, b.datoms, t)
  BY Zenon DEF Sound, StoreType
<1>2. z = IF x.tx = 0 THEN y ELSE IF y.tx = 0 THEN x ELSE LaterEvent(x, y)
  BY Zenon DEF MergeCausal
<1>3. TxIds \subseteq Nat \ {0}
  BY StoreAssumption, Zenon
<1>4. x.tx \in Nat /\ y.tx \in Nat
  <2> HIDE DEF x, y
  <2>1. x.tx \in TxIds \cup {0} /\ y.tx \in TxIds \cup {0}
    BY <1>1, Zenon DEF Event
  <2>2. \A v \in TxIds \cup {0} : v \in Nat
    BY <1>3
  <2> QED BY <2>1, <2>2, Zenon
<1>5. /\ \A d \in a.datoms : d.tx \in Nat \ {0}
      /\ \A d \in b.datoms : d.tx \in Nat \ {0}
  BY <1>3, DatomFields, Zenon DEF Sound, StoreType
<1> HIDE DEF x, y, z
<1>6. /\ x.tx = 0 => {d \in a.datoms : d.triple = t} = {} /\ x = Never
      /\ y.tx = 0 => {d \in b.datoms : d.triple = t} = {} /\ y = Never
  <2>1. ASSUME x.tx = 0
        PROVE  {d \in a.datoms : d.triple = t} = {} /\ x = Never
    <3>1. [triple |-> t, tx |-> x.tx, op |-> x.op] \notin a.datoms
      <4>1. [triple |-> t, tx |-> x.tx, op |-> x.op].tx = 0
        BY <2>1, Zenon
      <4> QED BY <1>5, <4>1, Zenon
    <3> QED BY <1>1, <3>1, Zenon DEF ExactEvent
  <2>2. ASSUME y.tx = 0
        PROVE  {d \in b.datoms : d.triple = t} = {} /\ y = Never
    <3>1. [triple |-> t, tx |-> y.tx, op |-> y.op] \notin b.datoms
      <4>1. [triple |-> t, tx |-> y.tx, op |-> y.op].tx = 0
        BY <2>2, Zenon
      <4> QED BY <1>5, <4>1, Zenon
    <3> QED BY <1>1, <3>1, Zenon DEF ExactEvent
  <2> QED BY <2>1, <2>2, Zenon
<1>7. CASE x.tx = 0
  <2>1. {d \in D : d.triple = t} = {d \in b.datoms : d.triple = t}
    BY <1>6, <1>7, Zenon
  <2>2. b.datoms \subseteq D /\ z = y
    BY <1>2, <1>7, Zenon
  <2>3. \A d \in D : d.triple = t => d \in b.datoms
    BY <2>1, Zenon
  <2> HIDE DEF D
  <2> QED BY <1>1, <2>1, <2>2, <2>3, Zenon DEF ExactEvent, D, x, y, z
<1>8. CASE x.tx # 0 /\ y.tx = 0
  <2>1. {d \in D : d.triple = t} = {d \in a.datoms : d.triple = t}
    BY <1>6, <1>8, Zenon
  <2>2. a.datoms \subseteq D /\ z = x
    BY <1>2, <1>8, Zenon
  <2>3. \A d \in D : d.triple = t => d \in a.datoms
    BY <2>1, Zenon
  <2> HIDE DEF D
  <2> QED BY <1>1, <2>1, <2>2, <2>3, Zenon DEF ExactEvent, D, x, y, z
<1>9. CASE x.tx # 0 /\ y.tx # 0
  <2>1. z = LaterEvent(x, y)
    BY <1>2, <1>9, Zenon
  <2>2. z \in {x, y} /\ x.tx <= z.tx /\ y.tx <= z.tx
    BY <1>4, <2>1 DEF LaterEvent
  <2>3. /\ [triple |-> t, tx |-> x.tx, op |-> x.op] \in a.datoms
        /\ [triple |-> t, tx |-> y.tx, op |-> y.op] \in b.datoms
        /\ \A d \in a.datoms : d.triple = t => d.tx <= x.tx
        /\ \A d \in b.datoms : d.triple = t => d.tx <= y.tx
    BY <1>1, <1>9 DEF ExactEvent, Never
  <2>4. [triple |-> t, tx |-> z.tx, op |-> z.op] \in D
    BY <2>2, <2>3, Zenon
  <2>5. \A d \in D : d.triple = t => d.tx <= z.tx
    <3> SUFFICES ASSUME NEW d \in D, d.triple = t PROVE d.tx <= z.tx
      BY Zenon
    <3>1. d.tx \in Nat /\ z.tx \in Nat
      BY <1>4, <1>5, <2>2, Zenon
    <3>2. d.tx <= x.tx \/ d.tx <= y.tx
      BY <2>3, Zenon
    <3> QED BY <1>4, <2>2, <3>1, <3>2
  <2>6. {d \in D : d.triple = t} # {}
    BY <2>4
  <2> HIDE DEF D
  <2>7. ExactEvent(z, D, t)
    BY <2>4, <2>5, <2>6, Zenon DEF ExactEvent
  <2> QED BY <1>1, <2>2, <2>7, Zenon DEF D, x, y, z
<1> QED BY <1>7, <1>8, <1>9, Zenon

\* Of two schemas a definition of each attribute (merge_schemas).
LEMMA SchemasTyped ==
    ASSUME NEW a \in [Attrs -> Values \cup {NoDef}],
           NEW b \in [Attrs -> Values \cup {NoDef}]
    PROVE  MergeSchemas(a, b) \in [Attrs -> Values \cup {NoDef}]
  BY Zenon DEF MergeSchemas

\* A merge of sound stores is sound (from_merge).
LEMMA MergeSound ==
    ASSUME NEW a, Sound(a), NEW b, Sound(b)
    PROVE  Sound(FromMerge(a, b))
<1> DEFINE c == MergeCausal(a.causal, b.causal)
           D == a.datoms \cup b.datoms
           m == MergeSchemas(a.schema, b.schema)
           e == Later(a.epoch, b.epoch)
<1>1. c \in [Triples -> Event] /\ \A t \in Triples : ExactEvent(c[t], D, t)
  <2>1. \A t \in Triples : c[t] \in Event /\ ExactEvent(c[t], D, t)
    BY MergedExact, Zenon
  <2>2. c = [t \in Triples |-> c[t]]
    BY Zenon DEF MergeCausal
  <2> HIDE DEF c, D
  <2> QED BY <2>1, <2>2, Zenon
<1>2. D \subseteq Datom
  BY Zenon DEF Sound, StoreType
<1>3. m \in [Attrs -> Values \cup {NoDef}]
  BY SchemasTyped, Zenon DEF Sound, StoreType
<1>4. e \in Nat
  BY Zenon DEF Sound, StoreType, Later
<1>5. FromMerge(a, b) = [datoms |-> D, causal |-> c, live |-> DeriveLive(c),
                         schema |-> m, epoch |-> e]
  BY Zenon DEF FromMerge
<1>6. DeriveLive(c) \subseteq Triples
  BY Zenon DEF DeriveLive
<1> HIDE DEF c, D, m, e
<1> QED BY <1>1, <1>2, <1>3, <1>4, <1>5, <1>6 DEF Sound, StoreType

\* A selective merge of sound stores is sound (selective_merge).
LEMMA SelectiveSound ==
    ASSUME NEW a, Sound(a), NEW b, Sound(b), NEW f
    PROVE  Sound(SelectiveMerge(a, b, f))
<1> DEFINE D == a.datoms \cup {d \in b.datoms : Matches(f, d)}
           m == MergeSchemas(a.schema, b.schema)
           e == Later(a.epoch, b.epoch)
           c == [datoms |-> D, schema |-> m, epoch |-> e]
<1>1. D \subseteq Datom /\ m \in [Attrs -> Values \cup {NoDef}] /\ e \in Nat
  BY SchemasTyped, Zenon DEF Sound, StoreType, Later
<1>2. SelectiveMerge(a, b, f) =
         [datoms |-> D, causal |-> BuildCausal(D), live |-> DeriveLive(BuildCausal(D)),
          schema |-> m, epoch |-> e]
  BY Zenon DEF SelectiveMerge
<1> HIDE DEF D, m, e
<1>3. c \in CheckpointData
  BY <1>1, Zenon DEF CheckpointData
<1>4. FromCheckpoint(c) = SelectiveMerge(a, b, f)
  BY <1>2, Zenon DEF FromCheckpoint
<1> QED BY <1>3, <1>4, LoadedSound, Zenon

\* evolve_schema yields a schema.
LEMMA EvolvedTyped ==
    \A schema, changes : Evolved(schema, changes) \subseteq [Attrs -> Values \cup {NoDef}]
  BY Zenon DEF Evolved

\* The initial stores.
LEMMA StoreInit == Init => StoreInv
<1> SUFFICES ASSUME Init PROVE StoreInv
  BY Zenon
<1>1. Sound(EmptyStore) /\ EmptyStore \in StoreType
  BY EmptySound, Zenon DEF Sound
<1>2. CheckpointOf(EmptyStore) \in CheckpointData
  BY <1>1, CheckpointTyped, Zenon
<1>3. TypeOK
  BY <1>1, <1>2 DEF Init, TypeOK
<1>4. StoresSound
  BY <1>1, ZenonT(40) DEF Init, StoresSound
<1> QED BY <1>3, <1>4, Zenon DEF StoreInv

\* A caller that installs a sound store (write_checkpoint, from_store_with_wal).
LEMMA InstallStep ==
    ASSUME StoreInv, NEW r \in Replicas, NEW new, Sound(new), Install(r, new)
    PROVE  StoreInv'
<1>1. new \in StoreType /\ CheckpointOf(new) \in CheckpointData
  BY CheckpointTyped, Zenon DEF Sound
<1>2. TypeOK'
  BY <1>1 DEF StoreInv, TypeOK, Install
<1>3. StoresSound'
  BY Zenon DEF StoreInv, TypeOK, StoresSound, Install
<1> QED BY <1>2, <1>3, Zenon DEF StoreInv

\* Every step keeps every store sound.
LEMMA StoreStep == StoreInv /\ [Next]_storeVars => StoreInv'
<1> SUFFICES ASSUME StoreInv, [Next]_storeVars PROVE StoreInv'
  BY Zenon
<1> USE DEF StoreInv
<1>1. ASSUME NEW r \in Replicas, Transact(r)
      PROVE  StoreInv'
  <2>1. PICK tx \in TxIds \ used, changes \in Payloads :
          /\ \E schema \in Evolved(store[r].schema, changes) :
               LET new == Apply(store[r], store[r].epoch + 1, tx, changes, schema)
               IN  /\ store' = [store EXCEPT ![r] = new]
                   /\ acked' = [acked EXCEPT ![r] = CheckpointOf(new)]
          /\ log' = [log EXCEPT ![r] =
                       Append(@, [epoch |-> store[r].epoch + 1, tx |-> tx,
                                  changes |-> changes])]
          /\ used' = used \cup {tx}
    BY <1>1, ZenonT(40) DEF Transact
  <2>2. PICK schema \in Evolved(store[r].schema, changes) :
          LET new == Apply(store[r], store[r].epoch + 1, tx, changes, schema)
          IN  /\ store' = [store EXCEPT ![r] = new]
              /\ acked' = [acked EXCEPT ![r] = CheckpointOf(new)]
    BY <2>1, ZenonT(40)
  <2> DEFINE new == Apply(store[r], store[r].epoch + 1, tx, changes, schema)
             entry == [epoch |-> store[r].epoch + 1, tx |-> tx, changes |-> changes]
  <2>3. store[r].epoch + 1 \in Nat /\ changes \in Seq(Change)
    BY StoreAssumption DEF TypeOK, StoreType
  <2>4. schema \in [Attrs -> Values \cup {NoDef}]
    BY EvolvedTyped, Zenon
  <2>5. Sound(store[r])
    BY Zenon DEF StoresSound
  <2>6. Sound(new)
    BY <2>3, <2>4, <2>5, ApplySound, Zenon
  <2>7. entry \in Entry
    BY <2>3, Zenon DEF Entry
  <2>8. /\ store' = [store EXCEPT ![r] = new]
        /\ acked' = [acked EXCEPT ![r] = CheckpointOf(new)]
        /\ log' = [log EXCEPT ![r] = Append(@, entry)]
        /\ used' = used \cup {tx}
        /\ UNCHANGED <<saved, todo>>
    BY <1>1, <2>1, <2>2, ZenonT(40) DEF Transact
  <2> HIDE DEF new, entry
  <2>9. new \in StoreType /\ CheckpointOf(new) \in CheckpointData
    BY <2>6, CheckpointTyped, Zenon DEF Sound
  <2>10. TypeOK'
    BY <2>7, <2>8, <2>9 DEF TypeOK
  <2>11. StoresSound'
    BY <2>6, <2>8, Zenon DEF TypeOK, StoresSound
  <2> QED BY <2>10, <2>11, Zenon
<1>2. ASSUME NEW r \in Replicas, Checkpoint(r)
      PROVE  StoreInv'
  <2>1. CheckpointOf(store[r]) \in CheckpointData
    BY CheckpointTyped, Zenon DEF TypeOK
  <2> QED BY <1>2, <2>1, Zenon DEF Checkpoint, TypeOK, StoresSound
<1>3. ASSUME NEW r \in Replicas, Recover(r)
      PROVE  StoreInv'
  <2>1. Sound(FromCheckpoint(saved[r]))
    BY LoadedSound, Zenon DEF TypeOK
  <2>2. FromCheckpoint(saved[r]) \in StoreType
    BY <2>1, Zenon DEF Sound
  <2>3. TypeOK'
    BY <1>3, <2>2, Zenon DEF Recover, TypeOK
  <2>4. StoresSound'
    BY <1>3, <2>1, Zenon DEF Recover, TypeOK, StoresSound
  <2> QED BY <2>3, <2>4, Zenon
<1>4. ASSUME NEW r \in Replicas, ReplayEntry(r)
      PROVE  StoreInv'
  <2> DEFINE e == Head(todo[r])
  <2>1. e \in Entry /\ Tail(todo[r]) \in Seq(Entry)
    BY <1>4 DEF ReplayEntry, TypeOK
  <2>2. PICK schema \in Evolved(store[r].schema, e.changes) :
          store' = [store EXCEPT ![r] =
                      Apply(store[r], e.epoch, e.tx, e.changes, schema)]
    BY <1>4, ZenonT(40) DEF ReplayEntry
  <2>3. schema \in [Attrs -> Values \cup {NoDef}]
    BY EvolvedTyped, Zenon
  <2> DEFINE new == Apply(store[r], e.epoch, e.tx, e.changes, schema)
  <2>4. /\ store' = [store EXCEPT ![r] = new]
        /\ todo' = [todo EXCEPT ![r] = Tail(@)]
        /\ UNCHANGED <<saved, log, acked, used>>
    BY <1>4, <2>2, ZenonT(40) DEF ReplayEntry
  <2>5. Sound(new)
    <3>1. e.epoch \in Nat /\ e.tx \in TxIds /\ e.changes \in Seq(Change)
      <4> HIDE DEF e
      <4> QED BY <2>1, Zenon DEF Entry
    <3>2. Sound(store[r])
      BY Zenon DEF StoresSound
    <3> HIDE DEF e
    <3> QED BY <2>3, <3>1, <3>2, ApplySound, Zenon
  <2> HIDE DEF new
  <2>6. new \in StoreType
    BY <2>5, Zenon DEF Sound
  <2>7. TypeOK'
    BY <2>1, <2>4, <2>6, Zenon DEF TypeOK
  <2>8. StoresSound'
    BY <2>4, <2>5, Zenon DEF TypeOK, StoresSound
  <2> QED BY <2>7, <2>8, Zenon
<1>5. ASSUME NEW r \in Replicas, NEW s \in Replicas, Merge(r, s)
      PROVE  StoreInv'
  <2>1. Sound(FromMerge(store[r], store[s]))
    BY MergeSound, Zenon DEF StoresSound
  <2> QED BY <1>5, <2>1, InstallStep, Zenon DEF Merge
<1>6. ASSUME NEW r \in Replicas, NEW s \in Replicas, MergeSome(r, s)
      PROVE  StoreInv'
  <2>1. PICK f \in Filters : Install(r, SelectiveMerge(store[r], store[s], f))
    BY <1>6, Zenon DEF MergeSome
  <2>2. Sound(SelectiveMerge(store[r], store[s], f))
    BY SelectiveSound, Zenon DEF StoresSound
  <2> QED BY <2>1, <2>2, InstallStep, Zenon
<1>7. ASSUME NEW r \in Replicas, SkipEntry(r)
      PROVE  StoreInv'
  <2>1. Tail(todo[r]) \in Seq(Entry)
    BY <1>7 DEF SkipEntry, TypeOK
  <2> QED BY <1>7, <2>1, Zenon DEF SkipEntry, TypeOK, StoresSound
<1>8. CASE UNCHANGED storeVars
  BY <1>8, Zenon DEF storeVars, TypeOK, StoresSound
<1> QED BY <1>1, <1>2, <1>3, <1>4, <1>5, <1>6, <1>7, <1>8, Zenon DEF Next

\* Every reachable store is sound.
LEMMA StoreInvariant == Spec => []StoreInv
<1>1. Init => StoreInv
  BY StoreInit, Zenon
<1>2. StoreInv /\ [Next]_storeVars => StoreInv'
  BY StoreStep, Zenon
<1> QED BY <1>1, <1>2, PTL DEF Spec

\* The variables keep their types through transact, merge, selective_merge,
\* checkpoints and recovery.
THEOREM StoreTypes == Spec => []TypeOK
<1>1. StoreInv => TypeOK
  BY Zenon DEF StoreInv
<1> QED BY <1>1, StoreInvariant, PTL

\* The causal map holds a latest event of every triple, whether live_apply,
\* build_live_causal or merge_causal made it.
THEOREM CausalMapsExact == Spec => []CausalExact
<1>1. StoreInv => CausalExact
  BY Zenon DEF StoreInv, StoresSound, Sound, CausalExact
<1> QED BY <1>1, StoreInvariant, PTL

\* In a sound store the live set and the bits of the sorted array agree on a
\* triple without a tie.
LEMMA SoundAgrees ==
    ASSUME NEW s, Sound(s), NEW t \in Triples, ~ Tied(s.datoms, t)
    PROVE  t \in s.live <=> t \in KernelLive(s.datoms)
<1> DEFINE D == s.datoms
           c == s.causal[t]
           last == [triple |-> t, tx |-> c.tx, op |-> c.op]
<1>1. D \subseteq Datom /\ c \in Event /\ ExactEvent(c, D, t)
  BY Zenon DEF Sound, StoreType
<1>2. t \in s.live <=> (c.tx # 0 /\ c.op = Assert)
  BY Zenon DEF Sound, DeriveLive
<1>3. t \in KernelLive(D) <=>
        \E d \in D : /\ d.triple = t /\ d.op = Assert
                    /\ \A x \in D : x.triple = t => x.tx < d.tx \/ x = d
  BY Zenon DEF KernelLive
<1>4. \A d, x \in D : d.triple = t /\ x.triple = t /\ d.tx = x.tx => d.op = x.op
  BY Zenon DEF Tied
<1>5. \A d \in D : /\ d = [triple |-> d.triple, tx |-> d.tx, op |-> d.op]
                   /\ d.tx \in Nat \ {0}
  BY <1>1, DatomFields, StoreAssumption, Zenon
<1> HIDE DEF D, c
<1>6. CASE {d \in D : d.triple = t} = {}
  <2>1. c = Never
    BY <1>1, <1>6, Zenon DEF ExactEvent
  <2>2. t \notin s.live
    BY <1>2, <2>1, Zenon DEF Never
  <2>3. t \notin KernelLive(D)
    BY <1>3, <1>6, Zenon
  <2> QED BY <2>2, <2>3, Zenon DEF D
<1>7. CASE {d \in D : d.triple = t} # {}
  <2>1. last \in D /\ \A d \in D : d.triple = t => d.tx <= c.tx
    BY <1>1, <1>7, Zenon DEF ExactEvent
  <2>2. last.triple = t /\ last.tx = c.tx /\ last.op = c.op
    BY Zenon
  <2>3. c.tx \in Nat \ {0}
    BY <1>5, <2>1, <2>2, Zenon
  <2> HIDE DEF last
  <2>4. ASSUME c.op = Assert
        PROVE  t \in KernelLive(D)
    <3>1. ASSUME NEW x \in D, x.triple = t
          PROVE  x.tx < last.tx \/ x = last
      <4>1. x.tx <= last.tx /\ x.tx \in Nat /\ last.tx \in Nat
        BY <1>5, <2>1, <2>2, <2>3, <3>1, Zenon
      <4>2. x.tx = last.tx => x.op = last.op
        BY <1>4, <2>1, <2>2, <3>1, Zenon
      <4>3. x.tx = last.tx => x = last
        BY <1>5, <2>1, <2>2, <3>1, <4>2, Zenon
      <4> QED BY <4>1, <4>3
    <3> QED BY <1>3, <2>1, <2>2, <2>4, <3>1, Zenon
  <2>5. ASSUME t \in KernelLive(D)
        PROVE  c.op = Assert
    <3>1. PICK d \in D : /\ d.triple = t /\ d.op = Assert
                         /\ \A x \in D : x.triple = t => x.tx < d.tx \/ x = d
      BY <1>3, <2>5, Zenon
    <3>2. last.tx < d.tx \/ last = d
      BY <2>1, <2>2, <3>1, Zenon
    <3>3. d.tx <= last.tx /\ d.tx \in Nat /\ last.tx \in Nat
      BY <1>5, <2>1, <2>2, <2>3, <3>1, Zenon
    <3> QED BY <2>2, <3>1, <3>2, <3>3
  <2> QED BY <1>2, <2>3, <2>4, <2>5, Zenon DEF D
<1> QED BY <1>6, <1>7, Zenon

\* live_values and live_datoms show the same facts in every reachable store,
\* apart from triples that one transaction asserts and retracts.
THEOREM ReadersAgree == Spec => []ViewsAgree
<1>1. StoreInv => ViewsAgree
  BY SoundAgrees, Zenon DEF StoreInv, StoresSound, ViewsAgree
<1> QED BY <1>1, StoreInvariant, PTL

\* The join of two events of a triple, as merge_causal takes it.
Join(x, y) == IF x.tx = 0 THEN y ELSE IF y.tx = 0 THEN x ELSE LaterEvent(x, y)

Canonical == {e \in Event : e.tx = 0 => e = Never}

\* The join is a semilattice on the events that stores hold.
LEMMA JoinLaws ==
    ASSUME NEW x \in Canonical, NEW y \in Canonical, NEW z \in Canonical
    PROVE  /\ Join(x, y) \in Canonical
           /\ Join(x, x) = x
           /\ Join(x, y) = Join(y, x)
           /\ Join(Join(x, y), z) = Join(x, Join(y, z))
<1>1. \A e \in Canonical : e.tx \in Nat /\ e.op \in {0, 1}
  <2>1. \A v \in TxIds \cup {0} : v \in Nat
    BY StoreAssumption
  <2> QED BY <2>1, Zenon DEF Canonical, Event, Ops, Assert, Retract
<1>2. Join(x, y) \in {x, y}
  BY Zenon DEF Join, LaterEvent
<1>3. ASSUME NEW e \in Canonical, NEW f \in Canonical,
             e.tx = f.tx /\ (e.tx = 0 \/ e.op = f.op)
      PROVE  e = f
  <2>1. CASE e.tx = 0
    <3>1. (e.tx = 0 => e = Never) /\ (f.tx = 0 => f = Never)
      BY Zenon DEF Canonical
    <3> QED BY <1>3, <2>1, <3>1, Zenon
  <2>2. CASE e.op = f.op
    <3>1. e \in Event /\ f \in Event
      BY Zenon DEF Canonical
    <3>2. e = [tx |-> e.tx, op |-> e.op]
      BY <3>1, Zenon DEF Event
    <3>3. f = [tx |-> f.tx, op |-> f.op]
      BY <3>1, Zenon DEF Event
    <3> QED BY <1>3, <2>2, <3>2, <3>3, Zenon
  <2> QED BY <1>3, <2>1, <2>2, Zenon
<1>n. /\ x.tx \in Nat /\ y.tx \in Nat /\ z.tx \in Nat
      /\ x.op \in {0, 1} /\ y.op \in {0, 1} /\ z.op \in {0, 1}
  BY <1>1, Zenon
<1>e. /\ x.tx = y.tx /\ (x.tx = 0 \/ x.op = y.op) => x = y
      /\ y.tx = z.tx /\ (y.tx = 0 \/ y.op = z.op) => y = z
      /\ x.tx = z.tx /\ (x.tx = 0 \/ x.op = z.op) => x = z
  BY <1>3, Zenon
<1>4. Join(x, x) = x
  BY Zenon DEF Join, LaterEvent
<1>5. Join(x, y) = Join(y, x)
  BY <1>n, <1>e DEF Join, LaterEvent
<1>6. Join(Join(x, y), z) = Join(x, Join(y, z))
  <2>1. CASE x.tx = 0 \/ y.tx = 0 \/ z.tx = 0
    BY <1>n, <1>e, <2>1, Zenon DEF Join, LaterEvent
  <2>2. CASE x.tx # 0 /\ y.tx # 0 /\ z.tx # 0
    <3>1. /\ LaterEvent(x, y).tx # 0 /\ LaterEvent(y, z).tx # 0
      BY <2>2, Zenon DEF LaterEvent
    <3>2. /\ Join(Join(x, y), z) = LaterEvent(LaterEvent(x, y), z)
          /\ Join(x, Join(y, z)) = LaterEvent(x, LaterEvent(y, z))
      BY <2>2, <3>1, Zenon DEF Join
    <3>3. LaterEvent(LaterEvent(x, y), z) = LaterEvent(x, LaterEvent(y, z))
      BY <1>n, <1>e DEF LaterEvent
    <3> QED BY <3>2, <3>3, Zenon
  <2> QED BY <2>1, <2>2, Zenon
<1> QED BY <1>2, <1>4, <1>5, <1>6, Zenon

\* The events of a sound store are canonical: an absent triple has one form.
LEMMA SoundCanonical ==
    ASSUME NEW s, Sound(s), NEW t \in Triples
    PROVE  s.causal[t] \in Canonical
<1> DEFINE c == s.causal[t]
<1>1. c \in Event /\ ExactEvent(c, s.datoms, t)
  BY Zenon DEF Sound, StoreType
<1>2. \A d \in s.datoms : d.tx # 0
  BY StoreAssumption, DatomFields, Zenon DEF Sound, StoreType
<1> HIDE DEF c
<1>3. ASSUME c.tx = 0 PROVE c = Never
  <2>1. [triple |-> t, tx |-> c.tx, op |-> c.op].tx = 0
    BY <1>3, Zenon
  <2>2. [triple |-> t, tx |-> c.tx, op |-> c.op] \notin s.datoms
    BY <1>2, <2>1, Zenon
  <2> QED BY <1>1, <2>2, Zenon DEF ExactEvent
<1> QED BY <1>1, <1>3, Zenon DEF Canonical, c

\* merge_schemas is a semilattice too: the least definition of each attribute.
LEMMA SchemaLaws ==
    ASSUME NEW a \in [Attrs -> Values \cup {NoDef}],
           NEW b \in [Attrs -> Values \cup {NoDef}],
           NEW c \in [Attrs -> Values \cup {NoDef}]
    PROVE  /\ MergeSchemas(a, a) = a
           /\ MergeSchemas(a, b) = MergeSchemas(b, a)
           /\ MergeSchemas(MergeSchemas(a, b), c) = MergeSchemas(a, MergeSchemas(b, c))
<1>1. \A x \in Attrs : a[x] \in Nat /\ b[x] \in Nat /\ c[x] \in Nat
  <2>1. \A v \in Values \cup {NoDef} : v \in Nat
    BY StoreAssumption DEF NoDef
  <2> QED BY <2>1, Zenon
<1>2. MergeSchemas(a, a) = a
  BY <1>1, Zenon DEF MergeSchemas
<1>3. MergeSchemas(a, b) = MergeSchemas(b, a)
  BY <1>1 DEF MergeSchemas, NoDef
<1>4. MergeSchemas(MergeSchemas(a, b), c) = MergeSchemas(a, MergeSchemas(b, c))
  BY <1>1 DEF MergeSchemas, NoDef
<1> QED BY <1>2, <1>3, <1>4, Zenon

\* merge_causal on the maps of sound stores.
LEMMA CausalLaws ==
    ASSUME NEW a, Sound(a), NEW b, Sound(b), NEW c, Sound(c)
    PROVE  LET x == a.causal  y == b.causal  z == c.causal
           IN  /\ MergeCausal(x, x) = x
               /\ MergeCausal(x, y) = MergeCausal(y, x)
               /\ MergeCausal(MergeCausal(x, y), z) = MergeCausal(x, MergeCausal(y, z))
<1> DEFINE x == a.causal
           y == b.causal
           z == c.causal
<1>1. \A t \in Triples : x[t] \in Canonical /\ y[t] \in Canonical /\ z[t] \in Canonical
  BY SoundCanonical, Zenon
<1>2. x = [t \in Triples |-> x[t]]
  BY Zenon DEF Sound, StoreType
<1> HIDE DEF x, y, z
<1>3. \A f, g : MergeCausal(f, g) = [t \in Triples |-> Join(f[t], g[t])]
  BY Zenon DEF MergeCausal, Join
<1>4. \A t \in Triples : /\ Join(x[t], x[t]) = x[t]
                          /\ Join(x[t], y[t]) = Join(y[t], x[t])
                          /\ Join(Join(x[t], y[t]), z[t]) = Join(x[t], Join(y[t], z[t]))
  BY <1>1, JoinLaws
<1>5. MergeCausal(x, x) = x
  BY <1>2, <1>3, <1>4, Zenon
<1>6. MergeCausal(x, y) = MergeCausal(y, x)
  BY <1>3, <1>4, Zenon
<1>7. MergeCausal(MergeCausal(x, y), z) = MergeCausal(x, MergeCausal(y, z))
  BY <1>3, <1>4, Zenon
<1> QED BY <1>5, <1>6, <1>7, Zenon DEF x, y, z

\* The parts of a merged store.
LEMMA MergeParts ==
    ASSUME NEW a, NEW b
    PROVE  /\ FromMerge(a, b).datoms = a.datoms \cup b.datoms
           /\ FromMerge(a, b).causal = MergeCausal(a.causal, b.causal)
           /\ FromMerge(a, b).schema = MergeSchemas(a.schema, b.schema)
           /\ FromMerge(a, b).epoch = Later(a.epoch, b.epoch)
BY Zenon DEF FromMerge

\* from_merge is idempotent, commutative and associative on stores whose causal
\* map is exact and whose live set follows from it: causal maps, live sets,
\* schemas and epochs converge as the datom sets do.
THEOREM MergeSemilattice ==
    ASSUME NEW a, Sound(a), NEW b, Sound(b), NEW c, Sound(c)
    PROVE  /\ FromMerge(a, a) = a
           /\ FromMerge(a, b) = FromMerge(b, a)
           /\ FromMerge(FromMerge(a, b), c) = FromMerge(a, FromMerge(b, c))
<1>1. a.epoch \in Nat /\ b.epoch \in Nat /\ c.epoch \in Nat
  BY Zenon DEF Sound, StoreType
<1>2. /\ a.schema \in [Attrs -> Values \cup {NoDef}]
      /\ b.schema \in [Attrs -> Values \cup {NoDef}]
      /\ c.schema \in [Attrs -> Values \cup {NoDef}]
  BY Zenon DEF Sound, StoreType
<1>3. /\ Later(a.epoch, a.epoch) = a.epoch
      /\ Later(a.epoch, b.epoch) = Later(b.epoch, a.epoch)
      /\ Later(Later(a.epoch, b.epoch), c.epoch) = Later(a.epoch, Later(b.epoch, c.epoch))
  BY <1>1 DEF Later
<1>4. FromMerge(a, a) = a
  <2>1. MergeCausal(a.causal, a.causal) = a.causal
    BY CausalLaws, Zenon
  <2>2. MergeSchemas(a.schema, a.schema) = a.schema
    BY <1>2, SchemaLaws, Zenon
  <2>3. a = [datoms |-> a.datoms, causal |-> a.causal, live |-> DeriveLive(a.causal),
             schema |-> a.schema, epoch |-> a.epoch]
    BY Zenon DEF Sound, StoreType
  <2>4. FromMerge(a, a) =
            [datoms |-> a.datoms, causal |-> a.causal, live |-> DeriveLive(a.causal),
             schema |-> a.schema, epoch |-> a.epoch]
    BY <1>3, <2>1, <2>2, Zenon DEF FromMerge
  <2> QED BY <2>3, <2>4, Zenon
<1>5. FromMerge(a, b) = FromMerge(b, a)
  <2>1. MergeCausal(a.causal, b.causal) = MergeCausal(b.causal, a.causal)
    BY CausalLaws, Zenon
  <2>2. MergeSchemas(a.schema, b.schema) = MergeSchemas(b.schema, a.schema)
    BY <1>2, SchemaLaws, Zenon
  <2>3. a.datoms \cup b.datoms = b.datoms \cup a.datoms
    BY Zenon
  <2> QED BY <1>3, <2>1, <2>2, <2>3, Zenon DEF FromMerge
<1>6. FromMerge(FromMerge(a, b), c) = FromMerge(a, FromMerge(b, c))
  <2> DEFINE p == FromMerge(a, b)
             q == FromMerge(b, c)
  <2>p. /\ p.datoms = a.datoms \cup b.datoms
        /\ p.causal = MergeCausal(a.causal, b.causal)
        /\ p.schema = MergeSchemas(a.schema, b.schema)
        /\ p.epoch = Later(a.epoch, b.epoch)
    BY MergeParts, Zenon
  <2>q. /\ q.datoms = b.datoms \cup c.datoms
        /\ q.causal = MergeCausal(b.causal, c.causal)
        /\ q.schema = MergeSchemas(b.schema, c.schema)
        /\ q.epoch = Later(b.epoch, c.epoch)
    BY MergeParts, Zenon
  <2> HIDE DEF p, q
  <2>1. MergeCausal(p.causal, c.causal) = MergeCausal(a.causal, q.causal)
    <3>1. MergeCausal(MergeCausal(a.causal, b.causal), c.causal)
            = MergeCausal(a.causal, MergeCausal(b.causal, c.causal))
      BY CausalLaws
    <3> QED BY <2>p, <2>q, <3>1, Zenon
  <2>2. MergeSchemas(p.schema, c.schema) = MergeSchemas(a.schema, q.schema)
    <3>1. MergeSchemas(MergeSchemas(a.schema, b.schema), c.schema)
            = MergeSchemas(a.schema, MergeSchemas(b.schema, c.schema))
      BY <1>2, SchemaLaws
    <3> QED BY <2>p, <2>q, <3>1, Zenon
  <2>3. p.datoms \cup c.datoms = a.datoms \cup q.datoms
    BY <2>p, <2>q, Zenon
  <2>4. Later(p.epoch, c.epoch) = Later(a.epoch, q.epoch)
    BY <1>3, <2>p, <2>q, Zenon
  <2>5. FromMerge(p, c) = FromMerge(a, q)
    BY <2>1, <2>2, <2>3, <2>4, Zenon DEF FromMerge
  <2> QED BY <2>5, Zenon DEF p, q
<1> QED BY <1>4, <1>5, <1>6, Zenon

\* Merging the replicas' stores is commutative, and merging a store in twice
\* is merging it once, in every reachable state.
THEOREM MergeIsLawful == Spec => []MergeLaws
<1>1. StoreInv => MergeLaws
  <2> SUFFICES ASSUME StoreInv, NEW r \in Replicas, NEW s \in Replicas
               PROVE  LET merged == FromMerge(store[r], store[s])
                      IN  /\ merged = FromMerge(store[s], store[r])
                          /\ FromMerge(merged, store[s]) = merged
                          /\ r = s => merged = store[r]
    BY Zenon DEF MergeLaws
  <2> DEFINE a == store[r]
             b == store[s]
  <2>1. Sound(a) /\ Sound(b)
    BY Zenon DEF StoreInv, StoresSound
  <2>2. r = s => a = b
    BY Zenon
  <2> HIDE DEF a, b
  <2>3. FromMerge(a, b) = FromMerge(b, a) /\ FromMerge(a, a) = a /\ FromMerge(b, b) = b
    BY <2>1, MergeSemilattice, Zenon
  <2>4. FromMerge(FromMerge(a, b), b) = FromMerge(a, FromMerge(b, b))
    BY <2>1, MergeSemilattice
  <2> QED BY <2>2, <2>3, <2>4, Zenon DEF a, b
<1> QED BY <1>1, StoreInvariant, PTL

-----------------------------------------------------------------------------
\* The entries up to position p of log l that recovery from checkpoint c
\* replays, and those of them that define an attribute.
FreshTo(c, l, p) == {i \in 1..p : l[i].epoch > c.epoch}

Definers(c, l, p, a) == {i \in FreshTo(c, l, p) : Defining(l[i].changes, a) # {}}

\* An attribute that an entry of log l defines in two ways.
TwoWays(l, a) ==
    \E i \in 1..Len(l) : \E v, w \in Defining(l[i].changes, a) : v # w

\* What replaying l up to p over c makes of an attribute: it is defined if c or
\* an entry defines it, and the last entry that does decides.
Settled(v, c, l, p, a) ==
    /\ v # NoDef <=> c.schema[a] # NoDef \/ Definers(c, l, p, a) # {}
    /\ ~ TwoWays(l, a) =>
         /\ Definers(c, l, p, a) = {} => v = c.schema[a]
         /\ \A i \in Definers(c, l, p, a) :
               (\A j \in Definers(c, l, p, a) : j <= i) => v \in Defining(l[i].changes, a)

\* s is checkpoint c with the entries of log l up to position p replayed.
Replayed(s, c, l, p) ==
    /\ \A d : d \in s.datoms <=>
         \/ d \in c.datoms
         \/ \E i \in FreshTo(c, l, p) : d \in Stamped(l[i].tx, l[i].changes)
    /\ s.epoch = IF p \in FreshTo(c, l, p) THEN l[p].epoch ELSE c.epoch
    /\ \A a \in Attrs : Settled(s.schema[a], c, l, p, a)

\* The epochs of the log run without a gap up to the last acknowledged one,
\* and the checkpoint is at one of them or just before the first.
Dense(s, c, l) ==
    /\ \A i \in 1..Len(l) : l[i].epoch + Len(l) = s.epoch + i
    /\ c.epoch <= s.epoch /\ s.epoch <= c.epoch + Len(l)

\* Recovery has the rest of the log before it.
Rest(u, l) ==
    /\ Len(u) <= Len(l)
    /\ \A i \in 1..Len(u) : u[i] = l[Len(l) - Len(u) + i]

\* A replica with store s, checkpoint c, log l, the entries u yet to replay
\* and the acknowledged state a.
RecoveryOk(s, c, l, u, a) ==
    /\ Dense(a, c, l)
    /\ Rest(u, l)
    /\ Replayed(s, c, l, Len(l) - Len(u))
    /\ Replayed(a, c, l, Len(l))

RecoveryInv ==
    \A r \in Replicas : RecoveryOk(store[r], saved[r], log[r], todo[r], acked[r])

\* The schema has the attribute of every datom.
Backed(s) ==
    \A d \in s.datoms :
        s.schema[IF d.triple[1] \in DataKeys THEN AttrOf[d.triple[1]] ELSE d.triple[1]]
            # NoDef

\* An entry that recovery replays uses attributes that the checkpoint or an
\* earlier entry defines.
EntriesBacked(c, l) ==
    \A i \in FreshTo(c, l, Len(l)) : \A n \in 1..Len(l[i].changes) :
        LET k == l[i].changes[n].triple[1]
        IN  k \in DataKeys => \/ c.schema[AttrOf[k]] # NoDef
                              \/ Definers(c, l, i - 1, AttrOf[k]) # {}

BackedInv ==
    \A r \in Replicas :
        Backed(store[r]) /\ Backed(saved[r]) /\ EntriesBacked(saved[r], log[r])

\* One entry more.
LEMMA FreshNext ==
    ASSUME NEW c, NEW l, NEW p \in Nat
    PROVE  /\ FreshTo(c, l, p) \subseteq 1..p
           /\ l[p + 1].epoch > c.epoch => FreshTo(c, l, p + 1) = FreshTo(c, l, p) \cup {p + 1}
           /\ ~ (l[p + 1].epoch > c.epoch) => FreshTo(c, l, p + 1) = FreshTo(c, l, p)
  BY DEF FreshTo

\* Nothing up to position p changes when an entry is appended.
LEMMA FreshAppended ==
    ASSUME NEW c, NEW l \in Seq(Entry), NEW e \in Entry, NEW p \in 0..Len(l), NEW a
    PROVE  /\ FreshTo(c, Append(l, e), p) = FreshTo(c, l, p)
           /\ Definers(c, Append(l, e), p, a) = Definers(c, l, p, a)
           /\ \A i \in FreshTo(c, l, p) : Append(l, e)[i] = l[i]
           /\ TwoWays(l, a) => TwoWays(Append(l, e), a)
<1>1. \A i \in 1..p : i \in 1..Len(l)
  OBVIOUS
<1>2. \A i \in 1..Len(l) : Append(l, e)[i] = l[i]
  OBVIOUS
<1>3. Len(Append(l, e)) = Len(l) + 1
  OBVIOUS
<1>4. \A i \in 1..Len(l) : i \in 1..Len(Append(l, e))
  BY <1>3
<1>5. \A i \in 1..p : Append(l, e)[i] = l[i]
  BY <1>1, <1>2, Zenon
<1>6. FreshTo(c, Append(l, e), p) = FreshTo(c, l, p) /\ FreshTo(c, l, p) \subseteq 1..p
  BY <1>5, Zenon DEF FreshTo
<1>7. Definers(c, Append(l, e), p, a) = Definers(c, l, p, a)
  BY <1>5, <1>6, Zenon DEF Definers
<1>8. TwoWays(l, a) => TwoWays(Append(l, e), a)
  <2>1. ASSUME NEW i \in 1..Len(l), NEW v \in Defining(l[i].changes, a),
               NEW w \in Defining(l[i].changes, a), v # w
        PROVE  TwoWays(Append(l, e), a)
    <3>1. i \in 1..Len(Append(l, e)) /\ Append(l, e)[i] = l[i]
      BY <1>2, <1>4, Zenon
    <3> HIDE <1>3
    <3> QED BY <2>1, <3>1, Zenon DEF TwoWays
  <2> QED BY <2>1, Zenon DEF TwoWays
<1> QED BY <1>5, <1>6, <1>7, <1>8, Zenon

\* Of the entries that define an attribute one is the last.
LEMMA LastDefiner ==
    ASSUME NEW c, NEW l, NEW p \in Nat, NEW a, Definers(c, l, p, a) # {}
    PROVE  \E i \in Definers(c, l, p, a) : \A j \in Definers(c, l, p, a) : j <= i
<1> DEFINE D == Definers(c, l, p, a)
           T == {p - i : i \in D}
<1>1. D \subseteq 1..p
  BY Zenon DEF Definers, FreshTo
<1>2. T \subseteq Nat /\ T # {}
  <2>1. \A i \in D : p - i \in Nat
    BY <1>1
  <2> QED BY <2>1, Zenon
<1>3. PICK x \in T : \A y \in T : x <= y
  <2> HIDE DEF T
  <2> QED BY <1>2, FirstPosition, Zenon
<1>4. PICK i \in D : x = p - i
  BY Zenon
<1>5. ASSUME NEW j \in D PROVE j <= i
  <2>1. p - j \in T
    BY Zenon
  <2>2. p - i <= p - j
    BY <1>3, <1>4, <2>1, Zenon
  <2>3. i \in 1..p /\ j \in 1..p
    BY <1>1, Zenon
  <2> QED BY <2>2, <2>3
<1> QED BY <1>5, Zenon

\* The same datoms and epoch, and the same definitions where log l leaves no
\* choice.
Agree(s, t, l) ==
    /\ \A d : d \in s.datoms <=> d \in t.datoms
    /\ s.epoch = t.epoch
    /\ \A a \in Attrs : TwoWays(l, a) \/ s.schema[a] = t.schema[a]

\* Replaying is a function of the checkpoint and the log, up to attributes
\* that an entry defines in two ways.
LEMMA ReplayedSame ==
    ASSUME NEW c, NEW l \in Seq(Entry), NEW p \in 0..Len(l), NEW s, NEW t,
           Replayed(s, c, l, p), Replayed(t, c, l, p)
    PROVE  Agree(s, t, l)
<1>1. s.epoch = t.epoch
  BY DEF Replayed
<1>2. \A d : d \in s.datoms <=> d \in t.datoms
  BY Zenon DEF Replayed
<1>3. ASSUME NEW a \in Attrs, ~ TwoWays(l, a) PROVE s.schema[a] = t.schema[a]
  <2>1. Settled(s.schema[a], c, l, p, a) /\ Settled(t.schema[a], c, l, p, a)
    BY Zenon DEF Replayed
  <2>2. CASE Definers(c, l, p, a) = {}
    BY <1>3, <2>1, <2>2, Zenon DEF Settled
  <2>3. CASE Definers(c, l, p, a) # {}
    <3>1. PICK i \in Definers(c, l, p, a) : \A j \in Definers(c, l, p, a) : j <= i
      BY <2>3, LastDefiner
    <3>2. /\ s.schema[a] \in Defining(l[i].changes, a)
          /\ t.schema[a] \in Defining(l[i].changes, a)
      BY <1>3, <2>1, <3>1, Zenon DEF Settled
    <3>3. i \in 1..Len(l)
      BY <3>1 DEF Definers, FreshTo
    <3> QED BY <1>3, <3>2, <3>3, Zenon DEF TwoWays
  <2> QED BY <2>2, <2>3, Zenon
<1> QED BY <1>1, <1>2, <1>3, Zenon DEF Agree

\* An entry at or before the epoch of the checkpoint changes nothing.
LEMMA ReplayedSkip ==
    ASSUME NEW c, NEW l, NEW p \in Nat, NEW s,
           Replayed(s, c, l, p), p \notin FreshTo(c, l, p), ~ (l[p + 1].epoch > c.epoch)
    PROVE  Replayed(s, c, l, p + 1)
<1>1. FreshTo(c, l, p + 1) = FreshTo(c, l, p) /\ p + 1 \notin FreshTo(c, l, p)
  BY FreshNext
<1>2. \A a : Definers(c, l, p + 1, a) = Definers(c, l, p, a)
  BY <1>1, Zenon DEF Definers
<1> QED BY <1>1, <1>2, Zenon DEF Replayed, Settled

\* replay_entry, and the commit of a transaction that the log ends with.
LEMMA ReplayedNext ==
    ASSUME NEW c, NEW l, NEW p \in Nat, NEW s, NEW t,
           Replayed(s, c, l, p), l[p + 1].epoch > c.epoch,
           t.datoms = s.datoms \cup Stamped(l[p + 1].tx, l[p + 1].changes),
           t.epoch = l[p + 1].epoch,
           t.schema \in Evolved(s.schema, l[p + 1].changes)
    PROVE  Replayed(t, c, l, p + 1)
<1>1. FreshTo(c, l, p + 1) = FreshTo(c, l, p) \cup {p + 1} /\ FreshTo(c, l, p) \subseteq 1..p
  BY FreshNext, Zenon
<1>2. ASSUME NEW d
      PROVE  d \in t.datoms <=>
               \/ d \in c.datoms
               \/ \E i \in FreshTo(c, l, p + 1) : d \in Stamped(l[i].tx, l[i].changes)
  <2>1. d \in s.datoms <=>
          \/ d \in c.datoms
          \/ \E i \in FreshTo(c, l, p) : d \in Stamped(l[i].tx, l[i].changes)
    BY Zenon DEF Replayed
  <2>2. d \in t.datoms <=> d \in s.datoms \/ d \in Stamped(l[p + 1].tx, l[p + 1].changes)
    BY Zenon
  <2> QED BY <1>1, <2>1, <2>2, ZenonT(40)
<1>3. t.epoch = IF p + 1 \in FreshTo(c, l, p + 1) THEN l[p + 1].epoch ELSE c.epoch
  BY <1>1, Zenon
<1>4. ASSUME NEW a \in Attrs PROVE Settled(t.schema[a], c, l, p + 1, a)
  <2>0. Settled(s.schema[a], c, l, p, a)
    BY Zenon DEF Replayed
  <2>1. CASE Defining(l[p + 1].changes, a) = {}
    <3>1. Definers(c, l, p + 1, a) = Definers(c, l, p, a)
      BY <1>1, <2>1, Zenon DEF Definers
    <3>2. t.schema[a] = s.schema[a]
      BY <2>1, Zenon DEF Evolved
    <3> QED BY <2>0, <3>1, <3>2, Zenon DEF Settled
  <2>2. CASE Defining(l[p + 1].changes, a) # {}
    <3>1. Definers(c, l, p + 1, a) = Definers(c, l, p, a) \cup {p + 1}
      BY <1>1, <2>2, Zenon DEF Definers
    <3>2. t.schema[a] \in Defining(l[p + 1].changes, a)
      BY <2>2, Zenon DEF Evolved
    <3>3. t.schema[a] # NoDef
      BY <3>2, StoreAssumption, Zenon DEF Defining, NoDef
    <3>4. Definers(c, l, p, a) \subseteq 1..p
      BY <1>1, Zenon DEF Definers
    <3>5. ASSUME NEW i \in Definers(c, l, p + 1, a),
                 \A j \in Definers(c, l, p + 1, a) : j <= i
          PROVE  i = p + 1
      <4>1. p + 1 <= i
        BY <3>1, <3>5, Zenon
      <4>2. i \in 1..p \/ i = p + 1
        BY <3>1, <3>4, Zenon
      <4> QED BY <4>1, <4>2
    <3> QED BY <3>1, <3>2, <3>3, <3>5, Zenon DEF Settled
  <2> QED BY <2>1, <2>2, Zenon
<1> QED BY <1>2, <1>3, <1>4, Zenon DEF Replayed

\* Recovery loads the checkpoint.
LEMMA ReplayedLoaded ==
    ASSUME NEW c, NEW l, NEW s, s.datoms = c.datoms, s.epoch = c.epoch,
           s.schema = c.schema
    PROVE  Replayed(s, c, l, 0)
<1>1. FreshTo(c, l, 0) = {}
  BY DEF FreshTo
<1>2. \A a : Definers(c, l, 0, a) = {}
  BY <1>1, Zenon DEF Definers
<1> QED BY <1>1, <1>2, Zenon DEF Replayed, Settled

\* A checkpoint at the epoch of the last entry leaves nothing to replay.
LEMMA ReplayedSaved ==
    ASSUME NEW c, NEW l, NEW p \in Nat, NEW s, \A i \in 1..p : ~ (l[i].epoch > c.epoch),
           Agree(s, c, l), \A a \in Attrs : s.schema[a] # NoDef <=> c.schema[a] # NoDef
    PROVE  Replayed(s, c, l, p)
<1>1. FreshTo(c, l, p) = {}
  BY Zenon DEF FreshTo
<1>2. \A a : Definers(c, l, p, a) = {}
  BY <1>1, Zenon DEF Definers
<1> QED BY <1>1, <1>2, Zenon DEF Replayed, Settled, Agree

\* A longer log, up to the same position.
LEMMA ReplayedLonger ==
    ASSUME NEW c, NEW l \in Seq(Entry), NEW e \in Entry, NEW p \in 0..Len(l), NEW s,
           Replayed(s, c, l, p)
    PROVE  Replayed(s, c, Append(l, e), p)
<1> DEFINE m == Append(l, e)
<1>1. FreshTo(c, m, p) = FreshTo(c, l, p)
  BY FreshAppended, Zenon
<1>2. \A i \in FreshTo(c, l, p) : m[i] = l[i]
  BY FreshAppended, Zenon
<1>3. \A a : Definers(c, m, p, a) = Definers(c, l, p, a) /\ (TwoWays(l, a) => TwoWays(m, a))
  BY FreshAppended, Zenon
<1> HIDE DEF m
<1>4. ASSUME NEW a \in Attrs PROVE Settled(s.schema[a], c, m, p, a)
  <2>1. Settled(s.schema[a], c, l, p, a)
    BY Zenon DEF Replayed
  <2>2. Definers(c, l, p, a) \subseteq FreshTo(c, l, p)
    BY Zenon DEF Definers
  <2> QED BY <1>2, <1>3, <2>1, <2>2, Zenon DEF Settled
<1>5. \A d : (\E i \in FreshTo(c, m, p) : d \in Stamped(m[i].tx, m[i].changes)) <=>
             (\E i \in FreshTo(c, l, p) : d \in Stamped(l[i].tx, l[i].changes))
  BY <1>1, <1>2, Zenon
<1>6. s.epoch = IF p \in FreshTo(c, m, p) THEN m[p].epoch ELSE c.epoch
  BY <1>1, <1>2, Zenon DEF Replayed
<1>7. Replayed(s, c, m, p)
  BY <1>4, <1>5, <1>6, Zenon DEF Replayed
<1> QED BY <1>7, Zenon DEF m

\* An open store is what was acknowledged.
LEMMA OpenExact ==
    ASSUME NEW s, NEW c, NEW l \in Seq(Entry), NEW a, RecoveryOk(s, c, l, << >>, a)
    PROVE  /\ Replayed(s, c, l, Len(l))
           /\ Agree(s, a, l)
           /\ \A x \in Attrs : s.schema[x] # NoDef <=> a.schema[x] # NoDef
<1>1. Len(l) - Len(<< >>) = Len(l) /\ Len(l) \in 0..Len(l)
  OBVIOUS
<1>2. Replayed(s, c, l, Len(l)) /\ Replayed(a, c, l, Len(l))
  BY <1>1, Zenon DEF RecoveryOk
<1>3. \A x \in Attrs : s.schema[x] # NoDef <=> a.schema[x] # NoDef
  BY <1>2, Zenon DEF Replayed, Settled
<1>4. Agree(s, a, l)
  BY <1>1, <1>2, ReplayedSame, Zenon
<1> QED BY <1>2, <1>3, <1>4, Zenon

\* The next entry to replay.
LEMMA RestNext ==
    ASSUME NEW l \in Seq(Entry), NEW u \in Seq(Entry), u # << >>, Rest(u, l)
    PROVE  /\ Len(l) - Len(u) \in Nat /\ Len(l) - Len(u) + 1 \in 1..Len(l)
           /\ Head(u) = l[Len(l) - Len(u) + 1]
           /\ Rest(Tail(u), l)
           /\ Len(l) - Len(Tail(u)) = Len(l) - Len(u) + 1
<1>1. Len(u) \in Nat /\ Len(l) \in Nat /\ Len(u) >= 1 /\ Len(u) <= Len(l)
  BY DEF Rest
<1>2. Len(Tail(u)) = Len(u) - 1 /\ Head(u) = u[1]
      /\ \A i \in 1..(Len(u) - 1) : Tail(u)[i] = u[i + 1]
  BY <1>1
<1>3. u[1] = l[Len(l) - Len(u) + 1]
  BY <1>1 DEF Rest
<1>4. ASSUME NEW i \in 1..Len(Tail(u))
      PROVE  Tail(u)[i] = l[Len(l) - Len(Tail(u)) + i]
  <2>1. i + 1 \in 1..Len(u) /\ i \in 1..(Len(u) - 1)
    BY <1>1, <1>2
  <2>2. u[i + 1] = l[Len(l) - Len(u) + (i + 1)]
    BY <2>1, Zenon DEF Rest
  <2>3. Len(l) - Len(u) + (i + 1) = Len(l) - Len(Tail(u)) + i
    BY <1>1, <1>2, <2>1
  <2> QED BY <1>2, <2>1, <2>2, <2>3, Zenon
<1>5. /\ Len(l) - Len(u) \in Nat /\ Len(l) - Len(u) + 1 \in 1..Len(l)
      /\ Len(u) - 1 <= Len(l)
      /\ Len(l) - (Len(u) - 1) = Len(l) - Len(u) + 1
  BY <1>1
<1>6. Rest(Tail(u), l)
  BY <1>2, <1>4, <1>5, Zenon DEF Rest
<1> QED BY <1>2, <1>3, <1>5, <1>6, Zenon

\* The entry a commit appends extends the run of epochs.
LEMMA DenseNext ==
    ASSUME NEW l \in Seq(Entry), NEW e \in Entry, NEW a, NEW c, NEW t,
           a.epoch \in Nat, c.epoch \in Nat, Dense(a, c, l),
           e.epoch = a.epoch + 1, t.epoch = a.epoch + 1
    PROVE  Dense(t, c, Append(l, e))
<1>1. Len(Append(l, e)) = Len(l) + 1 /\ Len(l) \in Nat
  OBVIOUS
<1>2. ASSUME NEW i \in 1..Len(Append(l, e))
      PROVE  Append(l, e)[i].epoch + Len(Append(l, e)) = t.epoch + i
  <2>1. CASE i = Len(l) + 1
    <3>1. Append(l, e)[i] = e
      BY <2>1
    <3> QED BY <1>1, <2>1, <3>1, Zenon
  <2>2. CASE i # Len(l) + 1
    <3>1. i \in 1..Len(l)
      BY <1>1, <2>2
    <3>2. Append(l, e)[i] = l[i] /\ l[i] \in Entry
      BY <3>1
    <3>4. l[i].epoch \in Nat
      BY <3>2, Zenon DEF Entry
    <3>3. l[i].epoch + Len(l) = a.epoch + i
      BY <3>1, Zenon DEF Dense
    <3>5. l[i].epoch + (Len(l) + 1) = (a.epoch + 1) + i
      <4>2. i \in Nat /\ Len(l) \in Nat
        BY <3>1
      <4> DEFINE v == l[i].epoch
                 w == Len(l)
                 x == a.epoch
      <4>3. v \in Nat /\ w \in Nat /\ x \in Nat /\ v + w = x + i
        BY <3>3, <3>4, <4>2, Zenon
      <4> HIDE DEF v, w, x
      <4>4. v + (w + 1) = (x + 1) + i
        BY <4>2, <4>3
      <4> QED BY <4>4, Zenon DEF v, w, x
    <3> QED BY <1>1, <3>2, <3>5, Zenon
  <2> QED BY <2>1, <2>2, Zenon
<1>3. c.epoch <= a.epoch /\ a.epoch <= c.epoch + Len(l)
  BY Zenon DEF Dense
<1>4. c.epoch <= t.epoch /\ t.epoch <= c.epoch + Len(Append(l, e))
  BY <1>1, <1>3
<1> QED BY <1>2, <1>4, Zenon DEF Dense

\* No entry is later than what is acknowledged, and epochs grow.
LEMMA DenseOrder ==
    ASSUME NEW l \in Seq(Entry), NEW a, NEW c, a.epoch \in Nat, Dense(a, c, l)
    PROVE  /\ \A i \in 1..Len(l) : l[i].epoch \in Nat /\ l[i].epoch <= a.epoch
           /\ \A i \in 1..Len(l) : i + 1 \in 1..Len(l) => l[i].epoch <= l[i + 1].epoch
<1>0. \A i \in 1..Len(l) : l[i] \in Entry
  OBVIOUS
<1>1. \A i \in 1..Len(l) : l[i].epoch \in Nat
  BY <1>0, Zenon DEF Entry
<1>2. \A i \in 1..Len(l) : l[i].epoch + Len(l) = a.epoch + i
  BY Zenon DEF Dense
<1>3. Len(l) \in Nat
  OBVIOUS
<1>4. \A i \in 1..Len(l) : l[i].epoch <= a.epoch
  BY <1>1, <1>2, <1>3
<1>5. ASSUME NEW i \in 1..Len(l), i + 1 \in 1..Len(l)
      PROVE  l[i].epoch <= l[i + 1].epoch
  <2>1. l[i].epoch + Len(l) = a.epoch + i /\ l[i + 1].epoch + Len(l) = a.epoch + (i + 1)
    BY <1>2, <1>5, Zenon
  <2> QED BY <1>1, <1>3, <1>5, <2>1
<1> QED BY <1>1, <1>4, <1>5, Zenon

\* A commit: the log has one entry more, and the store has replayed it.
LEMMA RecoveryCommit ==
    ASSUME NEW s \in StoreType, NEW c \in CheckpointData, NEW l \in Seq(Entry),
           NEW a \in CheckpointData, RecoveryOk(s, c, l, << >>, a),
           NEW e \in Entry, e.epoch = s.epoch + 1, NEW t, t.epoch = e.epoch,
           t.datoms = s.datoms \cup Stamped(e.tx, e.changes),
           t.schema \in Evolved(s.schema, e.changes)
    PROVE  RecoveryOk(t, c, Append(l, e), << >>, CheckpointOf(t))
<1> DEFINE m == Append(l, e)
           n == Len(l)
<1>1. Replayed(s, c, l, n) /\ s.epoch = a.epoch
  BY OpenExact, Zenon DEF Agree
<1>2. n \in Nat /\ n \in 0..Len(l) /\ Len(m) = n + 1 /\ m[n + 1] = e
  OBVIOUS
<1>3. Replayed(s, c, m, n)
  BY <1>1, <1>2, ReplayedLonger, Zenon
<1>4. a.epoch \in Nat /\ c.epoch \in Nat
  BY Zenon DEF CheckpointData
<1>5. e.epoch > c.epoch
  BY <1>1, <1>4 DEF RecoveryOk, Dense
<1> DEFINE k == CheckpointOf(t)
<1>6. k.datoms = t.datoms /\ k.schema = t.schema /\ k.epoch = t.epoch
  BY Zenon DEF CheckpointOf
<1>7. Dense(k, c, m)
  <2> HIDE DEF k
  <2> QED BY <1>1, <1>4, <1>6, DenseNext, Zenon DEF RecoveryOk
<1> HIDE DEF m, n, k
<1>8. Replayed(t, c, m, n + 1)
  BY <1>2, <1>3, <1>5, ReplayedNext, Zenon
<1>9. Replayed(k, c, m, n + 1)
  BY <1>2, <1>3, <1>5, <1>6, ReplayedNext, Zenon
<1>10. Rest(<< >>, m) /\ Len(m) - Len(<< >>) = n + 1
  BY <1>2 DEF Rest
<1>11. RecoveryOk(t, c, m, << >>, k)
  BY <1>2, <1>7, <1>8, <1>9, <1>10, Zenon DEF RecoveryOk
<1> QED BY <1>11, Zenon DEF m, k

\* A checkpoint of the open store.
LEMMA RecoverySave ==
    ASSUME NEW s \in StoreType, NEW c \in CheckpointData, NEW l \in Seq(Entry),
           NEW a \in CheckpointData, RecoveryOk(s, c, l, << >>, a)
    PROVE  RecoveryOk(s, CheckpointOf(s), l, << >>, a)
<1> DEFINE k == CheckpointOf(s)
<1>1. k.datoms = s.datoms /\ k.schema = s.schema /\ k.epoch = s.epoch
  BY Zenon DEF CheckpointOf
<1> HIDE DEF k
<1>2. /\ Agree(s, a, l)
      /\ \A x \in Attrs : s.schema[x] # NoDef <=> a.schema[x] # NoDef
  BY OpenExact, Zenon
<1>3. /\ Agree(s, k, l) /\ Agree(a, k, l)
      /\ \A x \in Attrs : /\ s.schema[x] # NoDef <=> k.schema[x] # NoDef
                          /\ a.schema[x] # NoDef <=> k.schema[x] # NoDef
  BY <1>1, <1>2, Zenon DEF Agree
<1>4. k.epoch = a.epoch /\ a.epoch \in Nat
  BY <1>1, <1>2, Zenon DEF Agree, CheckpointData
<1>5. Dense(a, c, l) /\ Len(l) \in Nat /\ Len(l) - Len(<< >>) = Len(l)
  BY DEF RecoveryOk
<1>6. \A i \in 1..Len(l) : ~ (l[i].epoch > k.epoch)
  BY <1>4, <1>5, DenseOrder
<1>7. Dense(a, k, l)
  BY <1>4, <1>5 DEF Dense
<1>8. Replayed(s, k, l, Len(l)) /\ Replayed(a, k, l, Len(l))
  BY <1>3, <1>5, <1>6, ReplayedSaved, Zenon
<1>9. Rest(<< >>, l)
  BY Zenon DEF RecoveryOk
<1>10. RecoveryOk(s, k, l, << >>, a)
  BY <1>5, <1>7, <1>8, <1>9, Zenon DEF RecoveryOk
<1> QED BY <1>10, Zenon DEF k

\* The start of recovery.
LEMMA RecoveryLoad ==
    ASSUME NEW s, NEW c, NEW l \in Seq(Entry), NEW u, NEW a, RecoveryOk(s, c, l, u, a)
    PROVE  RecoveryOk(FromCheckpoint(c), c, l, l, a)
<1> DEFINE t == FromCheckpoint(c)
<1>1. t.datoms = c.datoms /\ t.schema = c.schema /\ t.epoch = c.epoch
  BY Zenon DEF FromCheckpoint
<1> HIDE DEF t
<1>2. Replayed(t, c, l, 0)
  BY <1>1, ReplayedLoaded, Zenon
<1>3. Rest(l, l) /\ Len(l) - Len(l) = 0
  BY DEF Rest
<1>4. RecoveryOk(t, c, l, l, a)
  BY <1>2, <1>3, Zenon DEF RecoveryOk
<1> QED BY <1>4, Zenon DEF t

\* A database over a checkpoint of its store, with a new log.
LEMMA RecoveryFresh ==
    ASSUME NEW t, t.epoch \in Nat
    PROVE  RecoveryOk(t, CheckpointOf(t), << >>, << >>, CheckpointOf(t))
<1> DEFINE k == CheckpointOf(t)
<1>1. k.datoms = t.datoms /\ k.schema = t.schema /\ k.epoch = t.epoch
  BY Zenon DEF CheckpointOf
<1> HIDE DEF k
<1>2. Replayed(t, k, << >>, 0) /\ Replayed(k, k, << >>, 0)
  BY <1>1, ReplayedLoaded, Zenon
<1>3. Dense(k, k, << >>) /\ Rest(<< >>, << >>) /\ Len(<< >>) = 0 /\ 0 - 0 = 0
  BY <1>1 DEF Dense, Rest
<1>4. RecoveryOk(t, k, << >>, << >>, k)
  BY <1>2, <1>3, Zenon DEF RecoveryOk
<1> QED BY <1>4, Zenon DEF k

\* An entry passed over, and an entry replayed.
LEMMA RecoverySkip ==
    ASSUME NEW s, NEW c \in CheckpointData, NEW l \in Seq(Entry), NEW u \in Seq(Entry),
           NEW a \in CheckpointData, RecoveryOk(s, c, l, u, a), u # << >>,
           Head(u).epoch <= c.epoch
    PROVE  RecoveryOk(s, c, l, Tail(u), a)
<1> DEFINE p == Len(l) - Len(u)
<1>1. Dense(a, c, l) /\ Rest(u, l) /\ Replayed(s, c, l, p) /\ Replayed(a, c, l, Len(l))
  BY Zenon DEF RecoveryOk
<1>2. /\ p \in Nat /\ p + 1 \in 1..Len(l) /\ Head(u) = l[p + 1]
      /\ Rest(Tail(u), l) /\ Len(l) - Len(Tail(u)) = p + 1
  BY <1>1, RestNext, Zenon
<1> HIDE DEF p
<1>3. a.epoch \in Nat /\ c.epoch \in Nat
  BY Zenon DEF CheckpointData
<1>4. l[p + 1].epoch \in Nat
  BY <1>1, <1>2, <1>3, DenseOrder, Zenon
<1>5. p \notin FreshTo(c, l, p)
  <2> SUFFICES ASSUME p \in 1..p PROVE ~ (l[p].epoch > c.epoch)
    BY Zenon DEF FreshTo
  <2>1. p \in 1..Len(l)
    BY <1>2
  <2>2. l[p].epoch \in Nat /\ l[p].epoch <= l[p + 1].epoch
    BY <1>1, <1>2, <1>3, <2>1, DenseOrder, Zenon
  <2> QED BY <1>2, <1>3, <1>4, <2>2
<1>6. Replayed(s, c, l, p + 1)
  BY <1>1, <1>2, <1>3, <1>4, <1>5, ReplayedSkip
<1> QED BY <1>1, <1>2, <1>6, Zenon DEF RecoveryOk

\* One entry of the log is replayed.
LEMMA RecoveryReplay ==
    ASSUME NEW s, NEW c, NEW l \in Seq(Entry), NEW u \in Seq(Entry), NEW a,
           RecoveryOk(s, c, l, u, a), u # << >>, Head(u).epoch > c.epoch,
           NEW t, t.epoch = Head(u).epoch,
           t.datoms = s.datoms \cup Stamped(Head(u).tx, Head(u).changes),
           t.schema \in Evolved(s.schema, Head(u).changes)
    PROVE  RecoveryOk(t, c, l, Tail(u), a)
<1> DEFINE p == Len(l) - Len(u)
           e == Head(u)
<1>1. Dense(a, c, l) /\ Rest(u, l) /\ Replayed(s, c, l, p) /\ Replayed(a, c, l, Len(l))
  BY Zenon DEF RecoveryOk
<1>2. /\ p \in Nat /\ e = l[p + 1]
      /\ Rest(Tail(u), l) /\ Len(l) - Len(Tail(u)) = p + 1
  BY <1>1, RestNext, Zenon
<1>3. /\ e.epoch > c.epoch /\ t.epoch = e.epoch
      /\ t.datoms = s.datoms \cup Stamped(e.tx, e.changes)
      /\ t.schema \in Evolved(s.schema, e.changes)
  BY Zenon
<1> HIDE DEF p, e
<1>4. Replayed(t, c, l, p + 1)
  BY <1>1, <1>2, <1>3, ReplayedNext, Zenon
<1> QED BY <1>1, <1>2, <1>4, Zenon DEF RecoveryOk

\* A new database has an empty store, a checkpoint of it and no log.
LEMMA RecoveryStarts == Init => RecoveryInv
<1> SUFFICES ASSUME Init, NEW r \in Replicas
             PROVE  RecoveryOk(store[r], saved[r], log[r], todo[r], acked[r])
  BY Zenon DEF RecoveryInv
<1>1. EmptyStore.epoch \in Nat
  BY Zenon DEF EmptyStore
<1>2. RecoveryOk(EmptyStore, CheckpointOf(EmptyStore), << >>, << >>,
                 CheckpointOf(EmptyStore))
  BY <1>1, RecoveryFresh, Zenon
<1> QED BY <1>2, Zenon DEF Init

\* The store follows the log through every operation.
LEMMA RecoveryStep == StoreInv /\ RecoveryInv /\ [Next]_storeVars => RecoveryInv'
<1> SUFFICES ASSUME StoreInv, RecoveryInv, [Next]_storeVars PROVE RecoveryInv'
  BY Zenon
<1> DEFINE Ok(r) == RecoveryOk(store[r], saved[r], log[r], todo[r], acked[r])
<1>0. \A r \in Replicas :
        /\ store[r] \in StoreType /\ saved[r] \in CheckpointData
        /\ log[r] \in Seq(Entry) /\ todo[r] \in Seq(Entry) /\ acked[r] \in CheckpointData
  BY Zenon DEF StoreInv, TypeOK
<1>t. TypeOK
  BY Zenon DEF StoreInv
<1>1. ASSUME NEW r \in Replicas, Ok(r)',
             \A q \in Replicas \ {r} :
                /\ store'[q] = store[q] /\ saved'[q] = saved[q] /\ log'[q] = log[q]
                /\ todo'[q] = todo[q] /\ acked'[q] = acked[q]
      PROVE  RecoveryInv'
  <2>1. \A q \in Replicas \ {r} : Ok(q)'
    BY <1>1, Zenon DEF RecoveryInv
  <2> QED BY <1>1, <2>1, Zenon DEF RecoveryInv
<1>2. ASSUME NEW r \in Replicas, Transact(r) PROVE RecoveryInv'
  <2>1. PICK tx \in TxIds \ used, changes \in Payloads :
          /\ \E schema \in Evolved(store[r].schema, changes) :
               LET new == Apply(store[r], store[r].epoch + 1, tx, changes, schema)
               IN  /\ store' = [store EXCEPT ![r] = new]
                   /\ acked' = [acked EXCEPT ![r] = CheckpointOf(new)]
          /\ log' = [log EXCEPT ![r] =
                       Append(@, [epoch |-> store[r].epoch + 1, tx |-> tx,
                                  changes |-> changes])]
    BY <1>2, ZenonT(40) DEF Transact
  <2>2. PICK schema \in Evolved(store[r].schema, changes) :
          LET new == Apply(store[r], store[r].epoch + 1, tx, changes, schema)
          IN  /\ store' = [store EXCEPT ![r] = new]
              /\ acked' = [acked EXCEPT ![r] = CheckpointOf(new)]
    BY <2>1, ZenonT(40)
  <2> DEFINE new == Apply(store[r], store[r].epoch + 1, tx, changes, schema)
             e == [epoch |-> store[r].epoch + 1, tx |-> tx, changes |-> changes]
  <2>3. e \in Entry
    BY <1>0, StoreAssumption DEF StoreType, Entry
  <2>4. /\ new.datoms = store[r].datoms \cup Stamped(tx, changes)
        /\ new.epoch = store[r].epoch + 1 /\ new.schema = schema
    BY Zenon DEF Apply
  <2>5. /\ store' = [store EXCEPT ![r] = new]
        /\ acked' = [acked EXCEPT ![r] = CheckpointOf(new)]
        /\ log' = [log EXCEPT ![r] = Append(@, e)]
        /\ saved' = saved /\ todo' = todo /\ todo[r] = << >>
    BY <1>2, <2>1, <2>2, ZenonT(40) DEF Transact, Open
  <2>6. e.epoch = store[r].epoch + 1 /\ e.tx = tx /\ e.changes = changes
    BY Zenon
  <2> HIDE DEF new, e
  <2>7. RecoveryOk(store[r], saved[r], log[r], << >>, acked[r])
    BY <2>5, Zenon DEF RecoveryInv
  <2>8. RecoveryOk(new, saved[r], Append(log[r], e), << >>, CheckpointOf(new))
    BY <1>0, <2>3, <2>4, <2>6, <2>7, RecoveryCommit, Zenon
  <2>9. /\ store'[r] = new /\ acked'[r] = CheckpointOf(new)
        /\ log'[r] = Append(log[r], e) /\ saved'[r] = saved[r] /\ todo'[r] = << >>
        /\ \A q \in Replicas \ {r} :
              /\ store'[q] = store[q] /\ saved'[q] = saved[q] /\ log'[q] = log[q]
              /\ todo'[q] = todo[q] /\ acked'[q] = acked[q]
    BY <1>t, <2>5, Zenon DEF TypeOK
  <2> QED BY <1>1, <2>8, <2>9, Zenon
<1>3. ASSUME NEW r \in Replicas, Checkpoint(r) PROVE RecoveryInv'
  <2>1. todo[r] = << >>
    BY <1>3, Zenon DEF Checkpoint, Open
  <2>2. RecoveryOk(store[r], CheckpointOf(store[r]), log[r], << >>, acked[r])
    BY <1>0, <2>1, RecoverySave, Zenon DEF RecoveryInv
  <2>3. /\ saved'[r] = CheckpointOf(store[r])
        /\ UNCHANGED <<store, log, todo, acked>>
        /\ \A q \in Replicas \ {r} : saved'[q] = saved[q]
    BY <1>3, <1>t, Zenon DEF Checkpoint, TypeOK
  <2> QED BY <1>1, <2>1, <2>2, <2>3, Zenon
<1>4. ASSUME NEW r \in Replicas, Recover(r) PROVE RecoveryInv'
  <2>1. RecoveryOk(FromCheckpoint(saved[r]), saved[r], log[r], log[r], acked[r])
    BY <1>0, RecoveryLoad, Zenon DEF RecoveryInv
  <2>2. /\ store'[r] = FromCheckpoint(saved[r]) /\ todo'[r] = log[r]
        /\ UNCHANGED <<saved, log, acked>>
        /\ \A q \in Replicas \ {r} : store'[q] = store[q] /\ todo'[q] = todo[q]
    BY <1>4, <1>t, Zenon DEF Recover, TypeOK
  <2> QED BY <1>1, <2>1, <2>2, Zenon
<1>5. ASSUME NEW r \in Replicas, SkipEntry(r) PROVE RecoveryInv'
  <2>1. /\ todo[r] # << >> /\ Head(todo[r]).epoch <= saved[r].epoch
        /\ todo'[r] = Tail(todo[r]) /\ UNCHANGED <<store, saved, log, acked>>
        /\ \A q \in Replicas \ {r} : todo'[q] = todo[q]
    BY <1>5, <1>t, Zenon DEF SkipEntry, TypeOK
  <2>2. RecoveryOk(store[r], saved[r], log[r], Tail(todo[r]), acked[r])
    BY <1>0, <2>1, RecoverySkip, Zenon DEF RecoveryInv
  <2> QED BY <1>1, <2>1, <2>2, Zenon
<1>6. ASSUME NEW r \in Replicas, ReplayEntry(r) PROVE RecoveryInv'
  <2> DEFINE e == Head(todo[r])
  <2>1. PICK schema \in Evolved(store[r].schema, e.changes) :
          store' = [store EXCEPT ![r] =
                      Apply(store[r], e.epoch, e.tx, e.changes, schema)]
    BY <1>6, ZenonT(40) DEF ReplayEntry
  <2> DEFINE new == Apply(store[r], e.epoch, e.tx, e.changes, schema)
  <2>2. /\ new.datoms = store[r].datoms \cup Stamped(e.tx, e.changes)
        /\ new.epoch = e.epoch /\ new.schema = schema
    BY Zenon DEF Apply
  <2>3. /\ store' = [store EXCEPT ![r] = new]
        /\ todo' = [todo EXCEPT ![r] = Tail(@)]
        /\ UNCHANGED <<saved, log, acked>>
        /\ todo[r] # << >> /\ e.epoch > saved[r].epoch
    BY <1>6, <2>1, ZenonT(40) DEF ReplayEntry
  <2> HIDE DEF new
  <2>4. RecoveryOk(new, saved[r], log[r], Tail(todo[r]), acked[r])
    BY <1>0, <2>2, <2>3, RecoveryReplay, Zenon DEF RecoveryInv
  <2>5. /\ store'[r] = new /\ todo'[r] = Tail(todo[r])
        /\ \A q \in Replicas \ {r} : store'[q] = store[q] /\ todo'[q] = todo[q]
    BY <1>t, <2>3, Zenon DEF TypeOK
  <2> QED BY <1>1, <2>3, <2>4, <2>5, Zenon
<1>7. ASSUME NEW r \in Replicas, NEW new, Sound(new), Install(r, new), Open(r)
      PROVE  RecoveryInv'
  <2>1. new.epoch \in Nat
    BY <1>7, Zenon DEF Sound, StoreType
  <2>2. RecoveryOk(new, CheckpointOf(new), << >>, << >>, CheckpointOf(new))
    BY <2>1, RecoveryFresh, Zenon
  <2>3. /\ store'[r] = new /\ saved'[r] = CheckpointOf(new) /\ log'[r] = << >>
        /\ todo'[r] = << >> /\ acked'[r] = CheckpointOf(new) /\ todo' = todo
        /\ \A q \in Replicas \ {r} :
              /\ store'[q] = store[q] /\ saved'[q] = saved[q] /\ log'[q] = log[q]
              /\ acked'[q] = acked[q]
    BY <1>7, <1>t, Zenon DEF Install, Open, TypeOK
  <2> QED BY <1>1, <2>2, <2>3, Zenon
<1>8. ASSUME NEW r \in Replicas, NEW s \in Replicas, Merge(r, s) \/ MergeSome(r, s)
      PROVE  RecoveryInv'
  <2>1. Sound(store[r]) /\ Sound(store[s])
    BY Zenon DEF StoreInv, StoresSound
  <2>2. CASE Merge(r, s)
    BY <2>1, <2>2, <1>7, MergeSound, Zenon DEF Merge
  <2>3. CASE MergeSome(r, s)
    BY <2>1, <2>3, <1>7, SelectiveSound, Zenon DEF MergeSome
  <2> QED BY <1>8, <2>2, <2>3, Zenon
<1>9. CASE UNCHANGED storeVars
  BY <1>9, Zenon DEF storeVars, RecoveryInv
<1> QED BY <1>2, <1>3, <1>4, <1>5, <1>6, <1>8, <1>9, Zenon DEF Next

\* Database::recover brings back the store that was acknowledged: the same
\* datoms and epoch, and every definition that no logged transaction gives
\* twice, for every sequence of commits, merges, checkpoints and crashes, also
\* during recovery.
THEOREM RecoveryExact == Spec => []RecoveredExact
<1>1. StoreInv /\ RecoveryInv => RecoveredExact
  <2> SUFFICES ASSUME StoreInv, RecoveryInv, NEW r \in Replicas, Open(r)
               PROVE  /\ store[r].datoms = acked[r].datoms
                      /\ store[r].epoch = acked[r].epoch
                      /\ \A a \in Attrs : \/ Ambiguous(r, a)
                                          \/ store[r].schema[a] = acked[r].schema[a]
    BY Zenon DEF RecoveredExact
  <2>1. /\ log[r] \in Seq(Entry) /\ store[r] \in StoreType /\ acked[r] \in CheckpointData
        /\ RecoveryOk(store[r], saved[r], log[r], << >>, acked[r])
    BY Zenon DEF StoreInv, TypeOK, RecoveryInv, Open
  <2>2. Agree(store[r], acked[r], log[r])
    BY <2>1, OpenExact, Zenon
  <2>3. store[r].datoms \subseteq Datom /\ acked[r].datoms \subseteq Datom
    BY <2>1, Zenon DEF StoreType, CheckpointData
  <2>4. store[r].datoms = acked[r].datoms
    BY <2>2, <2>3, Zenon DEF Agree
  <2>5. \A a : TwoWays(log[r], a) <=> Ambiguous(r, a)
    BY Zenon DEF TwoWays, Ambiguous
  <2> QED BY <2>2, <2>4, <2>5, Zenon DEF Agree
<1> QED BY <1>1, StoreInvariant, RecoveryStarts, RecoveryStep, PTL DEF Spec

-----------------------------------------------------------------------------
\* The attribute of a datom is one of the attributes.
LEMMA AttributeOf ==
    ASSUME NEW d \in Datom
    PROVE  (IF d.triple[1] \in DataKeys THEN AttrOf[d.triple[1]] ELSE d.triple[1]) \in Attrs
<1>1. d.triple[1] \in DataKeys \cup Attrs
  BY Zenon DEF Datom, Triples, Keys
<1> QED BY <1>1, StoreAssumption, Zenon

\* evolve_schema drops no attribute and adds the ones the transaction defines.
LEMMA EvolvedKeeps ==
    ASSUME NEW schema, NEW changes, NEW new \in Evolved(schema, changes), NEW a \in Attrs,
           schema[a] # NoDef \/ Defining(changes, a) # {}
    PROVE  new[a] # NoDef
<1>1. Defining(changes, a) \subseteq Values /\ NoDef \notin Values
  BY StoreAssumption, Zenon DEF Defining, NoDef
<1> QED BY <1>1, Zenon DEF Evolved

\* A transaction that validate_datoms accepts.
LEMMA BackedApply ==
    ASSUME NEW s, s.datoms \subseteq Datom, Backed(s), NEW changes \in Seq(Change),
           Valid(s.schema, changes), NEW tx, NEW t,
           t.datoms = s.datoms \cup Stamped(tx, changes),
           t.schema \in Evolved(s.schema, changes)
    PROVE  Backed(t)
<1> SUFFICES ASSUME NEW d \in t.datoms
             PROVE  t.schema[IF d.triple[1] \in DataKeys THEN AttrOf[d.triple[1]]
                             ELSE d.triple[1]] # NoDef
  BY Zenon DEF Backed
<1>1. CASE d \in s.datoms
  <2>1. (IF d.triple[1] \in DataKeys THEN AttrOf[d.triple[1]] ELSE d.triple[1]) \in Attrs
    BY <1>1, AttributeOf, Zenon
  <2>2. s.schema[IF d.triple[1] \in DataKeys THEN AttrOf[d.triple[1]]
                 ELSE d.triple[1]] # NoDef
    BY <1>1, Zenon DEF Backed
  <2> QED BY <2>1, <2>2, EvolvedKeeps, Zenon
<1>2. CASE d \in Stamped(tx, changes)
  <2>1. PICK i \in 1..Len(changes) :
           d = [triple |-> changes[i].triple, tx |-> tx, op |-> changes[i].op]
    BY <1>2, Zenon DEF Stamped
  <2>2. changes[i] \in Change /\ d.triple = changes[i].triple
    BY <2>1
  <2>3. PICK k \in Keys, v \in Values : changes[i].triple = <<k, v>>
    BY <2>2 DEF Change, Triples
  <2>4. d.triple[1] = k /\ changes[i].triple[1] = k
    BY <2>2, <2>3
  <2>5. CASE k \in DataKeys
    <3>1. AttrOf[k] \in Attrs
      BY <2>5, StoreAssumption, Zenon
    <3>2. s.schema[AttrOf[k]] # NoDef
      BY <2>4, <2>5, Zenon DEF Valid
    <3>3. t.schema[AttrOf[k]] # NoDef
      BY <3>1, <3>2, EvolvedKeeps, Zenon
    <3> QED BY <2>4, <2>5, <3>3, Zenon
  <2>6. CASE k \notin DataKeys
    <3>1. k \in Attrs /\ v \in Defining(changes, k)
      BY <2>3, <2>6, Zenon DEF Keys, Defining
    <3>2. t.schema[k] # NoDef
      BY <3>1, EvolvedKeeps, Zenon
    <3> QED BY <2>4, <2>6, <3>2, Zenon
  <2> QED BY <2>5, <2>6, Zenon
<1> QED BY <1>1, <1>2, Zenon

\* A merge takes the whole of both schemas, whichever datoms it takes.
LEMMA BackedMerge ==
    ASSUME NEW a, a.datoms \subseteq Datom, Backed(a),
           NEW b, b.datoms \subseteq Datom, Backed(b),
           NEW t, t.datoms \subseteq a.datoms \cup b.datoms,
           t.schema = MergeSchemas(a.schema, b.schema)
    PROVE  Backed(t)
<1>1. \A x \in Attrs : a.schema[x] # NoDef \/ b.schema[x] # NoDef => t.schema[x] # NoDef
  BY Zenon DEF MergeSchemas
<1> SUFFICES ASSUME NEW d \in t.datoms
             PROVE  t.schema[IF d.triple[1] \in DataKeys THEN AttrOf[d.triple[1]]
                             ELSE d.triple[1]] # NoDef
  BY Zenon DEF Backed
<1> DEFINE x == IF d.triple[1] \in DataKeys THEN AttrOf[d.triple[1]] ELSE d.triple[1]
<1>2. x \in Attrs
  BY AttributeOf, Zenon
<1>3. a.schema[x] # NoDef \/ b.schema[x] # NoDef
  BY Zenon DEF Backed
<1> HIDE DEF x
<1>4. t.schema[x] # NoDef
  BY <1>1, <1>2, <1>3, Zenon
<1> QED BY <1>4, Zenon DEF x

\* The entry a commit appends uses attributes that its store had.
LEMMA EntriesAppended ==
    ASSUME NEW s, NEW c, NEW l \in Seq(Entry), NEW e \in Entry, EntriesBacked(c, l),
           Replayed(s, c, l, Len(l)), Valid(s.schema, e.changes)
    PROVE  EntriesBacked(c, Append(l, e))
<1> DEFINE m == Append(l, e)
<1>1. Len(m) = Len(l) + 1 /\ Len(l) \in Nat /\ m[Len(l) + 1] = e
  OBVIOUS
<1>2. \A p \in 0..Len(l) : \A a : Definers(c, m, p, a) = Definers(c, l, p, a)
  BY FreshAppended, Zenon
<1>3. FreshTo(c, m, Len(l)) = FreshTo(c, l, Len(l))
      /\ \A i \in FreshTo(c, l, Len(l)) : m[i] = l[i]
  <2>1. Len(l) \in 0..Len(l)
    OBVIOUS
  <2>2. FreshTo(c, m, Len(l)) = FreshTo(c, l, Len(l))
    BY <2>1, FreshAppended, Zenon
  <2>3. \A i \in FreshTo(c, l, Len(l)) : m[i] = l[i]
    BY <2>1, FreshAppended, Zenon
  <2> QED BY <2>2, <2>3, Zenon
<1> HIDE DEF m
<1> SUFFICES ASSUME NEW i \in FreshTo(c, m, Len(m)), NEW n \in 1..Len(m[i].changes),
                    m[i].changes[n].triple[1] \in DataKeys
             PROVE  \/ c.schema[AttrOf[m[i].changes[n].triple[1]]] # NoDef
                    \/ Definers(c, m, i - 1, AttrOf[m[i].changes[n].triple[1]]) # {}
  BY Zenon DEF EntriesBacked, m
<1>4. i \in 1..(Len(l) + 1)
  BY <1>1, Zenon DEF FreshTo
<1>5. CASE i = Len(l) + 1
  <2> DEFINE a == AttrOf[e.changes[n].triple[1]]
  <2>1. m[i] = e /\ i - 1 = Len(l) /\ i - 1 \in 0..Len(l)
    BY <1>1, <1>5
  <2>2. a \in Attrs /\ s.schema[a] # NoDef
    BY <2>1, StoreAssumption, Zenon DEF Valid
  <2> HIDE DEF a
  <2>3. c.schema[a] # NoDef \/ Definers(c, l, Len(l), a) # {}
    BY <2>2, Zenon DEF Replayed, Settled
  <2>4. c.schema[a] # NoDef \/ Definers(c, m, i - 1, a) # {}
    BY <1>2, <2>1, <2>3, Zenon
  <2> QED BY <2>1, <2>4, Zenon DEF a
<1>6. CASE i # Len(l) + 1
  <2>1. i \in 1..Len(l) /\ i - 1 \in 0..Len(l)
    BY <1>1, <1>4, <1>6
  <2>2. i \in FreshTo(c, m, Len(l))
    BY <2>1, Zenon DEF FreshTo
  <2>3. i \in FreshTo(c, l, Len(l)) /\ m[i] = l[i]
    BY <1>3, <2>2, Zenon
  <2> DEFINE a == AttrOf[l[i].changes[n].triple[1]]
  <2>4. c.schema[a] # NoDef \/ Definers(c, l, i - 1, a) # {}
    BY <2>3, Zenon DEF EntriesBacked
  <2> HIDE DEF a
  <2>5. c.schema[a] # NoDef \/ Definers(c, m, i - 1, a) # {}
    BY <1>2, <2>1, <2>4, Zenon
  <2> QED BY <2>3, <2>5, Zenon DEF a
<1> QED BY <1>5, <1>6, Zenon

\* Recovery reaches an entry with the attributes it needs.
LEMMA EntryValid ==
    ASSUME NEW s, NEW c, NEW l \in Seq(Entry), NEW p \in Nat, p + 1 \in 1..Len(l),
           l[p + 1].epoch > c.epoch, Replayed(s, c, l, p), EntriesBacked(c, l)
    PROVE  Valid(s.schema, l[p + 1].changes)
<1> SUFFICES ASSUME NEW n \in 1..Len(l[p + 1].changes),
                    l[p + 1].changes[n].triple[1] \in DataKeys
             PROVE  s.schema[AttrOf[l[p + 1].changes[n].triple[1]]] # NoDef
  BY Zenon DEF Valid
<1> DEFINE a == AttrOf[l[p + 1].changes[n].triple[1]]
<1>1. p + 1 \in FreshTo(c, l, Len(l)) /\ (p + 1) - 1 = p
  BY DEF FreshTo
<1>2. c.schema[a] # NoDef \/ Definers(c, l, p, a) # {}
  BY <1>1, Zenon DEF EntriesBacked
<1>3. a \in Attrs
  BY StoreAssumption, Zenon
<1> HIDE DEF a
<1>4. s.schema[a] # NoDef
  BY <1>2, <1>3, Zenon DEF Replayed, Settled
<1> QED BY <1>4, Zenon DEF a

\* A checkpoint of the open store leaves no entry to replay.
LEMMA EntriesSaved ==
    ASSUME NEW s \in StoreType, NEW c, NEW l \in Seq(Entry), NEW a \in CheckpointData,
           RecoveryOk(s, c, l, << >>, a)
    PROVE  EntriesBacked(CheckpointOf(s), l)
<1> DEFINE k == CheckpointOf(s)
<1>1. k.epoch = s.epoch /\ s.epoch = a.epoch /\ a.epoch \in Nat /\ Dense(a, c, l)
  BY OpenExact DEF CheckpointOf, Agree, CheckpointData, RecoveryOk
<1> HIDE DEF k
<1>2. \A i \in 1..Len(l) : ~ (l[i].epoch > k.epoch)
  BY <1>1, DenseOrder
<1>3. FreshTo(k, l, Len(l)) = {}
  BY <1>2, Zenon DEF FreshTo
<1>4. EntriesBacked(k, l)
  BY <1>3, Zenon DEF EntriesBacked
<1> QED BY <1>4, Zenon DEF k

\* The start of a store: its definitions are backed.
LEMMA BackedStarts == Init => BackedInv
<1>1. Backed(EmptyStore) /\ Backed(CheckpointOf(EmptyStore))
  BY Zenon DEF EmptyStore, CheckpointOf, Backed
<1>2. EntriesBacked(CheckpointOf(EmptyStore), << >>)
  BY DEF EntriesBacked, FreshTo
<1> QED BY <1>1, <1>2, Zenon DEF Init, BackedInv

\* Every operation leaves every datom with its attribute.
LEMMA BackedStep ==
    StoreInv /\ RecoveryInv /\ BackedInv /\ [Next]_storeVars => BackedInv'
<1> SUFFICES ASSUME StoreInv, RecoveryInv, BackedInv, [Next]_storeVars PROVE BackedInv'
  BY Zenon
<1> DEFINE Ok(r) ==
             Backed(store[r]) /\ Backed(saved[r]) /\ EntriesBacked(saved[r], log[r])
<1>0. \A r \in Replicas :
        /\ store[r] \in StoreType /\ saved[r] \in CheckpointData
        /\ log[r] \in Seq(Entry) /\ todo[r] \in Seq(Entry) /\ acked[r] \in CheckpointData
        /\ store[r].datoms \subseteq Datom
  BY Zenon DEF StoreInv, TypeOK, StoreType
<1>t. TypeOK
  BY Zenon DEF StoreInv
<1>1. ASSUME NEW r \in Replicas, Ok(r)',
             \A q \in Replicas \ {r} :
                store'[q] = store[q] /\ saved'[q] = saved[q] /\ log'[q] = log[q]
      PROVE  BackedInv'
  <2>1. \A q \in Replicas \ {r} : Ok(q)'
    BY <1>1, Zenon DEF BackedInv
  <2> QED BY <1>1, <2>1, Zenon DEF BackedInv
<1>c. ASSUME NEW s, Backed(s) PROVE Backed(CheckpointOf(s))
  BY <1>c, Zenon DEF Backed, CheckpointOf
<1>2. ASSUME NEW r \in Replicas, Transact(r) PROVE BackedInv'
  <2>1. PICK tx \in TxIds \ used, changes \in Payloads :
          /\ Valid(store[r].schema, changes)
          /\ \E schema \in Evolved(store[r].schema, changes) :
               LET new == Apply(store[r], store[r].epoch + 1, tx, changes, schema)
               IN  /\ store' = [store EXCEPT ![r] = new]
                   /\ acked' = [acked EXCEPT ![r] = CheckpointOf(new)]
          /\ log' = [log EXCEPT ![r] =
                       Append(@, [epoch |-> store[r].epoch + 1, tx |-> tx,
                                  changes |-> changes])]
    BY <1>2, ZenonT(40) DEF Transact
  <2>2. PICK schema \in Evolved(store[r].schema, changes) :
          store' = [store EXCEPT ![r] =
                      Apply(store[r], store[r].epoch + 1, tx, changes, schema)]
    BY <2>1, ZenonT(40)
  <2> DEFINE new == Apply(store[r], store[r].epoch + 1, tx, changes, schema)
             e == [epoch |-> store[r].epoch + 1, tx |-> tx, changes |-> changes]
  <2>3. e \in Entry /\ changes \in Seq(Change) /\ e.changes = changes
    BY <1>0, StoreAssumption DEF StoreType, Entry
  <2>4. /\ new.datoms = store[r].datoms \cup Stamped(tx, changes)
        /\ new.schema = schema
    BY Zenon DEF Apply
  <2>5. /\ store' = [store EXCEPT ![r] = new]
        /\ log' = [log EXCEPT ![r] = Append(@, e)]
        /\ saved' = saved /\ todo[r] = << >>
    BY <1>2, <2>1, <2>2, ZenonT(40) DEF Transact, Open
  <2> HIDE DEF new, e
  <2>6. Backed(new)
    BY <1>0, <2>1, <2>3, <2>4, BackedApply, Zenon DEF BackedInv
  <2>7. Replayed(store[r], saved[r], log[r], Len(log[r]))
    BY <1>0, <2>5, OpenExact, Zenon DEF RecoveryInv
  <2>8. EntriesBacked(saved[r], Append(log[r], e))
    BY <1>0, <2>1, <2>3, <2>7, EntriesAppended, Zenon DEF BackedInv
  <2>9. /\ store'[r] = new /\ log'[r] = Append(log[r], e) /\ saved'[r] = saved[r]
        /\ \A q \in Replicas \ {r} :
              store'[q] = store[q] /\ saved'[q] = saved[q] /\ log'[q] = log[q]
    BY <1>t, <2>5, Zenon DEF TypeOK
  <2> QED BY <1>1, <2>6, <2>8, <2>9, Zenon DEF BackedInv
<1>3. ASSUME NEW r \in Replicas, Checkpoint(r) PROVE BackedInv'
  <2>1. RecoveryOk(store[r], saved[r], log[r], << >>, acked[r])
    BY <1>3, Zenon DEF Checkpoint, Open, RecoveryInv
  <2>2. EntriesBacked(CheckpointOf(store[r]), log[r])
    BY <1>0, <2>1, EntriesSaved, Zenon
  <2>3. /\ saved'[r] = CheckpointOf(store[r]) /\ store' = store /\ log' = log
        /\ \A q \in Replicas \ {r} : saved'[q] = saved[q]
    BY <1>3, <1>t, Zenon DEF Checkpoint, TypeOK
  <2>4. Backed(store[r]) /\ Backed(CheckpointOf(store[r]))
    BY <1>c, Zenon DEF BackedInv
  <2> QED BY <1>1, <2>2, <2>3, <2>4, Zenon
<1>4. ASSUME NEW r \in Replicas, Recover(r) PROVE BackedInv'
  <2>1. /\ store'[r] = FromCheckpoint(saved[r]) /\ saved' = saved /\ log' = log
        /\ \A q \in Replicas \ {r} : store'[q] = store[q]
    BY <1>4, <1>t, Zenon DEF Recover, TypeOK
  <2>2. Backed(saved[r]) /\ EntriesBacked(saved[r], log[r])
    BY Zenon DEF BackedInv
  <2>3. Backed(FromCheckpoint(saved[r]))
    BY <2>2, Zenon DEF Backed, FromCheckpoint
  <2> QED BY <1>1, <2>1, <2>2, <2>3, Zenon
<1>5. ASSUME NEW r \in Replicas, ReplayEntry(r) PROVE BackedInv'
  <2> DEFINE e == Head(todo[r])
             p == Len(log[r]) - Len(todo[r])
  <2>1. PICK schema \in Evolved(store[r].schema, e.changes) :
          store' = [store EXCEPT ![r] =
                      Apply(store[r], e.epoch, e.tx, e.changes, schema)]
    BY <1>5, ZenonT(40) DEF ReplayEntry
  <2> DEFINE new == Apply(store[r], e.epoch, e.tx, e.changes, schema)
  <2>2. /\ new.datoms = store[r].datoms \cup Stamped(e.tx, e.changes)
        /\ new.schema = schema
    BY Zenon DEF Apply
  <2>3. /\ store' = [store EXCEPT ![r] = new] /\ saved' = saved /\ log' = log
        /\ todo[r] # << >> /\ e.epoch > saved[r].epoch
    BY <1>5, <2>1, ZenonT(40) DEF ReplayEntry
  <2>4. /\ Rest(todo[r], log[r]) /\ Replayed(store[r], saved[r], log[r], p)
        /\ EntriesBacked(saved[r], log[r]) /\ Backed(store[r]) /\ Backed(saved[r])
    BY Zenon DEF RecoveryInv, RecoveryOk, BackedInv
  <2>5. p \in Nat /\ p + 1 \in 1..Len(log[r]) /\ e = log[r][p + 1]
    BY <1>0, <2>3, <2>4, RestNext, Zenon
  <2>6. e.changes \in Seq(Change)
    <3>1. e \in Entry
      BY <1>0, <2>3
    <3> HIDE DEF e
    <3> QED BY <3>1, Zenon DEF Entry
  <2> HIDE DEF new, e, p
  <2>7. Valid(store[r].schema, e.changes)
    BY <1>0, <2>3, <2>4, <2>5, EntryValid, Zenon
  <2>8. Backed(new)
    BY <1>0, <2>2, <2>4, <2>6, <2>7, BackedApply, Zenon
  <2>9. store'[r] = new /\ \A q \in Replicas \ {r} : store'[q] = store[q]
    BY <1>t, <2>3, Zenon DEF TypeOK
  <2> QED BY <1>1, <2>3, <2>4, <2>8, <2>9, Zenon
<1>6. ASSUME NEW r \in Replicas, NEW new, Backed(new), Install(r, new) PROVE BackedInv'
  <2>1. EntriesBacked(CheckpointOf(new), << >>)
    BY DEF EntriesBacked, FreshTo
  <2>2. Backed(CheckpointOf(new))
    BY <1>6, <1>c, Zenon
  <2>3. /\ store'[r] = new /\ saved'[r] = CheckpointOf(new) /\ log'[r] = << >>
        /\ \A q \in Replicas \ {r} :
              store'[q] = store[q] /\ saved'[q] = saved[q] /\ log'[q] = log[q]
    BY <1>6, <1>t, Zenon DEF Install, TypeOK
  <2> QED BY <1>1, <1>6, <2>1, <2>2, <2>3, Zenon
<1>7. ASSUME NEW r \in Replicas, NEW s \in Replicas, Merge(r, s) \/ MergeSome(r, s)
      PROVE  BackedInv'
  <2>1. Backed(store[r]) /\ Backed(store[s])
    BY Zenon DEF BackedInv
  <2>2. CASE Merge(r, s)
    <3> DEFINE t == FromMerge(store[r], store[s])
    <3>1. /\ t.datoms \subseteq store[r].datoms \cup store[s].datoms
          /\ t.schema = MergeSchemas(store[r].schema, store[s].schema)
      BY Zenon DEF FromMerge
    <3>2. Install(r, t)
      BY <2>2, Zenon DEF Merge
    <3> HIDE DEF t
    <3>3. Backed(t)
      BY <1>0, <2>1, <3>1, BackedMerge, Zenon
    <3> QED BY <1>6, <3>2, <3>3, Zenon
  <2>3. CASE MergeSome(r, s)
    <3>1. PICK f \in Filters : Install(r, SelectiveMerge(store[r], store[s], f))
      BY <2>3, Zenon DEF MergeSome
    <3> DEFINE t == SelectiveMerge(store[r], store[s], f)
    <3>2. /\ t.datoms \subseteq store[r].datoms \cup store[s].datoms
          /\ t.schema = MergeSchemas(store[r].schema, store[s].schema)
      BY Zenon DEF SelectiveMerge
    <3>3. Install(r, t)
      BY <3>1, Zenon
    <3> HIDE DEF t
    <3>4. Backed(t)
      BY <1>0, <2>1, <3>2, BackedMerge, Zenon
    <3> QED BY <1>6, <3>3, <3>4, Zenon
  <2> QED BY <1>7, <2>2, <2>3, Zenon
<1>8. ASSUME NEW r \in Replicas, SkipEntry(r) PROVE BackedInv'
  BY <1>8, Zenon DEF SkipEntry, BackedInv
<1>9. CASE UNCHANGED storeVars
  BY <1>9, Zenon DEF storeVars, BackedInv
<1> QED BY <1>2, <1>3, <1>4, <1>5, <1>7, <1>8, <1>9, Zenon DEF Next

\* No store holds a fact whose attribute its schema lacks, for every set of
\* replicas, attributes, transactions and filters: merge and selective_merge
\* validate nothing and recovery replays without validating.
THEOREM SchemaCovers == Spec => []AttributesDefined
<1>1. BackedInv => AttributesDefined
  BY Zenon DEF BackedInv, Backed, AttributesDefined
<1> QED BY <1>1, StoreInvariant, RecoveryStarts, RecoveryStep, BackedStarts, BackedStep,
        PTL DEF Spec
=============================================================================
