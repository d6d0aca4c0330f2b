------------------------ MODULE ChunkTransferProofs ------------------------
(***************************************************************************)
(* Copies between chunk stores leave no unaccounted holes, for every       *)
(* source, every number of callers and every failure.                      *)
(***************************************************************************)
EXTENDS ChunkTransfer, TLAPS

\* A running call's root is in the destination or still to be visited; what
\* was reported as copied is in the destination.
RootsHeld ==
    /\ \A p \in Callers : pc[p] \in {"visit", "copy"} =>
          root[p] \in dst \cup Elements(todo[p])
    /\ done \subseteq dst

TransferInv == TypeOK /\ HolesAccounted /\ RootsHeld

\* The elements of a stack under the operations of the walk.
LEMMA Stacks ==
    ASSUME NEW s \in Seq(Chunks), NEW t \in Seq(Chunks)
    PROVE  /\ Elements(s \o t) = Elements(s) \cup Elements(t)
           /\ s # << >> => /\ Head(s) \in Chunks
                           /\ Tail(s) \in Seq(Chunks)
                           /\ Elements(s) = {Head(s)} \cup Elements(Tail(s))
           /\ Elements(s) \subseteq Chunks
<1>1. Elements(s \o t) = Elements(s) \cup Elements(t)
  <2>1. \A x \in Elements(s \o t) : x \in Elements(s) \cup Elements(t)
    <3> SUFFICES ASSUME NEW i \in 1..(Len(s) + Len(t))
                 PROVE  (s \o t)[i] \in Elements(s) \cup Elements(t)
      BY DEF Elements
    <3>1. CASE i <= Len(s)
      BY <3>1 DEF Elements
    <3>2. CASE i > Len(s)
      <4>1. i - Len(s) \in DOMAIN t /\ (s \o t)[i] = t[i - Len(s)]
        BY <3>2
      <4> QED BY <4>1 DEF Elements
    <3> QED BY <3>1, <3>2
  <2>2. \A i \in DOMAIN s : i \in DOMAIN (s \o t) /\ (s \o t)[i] = s[i]
    OBVIOUS
  <2>3. \A i \in DOMAIN t : /\ i + Len(s) \in DOMAIN (s \o t)
                            /\ (s \o t)[i + Len(s)] = t[i]
    OBVIOUS
  <2>4. Elements(s) \subseteq Elements(s \o t)
    BY <2>2 DEF Elements
  <2>5. Elements(t) \subseteq Elements(s \o t)
    BY <2>3, ZenonT(40) DEF Elements
  <2> QED BY <2>1, <2>4, <2>5
<1>2. ASSUME s # << >>
      PROVE  /\ Head(s) \in Chunks
             /\ Tail(s) \in Seq(Chunks)
             /\ Elements(s) = {Head(s)} \cup Elements(Tail(s))
  <2>1. Head(s) = s[1] /\ 1 \in DOMAIN s /\ Tail(s) \in Seq(Chunks)
    BY <1>2
  <2>2. \A i \in DOMAIN Tail(s) : i + 1 \in DOMAIN s /\ Tail(s)[i] = s[i + 1]
    BY <1>2
  <2>3. \A i \in DOMAIN s : i # 1 => /\ i - 1 \in DOMAIN Tail(s)
                                     /\ s[i] = Tail(s)[i - 1]
    BY <1>2
  <2>4. Elements(s) \subseteq {Head(s)} \cup Elements(Tail(s))
    BY <2>1, <2>3, ZenonT(30) DEF Elements
  <2>5. Elements(Tail(s)) \subseteq Elements(s)
    BY <2>2 DEF Elements
  <2>6. Head(s) \in Elements(s)
    BY <2>1 DEF Elements
  <2> QED BY <2>1, <2>4, <2>5, <2>6
<1>3. Elements(s) \subseteq Chunks
  BY DEF Elements
<1> QED BY <1>1, <1>2, <1>3

\* No address waits on an empty stack.
LEMMA EmptyStack == Elements(<< >>) = {}
  BY DEF Elements

\* The start of a transfer.
LEMMA TransferInit == Init => TransferInv
  BY ChunkAssumption, EmptyStack
  DEF Init, TransferInv, TypeOK, HolesAccounted, RootsHeld, Closed

\* A step of p leaves the stacks of the others alone: if the destination does
\* not shrink and p's stack loses only chunks the destination has or that are
\* given up, no hole is left unaccounted for.
LEMMA HolesStep ==
    ASSUME TypeOK, HolesAccounted, NEW p \in Callers, NEW s \in Seq(Chunks),
           todo' = [todo EXCEPT ![p] = s],
           dst \subseteq dst',
           abandoned \subseteq abandoned',
           Elements(todo[p]) \subseteq Elements(s) \cup dst' \cup abandoned',
           \A c \in dst' \ dst : ChildrenOf(c) \subseteq Elements(s)
    PROVE  HolesAccounted'
<1>1. \A q \in Callers : q # p => todo'[q] = todo[q]
  BY DEF TypeOK
<1>2. todo'[p] = s
  BY DEF TypeOK
<1>3. Pending \subseteq Pending' \cup dst' \cup abandoned'
  BY <1>1, <1>2 DEF Pending
<1>4. Elements(s) \subseteq Pending'
  BY <1>2 DEF Pending
<1> QED BY <1>3, <1>4 DEF HolesAccounted

\* One step of a transfer, one case for each action.
LEMMA TransferStep == TransferInv /\ [Next]_transferVars => TransferInv'
<1> SUFFICES ASSUME TransferInv, [Next]_transferVars PROVE TransferInv'
  OBVIOUS
<1> USE DEF TransferInv
<1> << >> \in Seq(Chunks) /\ Elements(<< >>) = {}
  BY EmptyStack
<1>1. ASSUME NEW p \in Callers, BeginTransfer(p) PROVE TransferInv'
  <2>1. PICK r \in Roots : /\ root' = [root EXCEPT ![p] = r]
                           /\ todo' = [todo EXCEPT ![p] = <<r>>]
    BY <1>1, ZenonT(40) DEF BeginTransfer
  <2>2. pc[p] = "idle" /\ pc' = [pc EXCEPT ![p] = "visit"]
        /\ dst' = dst /\ done' = done /\ abandoned' = abandoned
    BY <1>1 DEF BeginTransfer
  <2>3. r \in Chunks /\ <<r>> \in Seq(Chunks) /\ r \in Elements(<<r>>) /\ r # NoRoot
    BY ChunkAssumption DEF Elements
  <2>4. TypeOK'
    BY <2>1, <2>2, <2>3 DEF TypeOK
  <2>5. HolesAccounted'
    BY <2>1, <2>2, <2>3, HolesStep, ZenonT(40) DEF TypeOK
  <2>6. RootsHeld'
    BY <2>1, <2>2, <2>3 DEF RootsHeld, TypeOK
  <2> QED BY <2>4, <2>5, <2>6
<1>2. ASSUME NEW p \in Callers, BeginSnapshot(p) PROVE TransferInv'
  <2>1. PICK m \in Manifests : root' = [root EXCEPT ![p] = m]
    BY <1>2, ZenonT(40) DEF BeginSnapshot
  <2>2. pc[p] = "idle" /\ pc' = [pc EXCEPT ![p] = "manifest"] /\ todo' = todo
        /\ dst' = dst /\ done' = done /\ abandoned' = abandoned
    BY <1>2 DEF BeginSnapshot
  <2>3. m \in Chunks /\ m # NoRoot
    BY ChunkAssumption
  <2>4. TypeOK'
    BY <2>1, <2>2, <2>3 DEF TypeOK
  <2>5. HolesAccounted' /\ RootsHeld'
    BY <2>1, <2>2 DEF HolesAccounted, Pending, RootsHeld, TypeOK
  <2> QED BY <2>4, <2>5
<1>3. ASSUME NEW p \in Callers, CopyManifest(p) PROVE TransferInv'
  <2>1. pc[p] = "manifest" /\ pc' = [pc EXCEPT ![p] = "visit"]
        /\ dst' = dst \cup {root[p]}
        /\ todo' = [todo EXCEPT ![p] = Children[root[p]]]
        /\ root' = root /\ done' = done /\ abandoned' = abandoned
    BY <1>3 DEF CopyManifest
  <2>2. root[p] \in Chunks /\ todo[p] = << >>
    BY <2>1 DEF TypeOK
  <2>3. Children[root[p]] \in Seq(Chunks)
    BY <2>2, ChunkAssumption
  <2>4. TypeOK'
    BY <2>1, <2>2, <2>3 DEF TypeOK
  <2>5. HolesAccounted'
    BY <2>1, <2>2, <2>3, HolesStep, ZenonT(40) DEF ChildrenOf
  <2>6. RootsHeld'
    BY <2>1 DEF RootsHeld, TypeOK
  <2> QED BY <2>4, <2>5, <2>6
<1>4. ASSUME NEW p \in Callers, Prune(p) PROVE TransferInv'
  <2>1. pc[p] = "visit" /\ todo[p] # << >> /\ Head(todo[p]) \in dst
        /\ todo' = [todo EXCEPT ![p] = Tail(todo[p])]
        /\ dst' = dst /\ pc' = pc /\ root' = root
        /\ done' = done /\ abandoned' = abandoned
    BY <1>4 DEF Prune
  <2>2. /\ Tail(todo[p]) \in Seq(Chunks)
        /\ Elements(todo[p]) = {Head(todo[p])} \cup Elements(Tail(todo[p]))
    BY <2>1, Stacks DEF TypeOK
  <2>3. TypeOK'
    BY <2>1, <2>2 DEF TypeOK
  <2>4. HolesAccounted'
    BY <2>1, <2>2, HolesStep, ZenonT(40)
  <2>5. RootsHeld'
    BY <2>1, <2>2 DEF RootsHeld, TypeOK
  <2> QED BY <2>3, <2>4, <2>5
<1>5. ASSUME NEW p \in Callers, Missing(p) PROVE TransferInv'
  <2>1. pc[p] = "visit" /\ todo[p] # << >> /\ pc' = [pc EXCEPT ![p] = "copy"]
        /\ dst' = dst /\ root' = root /\ todo' = todo
        /\ done' = done /\ abandoned' = abandoned
    BY <1>5 DEF Missing
  <2>2. TypeOK'
    BY <2>1 DEF TypeOK
  <2>3. HolesAccounted' /\ RootsHeld'
    BY <2>1 DEF HolesAccounted, Pending, RootsHeld, TypeOK
  <2> QED BY <2>2, <2>3
<1>6. ASSUME NEW p \in Callers, CopyChunk(p) PROVE TransferInv'
  <2> DEFINE h == Head(todo[p])
             s == Children[h] \o Tail(todo[p])
  <2>1. pc[p] = "copy" /\ pc' = [pc EXCEPT ![p] = "visit"]
        /\ dst' = dst \cup {h} /\ todo' = [todo EXCEPT ![p] = s]
        /\ root' = root /\ done' = done /\ abandoned' = abandoned
    BY <1>6 DEF CopyChunk
  <2>2. /\ h \in Chunks /\ Tail(todo[p]) \in Seq(Chunks)
        /\ Elements(todo[p]) = {h} \cup Elements(Tail(todo[p]))
    BY <2>1, Stacks DEF TypeOK
  <2>3. Children[h] \in Seq(Chunks)
    BY <2>2, ChunkAssumption
  <2>4. s \in Seq(Chunks)
        /\ Elements(s) = Elements(Children[h]) \cup Elements(Tail(todo[p]))
    <3> DEFINE a == Children[h]
               b == Tail(todo[p])
    <3>1. a \in Seq(Chunks) /\ b \in Seq(Chunks)
      BY <2>2, <2>3
    <3> HIDE DEF a, b
    <3>2. a \o b \in Seq(Chunks) /\ Elements(a \o b) = Elements(a) \cup Elements(b)
      BY <3>1, Stacks
    <3> QED BY <3>2 DEF a, b
  <2> HIDE DEF h, s
  <2>5. TypeOK'
    BY <2>1, <2>2, <2>4 DEF TypeOK
  <2>6. HolesAccounted'
    BY <2>1, <2>2, <2>4, HolesStep, ZenonT(40) DEF ChildrenOf
  <2>7. RootsHeld'
    BY <2>1, <2>2, <2>4 DEF RootsHeld, TypeOK
  <2> QED BY <2>5, <2>6, <2>7
<1>7. ASSUME NEW p \in Callers, ReturnOk(p) PROVE TransferInv'
  <2>1. pc[p] = "visit" /\ todo[p] = << >> /\ pc' = [pc EXCEPT ![p] = "idle"]
        /\ done' = done \cup {root[p]} /\ root' = [root EXCEPT ![p] = NoRoot]
        /\ dst' = dst /\ todo' = todo /\ abandoned' = abandoned
    BY <1>7 DEF ReturnOk
  <2>2. root[p] \in dst
    BY <2>1 DEF RootsHeld
  <2>3. TypeOK'
    BY <2>1, <2>2 DEF TypeOK
  <2>4. HolesAccounted' /\ RootsHeld'
    BY <2>1, <2>2 DEF HolesAccounted, Pending, RootsHeld, TypeOK
  <2> QED BY <2>3, <2>4
<1>8. ASSUME NEW p \in Callers, ReturnErr(p) PROVE TransferInv'
  <2>1. pc' = [pc EXCEPT ![p] = "idle"]
        /\ abandoned' = abandoned \cup Elements(todo[p])
        /\ todo' = [todo EXCEPT ![p] = << >>]
        /\ root' = [root EXCEPT ![p] = NoRoot] /\ dst' = dst /\ done' = done
    BY <1>8 DEF ReturnErr
  <2>2. Elements(todo[p]) \subseteq Chunks
    BY Stacks DEF TypeOK
  <2>3. TypeOK'
    BY <2>1, <2>2 DEF TypeOK
  <2>4. HolesAccounted'
    BY <2>1, HolesStep, ZenonT(40)
  <2>5. RootsHeld'
    BY <2>1 DEF RootsHeld, TypeOK
  <2> QED BY <2>3, <2>4, <2>5
<1>9. CASE UNCHANGED transferVars
  BY <1>9 DEF transferVars, TypeOK, HolesAccounted, Pending, RootsHeld
<1> QED BY <1>1, <1>2, <1>3, <1>4, <1>5, <1>6, <1>7, <1>8, <1>9 DEF Next, Step

\* INV-FERR-048: whatever the callers and their failures, transfer_recursive
\* and transfer_snapshot leave no hole below a chunk of the destination that
\* no running or failed call accounts for.
THEOREM NoUnaccountedHoles == Spec => [](TypeOK /\ HolesAccounted)
<1> QED BY TransferInit, TransferStep, PTL DEF Spec, TransferInv

\* INV-FERR-048, INV-FERR-049: once the calls have returned and if none has
\* failed, every tree and snapshot that was reported as copied can be read
\* from the destination to its leaves, although calls prune at chunks that
\* other calls had not finished copying.
THEOREM CopiesComplete == Spec => []CopiedResolvable
<1>1. TransferInv => CopiedResolvable
  <2> SUFFICES ASSUME TransferInv, abandoned = {},
                      \A p \in Callers : pc[p] = "idle", NEW r \in done
               PROVE  Resolvable(r)
    BY DEF CopiedResolvable
  <2>1. Pending = {}
    BY EmptyStack DEF TransferInv, TypeOK, Pending
  <2>2. Closed(dst)
    BY <2>1 DEF TransferInv, HolesAccounted, Closed
  <2>3. r \in dst
    BY DEF TransferInv, RootsHeld
  <2> QED BY <2>2, <2>3 DEF Resolvable
<1> QED BY <1>1, TransferInit, TransferStep, PTL DEF Spec
=============================================================================
