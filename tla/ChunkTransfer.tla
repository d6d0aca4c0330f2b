--------------------------- MODULE ChunkTransfer ---------------------------
(***************************************************************************)
(* Copying prolly trees between chunk stores: RecursiveTransfer::transfer  *)
(* (ferratomic-core/src/prolly/transfer.rs) and transfer_snapshot          *)
(* (prolly/snapshot.rs), by several callers into one destination.          *)
(*                                                                         *)
(* A chunk is its content address, so it is the same in every store.       *)
(* transfer_recursive is a depth-first walk that prunes at a chunk the     *)
(* destination has; its call stack is the sequence of chunks still to be   *)
(* visited.  Every access to a chunk store may fail, which ends the call.  *)
(***************************************************************************)
EXTENDS Naturals, Sequences

CONSTANTS
    Chunks,     \* the chunks of the source
    Children,   \* Children[c]: the addresses in c; << >> for a leaf
    Roots,      \* the chunks that are roots of trees
    Manifests,  \* the chunks that are snapshot manifests
    NoRoot,     \* not a chunk
    Callers     \* threads that copy into the destination

ASSUME ChunkAssumption ==
    /\ Children \in [Chunks -> Seq(Chunks)]
    /\ Roots \subseteq Chunks
    /\ Manifests \subseteq Chunks
    /\ NoRoot \notin Chunks

VARIABLES
    dst,        \* the chunks the destination holds
    pc,         \* pc[p]: the next step of p's call
    root,       \* root[p]: the tree root or manifest p is copying
    todo,       \* todo[p]: the chunks p has still to visit, next one first
    done,       \* history: roots and manifests whose call returned Ok
    abandoned   \* history: chunks a failed call had still to visit

transferVars == <<dst, pc, root, todo, done, abandoned>>

Elements(s) == {s[i] : i \in DOMAIN s}
ChildrenOf(c) == Elements(Children[c])

\* Every child of a chunk of S is in S.
Closed(S) == \A c \in S : ChildrenOf(c) \subseteq S

\* The tree below r can be read from the destination to its last leaf.
Resolvable(r) == \E S \in SUBSET dst : r \in S /\ Closed(S)

-----------------------------------------------------------------------------
Init ==
    /\ dst \in {S \in SUBSET Chunks : Closed(S)}
    /\ pc = [p \in Callers |-> "idle"]
    /\ root = [p \in Callers |-> NoRoot]
    /\ todo = [p \in Callers |-> << >>]
    /\ done = {}
    /\ abandoned = {}

\* transfer(src, dst, r).
BeginTransfer(p) ==
    /\ pc[p] = "idle"
    /\ \E r \in Roots :
          /\ root' = [root EXCEPT ![p] = r]
          /\ todo' = [todo EXCEPT ![p] = <<r>>]
    /\ pc' = [pc EXCEPT ![p] = "visit"]
    /\ UNCHANGED <<dst, done, abandoned>>

\* transfer_snapshot(m, src, dst, transfer).
BeginSnapshot(p) ==
    /\ pc[p] = "idle"
    /\ \E m \in Manifests : root' = [root EXCEPT ![p] = m]
    /\ pc' = [pc EXCEPT ![p] = "manifest"]
    /\ UNCHANGED <<dst, todo, done, abandoned>>

\* transfer_snapshot, phase 1 copies the manifest if it is missing; phase 2
\* then visits its roots whether it was missing or not.
CopyManifest(p) ==
    /\ pc[p] = "manifest"
    /\ dst' = dst \cup {root[p]}
    /\ todo' = [todo EXCEPT ![p] = Children[root[p]]]
    /\ pc' = [pc EXCEPT ![p] = "visit"]
    /\ UNCHANGED <<root, done, abandoned>>

\* A faulty walk: a chunk the destination has ends the whole call.
PruneAll(p) ==
    /\ pc[p] = "visit"
    /\ todo[p] # << >>
    /\ Head(todo[p]) \in dst
    /\ todo' = [todo EXCEPT ![p] = << >>]
    /\ UNCHANGED <<dst, pc, root, done, abandoned>>

\* A faulty walk: a chunk the destination has is put off.
PruneLater(p) ==
    /\ pc[p] = "visit"
    /\ todo[p] # << >>
    /\ Head(todo[p]) \in dst
    /\ todo' = [todo EXCEPT ![p] = Append(Tail(@), Head(@))]
    /\ UNCHANGED <<dst, pc, root, done, abandoned>>

\* transfer_recursive, has_chunk: the destination has the chunk, and the walk
\* returns from it; or the chunk is to be copied.
Prune(p) ==
    /\ pc[p] = "visit"
    /\ todo[p] # << >>
    /\ Head(todo[p]) \in dst
    /\ todo' = [todo EXCEPT ![p] = Tail(@)]
    /\ UNCHANGED <<dst, pc, root, done, abandoned>>

Missing(p) ==
    /\ pc[p] = "visit"
    /\ todo[p] # << >>
    /\ Head(todo[p]) \notin dst
    /\ pc' = [pc EXCEPT ![p] = "copy"]
    /\ UNCHANGED <<dst, root, todo, done, abandoned>>

\* A faulty walk: the siblings of the chunk are forgotten.
CopyChunkOnly(p) ==
    /\ pc[p] = "copy"
    /\ dst' = dst \cup {Head(todo[p])}
    /\ todo' = [todo EXCEPT ![p] = Children[Head(@)]]
    /\ pc' = [pc EXCEPT ![p] = "visit"]
    /\ UNCHANGED <<root, done, abandoned>>

\* load_chunk, put_chunk, then the children in order.
CopyChunk(p) ==
    /\ pc[p] = "copy"
    /\ dst' = dst \cup {Head(todo[p])}
    /\ todo' = [todo EXCEPT ![p] = Children[Head(@)] \o Tail(@)]
    /\ pc' = [pc EXCEPT ![p] = "visit"]
    /\ UNCHANGED <<root, done, abandoned>>

\* The walk is complete: Ok.
ReturnOk(p) ==
    /\ pc[p] = "visit"
    /\ todo[p] = << >>
    /\ pc' = [pc EXCEPT ![p] = "idle"]
    /\ done' = done \cup {root[p]}
    /\ root' = [root EXCEPT ![p] = NoRoot]
    /\ UNCHANGED <<dst, todo, abandoned>>

\* Some access to a chunk store fails, and the error is passed up.  Between
\* put_chunk and the first access for a child nothing can fail but decoding.
ReturnErr(p) ==
    /\ pc[p] \in {"manifest", "visit", "copy"}
    /\ pc[p] = "visit" => todo[p] # << >>
    /\ pc' = [pc EXCEPT ![p] = "idle"]
    /\ abandoned' = abandoned \cup Elements(todo[p])
    /\ todo' = [todo EXCEPT ![p] = << >>]
    /\ root' = [root EXCEPT ![p] = NoRoot]
    /\ UNCHANGED <<dst, done>>

Step(p) ==
    \/ CopyManifest(p) \/ Prune(p) \/ Missing(p) \/ CopyChunk(p)
    \/ ReturnOk(p) \/ ReturnErr(p)

Next == \E p \in Callers : BeginTransfer(p) \/ BeginSnapshot(p) \/ Step(p)

Spec == Init /\ [][Next]_transferVars

\* No step of a call waits for another caller.
FairSpec == Spec /\ \A p \in Callers : WF_transferVars(Step(p))

-----------------------------------------------------------------------------
TypeOK ==
    /\ dst \in SUBSET Chunks
    /\ pc \in [Callers -> {"idle", "manifest", "visit", "copy"}]
    /\ root \in [Callers -> Chunks \cup {NoRoot}]
    /\ todo \in [Callers -> Seq(Chunks)]
    /\ \A p \in Callers :
          /\ pc[p] = "idle" <=> root[p] = NoRoot
          /\ pc[p] \in {"idle", "manifest"} => todo[p] = << >>
          /\ pc[p] = "copy" => todo[p] # << >>
    /\ done \in SUBSET Chunks
    /\ abandoned \in SUBSET Chunks

Pending == UNION {Elements(todo[p]) : p \in Callers}

\* INV-FERR-048, completeness: the destination never has a hole that nobody is
\* responsible for.  A child that is missing below a chunk it holds is still
\* to be visited by a running call, or was given up by a failed one, although
\* calls prune at chunks that another call has copied and not finished.
HolesAccounted ==
    \A c \in dst : ChildrenOf(c) \subseteq dst \cup Pending \cup abandoned

\* INV-FERR-048 (transfer.rs:31): "The root hash that is now resolvable from
\* dst": when no call has failed and none is running, every root and manifest
\* whose copy returned Ok can be read to its leaves.
CopiedResolvable ==
    abandoned = {} /\ (\A p \in Callers : pc[p] = "idle")
        => \A r \in done : Resolvable(r)

\* Every call returns.
TransferEnds == \A p \in Callers : pc[p] # "idle" ~> pc[p] = "idle"

\* transfer.rs:6: "The operation is idempotent, monotonic, and resumable": a
\* copy that returns Ok has made its root readable, also when it resumes one
\* that failed.
Resumable ==
    (\A p \in Callers : pc[p] = "idle") => \A r \in done : Resolvable(r)
=============================================================================
