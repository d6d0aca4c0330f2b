------------------------------ MODULE Observers ------------------------------
(***************************************************************************)
(* Commit notification: ferratomic-core/src/observer.rs and the last step  *)
(* of transact (db/transact.rs).  A writer commits under the write lock,   *)
(* releases it, loads the published store, and only then takes the         *)
(* observers mutex to broadcast its batch; so batches are broadcast in any *)
(* order of their writers' arrival at that mutex.                          *)
(*                                                                         *)
(* The datoms committed at epoch e are the number e.  A store is the set   *)
(* of datoms 1..n, n its epoch.  A batch_transact commits several epochs   *)
(* and broadcasts them once, under the last.                               *)
(***************************************************************************)
EXTENDS Integers, Sequences, FiniteSets

CONSTANTS
    Notifiers,   \* threads that commit and then broadcast
    Observers,   \* push observers that may be registered
    Filtered,    \* the observers registered with a filter
    Pullers,     \* threads that share one pull-based Observer
    MaxEpoch,    \* bound on the epoch
    MaxBatch,    \* longest batch
    MaxBuffer    \* ObserverBroadcast.max_buffer

ASSUME ObserversAssumption ==
    /\ MaxEpoch \in Nat
    /\ MaxBatch \in Nat \ {0}
    /\ MaxBuffer \in Nat \ {0}
    /\ Filtered \subseteq Observers

VARIABLES
    epoch,      \* epoch of the published store
    note,       \* note[n]: the broadcast that thread n owes
    recent,     \* ObserverBroadcast.recent
    registered, \* observers in the registry
    lastSeen,   \* last_seen_epoch of each
    got,        \* history: the datoms each has been handed
    overtaken,  \* history: datoms broadcast after a later epoch
    newest,     \* history: the highest epoch broadcast so far
    held,       \* held[p]: epoch of the store that puller p has loaded
    lastEpoch   \* Observer.last_epoch, shared by the pullers

pushVars == <<recent, registered, lastSeen, got, overtaken, newest>>
pullVars == <<held, lastEpoch>>
obsVars == <<epoch, note, pushVars, pullVars>>

\* A filter lets the datoms of odd epochs through.
Matching(o, S) == IF o \in Filtered THEN {e \in S : e % 2 = 1} ELSE S

NoNote == [step |-> "none", lo |-> 1, hi |-> 0, store |-> 0]
NoStore == -1

Init ==
    /\ epoch = 0
    /\ note = [n \in Notifiers |-> NoNote]
    /\ recent = << >>
    /\ registered = {}
    /\ lastSeen = [o \in Observers |-> 0]
    /\ got = [o \in Observers |-> {}]
    /\ overtaken = {}
    /\ newest = 0
    /\ held = [p \in Pullers |-> NoStore]
    /\ lastEpoch = 0

\* transact or batch_transact up to the release of the write lock.
Commit(n) ==
    /\ note[n].step = "none"
    /\ \E k \in 1..MaxBatch :
         /\ epoch + k <= MaxEpoch
         /\ epoch' = epoch + k
         /\ note' = [note EXCEPT ![n] = [step |-> "load", lo |-> epoch + 1,
                                         hi |-> epoch + k, store |-> 0]]
    /\ UNCHANGED <<pushVars, pullVars>>

\* notify_observers: current.load(), before the mutex.
LoadPublished(n) ==
    /\ note[n].step = "load"
    /\ note' = [note EXCEPT ![n].step = "broadcast", ![n].store = epoch]
    /\ UNCHANGED <<epoch, pushVars, pullVars>>

\* A faulty registration: the current store is not handed over.
RegisterSilently(o) ==
    /\ o \notin registered
    /\ registered' = registered \cup {o}
    /\ lastSeen' = [lastSeen EXCEPT ![o] = epoch]
    /\ UNCHANGED <<epoch, note, recent, got, overtaken, newest, pullVars>>

\* register_observer, register_filtered_observer: under the mutex, hand over
\* the current store (unless it is at epoch 0) and start from its epoch.
Register(o) ==
    /\ o \notin registered
    /\ registered' = registered \cup {o}
    /\ lastSeen' = [lastSeen EXCEPT ![o] = epoch]
    /\ got' = [got EXCEPT ![o] = Matching(o, 1..epoch)]
    /\ UNCHANGED <<epoch, note, recent, overtaken, newest, pullVars>>

\* A faulty push: the buffer is never trimmed.
PushedUntrimmed(b) == Append(recent, b)

\* push_back, then pop_front down to max_buffer.
Pushed(b) ==
    LET all == Append(recent, b)
    IN  IF Len(all) > MaxBuffer THEN Tail(all) ELSE all

\* A faulty catch-up: only the newest batch of the buffer.
CatchupNewest(buffer, from, store) ==
    IF buffer[1].hi > from + 1 THEN 1..store ELSE {buffer[Len(buffer)].hi}

\* buffered_delta_since, or full_store_catchup when the buffer does not reach
\* back to the epoch after `from`.
Catchup(buffer, from, store) ==
    IF buffer[1].hi > from + 1
    THEN 1..store
    ELSE UNION {buffer[i].lo..buffer[i].hi :
                   i \in {j \in 1..Len(buffer) : buffer[j].hi > from}}

\* What one publish hands to observer o: nothing for an epoch it has seen,
\* a catch-up across a gap, else the batch itself.
Delivery(o, b, buffer, store) ==
    CASE b.hi <= lastSeen[o] -> {}
      [] lastSeen[o] + 1 < b.hi -> Matching(o, Catchup(buffer, lastSeen[o], store))
      [] OTHER -> Matching(o, b.lo..b.hi)

\* A faulty publish: last_seen_epoch is not moved forward.
BroadcastUnseen(n) ==
    LET b == [lo |-> note[n].lo, hi |-> note[n].hi]
    IN  /\ note[n].step = "broadcast"
        /\ recent' = Pushed(b)
        /\ got' = [o \in Observers |->
                     IF o \in registered
                     THEN got[o] \cup Delivery(o, b, recent', note[n].store)
                     ELSE got[o]]
        /\ note' = [note EXCEPT ![n] = NoNote]
        /\ UNCHANGED <<epoch, registered, lastSeen, overtaken, newest, pullVars>>

\* ObserverBroadcast::publish, and the return of the call.
Broadcast(n) ==
    LET b == [lo |-> note[n].lo, hi |-> note[n].hi]
    IN  /\ note[n].step = "broadcast"
        /\ recent' = Pushed(b)
        /\ got' = [o \in Observers |->
                     IF o \in registered
                     THEN got[o] \cup Delivery(o, b, recent', note[n].store)
                     ELSE got[o]]
        /\ lastSeen' = [o \in Observers |->
                     IF o \in registered /\ b.hi > lastSeen[o] THEN b.hi
                     ELSE lastSeen[o]]
        /\ overtaken' = IF b.hi < newest THEN overtaken \cup b.lo..b.hi
                        ELSE overtaken
        /\ newest' = IF b.hi > newest THEN b.hi ELSE newest
        /\ note' = [note EXCEPT ![n] = NoNote]
        /\ UNCHANGED <<epoch, registered, pullVars>>

\* A puller loads the published store ...
LoadStore(p) ==
    /\ held[p] = NoStore
    /\ held' = [held EXCEPT ![p] = epoch]
    /\ UNCHANGED <<epoch, note, pushVars, lastEpoch>>

\* A faulty observe: it remembers the epoch it expects next.
ObserveNext(p) ==
    /\ held[p] # NoStore
    /\ lastEpoch' = IF held[p] + 1 > lastEpoch THEN held[p] + 1 ELSE lastEpoch
    /\ held' = [held EXCEPT ![p] = NoStore]
    /\ UNCHANGED <<epoch, note, pushVars>>

\* ... and passes it to Observer::observe, which does fetch_max.
Observe(p) ==
    /\ held[p] # NoStore
    /\ lastEpoch' = IF held[p] > lastEpoch THEN held[p] ELSE lastEpoch
    /\ held' = [held EXCEPT ![p] = NoStore]
    /\ UNCHANGED <<epoch, note, pushVars>>

Next ==
    \/ \E n \in Notifiers : Commit(n) \/ LoadPublished(n) \/ Broadcast(n)
    \/ \E o \in Observers : Register(o)
    \/ \E p \in Pullers : LoadStore(p) \/ Observe(p)

Spec == Init /\ [][Next]_obsVars

\* A writer that has committed goes on to broadcast: the mutex is held only
\* for the length of a broadcast.
FairSpec ==
    Spec /\ \A n \in Notifiers : WF_obsVars(LoadPublished(n) \/ Broadcast(n))

-----------------------------------------------------------------------------
Note == [step : {"none", "load", "broadcast"}, lo : 1..MaxEpoch + 1,
         hi : 0..MaxEpoch, store : 0..MaxEpoch]
Batch == [lo : 1..MaxEpoch, hi : 1..MaxEpoch]

TypeOK ==
    /\ epoch \in 0..MaxEpoch
    /\ note \in [Notifiers -> Note]
    /\ recent \in Seq(Batch) /\ Len(recent) <= MaxBuffer
    /\ registered \subseteq Observers
    /\ lastSeen \in [Observers -> 0..MaxEpoch]
    /\ got \in [Observers -> SUBSET (1..MaxEpoch)]
    /\ overtaken \subseteq 1..MaxEpoch
    /\ newest \in 0..MaxEpoch
    /\ held \in [Pullers -> {NoStore} \cup 0..MaxEpoch]
    /\ lastEpoch \in 0..MaxEpoch

Owed == UNION {note[n].lo..note[n].hi : n \in Notifiers}

\* INV-FERR-011 (observer.rs:27): "Delivery is at-least-once": once no writer
\* owes a broadcast, every observer holds every matching datom published.
AtLeastOnce ==
    Owed = {} => \A o \in registered : Matching(o, 1..epoch) \subseteq got[o]

\* What delivery does guarantee: an observer can miss only the datoms of a
\* writer that reached the observers mutex after a writer with a later epoch.
\* It is not told of an epoch before that is published, and not left behind
\* once every broadcast is done.
OnlyOvertakenMissed ==
    \A o \in registered :
        /\ Matching(o, 1..lastSeen[o]) \ got[o] \subseteq overtaken \cup Owed
        /\ got[o] \subseteq 1..epoch
        /\ Owed = {} => lastSeen[o] = epoch

\* Every registered observer is eventually told of every published epoch.
EventuallyTold ==
    \A o \in Observers, e \in 1..MaxEpoch :
        (o \in registered /\ epoch >= e) ~> lastSeen[o] >= e

\* INV-FERR-011 (observer.rs:252): "observe() returns a snapshot at an epoch >=
\* the last observed epoch" (and the debug_assert of observe).
PullMonotone ==
    [][\A p \in Pullers :
         held[p] # NoStore /\ held'[p] = NoStore => held[p] >= lastEpoch]_obsVars
=============================================================================
