------------------------------ MODULE Database ------------------------------
(***************************************************************************)
(* The commit path of Database<Ready> (ferratomic-core/src/db): writers    *)
(* call transact, transact_signed or batch_transact, each passing the      *)
(* write limiter, the write lock, the log, the swap of the published store *)
(* and the frontier; a checkpointer copies the published store to disk;    *)
(* the process or the machine crashes and the database is reopened.        *)
(*                                                                         *)
(* A transaction is one member of Txs: its datoms enter a log frame and    *)
(* the cloned store together.  A store is its epoch and, for every epoch,  *)
(* the transaction committed at it.  The observers that the last step of a *)
(* call notifies are the subject of module Observers: nothing they do      *)
(* flows back into the state below.                                        *)
(***************************************************************************)
EXTENDS Wal, WriteLimiter

CONSTANTS
    NoWriter,   \* the write lock is free
    MaxBatch    \* longest batch; 0 leaves batch_transact out

ASSUME DatabaseAssumption ==
    /\ NoWriter \notin Writers
    /\ MaxBatch \in Nat

VARIABLES
    current,     \* Database.current: the published store
    lock,        \* the holder of Database.write_lock
    frontier,    \* Database.frontier: this node's entry (NoTx: none yet)
    pc,          \* pc[w]: the next step of writer w's call
    job,         \* job[w]: the transactions of the call
    batch,       \* batch[w]: is it a batch_transact?
    idx,         \* idx[w]: the receipt being logged
    next,        \* next[w]: new_store, the clone with the job applied
    failed,      \* failed[w]: the call is on its error path
    ckptPc,      \* the next step of the checkpointer
    ckptBuf,     \* the store it is writing
    ckpt,        \* the checkpoint file as a reader finds it now
    ckptDurable, \* the checkpoint file a power loss may fall back to
    used,        \* history: transactions that reached the write lock
    acked,       \* history: transactions whose call returned Ok
    lastCommit,  \* history: last transaction published since the last open
    refused      \* history: the sets of transactions of batches that failed

callVars == <<pc, job, batch, idx, next, failed>>
ckptVars == <<ckptPc, ckptBuf, ckpt, ckptDurable>>
historyVars == <<used, acked, lastCommit, refused>>
vars == <<walVars, limiterVars, current, lock, frontier, callVars, ckptVars,
          historyVars>>

Entry == [epoch : Nat, tx : Txs]
Store == [epoch : Nat, entries : SUBSET Entry]
Genesis == [epoch |-> 0, entries |-> {}]

Steps == {"idle", "undo", "lock", "apply", "append", "fsync", "publish",
          "frontier", "unlock", "dropSlot", "notify"}

JobTxs(w) == {job[w][i] : i \in 1..Len(job[w])}

\* The transactions of a call, in order: none (a transaction without datoms),
\* one, or the distinct members of a batch.
Jobs(n) == {s \in UNION {[1..m -> Txs \ used] : m \in 0..n} :
               \A i, j \in DOMAIN s : s[i] = s[j] => i = j}

EntryOf(f) == [epoch |-> f.epoch, tx |-> f.tx]

-----------------------------------------------------------------------------
Init ==
    /\ WalInit
    /\ LimiterInit
    /\ current = Genesis
    /\ lock = NoWriter
    /\ frontier = NoTx
    /\ pc = [w \in Writers |-> "idle"]
    /\ job = [w \in Writers |-> << >>]
    /\ batch = [w \in Writers |-> FALSE]
    /\ idx = [w \in Writers |-> 1]
    /\ next = [w \in Writers |-> Genesis]
    /\ failed = [w \in Writers |-> FALSE]
    /\ ckptPc = "idle"
    /\ ckptBuf = Genesis
    /\ ckpt = Genesis
    /\ ckptDurable = Genesis
    /\ used = {}
    /\ acked = {}
    /\ lastCommit = NoTx
    /\ refused = {}

Goto(w, step) == pc' = [pc EXCEPT ![w] = step]

\* The call gives up: the guards are dropped in reverse order of declaration.
Fail(w, step) ==
    /\ Goto(w, step)
    /\ failed' = [failed EXCEPT ![w] = TRUE]

\* The call returns; its locals are gone.
Return(w) ==
    /\ Goto(w, "idle")
    /\ job' = [job EXCEPT ![w] = << >>]
    /\ batch' = [batch EXCEPT ![w] = FALSE]
    /\ idx' = [idx EXCEPT ![w] = 1]
    /\ next' = [next EXCEPT ![w] = Genesis]
    /\ failed' = [failed EXCEPT ![w] = FALSE]

\* A call starts: write_limiter.try_acquire().
BeginCall(w) ==
    /\ open
    /\ pc[w] = "idle"
    /\ TryAcquire(w)
    /\ Goto(w, IF active >= MaxConcurrentWrites THEN "undo" ELSE "lock")
    /\ UNCHANGED <<walVars, current, lock, frontier, job, batch, idx, next,
                   failed, ckptVars, historyVars>>

\* try_acquire saw the limit; the call returns Err(Backpressure).
Backpressure(w) ==
    /\ open
    /\ pc[w] = "undo"
    /\ UndoAcquire(w)
    /\ Goto(w, "idle")
    /\ UNCHANGED <<walVars, current, lock, frontier, job, batch, idx, next,
                   failed, ckptVars, historyVars>>

\* A faulty call: it tries the lock again until it is free.
LockBusyRetry(w) ==
    /\ open
    /\ pc[w] = "lock"
    /\ lock # NoWriter
    /\ UNCHANGED vars

\* write_lock.try_lock() finds the lock taken: Err(Backpressure).
LockBusy(w) ==
    /\ open
    /\ pc[w] = "lock"
    /\ lock # NoWriter
    /\ Fail(w, "dropSlot")
    /\ UNCHANGED <<walVars, limiterVars, current, lock, frontier, job, batch,
                   idx, next, ckptVars, historyVars>>

\* write_lock.try_lock() succeeds.  The arguments of the call have not been
\* looked at before this point, so they are chosen here.
TakeLock(w) ==
    /\ open
    /\ pc[w] = "lock"
    /\ lock = NoWriter
    /\ lock' = w
    /\ Goto(w, "apply")
    /\ \/ \E s \in Jobs(1) :
            job' = [job EXCEPT ![w] = s] /\ UNCHANGED batch
       \/ \E s \in Jobs(MaxBatch) :
            /\ s # << >>
            /\ job' = [job EXCEPT ![w] = s]
            /\ batch' = [batch EXCEPT ![w] = TRUE]
    /\ used' = used \cup {job'[w][i] : i \in 1..Len(job'[w])}
    /\ UNCHANGED <<walVars, limiterVars, current, frontier, idx, next, failed,
                   ckptVars, acked, lastCommit, refused>>

\* A faulty clone: the new store holds only the new transactions.
ApplyFresh(w) ==
    /\ open
    /\ pc[w] = "apply"
    /\ job[w] # << >>
    /\ current.epoch + Len(job[w]) \in Epochs
    /\ next' = [next EXCEPT ![w] =
                  [epoch |-> current.epoch + Len(job[w]),
                   entries |-> {[epoch |-> current.epoch + i, tx |-> job[w][i]] :
                                   i \in 1..Len(job[w])}]]
    /\ Goto(w, "append")
    /\ UNCHANGED <<walVars, limiterVars, current, lock, frontier, job, batch,
                   idx, failed, ckptVars, historyVars>>

\* current.load(), Store::clone, and Store::transact or batch_splice_transact
\* on the clone: the transactions take the next epochs in order.
ApplyOk(w) ==
    /\ open
    /\ pc[w] = "apply"
    /\ job[w] # << >>
    /\ current.epoch + Len(job[w]) \in Epochs
    /\ next' = [next EXCEPT ![w] =
                  [epoch |-> current.epoch + Len(job[w]),
                   entries |-> current.entries \cup
                      {[epoch |-> current.epoch + i, tx |-> job[w][i]] :
                          i \in 1..Len(job[w])}]]
    /\ Goto(w, "append")
    /\ UNCHANGED <<walVars, limiterVars, current, lock, frontier, job, batch,
                   idx, failed, ckptVars, historyVars>>

\* The clock overflows, the transaction is empty, or the store refuses it.
ApplyErr(w) ==
    /\ open
    /\ pc[w] = "apply"
    /\ Fail(w, "unlock")
    /\ UNCHANGED <<walVars, limiterVars, current, lock, frontier, job, batch,
                   idx, next, ckptVars, historyVars>>

\* The epoch of the receipt that the call is logging.
ReceiptEpoch(w) == next[w].epoch - Len(job[w]) + idx[w]

\* write_wal: append_raw.
LogOk(w) ==
    /\ pc[w] = "append"
    /\ AppendOk(ReceiptEpoch(w), job[w][idx[w]])
    /\ Goto(w, "fsync")
    /\ UNCHANGED <<limiterVars, current, lock, frontier, job, batch, idx,
                   next, failed, ckptVars, historyVars>>

LogErr(w) ==
    /\ pc[w] = "append"
    /\ AppendRefused(ReceiptEpoch(w)) \/ AppendFailed(ReceiptEpoch(w))
    /\ Fail(w, "unlock")
    /\ UNCHANGED <<limiterVars, current, lock, frontier, job, batch, idx,
                   next, ckptVars, historyVars>>

\* write_wal: fsync, once for every receipt.
SyncOk(w) ==
    /\ pc[w] = "fsync"
    /\ FsyncOk
    /\ IF idx[w] < Len(job[w])
       THEN /\ idx' = [idx EXCEPT ![w] = @ + 1]
            /\ Goto(w, "append")
       ELSE /\ Goto(w, "publish")
            /\ UNCHANGED idx
    /\ UNCHANGED <<limiterVars, current, lock, frontier, job, batch, next,
                   failed, ckptVars, historyVars>>

\* A faulty variant of SyncErr: the error of fsync is dropped.
SyncErrIgnored(w) ==
    /\ pc[w] = "fsync"
    /\ FsyncFailed
    /\ Goto(w, "publish")
    /\ UNCHANGED <<limiterVars, current, lock, frontier, job, batch, idx,
                   next, failed, ckptVars, historyVars>>

SyncErr(w) ==
    /\ pc[w] = "fsync"
    /\ FsyncFailed
    /\ Fail(w, "unlock")
    /\ UNCHANGED <<limiterVars, current, lock, frontier, job, batch, idx,
                   next, ckptVars, historyVars>>

\* publish_and_check: the swap.
Publish(w) ==
    /\ open
    /\ pc[w] = "publish"
    /\ current' = next[w]
    /\ lastCommit' = job[w][Len(job[w])]
    /\ Goto(w, IF batch[w] THEN "unlock" ELSE "frontier")
    /\ UNCHANGED <<walVars, limiterVars, lock, frontier, job, batch, idx,
                   next, failed, ckptVars, used, acked, refused>>

\* A faulty advance_frontier: the call is left out.
AdvanceFrontierSkipped(w) ==
    /\ open
    /\ pc[w] = "frontier"
    /\ Goto(w, "unlock")
    /\ UNCHANGED <<walVars, limiterVars, current, lock, frontier, job, batch, idx,
                   next, failed, ckptVars, historyVars>>

\* advance_frontier; batch_transact has no such step.
AdvanceFrontier(w) ==
    /\ open
    /\ pc[w] = "frontier"
    /\ frontier' = job[w][1]
    /\ Goto(w, "unlock")
    /\ UNCHANGED <<walVars, limiterVars, current, lock, job, batch, idx,
                   next, failed, ckptVars, historyVars>>

\* drop(guard), and the same drop on the error paths.
Unlock(w) ==
    /\ open
    /\ pc[w] = "unlock"
    /\ lock' = NoWriter
    /\ Goto(w, "dropSlot")
    /\ UNCHANGED <<walVars, limiterVars, current, frontier, job, batch, idx,
                   next, failed, ckptVars, historyVars>>

\* A faulty return: a failed call reports Ok like any other.
DropSlotOk(w) ==
    /\ open
    /\ pc[w] = "dropSlot"
    /\ DropGuard(w)
    /\ Goto(w, "notify")
    /\ UNCHANGED <<walVars, current, lock, frontier, job, batch, idx, next,
                   failed, ckptVars, historyVars>>

\* drop(write_slot); a failed call returns its error.
DropSlot(w) ==
    /\ open
    /\ pc[w] = "dropSlot"
    /\ DropGuard(w)
    /\ IF failed[w]
       THEN /\ Return(w)
            /\ refused' = IF batch[w] THEN refused \cup {JobTxs(w)} ELSE refused
       ELSE /\ Goto(w, "notify")
            /\ UNCHANGED <<job, batch, idx, next, failed, refused>>
    /\ UNCHANGED <<walVars, current, lock, frontier, ckptVars, used, acked,
                   lastCommit>>

\* notify_observers, whose result is ignored; the call returns Ok.
NotifyAndReturn(w) ==
    /\ open
    /\ pc[w] = "notify"
    /\ acked' = acked \cup JobTxs(w)
    /\ Return(w)
    /\ UNCHANGED <<walVars, limiterVars, current, lock, frontier, ckptVars,
                   used, lastCommit, refused>>

\* The steps of a call in progress.
CallStep(w) ==
    \/ Backpressure(w) \/ LockBusy(w) \/ TakeLock(w)
    \/ ApplyOk(w) \/ ApplyErr(w) \/ LogOk(w) \/ LogErr(w)
    \/ SyncOk(w) \/ SyncErr(w) \/ Publish(w) \/ AdvanceFrontier(w)
    \/ Unlock(w) \/ DropSlot(w) \/ NotifyAndReturn(w)

-----------------------------------------------------------------------------
\* A checkpoint of store_for_checkpoint(): write and sync a temporary file,
\* rename it over the checkpoint, sync the directory.  Every part may fail.
BeginCheckpoint ==
    /\ open
    /\ ckptPc = "idle"
    /\ ckptPc' = "write"
    /\ ckptBuf' = current
    /\ UNCHANGED <<walVars, limiterVars, current, lock, frontier, callVars,
                   ckpt, ckptDurable, historyVars>>

WriteTemp ==
    /\ open
    /\ ckptPc = "write"
    /\ ckptPc' = "rename"
    /\ UNCHANGED <<walVars, limiterVars, current, lock, frontier, callVars,
                   ckptBuf, ckpt, ckptDurable, historyVars>>

RenameTemp ==
    /\ open
    /\ ckptPc = "rename"
    /\ ckptPc' = "syncdir"
    /\ ckpt' = ckptBuf
    /\ UNCHANGED <<walVars, limiterVars, current, lock, frontier, callVars,
                   ckptBuf, ckptDurable, historyVars>>

SyncDirectory ==
    /\ open
    /\ ckptPc = "syncdir"
    /\ ckptPc' = "idle"
    /\ ckptBuf' = Genesis
    /\ ckptDurable' = ckpt
    /\ UNCHANGED <<walVars, limiterVars, current, lock, frontier, callVars,
                   ckpt, historyVars>>

CheckpointErr ==
    /\ open
    /\ ckptPc # "idle"
    /\ ckptPc' = "idle"
    /\ ckptBuf' = Genesis
    /\ UNCHANGED <<walVars, limiterVars, current, lock, frontier, callVars,
                   ckpt, ckptDurable, historyVars>>

CheckpointStep ==
    \/ BeginCheckpoint \/ WriteTemp \/ RenameTemp \/ SyncDirectory
    \/ CheckpointErr

-----------------------------------------------------------------------------
\* Everything in memory is gone.
LoseMemory ==
    /\ active' = 0
    /\ slot' = [w \in Writers |-> "none"]
    /\ current' = Genesis
    /\ lock' = NoWriter
    /\ frontier' = NoTx
    /\ pc' = [w \in Writers |-> "idle"]
    /\ job' = [w \in Writers |-> << >>]
    /\ batch' = [w \in Writers |-> FALSE]
    /\ idx' = [w \in Writers |-> 1]
    /\ next' = [w \in Writers |-> Genesis]
    /\ failed' = [w \in Writers |-> FALSE]
    /\ ckptPc' = "idle"
    /\ ckptBuf' = Genesis
    /\ lastCommit' = NoTx
    /\ UNCHANGED <<used, acked, refused>>

\* A torn frame needs a write in progress.
Appending == \E w \in Writers : pc[w] = "append"

CrashProcess ==
    /\ KillProcess
    /\ wal' = wal \/ Appending
    /\ LoseMemory
    /\ UNCHANGED <<ckpt, ckptDurable>>

CrashMachine ==
    /\ LosePower
    /\ Len(wal') <= Len(wal) \/ Appending
    /\ LoseMemory
    /\ ckpt' \in {ckpt, ckptDurable}
    /\ ckptDurable' = ckpt'

\* A faulty replay: off by one at the epoch of the checkpoint.
ReplayedLate(file) == {EntryOf(f) : f \in {g \in ReadableFrames(file) :
                                               g.epoch > ckpt.epoch + 1}}

\* Replay over the checkpoint: entries above its epoch, in file order.
Replayed(file) == {EntryOf(f) : f \in {g \in ReadableFrames(file) :
                                           g.epoch > ckpt.epoch}}

\* Database::recover (and recover_from_wal when there is no checkpoint).
Reopen ==
    /\ RecoverWal
    /\ current' = [epoch |-> WalMax(ckpt.epoch, lastSynced'),
                   entries |-> ckpt.entries \cup Replayed(wal)]
    /\ UNCHANGED <<limiterVars, lock, frontier, callVars, ckptVars, historyVars>>

Next ==
    \/ \E w \in Writers : BeginCall(w) \/ CallStep(w)
    \/ CheckpointStep
    \/ CrashProcess \/ CrashMachine
    \/ Reopen

Spec == Init /\ [][Next]_vars

\* No step of a call waits for another thread: try_lock never blocks, and
\* write and fsync return.  So a call that has begun keeps being scheduled.
FairSpec == Spec /\ \A w \in Writers : WF_vars(CallStep(w))

-----------------------------------------------------------------------------
CallTypeOK ==
    /\ lock \in Writers \cup {NoWriter}
    /\ frontier \in Txs \cup {NoTx}
    /\ pc \in [Writers -> Steps]
    /\ job \in [Writers -> Seq(Txs)]
    /\ batch \in [Writers -> BOOLEAN]
    /\ idx \in [Writers -> Nat \ {0}]
    /\ failed \in [Writers -> BOOLEAN]
    /\ used \in SUBSET Txs
    /\ acked \in SUBSET Txs
    /\ lastCommit \in Txs \cup {NoTx}
    /\ refused \in SUBSET SUBSET Txs

StoreTypeOK ==
    /\ current \in Store
    /\ next \in [Writers -> Store]
    /\ ckptPc \in {"idle", "write", "rename", "syncdir"}
    /\ ckptBuf \in Store
    /\ ckpt \in Store
    /\ ckptDurable \in Store

TypeOK ==
    /\ WalTypeOK
    /\ LimiterTypeOK
    /\ CallTypeOK
    /\ StoreTypeOK

\* What the disk holds for certain: a power loss now, and the recovery after
\* it, would still find these.
OnDisk ==
    {EntryOf(wal[i]) : i \in {j \in 1..durable : Readable(wal, j)}}
        \cup (ckpt.entries \cap ckptDurable.entries)

\* INV-FERR-008 (transact.rs:319): "durable(WAL(T)) BEFORE visible(SNAP(e))":
\* whatever a reader can see is on stable storage.
DurableBeforeVisible == current.entries \subseteq OnDisk

\* INV-FERR-014: a transaction whose call returned Ok is never lost: its frame
\* is on stable storage where recovery reads it, through any number of
\* failed appends, failed syncs, crashes and recoveries.
AckedDurable ==
    \A t \in acked : \E i \in 1..durable : Readable(wal, i) /\ wal[i].tx = t

\* INV-FERR-014: an open database shows every transaction it acknowledged,
\* before and after recovery from the checkpoint and the log.
AckedVisible ==
    open => \A t \in acked : \E e \in current.entries : e.tx = t

\* INV-FERR-007, INV-FERR-020: the published store holds exactly one
\* transaction for every epoch up to its own, whatever mixture of failed
\* calls, batches, checkpoints and recoveries led to it, and no transaction
\* twice.
EpochsDense ==
    /\ {e.epoch : e \in current.entries} = 1..current.epoch
    /\ \A d, e \in current.entries : d.epoch = e.epoch <=> d.tx = e.tx

\* INV-FERR-006, INV-FERR-011: while the database stays open the published
\* store only grows: no writer's swap undoes another's, so a later snapshot
\* contains an earlier one.
SnapshotsGrow ==
    [][open /\ open' =>
         /\ current.entries \subseteq current'.entries
         /\ current.epoch <= current'.epoch]_vars

\* The log holds an epoch that was never published (a failed sync, or a batch
\* that failed part-way) and no call is still working towards publishing it.
Wedged ==
    /\ open
    /\ pending > current.epoch
    /\ \A w \in Writers : pc[w] \notin {"fsync", "publish"}
                       /\ (pc[w] = "append" => idx[w] = 1)

\* After such a failure write_frame refuses the next epoch, so the database
\* stays readable and refuses every write until it is reopened.  Without this
\* the log would hold two transactions for one epoch.
WedgedUntilReopened == [][Wedged /\ open' => Wedged' /\ wal' = wal]_vars

\* Every call returns: no path waits for a lock or leaves a step out.
CallsReturn == \A w \in Writers : pc[w] # "idle" ~> pc[w] = "idle"

\* transact.rs:193: "On error, no transactions from the batch are applied
\* (all-or-nothing)".  A batch that returned an error is never visible in part.
BatchAllOrNothing ==
    \A b \in refused :
        b \cap {e.tx : e \in current.entries} \in {{}, b}

\* transact.rs:170: a batch "produces the same result as applying each
\* transaction individually via transact()".  After transact() has given the
\* lock back, the frontier names the last published transaction.
FrontierCurrent == open /\ lock = NoWriter => frontier = lastCommit

-----------------------------------------------------------------------------
Abstract == INSTANCE DurableStore WITH
    up <- open, visible <- current.entries, submitted <- used

\* The commit path implements the abstract store: every step of a writer, of
\* the checkpointer, of a crash or of recovery is one of its steps or leaves
\* its state alone.
ImplementsDurableStore == Abstract!StoreSpec
=============================================================================
