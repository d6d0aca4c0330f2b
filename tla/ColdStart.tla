----------------------------- MODULE ColdStart -----------------------------
(***************************************************************************)
(* A data directory over its life (ferratomic-core/src/storage,            *)
(* ferratomic-storage, ferratomic-checkpoint/src/io.rs): the log and the   *)
(* checkpoint file in it, the threads that write checkpoints, the crashes  *)
(* that interrupt them, and the cascade that opens the directory again:    *)
(* checkpoint and log, checkpoint only, log only, genesis.                 *)
(*                                                                         *)
(* The image of a store is a sequence of blocks, one for the header and    *)
(* one for every epoch: a store that has grown has a longer image.  A      *)
(* write puts down one block at the position of its file handle, so two    *)
(* handles on one file overwrite each other.  An image loads if the hash   *)
(* at its end covers the rest: if its blocks are those of one store, in    *)
(* order, and no others.                                                   *)
(***************************************************************************)
EXTENDS Wal, FiniteSetsExt

CONSTANTS
    Checkpointers,   \* threads of the process that write checkpoints
    MaxCheckpoints,  \* bound on the number of checkpoints begun
    InPlace,         \* do some use StorageBackend::open_checkpoint_writer?
    OpenErrors       \* may a read or a create fail during a cold start?

ASSUME ColdStartAssumption ==
    /\ MaxCheckpoints \in Nat
    /\ InPlace \in BOOLEAN
    /\ OpenErrors \in BOOLEAN

VARIABLES
    up,        \* is there a database?  (open: is a log attached to it?)
    logFile,   \* does wal.log exist?
    current,   \* the published store
    writing,   \* the transaction appended but not yet synced
    file,      \* the checkpoint files: see Places
    dirSynced, \* is the directory entry of the checkpoint on stable storage?
    ck,        \* ck[c]: the checkpoint that thread c is writing
    begun,     \* history: the number of checkpoints begun
    used,      \* history: the transactions so far
    acked,     \* history: the entries acknowledged by a database with a log
    saved,     \* history: the entries of checkpoints whose call returned Ok
    offLog,    \* history: the entries published while not on stable storage in the log
    spoiled    \* history: see Spoils below

diskVars == <<file, dirSynced>>
dirVars == <<up, logFile, current, writing, file, dirSynced, ck, begun, used,
             acked, saved, offLog, spoiled>>
vars == <<walVars, dirVars>>

Entry == [epoch : Nat, tx : Txs]
Store == [epoch : Nat, entries : SUBSET Entry]
Genesis == [epoch |-> 0, entries |-> {}]

\* A hole: part of a write that a power loss cut short, or never written.
Hole == [store |-> Genesis, at |-> 0]

Image(s) == [i \in 1..(s.epoch + 1) |-> [store |-> s, at |-> i]]

\* deserialize_checkpoint_bytes: the hash of the file is the hash of an image.
Whole(blocks) == blocks # << >> /\ blocks = Image(blocks[1].store)

\* tmp: .checkpoint.<pid>.tmp; chk: checkpoint.chkp; old: the file that the
\* directory on stable storage still calls checkpoint.chkp, after a rename.
Places == {"tmp", "chk", "old"}

\* A file: what a reader finds now, and what is on stable storage.
NoFile == [exists |-> FALSE, blocks |-> << >>, synced |-> << >>]
Holding(blocks, synced) == [exists |-> TRUE, blocks |-> blocks, synced |-> synced]

NoCk == [step |-> "idle", at |-> "gone", inPlace |-> FALSE, pos |-> 0, store |-> Genesis]

With(s, t) == [epoch |-> s.epoch + 1,
               entries |-> s.entries \cup {[epoch |-> s.epoch + 1, tx |-> t]}]

\* An empty directory and no process.
Init ==
    /\ wal = << >> /\ durable = 0 /\ pending = 0 /\ lastSynced = 0
    /\ open = FALSE /\ confirmed = {} /\ crashes = 0
    /\ up = FALSE
    /\ logFile = FALSE
    /\ current = Genesis
    /\ writing = NoTx
    /\ file = [p \in Places |-> NoFile]
    /\ dirSynced = TRUE
    /\ ck = [c \in Checkpointers |-> NoCk]
    /\ begun = 0
    /\ used = {}
    /\ acked = {}
    /\ saved = {}
    /\ offLog = {}
    /\ spoiled = FALSE

-----------------------------------------------------------------------------
\* The commit path, one call at a time (module Database has its steps).
\* write_wal appends the next epoch.
LogTx(t) ==
    /\ writing = NoTx
    /\ t \notin used
    /\ current.epoch + 1 \in Epochs
    /\ AppendOk(current.epoch + 1, t)
    /\ writing' = t
    /\ used' = used \cup {t}
    /\ UNCHANGED <<up, logFile, current, diskVars, ck, begun, acked, saved,
                   offLog, spoiled>>

LogTxErr ==
    /\ writing = NoTx
    /\ current.epoch + 1 \in Epochs
    /\ AppendRefused(current.epoch + 1) \/ AppendFailed(current.epoch + 1)
    /\ UNCHANGED dirVars

\* fsync; the store is published and the call returns Ok.
SyncTx ==
    /\ writing # NoTx
    /\ FsyncOk
    /\ current' = With(current, writing)
    /\ acked' = acked \cup {[epoch |-> current.epoch + 1, tx |-> writing]}
    /\ writing' = NoTx
    /\ UNCHANGED <<up, logFile, diskVars, ck, begun, used, saved, offLog, spoiled>>

SyncTxErr ==
    /\ writing # NoTx
    /\ FsyncFailed
    /\ writing' = NoTx
    /\ UNCHANGED <<up, logFile, current, diskVars, ck, begun, used, acked,
                   saved, offLog, spoiled>>

\* transact of a database without a log: nothing is written.
PublishUnlogged(t) ==
    /\ up /\ ~ open
    /\ t \notin used
    /\ current.epoch + 1 \in Epochs
    /\ current' = With(current, t)
    /\ offLog' = offLog \cup {[epoch |-> current'.epoch, tx |-> t]}
    /\ used' = used \cup {t}
    /\ UNCHANGED <<walVars, up, logFile, writing, diskVars, ck, begun, acked,
                   saved, spoiled>>

-----------------------------------------------------------------------------
\* A checkpoint of the published store begins: File::create makes an empty
\* file or empties the one of that name.  write_checkpoint creates the
\* temporary file; write_checkpoint_to_writer, over FsBackend, checkpoint.chkp.
BeginCheckpoint(c) ==
    /\ up
    /\ ck[c].step = "idle"
    /\ begun < MaxCheckpoints
    /\ \E inPlace \in {FALSE, InPlace} :
         LET place == IF inPlace THEN "chk" ELSE "tmp"
         IN  /\ ck' = [ck EXCEPT ![c] = [step |-> "write", at |-> place,
                          inPlace |-> inPlace, pos |-> 0, store |-> current]]
             /\ file' = [file EXCEPT ![place] =
                           IF @.exists THEN Holding(<< >>, @.synced)
                           ELSE Holding(<< >>, << >>)]
             /\ spoiled' = (spoiled \/ inPlace
                              \/ \E d \in Checkpointers : ck[d].step # "idle")
             /\ dirSynced' = (dirSynced /\ (inPlace => file["chk"].exists))
    /\ begun' = begun + 1
    /\ UNCHANGED <<walVars, up, logFile, current, writing, used, acked, saved,
                   offLog>>

\* The blocks after b is written at position i: holes before it, if it lies
\* behind the end, and whatever is behind it stays.
Overlay(blocks, i, b) ==
    [j \in 1..WalMax(Len(blocks), i) |->
        IF j = i THEN b ELSE IF j <= Len(blocks) THEN blocks[j] ELSE Hole]

\* write_all: the next block, through the handle, wherever its file now is.
WriteBlock(c) ==
    /\ ck[c].step = "write"
    /\ ck[c].pos < Len(Image(ck[c].store))
    /\ ck' = [ck EXCEPT ![c].pos = @ + 1]
    /\ file' = IF ck[c].at = "gone" THEN file
               ELSE [file EXCEPT ![ck[c].at].blocks =
                       Overlay(@, ck'[c].pos, Image(ck[c].store)[ck'[c].pos])]
    /\ UNCHANGED <<walVars, up, logFile, current, writing, dirSynced, begun,
                   used, acked, saved, offLog, spoiled>>

\* A faulty sync: the rename follows the write at once.
SyncFileSkipped(c) ==
    /\ ck[c].step = "write"
    /\ ck[c].pos = Len(Image(ck[c].store))
    /\ ck' = [ck EXCEPT ![c] = IF @.inPlace THEN NoCk ELSE [@ EXCEPT !.step = "rename"]]
    /\ UNCHANGED <<walVars, up, logFile, current, writing, diskVars, begun,
                   used, acked, saved, offLog, spoiled>>

\* sync_all of the temporary file.  The writer of a backend is only flushed:
\* its call is done.
SyncFile(c) ==
    /\ ck[c].step = "write"
    /\ ck[c].pos = Len(Image(ck[c].store))
    /\ IF ck[c].inPlace
       THEN ck' = [ck EXCEPT ![c] = NoCk] /\ UNCHANGED file
       ELSE /\ ck' = [ck EXCEPT ![c].step = "rename"]
            /\ file' = IF ck[c].at = "gone" THEN file
                       ELSE [file EXCEPT ![ck[c].at].synced = file[ck[c].at].blocks]
    /\ UNCHANGED <<walVars, up, logFile, current, writing, dirSynced, begun,
                   used, acked, saved, offLog, spoiled>>

\* The handles after the file at place p has moved to place q.
Moved(handles, p, q) ==
    [c \in Checkpointers |->
        IF handles[c].at = p THEN [handles[c] EXCEPT !.at = q] ELSE handles[c]]

\* rename: whatever file has the temporary name becomes the checkpoint, and
\* handles on it stay on it.  Until the directory is synced a power loss may
\* bring back the checkpoint before (of several, any one).
Rename(c) ==
    /\ ck[c].step = "rename"
    /\ IF file["tmp"].exists
       THEN \E keep \in {FALSE, ~ dirSynced} :
              LET handles == IF keep THEN Moved(ck, "chk", "gone")
                             ELSE Moved(Moved(ck, "old", "gone"), "chk", "old")
              IN  /\ ck' = [Moved(handles, "tmp", "chk") EXCEPT ![c].step = "syncdir"]
                  /\ file' = [p \in Places |->
                                CASE p = "tmp" -> NoFile
                                  [] p = "chk" -> file["tmp"]
                                  [] p = "old" -> IF keep THEN file["old"] ELSE file["chk"]]
                  /\ dirSynced' = FALSE
       ELSE ck' = [ck EXCEPT ![c] = NoCk] /\ UNCHANGED diskVars
    /\ UNCHANGED <<walVars, up, logFile, current, writing, begun, used, acked,
                   saved, offLog, spoiled>>

\* fsync_parent_dir; write_checkpoint returns Ok.
SyncDir(c) ==
    /\ ck[c].step = "syncdir"
    /\ ck' = [Moved(ck, "old", "gone") EXCEPT ![c] = NoCk]
    /\ file' = [file EXCEPT !["old"] = NoFile]
    /\ dirSynced' = TRUE
    /\ saved' = saved \cup ck[c].store.entries
    /\ UNCHANGED <<walVars, up, logFile, current, writing, begun, used, acked,
                   offLog, spoiled>>

\* A write, a sync or the rename fails: the call returns its error.
CheckpointErr(c) ==
    /\ ck[c].step # "idle"
    /\ ck' = [ck EXCEPT ![c] = NoCk]
    /\ UNCHANGED <<walVars, up, logFile, current, writing, diskVars, begun, used,
                   acked, saved, offLog, spoiled>>

-----------------------------------------------------------------------------
\* The process is gone, and nobody will read its temporary file again.
LoseMemory ==
    /\ up' = FALSE
    /\ current' = Genesis
    /\ writing' = NoTx
    /\ ck' = [c \in Checkpointers |-> NoCk]
    /\ UNCHANGED <<logFile, begun, used, acked, saved, offLog, spoiled>>

CrashProcess ==
    /\ up
    /\ \/ KillProcess /\ (wal' = wal \/ writing = NoTx)
       \/ /\ Kill /\ ~ open
          /\ crashes < MaxCrashes
          /\ crashes' = crashes + 1
          /\ UNCHANGED <<wal, durable, pending, lastSynced, open, confirmed>>
    /\ LoseMemory
    /\ file' = [file EXCEPT !["tmp"] = NoFile]
    /\ UNCHANGED dirSynced

\* What a power loss may leave of a file: the blocks on stable storage, the
\* blocks written since, or some of both.
Survivors(f) ==
    IF f.blocks = f.synced THEN {f}
    ELSE {Holding(b, b) : b \in {f.blocks, f.synced, <<Hole>>}}

CrashMachine ==
    /\ LosePower
    /\ Len(wal') <= Len(wal) \/ (open /\ writing = NoTx)
    /\ LoseMemory
    /\ \E f \in Survivors(file["chk"]) \cup
                (IF dirSynced THEN {} ELSE Survivors(file["old"])) :
         file' = [p \in Places |-> IF p = "chk" THEN f ELSE NoFile]
    /\ dirSynced' = TRUE

-----------------------------------------------------------------------------
HasCheckpoint == file["chk"].exists
Loadable == Whole(file["chk"].blocks)
Loaded == file["chk"].blocks[1].store

\* A faulty replay: it starts one epoch late.
ReplayLate(s) ==
    LET later == {f \in ReadableFrames(wal) : f.epoch > s.epoch + 1}
    IN  [epoch |-> Max({s.epoch} \cup {f.epoch : f \in later}),
         entries |-> s.entries \cup {[epoch |-> f.epoch, tx |-> f.tx] : f \in later}]

\* A faulty replay: it takes the entries of the checkpoint's epochs as well.
ReplayAll(s) ==
    LET frames == ReadableFrames(wal)
    IN  [epoch |-> Max({s.epoch} \cup {f.epoch : f \in frames}),
         entries |-> s.entries \cup {[epoch |-> f.epoch, tx |-> f.tx] : f \in frames}]

\* replay_entry of every entry of the log above the epoch of the store.
Replay(s) ==
    LET later == {f \in ReadableFrames(wal) : f.epoch > s.epoch}
    IN  [epoch |-> Max({s.epoch} \cup {f.epoch : f \in later}),
         entries |-> s.entries \cup {[epoch |-> f.epoch, tx |-> f.tx] : f \in later}]

\* A faulty create: the handle is returned and no file is left behind.
CreateWalUnlinked ==
    /\ ~ logFile
    /\ logFile' = FALSE
    /\ open' = TRUE
    /\ pending' = 0
    /\ lastSynced' = 0
    /\ UNCHANGED <<wal, durable, confirmed, crashes>>

\* Wal::create: create_new, so there must be no such file.
CreateWal ==
    /\ ~ logFile
    /\ logFile' = TRUE
    /\ open' = TRUE
    /\ pending' = 0
    /\ lastSynced' = 0
    /\ UNCHANGED <<wal, durable, confirmed, crashes>>

\* The entries of the log that only the page cache is certain to hold.
Unsynced == {[epoch |-> wal[i].epoch, tx |-> wal[i].tx] : i \in (durable + 1)..Len(wal)}

\* The database opens on store s.  An error that was passed over is noted, and
\* what the store has from a part of the log that recovery did not sync.
Opens(s, passedOver) ==
    /\ up' = TRUE
    /\ current' = s
    /\ spoiled' = (spoiled \/ passedOver)
    /\ offLog' = offLog \cup (s.entries \cap Unsynced')
    /\ UNCHANGED <<writing, diskVars, ck, begun, used, acked, saved>>

\* cold_start, level by level.  A level that fails for whatever reason gives
\* way to the next, so a checkpoint that loads is passed over only after an
\* error of the file system.
ColdStartBoth ==
    /\ ~ up
    /\ HasCheckpoint /\ logFile /\ Loadable
    /\ RecoverWal
    /\ Opens(Replay(Loaded), FALSE)
    /\ UNCHANGED logFile

\* Should the log not be created, the database opens without one.
ColdStartCheckpoint ==
    /\ ~ up
    /\ HasCheckpoint /\ ~ logFile /\ Loadable
    /\ \/ CreateWal /\ Opens(Loaded, FALSE)
       \/ OpenErrors /\ UNCHANGED <<walVars, logFile>> /\ Opens(Loaded, TRUE)

PassesCheckpoint == HasCheckpoint => ~ Loadable \/ OpenErrors

ColdStartLog ==
    /\ ~ up
    /\ logFile /\ PassesCheckpoint
    /\ RecoverWal
    /\ Opens(Replay(Genesis), HasCheckpoint /\ Loadable)
    /\ UNCHANGED logFile

\* Where a log exists but cannot be read, Wal::create fails and so does the
\* cold start.
ColdStartGenesis ==
    /\ ~ up
    /\ ~ logFile /\ PassesCheckpoint
    /\ CreateWal
    /\ Opens(Genesis, HasCheckpoint /\ Loadable)

\* cold_start_with_backend: only a damaged checkpoint is passed over, the log
\* is read but not cut, and the database has no log.
ColdStartBackend ==
    /\ ~ up
    /\ UNCHANGED <<walVars, logFile>>
    /\ Opens(IF HasCheckpoint /\ Loadable
             THEN IF logFile THEN Replay(Loaded) ELSE Loaded
             ELSE IF logFile THEN Replay(Genesis) ELSE Genesis, FALSE)

Next ==
    \/ \E t \in Txs : LogTx(t) \/ PublishUnlogged(t)
    \/ LogTxErr \/ SyncTx \/ SyncTxErr
    \/ \E c \in Checkpointers :
         \/ BeginCheckpoint(c) \/ WriteBlock(c) \/ SyncFile(c) \/ Rename(c)
         \/ SyncDir(c) \/ CheckpointErr(c)
    \/ CrashProcess \/ CrashMachine
    \/ ColdStartBoth \/ ColdStartCheckpoint \/ ColdStartLog \/ ColdStartGenesis
    \/ ColdStartBackend

Spec == Init /\ [][Next]_vars

-----------------------------------------------------------------------------
Block == [store : Store, at : Nat]
File == [exists : BOOLEAN, blocks : Seq(Block), synced : Seq(Block)]
Handle == [step : {"idle", "write", "rename", "syncdir"}, at : Places \cup {"gone"},
           inPlace : BOOLEAN, pos : Nat, store : Store]

\* Every variable has its type, and a log handle belongs to a running process
\* and to a file in the directory.
TypeOK ==
    /\ WalTypeOK
    /\ up \in BOOLEAN /\ (open => up /\ logFile)
    /\ logFile \in BOOLEAN
    /\ current \in Store
    /\ writing \in Txs \cup {NoTx}
    /\ file \in [Places -> File]
    /\ dirSynced \in BOOLEAN
    /\ ck \in [Checkpointers -> Handle]
    /\ begun \in 0..MaxCheckpoints
    /\ used \in SUBSET Txs
    /\ acked \in SUBSET Entry /\ saved \in SUBSET Entry /\ offLog \in SUBSET Entry
    /\ spoiled \in BOOLEAN

\* INV-FERR-014 (storage/mod.rs:9): "Recovery produces the last committed
\* state".  What was acknowledged, and what a checkpoint saved, is there after
\* every cold start, through crashes at any point, as long as no two checkpoints
\* of the process overlapped, none was written in place and no cold start passed
\* over an error (`spoiled`).  Even that costs no acknowledged transaction if no
\* database showed an entry before the log had it on stable storage (`offLog`):
\* then the log alone suffices.
NothingLost ==
    up => /\ (~ spoiled \/ offLog = {}) => acked \subseteq current.entries
          /\ ~ spoiled => saved \subseteq current.entries

\* HI-001 (io.rs:25): "A crash during write leaves the old checkpoint intact".
\* Unless checkpoints overlap or are written in place, whatever file a reader
\* or a restart after a power loss finds under the name of the checkpoint loads.
CheckpointWhole ==
    ~ spoiled =>
        \A f \in Survivors(file["chk"]) \cup
                 (IF dirSynced THEN {} ELSE Survivors(file["old"])) :
            f.exists => Whole(f.blocks)

\* INV-FERR-007: no cold start mixes two histories: whatever the files hold,
\* the store it opens has at most one transaction for an epoch.
OneHistory ==
    \A d, e \in current.entries : d.epoch = e.epoch <=> d.tx = e.tx
=============================================================================
