-------------------------------- MODULE Wal --------------------------------
(***************************************************************************)
(* The write-ahead log of ferratomic-wal/src/wal: an append-only file of   *)
(* CRC-protected frames, one per transaction, behind a handle that tracks  *)
(* the last epoch written and the last epoch synced.                       *)
(*                                                                         *)
(* The file is a sequence of frames as the operating system would return   *)
(* them now; `durable` is the length of the prefix that a power loss is    *)
(* certain to keep.  A partial frame is the frame `Torn`: it fails the     *)
(* completeness or CRC test of try_parse_frame, and so ends recovery.      *)
(***************************************************************************)
EXTENDS Integers, Sequences

CONSTANTS
    Txs,          \* payloads: the datoms of one transaction each
    NoTx,         \* the payload of a torn frame
    Epochs,       \* the epochs a client may append (a bound for TLC)
    TornAppend,   \* may a failing write_all leave part of a frame behind?
    Kill,         \* may the process die with the machine staying up?
    PowerLoss,    \* may the machine lose what was not synced?
    MaxCrashes    \* bound on the number of crashes

ASSUME WalAssumption ==
    /\ NoTx \notin Txs
    /\ Epochs \subseteq Nat \ {0}
    /\ \A e \in Epochs : 1..e \subseteq Epochs
    /\ TornAppend \in BOOLEAN
    /\ Kill \in BOOLEAN
    /\ PowerLoss \in BOOLEAN
    /\ MaxCrashes \in Nat

VARIABLES
    wal,         \* the frames in the file
    durable,     \* how many of them are on stable storage for certain
    pending,     \* Wal.pending_epoch
    lastSynced,  \* Wal.last_synced_epoch
    open,        \* is there a live handle (is the process up)?
    confirmed,   \* history: the frames an Ok of fsync() has vouched for
    crashes      \* history: the number of crashes so far

walVars == <<wal, durable, pending, lastSynced, open, confirmed, crashes>>

Torn == [ok |-> FALSE, epoch |-> 0, tx |-> NoTx]
Frame == [ok : {TRUE}, epoch : Nat \ {0}, tx : Txs] \cup {Torn}
GoodFrame(e, t) == [ok |-> TRUE, epoch |-> e, tx |-> t]

\* Recovery reads frame i: it and every frame before it passes its checks.
Readable(file, i) == i \in 1..Len(file) /\ \A j \in 1..i : file[j].ok

ReadableFrames(file) == {file[i] : i \in {j \in 1..Len(file) : Readable(file, j)}}

\* n is where parse_wal_frames_with_pos stops in the file.
ParsedLength(file, n) ==
    /\ n \in 0..Len(file)
    /\ \A j \in 1..n : file[j].ok
    /\ n < Len(file) => ~ file[n + 1].ok

\* The good frames of the file have increasing epochs.
Ordered(file) ==
    \A i, j \in 1..Len(file) :
        i < j /\ file[i].ok /\ file[j].ok => file[i].epoch < file[j].epoch

WalMax(a, b) == IF a >= b THEN a ELSE b

-----------------------------------------------------------------------------
WalInit ==
    /\ wal = << >>
    /\ durable = 0
    /\ pending = 0
    /\ lastSynced = 0
    /\ open = TRUE
    /\ confirmed = {}
    /\ crashes = 0

\* A faulty check: against the last epoch synced, not the last one written.
RefusedBySynced(e) == e <= lastSynced /\ lastSynced > 0

\* write_frame refuses an epoch that is not above the pending one.
Refused(e) == e <= pending /\ pending > 0

AppendRefused(e) ==
    /\ open
    /\ Refused(e)
    /\ UNCHANGED walVars

AppendOk(e, t) ==
    /\ open
    /\ ~ Refused(e)
    /\ wal' = Append(wal, GoodFrame(e, t))
    /\ pending' = WalMax(pending, e)
    /\ UNCHANGED <<durable, lastSynced, open, confirmed, crashes>>

\* write_frame fails: the payload is too large, or write_all stops before the
\* first byte or, with TornAppend, after it.  pending_epoch stays as it was.
AppendFailed(e) ==
    /\ open
    /\ ~ Refused(e)
    /\ \/ UNCHANGED wal
       \/ TornAppend /\ wal' = Append(wal, Torn)
    /\ UNCHANGED <<durable, pending, lastSynced, open, confirmed, crashes>>

\* A faulty fsync: a flush to the page cache without sync_all.
FsyncSkipped ==
    /\ open
    /\ lastSynced' = WalMax(lastSynced, pending)
    /\ confirmed' = confirmed \cup {wal[i] : i \in {j \in 1..Len(wal) : wal[j].ok}}
    /\ UNCHANGED <<wal, durable, pending, open, crashes>>

\* fsync: sync_all covers everything written so far.
FsyncOk ==
    /\ open
    /\ durable' = Len(wal)
    /\ lastSynced' = WalMax(lastSynced, pending)
    /\ confirmed' = confirmed \cup {wal[i] : i \in {j \in 1..Len(wal) : wal[j].ok}}
    /\ UNCHANGED <<wal, pending, open, crashes>>

\* fsync fails: any part of the tail may or may not have reached the disk, so
\* nothing more is certain than before.
FsyncFailed ==
    /\ open
    /\ UNCHANGED walVars

-----------------------------------------------------------------------------
\* The process dies, the page cache survives.  A write_all cut short leaves a
\* torn frame at the end.
KillProcess ==
    /\ Kill
    /\ open
    /\ crashes < MaxCrashes
    /\ wal' \in {wal, Append(wal, Torn)}
    /\ open' = FALSE
    /\ crashes' = crashes + 1
    /\ UNCHANGED <<durable, pending, lastSynced, confirmed>>

\* The machine dies.  Some prefix of the file that includes the durable part
\* is there after the restart, possibly with part of one more frame.
LosePower ==
    /\ PowerLoss
    /\ crashes < MaxCrashes
    /\ \E k \in durable..Len(wal) :
         /\ wal' \in {SubSeq(wal, 1, k), Append(SubSeq(wal, 1, k), Torn)}
         /\ durable' = k
    /\ open' = FALSE
    /\ crashes' = crashes + 1
    /\ UNCHANGED <<pending, lastSynced, confirmed>>

\* Wal::open and Wal::recover: keep the frames up to the first bad one, cut
\* the rest off (and then sync the file), and take the epoch of the last kept
\* frame for both counters.
RecoverWal ==
    /\ ~ open
    /\ \E n \in 0..Len(wal) :
         /\ ParsedLength(wal, n)
         /\ wal' = SubSeq(wal, 1, n)
         /\ durable' = IF n < Len(wal) THEN n ELSE durable
         /\ lastSynced' = IF n = 0 THEN 0 ELSE wal[n].epoch
         /\ pending' = IF n = 0 THEN 0 ELSE wal[n].epoch
    /\ open' = TRUE
    /\ UNCHANGED <<confirmed, crashes>>

WalNext ==
    \/ \E e \in Epochs :
         \/ AppendRefused(e)
         \/ AppendFailed(e)
         \/ \E t \in Txs : AppendOk(e, t)
    \/ FsyncOk \/ FsyncFailed
    \/ KillProcess \/ LosePower
    \/ RecoverWal

WalSpec == WalInit /\ [][WalNext]_walVars

-----------------------------------------------------------------------------
WalTypeOK ==
    /\ wal \in Seq(Frame)
    /\ durable \in 0..Len(wal)
    /\ pending \in Nat
    /\ lastSynced \in Nat
    /\ open \in BOOLEAN
    /\ confirmed \in SUBSET Frame
    /\ crashes \in Nat

\* INV-FERR-008 (writer.rs:32): "After this returns Ok, all previously appended
\* entries are guaranteed to survive a power loss or crash": every frame that
\* an Ok of fsync has vouched for lies in the part of the file that the next
\* recovery reads and no crash can take away.
ConfirmedSurvive ==
    \A f \in confirmed : \E i \in 1..durable : wal[i] = f /\ Readable(wal, i)

\* INV-FERR-007 (mod.rs:72): "epochs are strictly monotonically increasing
\* within a single WAL file", across failed appends and recoveries.
EpochsIncrease == Ordered(wal)
=============================================================================
