---------------------------- MODULE CommitProofs ----------------------------
(* The commit path shows what it acknowledged, at epochs without a gap, and  *)
(* so implements the abstract store; for any number of writers,              *)
(* transactions, epochs and crashes, and batches of any length.              *)
EXTENDS DatabaseProofs

\* What recovery reads from a log file.
LogOf(file) == {EntryOf(f) : f \in ReadableFrames(file)}

\* The entries of a log.
LEMMA InLog ==
    ASSUME NEW file, NEW e
    PROVE  e \in LogOf(file) <=>
              \E i \in 1..Len(file) : Readable(file, i) /\ e = EntryOf(file[i])
  BY Zenon DEF LogOf, ReadableFrames

\* A log with all frames of another has all its entries.
LEMMA LogWithin ==
    ASSUME NEW a, NEW b,
           \A i \in 1..Len(a) : Readable(a, i) =>
              \E j \in 1..Len(b) : Readable(b, j) /\ b[j] = a[i]
    PROVE  LogOf(a) \subseteq LogOf(b)
<1> SUFFICES ASSUME NEW e \in LogOf(a) PROVE e \in LogOf(b)
  BY Zenon
<1>1. PICK i \in 1..Len(a) : Readable(a, i) /\ e = EntryOf(a[i])
  BY InLog, Zenon
<1>2. PICK j \in 1..Len(b) : Readable(b, j) /\ b[j] = a[i]
  BY <1>1, Zenon
<1> QED
  BY <1>1, <1>2, InLog, Zenon

\* A frame torn off adds nothing.
LEMMA LogTorn ==
    ASSUME NEW file \in Seq(Frame)
    PROVE  LogOf(Append(file, Torn)) = LogOf(file)
<1> DEFINE longer == Append(file, Torn)
<1>1. /\ Len(file) \in Nat /\ Len(longer) = Len(file) + 1
      /\ \A i \in 1..Len(file) : longer[i] = file[i]
      /\ ~ longer[Len(file) + 1].ok
  BY Extended, TornType, SeqLen, Zenon
<1> HIDE DEF longer
<1>2. ASSUME NEW i \in 1..Len(longer), Readable(longer, i)
      PROVE  i \in 1..Len(file) /\ Readable(file, i) /\ longer[i] = file[i]
  BY <1>1, <1>2 DEF Readable
<1>3. ASSUME NEW i \in 1..Len(file), Readable(file, i)
      PROVE  i \in 1..Len(longer) /\ Readable(longer, i) /\ longer[i] = file[i]
  BY <1>1, <1>3 DEF Readable
<1>4. LogOf(longer) \subseteq LogOf(file)
  BY <1>2, LogWithin, Zenon
<1>5. LogOf(file) \subseteq LogOf(longer)
  BY <1>3, LogWithin, Zenon
<1> QED
  BY <1>4, <1>5, Zenon DEF longer

\* A frame written to a file without bad ones adds its entry.
LEMMA LogGood ==
    ASSUME NEW file \in Seq(Frame), \A i \in 1..Len(file) : file[i].ok,
           NEW e \in Nat \ {0}, NEW t \in Txs
    PROVE  LogOf(Append(file, GoodFrame(e, t))) =
              LogOf(file) \cup {[epoch |-> e, tx |-> t]}
<1> DEFINE longer == Append(file, GoodFrame(e, t))
           new == [epoch |-> e, tx |-> t]
<1>1. /\ Len(file) \in Nat /\ Len(longer) = Len(file) + 1
      /\ \A i \in 1..Len(file) : longer[i] = file[i]
      /\ longer[Len(file) + 1].ok /\ EntryOf(longer[Len(file) + 1]) = new
  BY Extended, GoodFrameType, SeqLen DEF EntryOf
<1> HIDE DEF longer, new
<1>2. ASSUME NEW i \in 1..Len(longer)
      PROVE  Readable(longer, i) /\ (i \in 1..Len(file) \/ i = Len(file) + 1)
  BY <1>1, <1>2 DEF Readable
<1>3. ASSUME NEW i \in 1..Len(file)
      PROVE  i \in 1..Len(longer) /\ Readable(file, i) /\ longer[i] = file[i]
  BY <1>1, <1>3 DEF Readable
<1>4. Len(file) + 1 \in 1..Len(longer)
  BY <1>1
<1>5. LogOf(file) \subseteq LogOf(longer)
  BY <1>2, <1>3, LogWithin, Zenon
<1>6. new \in LogOf(longer)
  BY <1>1, <1>2, <1>4, InLog, Zenon
<1>7. ASSUME NEW x \in LogOf(longer) PROVE x \in LogOf(file) \cup {new}
  <2>1. PICK i \in 1..Len(longer) : x = EntryOf(longer[i])
    BY InLog, Zenon
  <2>2. CASE i \in 1..Len(file)
    BY <1>3, <2>1, <2>2, InLog, Zenon
  <2>3. CASE i = Len(file) + 1
    BY <1>1, <2>1, <2>3, Zenon
  <2> QED
    BY <1>2, <2>2, <2>3, Zenon
<1> QED
  BY <1>5, <1>6, <1>7, Zenon DEF longer, new

\* What is left of a log cut short is closed downwards.
LEMMA LogPrefix ==
    ASSUME NEW file \in Seq(Frame), Ordered(file), NEW k \in 0..Len(file)
    PROVE  /\ LogOf(SubSeq(file, 1, k)) \subseteq LogOf(file)
           /\ \A e \in LogOf(SubSeq(file, 1, k)), d \in LogOf(file) :
                 d.epoch <= e.epoch => d \in LogOf(SubSeq(file, 1, k))
<1> DEFINE kept == SubSeq(file, 1, k)
<1>1. /\ Len(file) \in Nat /\ Len(kept) = k
      /\ \A i \in 1..k : kept[i] = file[i]
  BY Prefix, SeqLen, Zenon
<1> HIDE DEF kept
<1>2. ASSUME NEW i \in 1..k
      PROVE  i \in 1..Len(file) /\ (Readable(kept, i) <=> Readable(file, i))
  BY <1>1, <1>2 DEF Readable
<1>3. LogOf(kept) \subseteq LogOf(file)
  BY <1>1, <1>2, LogWithin, Zenon
<1>4. ASSUME NEW e \in LogOf(kept), NEW d \in LogOf(file), d.epoch <= e.epoch
      PROVE  d \in LogOf(kept)
  <2>1. PICK i \in 1..k : Readable(file, i) /\ e = EntryOf(file[i])
    <3>1. PICK i \in 1..Len(kept) : Readable(kept, i) /\ e = EntryOf(kept[i])
      BY <1>4, InLog, Zenon
    <3> QED
      BY <1>1, <1>2, <3>1, Zenon
  <2>2. PICK j \in 1..Len(file) : Readable(file, j) /\ d = EntryOf(file[j])
    BY <1>4, InLog, ZenonT(40)
  <2>3. file[i].epoch \in Nat /\ file[j].epoch \in Nat
    BY <1>2, SeqElement, FrameFields, Zenon
  <2>4. file[i].ok /\ file[j].ok
    BY <1>1, <1>2, <2>1, <2>2 DEF Readable
  <2>5. ~ (i < j)
    BY <1>2, <1>4, <2>1, <2>2, <2>3, <2>4 DEF Ordered, EntryOf
  <2>6. j \in 1..k
    BY <1>1, <2>5
  <2> QED
    BY <1>1, <1>2, <2>2, <2>6, InLog, ZenonT(40)
<1> QED
  BY <1>3, <1>4, Zenon DEF kept

\* Recovery keeps what it reads, and the last frame it reads has the largest
\* epoch.
LEMMA LogParsed ==
    ASSUME NEW file \in Seq(Frame), Ordered(file), NEW n \in 0..Len(file),
           ParsedLength(file, n)
    PROVE  /\ LogOf(SubSeq(file, 1, n)) = LogOf(file)
           /\ \A e \in LogOf(file) : n # 0 /\ e.epoch <= file[n].epoch
           /\ n # 0 => EntryOf(file[n]) \in LogOf(file)
<1> DEFINE kept == SubSeq(file, 1, n)
<1>1. /\ Len(file) \in Nat /\ Len(kept) = n
      /\ \A i \in 1..n : kept[i] = file[i]
  BY Prefix, SeqLen, Zenon
<1> HIDE DEF kept
<1>2. ASSUME NEW i \in 1..Len(file), Readable(file, i)
      PROVE  i \in 1..n
  BY <1>1, <1>2 DEF Readable, ParsedLength
<1>3. ASSUME NEW i \in 1..n
      PROVE  i \in 1..Len(file) /\ Readable(kept, i) /\ Readable(file, i) /\ file[i].ok
  BY <1>1, <1>3 DEF Readable, ParsedLength
<1>4. LogOf(kept) \subseteq LogOf(file) /\ LogOf(file) \subseteq LogOf(kept)
  BY <1>1, <1>2, <1>3, LogWithin, Zenon
<1>5. ASSUME NEW e \in LogOf(file)
      PROVE  n # 0 /\ e.epoch <= file[n].epoch
  <2>1. PICK i \in 1..n : e = EntryOf(file[i])
    BY <1>2, <1>5, InLog, ZenonT(40)
  <2>2. n \in 1..n /\ i \in 1..Len(file) /\ n \in 1..Len(file)
    BY <1>1, <1>3
  <2>3. file[i].epoch \in Nat /\ file[n].epoch \in Nat
    BY <2>2, SeqElement, FrameFields, Zenon
  <2>4. i < n => file[i].epoch < file[n].epoch
    BY <1>3, <2>2, Zenon DEF Ordered
  <2> QED
    BY <2>1, <2>2, <2>3, <2>4 DEF EntryOf
<1>6. n # 0 => EntryOf(file[n]) \in LogOf(file)
  <2>1. n # 0 => n \in 1..n
    BY <1>1
  <2> QED
    BY <1>3, <2>1, InLog, ZenonT(40)
<1> QED
  BY <1>4, <1>5, <1>6, Zenon DEF kept
-----------------------------------------------------------------------------
\* What recovery would read from the log now.
Log == LogOf(wal)

\* An append adds one entry.
LEMMA LogAppended ==
    ASSUME OrderInv, SurvivalInv, NEW e \in Epochs, NEW t \in Txs, AppendOk(e, t)
    PROVE  /\ Log' = Log \cup {[epoch |-> e, tx |-> t]}
           /\ \A d \in Log : d.epoch < e
<1>1. wal \in Seq(Frame) /\ Len(wal) \in Nat /\ e \in Nat \ {0} /\ open
  BY SeqLen, WalAssumption, Zenon DEF OrderInv, WalTypeOK, AppendOk
<1>2. \A i \in 1..Len(wal) : wal[i].ok /\ wal[i].epoch \in Nat /\ wal[i].epoch <= pending
  <2>1. \A i \in 1..Len(wal) : wal[i] \in Frame
    BY <1>1, SeqElement, Zenon
  <2> QED
    BY <1>1, <2>1, FrameFields, Zenon DEF OrderInv, SurvivalInv, UpTo
<1>3. Log' = Log \cup {[epoch |-> e, tx |-> t]}
  BY <1>1, <1>2, LogGood, Zenon DEF AppendOk, Log
<1>4. pending < e
  BY <1>1 DEF AppendOk, Refused, OrderInv, WalTypeOK
<1>5. ASSUME NEW d \in Log PROVE d.epoch < e
  <2>1. PICK i \in 1..Len(wal) : d = EntryOf(wal[i])
    BY InLog, Zenon DEF Log
  <2>2. d.epoch = wal[i].epoch
    BY <2>1, Zenon DEF EntryOf
  <2> QED
    BY <1>1, <1>2, <1>4, <2>1, <2>2 DEF OrderInv, WalTypeOK
<1> QED
  BY <1>3, <1>5, Zenon

\* A killed process leaves the log as recovery reads it.
LEMMA LogAtKill ==
    ASSUME OrderInv, KillProcess
    PROVE  Log' = Log
<1>1. wal \in Seq(Frame)
  BY Zenon DEF OrderInv, WalTypeOK
<1>2. wal' = wal \/ wal' = Append(wal, Torn)
  BY Zenon DEF KillProcess
<1> QED
  BY <1>1, <1>2, LogTorn, Zenon DEF Log

\* A power loss cuts the log from the end.
LEMMA LogAtPowerLoss ==
    ASSUME OrderInv, LosePower
    PROVE  /\ Log' \subseteq Log
           /\ \A e \in Log', d \in Log : d.epoch <= e.epoch => d \in Log'
<1>1. wal \in Seq(Frame) /\ Ordered(wal) /\ durable \in 0..Len(wal) /\ Len(wal) \in Nat
  BY SeqLen, Zenon DEF OrderInv, WalTypeOK, EpochsIncrease
<1>2. PICK k \in durable..Len(wal) :
        wal' \in {SubSeq(wal, 1, k), Append(SubSeq(wal, 1, k), Torn)}
  BY Zenon DEF LosePower
<1> DEFINE kept == SubSeq(wal, 1, k)
<1>3. k \in 0..Len(wal)
  BY <1>1
<1>4. kept \in Seq(Frame)
  BY <1>1, <1>3, Prefix, Zenon
<1>5. LogOf(wal') = LogOf(kept)
  BY <1>2, <1>4, LogTorn, Zenon
<1>6. /\ LogOf(kept) \subseteq LogOf(wal)
      /\ \A e \in LogOf(kept), d \in LogOf(wal) : d.epoch <= e.epoch => d \in LogOf(kept)
  BY <1>1, <1>3, LogPrefix, Zenon
<1> HIDE DEF kept
<1> QED
  BY <1>5, <1>6, Zenon DEF Log

\* Recovery keeps what it reads and takes its last epoch for lastSynced.
LEMMA LogAtRecovery ==
    ASSUME OrderInv, RecoverWal
    PROVE  /\ Log' = Log
           /\ lastSynced' \in Nat
           /\ \A e \in Log : e.epoch <= lastSynced'
           /\ lastSynced' # 0 => \E e \in Log : e.epoch = lastSynced'
<1>1. wal \in Seq(Frame) /\ Ordered(wal) /\ Len(wal) \in Nat
  BY SeqLen, Zenon DEF OrderInv, WalTypeOK, EpochsIncrease
<1>2. PICK n \in 0..Len(wal) :
        /\ ParsedLength(wal, n)
        /\ wal' = SubSeq(wal, 1, n)
        /\ lastSynced' = IF n = 0 THEN 0 ELSE wal[n].epoch
  BY Zenon DEF RecoverWal
<1>3. /\ Log' = Log
      /\ \A e \in Log : n # 0 /\ e.epoch <= wal[n].epoch
      /\ n # 0 => EntryOf(wal[n]) \in Log
  BY <1>1, <1>2, LogParsed, Zenon DEF Log
<1>4. n # 0 => wal[n].epoch \in Nat
  <2>1. n # 0 => wal[n] \in Frame
    BY <1>1, SeqElement
  <2> QED
    BY <2>1, FrameFields, Zenon
<1>5. EntryOf(wal[n]).epoch = wal[n].epoch
  BY Zenon DEF EntryOf
<1> QED
  BY <1>2, <1>3, <1>4, <1>5, Zenon
-----------------------------------------------------------------------------
(* The inductive invariant.  Every entry that the log, the published store or *)
(* the checkpoint holds belongs to one history, with one transaction for an   *)
(* epoch.  The log may have a gap: a store recovered from frames that were    *)
(* never synced can be saved by a checkpoint, and a power loss can then take  *)
(* the frames.  So an epoch is held by the log or by every checkpoint that a  *)
(* restart may find.                                                          *)

History == Log \cup current.entries \cup ckpt.entries

Unique(S) == \A d, e \in S : d.epoch = e.epoch <=> d.tx = e.tx

\* One entry or more for every epoch up to the store's own, and no others.
Full(s) ==
    /\ \A e \in s.entries : e.epoch \in 1..s.epoch
    /\ \A k \in 1..s.epoch : \E e \in s.entries : e.epoch = k

Includes(s, t) == t.entries \subseteq s.entries /\ t.epoch <= s.epoch

Held(k) == k <= ckptDurable.epoch \/ \E d \in Log : d.epoch = k

HistoryInv ==
    /\ Unique(History)
    /\ \A e \in History : e.tx \in used
    /\ \A e \in Log : \A k \in 1..e.epoch : Held(k)
    /\ \A k \in 1..ckpt.epoch : Held(k)
    /\ open => \A k \in 1..current.epoch : Held(k)

\* Checkpoints on their way to the disk, each within the next.
StoresInv ==
    /\ Full(current) /\ Full(ckpt) /\ Full(ckptDurable)
    /\ Includes(ckpt, ckptDurable)
    /\ open => Includes(current, ckpt)
    /\ ~ open => ckptPc = "idle"
    /\ ckptPc \in {"write", "rename"} =>
          Full(ckptBuf) /\ Includes(ckptBuf, ckpt) /\ Includes(current, ckptBuf)

\* A call that holds the write lock and has not failed.
Working == {"apply", "append", "fsync", "publish"}

Logged(w, i) ==
    \/ pc[w] = "append" /\ i < idx[w]
    \/ pc[w] = "fsync" /\ i <= idx[w]
    \/ pc[w] = "publish"

Receipt(w, i) == [epoch |-> current.epoch + i, tx |-> job[w][i]]

\* Its transactions are new until they are logged, at the epochs that follow
\* the published store.
ReceiptsOk(w) ==
    \A i \in 1..Len(job[w]) :
        /\ job[w][i] \in used
        /\ \A j \in 1..Len(job[w]) : job[w][i] = job[w][j] => i = j
        /\ Logged(w, i) => Receipt(w, i) \in Log
        /\ ~ Logged(w, i) => \A e \in History : e.tx # job[w][i]

CloneOk(w) ==
    next[w] = [epoch |-> current.epoch + Len(job[w]),
               entries |-> current.entries \cup {Receipt(w, i) : i \in 1..Len(job[w])}]

\* A call that has published its store.
Published(w) ==
    \/ pc[w] \in {"frontier", "notify"}
    \/ pc[w] \in {"unlock", "dropSlot"} /\ ~ failed[w]

JobOk(w) ==
    /\ pc[w] \in Working => ReceiptsOk(w)
    /\ pc[w] \in Working \ {"apply"} => CloneOk(w)
    /\ Published(w) =>
          \A i \in 1..Len(job[w]) : \E e \in current.entries : e.tx = job[w][i]

JobsInv == \A w \in Writers : JobOk(w)

CommitInv == TypeInv /\ SurvivalInv /\ LockInv /\ HistoryInv /\ StoresInv /\ JobsInv

-----------------------------------------------------------------------------
\* The log of a state with types.
LEMMA LogType ==
    ASSUME WalTypeOK
    PROVE  \A e \in Log : e \in Entry /\ e.epoch > 0
<1> SUFFICES ASSUME NEW e \in Log PROVE e \in Entry /\ e.epoch > 0
  BY Zenon
<1>1. PICK i \in 1..Len(wal) : Readable(wal, i) /\ e = EntryOf(wal[i])
  BY InLog, Zenon DEF Log
<1>2. wal[i] \in Frame /\ wal[i].ok
  BY <1>1, SeqElement, SeqLen DEF WalTypeOK, Readable
<1> QED
  BY <1>1, <1>2, FrameFields, Zenon DEF EntryOf, Entry

\* The entries of the history, and the epochs of the stores.
LEMMA HistoryType ==
    ASSUME TypeInv
    PROVE  /\ \A e \in History : e \in Entry /\ e.epoch \in Nat
           /\ current.epoch \in Nat /\ ckpt.epoch \in Nat /\ ckptDurable.epoch \in Nat
           /\ ckptBuf.epoch \in Nat
<1>1. WalTypeOK /\ current \in Store /\ ckpt \in Store /\ ckptDurable \in Store
      /\ ckptBuf \in Store
  BY Zenon DEF TypeInv, TypeOK, StoreTypeOK
<1>2. current.entries \subseteq Entry /\ ckpt.entries \subseteq Entry
  BY <1>1, Zenon DEF Store
<1>3. \A e \in History : e \in Entry
  BY <1>1, <1>2, LogType, Zenon DEF History
<1>4. \A e \in Entry : e.epoch \in Nat
  BY Zenon DEF Entry
<1> QED
  BY <1>1, <1>3, <1>4, Zenon DEF Store

\* A step that leaves the log, the stores and what was submitted alone.
LEMMA HistoryStays ==
    ASSUME HistoryInv, StoresInv, open' <=> open, UNCHANGED <<wal, current, ckptVars, used>>
    PROVE  HistoryInv' /\ StoresInv' /\ History' = History /\ Log' = Log
<1>1. Log' = Log
  BY Zenon DEF Log
<1>2. History' = History
  BY <1>1, Zenon DEF History, ckptVars
<1>3. HistoryInv'
  BY <1>1, <1>2, Zenon DEF HistoryInv, Held, ckptVars
<1>4. StoresInv'
  BY Zenon DEF StoresInv, ckptVars
<1> QED
  BY <1>1, <1>2, <1>3, <1>4, Zenon

\* A call whose thread does not move keeps its record, as long as it is not at
\* work on the log, or the log and the stores do not change.
LEMMA JobStays ==
    ASSUME NEW v \in Writers, JobOk(v),
           pc'[v] = pc[v], job'[v] = job[v], idx'[v] = idx[v], failed'[v] = failed[v],
           next'[v] = next[v], current.entries \subseteq current'.entries,
           \/ pc[v] \notin Working
           \/ UNCHANGED current /\ Log' = Log /\ History' = History /\ used \subseteq used'
    PROVE  JobOk(v)'
<1>1. Published(v)' <=> Published(v)
  BY Zenon DEF Published
<1>2. Published(v)' => \A i \in 1..Len(job'[v]) : \E e \in current'.entries : e.tx = job'[v][i]
  BY <1>1, Zenon DEF JobOk
<1>3. CASE pc[v] \notin Working
  BY <1>2, <1>3, Zenon DEF JobOk
<1>4. CASE UNCHANGED current /\ Log' = Log /\ History' = History /\ used \subseteq used'
  <2>1. \A i : Receipt(v, i)' = Receipt(v, i) /\ (Logged(v, i)' <=> Logged(v, i))
    BY <1>4, Zenon DEF Receipt, Logged
  <2>2. ReceiptsOk(v) => ReceiptsOk(v)'
    BY <1>4, <2>1 DEF ReceiptsOk
  <2>3. CloneOk(v) => CloneOk(v)'
    BY <1>4, <2>1, Zenon DEF CloneOk
  <2> QED
    BY <1>2, <2>2, <2>3, Zenon DEF JobOk
<1> QED
  BY <1>3, <1>4, Zenon

\* A call's own record, one lemma for each step that changes it.
LEMMA JobStarts ==
    ASSUME TypeInv, HistoryInv, NEW w \in Writers, TakeLock(w)
    PROVE  JobOk(w)' /\ used \subseteq used'
<1>0. CallTypeOK
  BY Zenon DEF TypeInv, TypeOK
<1>n. PICK n \in Nat : \E s \in Jobs(n) : job' = [job EXCEPT ![w] = s]
  BY DatabaseAssumption, Zenon DEF TakeLock
<1>1. PICK s \in Jobs(n) : job' = [job EXCEPT ![w] = s]
  BY <1>n, Zenon
<1>2. job'[w] = s /\ pc'[w] = "apply"
  BY <1>0, <1>1, ZenonT(40) DEF TakeLock, Goto, CallTypeOK
<1>3. UNCHANGED <<wal, current, ckptVars>> /\ used' = used \cup {s[i] : i \in 1..Len(s)}
  BY <1>2, Zenon DEF TakeLock, walVars
<1>4. PICK m \in 0..n : /\ s \in [1..m -> Txs \ used]
                        /\ \A i, j \in DOMAIN s : s[i] = s[j] => i = j
  BY Zenon DEF Jobs
<1>5. 1..Len(s) = 1..m
  <2>1. Len(s) = m
    BY <1>4
  <2> QED
    BY <2>1, Zenon
<1>6. History' = History
  BY <1>3, Zenon DEF History, Log, ckptVars
<1>7. \A i \in 1..Len(s) : s[i] \notin used /\ \A j \in 1..Len(s) : s[i] = s[j] => i = j
  BY <1>4, <1>5, Zenon
<1>8. \A i \in 1..Len(s) : \A e \in History' : e.tx # s[i]
  BY <1>6, <1>7, Zenon DEF HistoryInv
<1>9. ReceiptsOk(w)'
  BY <1>2, <1>3, <1>7, <1>8, Zenon DEF ReceiptsOk, Logged
<1> QED
  BY <1>2, <1>3, <1>9, Zenon DEF JobOk, Published

\* A writer that applies a transaction of its batch keeps its job in order.
LEMMA JobApplied ==
    ASSUME TypeInv, JobsInv, NEW w \in Writers, ApplyOk(w), History' = History, Log' = Log
    PROVE  JobOk(w)'
<1>0. CallTypeOK /\ StoreTypeOK
  BY Zenon DEF TypeInv, TypeOK
<1>1. /\ pc[w] = "apply" /\ pc'[w] = "append" /\ idx[w] = 1
      /\ UNCHANGED <<current, job, idx, used>>
  BY <1>0, Zenon DEF ApplyOk, Goto, CallTypeOK, historyVars, TypeInv, CallShape
<1>2. CloneOk(w)'
  BY <1>0, <1>1, Zenon DEF ApplyOk, CloneOk, Receipt, StoreTypeOK
<1>3. ReceiptsOk(w)
  BY <1>1, Zenon DEF JobsInv, JobOk, Working
<1>4. \A i \in 1..Len(job[w]) : ~ Logged(w, i) /\ ~ Logged(w, i)'
  BY <1>1 DEF Logged
<1>5. ReceiptsOk(w)'
  BY <1>1, <1>3, <1>4, Zenon DEF ReceiptsOk
<1> QED
  BY <1>1, <1>2, <1>5, Zenon DEF JobOk, Published

\* So does one whose sync succeeds.
LEMMA JobSynced ==
    ASSUME TypeInv, JobsInv, NEW w \in Writers, SyncOk(w), History' = History, Log' = Log
    PROVE  JobOk(w)'
<1>0. CallTypeOK /\ StoreTypeOK
  BY Zenon DEF TypeInv, TypeOK
<1>1. pc[w] = "fsync" /\ UNCHANGED <<current, job, next, used>>
  BY Zenon DEF SyncOk, historyVars
<1>2. ReceiptsOk(w) /\ CloneOk(w)
  BY <1>1, Zenon DEF JobsInv, JobOk, Working
<1>3. CloneOk(w)'
  BY <1>1, <1>2, Zenon DEF CloneOk, Receipt
<1>4. /\ pc'[w] \in {"append", "publish"}
      /\ pc'[w] = "append" => idx'[w] = idx[w] + 1
      /\ pc'[w] = "publish" => ~ (idx[w] < Len(job[w]))
  BY <1>0, Zenon DEF SyncOk, Goto, CallTypeOK
<1>5. idx[w] \in Nat /\ Len(job[w]) \in Nat
  BY <1>0, ElementTypes, Zenon DEF CallTypeOK
<1>6. ASSUME NEW i \in 1..Len(job[w])
      PROVE  (Logged(w, i)' <=> Logged(w, i)) /\ Receipt(w, i)' = Receipt(w, i)
  BY <1>1, <1>4, <1>5 DEF Logged, Receipt
<1>7. ReceiptsOk(w)'
  BY <1>1, <1>2, <1>6, Zenon DEF ReceiptsOk
<1> QED
  BY <1>3, <1>4, <1>7, Zenon DEF JobOk, Published

\* The steps that leave the log and the stores alone.
LEMMA QuietStep ==
    ASSUME ~ TornAppend, CommitInv, NEW w \in Writers,
           \/ BeginCall(w) \/ Backpressure(w) \/ LockBusy(w) \/ ApplyOk(w) \/ ApplyErr(w)
           \/ LogErr(w) \/ SyncOk(w) \/ SyncErr(w) \/ AdvanceFrontier(w) \/ Unlock(w)
           \/ DropSlot(w) \/ NotifyAndReturn(w)
    PROVE  HistoryInv' /\ StoresInv' /\ JobsInv'
<1>0. CallTypeOK /\ StoreTypeOK
  BY Zenon DEF CommitInv, TypeInv, TypeOK
<1>1. UNCHANGED <<wal, current, ckptVars, used>>
  BY ZenonT(40) DEF BeginCall, Backpressure, LockBusy, ApplyOk, ApplyErr, LogErr, SyncOk, SyncErr,
     AdvanceFrontier, Unlock, DropSlot, NotifyAndReturn, walVars, historyVars,
     AppendRefused, AppendFailed, FsyncOk, FsyncFailed
<1>2. open' <=> open
  BY CallsKeepOpen, ZenonT(40) DEF CallStep
<1>3. HistoryInv' /\ StoresInv' /\ History' = History /\ Log' = Log
  BY <1>1, <1>2, HistoryStays, Zenon DEF CommitInv
<1>4. ASSUME NEW v \in Writers, v # w PROVE JobOk(v)'
  <2>1. /\ pc'[v] = pc[v] /\ job'[v] = job[v] /\ idx'[v] = idx[v]
        /\ failed'[v] = failed[v] /\ next'[v] = next[v]
    BY <1>0, <1>4, CallsMoveOne, ZenonT(40) DEF CallStep
  <2> QED
    BY <1>1, <1>3, <2>1, JobStays, Zenon DEF CommitInv, JobsInv
<1>5. JobOk(w)'
  <2>1. CASE ApplyOk(w)
    BY <1>3, <2>1, JobApplied, Zenon DEF CommitInv
  <2>2. CASE SyncOk(w)
    BY <1>3, <2>2, JobSynced, Zenon DEF CommitInv
  <2>3. CASE BeginCall(w) \/ Backpressure(w) \/ LockBusy(w) \/ ApplyErr(w) \/ LogErr(w)
             \/ SyncErr(w)
    <3>1. pc'[w] \notin Working /\ ~ Published(w)'
      BY <1>0, <2>3, Zenon DEF BeginCall, Backpressure, LockBusy, ApplyErr, LogErr, SyncErr, Goto,
         Fail, CallTypeOK, Working, Published
    <3> QED
      BY <3>1, Zenon DEF JobOk
  <2>4. CASE AdvanceFrontier(w) \/ Unlock(w) \/ DropSlot(w) \/ NotifyAndReturn(w)
    <3>1. /\ pc'[w] \notin Working
          /\ Published(w)' => Published(w) /\ job'[w] = job[w]
      BY <1>0, <2>4, Zenon DEF AdvanceFrontier, Unlock, DropSlot, NotifyAndReturn, Goto, Return,
         CallTypeOK, Working, Published
    <3> QED
      BY <1>1, <3>1, Zenon DEF JobOk, CommitInv, JobsInv
  <2> QED
    BY <2>1, <2>2, <2>3, <2>4, Zenon
<1> QED
  BY <1>3, <1>4, <1>5, Zenon DEF JobsInv

\* A writer takes the write lock.
LEMMA TakeLockStep ==
    ASSUME CommitInv, NEW w \in Writers, TakeLock(w)
    PROVE  HistoryInv' /\ StoresInv' /\ JobsInv'
<1>0. CallTypeOK /\ StoreTypeOK
  BY Zenon DEF CommitInv, TypeInv, TypeOK
<1>1. UNCHANGED <<wal, current, ckptVars>> /\ (open' <=> open)
  BY CallsKeepOpen, Zenon DEF TakeLock, walVars, CallStep
<1>2. JobOk(w)' /\ used \subseteq used'
  BY JobStarts, Zenon DEF CommitInv
<1>3. Log' = Log /\ History' = History
  BY <1>1, Zenon DEF Log, History, ckptVars
<1>4. HistoryInv'
  BY <1>1, <1>2, <1>3, Zenon DEF HistoryInv, Held, ckptVars, CommitInv
<1>5. StoresInv'
  BY <1>1, Zenon DEF StoresInv, ckptVars, CommitInv
<1>6. ASSUME NEW v \in Writers, v # w PROVE JobOk(v)'
  <2>1. /\ pc'[v] = pc[v] /\ job'[v] = job[v] /\ idx'[v] = idx[v]
        /\ failed'[v] = failed[v] /\ next'[v] = next[v]
    BY <1>0, <1>6, CallsMoveOne, ZenonT(40) DEF CallStep
  <2> QED
    BY <1>1, <1>2, <1>3, <2>1, JobStays, Zenon DEF CommitInv, JobsInv
<1> QED
  BY <1>2, <1>4, <1>5, <1>6, Zenon DEF JobsInv

\* While a call logs or publishes, no other call is at work.
LEMMA OtherJobs ==
    ASSUME CommitInv, NEW w \in Writers, LogOk(w) \/ Publish(w),
           current.entries \subseteq current'.entries,
           NEW v \in Writers, v # w
    PROVE  JobOk(v)'
<1>0. CallTypeOK /\ StoreTypeOK
  BY Zenon DEF CommitInv, TypeInv, TypeOK
<1>1. pc[w] \in Critical
  BY Zenon DEF LogOk, Publish, Critical
<1>2. pc[v] \notin Working
  BY <1>1, Zenon DEF CommitInv, LockInv, Working, Critical
<1>3. /\ pc'[v] = pc[v] /\ job'[v] = job[v] /\ idx'[v] = idx[v]
      /\ failed'[v] = failed[v] /\ next'[v] = next[v]
  BY <1>0, CallsMoveOne, ZenonT(40) DEF CallStep
<1> QED
  BY <1>2, <1>3, JobStays, Zenon DEF CommitInv, JobsInv

\* A writer appends and syncs its frame.
LEMMA LogStep ==
    ASSUME ~ TornAppend, CommitInv, NEW w \in Writers, LogOk(w)
    PROVE  HistoryInv' /\ StoresInv' /\ JobsInv'
<1> DEFINE n == idx[w]
           new == Receipt(w, n)
<1>0. CallTypeOK /\ StoreTypeOK /\ open
  <2>1. pc[w] # "idle"
    BY Zenon DEF LogOk
  <2> QED
    BY <2>1, Zenon DEF CommitInv, TypeInv, TypeOK, LockInv
<1>1. /\ pc[w] = "append" /\ pc'[w] = "fsync" /\ (open' <=> open)
      /\ UNCHANGED <<current, ckptVars, used, job, idx, next>>
  BY <1>0, CallsKeepOpen, Zenon DEF LogOk, Goto, CallTypeOK, CallStep, historyVars
<1>2. n \in 1..Len(job[w]) /\ n \in Nat /\ Len(job[w]) \in Nat
  BY <1>0, <1>1, ElementTypes, Zenon DEF CommitInv, TypeInv, CallShape, CallTypeOK
<1>3. ReceiptsOk(w) /\ CloneOk(w)
  BY <1>1, Zenon DEF CommitInv, JobsInv, JobOk, Working
<1>4. current.epoch \in Nat /\ ckpt.epoch \in Nat /\ \A e \in History : e.epoch \in Nat
  BY HistoryType, Zenon DEF CommitInv
<1>5. ReceiptEpoch(w) = current.epoch + n
  BY <1>2, <1>3, <1>4 DEF ReceiptEpoch, CloneOk
<1>6. ReceiptEpoch(w) \in Epochs /\ job[w][n] \in Txs
  BY <1>1, ReceiptType, Zenon DEF CommitInv
<1>7. Log' = Log \cup {new} /\ \A d \in Log : d.epoch < current.epoch + n
  <2>1. AppendOk(ReceiptEpoch(w), job[w][n])
    BY Zenon DEF LogOk
  <2> QED
    BY <1>5, <1>6, <2>1, LogAppended, Zenon DEF CommitInv, TypeInv, Receipt
<1>8. new.epoch = current.epoch + n /\ new.tx = job[w][n]
  BY Zenon DEF Receipt
<1>9. ~ Logged(w, n) /\ job[w][n] \in used
  BY <1>1, <1>2, <1>3 DEF Logged, ReceiptsOk
<1>10. History' = History \cup {new}
  BY <1>1, <1>7, Zenon DEF History, ckptVars
<1>11. \A e \in History : e.epoch < new.epoch /\ e.tx # new.tx
  <2>1. \A e \in current.entries : e.epoch \in 1..current.epoch
    BY Zenon DEF CommitInv, StoresInv, Full
  <2>2. ckpt.entries \subseteq current.entries
    BY <1>0, Zenon DEF CommitInv, StoresInv, Includes
  <2>3. \A e \in History : e.epoch < current.epoch + n
    BY <1>2, <1>4, <1>7, <2>1, <2>2 DEF History
  <2>4. \A e \in History : e.tx # job[w][n]
    BY <1>2, <1>3, <1>9, Zenon DEF ReceiptsOk
  <2> QED
    BY <1>8, <2>3, <2>4, Zenon
<1>12. Receipt(w, n)' = Receipt(w, n) /\ \A i : Receipt(w, i)' = Receipt(w, i)
  BY <1>1, Zenon DEF Receipt
<1>13. new.epoch \in Nat
  BY <1>2, <1>4, <1>8
<1> HIDE DEF new
<1>14. HistoryInv'
  <2>1. Unique(History)'
    <3>1. Unique(History)
      BY Zenon DEF CommitInv, HistoryInv
    <3> QED
      BY <1>4, <1>10, <1>11, <1>13, <3>1 DEF Unique
  <2>2. \A e \in History' : e.tx \in used'
    BY <1>1, <1>8, <1>9, <1>10, Zenon DEF CommitInv, HistoryInv
  <2>3. \A k : Held(k) => Held(k)'
    BY <1>1, <1>7, Zenon DEF Held, ckptVars
  <2>4. ASSUME NEW k \in 1..new.epoch PROVE Held(k)'
    <3>1. CASE k <= current.epoch
      <4>1. k \in 1..current.epoch
        BY <1>4, <3>1
      <4> QED
        BY <1>0, <2>3, <4>1, Zenon DEF CommitInv, HistoryInv
    <3>2. CASE k = new.epoch
      BY <1>7, <3>2, Zenon DEF Held
    <3>3. CASE k > current.epoch /\ k < new.epoch
      <4> DEFINE i == k - current.epoch
      <4>1. i \in 1..Len(job[w]) /\ i < n /\ current.epoch + i = k
        BY <1>2, <1>4, <1>8, <3>3
      <4>2. Logged(w, i)
        BY <1>1, <4>1, Zenon DEF Logged
      <4> HIDE DEF i
      <4>3. Receipt(w, i) \in Log /\ Receipt(w, i).epoch = k
        BY <1>3, <4>1, <4>2, Zenon DEF ReceiptsOk, Receipt
      <4> QED
        BY <1>7, <4>3, Zenon DEF Held
    <3> QED
      BY <1>4, <1>13, <3>1, <3>2, <3>3
  <2>5. \A e \in Log' : \A k \in 1..e.epoch : Held(k)'
    BY <1>7, <2>3, <2>4, Zenon DEF CommitInv, HistoryInv
  <2> QED
    BY <1>1, <2>1, <2>2, <2>3, <2>5, Zenon DEF CommitInv, HistoryInv, ckptVars
<1>15. StoresInv'
  BY <1>1, Zenon DEF CommitInv, StoresInv, ckptVars
<1>16. JobOk(w)'
  <2>1. CloneOk(w)'
    BY <1>1, <1>3, <1>12, Zenon DEF CloneOk
  <2>2. ASSUME NEW i \in 1..Len(job[w])
        PROVE  /\ Logged(w, i)' => Receipt(w, i) \in Log'
               /\ ~ Logged(w, i)' => \A e \in History' : e.tx # job[w][i]
    <3>1. Logged(w, i)' <=> i <= n
      BY <1>1, Zenon DEF Logged
    <3>2. CASE i < n
      <4>1. Receipt(w, i) \in Log
        BY <1>1, <1>3, <3>2, Zenon DEF ReceiptsOk, Logged
      <4> QED
        BY <1>2, <1>7, <3>1, <3>2, <4>1
    <3>3. CASE i = n
      BY <1>7, <3>1, <3>3, <1>2 DEF new
    <3>4. CASE i > n
      <4>1. job[w][i] # job[w][n]
        BY <1>2, <1>3, <3>4 DEF ReceiptsOk
      <4>2. ~ Logged(w, i)
        BY <1>1, <1>2, <3>4 DEF Logged
      <4>3. \A e \in History : e.tx # job[w][i]
        BY <1>3, <4>2, Zenon DEF ReceiptsOk
      <4> QED
        BY <1>2, <1>8, <1>10, <3>1, <3>4, <4>1, <4>3
    <3> QED
      BY <1>2, <3>2, <3>3, <3>4
  <2>3. ReceiptsOk(w)'
    BY <1>1, <1>3, <1>12, <2>2, Zenon DEF ReceiptsOk
  <2> QED
    BY <1>1, <2>1, <2>3, Zenon DEF JobOk, Published
<1>17. \A v \in Writers : v # w => JobOk(v)'
  BY <1>1, OtherJobs, Zenon
<1> QED
  BY <1>14, <1>15, <1>16, <1>17, Zenon DEF JobsInv

\* A writer publishes its store.
LEMMA PublishStep ==
    ASSUME CommitInv, NEW w \in Writers, Publish(w)
    PROVE  /\ HistoryInv' /\ StoresInv' /\ JobsInv'
           /\ current.entries \subseteq current'.entries
           /\ \A e \in current'.entries \ current.entries : e.epoch > current.epoch
<1> DEFINE n == Len(job[w])
<1>0. CallTypeOK /\ StoreTypeOK /\ open
  BY Zenon DEF CommitInv, TypeInv, TypeOK, Publish
<1>1. /\ pc[w] = "publish" /\ pc'[w] \in {"frontier", "unlock"} /\ (open' <=> open)
      /\ UNCHANGED <<wal, ckptVars, used, job>> /\ current' = next[w]
  BY <1>0, CallsKeepOpen, Zenon DEF Publish, Goto, CallTypeOK, CallStep, walVars
<1>2. n \in Nat /\ current.epoch \in Nat /\ ckpt.epoch \in Nat /\ ckptBuf.epoch \in Nat
  BY <1>0, ElementTypes, HistoryType, Zenon DEF CommitInv
<1>3. ReceiptsOk(w) /\ CloneOk(w)
  BY <1>1, Zenon DEF CommitInv, JobsInv, JobOk, Working
<1>4. /\ current'.epoch = current.epoch + n
      /\ current'.entries = current.entries \cup {Receipt(w, i) : i \in 1..n}
  BY <1>1, <1>3 DEF CloneOk
<1>5. \A i \in 1..n : Receipt(w, i) \in Log /\ Receipt(w, i).epoch = current.epoch + i
                      /\ Receipt(w, i).tx = job[w][i]
  BY <1>1, <1>3, Zenon DEF ReceiptsOk, Logged, Receipt
<1>6. Log' = Log /\ History' = History
  BY <1>1, <1>4, <1>5 DEF Log, History, ckptVars
<1>7. ASSUME NEW k \in 1..current'.epoch, ~ (k <= current.epoch)
      PROVE  \E i \in 1..n : Receipt(w, i).epoch = k
  <2>1. k - current.epoch \in 1..n /\ current.epoch + (k - current.epoch) = k
    BY <1>2, <1>4, <1>7
  <2> QED
    BY <1>5, <2>1, Zenon
<1>8. HistoryInv'
  <2>1. \A k : Held(k)' <=> Held(k)
    BY <1>1, <1>6, Zenon DEF Held, ckptVars
  <2>2. ASSUME NEW k \in 1..current'.epoch PROVE Held(k)
    <3>1. CASE k <= current.epoch
      BY <1>0, <1>2, <3>1 DEF CommitInv, HistoryInv
    <3>2. CASE ~ (k <= current.epoch)
      BY <1>5, <1>7, <3>2, Zenon DEF Held
    <3> QED
      BY <3>1, <3>2, Zenon
  <2> QED
    BY <1>1, <1>6, <2>1, <2>2, Zenon DEF CommitInv, HistoryInv, ckptVars
<1>9. Full(current')
  <2>1. Full(current)
    BY Zenon DEF CommitInv, StoresInv
  <2>2. ASSUME NEW e \in current'.entries PROVE e.epoch \in 1..current'.epoch
    <3>1. CASE e \in current.entries
      BY <1>2, <1>4, <2>1, <3>1 DEF Full
    <3>2. CASE e \notin current.entries
      <4>1. PICK i \in 1..n : e = Receipt(w, i)
        BY <1>4, <3>2, Zenon
      <4> QED
        BY <1>2, <1>4, <1>5, <4>1
    <3> QED
      BY <3>1, <3>2, Zenon
  <2>3. ASSUME NEW k \in 1..current'.epoch PROVE \E e \in current'.entries : e.epoch = k
    <3>1. CASE k <= current.epoch
      <4>1. k \in 1..current.epoch
        BY <1>2, <3>1
      <4> QED
        BY <1>4, <2>1, <4>1, Zenon DEF Full
    <3>2. CASE ~ (k <= current.epoch)
      BY <1>4, <1>7, <3>2, Zenon
    <3> QED
      BY <3>1, <3>2, Zenon
  <2> QED
    BY <2>2, <2>3, Zenon DEF Full
<1>10. Includes(current', current)
  BY <1>2, <1>4 DEF Includes
<1>11. \A s : s.epoch \in Nat /\ Includes(current, s) => Includes(current', s)
  BY <1>2, <1>4 DEF Includes
<1>12. StoresInv'
  BY <1>0, <1>1, <1>2, <1>9, <1>11, Zenon DEF CommitInv, StoresInv, ckptVars
<1>13. JobOk(w)'
  BY <1>1, <1>4, <1>5, Zenon DEF JobOk, Working
<1>14. \A v \in Writers : v # w => JobOk(v)'
  BY <1>10, OtherJobs, Zenon DEF Includes
<1>15. \A e \in current'.entries \ current.entries : e.epoch > current.epoch
  BY <1>2, <1>4, <1>5
<1> QED
  BY <1>8, <1>10, <1>12, <1>13, <1>14, <1>15, Zenon DEF JobsInv, Includes

\* The checkpointer leaves the log and the published store alone.
LEMMA CheckpointerStep ==
    ASSUME CommitInv, CheckpointStep
    PROVE  HistoryInv' /\ StoresInv' /\ JobsInv'
<1>0. open /\ UNCHANGED <<wal, open, current, pc, job, idx, failed, next, used>>
  BY ZenonT(40) DEF CheckpointStep, BeginCheckpoint, WriteTemp, RenameTemp, SyncDirectory,
     CheckpointErr, callVars, walVars, historyVars
<1>1. current.epoch \in Nat /\ ckpt.epoch \in Nat /\ ckptDurable.epoch \in Nat
      /\ ckptBuf.epoch \in Nat
  BY HistoryType, Zenon DEF CommitInv
<1>2. Log' = Log
  BY <1>0, Zenon DEF Log
<1>3. StoresInv /\ HistoryInv
  BY Zenon DEF CommitInv
<1>4. /\ StoresInv'
      /\ Includes(current, ckpt')
      /\ ckpt.epoch <= ckpt'.epoch /\ ckptDurable.epoch <= ckptDurable'.epoch
  <2>1. CASE BeginCheckpoint
    BY <1>0, <1>1, <1>3, <2>1 DEF BeginCheckpoint, StoresInv, Includes
  <2>2. CASE WriteTemp
    BY <1>0, <1>1, <1>3, <2>2 DEF WriteTemp, StoresInv
  <2>3. CASE RenameTemp
    BY <1>0, <1>1, <1>3, <2>3 DEF RenameTemp, StoresInv, Includes
  <2>4. CASE SyncDirectory
    BY <1>0, <1>1, <1>3, <2>4 DEF SyncDirectory, StoresInv, Includes
  <2>5. CASE CheckpointErr
    BY <1>0, <1>1, <1>3, <2>5 DEF CheckpointErr, StoresInv
  <2> QED
    BY <2>1, <2>2, <2>3, <2>4, <2>5, Zenon DEF CheckpointStep
<1>5. History' = Log \cup current.entries
  BY <1>0, <1>2, <1>4, Zenon DEF History, Includes
<1>6. History = Log \cup current.entries
  BY <1>0, <1>3, Zenon DEF History, StoresInv, Includes
<1>7. ckptDurable'.epoch \in Nat /\ ckpt'.epoch \in Nat /\ ckpt'.epoch <= current.epoch
  BY <1>0, <1>1, <1>4, Zenon DEF CheckpointStep, BeginCheckpoint, WriteTemp, RenameTemp,
     SyncDirectory, CheckpointErr, Includes
<1>8. \A k \in Nat : Held(k) => Held(k)'
  BY <1>1, <1>2, <1>4, <1>7 DEF Held
<1>9. HistoryInv'
  <2>1. \A k \in 1..current.epoch : Held(k)'
    BY <1>0, <1>1, <1>3, <1>8 DEF HistoryInv
  <2>2. \A k \in 1..ckpt'.epoch : Held(k)'
    BY <1>1, <1>7, <2>1
  <2>3. \A e \in Log' : \A k \in 1..e.epoch : Held(k)'
    BY <1>2, <1>3, <1>8 DEF HistoryInv
  <2> QED
    BY <1>0, <1>3, <1>5, <1>6, <2>1, <2>2, <2>3, Zenon DEF HistoryInv
<1>10. JobsInv'
  BY <1>0, <1>2, <1>5, <1>6, JobStays, Zenon DEF CommitInv, JobsInv
<1> QED
  BY <1>4, <1>9, <1>10, Zenon

\* A crash and the recovery after it.
LEMMA CrashStep ==
    ASSUME CommitInv, CrashProcess \/ CrashMachine
    PROVE  HistoryInv' /\ StoresInv' /\ JobsInv'
<1>1. /\ current' = Genesis /\ used' = used /\ ckptPc' = "idle" /\ ~ open'
      /\ pc' = [w \in Writers |-> "idle"]
  BY Zenon DEF CrashProcess, CrashMachine, LoseMemory, KillProcess, LosePower
<1>2. current.epoch \in Nat /\ ckpt.epoch \in Nat /\ ckptDurable.epoch \in Nat
  BY HistoryType, Zenon DEF CommitInv
<1>3. /\ Log' \subseteq Log
      /\ \A e \in Log', d \in Log : d.epoch <= e.epoch => d \in Log'
  BY LogAtKill, LogAtPowerLoss, Zenon DEF CommitInv, TypeInv, CrashProcess, CrashMachine
<1>4. \/ ckpt' = ckpt /\ ckptDurable' = ckptDurable /\ Log' = Log
      \/ ckpt' \in {ckpt, ckptDurable} /\ ckptDurable' = ckpt'
  BY LogAtKill, Zenon DEF CommitInv, TypeInv, CrashProcess, CrashMachine
<1>5. StoresInv'
  <2>1. Full(Genesis)
    BY DEF Full, Genesis
  <2> QED
    BY <1>1, <1>2, <1>4, <2>1 DEF CommitInv, StoresInv, Includes
<1>6. ckptDurable.epoch <= ckptDurable'.epoch /\ ckptDurable'.epoch \in Nat
      /\ ckpt'.entries \subseteq ckpt.entries
  BY <1>2, <1>4 DEF CommitInv, StoresInv, Includes
<1>7. History' \subseteq History
  BY <1>1, <1>3, <1>6, Zenon DEF History, Genesis
<1>8. ASSUME NEW e \in Log', NEW k \in 1..e.epoch PROVE Held(k)'
  <2>1. Held(k)
    BY <1>3, Zenon DEF CommitInv, HistoryInv
  <2>2. e.epoch \in Nat
    BY <1>3, HistoryType, Zenon DEF CommitInv, History
  <2>3. CASE k <= ckptDurable.epoch
    BY <1>2, <1>6, <2>2, <2>3 DEF Held
  <2>4. ASSUME NEW d \in Log, d.epoch = k PROVE Held(k)'
    <3>1. d.epoch <= e.epoch
      BY <2>2, <2>4
    <3> QED
      BY <1>3, <2>4, <3>1, Zenon DEF Held
  <2> QED
    BY <2>1, <2>3, <2>4, Zenon DEF Held
<1>9. ASSUME NEW k \in 1..ckpt'.epoch PROVE Held(k)'
  <2>1. CASE ckpt' = ckpt /\ ckptDurable' = ckptDurable /\ Log' = Log
    BY <2>1, Zenon DEF CommitInv, HistoryInv, Held
  <2>2. CASE ckptDurable' = ckpt'
    BY <1>6, <2>2 DEF Held
  <2> QED
    BY <1>4, <2>1, <2>2, Zenon
<1>10. HistoryInv'
  <2>1. Unique(History)' /\ \A e \in History' : e.tx \in used'
    BY <1>1, <1>7, Zenon DEF CommitInv, HistoryInv, Unique
  <2> QED
    BY <1>1, <1>8, <1>9, <2>1, Zenon DEF HistoryInv
<1>11. JobsInv'
  BY <1>1, Zenon DEF JobsInv, JobOk, Working, Published
<1> QED
  BY <1>5, <1>10, <1>11, Zenon

\* Recovery finds every epoch in the checkpoint or in the log.
LEMMA ReopenStep ==
    ASSUME CommitInv, Reopen
    PROVE  /\ HistoryInv' /\ StoresInv' /\ JobsInv'
           /\ ckpt.entries \subseteq current'.entries
           /\ \A e \in Log : e.epoch > ckpt.epoch => e \in current'.entries
<1>0. /\ ~ open /\ open' /\ UNCHANGED <<pc, ckptVars, used>>
      /\ current' = [epoch |-> WalMax(ckpt.epoch, lastSynced'),
                     entries |-> ckpt.entries \cup Replayed(wal)]
  BY Zenon DEF Reopen, RecoverWal, callVars, historyVars
<1>1. ckpt.epoch \in Nat /\ ckptDurable.epoch \in Nat /\ \A e \in Log : e.epoch \in Nat
  BY HistoryType, Zenon DEF CommitInv, History
<1>2. /\ Log' = Log /\ lastSynced' \in Nat
      /\ \A e \in Log : e.epoch <= lastSynced'
      /\ lastSynced' # 0 => \E e \in Log : e.epoch = lastSynced'
  BY LogAtRecovery, Zenon DEF CommitInv, TypeInv, Reopen
<1>3. Replayed(wal) = {e \in Log : e.epoch > ckpt.epoch}
  <2>1. \A f : EntryOf(f).epoch = f.epoch
    BY Zenon DEF EntryOf
  <2> QED
    BY <2>1, Zenon DEF Replayed, Log, LogOf
<1>4. current'.entries = ckpt.entries \cup {e \in Log : e.epoch > ckpt.epoch}
  BY <1>0, <1>3, Zenon
<1>5. /\ current'.epoch \in Nat /\ ckpt.epoch <= current'.epoch /\ lastSynced' <= current'.epoch
      /\ current'.epoch \in {ckpt.epoch, lastSynced'}
  <2>1. current'.epoch = WalMax(ckpt.epoch, lastSynced')
    BY <1>0, Zenon
  <2> QED
    BY <1>1, <1>2, <2>1 DEF WalMax
<1>6. ASSUME NEW k \in 1..current'.epoch, ~ (k <= ckpt.epoch)
      PROVE  \E d \in Log : d.epoch = k
  <2>1. current'.epoch = lastSynced' /\ lastSynced' # 0
    BY <1>1, <1>2, <1>5, <1>6
  <2>2. PICK e \in Log : e.epoch = lastSynced'
    BY <1>2, <2>1, Zenon
  <2>3. Held(k)
    BY <2>1, <2>2, Zenon DEF CommitInv, HistoryInv
  <2>4. ckptDurable.epoch <= ckpt.epoch
    BY Zenon DEF CommitInv, StoresInv, Includes
  <2> QED
    BY <1>1, <1>6, <2>3, <2>4 DEF Held
<1>7. Full(current')
  <2>1. Full(ckpt)
    BY Zenon DEF CommitInv, StoresInv
  <2>2. \A e \in current'.entries : e.epoch \in 1..current'.epoch
    BY <1>1, <1>2, <1>4, <1>5, <2>1 DEF Full
  <2>3. ASSUME NEW k \in 1..current'.epoch PROVE \E e \in current'.entries : e.epoch = k
    <3>1. CASE k <= ckpt.epoch
      <4>1. k \in 1..ckpt.epoch
        BY <1>1, <3>1
      <4> QED
        BY <1>4, <2>1, <4>1, Zenon DEF Full
    <3>2. CASE ~ (k <= ckpt.epoch)
      <4>1. PICK d \in Log : d.epoch = k
        BY <1>6, <3>2, Zenon
      <4>2. d.epoch > ckpt.epoch
        BY <1>1, <1>5, <3>2, <4>1
      <4> QED
        BY <1>4, <4>1, <4>2, Zenon
    <3> QED
      BY <3>1, <3>2, Zenon
  <2> QED
    BY <2>2, <2>3, Zenon DEF Full
<1>8. Includes(current', ckpt)
  BY <1>4, <1>5, Zenon DEF Includes
<1>9. StoresInv'
  BY <1>0, <1>7, <1>8, Zenon DEF CommitInv, StoresInv, ckptVars
<1>10. History' \subseteq History
  BY <1>0, <1>2, <1>4, Zenon DEF History, ckptVars
<1>11. HistoryInv'
  <2>1. Unique(History)' /\ \A e \in History' : e.tx \in used'
    BY <1>0, <1>10, Zenon DEF CommitInv, HistoryInv, Unique
  <2>2. \A k : Held(k)' <=> Held(k)
    BY <1>0, <1>2, Zenon DEF Held, ckptVars
  <2>3. ASSUME NEW k \in 1..current'.epoch PROVE Held(k)
    <3>1. CASE k <= ckpt.epoch
      <4>1. k \in 1..ckpt.epoch
        BY <1>1, <3>1
      <4> QED
        BY <4>1, Zenon DEF CommitInv, HistoryInv
    <3>2. CASE ~ (k <= ckpt.epoch)
      BY <1>6, <3>2, Zenon DEF Held
    <3> QED
      BY <3>1, <3>2, Zenon
  <2> QED
    BY <1>0, <1>2, <2>1, <2>2, <2>3, Zenon DEF CommitInv, HistoryInv, ckptVars
<1>12. JobsInv'
  <2>1. \A w \in Writers : pc'[w] = "idle"
    BY <1>0, Zenon DEF CommitInv, LockInv
  <2> QED
    BY <2>1, Zenon DEF JobsInv, JobOk, Working, Published
<1> QED
  BY <1>4, <1>9, <1>11, <1>12, Zenon

\* The start of the commit path.
LEMMA CommitStarts ==
    ASSUME ~ TornAppend, Init
    PROVE  CommitInv
<1>1. SurvivalInv /\ TypeInv
  BY WalInitially, TypeInvInit, Zenon DEF Init
<1>2. LockInv
  BY Zenon DEF Init, LockInv, Critical
<1>3. Log = {}
  BY DEF Init, WalInit, Log, LogOf, ReadableFrames
<1>4. current = Genesis /\ ckpt = Genesis /\ ckptDurable = Genesis /\ ckptPc = "idle"
  BY Zenon DEF Init
<1>5. Genesis.epoch = 0 /\ Genesis.entries = {}
  BY Zenon DEF Genesis
<1>6. HistoryInv
  BY <1>3, <1>4, <1>5 DEF HistoryInv, History, Unique
<1>7. StoresInv
  BY <1>4, <1>5 DEF StoresInv, Full, Includes
<1>8. JobsInv
  BY Zenon DEF Init, JobsInv, JobOk, Working, Published
<1> QED
  BY <1>1, <1>2, <1>6, <1>7, <1>8, Zenon DEF CommitInv

\* One step of the commit path, one case for each kind of action.
LEMMA CommitStep ==
    ASSUME ~ TornAppend, CommitInv, [Next]_vars
    PROVE  CommitInv'
<1>1. TypeInv' /\ SurvivalInv' /\ LockInv'
  BY TypeInvStep, SurvivalStep, WalSteps, LockStep, Zenon DEF CommitInv, TypeInv
<1>2. HistoryInv' /\ StoresInv' /\ JobsInv'
  <2>1. ASSUME NEW w \in Writers, BeginCall(w) \/ CallStep(w)
        PROVE  HistoryInv' /\ StoresInv' /\ JobsInv'
    BY <2>1, QuietStep, TakeLockStep, LogStep, PublishStep, ZenonT(40) DEF CallStep
  <2>2. CASE UNCHANGED vars
    <3>1. /\ UNCHANGED <<wal, current, ckptVars, used, pc, job, idx, failed, next>>
          /\ (open' <=> open)
      BY <2>2, Zenon DEF vars, walVars, callVars, historyVars
    <3>2. HistoryInv' /\ StoresInv' /\ History' = History /\ Log' = Log
      BY <3>1, HistoryStays, Zenon DEF CommitInv
    <3> QED
      BY <3>1, <3>2, JobStays, Zenon DEF CommitInv, JobsInv
  <2> QED
    BY <2>1, <2>2, CheckpointerStep, CrashStep, ReopenStep, ZenonT(40) DEF Next
<1> QED
  BY <1>1, <1>2, Zenon DEF CommitInv

\* INV-FERR-007 and INV-FERR-020 for Database: the published store has exactly
\* one transaction at every epoch up to its own, after any failed calls,
\* batches, checkpoints, crashes and recoveries, where a failing write leaves
\* no partial frame.
THEOREM PublishedEpochsDense == ~ TornAppend => (Spec => []EpochsDense)
<1> SUFFICES ASSUME ~ TornAppend PROVE Spec => []EpochsDense
  BY Zenon
<1>1. Init => CommitInv
  BY CommitStarts, Zenon
<1>2. CommitInv /\ [Next]_vars => CommitInv'
  BY CommitStep, Zenon
<1>3. CommitInv => EpochsDense
  <2> SUFFICES ASSUME CommitInv PROVE EpochsDense
    BY Zenon
  <2>1. Full(current) /\ Unique(History) /\ current.entries \subseteq History
    BY Zenon DEF CommitInv, StoresInv, HistoryInv, History
  <2>2. {e.epoch : e \in current.entries} = 1..current.epoch
    BY <2>1, Zenon DEF Full
  <2> QED
    BY <2>1, <2>2, Zenon DEF EpochsDense, Unique
<1> QED
  BY <1>1, <1>2, <1>3, PTL DEF Spec

\* What an open database shows, step by step.
LEMMA VisibleStep ==
    ASSUME ~ TornAppend, CommitInv, LoggedInv, AckedVisible, [Next]_vars
    PROVE  AckedVisible'
<1>1. CASE \E w \in Writers : Publish(w)
  <2>1. current.entries \subseteq current'.entries
    BY <1>1, PublishStep, Zenon
  <2>2. open /\ acked' = acked
    BY <1>1, Zenon DEF Publish
  <2> QED
    BY <2>1, <2>2, Zenon DEF AckedVisible
<1>2. ASSUME NEW w \in Writers, NotifyAndReturn(w)
      PROVE  AckedVisible'
  <2>1. /\ open /\ pc[w] = "notify" /\ current' = current
        /\ acked' = acked \cup JobTxs(w)
    BY <1>2, Zenon DEF NotifyAndReturn
  <2>2. \A t \in JobTxs(w) : \E e \in current.entries : e.tx = t
    BY <2>1, Zenon DEF CommitInv, JobsInv, JobOk, Published, JobTxs
  <2> QED
    BY <2>1, <2>2, Zenon DEF AckedVisible
<1>3. CASE Reopen
  <2>1. acked' = acked
    BY <1>3, Zenon DEF Reopen, historyVars
  <2>2. ASSUME NEW t \in acked PROVE \E e \in current'.entries : e.tx = t
    <3>1. PICK f \in confirmed : f.tx = t
      BY Zenon DEF LoggedInv, Vouched
    <3>2. PICK i \in 1..durable : Readable(wal, i) /\ wal[i] = f
      BY <3>1, Zenon DEF CommitInv, SurvivalInv, ConfirmedSurvive
    <3>3. i \in 1..Len(wal)
      BY SeqLen DEF CommitInv, TypeInv, OrderInv, WalTypeOK
    <3> DEFINE d == EntryOf(wal[i])
    <3>4. d \in Log /\ d.tx = t
      BY <3>1, <3>2, <3>3, InLog, Zenon DEF Log, EntryOf
    <3> HIDE DEF d
    <3>5. CASE d.epoch > ckpt.epoch
      BY <1>3, <3>4, <3>5, ReopenStep, Zenon
    <3>6. CASE ~ (d.epoch > ckpt.epoch)
      <4>1. d.epoch \in 1..ckpt.epoch
        <5>1. d.epoch \in Nat /\ d.epoch > 0 /\ ckpt.epoch \in Nat
          BY <3>4, LogType, HistoryType, Zenon DEF CommitInv, TypeInv, OrderInv, Entry
        <5> QED
          BY <3>6, <5>1
      <4>2. PICK e \in ckpt.entries : e.epoch = d.epoch
        BY <4>1, Zenon DEF CommitInv, StoresInv, Full
      <4>3. e.tx = d.tx
        BY <3>4, <4>2, Zenon DEF CommitInv, HistoryInv, Unique, History
      <4> QED
        BY <1>3, <3>4, <4>2, <4>3, ReopenStep, Zenon
    <3> QED
      BY <3>5, <3>6, Zenon
  <2> QED
    BY <2>1, <2>2, Zenon DEF AckedVisible
<1>4. CASE CrashProcess \/ CrashMachine
  BY <1>4, Zenon DEF CrashProcess, CrashMachine, KillProcess, LosePower, AckedVisible
<1>5. ASSUME UNCHANGED <<current, acked>>, open' <=> open
      PROVE  AckedVisible'
  BY <1>5, Zenon DEF AckedVisible
<1>6. ASSUME NEW w \in Writers,
             \/ BeginCall(w) \/ Backpressure(w) \/ LockBusy(w) \/ TakeLock(w) \/ ApplyOk(w)
             \/ ApplyErr(w) \/ LogOk(w) \/ LogErr(w) \/ SyncOk(w) \/ SyncErr(w)
             \/ AdvanceFrontier(w) \/ Unlock(w) \/ DropSlot(w)
      PROVE  AckedVisible'
  <2>1. open' <=> open
    BY <1>6, CallsKeepOpen, ZenonT(40) DEF CallStep
  <2>2. UNCHANGED <<current, acked>>
    BY <1>6, ZenonT(40) DEF BeginCall, Backpressure, LockBusy, TakeLock, ApplyOk, ApplyErr, LogOk,
       LogErr, SyncOk, SyncErr, AdvanceFrontier, Unlock, DropSlot, historyVars
  <2> QED
    BY <1>5, <2>1, <2>2, Zenon
<1>7. CASE CheckpointStep \/ UNCHANGED vars
  <2>1. UNCHANGED <<current, acked, open>>
    BY <1>7, ZenonT(40) DEF CheckpointStep, BeginCheckpoint, WriteTemp, RenameTemp,
       SyncDirectory, CheckpointErr, walVars, historyVars, vars
  <2> QED
    BY <1>5, <2>1, Zenon
<1> QED
  BY <1>1, <1>2, <1>3, <1>4, <1>6, <1>7, ZenonT(40) DEF Next, CallStep

CommitSafe == CommitInv /\ LoggedInv /\ AckedVisible

\* The inductive invariant is an invariant.
LEMMA CommitSafety ==
    ASSUME ~ TornAppend
    PROVE  Spec => []CommitSafe
<1>1. Init => CommitSafe
  <2> SUFFICES ASSUME Init PROVE CommitSafe
    BY Zenon
  <2>1. LoggedInv
    BY Zenon DEF Init, LoggedInv, LoggedSoFar, Succeeding
  <2>2. AckedVisible
    BY Zenon DEF Init, AckedVisible
  <2> QED
    BY <2>1, <2>2, CommitStarts, Zenon DEF CommitSafe
<1>2. CommitSafe /\ [Next]_vars => CommitSafe'
  <2> SUFFICES ASSUME CommitSafe, [Next]_vars PROVE CommitSafe'
    BY Zenon
  <2>1. LoggedInv'
    BY LoggedStep, Zenon DEF CommitSafe, CommitInv
  <2> QED
    BY <2>1, CommitStep, VisibleStep, Zenon DEF CommitSafe
<1> QED
  BY <1>1, <1>2, PTL DEF Spec

\* INV-FERR-014 for Database: an open database shows every transaction it
\* acknowledged, before and after recovery from the checkpoint and the log,
\* where a failing write leaves no partial frame.
THEOREM AcknowledgedVisible == ~ TornAppend => (Spec => []AckedVisible)
<1> SUFFICES ASSUME ~ TornAppend PROVE Spec => []AckedVisible
  BY Zenon
<1>1. CommitSafe => AckedVisible
  BY Zenon DEF CommitSafe
<1> QED
  BY <1>1, CommitSafety, PTL

-----------------------------------------------------------------------------
(* The refinement: TakeLock submits, Publish commits, NotifyAndReturn         *)
(* acknowledges; every other step of a call or of the checkpointer leaves the *)
(* abstract store alone.                                                      *)

VisibleOk ==
    /\ Abstract!Dense(current.entries)
    /\ Abstract!TxsOf(current.entries) \subseteq used

\* The visible entries are those of the epochs up to the current one.
LEMMA VisibleDense ==
    ASSUME CommitInv
    PROVE  VisibleOk
<1>1. Full(current) /\ Unique(current.entries) /\ \A e \in current.entries : e.tx \in used
  BY Zenon DEF CommitInv, StoresInv, HistoryInv, History, Unique
<1>2. current.epoch \in Nat
  BY HistoryType, Zenon DEF CommitInv
<1>3. ASSUME NEW e \in current.entries, NEW k \in 1..e.epoch
      PROVE  \E d \in current.entries : d.epoch = k
  <2>1. e.epoch \in 1..current.epoch
    BY <1>1, Zenon DEF Full
  <2>2. k \in 1..current.epoch
    BY <1>2, <2>1
  <2> QED
    BY <1>1, <2>2, Zenon DEF Full
<1> QED
  BY <1>1, <1>3, Zenon DEF VisibleOk, Abstract!Dense, Abstract!TxsOf, Unique

\* One step of the commit path is a step of the durable store or a stutter.
LEMMA RefinementStep ==
    ASSUME ~ TornAppend, CommitSafe, [Next]_vars, CommitSafe', VisibleOk'
    PROVE  [Abstract!StoreNext]_Abstract!storeVars
<1>0. CommitInv /\ CommitInv'
  BY Zenon DEF CommitSafe
<1>1. ASSUME NEW w \in Writers, TakeLock(w)
      PROVE  Abstract!Submit
  <2>1. open /\ open' = open
    BY <1>1, Zenon DEF TakeLock, walVars
  <2>2. used \subseteq used' /\ UNCHANGED <<current, acked>>
    BY <1>1, Zenon DEF TakeLock
  <2>3. used' \subseteq Txs
    BY <1>0, Zenon DEF CommitInv, TypeInv, TypeOK, CallTypeOK
  <2> QED
    BY <2>1, <2>2, <2>3, Zenon DEF Abstract!Submit
<1>2. ASSUME NEW w \in Writers, Publish(w)
      PROVE  Abstract!Commit
  <2>1. open /\ open' = open /\ UNCHANGED <<used, acked>>
    BY <1>2, Zenon DEF Publish, walVars
  <2>2. /\ current.entries \subseteq current'.entries
        /\ \A e \in current'.entries \ current.entries : e.epoch > current.epoch
    BY <1>0, <1>2, PublishStep, Zenon
  <2>3. Abstract!Dense(current'.entries) /\ Abstract!TxsOf(current'.entries) \subseteq used'
    BY Zenon DEF VisibleOk
  <2>4. ASSUME NEW d \in current.entries, NEW e \in current'.entries \ current.entries
        PROVE  d.epoch < e.epoch
    <3>1. d.epoch \in 1..current.epoch /\ e.epoch > current.epoch
      BY <1>0, <2>2, Zenon DEF CommitInv, StoresInv, Full
    <3>2. current.epoch \in Nat /\ current'.epoch \in Nat
      BY <1>0, HistoryType, Zenon DEF CommitInv, TypeInv, TypeOK, StoreTypeOK, Store
    <3>3. e.epoch \in 1..current'.epoch
      BY <1>0, Zenon DEF CommitInv, StoresInv, Full
    <3> QED
      BY <3>1, <3>2, <3>3
  <2> QED
    BY <2>1, <2>2, <2>3, <2>4, Zenon DEF Abstract!Commit
<1>3. ASSUME NEW w \in Writers, NotifyAndReturn(w)
      PROVE  Abstract!Acknowledge
  <2>1. /\ open /\ open' = open /\ UNCHANGED <<current, used>>
        /\ acked \subseteq acked'
    BY <1>3, Zenon DEF NotifyAndReturn, walVars
  <2>2. acked' \subseteq Abstract!TxsOf(current.entries)
    BY <2>1, Zenon DEF CommitSafe, AckedVisible, Abstract!TxsOf
  <2> QED
    BY <2>1, <2>2, Zenon DEF Abstract!Acknowledge
<1>4. CASE CrashProcess \/ CrashMachine
  BY <1>4 DEF CrashProcess, CrashMachine, KillProcess, LosePower, LoseMemory, Genesis,
     Abstract!StoreNext, Abstract!Crash
<1>5. CASE Reopen
  <2>1. ~ open /\ open' = TRUE /\ UNCHANGED <<used, acked>>
    BY <1>5, Zenon DEF Reopen, RecoverWal, historyVars
  <2>2. Abstract!Dense(current'.entries) /\ Abstract!TxsOf(current'.entries) \subseteq used'
    BY Zenon DEF VisibleOk
  <2>3. acked \subseteq Abstract!TxsOf(current'.entries)
    BY <2>1, Zenon DEF CommitSafe, AckedVisible, Abstract!TxsOf
  <2> QED
    BY <2>1, <2>2, <2>3, Zenon DEF Abstract!StoreNext, Abstract!Restart
<1>6. ASSUME UNCHANGED <<open, current, used, acked>>
      PROVE  UNCHANGED Abstract!storeVars
  BY <1>6, Zenon DEF Abstract!storeVars
<1>7. ASSUME NEW w \in Writers,
             \/ BeginCall(w) \/ Backpressure(w) \/ LockBusy(w) \/ ApplyOk(w) \/ ApplyErr(w)
             \/ LogOk(w) \/ LogErr(w) \/ SyncOk(w) \/ SyncErr(w) \/ AdvanceFrontier(w)
             \/ Unlock(w) \/ DropSlot(w)
      PROVE  UNCHANGED Abstract!storeVars
  <2>1. UNCHANGED <<open, current, used, acked>>
    BY <1>7, ZenonT(40) DEF BeginCall, Backpressure, LockBusy, ApplyOk, ApplyErr, LogOk, LogErr,
       SyncOk, SyncErr, AdvanceFrontier, Unlock, DropSlot, walVars, historyVars,
       AppendOk, AppendRefused, AppendFailed, FsyncOk, FsyncFailed
  <2> QED
    BY <1>6, <2>1, Zenon
<1>8. CASE CheckpointStep \/ UNCHANGED vars
  <2>1. UNCHANGED <<open, current, used, acked>>
    BY <1>8, ZenonT(40) DEF CheckpointStep, BeginCheckpoint, WriteTemp, RenameTemp,
       SyncDirectory, CheckpointErr, walVars, historyVars, vars
  <2> QED
    BY <1>6, <2>1, Zenon
<1> QED
  BY <1>1, <1>2, <1>3, <1>4, <1>5, <1>7, <1>8, ZenonT(40) DEF Next, CallStep, Abstract!StoreNext

\* The commit path implements the abstract durable store: what a caller of
\* Database can see is a dense history that grows, survives crashes and never
\* loses an acknowledged transaction, where a failing write leaves no partial
\* frame.
THEOREM CommitPathRefines == ~ TornAppend => (Spec => ImplementsDurableStore)
<1> SUFFICES ASSUME ~ TornAppend PROVE Spec => Abstract!StoreSpec
  BY Zenon DEF ImplementsDurableStore
<1>1. Init => Abstract!StoreInit
  BY DEF Init, WalInit, Genesis, Abstract!StoreInit
<1>2. CommitSafe => VisibleOk
  BY VisibleDense, Zenon DEF CommitSafe
<1>3. CommitSafe /\ [Next]_vars /\ CommitSafe' /\ VisibleOk' =>
        [Abstract!StoreNext]_Abstract!storeVars
  BY RefinementStep, Zenon
<1> QED
  BY <1>1, <1>2, <1>3, CommitSafety, PTL DEF Spec, Abstract!StoreSpec

-----------------------------------------------------------------------------
(* What a reader can see is on stable storage, unless the process can die      *)
(* alone: recovery after that shows frames that only the page cache holds.     *)

SyncedOf(file, n) == {EntryOf(file[i]) : i \in {j \in 1..n : Readable(file, j)}}

Synced == SyncedOf(wal, durable)

DiskInv ==
    /\ current.entries \subseteq OnDisk
    /\ ~ open => ckpt = ckptDurable /\ Log \subseteq Synced
    /\ \A w \in Writers : pc[w] \in {"append", "fsync", "publish"} =>
          \A i \in 1..Len(job[w]) :
             i < idx[w] \/ pc[w] = "publish" => Receipt(w, i) \in Synced

\* A file that agrees so far and is synced further has those entries synced.
LEMMA SyncedWithin ==
    ASSUME NEW file \in Seq(Frame), NEW n \in 0..Len(file),
           NEW other \in Seq(Frame), NEW m \in 0..Len(other),
           n <= m, \A i \in 1..n : other[i] = file[i]
    PROVE  SyncedOf(file, n) \subseteq SyncedOf(other, m)
<1> SUFFICES ASSUME NEW e \in SyncedOf(file, n) PROVE e \in SyncedOf(other, m)
  BY Zenon
<1>1. PICK i \in 1..n : Readable(file, i) /\ e = EntryOf(file[i])
  BY Zenon DEF SyncedOf
<1>2. Len(file) \in Nat /\ Len(other) \in Nat
  BY SeqLen, Zenon
<1>3. i \in 1..m /\ Readable(other, i) /\ other[i] = file[i]
  BY <1>1, <1>2 DEF Readable
<1> QED
  BY <1>1, <1>3, Zenon DEF SyncedOf

\* The entries of the synced part of the log.
LEMMA SyncedLog ==
    ASSUME NEW file \in Seq(Frame), NEW n \in 0..Len(file),
           \A i \in 1..Len(file) : Readable(file, i) => i \in 1..n
    PROVE  LogOf(file) \subseteq SyncedOf(file, n)
<1> SUFFICES ASSUME NEW e \in LogOf(file) PROVE e \in SyncedOf(file, n)
  BY Zenon
<1>1. PICK i \in 1..Len(file) : Readable(file, i) /\ e = EntryOf(file[i])
  BY InLog, Zenon
<1> QED
  BY <1>1, Zenon DEF SyncedOf

\* While the database is open, what is on disk stays on disk.
LEMMA SyncedGrows ==
    ASSUME TypeInv, [Next]_vars, TypeInv', open, open'
    PROVE  Synced \subseteq Synced'
<1>1. /\ wal \in Seq(Frame) /\ durable \in 0..Len(wal) /\ Len(wal) \in Nat
      /\ wal' \in Seq(Frame) /\ durable' \in 0..Len(wal') /\ Len(wal') \in Nat
  BY SeqLen, Zenon DEF TypeInv, TypeOK, WalTypeOK
<1>2. \A i \in 1..Len(wal) : wal'[i] = wal[i]
  BY <1>1, LogGrows, SeqAppend
<1>3. durable <= durable'
  <2>1. [WalNext]_walVars
    BY WalSteps, Zenon
  <2>2. durable' = durable \/ durable' = Len(wal)
    BY <2>1, Zenon DEF WalNext, AppendRefused, AppendOk, AppendFailed, FsyncOk, FsyncFailed,
       KillProcess, LosePower, RecoverWal, walVars
  <2> QED
    BY <1>1, <2>2
<1>4. \A i \in 1..durable : wal'[i] = wal[i]
  BY <1>1, <1>2
<1> QED
  BY <1>1, <1>3, <1>4, SyncedWithin, Zenon DEF Synced

\* A power loss keeps the synced part.
LEMMA SyncedAtPowerLoss ==
    ASSUME OrderInv, OrderInv', LosePower
    PROVE  Log' \subseteq Synced'
<1>1. wal \in Seq(Frame) /\ Len(wal) \in Nat /\ durable \in Nat /\ wal' \in Seq(Frame)
      /\ durable' \in 0..Len(wal') /\ Len(wal') \in Nat
  BY SeqLen DEF OrderInv, WalTypeOK
<1>2. PICK k \in durable..Len(wal) :
        /\ wal' \in {SubSeq(wal, 1, k), Append(SubSeq(wal, 1, k), Torn)}
        /\ durable' = k
  BY Zenon DEF LosePower
<1>3. k \in 0..Len(wal)
  BY <1>1
<1>4. SubSeq(wal, 1, k) \in Seq(Frame) /\ Len(SubSeq(wal, 1, k)) = k
  BY <1>1, <1>3, Prefix, Zenon
<1>5. \/ Len(wal') = k
      \/ Len(wal') = k + 1 /\ ~ wal'[k + 1].ok
  BY <1>2, <1>4, Extended, TornType
<1>6. \A i \in 1..Len(wal') : Readable(wal', i) => i \in 1..durable'
  BY <1>1, <1>2, <1>5 DEF Readable
<1> QED
  BY <1>1, <1>6, SyncedLog, Zenon DEF Log, Synced

\* So does a recovery.
LEMMA SyncedAtRecovery ==
    ASSUME OrderInv, OrderInv', RecoverWal, Log \subseteq Synced
    PROVE  Log' \subseteq Synced'
<1>1. /\ wal \in Seq(Frame) /\ Len(wal) \in Nat /\ durable \in 0..Len(wal)
      /\ wal' \in Seq(Frame) /\ durable' \in 0..Len(wal') /\ Len(wal') \in Nat
  BY SeqLen, Zenon DEF OrderInv, WalTypeOK
<1>2. PICK n \in 0..Len(wal) :
        /\ wal' = SubSeq(wal, 1, n)
        /\ durable' = IF n < Len(wal) THEN n ELSE durable
  BY Zenon DEF RecoverWal
<1>3. Len(wal') = n /\ \A i \in 1..n : wal'[i] = wal[i]
  BY <1>1, <1>2, Prefix, Zenon
<1>4. CASE n < Len(wal)
  BY <1>1, <1>2, <1>3, <1>4, SyncedLog, Zenon DEF Log, Synced
<1>5. CASE ~ (n < Len(wal))
  <2>1. durable' = durable /\ \A i \in 1..durable : wal'[i] = wal[i]
    BY <1>1, <1>2, <1>3, <1>5
  <2>2. Synced \subseteq Synced'
    BY <1>1, <2>1, SyncedWithin DEF Synced
  <2>3. Log' = Log
    BY LogAtRecovery, Zenon
  <2> QED
    BY <2>2, <2>3, Zenon
<1> QED
  BY <1>4, <1>5, Zenon

\* One step keeps what is visible on stable storage.
LEMMA DiskStep ==
    ASSUME ~ TornAppend, ~ Kill, CommitInv, TypeInv', DiskInv, [Next]_vars
    PROVE  DiskInv'
<1>0. CallTypeOK /\ StoreTypeOK /\ OnDisk = Synced \cup (ckpt.entries \cap ckptDurable.entries)
      /\ OnDisk' = Synced' \cup (ckpt'.entries \cap ckptDurable'.entries)
  BY Zenon DEF CommitInv, TypeInv, TypeOK, OnDisk, Synced, SyncedOf
<1>1. ASSUME NEW w \in Writers, BeginCall(w) \/ CallStep(w)
      PROVE  DiskInv'
  <2>1. open /\ open' /\ ckptVars' = ckptVars
    <3>1. open /\ open'
      BY <1>1, CallsKeepOpen, ZenonT(40)
    <3>2. ckptVars' = ckptVars
      BY <1>1, ZenonT(40) DEF CallStep, BeginCall, Backpressure, LockBusy, TakeLock, ApplyOk,
         ApplyErr, LogOk, LogErr, SyncOk, SyncErr, Publish, AdvanceFrontier, Unlock,
         DropSlot, NotifyAndReturn
    <3> QED
      BY <3>1, <3>2, Zenon
  <2>2. Synced \subseteq Synced' /\ OnDisk \subseteq OnDisk'
    BY <1>0, <2>1, SyncedGrows, Zenon DEF CommitInv, ckptVars
  <2>3. \A v \in Writers : v # w =>
           pc'[v] = pc[v] /\ job'[v] = job[v] /\ idx'[v] = idx[v]
    BY <1>0, <1>1, CallsMoveOne, ZenonT(40)
  <2>4. CASE Publish(w)
    <3>1. current' = next[w] /\ pc[w] = "publish" /\ pc'[w] \in {"frontier", "unlock"}
      BY <1>0, <2>4, Zenon DEF Publish, Goto, CallTypeOK
    <3>2. \A v \in Writers : v # w => pc[v] \notin {"append", "fsync", "publish"}
      BY <3>1, Zenon DEF CommitInv, LockInv, Critical
    <3>3. \A i \in 1..Len(job[w]) : Receipt(w, i) \in OnDisk
      BY <1>0, <3>1, Zenon DEF DiskInv
    <3>4. next[w].entries = current.entries \cup {Receipt(w, i) : i \in 1..Len(job[w])}
      <4>1. CloneOk(w)
        BY <3>1, Zenon DEF CommitInv, JobsInv, JobOk, Working
      <4> QED
        BY <4>1 DEF CloneOk
    <3>5. current'.entries \subseteq OnDisk'
      BY <2>2, <3>1, <3>3, <3>4, Zenon DEF DiskInv
    <3> QED
      BY <2>1, <2>3, <3>1, <3>2, <3>5, Zenon DEF DiskInv
  <2>5. CASE ~ Publish(w)
    <3>1. current' = current
      BY <1>1, <2>5, ZenonT(40) DEF CallStep, BeginCall, Backpressure, LockBusy, TakeLock, ApplyOk,
         ApplyErr, LogOk, LogErr, SyncOk, SyncErr, AdvanceFrontier, Unlock, DropSlot,
         NotifyAndReturn
    <3>2. ASSUME NEW v \in Writers, v # w, pc'[v] \in {"append", "fsync", "publish"},
                 NEW i \in 1..Len(job'[v]), i < idx'[v] \/ pc'[v] = "publish"
          PROVE  Receipt(v, i)' \in Synced'
      BY <2>2, <2>3, <3>1, <3>2, Zenon DEF DiskInv, Receipt
    <3>3. ASSUME pc'[w] \in {"append", "fsync", "publish"},
                 NEW i \in 1..Len(job'[w]), i < idx'[w] \/ pc'[w] = "publish"
          PROVE  Receipt(w, i)' \in Synced'
      <4>1. CASE SyncOk(w)
        <5>1. pc[w] = "fsync" /\ job' = job /\ wal' = wal /\ durable' = Len(wal)
          BY <4>1, Zenon DEF SyncOk, FsyncOk
        <5>2. i <= idx[w]
          <6>1. /\ pc'[w] = "append" => idx'[w] = idx[w] + 1
                /\ pc'[w] = "publish" => ~ (idx[w] < Len(job[w]))
                /\ pc'[w] \in {"append", "publish"}
            BY <1>0, <4>1, Zenon DEF SyncOk, Goto, CallTypeOK
          <6>2. idx[w] \in Nat /\ Len(job[w]) \in Nat
            BY <1>0, ElementTypes, Zenon DEF CallTypeOK
          <6> QED
            BY <3>3, <5>1, <6>1, <6>2
        <5>3. Receipt(w, i) \in Log
          BY <5>1, <5>2, Zenon DEF CommitInv, JobsInv, JobOk, Working, ReceiptsOk, Logged
        <5>4. Log \subseteq Synced'
          <6>1. wal \in Seq(Frame) /\ Len(wal) \in 0..Len(wal)
            BY SeqLen DEF CommitInv, TypeInv, TypeOK, WalTypeOK
          <6> QED
            BY <5>1, <6>1, SyncedLog, Zenon DEF Log, Synced
        <5> QED
          BY <3>1, <5>1, <5>3, <5>4, Zenon DEF Receipt
      <4>2. CASE LogOk(w)
        <5>1. pc[w] = "append" /\ pc'[w] = "fsync" /\ job' = job /\ idx' = idx
          BY <1>0, <4>2, Zenon DEF LogOk, Goto, CallTypeOK
        <5> QED
          BY <2>2, <3>1, <3>3, <5>1, Zenon DEF DiskInv, Receipt
      <4>3. CASE ~ SyncOk(w) /\ ~ LogOk(w)
        <5>1. ApplyOk(w)
          BY <1>0, <1>1, <2>5, <3>3, <4>3, ZenonT(40) DEF CallStep, BeginCall, Backpressure, LockBusy,
             TakeLock, ApplyErr, LogErr, SyncErr, AdvanceFrontier, Unlock, DropSlot,
             NotifyAndReturn, Goto, Fail, Return, CallTypeOK
        <5>2. pc'[w] = "append" /\ idx'[w] = 1
          BY <1>0, <5>1, Zenon DEF ApplyOk, Goto, CallTypeOK, CommitInv, TypeInv, CallShape
        <5> QED
          BY <3>3, <5>2
      <4> QED
        BY <4>1, <4>2, <4>3, Zenon
    <3> QED
      BY <2>1, <2>2, <3>1, <3>2, <3>3, Zenon DEF DiskInv
  <2> QED
    BY <2>4, <2>5, Zenon
<1>2. CASE CheckpointStep \/ UNCHANGED vars
  <2>1. UNCHANGED <<wal, durable, open, current, pc, job, idx>>
    BY <1>2, ZenonT(40) DEF CheckpointStep, BeginCheckpoint, WriteTemp, RenameTemp, SyncDirectory,
       CheckpointErr, callVars, walVars, vars
  <2>2. Synced' = Synced /\ Log' = Log
    BY <2>1, Zenon DEF Synced, Log
  <2>3. /\ ckptDurable.entries \subseteq ckpt'.entries
        /\ ckptDurable.entries \subseteq ckptDurable'.entries
        /\ ~ open => UNCHANGED <<ckpt, ckptDurable>>
    BY <1>2, Zenon DEF CheckpointStep, BeginCheckpoint, WriteTemp, RenameTemp, SyncDirectory,
       CheckpointErr, vars, ckptVars, CommitInv, StoresInv, Includes
  <2>4. current'.entries \subseteq OnDisk'
    BY <1>0, <2>1, <2>2, <2>3, Zenon DEF DiskInv
  <2> QED
    BY <2>1, <2>2, <2>3, <2>4, Zenon DEF DiskInv, Receipt
<1>3. CASE CrashMachine
  <2>1. /\ LosePower /\ current' = Genesis /\ ckpt' = ckptDurable'
        /\ pc' = [w \in Writers |-> "idle"]
    BY <1>3, Zenon DEF CrashMachine, LoseMemory
  <2>2. Log' \subseteq Synced'
    BY <2>1, SyncedAtPowerLoss, Zenon DEF CommitInv, TypeInv
  <2> QED
    BY <2>1, <2>2, Zenon DEF DiskInv, Genesis
<1>4. CASE Reopen
  <2>1. /\ RecoverWal /\ ~ open /\ open' /\ UNCHANGED <<pc, ckptVars>>
        /\ current'.entries = ckpt.entries \cup Replayed(wal)
    BY <1>4, Zenon DEF Reopen, RecoverWal, callVars
  <2>2. Log' \subseteq Synced' /\ Log' = Log
    BY <2>1, SyncedAtRecovery, LogAtRecovery, Zenon DEF CommitInv, TypeInv, DiskInv
  <2>3. Replayed(wal) \subseteq Log
    BY Zenon DEF Replayed, Log, LogOf
  <2>4. ckpt' = ckptDurable' /\ ckpt' = ckpt
    BY <2>1, Zenon DEF DiskInv, ckptVars
  <2>5. current'.entries \subseteq OnDisk'
    BY <1>0, <2>1, <2>2, <2>3, <2>4, Zenon
  <2>6. \A w \in Writers : pc'[w] = "idle"
    BY <2>1, Zenon DEF CommitInv, LockInv
  <2> QED
    BY <2>1, <2>5, <2>6, Zenon DEF DiskInv
<1>5. ~ CrashProcess
  BY Zenon DEF CrashProcess, KillProcess
<1> QED
  BY <1>1, <1>2, <1>3, <1>4, <1>5, ZenonT(40) DEF Next

\* INV-FERR-008 for Database: what snapshot() shows is already on stable
\* storage, in the log or in the checkpoint, through power losses and
\* recoveries; where a failing write leaves no partial frame and the process
\* does not die alone.
THEOREM VisibleIsDurable == ~ TornAppend /\ ~ Kill => (Spec => []DurableBeforeVisible)
<1> SUFFICES ASSUME ~ TornAppend, ~ Kill PROVE Spec => []DurableBeforeVisible
  BY Zenon
<1> DEFINE Inv == CommitInv /\ DiskInv
<1>1. Init => Inv
  <2> SUFFICES ASSUME Init PROVE Inv
    BY Zenon
  <2>1. DiskInv
    BY Zenon DEF Init, WalInit, DiskInv, Genesis
  <2> QED
    BY <2>1, CommitStarts, Zenon
<1>2. Inv /\ [Next]_vars => Inv'
  <2> SUFFICES ASSUME Inv, [Next]_vars PROVE Inv'
    BY Zenon
  <2>1. CommitInv' /\ TypeInv'
    BY CommitStep, TypeInvStep, Zenon DEF CommitInv
  <2> QED
    BY <2>1, DiskStep, Zenon
<1>3. Inv => DurableBeforeVisible
  BY Zenon DEF DiskInv, DurableBeforeVisible
<1> QED
  BY <1>1, <1>2, <1>3, PTL DEF Spec
=============================================================================
