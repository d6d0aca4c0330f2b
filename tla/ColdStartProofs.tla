-------------------------- MODULE ColdStartProofs --------------------------
(* A data directory over its life: it loses nothing, mixes no histories and  *)
(* keeps its checkpoint readable, for any number of transactions, epochs,    *)
(* threads that write checkpoints, checkpoints and crashes.                  *)
EXTENDS ColdStart, WalProofs

EntryOf(f) == [epoch |-> f.epoch, tx |-> f.tx]

\* parse_wal_frames_with_pos stops somewhere in the file.
Parsed(w) == \E n \in 0..Len(w) : ParsedLength(w, n)

ParseInv == Parsed(wal)

\* Without a log file nothing was ever written to one.
LogFileInv == ~ logFile => wal = << >> /\ durable = 0 /\ confirmed = {}

\* Between its append and its sync a transaction is the last frame of the log.
WritingInv ==
    writing # NoTx =>
        /\ open
        /\ Len(wal) > 0
        /\ wal[Len(wal)] = GoodFrame(current.epoch + 1, writing)

DirInv == TypeOK /\ OrderInv /\ ParseInv /\ LogFileInv /\ WritingInv

-----------------------------------------------------------------------------
(* The log and what a cold start replays of it.                              *)

\* Parsing stops in what is left of a file,
LEMMA ParsedPrefix ==
    ASSUME NEW w \in Seq(Frame), Parsed(w), NEW k \in 0..Len(w)
    PROVE  Parsed(SubSeq(w, 1, k))
<1> DEFINE v == SubSeq(w, 1, k)
<1>0. Len(w) \in Nat /\ Len(v) = k /\ \A i \in 1..k : v[i] = w[i]
  BY Prefix, SeqLen, Zenon
<1>1. PICK n \in 0..Len(w) : ParsedLength(w, n)
  BY Zenon DEF Parsed
<1> HIDE DEF v
<1>2. CASE k <= n
  <2>1. k \in 0..Len(v) /\ ParsedLength(v, k)
    BY <1>0, <1>1, <1>2 DEF ParsedLength
  <2> QED
    BY <2>1, Zenon DEF Parsed, v
<1>3. CASE n < k
  <2>1. n \in 0..Len(v) /\ ParsedLength(v, n)
    BY <1>0, <1>1, <1>3 DEF ParsedLength
  <2> QED
    BY <2>1, Zenon DEF Parsed, v
<1> QED
  BY <1>2, <1>3

\* and in the file with one more frame.
LEMMA ParsedMore ==
    ASSUME NEW w \in Seq(Frame), Parsed(w), NEW f \in Frame
    PROVE  Parsed(Append(w, f))
<1> DEFINE v == Append(w, f)
<1>0. /\ Len(w) \in Nat /\ Len(v) = Len(w) + 1 /\ v[Len(w) + 1] = f
      /\ \A i \in 1..Len(w) : v[i] = w[i]
  BY Extended, SeqLen, Zenon
<1>1. PICK n \in 0..Len(w) : ParsedLength(w, n)
  BY Zenon DEF Parsed
<1> HIDE DEF v
<1>2. CASE n = Len(w) /\ f.ok
  <2>1. Len(v) \in 0..Len(v) /\ ParsedLength(v, Len(v))
    BY <1>0, <1>1, <1>2 DEF ParsedLength
  <2> QED
    BY <2>1, Zenon DEF Parsed, v
<1>3. CASE ~ (n = Len(w) /\ f.ok)
  <2>1. n \in 0..Len(v) /\ ParsedLength(v, n)
    BY <1>0, <1>1, <1>3 DEF ParsedLength
  <2> QED
    BY <2>1, Zenon DEF Parsed, v
<1> QED
  BY <1>2, <1>3, Zenon

\* So it does in every file that a step of the log leaves.
LEMMA ParseStep ==
    ASSUME WalTypeOK, ParseInv, [WalNext]_walVars
    PROVE  ParseInv'
<1>0. wal \in Seq(Frame) /\ Len(wal) \in Nat /\ Torn \in Frame
  BY SeqLen, TornType, Zenon DEF WalTypeOK
<1>1. CASE wal' = wal
  BY <1>1, Zenon DEF ParseInv
<1>2. CASE wal' = Append(wal, Torn)
  BY <1>0, <1>2, ParsedMore, Zenon DEF ParseInv
<1>3. ASSUME NEW e \in Epochs, NEW t \in Txs, AppendOk(e, t) PROVE ParseInv'
  <2>1. GoodFrame(e, t) \in Frame
    BY WalAssumption, GoodFrameType
  <2> QED
    BY <1>0, <1>3, <2>1, ParsedMore, Zenon DEF ParseInv, AppendOk
<1>4. CASE LosePower
  <2>1. PICK k \in durable..Len(wal) :
          wal' \in {SubSeq(wal, 1, k), Append(SubSeq(wal, 1, k), Torn)}
    BY <1>4, Zenon DEF LosePower
  <2>2. k \in 0..Len(wal)
    BY <1>0 DEF WalTypeOK
  <2>3. SubSeq(wal, 1, k) \in Seq(Frame) /\ Parsed(SubSeq(wal, 1, k))
    BY <1>0, <2>2, Prefix, ParsedPrefix, Zenon DEF ParseInv
  <2>4. Parsed(Append(SubSeq(wal, 1, k), Torn))
    BY <1>0, <2>3, ParsedMore, Zenon
  <2> QED
    BY <2>1, <2>3, <2>4, Zenon DEF ParseInv
<1>5. CASE RecoverWal
  BY <1>0, <1>5, ParsedPrefix, Zenon DEF RecoverWal, ParseInv
<1> QED
  BY <1>1, <1>2, <1>3, <1>4, <1>5, Zenon
  DEF WalNext, walVars, AppendRefused, AppendFailed, FsyncOk, FsyncFailed, KillProcess

\* What replay_entry makes of a store: the entries of the readable frames above
\* its epoch come in, and its epoch becomes that of the last of them.
Replayed(s, r) ==
    /\ r \in Store
    /\ s.entries \subseteq r.entries
    /\ s.epoch <= r.epoch
    /\ \A i \in 1..Len(wal) :
          Readable(wal, i) /\ s.epoch < wal[i].epoch =>
              EntryOf(wal[i]) \in r.entries /\ wal[i].epoch <= r.epoch
    /\ \A e \in r.entries \ s.entries :
          \E i \in 1..Len(wal) :
              Readable(wal, i) /\ s.epoch < wal[i].epoch /\ e = EntryOf(wal[i])
    /\ r.epoch # s.epoch =>
          \E i \in 1..Len(wal) : Readable(wal, i) /\ wal[i].epoch = r.epoch

\* A frame that passes its checks is an entry.
LEMMA FrameEntry ==
    ASSUME NEW f \in Frame, f.ok
    PROVE  EntryOf(f) \in Entry /\ EntryOf(f).epoch = f.epoch /\ EntryOf(f).tx = f.tx
<1>1. f.epoch \in Nat /\ f.tx \in Txs
  BY FrameFields, Zenon
<1> QED
  BY <1>1, Zenon DEF EntryOf, Entry

\* The replay of the log onto a store is what Replayed says.
LEMMA ReplayExact ==
    ASSUME wal \in Seq(Frame), Ordered(wal), ParseInv, NEW s \in Store
    PROVE  Replayed(s, Replay(s))
<1> DEFINE later == {f \in ReadableFrames(wal) : f.epoch > s.epoch}
           epochs == {s.epoch} \cup {f.epoch : f \in later}
<1>0. Len(wal) \in Nat /\ s.epoch \in Nat /\ s.entries \in SUBSET Entry
  BY SeqLen, Zenon DEF Store
<1>1. PICK n \in 0..Len(wal) : ParsedLength(wal, n)
  BY Zenon DEF ParseInv, Parsed
<1>2. \A i \in 1..Len(wal) : Readable(wal, i) <=> i \in 1..n
  BY <1>0, <1>1 DEF Readable, ParsedLength
<1>3. \A i \in 1..Len(wal) : wal[i] \in Frame
  BY SeqElement, Zenon
<1>4. \A i \in 1..n : i \in 1..Len(wal) /\ wal[i] \in Frame /\ wal[i].ok
  BY <1>0, <1>1, <1>3 DEF ParsedLength
<1>5. \A i \in 1..n : wal[i].epoch \in Nat /\ EntryOf(wal[i]) \in Entry
  BY <1>4, FrameFields, FrameEntry, Zenon
<1>6. \A f : f \in later <=> \E i \in 1..n : f = wal[i] /\ wal[i].epoch > s.epoch
  BY <1>2, <1>4, Zenon DEF ReadableFrames
<1>7. \A i \in 1..n : wal[i].epoch <= wal[n].epoch
  <2> TAKE i \in 1..n
  <2>1. n \in 1..n
    BY <1>1
  <2>2. CASE i = n
    BY <2>1, <2>2, <1>5
  <2>3. CASE i # n
    <3>1. i < n
      BY <2>3
    <3>2. wal[i].epoch < wal[n].epoch
      BY <3>1, <2>1, <1>4, Zenon DEF Ordered
    <3> QED
      BY <3>2, <2>1, <1>5
  <2> QED
    BY <2>2, <2>3, Zenon
<1> HIDE DEF later
<1>8. \E m \in epochs : \A y \in epochs : m >= y
  <2>1. CASE later = {}
    BY <1>0, <2>1
  <2>2. CASE later # {}
    <3>1. PICK i \in 1..n : wal[i].epoch > s.epoch
      BY <1>6, <2>2, Zenon
    <3>2. n \in 1..n
      BY <1>1
    <3>3. wal[n].epoch > s.epoch
      BY <1>0, <1>5, <1>7, <3>1, <3>2
    <3>4. wal[n] \in later
      BY <1>6, <3>2, <3>3, Zenon
    <3>5. \A f \in later : wal[n].epoch >= f.epoch
      BY <1>5, <1>6, <1>7, <3>2
    <3>6. wal[n].epoch >= s.epoch
      BY <1>0, <1>5, <3>2, <3>3
    <3> QED
      BY <3>4, <3>5, <3>6, Zenon
  <2> QED
    BY <2>1, <2>2, Zenon
<1> DEFINE top == Max(epochs)
<1>9. top \in epochs /\ \A y \in epochs : top >= y
  <2> HIDE DEF epochs
  <2> QED
    BY <1>8, Zenon DEF Max
<1> DEFINE added == {EntryOf(f) : f \in later}
<1>10. Replay(s) = [epoch |-> top, entries |-> s.entries \cup added]
  BY Zenon DEF Replay, EntryOf, later
<1> HIDE DEF top
<1>11. epochs \subseteq Nat
  <2>1. \A f \in later : f.epoch \in Nat
    BY <1>5, <1>6, Zenon
  <2> QED
    BY <1>0, <2>1, Zenon
<1>12. top \in Nat /\ s.epoch <= top /\ \A f \in later : f.epoch <= top
  BY <1>0, <1>9, <1>11
<1>13. top # s.epoch => \E f \in later : f.epoch = top
  BY <1>9, Zenon
<1> HIDE DEF epochs
<1>14. added \subseteq Entry
  <2>1. \A f \in later : EntryOf(f) \in Entry
    BY <1>5, <1>6, Zenon
  <2> QED
    BY <2>1, Zenon
<1>15. /\ Replay(s) \in Store /\ Replay(s).epoch = top
       /\ Replay(s).entries = s.entries \cup added
  <2> DEFINE all == s.entries \cup added
  <2>1. all \in SUBSET Entry
    BY <1>0, <1>14, Zenon
  <2>2. Replay(s) = [epoch |-> top, entries |-> all]
    BY <1>10, Zenon
  <2> HIDE DEF all
  <2>3. Replay(s) \in Store /\ Replay(s).epoch = top /\ Replay(s).entries = all
    BY <1>12, <2>1, <2>2 DEF Store
  <2> QED
    BY <2>3, Zenon DEF all
<1>16. ASSUME NEW i \in 1..Len(wal), Readable(wal, i), s.epoch < wal[i].epoch
       PROVE  EntryOf(wal[i]) \in added /\ wal[i].epoch <= top
  <2>1. i \in 1..n
    BY <1>2, <1>16, Zenon
  <2>2. wal[i].epoch > s.epoch
    BY <1>0, <1>5, <1>16, <2>1
  <2>3. wal[i] \in later
    BY <1>6, <2>1, <2>2, Zenon
  <2> QED
    BY <1>12, <2>3, Zenon
<1>17. ASSUME NEW f \in later
       PROVE  \E i \in 1..Len(wal) :
                 Readable(wal, i) /\ s.epoch < wal[i].epoch /\ f = wal[i]
  <2>1. PICK i \in 1..n : f = wal[i] /\ wal[i].epoch > s.epoch
    BY <1>6, Zenon
  <2>2. i \in 1..Len(wal) /\ Readable(wal, i)
    BY <1>2, <1>4, <2>1, Zenon
  <2>3. s.epoch < wal[i].epoch
    BY <1>0, <1>5, <2>1
  <2> QED
    BY <2>1, <2>2, <2>3, Zenon
<1>18. \A e \in Replay(s).entries \ s.entries :
          \E i \in 1..Len(wal) :
              Readable(wal, i) /\ s.epoch < wal[i].epoch /\ e = EntryOf(wal[i])
  <2> TAKE e \in Replay(s).entries \ s.entries
  <2>1. PICK f \in later : e = EntryOf(f)
    BY <1>15, Zenon
  <2> QED
    BY <1>17, <2>1, Zenon
<1>19. top # s.epoch => \E i \in 1..Len(wal) : Readable(wal, i) /\ wal[i].epoch = top
  BY <1>13, <1>17, Zenon
<1>20. s.entries \subseteq Replay(s).entries /\ added \subseteq Replay(s).entries
  BY <1>15, Zenon
<1>21. \A i \in 1..Len(wal) :
          Readable(wal, i) /\ s.epoch < wal[i].epoch =>
              EntryOf(wal[i]) \in Replay(s).entries /\ wal[i].epoch <= Replay(s).epoch
  BY <1>15, <1>16, <1>20, Zenon
<1> QED
  BY <1>12, <1>15, <1>18, <1>19, <1>20, <1>21, ZenonT(30) DEF Replayed

-----------------------------------------------------------------------------
(* Types.                                                                    *)

\* The empty store, the hole, no file and no handle.
LEMMA ConstantTypes ==
    /\ Genesis \in Store /\ Hole \in Block /\ NoFile \in File /\ NoCk \in Handle
    /\ Genesis.epoch = 0 /\ Genesis.entries = {}
<1>1. Genesis \in Store /\ Genesis.epoch = 0 /\ Genesis.entries = {}
  BY DEF Genesis, Store
<1>2. Hole \in Block
  BY <1>1, Zenon DEF Hole, Block
<1>3. NoFile \in File
  BY SeqEmpty, Zenon DEF NoFile, File
<1>4. NoCk \in Handle
  BY <1>1, Zenon DEF NoCk, Handle
<1> QED
  BY <1>1, <1>2, <1>3, <1>4, Zenon

\* A file made of two sequences of blocks.
LEMMA HoldingType ==
    ASSUME NEW b \in Seq(Block), NEW s \in Seq(Block)
    PROVE  /\ Holding(b, s) \in File /\ Holding(b, s).exists
           /\ Holding(b, s).blocks = b /\ Holding(b, s).synced = s
  BY Zenon DEF Holding, File

\* A store with one more transaction.
LEMMA WithType ==
    ASSUME NEW s \in Store, NEW t \in Txs
    PROVE  /\ With(s, t) \in Store
           /\ With(s, t).epoch = s.epoch + 1
           /\ With(s, t).entries = s.entries \cup {[epoch |-> s.epoch + 1, tx |-> t]}
           /\ [epoch |-> s.epoch + 1, tx |-> t] \in Entry
<1> DEFINE n == s.epoch + 1
           e == [epoch |-> n, tx |-> t]
<1>1. n \in Nat
  BY DEF Store
<1> HIDE DEF n
<1>2. e \in Entry
  BY <1>1, Zenon DEF Entry
<1> HIDE DEF e
<1> DEFINE all == s.entries \cup {e}
<1>3. all \in SUBSET Entry
  BY <1>2, Zenon DEF Store
<1>4. With(s, t) = [epoch |-> n, entries |-> all]
  BY Zenon DEF With, n, e
<1> HIDE DEF all
<1>5. With(s, t) \in Store /\ With(s, t).epoch = n /\ With(s, t).entries = all
  BY <1>1, <1>3, <1>4 DEF Store
<1> QED
  BY <1>2, <1>5, Zenon DEF n, e, all

\* The image of a store: one block more than its epoch.
LEMMA ImageType ==
    ASSUME NEW s \in Store
    PROVE  /\ s.epoch + 1 \in Nat \ {0}
           /\ Image(s) \in Seq(Block) /\ Len(Image(s)) = s.epoch + 1
           /\ \A i \in 1..(s.epoch + 1) :
                 /\ Image(s)[i] = [store |-> s, at |-> i]
                 /\ Image(s)[i] \in Block /\ Image(s)[i].store = s
<1> DEFINE n == s.epoch + 1
<1>1. n \in Nat \ {0}
  BY DEF Store
<1> HIDE DEF n
<1>2. \A i \in 1..n : [store |-> s, at |-> i] \in Block
  BY <1>1 DEF Block
<1>3. Image(s) = [i \in 1..n |-> [store |-> s, at |-> i]]
  BY Zenon DEF Image, n
<1>4. Image(s) \in Seq(Block) /\ Len(Image(s)) = n
  BY <1>1, <1>2, <1>3
<1>5. \A i \in 1..n : Image(s)[i] = [store |-> s, at |-> i]
  BY <1>3, Zenon
<1>6. \A i \in 1..n : Image(s)[i] \in Block /\ Image(s)[i].store = s
  <2> TAKE i \in 1..n
  <2> DEFINE b == [store |-> s, at |-> i]
  <2>1. b \in Block /\ b.store = s
    BY <1>2, Zenon
  <2>2. Image(s)[i] = b
    BY <1>5, Zenon
  <2> HIDE DEF b
  <2> QED
    BY <2>1, <2>2, Zenon
<1> QED
  BY <1>1, <1>4, <1>5, <1>6, Zenon DEF n

\* A block written into a file.
LEMMA OverlayType ==
    ASSUME NEW b \in Seq(Block), NEW i \in Nat \ {0}, NEW x \in Block
    PROVE  /\ Overlay(b, i, x) \in Seq(Block)
           /\ Len(Overlay(b, i, x)) = WalMax(Len(b), i)
           /\ \A j \in 1..WalMax(Len(b), i) :
                 \/ Overlay(b, i, x)[j] = x
                 \/ Overlay(b, i, x)[j] = Hole
                 \/ j \in 1..Len(b) /\ Overlay(b, i, x)[j] = b[j]
<1> DEFINE n == WalMax(Len(b), i)
<1>0. Len(b) \in Nat
  BY SeqLen, Zenon
<1>1. n \in Nat
  BY <1>0 DEF WalMax
<1> HIDE DEF n
<1> DEFINE at(j) == IF j = i THEN x ELSE IF j <= Len(b) THEN b[j] ELSE Hole
<1>2. \A j \in 1..n : at(j) = x \/ at(j) = Hole \/ (j \in 1..Len(b) /\ at(j) = b[j])
  BY <1>0, <1>1
<1>3. \A j \in 1..n : at(j) \in Block
  <2>1. \A j \in 1..Len(b) : b[j] \in Block
    BY SeqElement, Zenon
  <2> HIDE DEF at
  <2> QED
    BY <1>2, <2>1, ConstantTypes, Zenon
<1>4. Overlay(b, i, x) = [j \in 1..n |-> at(j)]
  BY Zenon DEF Overlay, n
<1> HIDE DEF at
<1>5. Overlay(b, i, x) \in Seq(Block) /\ Len(Overlay(b, i, x)) = n
  BY <1>1, <1>3, <1>4
<1>6. \A j \in 1..n : Overlay(b, i, x)[j] = at(j)
  BY <1>4, Zenon
<1> QED
  BY <1>2, <1>5, <1>6, Zenon DEF n

-----------------------------------------------------------------------------
(* The steps of the directory as steps of its log.                           *)

LogStep ==
    \/ [WalNext]_walVars
    \/ CreateWal
    \/ /\ ~ open
       /\ UNCHANGED <<wal, durable, pending, lastSynced, open, confirmed>>
       /\ crashes' = crashes + 1

\* What leaves the log alone.
CheckpointStep ==
    \E c \in Checkpointers :
        \/ BeginCheckpoint(c) \/ WriteBlock(c) \/ SyncFile(c) \/ Rename(c)
        \/ SyncDir(c) \/ CheckpointErr(c)

ColdStarts ==
    ColdStartBoth \/ ColdStartCheckpoint \/ ColdStartLog \/ ColdStartGenesis
    \/ ColdStartBackend

\* Every step of the directory is one of these.
LEMMA Steps ==
    ASSUME [Next]_vars
    PROVE  \/ \E t \in Txs : LogTx(t) \/ PublishUnlogged(t)
           \/ LogTxErr \/ SyncTx \/ SyncTxErr
           \/ CheckpointStep \/ CrashProcess \/ CrashMachine \/ ColdStarts
           \/ UNCHANGED vars
  BY Zenon DEF Next, CheckpointStep, ColdStarts

\* A step of a checkpoint touches neither the log nor the database.
LEMMA CheckpointKeeps ==
    ASSUME CheckpointStep
    PROVE  UNCHANGED <<walVars, up, logFile, current, writing, used, acked, offLog>>
  BY Zenon DEF CheckpointStep, BeginCheckpoint, WriteBlock, SyncFile, Rename,
     SyncDir, CheckpointErr

\* Every step of the directory is such a step of the log.
LEMMA LogSteps ==
    ASSUME [Next]_vars
    PROVE  LogStep
<1>1. ASSUME NEW t \in Txs, LogTx(t) PROVE LogStep
  <2> DEFINE n == current.epoch + 1
  <2>1. n \in Epochs /\ AppendOk(n, t)
    BY <1>1, Zenon DEF LogTx
  <2> HIDE DEF n
  <2> QED
    BY <2>1, Zenon DEF LogStep, WalNext
<1>2. ASSUME NEW t \in Txs, PublishUnlogged(t) PROVE LogStep
  BY <1>2, Zenon DEF PublishUnlogged, LogStep
<1>3. CASE LogTxErr
  <2> DEFINE n == current.epoch + 1
  <2>1. n \in Epochs /\ (AppendRefused(n) \/ AppendFailed(n))
    BY <1>3, Zenon DEF LogTxErr
  <2> HIDE DEF n
  <2> QED
    BY <2>1, Zenon DEF LogStep, WalNext
<1>4. CASE SyncTx \/ SyncTxErr
  BY <1>4, Zenon DEF SyncTx, SyncTxErr, LogStep, WalNext
<1>5. CASE CheckpointStep
  BY <1>5, CheckpointKeeps, Zenon DEF LogStep
<1>6. CASE CrashProcess \/ CrashMachine
  BY <1>6, Zenon DEF CrashProcess, CrashMachine, LogStep, WalNext
<1>7. CASE ColdStarts
  BY <1>7, Zenon DEF ColdStarts, ColdStartBoth, ColdStartCheckpoint, ColdStartLog,
     ColdStartGenesis, ColdStartBackend, LogStep, WalNext
<1>8. CASE UNCHANGED vars
  BY <1>8, Zenon DEF vars, LogStep
<1> QED
  BY <1>1, <1>2, <1>3, <1>4, <1>5, <1>6, <1>7, <1>8, Steps, Zenon

\* The order of the epochs, carried over from the proofs of the log.
LEMMA LogOrder ==
    ASSUME OrderInv, LogFileInv, LogStep
    PROVE  OrderInv'
<1>1. CASE [WalNext]_walVars
  BY <1>1, OrderStep, Zenon
<1>2. CASE CreateWal
  <2>1. wal' = wal /\ Len(wal) = 0
    BY <1>2, SeqEmpty DEF CreateWal, LogFileInv
  <2> QED
    BY <1>2, <2>1 DEF CreateWal, OrderInv, WalTypeOK, EpochsIncrease, UpTo, Ordered
<1>3. CASE ~ (CreateWal \/ [WalNext]_walVars)
  BY <1>3 DEF LogStep, OrderInv, WalTypeOK, EpochsIncrease, UpTo
<1> QED
  BY <1>1, <1>2, <1>3, Zenon

\* Likewise that its parsing ends,
LEMMA LogParses ==
    ASSUME OrderInv, ParseInv, LogStep
    PROVE  ParseInv'
<1>1. CASE [WalNext]_walVars
  BY <1>1, ParseStep, Zenon DEF OrderInv
<1>2. CASE ~ [WalNext]_walVars
  BY <1>2, Zenon DEF LogStep, CreateWal, ParseInv
<1> QED
  BY <1>1, <1>2, Zenon

\* and what an fsync has vouched for.
LEMMA LogSurvival ==
    ASSUME ~ TornAppend, OrderInv, SurvivalInv, LogFileInv, LogStep
    PROVE  SurvivalInv'
<1>1. CASE [WalNext]_walVars
  BY <1>1, SurvivalStep, Zenon
<1>2. CASE CreateWal
  <2>1. wal' = wal /\ Len(wal) = 0 /\ confirmed' = {}
    BY <1>2, SeqEmpty DEF CreateWal, LogFileInv
  <2> QED
    BY <2>1 DEF SurvivalInv, ConfirmedSurvive
<1>3. CASE ~ (CreateWal \/ [WalNext]_walVars)
  <2>1. wal' = wal /\ durable' = durable /\ open' = open /\ confirmed' = confirmed
    BY <1>3, Zenon DEF LogStep
  <2> QED
    BY <2>1 DEF SurvivalInv, ConfirmedSurvive
<1> QED
  BY <1>1, <1>2, <1>3, Zenon

\* The log file, once created, stays; before that there is nothing in it.
LEMMA LogFileStep ==
    ASSUME TypeOK, LogFileInv, [Next]_vars
    PROVE  LogFileInv'
<1>1. CASE logFile
  <2>1. logFile'
    <3>1. CASE CheckpointStep
      BY <1>1, <3>1, CheckpointKeeps, Zenon
    <3>2. CASE ColdStarts
      BY <1>1, <3>2, Zenon DEF ColdStarts, ColdStartBoth, ColdStartCheckpoint,
         ColdStartLog, ColdStartGenesis, ColdStartBackend, CreateWal
    <3>3. CASE ~ CheckpointStep /\ ~ ColdStarts
      BY <1>1, <3>3, Steps, Zenon DEF LogTx, PublishUnlogged, LogTxErr, SyncTx,
         SyncTxErr, CrashProcess, CrashMachine, LoseMemory, dirVars, vars
    <3> QED
      BY <3>1, <3>2, <3>3, Zenon
  <2> QED
    BY <2>1, Zenon DEF LogFileInv
<1>2. CASE ~ logFile
  <2>1. ~ open /\ wal = << >> /\ durable = 0 /\ confirmed = {} /\ Len(wal) = 0
    BY <1>2, SeqEmpty DEF TypeOK, LogFileInv
  <2>2. CASE CrashMachine
    <3>1. PICK k \in durable..Len(wal) :
            /\ wal' \in {SubSeq(wal, 1, k), Append(SubSeq(wal, 1, k), Torn)}
            /\ durable' = k
      BY <2>2, Zenon DEF CrashMachine, LosePower
    <3>2. k = 0
      BY <2>1
    <3>3. SubSeq(wal, 1, 0) \in Seq(Frame) /\ Len(SubSeq(wal, 1, 0)) = 0
      BY <2>1, Prefix DEF TypeOK, WalTypeOK
    <3>4. SubSeq(wal, 1, 0) = << >>
      BY <3>3, SeqEmpty, Zenon
    <3>5. Len(wal') <= 0
      BY <2>1, <2>2, Zenon DEF CrashMachine
    <3>6. Len(Append(SubSeq(wal, 1, 0), Torn)) = 1
      BY <3>3, Extended, TornType
    <3>7. wal' = << >>
      BY <3>1, <3>2, <3>4, <3>5, <3>6
    <3> QED
      BY <2>1, <2>2, <3>1, <3>2, <3>7, Zenon DEF CrashMachine, LosePower, LogFileInv
  <2>3. CASE ~ CrashMachine
    <3>1. UNCHANGED <<wal, durable, confirmed>>
      <4>1. CASE CheckpointStep
        BY <4>1, CheckpointKeeps, Zenon DEF walVars
      <4>2. CASE ColdStarts
        BY <1>2, <4>2, Zenon DEF ColdStarts, ColdStartBoth, ColdStartCheckpoint,
           ColdStartLog, ColdStartGenesis, ColdStartBackend, CreateWal, walVars
      <4>3. CASE ~ CheckpointStep /\ ~ ColdStarts
        BY <2>1, <2>3, <4>3, Steps, Zenon DEF LogTx, PublishUnlogged, LogTxErr, SyncTx,
           SyncTxErr, CrashProcess, AppendOk, AppendRefused, AppendFailed, FsyncOk,
           FsyncFailed, KillProcess, walVars, vars
      <4> QED
        BY <4>1, <4>2, <4>3, Zenon
    <3> QED
      BY <2>1, <3>1, Zenon DEF LogFileInv
  <2> QED
    BY <2>2, <2>3, Zenon
<1> QED
  BY <1>1, <1>2, Zenon

-----------------------------------------------------------------------------
(* What the levels of the cold-start cascade have in common: one opens on    *)
(* the checkpoint or on genesis, with the log, if there is one, replayed.    *)

OpensOn(s) ==
    /\ ~ up /\ up'
    /\ s = Genesis \/ (HasCheckpoint /\ Loadable /\ s = Loaded)
    /\ ~ spoiled' /\ HasCheckpoint /\ Loadable => s = Loaded
    /\ current' = IF logFile THEN Replay(s) ELSE s
    /\ IF logFile THEN RecoverWal \/ UNCHANGED walVars
       ELSE CreateWal \/ UNCHANGED <<walVars, logFile>>
    /\ logFile => logFile'
    /\ spoiled => spoiled'
    /\ spoiled' \in BOOLEAN
    /\ offLog' = offLog \cup (current'.entries \cap Unsynced')
    /\ UNCHANGED <<writing, diskVars, ck, begun, used, acked, saved>>

\* A checkpoint that loads holds a store.
LEMMA LoadedType ==
    ASSUME TypeOK, Loadable
    PROVE  Loaded \in Store /\ 1 \in 1..Len(file["chk"].blocks)
<1> DEFINE b == file["chk"].blocks
<1>1. b \in Seq(Block)
  BY Zenon DEF TypeOK, File, Places
<1>2. b # << >>
  BY Zenon DEF Loadable, Whole
<1> HIDE DEF b
<1>3. Len(b) \in Nat /\ Len(b) # 0
  BY <1>1, <1>2, SeqEmpty, SeqLen, Zenon
<1>4. 1 \in 1..Len(b)
  BY <1>3
<1>5. b[1] \in Block
  BY <1>1, <1>4, SeqElement, Zenon
<1>6. b[1].store \in Store
  BY <1>5, Zenon DEF Block
<1> QED
  BY <1>4, <1>6, Zenon DEF Loaded, b

\* Every level of cold_start opens the database as OpensOn says.
LEMMA ColdStartOpens ==
    ASSUME TypeOK, ColdStarts
    PROVE  \E s \in Store : OpensOn(s)
<1>0. spoiled \in BOOLEAN /\ Genesis \in Store
  BY ConstantTypes, Zenon DEF TypeOK
<1>1. CASE ColdStartBoth
  <2>1. OpensOn(Loaded)
    BY <1>0, <1>1, Zenon DEF ColdStartBoth, Opens, OpensOn
  <2> QED
    BY <1>1, <2>1, LoadedType, Zenon DEF ColdStartBoth
<1>2. CASE ColdStartCheckpoint
  <2>1. OpensOn(Loaded)
    BY <1>0, <1>2, Zenon DEF ColdStartCheckpoint, Opens, OpensOn
  <2> QED
    BY <1>2, <2>1, LoadedType, Zenon DEF ColdStartCheckpoint
<1>3. CASE ColdStartLog
  <2>1. OpensOn(Genesis)
    BY <1>0, <1>3, Zenon DEF ColdStartLog, Opens, OpensOn
  <2> QED
    BY <1>0, <2>1, Zenon
<1>4. CASE ColdStartGenesis
  <2>1. OpensOn(Genesis)
    BY <1>0, <1>4, Zenon DEF ColdStartGenesis, Opens, OpensOn
  <2> QED
    BY <1>0, <2>1, Zenon
<1>5. CASE ColdStartBackend
  <2>1. CASE HasCheckpoint /\ Loadable
    <3>1. OpensOn(Loaded)
      BY <1>0, <1>5, <2>1, Zenon DEF ColdStartBackend, Opens, OpensOn
    <3> QED
      BY <2>1, <3>1, LoadedType, Zenon
  <2>2. CASE ~ (HasCheckpoint /\ Loadable)
    <3>1. OpensOn(Genesis)
      BY <1>0, <1>5, <2>2, Zenon DEF ColdStartBackend, Opens, OpensOn
    <3> QED
      BY <1>0, <3>1, Zenon
  <2> QED
    BY <2>1, <2>2, Zenon
<1> QED
  BY <1>1, <1>2, <1>3, <1>4, <1>5, Zenon DEF ColdStarts

\* The store that a cold start opens.
LEMMA OpenedStore ==
    ASSUME TypeOK, OrderInv, ParseInv, NEW s \in Store, OpensOn(s)
    PROVE  current' \in Store
<1>1. Replay(s) \in Store
  BY ReplayExact, Zenon DEF OrderInv, WalTypeOK, EpochsIncrease, Replayed
<1> QED
  BY <1>1, Zenon DEF OpensOn

-----------------------------------------------------------------------------
\* Handles that differ in their places only.
SameBut(g, h) ==
    \A c \in Checkpointers :
        /\ g[c].step = h[c].step /\ g[c].store = h[c].store
        /\ g[c].inPlace = h[c].inPlace /\ g[c].pos = h[c].pos

\* Handles that follow a file keep everything but their place.
LEMMA MovedType ==
    ASSUME NEW h \in [Checkpointers -> Handle], NEW p, NEW q \in Places \cup {"gone"}
    PROVE  /\ Moved(h, p, q) \in [Checkpointers -> Handle]
           /\ SameBut(Moved(h, p, q), h)
           /\ \A c \in Checkpointers :
                 /\ h[c].at = p => Moved(h, p, q)[c].at = q
                 /\ h[c].at # p => Moved(h, p, q)[c].at = h[c].at
<1>1. \A c \in Checkpointers : h[c] \in Handle
  BY Zenon
<1>2. ASSUME NEW x \in Handle
      PROVE  /\ [x EXCEPT !.at = q] \in Handle
             /\ [x EXCEPT !.at = q].step = x.step
             /\ [x EXCEPT !.at = q].store = x.store
             /\ [x EXCEPT !.at = q].inPlace = x.inPlace
             /\ [x EXCEPT !.at = q].pos = x.pos
             /\ [x EXCEPT !.at = q].at = q
  BY DEF Handle
<1> DEFINE m(x) == IF x.at = p THEN [x EXCEPT !.at = q] ELSE x
<1>3. Moved(h, p, q) = [c \in Checkpointers |-> m(h[c])]
  BY Zenon DEF Moved
<1>4. \A x \in Handle :
        /\ m(x) \in Handle /\ m(x).step = x.step /\ m(x).store = x.store
        /\ m(x).inPlace = x.inPlace /\ m(x).pos = x.pos
        /\ x.at = p => m(x).at = q
        /\ x.at # p => m(x).at = x.at
  <2> TAKE x \in Handle
  <2>1. CASE x.at = p
    <3>1. m(x) = [x EXCEPT !.at = q]
      BY <2>1, Zenon
    <3> HIDE DEF m
    <3> QED
      BY <1>2, <2>1, <3>1, Zenon
  <2>2. CASE x.at # p
    <3>1. m(x) = x
      BY <2>2, Zenon
    <3> HIDE DEF m
    <3> QED
      BY <2>2, <3>1, Zenon
  <2> QED
    BY <2>1, <2>2, Zenon
<1> HIDE DEF m
<1> QED
  <2>1. Moved(h, p, q) \in [Checkpointers -> Handle]
    BY <1>1, <1>3, <1>4, Zenon
  <2>2. \A c \in Checkpointers : Moved(h, p, q)[c] = m(h[c])
    BY <1>3, Zenon
  <2> DEFINE g == Moved(h, p, q)
  <2>3. ASSUME NEW c \in Checkpointers
        PROVE  /\ g[c].step = h[c].step /\ g[c].store = h[c].store
               /\ g[c].inPlace = h[c].inPlace /\ g[c].pos = h[c].pos
               /\ h[c].at = p => g[c].at = q
               /\ h[c].at # p => g[c].at = h[c].at
    BY <1>1, <1>4, <2>2
  <2>4. SameBut(g, h)
    BY <2>3, Zenon DEF SameBut
  <2> QED
    BY <2>1, <2>3, <2>4, Zenon

\* The fields of a file.
LEMMA FileFields ==
    ASSUME TypeOK, NEW p \in Places
    PROVE  /\ file[p] \in File /\ file[p].exists \in BOOLEAN
           /\ file[p].blocks \in Seq(Block) /\ file[p].synced \in Seq(Block)
  BY Zenon DEF TypeOK, File

\* The fields of a handle.
LEMMA HandleFields ==
    ASSUME TypeOK, NEW c \in Checkpointers
    PROVE  /\ ck[c] \in Handle /\ ck[c].store \in Store /\ ck[c].pos \in Nat
           /\ ck[c].at \in Places \cup {"gone"} /\ ck[c].inPlace \in BOOLEAN
           /\ ck[c].step \in {"idle", "write", "rename", "syncdir"}
  BY Zenon DEF TypeOK, Handle

\* A handle that has gone on is a handle.
LEMMA HandleWith ==
    ASSUME NEW h \in Handle
    PROVE  /\ \A s \in {"idle", "write", "rename", "syncdir"} :
                 [h EXCEPT !.step = s] \in Handle
           /\ \A n \in Nat : [h EXCEPT !.pos = n] \in Handle
BY DEF Handle

\* A file with other blocks is a file.
LEMMA FileWith ==
    ASSUME NEW f \in File, NEW b \in Seq(Block)
    PROVE  /\ [f EXCEPT !.blocks = b] \in File
           /\ [f EXCEPT !.synced = b] \in File
BY DEF File

\* BeginCheckpoint empties the file of the name it is given.
Emptied(f) == IF f.exists THEN Holding(<< >>, f.synced) ELSE Holding(<< >>, << >>)

\* The emptied file exists, and only its synced part may be left.
LEMMA EmptiedType ==
    ASSUME NEW f \in File
    PROVE  /\ Emptied(f) \in File /\ Emptied(f).exists /\ Emptied(f).blocks = << >>
           /\ Emptied(f).synced = << >> \/ Emptied(f).synced = f.synced
  BY HoldingType, SeqEmpty, Zenon DEF Emptied, File

\* The next block that a handle writes, and the file with it.
NextBlock(c) == Image(ck[c].store)[ck[c].pos + 1]
WithBlock(c) == Overlay(file[ck[c].at].blocks, ck[c].pos + 1, NextBlock(c))

\* The blocks of the file behind handle c after its next write.
LEMMA WithBlockType ==
    ASSUME TypeOK, NEW c \in Checkpointers, ck[c].at # "gone",
           ck[c].pos < Len(Image(ck[c].store))
    PROVE  /\ WithBlock(c) \in Seq(Block)
           /\ Len(WithBlock(c)) = WalMax(Len(file[ck[c].at].blocks), ck[c].pos + 1)
           /\ NextBlock(c) = [store |-> ck[c].store, at |-> ck[c].pos + 1]
           /\ NextBlock(c).store = ck[c].store
           /\ \A j \in 1..Len(WithBlock(c)) :
                 \/ WithBlock(c)[j] = NextBlock(c)
                 \/ WithBlock(c)[j] = Hole
                 \/ j \in 1..Len(file[ck[c].at].blocks)
                       /\ WithBlock(c)[j] = file[ck[c].at].blocks[j]
<1> DEFINE b == file[ck[c].at].blocks
           i == ck[c].pos + 1
<1>1. b \in Seq(Block) /\ ck[c].pos \in Nat /\ ck[c].store \in Store
  BY HandleFields, FileFields, Zenon
<1>2. i \in Nat \ {0} /\ i \in 1..(ck[c].store.epoch + 1)
  BY <1>1, ImageType
<1> HIDE DEF b, i
<1>3. /\ NextBlock(c) = [store |-> ck[c].store, at |-> i]
      /\ NextBlock(c) \in Block /\ NextBlock(c).store = ck[c].store
  BY <1>1, <1>2, ImageType, Zenon DEF NextBlock, i
<1> DEFINE x == NextBlock(c)
           o == Overlay(b, i, x)
<1>4. WithBlock(c) = o /\ x \in Block
  BY <1>3, Zenon DEF WithBlock, b, i
<1> HIDE DEF x
<1>5. /\ o \in Seq(Block) /\ Len(o) = WalMax(Len(b), i)
      /\ \A j \in 1..WalMax(Len(b), i) :
            o[j] = x \/ o[j] = Hole \/ (j \in 1..Len(b) /\ o[j] = b[j])
  BY <1>1, <1>2, <1>4, OverlayType, Zenon
<1> HIDE DEF o
<1>6. /\ WithBlock(c) \in Seq(Block)
      /\ Len(WithBlock(c)) = WalMax(Len(b), i)
      /\ \A j \in 1..WalMax(Len(b), i) :
            \/ WithBlock(c)[j] = NextBlock(c)
            \/ WithBlock(c)[j] = Hole
            \/ j \in 1..Len(b) /\ WithBlock(c)[j] = b[j]
  BY <1>4, <1>5, Zenon DEF x
<1> QED
  BY <1>3, <1>6, Zenon DEF b, i

-----------------------------------------------------------------------------
(* Each step of a checkpoint: which handle and which file it changes.        *)

\* BeginCheckpoint: a new handle and an emptied file.
LEMMA BeginShape ==
    ASSUME TypeOK, NEW c \in Checkpointers, BeginCheckpoint(c)
    PROVE  \E i \in BOOLEAN, p \in Places :
              /\ p = IF i THEN "chk" ELSE "tmp"
              /\ ck' = [ck EXCEPT ![c] = [step |-> "write", at |-> p, inPlace |-> i,
                                          pos |-> 0, store |-> current]]
              /\ file' = [file EXCEPT ![p] = Emptied(file[p])]
              /\ spoiled' = (spoiled \/ i \/ \E d \in Checkpointers : ck[d].step # "idle")
              /\ dirSynced' = (dirSynced /\ (i => file["chk"].exists))
<1>1. PICK i \in {FALSE, InPlace} :
        LET place == IF i THEN "chk" ELSE "tmp"
        IN  /\ ck' = [ck EXCEPT ![c] = [step |-> "write", at |-> place,
                         inPlace |-> i, pos |-> 0, store |-> current]]
            /\ file' = [file EXCEPT ![place] =
                          IF @.exists THEN Holding(<< >>, @.synced)
                          ELSE Holding(<< >>, << >>)]
            /\ spoiled' = (spoiled \/ i
                             \/ \E d \in Checkpointers : ck[d].step # "idle")
            /\ dirSynced' = (dirSynced /\ (i => file["chk"].exists))
  BY Zenon DEF BeginCheckpoint
<1>2. i \in BOOLEAN
  BY <1>1, ColdStartAssumption, Zenon
<1>3. CASE i
  <2>1. "chk" \in Places
    BY Zenon DEF Places
  <2> QED
    BY <1>1, <1>2, <1>3, <2>1, Zenon DEF Emptied
<1>4. CASE ~ i
  <2>1. "tmp" \in Places
    BY Zenon DEF Places
  <2> QED
    BY <1>1, <1>2, <1>4, <2>1, Zenon DEF Emptied
<1> QED
  BY <1>3, <1>4, Zenon

\* WriteBlock: the next position and one more block.
LEMMA WriteShape ==
    ASSUME TypeOK, NEW c \in Checkpointers, WriteBlock(c)
    PROVE  /\ ck' = [ck EXCEPT ![c].pos = ck[c].pos + 1]
           /\ IF ck[c].at = "gone" THEN file' = file
              ELSE file' = [file EXCEPT ![ck[c].at].blocks = WithBlock(c)]
<1>1. ck' = [ck EXCEPT ![c].pos = ck[c].pos + 1]
  BY Zenon DEF WriteBlock
<1>2. ck \in [Checkpointers -> Handle]
  BY Zenon DEF TypeOK
<1>3. ck'[c].pos = ck[c].pos + 1
  BY <1>1, <1>2 DEF Handle
<1>4. CASE ck[c].at = "gone"
  BY <1>1, <1>4, Zenon DEF WriteBlock
<1>5. CASE ck[c].at # "gone"
  BY <1>1, <1>3, <1>5, Zenon DEF WriteBlock, WithBlock, NextBlock
<1> QED
  BY <1>4, <1>5, Zenon

\* The files after a rename.
Renamed(keep) ==
    [p \in Places |->
        CASE p = "tmp" -> NoFile
          [] p = "chk" -> file["tmp"]
          [] p = "old" -> IF keep THEN file["old"] ELSE file["chk"]]

\* The handles after it.
Carried(keep) ==
    Moved(IF keep THEN Moved(ck, "chk", "gone")
          ELSE Moved(Moved(ck, "old", "gone"), "chk", "old"), "tmp", "chk")

\* Rename: no temporary file and an error, or the files change places.
LEMMA RenameShape ==
    ASSUME TypeOK, NEW c \in Checkpointers, Rename(c)
    PROVE  \/ /\ ~ file["tmp"].exists
              /\ ck' = [ck EXCEPT ![c] = NoCk]
              /\ UNCHANGED diskVars
           \/ /\ file["tmp"].exists
              /\ \E keep \in BOOLEAN :
                    /\ keep => ~ dirSynced
                    /\ ck' = [Carried(keep) EXCEPT ![c].step = "syncdir"]
                    /\ file' = Renamed(keep)
                    /\ dirSynced' = FALSE
<1>1. CASE ~ file["tmp"].exists
  BY <1>1, Zenon DEF Rename
<1>2. CASE file["tmp"].exists
  <2>1. PICK keep \in {FALSE, ~ dirSynced} :
          LET handles == IF keep THEN Moved(ck, "chk", "gone")
                         ELSE Moved(Moved(ck, "old", "gone"), "chk", "old")
          IN  /\ ck' = [Moved(handles, "tmp", "chk") EXCEPT ![c].step = "syncdir"]
              /\ file' = [p \in Places |->
                            CASE p = "tmp" -> NoFile
                              [] p = "chk" -> file["tmp"]
                              [] p = "old" -> IF keep THEN file["old"] ELSE file["chk"]]
              /\ dirSynced' = FALSE
    BY <1>2, Zenon DEF Rename
  <2>2. keep \in BOOLEAN /\ (keep => ~ dirSynced)
    BY <2>1, Zenon
  <2>3. ck' = [Carried(keep) EXCEPT ![c].step = "syncdir"] /\ file' = Renamed(keep)
    BY <2>1, Zenon DEF Carried, Renamed
  <2> QED
    BY <1>2, <2>1, <2>2, <2>3, Zenon
<1> QED
  BY <1>1, <1>2, Zenon

\* The files after a rename.
LEMMA RenamedFiles ==
    ASSUME TypeOK, NEW keep \in BOOLEAN
    PROVE  /\ Renamed(keep) \in [Places -> File]
           /\ Renamed(keep)["tmp"] = NoFile
           /\ Renamed(keep)["chk"] = file["tmp"]
           /\ Renamed(keep)["old"] = IF keep THEN file["old"] ELSE file["chk"]
<1>1. file \in [Places -> File]
  BY Zenon DEF TypeOK
<1>2. /\ Renamed(keep)["tmp"] = NoFile
      /\ Renamed(keep)["chk"] = file["tmp"]
      /\ Renamed(keep)["old"] = IF keep THEN file["old"] ELSE file["chk"]
  BY DEF Renamed, Places
<1>3. \A p \in Places : Renamed(keep)[p] \in File
  BY <1>1, <1>2, ConstantTypes, Zenon DEF Places
<1>4. \A f : f = Renamed(keep) => f = [p \in Places |-> f[p]]
  BY DEF Renamed
<1> QED
  BY <1>2, <1>3, <1>4

\* The handles after a rename.
LEMMA CarriedHandles ==
    ASSUME TypeOK, NEW keep \in BOOLEAN
    PROVE  /\ Carried(keep) \in [Checkpointers -> Handle]
           /\ SameBut(Carried(keep), ck)
           /\ \A c \in Checkpointers : ck[c].at = "tmp" => Carried(keep)[c].at = "chk"
<1>1. ck \in [Checkpointers -> Handle]
  BY Zenon DEF TypeOK
<1>2. "old" \in Places \cup {"gone"} /\ "chk" \in Places \cup {"gone"}
      /\ "gone" \in Places \cup {"gone"}
  BY Zenon DEF Places
<1> DEFINE h == IF keep THEN Moved(ck, "chk", "gone")
                ELSE Moved(Moved(ck, "old", "gone"), "chk", "old")
<1>3. /\ h \in [Checkpointers -> Handle] /\ SameBut(h, ck)
      /\ \A c \in Checkpointers : ck[c].at = "tmp" => h[c].at = "tmp"
  <2>1. CASE keep
    <3>1. h = Moved(ck, "chk", "gone")
      BY <2>1, Zenon
    <3> HIDE DEF h
    <3>2. /\ h \in [Checkpointers -> Handle] /\ SameBut(h, ck)
          /\ \A c \in Checkpointers : ck[c].at # "chk" => h[c].at = ck[c].at
      BY <1>1, <1>2, <3>1, MovedType
    <3> QED
      BY <3>2, Zenon
  <2>2. CASE ~ keep
    <3> DEFINE g == Moved(ck, "old", "gone")
    <3>1. /\ g \in [Checkpointers -> Handle] /\ SameBut(g, ck)
          /\ \A c \in Checkpointers : ck[c].at # "old" => g[c].at = ck[c].at
      BY <1>1, <1>2, MovedType
    <3> HIDE DEF g
    <3>2. h = Moved(g, "chk", "old")
      BY <2>2, Zenon DEF g
    <3> HIDE DEF h
    <3>3. /\ h \in [Checkpointers -> Handle] /\ SameBut(h, g)
          /\ \A c \in Checkpointers : g[c].at # "chk" => h[c].at = g[c].at
      BY <1>2, <3>1, <3>2, MovedType
    <3>4. SameBut(h, ck)
      BY <3>1, <3>3, Zenon DEF SameBut
    <3> QED
      BY <3>1, <3>3, <3>4, Zenon
  <2> QED
    BY <2>1, <2>2, Zenon
<1>4. Carried(keep) = Moved(h, "tmp", "chk")
  BY Zenon DEF Carried
<1> HIDE DEF h
<1>5. /\ Carried(keep) \in [Checkpointers -> Handle] /\ SameBut(Carried(keep), h)
      /\ \A c \in Checkpointers : h[c].at = "tmp" => Carried(keep)[c].at = "chk"
  BY <1>2, <1>3, <1>4, MovedType
<1> QED
  BY <1>3, <1>5, Zenon DEF SameBut

-----------------------------------------------------------------------------
(* Every step keeps the types.                                               *)

DiskTypeOK ==
    /\ file \in [Places -> File]
    /\ dirSynced \in BOOLEAN
    /\ ck \in [Checkpointers -> Handle]
    /\ begun \in 0..MaxCheckpoints

\* The steps of a checkpoint keep the types of the files and handles.
LEMMA CheckpointTypes ==
    ASSUME TypeOK, CheckpointStep
    PROVE  DiskTypeOK'
<1>0. /\ file \in [Places -> File] /\ ck \in [Checkpointers -> Handle]
      /\ dirSynced \in BOOLEAN /\ begun \in 0..MaxCheckpoints /\ current \in Store
  BY Zenon DEF TypeOK
<1>1. ASSUME NEW c \in Checkpointers, BeginCheckpoint(c) PROVE DiskTypeOK'
  <2>1. PICK i \in BOOLEAN, p \in Places :
          /\ ck' = [ck EXCEPT ![c] = [step |-> "write", at |-> p, inPlace |-> i,
                                      pos |-> 0, store |-> current]]
          /\ file' = [file EXCEPT ![p] = Emptied(file[p])]
          /\ dirSynced' = (dirSynced /\ (i => file["chk"].exists))
    BY <1>1, BeginShape, Zenon
  <2> DEFINE h == [step |-> "write", at |-> p, inPlace |-> i, pos |-> 0, store |-> current]
  <2>2. h \in Handle
    BY <1>0, Zenon DEF Handle
  <2> HIDE DEF h
  <2>3. ck' \in [Checkpointers -> Handle]
    BY <1>0, <2>1, <2>2, Zenon DEF h
  <2>4. Emptied(file[p]) \in File
    BY <1>0, EmptiedType, Zenon
  <2>5. file' \in [Places -> File]
    BY <1>0, <2>1, <2>4, Zenon
  <2>6. begun' \in 0..MaxCheckpoints
    BY <1>0, <1>1, ColdStartAssumption DEF BeginCheckpoint
  <2> QED
    BY <2>1, <2>3, <2>5, <2>6, Zenon DEF DiskTypeOK
<1>2. ASSUME NEW c \in Checkpointers, WriteBlock(c) PROVE DiskTypeOK'
  <2>1. ck'  = [ck EXCEPT ![c].pos = ck[c].pos + 1]
    BY <1>2, WriteShape, Zenon
  <2>2. ck' \in [Checkpointers -> Handle]
    <3>1. [ck[c] EXCEPT !.pos = ck[c].pos + 1] \in Handle
      <4> DEFINE n == ck[c].pos + 1
      <4>1. n \in Nat
        BY HandleFields
      <4> HIDE DEF n
      <4>2. [ck[c] EXCEPT !.pos = n] \in Handle
        BY <4>1, HandleFields, HandleWith, Zenon
      <4> QED
        BY <4>2 DEF n
    <3> QED
      BY <1>0, <2>1, <3>1, Zenon
  <2>3. CASE ck[c].at = "gone"
    BY <1>0, <1>2, <2>2, <2>3, WriteShape, Zenon DEF WriteBlock, DiskTypeOK
  <2>4. CASE ck[c].at # "gone"
    <3> DEFINE p == ck[c].at
    <3>1. p \in Places /\ file' = [file EXCEPT ![p].blocks = WithBlock(c)]
      BY <1>2, <2>4, WriteShape, HandleFields, Zenon
    <3>2. WithBlock(c) \in Seq(Block)
      BY <1>2, <2>4, WithBlockType, Zenon DEF WriteBlock
    <3> HIDE DEF p
    <3>3. [file[p] EXCEPT !.blocks = WithBlock(c)] \in File
      BY <3>1, <3>2, FileFields, FileWith, Zenon
    <3>4. file' \in [Places -> File]
      BY <1>0, <3>1, <3>3, Zenon
    <3> QED
      BY <1>0, <1>2, <2>2, <3>4, Zenon DEF WriteBlock, DiskTypeOK
  <2> QED
    BY <2>3, <2>4, Zenon
<1>3. ASSUME NEW c \in Checkpointers, SyncFile(c) PROVE DiskTypeOK'
  <2>1. CASE ck[c].inPlace
    BY <1>0, <1>3, <2>1, ConstantTypes, Zenon DEF SyncFile, DiskTypeOK
  <2>2. CASE ~ ck[c].inPlace
    <3>1. ck' \in [Checkpointers -> Handle]
      <4>1. ck' = [ck EXCEPT ![c].step = "rename"]
        BY <1>3, <2>2, Zenon DEF SyncFile
      <4>2. [ck[c] EXCEPT !.step = "rename"] \in Handle
        BY HandleFields, HandleWith, Zenon
      <4> QED
        BY <1>0, <4>1, <4>2, Zenon
    <3>2. file' \in [Places -> File]
      <4>1. CASE ck[c].at = "gone"
        BY <1>0, <1>3, <2>2, <4>1, Zenon DEF SyncFile
      <4>2. CASE ck[c].at # "gone"
        <5> DEFINE p == ck[c].at
        <5>1. p \in Places /\ file' = [file EXCEPT ![p].synced = file[p].blocks]
          BY <1>3, <2>2, <4>2, HandleFields, Zenon DEF SyncFile
        <5> HIDE DEF p
        <5>2. [file[p] EXCEPT !.synced = file[p].blocks] \in File
          BY <5>1, FileFields, FileWith, Zenon
        <5> QED
          BY <1>0, <5>1, <5>2, Zenon
      <4> QED
        BY <4>1, <4>2, Zenon
    <3> QED
      BY <1>0, <1>3, <3>1, <3>2, Zenon DEF SyncFile, DiskTypeOK
  <2> QED
    BY <2>1, <2>2, HandleFields, Zenon
<1>4. ASSUME NEW c \in Checkpointers, Rename(c) PROVE DiskTypeOK'
  <2>0. begun' = begun
    BY <1>4, Zenon DEF Rename
  <2>1. CASE ~ file["tmp"].exists
    BY <1>0, <1>4, <2>0, <2>1, RenameShape, ConstantTypes, Zenon DEF DiskTypeOK, diskVars
  <2>2. CASE file["tmp"].exists
    <3>1. PICK keep \in BOOLEAN :
            /\ ck' = [Carried(keep) EXCEPT ![c].step = "syncdir"]
            /\ file' = Renamed(keep)
            /\ dirSynced' = FALSE
      BY <1>4, <2>2, RenameShape, Zenon
    <3>2. Carried(keep) \in [Checkpointers -> Handle] /\ file' \in [Places -> File]
      BY <3>1, CarriedHandles, RenamedFiles, Zenon
    <3>3. ck' \in [Checkpointers -> Handle]
      BY <3>1, <3>2 DEF Handle
    <3> QED
      BY <1>0, <2>0, <3>1, <3>2, <3>3, Zenon DEF DiskTypeOK
  <2> QED
    BY <2>1, <2>2, Zenon
<1>5. ASSUME NEW c \in Checkpointers, SyncDir(c) PROVE DiskTypeOK'
  <2> DEFINE m == Moved(ck, "old", "gone")
  <2>1. m \in [Checkpointers -> Handle]
    BY <1>0, MovedType
  <2>2. /\ ck' = [m EXCEPT ![c] = NoCk] /\ file' = [file EXCEPT !["old"] = NoFile]
        /\ dirSynced' = TRUE /\ begun' = begun
    BY <1>5, Zenon DEF SyncDir
  <2> HIDE DEF m
  <2> QED
    BY <1>0, <2>1, <2>2, ConstantTypes, Zenon DEF DiskTypeOK, Places
<1>6. ASSUME NEW c \in Checkpointers, CheckpointErr(c) PROVE DiskTypeOK'
  BY <1>0, <1>6, ConstantTypes, Zenon DEF CheckpointErr, DiskTypeOK, diskVars
<1> QED
  BY <1>1, <1>2, <1>3, <1>4, <1>5, <1>6, Zenon DEF CheckpointStep

\* What a power loss leaves of a file is a file.
LEMMA SurvivorsType ==
    ASSUME NEW f \in File, NEW g \in Survivors(f)
    PROVE  /\ g \in File
           /\ g = f \/ (g.exists /\ g.blocks = g.synced
                          /\ g.blocks \in {f.blocks, f.synced, <<Hole>>})
<1>0. <<Hole>> \in Seq(Block) /\ f.blocks \in Seq(Block) /\ f.synced \in Seq(Block)
  BY ConstantTypes DEF File
<1>1. CASE f.blocks = f.synced
  BY <1>1, Zenon DEF Survivors
<1>2. CASE f.blocks # f.synced
  <2>1. PICK b \in {f.blocks, f.synced, <<Hole>>} : g = Holding(b, b)
    BY <1>2, Zenon DEF Survivors
  <2>2. b \in Seq(Block)
    BY <1>0, <2>1, Zenon
  <2>3. /\ Holding(b, b) \in File /\ Holding(b, b).exists
        /\ Holding(b, b).blocks = b /\ Holding(b, b).synced = b
    BY <2>2, HoldingType, Zenon
  <2>4. g \in File /\ g.exists /\ g.blocks = b /\ g.synced = b
    BY <2>1, <2>3, Zenon
  <2> QED
    BY <2>1, <2>4, Zenon
<1> QED
  BY <1>1, <1>2, Zenon

\* What a machine crash leaves in the place of the checkpoint.
LEMMA CrashShape ==
    ASSUME TypeOK, CrashMachine
    PROVE  \E p \in {"chk", "old"} : \E f \in Survivors(file[p]) :
              /\ p = "old" => ~ dirSynced
              /\ f \in File
              /\ file' = [q \in Places |-> IF q = "chk" THEN f ELSE NoFile]
<1>1. PICK f \in Survivors(file["chk"]) \cup
                 (IF dirSynced THEN {} ELSE Survivors(file["old"])) :
        file' = [q \in Places |-> IF q = "chk" THEN f ELSE NoFile]
  BY Zenon DEF CrashMachine
<1>2. file["chk"] \in File /\ file["old"] \in File
  BY FileFields, Zenon DEF Places
<1>3. CASE f \in Survivors(file["chk"])
  BY <1>1, <1>2, <1>3, SurvivorsType, Zenon
<1>4. CASE ~ dirSynced /\ f \in Survivors(file["old"])
  BY <1>1, <1>2, <1>4, SurvivorsType, Zenon
<1> QED
  BY <1>1, <1>3, <1>4, Zenon

\* Every step keeps the types of the files and handles.
LEMMA DiskTypes ==
    ASSUME TypeOK, [Next]_vars
    PROVE  DiskTypeOK'
<1>0. DiskTypeOK
  BY Zenon DEF TypeOK, DiskTypeOK
<1>1. CASE CheckpointStep
  BY <1>1, CheckpointTypes, Zenon
<1>2. CASE CrashProcess
  BY <1>0, <1>2, ConstantTypes, Zenon DEF CrashProcess, LoseMemory, DiskTypeOK, Places
<1>3. CASE CrashMachine
  <2>1. PICK f \in File : file' = [q \in Places |-> IF q = "chk" THEN f ELSE NoFile]
    BY <1>3, CrashShape, Zenon
  <2>2. file' \in [Places -> File]
    BY <2>1, ConstantTypes, Zenon
  <2> QED
    BY <1>0, <1>3, <2>2, ConstantTypes, Zenon DEF CrashMachine, LoseMemory, DiskTypeOK
<1>4. CASE ColdStarts
  <2>1. UNCHANGED <<diskVars, ck, begun>>
    BY <1>4, ColdStartOpens, Zenon DEF OpensOn
  <2> QED
    BY <1>0, <2>1, Zenon DEF DiskTypeOK, diskVars
<1>5. CASE ~ (CheckpointStep \/ CrashProcess \/ CrashMachine \/ ColdStarts)
  <2>1. UNCHANGED <<diskVars, ck, begun>>
    BY <1>5, Steps, Zenon DEF LogTx, PublishUnlogged, LogTxErr, SyncTx, SyncTxErr,
       dirVars, diskVars, vars
  <2> QED
    BY <1>0, <2>1, Zenon DEF DiskTypeOK, diskVars
<1> QED
  BY <1>1, <1>2, <1>3, <1>4, <1>5, Zenon

\* The rest of the types.
MindTypeOK ==
    /\ up \in BOOLEAN /\ (open => up /\ logFile)
    /\ logFile \in BOOLEAN
    /\ current \in Store
    /\ writing \in Txs \cup {NoTx}
    /\ used \in SUBSET Txs
    /\ acked \in SUBSET Entry /\ saved \in SUBSET Entry /\ offLog \in SUBSET Entry
    /\ spoiled \in BOOLEAN

\* Every step keeps the types of the other variables.
LEMMA MindTypes ==
    ASSUME DirInv, [Next]_vars
    PROVE  MindTypeOK'
<1>0. MindTypeOK /\ TypeOK /\ OrderInv /\ ParseInv
  BY Zenon DEF DirInv, TypeOK, MindTypeOK
<1>1. ASSUME NEW t \in Txs, LogTx(t) PROVE MindTypeOK'
  <2>1. open' = open
    BY <1>1, Zenon DEF LogTx, AppendOk
  <2> QED
    BY <1>0, <1>1, <2>1, Zenon DEF LogTx, MindTypeOK
<1>2. ASSUME NEW t \in Txs, PublishUnlogged(t) PROVE MindTypeOK'
  <2>1. /\ current' \in Store /\ [epoch |-> current'.epoch, tx |-> t] \in Entry
        /\ open' = open
    <3>1. current' \in Store /\ open' = open
      BY <1>0, <1>2, WithType, Zenon DEF PublishUnlogged, MindTypeOK, walVars
    <3>2. current'.epoch \in Nat
      BY <3>1, Zenon DEF Store
    <3> QED
      BY <3>1, <3>2, Zenon DEF Entry
  <2>2. offLog' \in SUBSET Entry
    BY <1>0, <1>2, <2>1, Zenon DEF PublishUnlogged, MindTypeOK
  <2> QED
    BY <1>0, <1>2, <2>1, <2>2, Zenon DEF PublishUnlogged, MindTypeOK
<1>3. CASE LogTxErr
  <2>1. open' = open
    BY <1>3, Zenon DEF LogTxErr, AppendRefused, AppendFailed, walVars
  <2> QED
    BY <1>0, <1>3, <2>1, Zenon DEF LogTxErr, MindTypeOK, dirVars
<1>4. CASE SyncTx
  <2>1. writing \in Txs /\ current \in Store
    BY <1>0, <1>4, Zenon DEF SyncTx, MindTypeOK
  <2>2. current' \in Store /\ acked' \in SUBSET Entry
    <3>1. With(current, writing) \in Store /\ [epoch |-> current.epoch + 1, tx |-> writing] \in Entry
      BY <2>1, WithType, Zenon
    <3> QED
      BY <1>0, <1>4, <3>1, Zenon DEF SyncTx, MindTypeOK
  <2>3. open' = open
    BY <1>4, Zenon DEF SyncTx, FsyncOk
  <2> QED
    BY <1>0, <1>4, <2>2, <2>3, Zenon DEF SyncTx, MindTypeOK
<1>5. CASE SyncTxErr
  <2>1. open' = open
    BY <1>5, Zenon DEF SyncTxErr, FsyncFailed, walVars
  <2> QED
    BY <1>0, <1>5, <2>1, Zenon DEF SyncTxErr, MindTypeOK
<1>6. CASE CheckpointStep
  <2>1. UNCHANGED <<walVars, up, logFile, current, writing, used, acked, offLog>>
    BY <1>6, CheckpointKeeps, Zenon
  <2>2. saved' \in SUBSET Entry
    <3>1. \A c \in Checkpointers : ck[c].store.entries \in SUBSET Entry
      BY <1>0, HandleFields, Zenon DEF Store
    <3> QED
      BY <1>0, <1>6, <3>1, Zenon DEF CheckpointStep, BeginCheckpoint, WriteBlock,
         SyncFile, Rename, SyncDir, CheckpointErr, MindTypeOK
  <2>3. spoiled' \in BOOLEAN
    <3>1. CASE \E c \in Checkpointers : BeginCheckpoint(c)
      BY <1>0, <3>1, BeginShape, Zenon
    <3>2. CASE ~ \E c \in Checkpointers : BeginCheckpoint(c)
      BY <1>0, <1>6, <3>2, Zenon DEF CheckpointStep, WriteBlock, SyncFile, Rename,
         SyncDir, CheckpointErr, MindTypeOK
    <3> QED
      BY <3>1, <3>2, Zenon
  <2> QED
    BY <1>0, <2>1, <2>2, <2>3, Zenon DEF MindTypeOK, walVars
<1>7. CASE CrashProcess \/ CrashMachine
  <2>1. LoseMemory /\ open' = FALSE
    BY <1>0, <1>7, Zenon DEF CrashProcess, CrashMachine, KillProcess, LosePower,
       TypeOK, WalTypeOK
  <2> QED
    BY <1>0, <2>1, ConstantTypes, Zenon DEF LoseMemory, MindTypeOK
<1>8. CASE ColdStarts
  <2>1. PICK s \in Store : OpensOn(s)
    BY <1>0, <1>8, ColdStartOpens, Zenon
  <2>2. current' \in Store
    BY <1>0, <2>1, OpenedStore, Zenon
  <2>3. offLog' \in SUBSET Entry
    BY <1>0, <2>1, <2>2, Zenon DEF OpensOn, MindTypeOK, Store
  <2>4. logFile' \in BOOLEAN /\ (open' => logFile')
    <3>1. ~ open
      BY <1>0, <2>1, Zenon DEF OpensOn, MindTypeOK
    <3>2. CASE logFile
      BY <2>1, <3>2, Zenon DEF OpensOn
    <3>3. CASE ~ logFile
      <4>1. CreateWal \/ UNCHANGED <<walVars, logFile>>
        BY <2>1, <3>3, Zenon DEF OpensOn
      <4>2. CASE CreateWal
        BY <4>2, Zenon DEF CreateWal
      <4>3. CASE UNCHANGED <<walVars, logFile>>
        BY <1>0, <3>1, <4>3, Zenon DEF walVars, MindTypeOK
      <4> QED
        BY <4>1, <4>2, <4>3, Zenon
    <3> QED
      BY <3>2, <3>3, Zenon
  <2> QED
    BY <1>0, <2>1, <2>2, <2>3, <2>4, Zenon DEF OpensOn, MindTypeOK
<1>9. CASE UNCHANGED vars
  BY <1>0, <1>9, Zenon DEF vars, dirVars, walVars, MindTypeOK
<1> QED
  BY <1>1, <1>2, <1>3, <1>4, <1>5, <1>6, <1>7, <1>8, <1>9, Steps, Zenon

\* Every step keeps the frame of the transaction being written.
LEMMA WritingStep ==
    ASSUME DirInv, [Next]_vars
    PROVE  WritingInv'
<1>0. WritingInv /\ TypeOK /\ wal \in Seq(Frame)
  BY Zenon DEF DirInv, TypeOK, WalTypeOK
<1>1. ASSUME NEW t \in Txs, LogTx(t) PROVE WritingInv'
  <2> DEFINE n == current.epoch + 1
  <2>1. n \in Epochs /\ AppendOk(n, t) /\ current' = current /\ writing' = t
    BY <1>1, Zenon DEF LogTx
  <2>2. n \in Nat \ {0}
    BY <2>1, WalAssumption, Zenon
  <2> HIDE DEF n
  <2>3. open' /\ wal' = Append(wal, GoodFrame(n, t))
    BY <2>1, Zenon DEF AppendOk
  <2>4. Len(wal') = Len(wal) + 1 /\ wal'[Len(wal) + 1] = GoodFrame(n, t)
    <3> DEFINE g == GoodFrame(n, t)
    <3>1. g \in Frame
      BY <2>2, GoodFrameType, Zenon
    <3> HIDE DEF g
    <3>2. wal' = Append(wal, g)
      BY <2>3, Zenon DEF g
    <3>3. Len(wal') = Len(wal) + 1 /\ wal'[Len(wal) + 1] = g
      BY <1>0, <3>1, <3>2, Extended, Zenon
    <3> QED
      BY <3>3, Zenon DEF g
  <2>5. Len(wal) \in Nat
    BY <1>0, SeqLen, Zenon
  <2>6. Len(wal') > 0
    BY <2>4, <2>5
  <2>7. wal'[Len(wal')] = GoodFrame(n, t)
    BY <2>4, Zenon
  <2> QED
    BY <2>1, <2>3, <2>6, <2>7, Zenon DEF WritingInv, n
<1>2. CASE writing' = NoTx
  BY <1>2, Zenon DEF WritingInv
<1>3. CASE CheckpointStep \/ UNCHANGED vars
  <2>1. UNCHANGED <<wal, open, current, writing>>
    BY <1>3, CheckpointKeeps, Zenon DEF vars, walVars, dirVars
  <2> QED
    BY <1>0, <2>1, Zenon DEF WritingInv
<1>4. CASE LogTxErr \/ SyncTx \/ SyncTxErr \/ CrashProcess \/ CrashMachine
  <2>1. writing' = NoTx
    BY <1>4, Zenon DEF LogTxErr, SyncTx, SyncTxErr, CrashProcess, CrashMachine,
       LoseMemory, dirVars
  <2> QED
    BY <1>2, <2>1, Zenon
<1>5. CASE ColdStarts \/ \E t \in Txs : PublishUnlogged(t)
  <2>1. ~ open /\ writing' = writing
    BY <1>0, <1>5, ColdStartOpens, Zenon DEF OpensOn, PublishUnlogged, TypeOK
  <2> QED
    BY <1>0, <1>2, <2>1, Zenon DEF WritingInv
<1> QED
  BY <1>1, <1>3, <1>4, <1>5, Steps, Zenon

\* The empty directory.
LEMMA DirInitially ==
    ASSUME Init
    PROVE  DirInv /\ SurvivalInv
<1>0. /\ wal = << >> /\ durable = 0 /\ pending = 0 /\ lastSynced = 0
      /\ open = FALSE /\ confirmed = {} /\ crashes = 0
  BY Zenon DEF Init
<1>1. wal \in Seq(Frame) /\ Len(wal) = 0
  BY <1>0, SeqEmpty, Zenon
<1>2. WalTypeOK /\ OrderInv /\ SurvivalInv
  <2>1. WalTypeOK
    <3>1. 0 \in 0..Len(wal) /\ 0 \in Nat
      BY <1>1
    <3> QED
      BY <1>0, <1>1, <3>1, Zenon DEF WalTypeOK
  <2>2. \A i \in 1..Len(wal) : FALSE
    BY <1>1
  <2> QED
    BY <1>0, <2>1, <2>2, Zenon
    DEF OrderInv, SurvivalInv, EpochsIncrease, Ordered, ConfirmedSurvive
<1>3. LogFileInv /\ WritingInv
  BY Zenon DEF Init, LogFileInv, WritingInv
<1>4. ParseInv
  <2>1. 0 \in 0..Len(wal) /\ ParsedLength(wal, 0)
    BY <1>1 DEF ParsedLength
  <2> QED
    BY <2>1, Zenon DEF ParseInv, Parsed
<1>5. file \in [Places -> File] /\ ck \in [Checkpointers -> Handle] /\ current \in Store
  BY ConstantTypes, Zenon DEF Init
<1>6. begun \in 0..MaxCheckpoints
  BY ColdStartAssumption DEF Init
<1>7. TypeOK
  BY <1>2, <1>5, <1>6, Zenon DEF Init, TypeOK
<1> QED
  BY <1>2, <1>3, <1>4, <1>7, Zenon DEF DirInv

\* One step of the directory keeps its types and its log in order.
LEMMA DirStep ==
    ASSUME DirInv, [Next]_vars
    PROVE  DirInv'
<1>1. TypeOK /\ OrderInv /\ ParseInv /\ LogFileInv
  BY Zenon DEF DirInv
<1>2. LogStep
  BY LogSteps, Zenon
<1>3. OrderInv'
  BY <1>1, <1>2, LogOrder, Zenon
<1>4. DiskTypeOK' /\ MindTypeOK'
  BY <1>1, DiskTypes, MindTypes, Zenon
<1>5. TypeOK'
  BY <1>3, <1>4, Zenon DEF TypeOK, DiskTypeOK, MindTypeOK, OrderInv
<1>6. LogFileInv' /\ WritingInv'
  BY <1>1, LogFileStep, WritingStep, Zenon
<1>7. ParseInv'
  BY <1>1, <1>2, LogParses, Zenon
<1> QED
  BY <1>3, <1>5, <1>6, <1>7, Zenon DEF DirInv

\* A data directory keeps its types, and its log its epochs increasing, through
\* every mixture of commits, checkpoints, crashes and cold starts: every level of
\* the cascade leaves the log with a handle that knows its last epoch.
THEOREM DirectoryTypes == Spec => [](TypeOK /\ EpochsIncrease)
<1>1. Init => DirInv
  BY DirInitially, Zenon
<1>2. DirInv /\ [Next]_vars => DirInv'
  BY DirStep, Zenon
<1>3. DirInv => TypeOK /\ EpochsIncrease
  BY Zenon DEF DirInv, OrderInv
<1> QED
  BY <1>1, <1>2, <1>3, PTL DEF Spec

\* INV-FERR-008 over the life of a directory: as long as a failing write_all
\* leaves no part of a frame behind, what an Ok of fsync() vouched for stays in
\* the part of wal.log that every later cold start reads.
THEOREM DirectoryLogSurvives == ~ TornAppend => (Spec => []ConfirmedSurvive)
<1> SUFFICES ASSUME ~ TornAppend PROVE Spec => []ConfirmedSurvive
  BY Zenon
<1>1. Init => DirInv /\ SurvivalInv
  BY DirInitially, Zenon
<1>2. DirInv /\ SurvivalInv /\ [Next]_vars => DirInv' /\ SurvivalInv'
  BY DirStep, LogSteps, LogSurvival, Zenon DEF DirInv
<1>3. DirInv /\ SurvivalInv => ConfirmedSurvive
  BY Zenon DEF SurvivalInv
<1> QED
  BY <1>1, <1>2, <1>3, PTL DEF Spec

-----------------------------------------------------------------------------
(* The stores that exist anywhere: the published one, those of the running   *)
(* checkpoints and those of the blocks in files, in the page cache or on     *)
(* stable storage.  What holds of them all holds of whatever is ever loaded. *)

StoresOf(blocks) == {blocks[j].store : j \in 1..Len(blocks)}
InFile(f) == StoresOf(f.blocks) \cup StoresOf(f.synced)

Stores ==
    {Genesis, current} \cup {ck[c].store : c \in Checkpointers}
        \cup UNION {InFile(file[p]) : p \in Places}

\* The stores of no blocks, of a hole and of no file.
LEMMA InNoBlocks ==
    StoresOf(<< >>) = {} /\ StoresOf(<<Hole>>) = {Genesis} /\ InFile(NoFile) = {}
<1>1. StoresOf(<< >>) = {}
  <2>1. \A j \in 1..Len(<< >>) : FALSE
    BY SeqEmpty
  <2> QED
    BY <2>1, Zenon DEF StoresOf
<1>2. StoresOf(<<Hole>>) = {Genesis}
  <2>1. Len(<<Hole>>) = 1 /\ <<Hole>>[1] = Hole /\ 1..1 = {1}
    OBVIOUS
  <2>2. Hole.store = Genesis
    BY Zenon DEF Hole
  <2> QED
    BY <2>1, <2>2, Zenon DEF StoresOf
<1>3. NoFile.blocks = << >> /\ NoFile.synced = << >>
  BY Zenon DEF NoFile
<1> QED
  BY <1>1, <1>2, <1>3, Zenon DEF InFile

\* Which stores those are.
LEMMA StoresHeld ==
    /\ Genesis \in Stores /\ current \in Stores
    /\ \A c \in Checkpointers : ck[c].store \in Stores
    /\ \A p \in Places : InFile(file[p]) \subseteq Stores
  BY Zenon DEF Stores

\* They are stores.
LEMMA StoresTyped ==
    ASSUME TypeOK, NEW s \in Stores
    PROVE  s \in Store
<1>1. ASSUME NEW b \in Seq(Block), NEW j \in 1..Len(b) PROVE b[j].store \in Store
  <2>1. b[j] \in Block
    BY SeqElement, Zenon
  <2> QED
    BY <2>1, Zenon DEF Block
<1>2. \A b \in Seq(Block) : StoresOf(b) \subseteq Store
  BY <1>1, Zenon DEF StoresOf
<1>3. \A p \in Places : InFile(file[p]) \subseteq Store
  BY <1>2, FileFields, Zenon DEF InFile
<1>4. \A c \in Checkpointers : ck[c].store \in Store
  BY HandleFields, Zenon
<1>5. Genesis \in Store /\ current \in Store
  BY ConstantTypes, Zenon DEF TypeOK
<1> QED
  BY <1>3, <1>4, <1>5, Zenon DEF Stores

\* It is enough to follow the handles and the files.
LEMMA StoresWithin ==
    ASSUME \A c \in Checkpointers : ck'[c].store \in Stores,
           \A p \in Places : InFile(file'[p]) \subseteq Stores
    PROVE  Stores' \subseteq Stores \cup {current'}
<1>1. ASSUME NEW s \in Stores' PROVE s \in Stores \/ s = current'
  <2>1. CASE s = Genesis
    BY <2>1, StoresHeld, Zenon
  <2>2. CASE \E c \in Checkpointers : s = ck'[c].store
    BY <2>2, Zenon
  <2>3. CASE \E p \in Places : s \in InFile(file'[p])
    BY <2>3, Zenon
  <2> QED
    BY <1>1, <2>1, <2>2, <2>3, Zenon DEF Stores, InFile, StoresOf
<1> QED
  BY <1>1, Zenon

\* A step of a checkpoint brings in no store but the published one.
LEMMA StoresCheckpoint ==
    ASSUME TypeOK, CheckpointStep
    PROVE  Stores' \subseteq Stores \cup {current'}
<1>0. /\ file \in [Places -> File] /\ ck \in [Checkpointers -> Handle]
  BY Zenon DEF TypeOK
<1>1. ASSUME NEW c \in Checkpointers, BeginCheckpoint(c)
      PROVE  Stores' \subseteq Stores \cup {current'}
  <2>1. PICK i \in BOOLEAN, p \in Places :
          /\ ck' = [ck EXCEPT ![c] = [step |-> "write", at |-> p, inPlace |-> i,
                                      pos |-> 0, store |-> current]]
          /\ file' = [file EXCEPT ![p] = Emptied(file[p])]
    BY <1>1, BeginShape, Zenon
  <2>2. \A d \in Checkpointers : ck'[d].store \in Stores
    <3> TAKE d \in Checkpointers
    <3>1. CASE d = c
      <4>1. ck'[d].store = current
        BY <1>0, <2>1, <3>1
      <4> QED
        BY <4>1, StoresHeld, Zenon
    <3>2. CASE d # c
      <4>1. ck'[d] = ck[d]
        BY <1>0, <2>1, <3>2, Zenon
      <4> QED
        BY <4>1, StoresHeld, Zenon
    <3> QED
      BY <3>1, <3>2, Zenon
  <2>3. InFile(Emptied(file[p])) \subseteq InFile(file[p])
    <3>1. file[p] \in File
      BY <1>0, Zenon
    <3> QED
      BY <3>1, EmptiedType, InNoBlocks, Zenon DEF InFile
  <2>4. \A q \in Places : file'[q] = IF q = p THEN Emptied(file[p]) ELSE file[q]
    BY <1>0, <2>1, Zenon
  <2>5. \A q \in Places : InFile(file'[q]) \subseteq Stores
    BY <2>3, <2>4, StoresHeld, Zenon
  <2> QED
    BY <2>2, <2>5, StoresWithin, Zenon
<1>2. ASSUME NEW c \in Checkpointers, WriteBlock(c)
      PROVE  Stores' \subseteq Stores \cup {current'}
  <2>1. \A d \in Checkpointers : ck'[d].store = ck[d].store
    <3>1. ck'  = [ck EXCEPT ![c].pos = ck[c].pos + 1]
      BY <1>2, WriteShape, Zenon
    <3> QED
      BY <1>0, <3>1 DEF Handle
  <2>2. \A d \in Checkpointers : ck'[d].store \in Stores
    BY <2>1, StoresHeld, Zenon
  <2>3. CASE ck[c].at = "gone"
    BY <1>2, <2>2, <2>3, WriteShape, StoresWithin, StoresHeld, Zenon
  <2>4. CASE ck[c].at # "gone"
    <3> DEFINE p == ck[c].at
    <3>1. p \in Places /\ file' = [file EXCEPT ![p].blocks = WithBlock(c)]
      BY <1>2, <2>4, WriteShape, HandleFields, Zenon
    <3>2. \A j \in 1..Len(WithBlock(c)) : WithBlock(c)[j].store \in Stores
      <4>1. ASSUME NEW j \in 1..Len(WithBlock(c))
            PROVE  \/ WithBlock(c)[j] = NextBlock(c)
                   \/ WithBlock(c)[j] = Hole
                   \/ j \in 1..Len(file[p].blocks) /\ WithBlock(c)[j] = file[p].blocks[j]
        BY <1>2, <2>4, WithBlockType, Zenon DEF WriteBlock
      <4>2. NextBlock(c).store \in Stores
        BY <1>2, <2>4, WithBlockType, StoresHeld, Zenon DEF WriteBlock
      <4>3. Hole.store \in Stores
        BY StoresHeld, Zenon DEF Hole
      <4>4. \A j \in 1..Len(file[p].blocks) : file[p].blocks[j].store \in Stores
        BY <3>1, StoresHeld, Zenon DEF InFile, StoresOf
      <4> HIDE DEF p
      <4> QED
        BY <4>1, <4>2, <4>3, <4>4, Zenon
    <3>3. StoresOf(WithBlock(c)) \subseteq Stores
      BY <3>2, Zenon DEF StoresOf
    <3> HIDE DEF p
    <3>4. file'[p].blocks = WithBlock(c) /\ file'[p].synced = file[p].synced
      BY <1>0, <3>1 DEF File
    <3>5. \A q \in Places : q # p => file'[q] = file[q]
      BY <1>0, <3>1, Zenon
    <3>6. \A q \in Places : InFile(file'[q]) \subseteq Stores
      <4> TAKE q \in Places
      <4>1. CASE q = p
        <5>1. StoresOf(file[p].synced) \subseteq Stores
          BY <3>1, StoresHeld, Zenon DEF InFile
        <5> QED
          BY <3>3, <3>4, <4>1, <5>1, Zenon DEF InFile
      <4>2. CASE q # p
        BY <3>5, <4>2, StoresHeld, Zenon
      <4> QED
        BY <4>1, <4>2, Zenon
    <3> QED
      BY <2>2, <3>6, StoresWithin, Zenon
  <2> QED
    BY <2>3, <2>4, Zenon
<1>3. ASSUME NEW c \in Checkpointers, SyncFile(c)
      PROVE  Stores' \subseteq Stores \cup {current'}
  <2>1. \A d \in Checkpointers : ck'[d].store \in Stores
    <3>1. \A d \in Checkpointers : ck'[d] = NoCk \/ ck'[d].store = ck[d].store
      BY <1>0, <1>3 DEF SyncFile, Handle
    <3>2. NoCk.store = Genesis
      BY Zenon DEF NoCk
    <3> QED
      BY <3>1, <3>2, StoresHeld, Zenon
  <2>2. CASE file' = file
    BY <2>1, <2>2, StoresWithin, StoresHeld, Zenon
  <2>3. CASE file' # file
    <3> DEFINE p == ck[c].at
    <3>1. p \in Places /\ file' = [file EXCEPT ![p].synced = file[p].blocks]
      BY <1>3, <2>3, HandleFields, Zenon DEF SyncFile
    <3> HIDE DEF p
    <3>2. file'[p].blocks = file[p].blocks /\ file'[p].synced = file[p].blocks
      BY <1>0, <3>1 DEF File
    <3>3. \A q \in Places : q # p => file'[q] = file[q]
      BY <1>0, <3>1, Zenon
    <3>4. InFile(file'[p]) \subseteq InFile(file[p])
      BY <3>2, Zenon DEF InFile
    <3>5. \A q \in Places : InFile(file'[q]) \subseteq Stores
      BY <3>3, <3>4, StoresHeld, Zenon
    <3> QED
      BY <2>1, <3>5, StoresWithin, Zenon
  <2> QED
    BY <2>2, <2>3, Zenon
<1>4. ASSUME NEW c \in Checkpointers, Rename(c)
      PROVE  Stores' \subseteq Stores \cup {current'}
  <2>1. CASE ~ file["tmp"].exists
    <3>1. ck' = [ck EXCEPT ![c] = NoCk] /\ file' = file
      BY <1>4, <2>1, RenameShape, Zenon DEF diskVars
    <3>2. \A d \in Checkpointers : ck'[d] = NoCk \/ ck'[d] = ck[d]
      BY <1>0, <3>1, Zenon
    <3>3. NoCk.store = Genesis
      BY Zenon DEF NoCk
    <3> QED
      BY <3>1, <3>2, <3>3, StoresWithin, StoresHeld, Zenon
  <2>2. CASE file["tmp"].exists
    <3>1. PICK keep \in BOOLEAN :
            /\ ck' = [Carried(keep) EXCEPT ![c].step = "syncdir"]
            /\ file' = Renamed(keep)
      BY <1>4, <2>2, RenameShape, Zenon
    <3>2. Carried(keep) \in [Checkpointers -> Handle] /\ SameBut(Carried(keep), ck)
      BY CarriedHandles, Zenon
    <3>3. \A d \in Checkpointers : ck'[d].store = Carried(keep)[d].store
      BY <3>1, <3>2 DEF Handle
    <3>4. \A d \in Checkpointers : ck'[d].store \in Stores
      BY <3>2, <3>3, StoresHeld, Zenon DEF SameBut
    <3>5. \A q \in Places : file'[q] = NoFile \/ \E p \in Places : file'[q] = file[p]
      BY <3>1, RenamedFiles, Zenon DEF Places
    <3>6. \A q \in Places : InFile(file'[q]) \subseteq Stores
      BY <3>5, InNoBlocks, StoresHeld, Zenon
    <3> QED
      BY <3>4, <3>6, StoresWithin, Zenon
  <2> QED
    BY <2>1, <2>2, Zenon
<1>5. ASSUME NEW c \in Checkpointers, SyncDir(c)
      PROVE  Stores' \subseteq Stores \cup {current'}
  <2> DEFINE m == Moved(ck, "old", "gone")
  <2>1. m \in [Checkpointers -> Handle] /\ SameBut(m, ck)
    BY <1>0, MovedType
  <2>2. ck' = [m EXCEPT ![c] = NoCk] /\ file' = [file EXCEPT !["old"] = NoFile]
    BY <1>5, Zenon DEF SyncDir
  <2> HIDE DEF m
  <2>3. \A d \in Checkpointers : ck'[d] = NoCk \/ ck'[d] = m[d]
    BY <2>1, <2>2, Zenon
  <2>4. NoCk.store = Genesis
    BY Zenon DEF NoCk
  <2>5. \A d \in Checkpointers : ck'[d].store \in Stores
    BY <2>1, <2>3, <2>4, StoresHeld, Zenon DEF SameBut
  <2>6. \A q \in Places : file'[q] = NoFile \/ file'[q] = file[q]
    BY <1>0, <2>2, Zenon
  <2>7. \A q \in Places : InFile(file'[q]) \subseteq Stores
    BY <2>6, InNoBlocks, StoresHeld, Zenon
  <2> QED
    BY <2>5, <2>7, StoresWithin, Zenon
<1>6. ASSUME NEW c \in Checkpointers, CheckpointErr(c)
      PROVE  Stores' \subseteq Stores \cup {current'}
  <2>1. ck' = [ck EXCEPT ![c] = NoCk] /\ file' = file
    BY <1>6, Zenon DEF CheckpointErr, diskVars
  <2>2. \A d \in Checkpointers : ck'[d] = NoCk \/ ck'[d] = ck[d]
    BY <1>0, <2>1, Zenon
  <2>3. NoCk.store = Genesis
    BY Zenon DEF NoCk
  <2> QED
    BY <2>1, <2>2, <2>3, StoresWithin, StoresHeld, Zenon
<1> QED
  BY <1>1, <1>2, <1>3, <1>4, <1>5, <1>6, Zenon DEF CheckpointStep

\* No step brings in a store but the one it publishes.
LEMMA StoresStep ==
    ASSUME TypeOK, [Next]_vars
    PROVE  Stores' \subseteq Stores \cup {current'}
<1>0. file \in [Places -> File] /\ NoCk.store = Genesis
  BY Zenon DEF TypeOK, NoCk
<1>1. CASE CheckpointStep
  BY <1>1, StoresCheckpoint, Zenon
<1>2. CASE CrashProcess \/ CrashMachine
  <2>1. \A c \in Checkpointers : ck'[c].store \in Stores
    <3>1. ck' = [c \in Checkpointers |-> NoCk]
      BY <1>2, Zenon DEF CrashProcess, CrashMachine, LoseMemory
    <3> QED
      BY <1>0, <3>1, StoresHeld, Zenon
  <2>2. CASE CrashProcess
    <3>1. \A q \in Places : file'[q] = NoFile \/ file'[q] = file[q]
      BY <1>0, <2>2, Zenon DEF CrashProcess
    <3>2. \A q \in Places : InFile(file'[q]) \subseteq Stores
      BY <3>1, InNoBlocks, StoresHeld, Zenon
    <3> QED
      BY <2>1, <3>2, StoresWithin, Zenon
  <2>3. CASE CrashMachine
    <3>1. PICK p \in {"chk", "old"} : \E f \in Survivors(file[p]) :
             file' = [q \in Places |-> IF q = "chk" THEN f ELSE NoFile]
      BY <2>3, CrashShape, Zenon
    <3>2. PICK f \in Survivors(file[p]) :
             file' = [q \in Places |-> IF q = "chk" THEN f ELSE NoFile]
      BY <3>1, Zenon
    <3>3. p \in Places /\ file[p] \in File
      BY <1>0, <3>1, Zenon DEF Places
    <3>4. \/ f = file[p]
          \/ /\ f.blocks = f.synced
             /\ f.blocks \in {file[p].blocks, file[p].synced, <<Hole>>}
      BY <3>2, <3>3, SurvivorsType, Zenon
    <3>5. InFile(f) \subseteq InFile(file[p]) \cup {Genesis}
      BY <3>4, InNoBlocks, Zenon DEF InFile
    <3>6. \A q \in Places : file'[q] = NoFile \/ file'[q] = f
      BY <3>2, Zenon
    <3>7. \A q \in Places : InFile(file'[q]) \subseteq Stores
      BY <3>3, <3>5, <3>6, InNoBlocks, StoresHeld, Zenon
    <3> QED
      BY <2>1, <3>7, StoresWithin, Zenon
  <2> QED
    BY <1>2, <2>2, <2>3, Zenon
<1>3. CASE ~ (CheckpointStep \/ CrashProcess \/ CrashMachine)
  <2>1. UNCHANGED <<file, ck>>
    <3>1. CASE ColdStarts
      BY <3>1, ColdStartOpens, Zenon DEF OpensOn, diskVars
    <3>2. CASE ~ ColdStarts
      BY <1>3, <3>2, Steps, Zenon DEF LogTx, PublishUnlogged, LogTxErr, SyncTx,
         SyncTxErr, dirVars, diskVars, vars
    <3> QED
      BY <3>1, <3>2, Zenon
  <2> QED
    BY <2>1, StoresWithin, StoresHeld, Zenon
<1> QED
  BY <1>1, <1>2, <1>3, Zenon

-----------------------------------------------------------------------------
(* One history.  A transaction is given one epoch, ever: E[t].  The log and  *)
(* all stores agree with that, so the replay of one onto another does too.   *)

\* A store that agrees with E has one transaction of U for an epoch, and
\* none for an epoch above its own.
Agrees(s, E, U) ==
    /\ \A e \in s.entries : e.tx \in U /\ e.epoch = E[e.tx] /\ e.epoch <= s.epoch
    /\ \A d, e \in s.entries : d.epoch = e.epoch => d.tx = e.tx

LogAgrees(w, E, U) ==
    \A i \in 1..Len(w) : w[i].ok => w[i].tx \in U /\ w[i].epoch = E[w[i].tx]

HistoryInv ==
    \E E \in [Txs -> Nat] :
        LogAgrees(wal, E, used) /\ \A s \in Stores : Agrees(s, E, used)

\* Replay keeps agreement.
LEMMA ReplayAgrees ==
    ASSUME DirInv, NEW E \in [Txs -> Nat], NEW U, LogAgrees(wal, E, U),
           NEW s \in Store, Agrees(s, E, U), NEW r, Replayed(s, r)
    PROVE  Agrees(r, E, U)
<1>0. /\ wal \in Seq(Frame) /\ Ordered(wal) /\ s.epoch \in Nat /\ r \in Store
      /\ s.entries \subseteq Entry /\ r.entries \subseteq Entry /\ r.epoch \in Nat
      /\ s.epoch <= r.epoch
  BY Zenon DEF DirInv, OrderInv, WalTypeOK, EpochsIncrease, Store, Replayed
<1>1. \A i \in 1..Len(wal) : Readable(wal, i) =>
         wal[i] \in Frame /\ wal[i].ok /\ wal[i].epoch \in Nat
           /\ EntryOf(wal[i]).epoch = wal[i].epoch /\ EntryOf(wal[i]).tx = wal[i].tx
  <2> SUFFICES ASSUME NEW i \in 1..Len(wal), Readable(wal, i)
               PROVE  wal[i] \in Frame /\ wal[i].ok
    BY FrameFields, FrameEntry, Zenon
  <2>1. i \in 1..i
    BY <1>0, SeqLen
  <2> QED
    BY <1>0, <2>1, SeqElement, Zenon DEF Readable
<1>2. ASSUME NEW e \in r.entries, e \notin s.entries
      PROVE  \E i \in 1..Len(wal) :
                Readable(wal, i) /\ s.epoch < wal[i].epoch /\ e = EntryOf(wal[i])
  BY <1>2, Zenon DEF Replayed
<1>3. ASSUME NEW e \in r.entries
      PROVE  e.tx \in U /\ e.epoch = E[e.tx] /\ e.epoch <= r.epoch
  <2>1. CASE e \in s.entries
    <3>1. e.tx \in U /\ e.epoch = E[e.tx] /\ e.epoch <= s.epoch /\ e.epoch \in Nat
      BY <1>0, <2>1, Zenon DEF Agrees, Entry
    <3> QED
      BY <1>0, <3>1
  <2>2. CASE e \notin s.entries
    <3>1. PICK i \in 1..Len(wal) :
             Readable(wal, i) /\ s.epoch < wal[i].epoch /\ e = EntryOf(wal[i])
      BY <1>2, <2>2, Zenon
    <3>2. wal[i].epoch <= r.epoch
      BY <3>1, Zenon DEF Replayed
    <3> QED
      BY <1>1, <3>1, <3>2, Zenon DEF LogAgrees
  <2> QED
    BY <2>1, <2>2, Zenon
<1>4. ASSUME NEW d \in r.entries, NEW e \in r.entries, d.epoch = e.epoch
      PROVE  d.tx = e.tx
  <2>1. CASE d \in s.entries /\ e \in s.entries
    BY <1>4, <2>1, Zenon DEF Agrees
  <2>2. ASSUME NEW x \in r.entries, NEW y \in r.entries, x \in s.entries,
               y \notin s.entries
        PROVE  x.epoch # y.epoch
    <3>1. PICK i \in 1..Len(wal) :
             Readable(wal, i) /\ s.epoch < wal[i].epoch /\ y = EntryOf(wal[i])
      BY <1>2, <2>2, Zenon
    <3>2. x.epoch <= s.epoch /\ x.epoch \in Nat
      BY <1>0, <2>2, Zenon DEF Agrees, Entry
    <3>3. y.epoch = wal[i].epoch /\ wal[i].epoch \in Nat
      BY <1>1, <3>1, Zenon
    <3> QED
      BY <1>0, <3>1, <3>2, <3>3
  <2>3. CASE d \notin s.entries /\ e \notin s.entries
    <3>1. PICK i \in 1..Len(wal) : Readable(wal, i) /\ d = EntryOf(wal[i])
      BY <1>2, <2>3, Zenon
    <3>2. PICK j \in 1..Len(wal) : Readable(wal, j) /\ e = EntryOf(wal[j])
      BY <1>2, <2>3, Zenon
    <3>3. /\ wal[i].epoch = wal[j].epoch /\ wal[i].epoch \in Nat /\ wal[j].epoch \in Nat
          /\ wal[i].ok /\ wal[j].ok
      BY <1>1, <1>4, <3>1, <3>2, Zenon
    <3>4. ~ (i < j) /\ ~ (j < i)
      <4>1. i < j => wal[i].epoch < wal[j].epoch
        BY <1>0, <3>3, Zenon DEF Ordered
      <4>2. j < i => wal[j].epoch < wal[i].epoch
        BY <1>0, <3>3, Zenon DEF Ordered
      <4> QED
        BY <3>3, <4>1, <4>2
    <3>5. i = j
      BY <1>0, <3>4, SeqLen
    <3> QED
      BY <3>1, <3>2, <3>5, Zenon
  <2> QED
    BY <1>4, <2>1, <2>2, <2>3, Zenon
<1> QED
  BY <1>3, <1>4, Zenon DEF Agrees

\* Agreement outlives more transactions and their epochs.
LEMMA StillAgrees ==
    ASSUME NEW E \in [Txs -> Nat], NEW F \in [Txs -> Nat], NEW U, NEW V,
           U \subseteq V, \A t \in U : F[t] = E[t], NEW s, Agrees(s, E, U)
    PROVE  Agrees(s, F, V)
  BY Zenon DEF Agrees

\* A store with the next transaction.
LEMMA WithAgrees ==
    ASSUME NEW E \in [Txs -> Nat], NEW U, NEW s \in Store, Agrees(s, E, U),
           NEW t \in Txs, t \in U, E[t] = s.epoch + 1
    PROVE  Agrees(With(s, t), E, U)
<1> DEFINE n == s.epoch + 1
           x == [epoch |-> n, tx |-> t]
           w == With(s, t)
<1>0. s.epoch \in Nat /\ s.entries \subseteq Entry
  BY Zenon DEF Store
<1>1. w.epoch = n /\ w.entries = s.entries \cup {x}
  BY WithType, Zenon
<1>2. x.epoch = n /\ x.tx = t
  BY Zenon
<1> HIDE DEF x, w
<1>3. ASSUME NEW e \in s.entries PROVE e.epoch <= s.epoch /\ e.epoch \in Nat
  BY <1>0, Zenon DEF Agrees, Entry
<1>4. \A e \in s.entries : e.epoch <= n /\ e.epoch # n
  BY <1>0, <1>3
<1>5. n <= n
  BY <1>0
<1> HIDE DEF n
<1>6. ASSUME NEW e \in w.entries
      PROVE  e.tx \in U /\ e.epoch = E[e.tx] /\ e.epoch <= w.epoch
  BY <1>1, <1>2, <1>4, <1>5, Zenon DEF Agrees, n
<1>7. ASSUME NEW d \in w.entries, NEW e \in w.entries, d.epoch = e.epoch
      PROVE  d.tx = e.tx
  BY <1>1, <1>2, <1>4, <1>7, Zenon DEF Agrees
<1> QED
  BY <1>6, <1>7, Zenon DEF Agrees, w

\* Most steps leave the log, a prefix of it, or that and a torn frame.
LogKept == wal' = wal \/ wal' = Append(wal, Torn) \/ LosePower \/ RecoverWal

\* Such a log agrees with the same epochs.
LEMMA LogStillAgrees ==
    ASSUME OrderInv, NEW E \in [Txs -> Nat], NEW U, LogAgrees(wal, E, U), LogKept
    PROVE  LogAgrees(wal', E, U)
<1>0. wal \in Seq(Frame) /\ Len(wal) \in Nat /\ durable \in 0..Len(wal)
  BY SeqLen, Zenon DEF OrderInv, WalTypeOK
<1>1. CASE wal' = wal
  BY <1>1, Zenon
<1>2. ASSUME NEW w \in Seq(Frame), LogAgrees(w, E, U)
      PROVE  LogAgrees(Append(w, Torn), E, U)
  <2>1. /\ Len(Append(w, Torn)) = Len(w) + 1
        /\ \A i \in 1..Len(w) : Append(w, Torn)[i] = w[i]
        /\ ~ Append(w, Torn)[Len(w) + 1].ok
    BY Extended, TornType, Zenon
  <2>2. Len(w) \in Nat
    BY SeqLen, Zenon
  <2>3. \A i \in 1..(Len(w) + 1) : i \in 1..Len(w) \/ i = Len(w) + 1
    BY <2>2
  <2> QED
    BY <1>2, <2>1, <2>3, Zenon DEF LogAgrees
<1>3. ASSUME NEW k \in 0..Len(wal)
      PROVE  SubSeq(wal, 1, k) \in Seq(Frame) /\ LogAgrees(SubSeq(wal, 1, k), E, U)
  <2>1. /\ SubSeq(wal, 1, k) \in Seq(Frame) /\ Len(SubSeq(wal, 1, k)) = k
        /\ \A i \in 1..k : SubSeq(wal, 1, k)[i] = wal[i]
    BY <1>0, Prefix, Zenon
  <2>2. \A i \in 1..k : i \in 1..Len(wal)
    BY <1>0
  <2> QED
    BY <2>1, <2>2, Zenon DEF LogAgrees
<1>4. CASE wal' = Append(wal, Torn)
  BY <1>0, <1>2, <1>4, Zenon
<1>5. CASE LosePower
  <2>1. PICK k \in durable..Len(wal) :
          wal' \in {SubSeq(wal, 1, k), Append(SubSeq(wal, 1, k), Torn)}
    BY <1>5, Zenon DEF LosePower
  <2>2. k \in 0..Len(wal)
    BY <1>0
  <2>3. SubSeq(wal, 1, k) \in Seq(Frame) /\ LogAgrees(SubSeq(wal, 1, k), E, U)
    BY <1>3, <2>2, Zenon
  <2> QED
    BY <1>2, <2>1, <2>3, Zenon
<1>6. CASE RecoverWal
  <2>1. PICK k \in 0..Len(wal) : wal' = SubSeq(wal, 1, k)
    BY <1>6, Zenon DEF RecoverWal
  <2> QED
    BY <1>3, <2>1, Zenon
<1> QED
  BY <1>1, <1>4, <1>5, <1>6, Zenon DEF LogKept

\* A new transaction gets its epoch; every other step keeps the epochs.
LEMMA HistoryStep ==
    ASSUME DirInv, HistoryInv, [Next]_vars
    PROVE  HistoryInv'
<1>1. PICK E \in [Txs -> Nat] :
        LogAgrees(wal, E, used) /\ \A s \in Stores : Agrees(s, E, used)
  BY Zenon DEF HistoryInv
<1>2. /\ TypeOK /\ OrderInv /\ ParseInv /\ used \subseteq Txs /\ current \in Store
      /\ wal \in Seq(Frame) /\ current.epoch \in Nat
  BY Zenon DEF DirInv, TypeOK, WalTypeOK, Store
<1>3. Agrees(current, E, used) /\ Agrees(Genesis, E, used)
  BY <1>1, StoresHeld, Zenon
<1>4. ASSUME NEW F \in [Txs -> Nat], used \subseteq used', \A t \in used : F[t] = E[t],
             LogAgrees(wal', F, used'), Agrees(current', F, used')
      PROVE  HistoryInv'
  <2>1. ASSUME NEW s \in Stores' PROVE Agrees(s, F, used')
    <3>1. CASE s \in Stores
      <4>1. Agrees(s, E, used)
        BY <1>1, <3>1, Zenon
      <4> QED
        BY <1>4, <4>1, StillAgrees, Zenon
    <3>2. CASE s = current'
      BY <1>4, <3>2, Zenon
    <3> QED
      BY <1>2, <3>1, <3>2, StoresStep, Zenon
  <2> QED
    BY <1>4, <2>1, Zenon DEF HistoryInv
<1>5. ASSUME UNCHANGED used, LogKept, Agrees(current', E, used)
      PROVE  HistoryInv'
  <2>1. LogAgrees(wal', E, used)
    BY <1>1, <1>2, <1>5, LogStillAgrees, Zenon
  <2> QED
    BY <1>4, <1>5, <2>1, Zenon
<1>6. ASSUME NEW t \in Txs, LogTx(t) \/ PublishUnlogged(t)
      PROVE  HistoryInv'
  <2> DEFINE n == current.epoch + 1
             F == [E EXCEPT ![t] = n]
  <2>1. n \in Nat \ {0} /\ n \in Nat
    BY <1>2
  <2>2. F \in [Txs -> Nat] /\ F[t] = n /\ \A u \in Txs : u # t => F[u] = E[u]
    BY <2>1, Zenon
  <2>3. t \notin used /\ used' = used \cup {t}
    BY <1>6, Zenon DEF LogTx, PublishUnlogged
  <2> HIDE DEF F
  <2>4. \A u \in used : F[u] = E[u]
    BY <1>2, <2>2, <2>3, Zenon
  <2>5. Agrees(current, F, used')
    BY <1>3, <2>2, <2>3, <2>4, StillAgrees, Zenon
  <2>6. LogAgrees(wal, F, used')
    BY <1>1, <2>3, <2>4, Zenon DEF LogAgrees
  <2>7. CASE LogTx(t)
    <3>1. wal' = Append(wal, GoodFrame(n, t)) /\ current' = current
      BY <2>7, Zenon DEF LogTx, AppendOk
    <3>2. /\ GoodFrame(n, t) \in Frame
          /\ GoodFrame(n, t).epoch = n /\ GoodFrame(n, t).tx = t
      BY <2>1, GoodFrameType, Zenon
    <3> HIDE DEF n
    <3>3. /\ Len(wal') = Len(wal) + 1
          /\ \A i \in 1..Len(wal) : wal'[i] = wal[i]
          /\ wal'[Len(wal) + 1] = GoodFrame(n, t)
      BY <1>2, <3>1, <3>2, Extended, Zenon
    <3>4. \A i \in 1..Len(wal') : i \in 1..Len(wal) \/ i = Len(wal) + 1
      BY <1>2, <3>3, SeqLen
    <3>5. ASSUME NEW i \in 1..Len(wal'), wal'[i].ok
          PROVE  wal'[i].tx \in used' /\ wal'[i].epoch = F[wal'[i].tx]
      <4>1. CASE i \in 1..Len(wal)
        <5>1. wal'[i] = wal[i]
          BY <3>3, <4>1, Zenon
        <5> QED
          BY <2>6, <3>5, <4>1, <5>1, Zenon DEF LogAgrees
      <4>2. CASE i = Len(wal) + 1
        <5>1. wal'[i].epoch = n /\ wal'[i].tx = t
          BY <3>2, <3>3, <4>2, Zenon
        <5> QED
          BY <2>2, <2>3, <5>1, Zenon DEF n
      <4> QED
        BY <3>4, <4>1, <4>2, Zenon
    <3>6. LogAgrees(wal', F, used')
      BY <3>5, Zenon DEF LogAgrees
    <3> QED
      BY <1>4, <2>2, <2>3, <2>4, <2>5, <3>1, <3>6, Zenon
  <2>8. CASE PublishUnlogged(t)
    <3>1. wal' = wal /\ current' = With(current, t)
      BY <2>8, Zenon DEF PublishUnlogged, walVars
    <3>2. Agrees(With(current, t), F, used')
      BY <1>2, <2>2, <2>3, <2>5, WithAgrees, Zenon
    <3> QED
      BY <1>4, <2>2, <2>3, <2>4, <2>6, <3>1, <3>2, Zenon
  <2> QED
    BY <1>6, <2>7, <2>8, Zenon
<1>7. CASE SyncTx
  <2>1. /\ writing # NoTx /\ UNCHANGED <<wal, used>> /\ current' = With(current, writing)
    BY <1>7, Zenon DEF SyncTx, FsyncOk
  <2>2. writing \in Txs
    BY <1>2, <2>1, Zenon DEF TypeOK
  <2>3. Len(wal) > 0 /\ wal[Len(wal)] = GoodFrame(current.epoch + 1, writing)
    BY <2>1, Zenon DEF DirInv, WritingInv
  <2>4. Len(wal) \in 1..Len(wal) /\ current.epoch + 1 \in Nat \ {0}
    BY <1>2, <2>3, SeqLen
  <2>5. writing \in used /\ E[writing] = current.epoch + 1
    <3> DEFINE f == GoodFrame(current.epoch + 1, writing)
    <3>1. f.ok /\ f.epoch = current.epoch + 1 /\ f.tx = writing
      BY <2>2, <2>4, GoodFrameType, Zenon
    <3>2. wal[Len(wal)] = f
      BY <2>3, Zenon
    <3> HIDE DEF f
    <3>3. f.tx \in used /\ f.epoch = E[f.tx]
      BY <1>1, <2>4, <3>1, <3>2, Zenon DEF LogAgrees
    <3> QED
      BY <3>1, <3>3, Zenon
  <2>6. Agrees(With(current, writing), E, used)
    BY <1>2, <1>3, <2>2, <2>5, WithAgrees, Zenon
  <2> QED
    BY <1>5, <2>1, <2>6, Zenon DEF LogKept
<1>8. CASE ColdStarts
  <2>1. PICK s \in Store : OpensOn(s)
    BY <1>2, <1>8, ColdStartOpens, Zenon
  <2>2. UNCHANGED used
    BY <2>1, Zenon DEF OpensOn
  <2>3. LogKept
    BY <2>1, Zenon DEF OpensOn, LogKept, CreateWal, walVars
  <2>4. s \in Stores
    <3>1. CASE s = Genesis
      BY <3>1, StoresHeld, Zenon
    <3>2. CASE Loadable /\ s = Loaded
      <4>1. 1 \in 1..Len(file["chk"].blocks)
        BY <1>2, <3>2, LoadedType, Zenon
      <4>2. s \in InFile(file["chk"])
        BY <3>2, <4>1, Zenon DEF Loaded, InFile, StoresOf
      <4> QED
        BY <4>2, StoresHeld, Zenon DEF Places
    <3> QED
      BY <2>1, <3>1, <3>2, Zenon DEF OpensOn
  <2>5. Agrees(s, E, used)
    BY <1>1, <2>4, Zenon
  <2>6. Agrees(Replay(s), E, used)
    <3>1. Replayed(s, Replay(s))
      BY <1>2, ReplayExact, Zenon DEF OrderInv, EpochsIncrease
    <3> QED
      BY <1>1, <2>5, <3>1, ReplayAgrees, Zenon
  <2>7. current' = Replay(s) \/ current' = s
    BY <2>1, Zenon DEF OpensOn
  <2> QED
    BY <1>5, <2>2, <2>3, <2>5, <2>6, <2>7, Zenon
<1>9. CASE \/ LogTxErr \/ SyncTxErr \/ CheckpointStep \/ CrashProcess \/ CrashMachine
           \/ UNCHANGED vars
  <2>1. UNCHANGED used
    BY <1>9, CheckpointKeeps, Zenon DEF LogTxErr, SyncTxErr, CrashProcess, CrashMachine,
       LoseMemory, vars, dirVars
  <2>2. current' = current \/ current' = Genesis
    BY <1>9, CheckpointKeeps, Zenon DEF LogTxErr, SyncTxErr, CrashProcess, CrashMachine,
       LoseMemory, vars, dirVars
  <2>3. LogKept
    BY <1>9, CheckpointKeeps, Zenon DEF LogTxErr, SyncTxErr, CrashProcess, CrashMachine,
       vars, walVars, AppendRefused, AppendFailed, FsyncFailed, KillProcess, LogKept
  <2> QED
    BY <1>3, <1>5, <2>1, <2>2, <2>3, Zenon
<1> QED
  BY <1>6, <1>7, <1>8, <1>9, Steps, Zenon

\* At the start there is nothing to disagree.
LEMMA HistoryInitially ==
    ASSUME Init
    PROVE  HistoryInv
<1> DEFINE E == [t \in Txs |-> 0]
<1>1. E \in [Txs -> Nat]
  OBVIOUS
<1> HIDE DEF E
<1>2. LogAgrees(wal, E, used)
  <2>1. \A i \in 1..Len(wal) : FALSE
    BY SeqEmpty DEF Init
  <2> QED
    BY <2>1, Zenon DEF LogAgrees
<1>3. Stores = {Genesis}
  <2>1. current = Genesis /\ \A c \in Checkpointers : ck[c].store = Genesis
    BY Zenon DEF Init, NoCk
  <2>2. \A p \in Places : InFile(file[p]) = {}
    BY InNoBlocks, Zenon DEF Init
  <2> QED
    BY <2>1, <2>2, Zenon DEF Stores
<1>4. Agrees(Genesis, E, used)
  BY ConstantTypes, Zenon DEF Agrees
<1> QED
  BY <1>1, <1>2, <1>3, <1>4, Zenon DEF HistoryInv

\* INV-FERR-007: whatever the crashes leave in the log and in the checkpoint
\* files, and whichever of them a cold start reads or passes over, the store it
\* opens has one transaction for an epoch and one epoch for a transaction:
\* replay_entry's test against the epoch of the checkpoint suffices.
THEOREM HistoriesNeverMix == Spec => []OneHistory
<1>1. Init => DirInv /\ HistoryInv
  BY DirInitially, HistoryInitially, Zenon
<1>2. DirInv /\ HistoryInv /\ [Next]_vars => (DirInv /\ HistoryInv)'
  BY DirStep, HistoryStep, Zenon
<1>3. HistoryInv => OneHistory
  <2> SUFFICES ASSUME HistoryInv PROVE OneHistory
    OBVIOUS
  <2>1. PICK E \in [Txs -> Nat] : Agrees(current, E, used)
    BY StoresHeld, Zenon DEF HistoryInv
  <2>2. ASSUME NEW d \in current.entries, NEW e \in current.entries
        PROVE  d.epoch = e.epoch <=> d.tx = e.tx
    <3>1. d.epoch = E[d.tx] /\ e.epoch = E[e.tx]
      BY <2>1, Zenon DEF Agrees
    <3>2. d.epoch = e.epoch => d.tx = e.tx
      BY <2>1, Zenon DEF Agrees
    <3> QED
      BY <3>1, <3>2, Zenon
  <2> QED
    BY <2>2, Zenon DEF OneHistory
<1> QED
  BY <1>1, <1>2, <1>3, PTL DEF Spec

-----------------------------------------------------------------------------
(* The checkpoint files, as long as no two checkpoints overlap and none is   *)
(* written in place: the temporary file holds what its one writer has        *)
(* written, and the files that a restart may find are images on stable       *)
(* storage.                                                                  *)

Idle(c) == ck[c].step = "idle"

\* Only a running process writes checkpoints, and no further than their end.
HandleInv ==
    \A c \in Checkpointers :
        /\ Idle(c) => ck[c].store = Genesis
        /\ ~ Idle(c) => up /\ ck[c].pos <= ck[c].store.epoch + 1

Clean(f) == f.blocks = f.synced /\ (f.exists => Whole(f.blocks))

FilesClean ==
    /\ Clean(file["chk"])
    /\ ~ dirSynced => Clean(file["old"])

Finished(s) == Holding(Image(s), Image(s))

\* What the writer of a checkpoint has got done.
Written(c) ==
    LET s == ck[c].store
        b == file["tmp"].blocks
    IN  /\ ck[c].step = "write" =>
              /\ ck[c].at = "tmp" /\ file["tmp"].exists
              /\ Len(b) = ck[c].pos
              /\ \A j \in 1..Len(b) : b[j] = Image(s)[j]
        /\ ck[c].step = "rename" => ck[c].at = "tmp" /\ file["tmp"] = Finished(s)
        /\ ck[c].step = "syncdir" => file["chk"] = Finished(s)

Sole(c) == \A d \in Checkpointers : ~ Idle(d) => d = c

FileInv ==
    ~ spoiled =>
        /\ FilesClean
        /\ \A c \in Checkpointers :
              ~ Idle(c) => ~ ck[c].inPlace /\ Written(c) /\ Sole(c)

\* One step keeps the handles in order.
LEMMA HandleStep ==
    ASSUME TypeOK, HandleInv, [Next]_vars
    PROVE  HandleInv'
<1>0. ck \in [Checkpointers -> Handle] /\ file \in [Places -> File]
  BY Zenon DEF TypeOK
<1>1. NoCk.step = "idle" /\ NoCk.store = Genesis
  BY Zenon DEF NoCk
<1>2. ASSUME \A d \in Checkpointers : ck'[d] = NoCk
      PROVE  HandleInv'
  BY <1>1, <1>2, Zenon DEF HandleInv, Idle
<1>3. ASSUME up' = up, NEW c \in Checkpointers,
             \A d \in Checkpointers : d # c =>
                 /\ ck'[d].step = ck[d].step /\ ck'[d].store = ck[d].store
                 /\ ck'[d].pos = ck[d].pos,
             \/ ck'[c] = NoCk
             \/ /\ ck'[c].step # "idle" /\ up
                /\ ck'[c].pos <= ck'[c].store.epoch + 1
      PROVE  HandleInv'
  <2>1. ASSUME NEW d \in Checkpointers, d # c
        PROVE  /\ ck'[d].step = "idle" => ck'[d].store = Genesis
               /\ ck'[d].step # "idle" => up' /\ ck'[d].pos <= ck'[d].store.epoch + 1
    BY <1>3, <2>1, Zenon DEF HandleInv, Idle
  <2>2. /\ ck'[c].step = "idle" => ck'[c].store = Genesis
        /\ ck'[c].step # "idle" => up' /\ ck'[c].pos <= ck'[c].store.epoch + 1
    <3>1. CASE ck'[c] = NoCk
      BY <1>1, <3>1, Zenon
    <3>2. CASE ck'[c] # NoCk
      BY <1>3, <3>2, Zenon
    <3> QED
      BY <3>1, <3>2, Zenon
  <2>3. \A d \in Checkpointers :
          /\ ck'[d].step = "idle" => ck'[d].store = Genesis
          /\ ck'[d].step # "idle" => up' /\ ck'[d].pos <= ck'[d].store.epoch + 1
    <3> TAKE d \in Checkpointers
    <3>1. CASE d = c
      BY <2>2, <3>1
    <3> QED
      BY <2>1, <3>1, Zenon
  <2> QED
    BY <2>3, Zenon DEF HandleInv, Idle
<1>4. ASSUME NEW c \in Checkpointers, BeginCheckpoint(c) PROVE HandleInv'
  <2>1. PICK i \in BOOLEAN, p \in Places :
          /\ ck' = [ck EXCEPT ![c] = [step |-> "write", at |-> p, inPlace |-> i,
                                      pos |-> 0, store |-> current]]
    BY <1>4, BeginShape, Zenon
  <2>2. ck'[c].step = "write" /\ ck'[c].pos = 0 /\ ck'[c].store = current
    BY <1>0, <2>1
  <2>3. 0 <= current.epoch + 1
    BY DEF TypeOK, Store
  <2>4. \A d \in Checkpointers : d # c => ck'[d] = ck[d]
    BY <1>0, <2>1, Zenon
  <2>5. up /\ up' = up
    BY <1>4, Zenon DEF BeginCheckpoint
  <2>6. ck'[c].pos <= ck'[c].store.epoch + 1
    BY <2>2, <2>3, Zenon
  <2>7. ck'[c].step # "idle"
    BY <2>2
  <2> QED
    BY <1>3, <2>4, <2>5, <2>6, <2>7, Zenon
<1>5. ASSUME NEW c \in Checkpointers, WriteBlock(c) PROVE HandleInv'
  <2>1. ck' = [ck EXCEPT ![c].pos = ck[c].pos + 1]
    BY <1>5, WriteShape, Zenon
  <2>2. \A d \in Checkpointers : d # c => ck'[d] = ck[d]
    BY <1>0, <2>1, Zenon
  <2>3. /\ ck'[c].step = ck[c].step /\ ck'[c].store = ck[c].store
        /\ ck'[c].pos = ck[c].pos + 1
    BY <1>0, <2>1 DEF Handle
  <2>4. ck[c].step = "write" /\ ck[c].pos < Len(Image(ck[c].store)) /\ up' = up
    BY <1>5, Zenon DEF WriteBlock
  <2>5. ck[c].pos + 1 <= ck[c].store.epoch + 1
    BY <2>4, HandleFields, ImageType
  <2>6. ck'[c].step # "idle" /\ ck[c].step # "idle"
    BY <2>3, <2>4
  <2>7. up
    BY <2>6, Zenon DEF HandleInv, Idle
  <2> QED
    BY <1>3, <2>2, <2>3, <2>4, <2>5, <2>6, <2>7, Zenon
<1>6. ASSUME NEW c \in Checkpointers, SyncFile(c) PROVE HandleInv'
  <2>1. ck[c].step = "write" /\ up' = up
    BY <1>6, Zenon DEF SyncFile
  <2>2. up /\ ck[c].pos <= ck[c].store.epoch + 1
    BY <2>1 DEF HandleInv, Idle
  <2>3. CASE ck' = [ck EXCEPT ![c] = NoCk]
    <3>1. ck'[c] = NoCk /\ \A d \in Checkpointers : d # c => ck'[d] = ck[d]
      BY <1>0, <2>3, Zenon
    <3> QED
      BY <1>3, <2>1, <3>1, Zenon
  <2>4. CASE ck' = [ck EXCEPT ![c].step = "rename"]
    <3>1. \A d \in Checkpointers : d # c => ck'[d] = ck[d]
      BY <1>0, <2>4, Zenon
    <3>2. ck'[c].step = "rename" /\ ck'[c].store = ck[c].store /\ ck'[c].pos = ck[c].pos
      BY <1>0, <2>4 DEF Handle
    <3>3. ck'[c].step # "idle"
      BY <3>2
    <3> QED
      BY <1>3, <2>1, <2>2, <3>1, <3>2, <3>3, Zenon
  <2> QED
    BY <1>6, <2>3, <2>4, Zenon DEF SyncFile
<1>7. ASSUME NEW c \in Checkpointers, Rename(c) PROVE HandleInv'
  <2>1. ck[c].step = "rename" /\ up' = up
    BY <1>7, Zenon DEF Rename
  <2>2. up /\ ck[c].pos <= ck[c].store.epoch + 1
    BY <2>1 DEF HandleInv, Idle
  <2>3. CASE ck' = [ck EXCEPT ![c] = NoCk]
    <3>1. ck'[c] = NoCk /\ \A d \in Checkpointers : d # c => ck'[d] = ck[d]
      BY <1>0, <2>3, Zenon
    <3> QED
      BY <1>3, <2>1, <3>1, Zenon
  <2>4. ASSUME NEW keep \in BOOLEAN, ck' = [Carried(keep) EXCEPT ![c].step = "syncdir"]
        PROVE  HandleInv'
    <3>1. Carried(keep) \in [Checkpointers -> Handle] /\ SameBut(Carried(keep), ck)
      BY CarriedHandles, Zenon
    <3>2. \A d \in Checkpointers : d # c => ck'[d] = Carried(keep)[d]
      BY <2>4, <3>1, Zenon
    <3>3. /\ ck'[c].step = "syncdir" /\ ck'[c].store = Carried(keep)[c].store
          /\ ck'[c].pos = Carried(keep)[c].pos
      BY <2>4, <3>1 DEF Handle
    <3>4. ck'[c].step # "idle"
      BY <3>3
    <3>5. ck'[c].pos <= ck'[c].store.epoch + 1
      BY <2>2, <3>1, <3>3, Zenon DEF SameBut
    <3>6. ASSUME NEW d \in Checkpointers, d # c
          PROVE  /\ ck'[d].step = ck[d].step /\ ck'[d].store = ck[d].store
                 /\ ck'[d].pos = ck[d].pos
      BY <3>1, <3>2, <3>6, Zenon DEF SameBut
    <3> QED
      BY <1>3, <2>1, <2>2, <3>4, <3>5, <3>6, Zenon
  <2> QED
    BY <1>7, <2>3, <2>4, RenameShape, Zenon
<1>8. ASSUME NEW c \in Checkpointers, SyncDir(c) PROVE HandleInv'
  <2> DEFINE m == Moved(ck, "old", "gone")
  <2>1. m \in [Checkpointers -> Handle] /\ SameBut(m, ck)
    BY <1>0, MovedType
  <2>2. ck' = [m EXCEPT ![c] = NoCk] /\ up' = up
    BY <1>8, Zenon DEF SyncDir
  <2> HIDE DEF m
  <2>3. ck'[c] = NoCk /\ \A d \in Checkpointers : d # c => ck'[d] = m[d]
    BY <2>1, <2>2, Zenon
  <2> QED
    BY <1>3, <2>1, <2>2, <2>3, Zenon DEF SameBut
<1>9. ASSUME NEW c \in Checkpointers, CheckpointErr(c) PROVE HandleInv'
  <2>1. ck' = [ck EXCEPT ![c] = NoCk] /\ up' = up
    BY <1>9, Zenon DEF CheckpointErr
  <2>2. ck'[c] = NoCk /\ \A d \in Checkpointers : d # c => ck'[d] = ck[d]
    BY <1>0, <2>1, Zenon
  <2> QED
    BY <1>3, <2>1, <2>2, Zenon
<1>10. CASE CrashProcess \/ CrashMachine
  <2>1. \A d \in Checkpointers : ck'[d] = NoCk
    BY <1>10, Zenon DEF CrashProcess, CrashMachine, LoseMemory
  <2> QED
    BY <1>2, <2>1, Zenon
<1>11. CASE ColdStarts
  <2>1. ~ up /\ ck' = ck
    BY <1>11, ColdStartOpens, Zenon DEF OpensOn
  <2> QED
    BY <2>1, Zenon DEF HandleInv, Idle
<1>12. CASE ~ (CheckpointStep \/ CrashProcess \/ CrashMachine \/ ColdStarts)
  <2>1. UNCHANGED <<up, ck>>
    BY <1>12, Steps, Zenon DEF LogTx, PublishUnlogged, LogTxErr, SyncTx, SyncTxErr,
       dirVars, vars
  <2> QED
    BY <2>1, Zenon DEF HandleInv, Idle
<1> QED
  BY <1>4, <1>5, <1>6, <1>7, <1>8, <1>9, <1>10, <1>11, <1>12, Zenon DEF CheckpointStep

\* The image of a store loads, and as that store.
LEMMA ImageWhole ==
    ASSUME NEW s \in Store
    PROVE  /\ Whole(Image(s)) /\ Image(s)[1].store = s
           /\ Finished(s) \in File /\ Finished(s).exists
           /\ Finished(s).blocks = Image(s) /\ Finished(s).synced = Image(s)
           /\ Clean(Finished(s))
<1>1. /\ Image(s) \in Seq(Block) /\ Len(Image(s)) = s.epoch + 1 /\ s.epoch + 1 \in Nat \ {0}
      /\ \A i \in 1..(s.epoch + 1) : Image(s)[i].store = s
  BY ImageType, Zenon
<1>2. 1 \in 1..(s.epoch + 1) /\ Len(Image(s)) # 0
  BY <1>1
<1>3. Image(s)[1].store = s
  BY <1>1, <1>2, Zenon
<1>4. Image(s) # << >>
  BY <1>1, <1>2, SeqEmpty, Zenon
<1>5. Whole(Image(s))
  BY <1>3, <1>4, Zenon DEF Whole
<1>6. /\ Finished(s) \in File /\ Finished(s).exists
      /\ Finished(s).blocks = Image(s) /\ Finished(s).synced = Image(s)
  BY <1>1, HoldingType, Zenon DEF Finished
<1> QED
  BY <1>3, <1>5, <1>6, Zenon DEF Clean

\* A block written behind the last one.
LEMMA OverlayNext ==
    ASSUME NEW b \in Seq(Block), NEW x \in Block
    PROVE  /\ Len(Overlay(b, Len(b) + 1, x)) = Len(b) + 1
           /\ \A j \in 1..Len(b) : Overlay(b, Len(b) + 1, x)[j] = b[j]
           /\ Overlay(b, Len(b) + 1, x)[Len(b) + 1] = x
<1> DEFINE n == Len(b) + 1
<1>0. Len(b) \in Nat
  BY SeqLen, Zenon
<1>1. n \in Nat \ {0} /\ WalMax(Len(b), n) = n
  BY <1>0 DEF WalMax
<1>2. Len(Overlay(b, n, x)) = n
  BY <1>1, OverlayType, Zenon
<1>3. /\ n \in 1..n
      /\ \A j \in 1..Len(b) : j \in 1..n /\ j # n /\ j <= Len(b)
  BY <1>0
<1> HIDE DEF n
<1>4. Overlay(b, n, x) =
        [j \in 1..n |-> IF j = n THEN x ELSE IF j <= Len(b) THEN b[j] ELSE Hole]
  BY <1>1, Zenon DEF Overlay
<1>5. Overlay(b, n, x)[n] = x /\ \A j \in 1..Len(b) : Overlay(b, n, x)[j] = b[j]
  BY <1>3, <1>4, Zenon
<1> QED
  BY <1>2, <1>5, Zenon DEF n

\* What a step of the one checkpoint does to the files a restart may find.
Tidy(c) ==
    /\ \A d \in Checkpointers \ {c} : Idle(d) /\ Idle(d)'
    /\ \/ /\ Idle(c) /\ ~ Idle(c)' /\ up
          /\ ck'[c].store = current
          /\ UNCHANGED <<file["chk"], file["old"], dirSynced, saved>>
       \/ /\ ~ Idle(c) /\ (Idle(c)' \/ ck'[c].store = ck[c].store)
          /\ UNCHANGED <<file["chk"], file["old"], dirSynced, saved>>
       \/ /\ ~ Idle(c) /\ ~ Idle(c)' /\ ck'[c].store = ck[c].store
          /\ file'["chk"] = Finished(ck[c].store)
          /\ \/ file'["old"] = file["chk"]
             \/ ~ dirSynced /\ file'["old"] = file["old"]
          /\ ~ dirSynced' /\ UNCHANGED saved
       \/ /\ ~ Idle(c) /\ Idle(c)'
          /\ file["chk"] = Finished(ck[c].store) /\ UNCHANGED file["chk"]
          /\ dirSynced' /\ saved' = saved \cup ck[c].store.entries

\* The only checkpoint begins: its temporary file is empty.
LEMMA CleanBegin ==
    ASSUME TypeOK, FileInv, NEW c \in Checkpointers, BeginCheckpoint(c), ~ spoiled'
    PROVE  FileInv' /\ Tidy(c)
<1>0. ck \in [Checkpointers -> Handle] /\ file \in [Places -> File]
  BY Zenon DEF TypeOK
<1>1. PICK i \in BOOLEAN, p \in Places :
        /\ p = IF i THEN "chk" ELSE "tmp"
        /\ ck' = [ck EXCEPT ![c] = [step |-> "write", at |-> p, inPlace |-> i,
                                    pos |-> 0, store |-> current]]
        /\ file' = [file EXCEPT ![p] = Emptied(file[p])]
        /\ spoiled' = (spoiled \/ i \/ \E d \in Checkpointers : ck[d].step # "idle")
        /\ dirSynced' = (dirSynced /\ (i => file["chk"].exists))
  BY BeginShape, Zenon
<1>2. ~ spoiled /\ ~ i /\ \A d \in Checkpointers : Idle(d)
  BY <1>1, Zenon DEF Idle
<1>3. /\ ck' = [ck EXCEPT ![c] = [step |-> "write", at |-> "tmp", inPlace |-> FALSE,
                                  pos |-> 0, store |-> current]]
      /\ file' = [file EXCEPT !["tmp"] = Emptied(file["tmp"])]
  BY <1>1, <1>2, Zenon
<1>4. (dirSynced' <=> dirSynced) /\ dirSynced' = dirSynced
  BY <1>1, <1>2, Zenon DEF TypeOK
<1>5. /\ ck'[c].step = "write" /\ ck'[c].at = "tmp" /\ ~ ck'[c].inPlace
      /\ ck'[c].pos = 0 /\ ck'[c].store = current
  BY <1>0, <1>3
<1>6. \A d \in Checkpointers : d # c => ck'[d] = ck[d]
  BY <1>0, <1>3, Zenon
<1>7. "tmp" # "chk" /\ "tmp" # "old" /\ "write" # "idle" /\ "write" # "rename"
      /\ "write" # "syncdir"
  OBVIOUS
<1>8. /\ file'["chk"] = file["chk"] /\ file'["old"] = file["old"]
      /\ file'["tmp"] = Emptied(file["tmp"])
  BY <1>0, <1>3, <1>7, Zenon DEF Places
<1>9. file'["tmp"].exists /\ file'["tmp"].blocks = << >>
  BY <1>8, FileFields, EmptiedType, Zenon DEF Places
<1>10. Len(file'["tmp"].blocks) = 0 /\ \A j \in 1..Len(file'["tmp"].blocks) : FALSE
  BY <1>9
<1>11. FilesClean'
  BY <1>2, <1>4, <1>8, Zenon DEF FileInv, FilesClean
<1>12. Written(c)'
  BY <1>5, <1>7, <1>9, <1>10, Zenon DEF Written
<1>13. \A d \in Checkpointers : ~ Idle(d)' => d = c
  BY <1>2, <1>6, Zenon DEF Idle
<1>14. FileInv'
  BY <1>5, <1>11, <1>12, <1>13, Zenon DEF FileInv, Sole
<1>15. up /\ UNCHANGED saved
  BY Zenon DEF BeginCheckpoint
<1> QED
  BY <1>2, <1>4, <1>5, <1>6, <1>7, <1>8, <1>14, <1>15, Zenon DEF Tidy, Idle

\* Facts about the one writer of an unspoiled directory.
LEMMA OneWriter ==
    ASSUME TypeOK, FileInv, ~ spoiled, NEW c \in Checkpointers, ~ Idle(c)
    PROVE  /\ FilesClean /\ ~ ck[c].inPlace /\ Written(c)
           /\ \A d \in Checkpointers : d # c => Idle(d)
           /\ ck[c].store \in Store /\ ck[c].pos \in Nat
  BY HandleFields, Zenon DEF FileInv, Sole

\* A step of it that keeps the files and leaves the handle in good order.
LEMMA StillClean ==
    ASSUME FilesClean', NEW c \in Checkpointers,
           \A d \in Checkpointers : d # c => Idle(d)',
           ~ Idle(c)' => ~ ck'[c].inPlace /\ Written(c)'
    PROVE  FileInv'
<1>1. \A d \in Checkpointers : ~ Idle(d)' => d = c
  BY Zenon
<1> QED
  BY <1>1, Zenon DEF FileInv, Sole

\* It writes its next block behind the last one.
LEMMA CleanWrite ==
    ASSUME TypeOK, FileInv, NEW c \in Checkpointers, WriteBlock(c), ~ spoiled'
    PROVE  FileInv' /\ Tidy(c)
<1>0. ck \in [Checkpointers -> Handle] /\ file \in [Places -> File]
  BY Zenon DEF TypeOK
<1>1. /\ ck[c].step = "write" /\ ck[c].pos < Len(Image(ck[c].store))
      /\ ~ spoiled /\ UNCHANGED <<dirSynced, saved>>
  BY Zenon DEF WriteBlock
<1>2. ~ Idle(c) /\ "write" # "idle" /\ "write" # "rename" /\ "write" # "syncdir"
  BY <1>1 DEF Idle
<1>3. /\ FilesClean /\ ~ ck[c].inPlace /\ Written(c)
      /\ \A d \in Checkpointers : d # c => Idle(d)
      /\ ck[c].store \in Store /\ ck[c].pos \in Nat
  BY <1>1, <1>2, OneWriter, Zenon
<1> DEFINE b == file["tmp"].blocks
           s == ck[c].store
           n == ck[c].pos + 1
<1>4. /\ ck[c].at = "tmp" /\ file["tmp"].exists /\ Len(b) = ck[c].pos
      /\ \A j \in 1..Len(b) : b[j] = Image(s)[j]
  BY <1>1, <1>3, Zenon DEF Written
<1>5. "tmp" # "gone" /\ "tmp" # "chk" /\ "tmp" # "old"
  OBVIOUS
<1>6. /\ ck' = [ck EXCEPT ![c].pos = n]
      /\ file' = [file EXCEPT !["tmp"].blocks = WithBlock(c)]
  BY <1>4, <1>5, WriteShape, Zenon
<1>7. /\ ck'[c].step = "write" /\ ck'[c].at = "tmp" /\ ck'[c].inPlace = ck[c].inPlace
      /\ ck'[c].pos = n /\ ck'[c].store = s
  BY <1>0, <1>1, <1>4, <1>6 DEF Handle
<1>8. \A d \in Checkpointers : d # c => ck'[d] = ck[d]
  BY <1>0, <1>6, Zenon
<1>9. file'["chk"] = file["chk"] /\ file'["old"] = file["old"]
  BY <1>0, <1>5, <1>6, Zenon DEF Places
<1>10. file'["tmp"].exists = file["tmp"].exists /\ file'["tmp"].blocks = WithBlock(c)
  BY <1>0, <1>6 DEF Places, File
<1>11. n \in 1..(s.epoch + 1) /\ n = Len(b) + 1 /\ Len(b) \in Nat
  BY <1>1, <1>3, <1>4, ImageType
<1>12. NextBlock(c) \in Block /\ NextBlock(c) = Image(s)[n]
  BY <1>3, <1>11, ImageType, Zenon DEF NextBlock
<1>13. WithBlock(c) = Overlay(b, Len(b) + 1, NextBlock(c)) /\ b \in Seq(Block)
  BY <1>4, FileFields, Zenon DEF WithBlock, Places
<1> DEFINE w == WithBlock(c)
           x == NextBlock(c)
<1> HIDE DEF b, n, w, x
<1>14. /\ Len(w) = Len(b) + 1 /\ w[Len(b) + 1] = x
       /\ \A j \in 1..Len(b) : w[j] = b[j]
  <2>1. x \in Block /\ b \in Seq(Block) /\ w = Overlay(b, Len(b) + 1, x)
    BY <1>12, <1>13, Zenon DEF w, x
  <2> QED
    BY <2>1, OverlayNext, Zenon
<1>15. \A j \in 1..(Len(b) + 1) : j \in 1..Len(b) \/ j = Len(b) + 1
  BY <1>11
<1>16. \A j \in 1..Len(w) : w[j] = Image(s)[j]
  BY <1>4, <1>11, <1>12, <1>14, <1>15, Zenon DEF x
<1> HIDE DEF s
<1>17. file'["tmp"].exists /\ Len(w) = n /\ file'["tmp"].blocks = w
  BY <1>4, <1>10, <1>11, <1>14, Zenon DEF w
<1>18. Written(c)'
  BY <1>2, <1>7, <1>16, <1>17, Zenon DEF Written
<1>19. FilesClean'
  BY <1>1, <1>3, <1>9, Zenon DEF FilesClean
<1>20. \A d \in Checkpointers : d # c => Idle(d)'
  BY <1>3, <1>8, Zenon DEF Idle
<1>21. FileInv'
  BY <1>3, <1>7, <1>18, <1>19, <1>20, StillClean, Zenon
<1> QED
  BY <1>1, <1>2, <1>3, <1>7, <1>9, <1>20, <1>21, Zenon DEF Tidy, s

\* All blocks are written: the sync puts the image on stable storage.
LEMMA CleanSync ==
    ASSUME TypeOK, FileInv, NEW c \in Checkpointers, SyncFile(c), ~ spoiled'
    PROVE  FileInv' /\ Tidy(c)
<1>0. ck \in [Checkpointers -> Handle] /\ file \in [Places -> File]
  BY Zenon DEF TypeOK
<1>1. /\ ck[c].step = "write" /\ ck[c].pos = Len(Image(ck[c].store))
      /\ ~ spoiled /\ UNCHANGED <<dirSynced, saved>>
  BY Zenon DEF SyncFile
<1>2. ~ Idle(c) /\ "rename" # "idle" /\ "write" # "rename" /\ "rename" # "syncdir"
  BY <1>1 DEF Idle
<1>3. /\ FilesClean /\ ~ ck[c].inPlace /\ Written(c)
      /\ \A d \in Checkpointers : d # c => Idle(d)
      /\ ck[c].store \in Store
  BY <1>1, <1>2, OneWriter, Zenon
<1> DEFINE b == file["tmp"].blocks
           s == ck[c].store
<1>4. /\ ck[c].at = "tmp" /\ file["tmp"].exists /\ Len(b) = Len(Image(s))
      /\ \A j \in 1..Len(b) : b[j] = Image(s)[j]
  BY <1>1, <1>3, Zenon DEF Written
<1>5. "tmp" # "gone" /\ "tmp" # "chk" /\ "tmp" # "old"
  OBVIOUS
<1>6. /\ ck' = [ck EXCEPT ![c].step = "rename"]
      /\ file' = [file EXCEPT !["tmp"].synced = b]
  BY <1>3, <1>4, <1>5, Zenon DEF SyncFile
<1>7. /\ ck'[c].step = "rename" /\ ck'[c].at = "tmp" /\ ck'[c].inPlace = ck[c].inPlace
      /\ ck'[c].store = s
  BY <1>0, <1>4, <1>6 DEF Handle
<1>8. \A d \in Checkpointers : d # c => ck'[d] = ck[d]
  BY <1>0, <1>6, Zenon
<1>9. file'["chk"] = file["chk"] /\ file'["old"] = file["old"]
  BY <1>0, <1>5, <1>6, Zenon DEF Places
<1>10. b = Image(s)
  <2>1. b \in Seq(Block) /\ Image(s) \in Seq(Block)
    BY <1>3, FileFields, ImageType, Zenon DEF Places
  <2> HIDE DEF b, s
  <2> QED
    BY <1>4, <2>1, SeqSame
<1>11. file'["tmp"] = Finished(s)
  <2>1. file'["tmp"] = [file["tmp"] EXCEPT !.synced = b]
    BY <1>0, <1>6, Zenon DEF Places
  <2>2. file["tmp"] \in File
    BY <1>0, Zenon DEF Places
  <2>3. file["tmp"].exists = TRUE
    BY <1>4, <2>2, Zenon DEF File
  <2> DEFINE f == file["tmp"]
             i == Image(s)
  <2>4. f \in File /\ f.exists = TRUE /\ f.blocks = i /\ file'["tmp"] = [f EXCEPT !.synced = i]
    BY <1>10, <2>1, <2>2, <2>3, Zenon
  <2> HIDE DEF f, i, s
  <2>5. file'["tmp"] = [exists |-> TRUE, blocks |-> i, synced |-> i]
    BY <2>4 DEF File
  <2> QED
    BY <2>5, Zenon DEF Finished, Holding, i
<1> HIDE DEF b, s
<1>12. Written(c)'
  BY <1>2, <1>7, <1>11, Zenon DEF Written
<1>13. FilesClean'
  BY <1>1, <1>3, <1>9, Zenon DEF FilesClean
<1>14. \A d \in Checkpointers : d # c => Idle(d)'
  BY <1>3, <1>8, Zenon DEF Idle
<1>15. FileInv'
  BY <1>3, <1>7, <1>12, <1>13, <1>14, StillClean, Zenon
<1> QED
  BY <1>1, <1>2, <1>3, <1>7, <1>9, <1>14, <1>15, Zenon DEF Tidy, s

\* The image takes the name of the checkpoint, the one before stays in reach.
LEMMA CleanRename ==
    ASSUME TypeOK, FileInv, NEW c \in Checkpointers, Rename(c), ~ spoiled'
    PROVE  FileInv' /\ Tidy(c)
<1>0. ck \in [Checkpointers -> Handle] /\ file \in [Places -> File]
  BY Zenon DEF TypeOK
<1>1. ck[c].step = "rename" /\ ~ spoiled /\ UNCHANGED saved
  BY Zenon DEF Rename
<1>2. ~ Idle(c) /\ "syncdir" # "idle" /\ "write" # "syncdir" /\ "rename" # "syncdir"
  BY <1>1 DEF Idle
<1>3. /\ FilesClean /\ ~ ck[c].inPlace /\ Written(c)
      /\ \A d \in Checkpointers : d # c => Idle(d)
      /\ ck[c].store \in Store
  BY <1>1, <1>2, OneWriter, Zenon
<1> DEFINE s == ck[c].store
<1>4. ck[c].at = "tmp" /\ file["tmp"] = Finished(s)
  BY <1>1, <1>3, Zenon DEF Written
<1>5. file["tmp"].exists
  BY <1>3, <1>4, ImageWhole, Zenon
<1>6. PICK keep \in BOOLEAN :
        /\ keep => ~ dirSynced
        /\ ck' = [Carried(keep) EXCEPT ![c].step = "syncdir"]
        /\ file' = Renamed(keep)
        /\ dirSynced' = FALSE
  BY <1>5, RenameShape, Zenon
<1>7. Carried(keep) \in [Checkpointers -> Handle] /\ SameBut(Carried(keep), ck)
  BY CarriedHandles, Zenon
<1>8. \A d \in Checkpointers : d # c => ck'[d] = Carried(keep)[d]
  BY <1>6, <1>7, Zenon
<1>9. /\ ck'[c].step = "syncdir" /\ ck'[c].store = Carried(keep)[c].store
      /\ ck'[c].inPlace = Carried(keep)[c].inPlace
  BY <1>6, <1>7 DEF Handle
<1>10. ck'[c].store = s /\ ~ ck'[c].inPlace
  BY <1>3, <1>7, <1>9, Zenon DEF SameBut
<1>11. \A d \in Checkpointers : d # c => Idle(d)'
  BY <1>3, <1>7, <1>8, Zenon DEF Idle, SameBut
<1>12. /\ file'["chk"] = Finished(s)
       /\ file'["old"] = IF keep THEN file["old"] ELSE file["chk"]
  BY <1>4, <1>6, RenamedFiles, Zenon
<1>13. Clean(Finished(s))
  BY <1>3, ImageWhole, Zenon
<1> HIDE DEF s
<1>14. FilesClean'
  BY <1>3, <1>6, <1>12, <1>13, Zenon DEF FilesClean
<1>15. Written(c)'
  BY <1>2, <1>9, <1>10, <1>12, Zenon DEF Written
<1>16. FileInv'
  BY <1>10, <1>11, <1>14, <1>15, StillClean, Zenon
<1>17. \/ file'["old"] = file["chk"]
       \/ ~ dirSynced /\ file'["old"] = file["old"]
  BY <1>6, <1>12, Zenon
<1> QED
  BY <1>1, <1>2, <1>3, <1>6, <1>9, <1>10, <1>11, <1>12, <1>16, <1>17, Zenon DEF Tidy, Idle, s

\* The sync of the directory settles which of the two a restart finds.
LEMMA CleanSyncDir ==
    ASSUME TypeOK, FileInv, NEW c \in Checkpointers, SyncDir(c), ~ spoiled'
    PROVE  FileInv' /\ Tidy(c)
<1>0. ck \in [Checkpointers -> Handle] /\ file \in [Places -> File]
  BY Zenon DEF TypeOK
<1>1. /\ ck[c].step = "syncdir" /\ ~ spoiled /\ dirSynced'
      /\ saved' = saved \cup ck[c].store.entries
      /\ file' = [file EXCEPT !["old"] = NoFile]
  BY Zenon DEF SyncDir
<1>2. ~ Idle(c) /\ "old" # "chk"
  BY <1>1 DEF Idle
<1>3. /\ FilesClean /\ Written(c)
      /\ \A d \in Checkpointers : d # c => Idle(d)
  BY <1>1, <1>2, OneWriter, Zenon
<1>4. file["chk"] = Finished(ck[c].store)
  BY <1>1, <1>3, Zenon DEF Written
<1>5. file'["chk"] = file["chk"]
  BY <1>0, <1>1, <1>2, Zenon DEF Places
<1> DEFINE m == Moved(ck, "old", "gone")
<1>6. m \in [Checkpointers -> Handle] /\ SameBut(m, ck)
  BY <1>0, MovedType
<1>7. ck' = [m EXCEPT ![c] = NoCk]
  BY Zenon DEF SyncDir
<1> HIDE DEF m
<1>8. ck'[c] = NoCk /\ \A d \in Checkpointers : d # c => ck'[d] = m[d]
  BY <1>6, <1>7, Zenon
<1>9. Idle(c)' /\ \A d \in Checkpointers : d # c => Idle(d)'
  <2>1. NoCk.step = "idle"
    BY Zenon DEF NoCk
  <2> QED
    BY <1>3, <1>6, <1>8, <2>1, Zenon DEF Idle, SameBut
<1>10. FilesClean'
  BY <1>1, <1>3, <1>5, Zenon DEF FilesClean
<1>11. FileInv'
  BY <1>9, <1>10, StillClean, Zenon
<1> QED
  BY <1>1, <1>2, <1>3, <1>4, <1>5, <1>9, <1>11, Zenon DEF Tidy

\* A checkpoint that fails leaves the files of others alone.
LEMMA CleanErr ==
    ASSUME TypeOK, FileInv, NEW c \in Checkpointers, CheckpointErr(c), ~ spoiled'
    PROVE  FileInv' /\ Tidy(c)
<1>0. ck \in [Checkpointers -> Handle]
  BY Zenon DEF TypeOK
<1>1. /\ ~ Idle(c) /\ ~ spoiled /\ UNCHANGED <<file, dirSynced, saved>>
      /\ ck' = [ck EXCEPT ![c] = NoCk]
  BY Zenon DEF CheckpointErr, Idle, diskVars
<1>2. FilesClean /\ \A d \in Checkpointers : d # c => Idle(d)
  BY <1>1, OneWriter, Zenon
<1>3. ck'[c] = NoCk /\ \A d \in Checkpointers : d # c => ck'[d] = ck[d]
  BY <1>0, <1>1, Zenon
<1>4. Idle(c)' /\ \A d \in Checkpointers : d # c => Idle(d)'
  <2>1. NoCk.step = "idle"
    BY Zenon DEF NoCk
  <2> QED
    BY <1>2, <1>3, <2>1, Zenon DEF Idle
<1>5. FilesClean'
  BY <1>1, <1>2, Zenon DEF FilesClean
<1>6. FileInv'
  BY <1>4, <1>5, StillClean, Zenon
<1> QED
  BY <1>1, <1>2, <1>4, <1>6, Zenon DEF Tidy

\* A power loss cannot change a file that is on stable storage.
LEMMA CleanSurvivors ==
    ASSUME NEW f, Clean(f)
    PROVE  Survivors(f) = {f}
  BY Zenon DEF Clean, Survivors

\* What a machine crash leaves of an unspoiled directory.
LEMMA CleanCrash ==
    ASSUME TypeOK, FileInv, CrashMachine, ~ spoiled
    PROVE  \E p \in {"chk", "old"} :
              /\ p = "old" => ~ dirSynced
              /\ Clean(file[p]) /\ file'["chk"] = file[p]
<1>1. PICK p \in {"chk", "old"} : \E f \in Survivors(file[p]) :
        /\ p = "old" => ~ dirSynced
        /\ file' = [q \in Places |-> IF q = "chk" THEN f ELSE NoFile]
  BY CrashShape, Zenon
<1>2. PICK f \in Survivors(file[p]) :
        /\ p = "old" => ~ dirSynced
        /\ file' = [q \in Places |-> IF q = "chk" THEN f ELSE NoFile]
  BY <1>1, Zenon
<1>3. Clean(file[p])
  BY <1>2, Zenon DEF FileInv, FilesClean
<1>4. f = file[p]
  BY <1>2, <1>3, CleanSurvivors, Zenon
<1>5. file'["chk"] = f
  BY <1>2, Zenon DEF Places
<1> QED
  BY <1>2, <1>3, <1>4, <1>5, Zenon

\* So does every step of a checkpoint in an unspoiled directory.
LEMMA CheckpointTidy ==
    ASSUME TypeOK, FileInv, CheckpointStep, ~ spoiled'
    PROVE  FileInv' /\ \E c \in Checkpointers : Tidy(c)
  BY CleanBegin, CleanWrite, CleanSync, CleanRename, CleanSyncDir, CleanErr, Zenon
  DEF CheckpointStep

\* A spoiled directory stays spoiled.
LEMMA SpoiledStays ==
    ASSUME TypeOK, [Next]_vars, spoiled
    PROVE  spoiled'
<1>1. CASE CheckpointStep
  BY <1>1, BeginShape, Zenon DEF CheckpointStep, WriteBlock, SyncFile, Rename, SyncDir,
     CheckpointErr
<1>2. CASE ColdStarts
  BY <1>2, ColdStartOpens, Zenon DEF OpensOn
<1>3. CASE ~ (CheckpointStep \/ ColdStarts)
  BY <1>3, Steps, Zenon DEF LogTx, PublishUnlogged, LogTxErr, SyncTx, SyncTxErr,
     CrashProcess, CrashMachine, LoseMemory, dirVars, vars
<1> QED
  BY <1>1, <1>2, <1>3, Zenon

\* One step keeps the files in order.
LEMMA FileStep ==
    ASSUME TypeOK, FileInv, [Next]_vars
    PROVE  FileInv'
<1>0. ck \in [Checkpointers -> Handle] /\ file \in [Places -> File]
  BY Zenon DEF TypeOK
<1> SUFFICES ASSUME ~ spoiled' PROVE FileInv'
  BY Zenon DEF FileInv
<1>1. ~ spoiled /\ FilesClean
  BY SpoiledStays, Zenon DEF FileInv
<1>2. CASE CheckpointStep
  BY <1>2, CheckpointTidy, Zenon
<1>3. CASE CrashProcess \/ CrashMachine
  <2>1. \A d \in Checkpointers : Idle(d)'
    <3>1. NoCk.step = "idle"
      BY Zenon DEF NoCk
    <3> QED
      BY <1>3, <3>1, Zenon DEF CrashProcess, CrashMachine, LoseMemory, Idle
  <2>2. FilesClean'
    <3>1. CASE CrashProcess
      <4>1. file' = [file EXCEPT !["tmp"] = NoFile] /\ dirSynced' = dirSynced
        BY <3>1, Zenon DEF CrashProcess
      <4>2. "tmp" # "chk" /\ "tmp" # "old"
        OBVIOUS
      <4>3. file'["chk"] = file["chk"] /\ file'["old"] = file["old"]
        BY <1>0, <4>1, <4>2, Zenon DEF Places
      <4> QED
        BY <1>1, <4>1, <4>3, Zenon DEF FilesClean
    <3>2. CASE CrashMachine
      <4>1. Clean(file'["chk"])
        BY <1>1, <3>2, CleanCrash, Zenon
      <4>2. dirSynced'
        BY <3>2, Zenon DEF CrashMachine
      <4> QED
        BY <4>1, <4>2, Zenon DEF FilesClean
    <3> QED
      BY <1>3, <3>1, <3>2, Zenon
  <2> QED
    BY <2>1, <2>2, Zenon DEF FileInv
<1>4. CASE ~ (CheckpointStep \/ CrashProcess \/ CrashMachine)
  <2>1. UNCHANGED <<file, dirSynced, ck>>
    <3>1. CASE ColdStarts
      BY <3>1, ColdStartOpens, Zenon DEF OpensOn, diskVars
    <3>2. CASE ~ ColdStarts
      BY <1>4, <3>2, Steps, Zenon DEF LogTx, PublishUnlogged, LogTxErr, SyncTx,
         SyncTxErr, dirVars, diskVars, vars
    <3> QED
      BY <3>1, <3>2, Zenon
  <2>2. FilesClean'
    BY <1>1, <2>1, Zenon DEF FilesClean
  <2>3. \A c \in Checkpointers :
          (~ Idle(c) => ~ ck[c].inPlace /\ Written(c) /\ Sole(c))'
    <3> TAKE c \in Checkpointers
    <3>1. ~ Idle(c) => ~ ck[c].inPlace /\ Written(c) /\ Sole(c)
      BY <1>1, Zenon DEF FileInv
    <3>2. (Idle(c)' <=> Idle(c)) /\ (Written(c)' <=> Written(c))
      BY <2>1, Zenon DEF Idle, Written
    <3>3. Sole(c)' <=> Sole(c)
      BY <2>1, Zenon DEF Sole, Idle
    <3> QED
      BY <2>1, <3>1, <3>2, <3>3, Zenon
  <2> QED
    BY <2>2, <2>3, Zenon DEF FileInv
<1> QED
  BY <1>2, <1>3, <1>4, Zenon

\* At the start there are no files.
LEMMA FilesInitially ==
    ASSUME Init
    PROVE  FileInv /\ HandleInv
<1>1. NoCk.step = "idle" /\ NoCk.store = Genesis
  BY Zenon DEF NoCk
<1>2. \A c \in Checkpointers : Idle(c) /\ ck[c].store = Genesis
  BY <1>1, Zenon DEF Init, Idle
<1>3. Clean(NoFile)
  BY Zenon DEF Clean, NoFile
<1>4. FilesClean
  BY <1>3, Zenon DEF Init, FilesClean, Places
<1> QED
  BY <1>2, <1>4, Zenon DEF FileInv, HandleInv

\* HI-001: for any number of threads and crashes, as long as no two checkpoints
\* of the process overlap and none is written in place, the temporary file, its
\* sync, the rename and the sync of the directory keep a whole checkpoint under
\* the name that a reader or a restart opens, or none.
THEOREM CheckpointsWhole == Spec => []CheckpointWhole
<1>1. Init => DirInv /\ FileInv
  BY DirInitially, FilesInitially, Zenon
<1>2. DirInv /\ FileInv /\ [Next]_vars => (DirInv /\ FileInv)'
  BY DirStep, FileStep, Zenon DEF DirInv
<1>3. FileInv => CheckpointWhole
  <2> SUFFICES ASSUME FileInv, ~ spoiled,
                      NEW f \in Survivors(file["chk"]) \cup
                                (IF dirSynced THEN {} ELSE Survivors(file["old"])),
                      f.exists
               PROVE  Whole(f.blocks)
    BY Zenon DEF CheckpointWhole
  <2>1. Clean(file["chk"]) /\ (~ dirSynced => Clean(file["old"]))
    BY Zenon DEF FileInv, FilesClean
  <2>2. f = file["chk"] \/ (~ dirSynced /\ f = file["old"])
    BY <2>1, CleanSurvivors, Zenon
  <2> QED
    BY <2>1, <2>2, Zenon DEF Clean
<1> QED
  BY <1>1, <1>2, <1>3, PTL DEF Spec

-----------------------------------------------------------------------------
(* The part of the log that no crash can take away.                          *)

\* A torn frame may lie before `durable`, and frames behind it.
Kept == {i \in 1..durable : Readable(wal, i)}

\* A step keeps these frames, and what joins them comes after them.
KeptGrows ==
    /\ \A i \in Kept : i \in Kept' /\ wal'[i] = wal[i]
    /\ \A i \in Kept' \ Kept :
          i \in (durable + 1)..Len(wal) /\ Readable(wal, i) /\ wal'[i] = wal[i]

\* It is enough that the log is the same up to m and that durable' is no more.
LEMMA GrowsWithin ==
    ASSUME wal \in Seq(Frame), durable \in 0..Len(wal), wal' \in Seq(Frame),
           NEW m \in 0..Len(wal), m <= Len(wal'), \A i \in 1..m : wal'[i] = wal[i],
           durable' \in 0..m, \A i \in Kept : i <= durable'
    PROVE  KeptGrows
<1>0. Len(wal) \in Nat /\ Len(wal') \in Nat
  BY SeqLen, Zenon
<1>1. ASSUME NEW i \in Kept PROVE i \in Kept' /\ wal'[i] = wal[i]
  <2>1. i \in 1..durable' /\ i \in 1..m /\ i \in 1..Len(wal')
    BY <1>0 DEF Kept
  <2>2. \A j \in 1..i : j \in 1..m
    BY <1>0, <2>1
  <2>3. Readable(wal', i)
    BY <2>1, <2>2, Zenon DEF Kept, Readable
  <2> QED
    BY <2>1, <2>3, Zenon DEF Kept
<1>2. ASSUME NEW i \in Kept' \ Kept
      PROVE  i \in (durable + 1)..Len(wal) /\ Readable(wal, i) /\ wal'[i] = wal[i]
  <2>1. i \in 1..durable' /\ Readable(wal', i)
    BY Zenon DEF Kept
  <2>2. i \in 1..m /\ i \in 1..Len(wal) /\ \A j \in 1..i : j \in 1..m
    BY <1>0, <2>1
  <2>3. Readable(wal, i)
    BY <2>1, <2>2, Zenon DEF Readable
  <2>4. i \notin 1..durable
    BY <2>3, Zenon DEF Kept
  <2>5. i \in (durable + 1)..Len(wal)
    BY <1>0, <2>2, <2>4
  <2> QED
    BY <2>2, <2>3, <2>5, Zenon
<1> QED
  BY <1>1, <1>2, Zenon DEF KeptGrows

\* Every step of the log keeps the frames that no crash can take.
LEMMA LogGrows ==
    ASSUME OrderInv, OrderInv', LogStep
    PROVE  KeptGrows
<1>0. /\ wal \in Seq(Frame) /\ durable \in 0..Len(wal) /\ Len(wal) \in Nat
      /\ wal' \in Seq(Frame) /\ durable' \in 0..Len(wal') /\ Len(wal') \in Nat
  BY SeqLen, Zenon DEF OrderInv, WalTypeOK
<1>1. \A i \in Kept : i \in 1..durable /\ i <= durable /\ Readable(wal, i)
  BY <1>0 DEF Kept
<1>2. ASSUME durable' = durable, wal' = wal
      PROVE  KeptGrows
  <2>1. Len(wal) \in 0..Len(wal) /\ Len(wal) <= Len(wal)
    BY <1>0
  <2> QED
    BY <1>0, <1>1, <1>2, <2>1, GrowsWithin, Zenon
<1>3. ASSUME durable' = durable, NEW f \in Frame, wal' = Append(wal, f)
      PROVE  KeptGrows
  <2>1. Len(wal') = Len(wal) + 1 /\ \A i \in 1..Len(wal) : wal'[i] = wal[i]
    BY <1>0, <1>3, Extended, Zenon
  <2>2. Len(wal) \in 0..Len(wal) /\ Len(wal) <= Len(wal')
    BY <1>0, <2>1
  <2> QED
    BY <1>0, <1>1, <1>3, <2>1, <2>2, GrowsWithin, Zenon
<1>4. CASE FsyncOk
  <2>1. wal' = wal /\ durable' = Len(wal)
    BY <1>4, Zenon DEF FsyncOk
  <2>2. Len(wal) \in 0..Len(wal) /\ Len(wal) <= Len(wal)
        /\ \A i \in Kept : i <= Len(wal)
    BY <1>0, <1>1
  <2> QED
    BY <1>0, <2>1, <2>2, GrowsWithin, Zenon
<1>5. CASE LosePower
  <2>1. PICK k \in durable..Len(wal) :
          /\ wal' \in {SubSeq(wal, 1, k), Append(SubSeq(wal, 1, k), Torn)}
          /\ durable' = k
    BY <1>5, Zenon DEF LosePower
  <2>2. k \in 0..Len(wal) /\ k \in 0..k /\ (\A i \in Kept : i <= k)
    BY <1>0, <1>1
  <2> DEFINE w == SubSeq(wal, 1, k)
  <2>3. w \in Seq(Frame) /\ Len(w) = k /\ \A i \in 1..k : w[i] = wal[i]
    BY <1>0, <2>2, Prefix, Zenon
  <2> HIDE DEF w
  <2>4. k <= Len(wal') /\ \A i \in 1..k : wal'[i] = wal[i]
    <3>1. CASE wal' = w
      BY <2>2, <2>3, <3>1
    <3>2. CASE wal' = Append(w, Torn)
      <4>1. Len(wal') = k + 1 /\ \A i \in 1..k : wal'[i] = w[i]
        BY <2>3, <3>2, Extended, TornType, Zenon
      <4>2. k <= k + 1
        BY <2>2
      <4> QED
        BY <2>3, <4>1, <4>2, Zenon
    <3> QED
      BY <2>1, <3>1, <3>2, Zenon DEF w
  <2> QED
    BY <1>0, <2>1, <2>2, <2>4, GrowsWithin, Zenon
<1>6. CASE RecoverWal
  <2>1. PICK n \in 0..Len(wal) :
          /\ ParsedLength(wal, n)
          /\ wal' = SubSeq(wal, 1, n)
          /\ durable' = IF n < Len(wal) THEN n ELSE durable
    BY <1>6, Zenon DEF RecoverWal
  <2>2. Len(wal') = n /\ \A i \in 1..n : wal'[i] = wal[i]
    BY <1>0, <2>1, Prefix, Zenon
  <2>3. \A i \in Kept : i <= n
    BY <1>0, <1>1, <2>1 DEF ParsedLength, Readable
  <2>4. durable' \in 0..n /\ (\A i \in Kept : i <= durable') /\ n <= Len(wal')
    BY <1>0, <1>1, <2>1, <2>2, <2>3
  <2> QED
    BY <1>0, <2>2, <2>4, GrowsWithin, Zenon
<1>7. ASSUME NEW e \in Epochs, NEW t \in Txs, AppendOk(e, t) PROVE KeptGrows
  <2>1. GoodFrame(e, t) \in Frame
    BY WalAssumption, GoodFrameType, Zenon
  <2>2. wal' = Append(wal, GoodFrame(e, t)) /\ durable' = durable
    BY <1>7, Zenon DEF AppendOk
  <2> QED
    BY <1>3, <2>1, <2>2, Zenon
<1>8. CASE LogStep /\ ~ (\/ FsyncOk \/ LosePower \/ RecoverWal
                         \/ \E e \in Epochs, t \in Txs : AppendOk(e, t))
  <2>1. durable' = durable /\ (wal' = wal \/ wal' = Append(wal, Torn))
    BY <1>8, Zenon DEF LogStep, WalNext, AppendRefused, AppendFailed, FsyncFailed,
       KillProcess, CreateWal, walVars
  <2> QED
    BY <1>2, <1>3, <2>1, TornType, Zenon
<1> QED
  BY <1>4, <1>5, <1>6, <1>7, <1>8, Zenon

\* What was acknowledged is there.
AckedLogged == \A e \in acked : \E f \in confirmed : f.ok /\ e = EntryOf(f)

\* An acknowledgement follows the fsync of its frame.
LEMMA AckedStep ==
    ASSUME DirInv, AckedLogged, [Next]_vars
    PROVE  AckedLogged'
<1>1. confirmed \subseteq confirmed'
  BY LogSteps, Zenon DEF LogStep, WalNext, AppendRefused, AppendFailed, AppendOk,
     FsyncOk, FsyncFailed, KillProcess, LosePower, RecoverWal, CreateWal, walVars
<1>2. CASE SyncTx
  <2> DEFINE f == wal[Len(wal)]
             n == current.epoch + 1
  <2>1. /\ writing # NoTx
        /\ acked' = acked \cup {[epoch |-> n, tx |-> writing]}
        /\ confirmed' = confirmed \cup {wal[i] : i \in {j \in 1..Len(wal) : wal[j].ok}}
    BY <1>2, Zenon DEF SyncTx, FsyncOk
  <2>2. f = GoodFrame(n, writing) /\ Len(wal) > 0 /\ Len(wal) \in Nat /\ n \in Nat \ {0}
    BY <2>1, SeqLen DEF DirInv, WritingInv, TypeOK, WalTypeOK, Store
  <2>3. writing \in Txs
    BY <2>1, Zenon DEF DirInv, TypeOK
  <2>4. Len(wal) \in 1..Len(wal)
    BY <2>2
  <2> HIDE DEF f, n
  <2>5. f.ok /\ f.epoch = n /\ f.tx = writing
    BY <2>2, <2>3, GoodFrameType, Zenon
  <2>6. f \in confirmed'
    BY <2>1, <2>4, <2>5, Zenon DEF f
  <2>7. EntryOf(f) = [epoch |-> n, tx |-> writing]
    BY <2>5, Zenon DEF EntryOf
  <2> QED
    BY <1>1, <2>1, <2>5, <2>6, <2>7, Zenon DEF AckedLogged
<1>3. CASE ~ SyncTx
  <2>1. acked' = acked
    <3>1. CASE CheckpointStep
      BY <3>1, CheckpointKeeps, Zenon
    <3>2. CASE ColdStarts
      BY <3>2, ColdStartOpens, Zenon DEF OpensOn, DirInv
    <3>3. CASE ~ (CheckpointStep \/ ColdStarts)
      BY <1>3, <3>3, Steps, Zenon DEF LogTx, PublishUnlogged, LogTxErr, SyncTxErr,
         CrashProcess, CrashMachine, LoseMemory, dirVars, vars
    <3> QED
      BY <3>1, <3>2, <3>3, Zenon
  <2> QED
    BY <1>1, <2>1, Zenon DEF AckedLogged
<1> QED
  BY <1>2, <1>3, Zenon

\* What was acknowledged is in the part of the log that no crash can take.
LEMMA AckedKept ==
    ASSUME AckedLogged, SurvivalInv, NEW e \in acked
    PROVE  \E i \in Kept : e = EntryOf(wal[i])
<1>1. PICK f \in confirmed : e = EntryOf(f)
  BY Zenon DEF AckedLogged
<1>2. PICK i \in 1..durable : wal[i] = f /\ Readable(wal, i)
  BY Zenon DEF SurvivalInv, ConfirmedSurvive
<1>3. i \in Kept
  BY <1>2, Zenon DEF Kept
<1> QED
  BY <1>1, <1>2, <1>3, Zenon

\* A store that has the frames of K up to its epoch, and no later epoch.
Covered(s, w, K) ==
    /\ \A i \in K : w[i].epoch <= s.epoch => EntryOf(w[i]) \in s.entries
    /\ s.epoch # 0 => \E i \in K : s.epoch <= w[i].epoch

\* As long as every database showed only what was on stable storage in the log,
\* the log alone suffices.
OnLogInv ==
    offLog = {} =>
        /\ \A s \in Stores : Covered(s, wal, Kept)
        /\ up => \A i \in Kept : EntryOf(wal[i]) \in current.entries
        /\ open => \A i \in 1..Len(wal) :
                      wal[i].epoch <= current.epoch => EntryOf(wal[i]) \in current.entries

\* The frames of the log.
LEMMA ReadableFrame ==
    ASSUME OrderInv, NEW i, Readable(wal, i)
    PROVE  /\ i \in 1..Len(wal) /\ wal[i] \in Frame /\ wal[i].ok
           /\ wal[i].epoch \in Nat /\ wal[i].epoch > 0
<1>0. wal \in Seq(Frame) /\ Len(wal) \in Nat
  BY SeqLen, Zenon DEF OrderInv, WalTypeOK
<1>1. i \in 1..Len(wal)
  BY Zenon DEF Readable
<1>2. i \in 1..i
  BY <1>0, <1>1
<1>3. wal[i].ok
  BY <1>2, Zenon DEF Readable
<1>4. wal[i] \in Frame
  BY <1>0, <1>1, SeqElement, Zenon
<1> QED
  BY <1>1, <1>3, <1>4, FrameFields, Zenon

\* Frames behind the kept ones have later epochs than a covered store.
LEMMA BeyondKept ==
    ASSUME OrderInv, NEW s \in Store, Covered(s, wal, Kept),
           NEW i, Readable(wal, i), i \notin Kept
    PROVE  s.epoch < wal[i].epoch
<1>0. Len(wal) \in Nat /\ durable \in 0..Len(wal) /\ s.epoch \in Nat
  BY SeqLen, Zenon DEF OrderInv, WalTypeOK, Store
<1>1. i \in 1..Len(wal) /\ wal[i].ok /\ wal[i].epoch \in Nat /\ wal[i].epoch > 0
  BY ReadableFrame, Zenon
<1>2. i \notin 1..durable
  BY Zenon DEF Kept
<1>3. CASE s.epoch = 0
  BY <1>1, <1>3
<1>4. CASE s.epoch # 0
  <2>1. PICK k \in Kept : s.epoch <= wal[k].epoch
    BY <1>4, Zenon DEF Covered
  <2>2. k \in 1..durable /\ Readable(wal, k)
    BY Zenon DEF Kept
  <2>3. k \in 1..Len(wal) /\ wal[k].ok /\ wal[k].epoch \in Nat
    BY <2>2, ReadableFrame, Zenon
  <2>4. k < i
    BY <1>0, <1>1, <1>2, <2>2
  <2>5. wal[k].epoch < wal[i].epoch
    BY <1>1, <2>3, <2>4, Zenon DEF OrderInv, EpochsIncrease, Ordered
  <2> QED
    BY <1>0, <1>1, <2>1, <2>3, <2>5
<1> QED
  BY <1>3, <1>4, Zenon

\* A covered store stays covered.
LEMMA StillCovered ==
    ASSUME OrderInv, KeptGrows, NEW s \in Store, Covered(s, wal, Kept)
    PROVE  Covered(s, wal', Kept')
<1>1. ASSUME NEW i \in Kept', wal'[i].epoch <= s.epoch
      PROVE  EntryOf(wal'[i]) \in s.entries
  <2>1. CASE i \in Kept
    BY <1>1, <2>1, Zenon DEF KeptGrows, Covered
  <2>2. CASE i \notin Kept
    <3>1. Readable(wal, i) /\ wal'[i] = wal[i]
      BY <2>2, Zenon DEF KeptGrows
    <3>2. s.epoch < wal[i].epoch /\ wal[i].epoch \in Nat /\ s.epoch \in Nat
      BY <2>2, <3>1, BeyondKept, ReadableFrame, Zenon DEF Store
    <3> QED
      BY <1>1, <3>1, <3>2
  <2> QED
    BY <2>1, <2>2, Zenon
<1>2. ASSUME s.epoch # 0
      PROVE  \E i \in Kept' : s.epoch <= wal'[i].epoch
  BY <1>2, Zenon DEF Covered, KeptGrows
<1> QED
  BY <1>1, <1>2, Zenon DEF Covered

\* The replay of the log onto a covered store has everything that can be read.
LEMMA ReplayCovers ==
    ASSUME OrderInv, NEW s \in Store, Covered(s, wal, Kept), NEW r, Replayed(s, r),
           NEW i, Readable(wal, i)
    PROVE  EntryOf(wal[i]) \in r.entries
<1>1. i \in 1..Len(wal) /\ wal[i].epoch \in Nat /\ s.epoch \in Nat
  BY ReadableFrame, Zenon DEF Store
<1>2. CASE s.epoch < wal[i].epoch
  BY <1>1, <1>2, Zenon DEF Replayed
<1>3. CASE wal[i].epoch <= s.epoch
  <2>1. ~ s.epoch < wal[i].epoch
    BY <1>1, <1>3
  <2>2. i \in Kept
    BY <2>1, BeyondKept, Zenon
  <2> QED
    BY <1>3, <2>2, Zenon DEF Covered, Replayed
<1> QED
  BY <1>1, <1>2, <1>3

\* The log after a cold start: all that can be read of it and nothing else, if
\* it was recovered, or the same as before.
LEMMA OpenedLog ==
    ASSUME OrderInv, NEW s, OpensOn(s), logFile
    PROVE  /\ \A i \in 1..Len(wal) :
                 Readable(wal, i) => i \in 1..Len(wal') /\ wal'[i] = wal[i]
                                       /\ Readable(wal', i)
           /\ ~ open /\ open' => \A i \in 1..Len(wal') : Readable(wal, i)
<1>0. wal \in Seq(Frame) /\ Len(wal) \in Nat
  BY SeqLen, Zenon DEF OrderInv, WalTypeOK
<1>1. CASE UNCHANGED walVars
  BY <1>1, Zenon DEF walVars, Readable
<1>2. CASE RecoverWal
  <2>1. PICK n \in 0..Len(wal) : ParsedLength(wal, n) /\ wal' = SubSeq(wal, 1, n)
    BY <1>2, Zenon DEF RecoverWal
  <2>2. Len(wal') = n /\ \A i \in 1..n : wal'[i] = wal[i]
    BY <1>0, <2>1, Prefix, Zenon
  <2>3. \A i \in 1..Len(wal) : Readable(wal, i) <=> i \in 1..n
    BY <1>0, <2>1 DEF Readable, ParsedLength
  <2>4. \A i \in 1..n : i \in 1..Len(wal) /\ \A j \in 1..i : j \in 1..n
    BY <1>0
  <2>5. \A i \in 1..n : Readable(wal', i)
    BY <2>2, <2>3, <2>4, Zenon DEF Readable
  <2> QED
    BY <2>2, <2>3, <2>4, <2>5, Zenon
<1> QED
  BY <1>1, <1>2, Zenon DEF OpensOn

\* A position of 1..n that is not in 1..m.
LEMMA Behind ==
    ASSUME NEW m \in Nat, NEW n \in Nat, NEW i \in 1..n, i \notin 1..m
    PROVE  i \in (m + 1)..n
  OBVIOUS

\* With nothing shown before it was synced, a cold start reads only kept frames.
LEMMA OpenedKept ==
    ASSUME OrderInv, ParseInv, NEW s \in Store, Covered(s, wal, Kept), OpensOn(s),
           logFile, offLog' = {}, durable' \in Nat, Len(wal') \in Nat,
           NEW i, Readable(wal, i)
    PROVE  i \in Kept' /\ wal'[i] = wal[i] /\ EntryOf(wal[i]) \in current'.entries
<1>1. Replayed(s, current')
  <2>1. wal \in Seq(Frame) /\ Ordered(wal)
    BY Zenon DEF OrderInv, WalTypeOK, EpochsIncrease
  <2>2. current' = Replay(s)
    BY Zenon DEF OpensOn
  <2> QED
    BY <2>1, <2>2, ReplayExact, Zenon
<1>2. EntryOf(wal[i]) \in current'.entries
  <2> DEFINE r == current'
  <2>1. Replayed(s, r)
    BY <1>1, Zenon
  <2> HIDE DEF r
  <2>2. EntryOf(wal[i]) \in r.entries
    BY <2>1, ReplayCovers, Zenon
  <2> QED
    BY <2>2, Zenon DEF r
<1>3. i \in 1..Len(wal') /\ wal'[i] = wal[i] /\ Readable(wal', i)
  BY OpenedLog, ReadableFrame, Zenon
<1>4. i \in 1..durable'
  <2> SUFFICES ASSUME i \notin 1..durable' PROVE FALSE
    OBVIOUS
  <2>1. i \in (durable' + 1)..Len(wal')
    BY <1>3, Behind, Zenon
  <2>2. EntryOf(wal'[i]) \in Unsynced'
    BY <2>1, Zenon DEF Unsynced, EntryOf
  <2>3. offLog' = offLog \cup (current'.entries \cap Unsynced')
    BY Zenon DEF OpensOn
  <2> HIDE DEF Unsynced
  <2>4. EntryOf(wal[i]) \in Unsynced'
    BY <1>3, <2>2, Zenon
  <2> QED
    BY <1>2, <2>3, <2>4, Zenon
<1> QED
  BY <1>2, <1>3, <1>4, Zenon DEF Kept

\* A cold start that shows nothing before its time.
LEMMA OnLogOpens ==
    ASSUME DirInv, DirInv', KeptGrows, OnLogInv, ColdStarts, offLog' = {}
    PROVE  /\ Covered(current', wal', Kept')
           /\ \A i \in Kept' : EntryOf(wal'[i]) \in current'.entries
           /\ open' => \A i \in 1..Len(wal') : EntryOf(wal'[i]) \in current'.entries
<1>0. /\ TypeOK /\ OrderInv /\ ParseInv /\ durable' \in Nat /\ Len(wal') \in Nat
      /\ wal \in Seq(Frame) /\ Len(wal) \in Nat
  BY SeqLen DEF DirInv, TypeOK, WalTypeOK
<1>1. PICK s \in Store : OpensOn(s)
  BY <1>0, ColdStartOpens, Zenon
<1>2. offLog = {} /\ ~ up /\ ~ open
  BY <1>0, <1>1, Zenon DEF OpensOn, TypeOK
<1>3. s \in Stores
  <2>1. CASE s = Genesis
    BY <2>1, StoresHeld, Zenon
  <2>2. CASE Loadable /\ s = Loaded
    <3>1. 1 \in 1..Len(file["chk"].blocks)
      BY <1>0, <2>2, LoadedType, Zenon
    <3>2. s \in InFile(file["chk"])
      BY <2>2, <3>1, Zenon DEF Loaded, InFile, StoresOf
    <3> QED
      BY <3>2, StoresHeld, Zenon DEF Places
  <2> QED
    BY <1>1, <2>1, <2>2, Zenon DEF OpensOn
<1>4. Covered(s, wal, Kept)
  BY <1>2, <1>3, Zenon DEF OnLogInv
<1>5. Covered(s, wal', Kept')
  BY <1>0, <1>4, StillCovered, Zenon
<1>6. CASE ~ logFile
  <2>1. current' = s /\ wal' = wal /\ wal = << >>
    BY <1>1, <1>6, Zenon DEF OpensOn, CreateWal, walVars, DirInv, LogFileInv
  <2>2. (\A i \in 1..Len(wal') : FALSE) /\ \A i \in Kept' : FALSE
    BY <2>1 DEF Kept, Readable
  <2> QED
    BY <1>5, <2>1, <2>2, Zenon
<1>7. CASE logFile
  <2>1. \A i : Readable(wal, i) =>
          i \in Kept' /\ wal'[i] = wal[i] /\ EntryOf(wal[i]) \in current'.entries
    BY <1>0, <1>1, <1>4, <1>7, OpenedKept, Zenon
  <2>2. ASSUME NEW i \in Kept' PROVE EntryOf(wal'[i]) \in current'.entries
    <3>1. Readable(wal, i)
      BY Zenon DEF KeptGrows, Kept
    <3> QED
      BY <2>1, <3>1, Zenon
  <2>3. ASSUME open', NEW i \in 1..Len(wal') PROVE EntryOf(wal'[i]) \in current'.entries
    <3>1. Readable(wal, i)
      BY <1>0, <1>1, <1>2, <1>7, <2>3, OpenedLog, Zenon
    <3> QED
      BY <2>1, <3>1, Zenon
  <2>4. ASSUME current'.epoch # 0
        PROVE  \E i \in Kept' : current'.epoch <= wal'[i].epoch
    <3>1. Replayed(s, current')
      BY <1>0, <1>1, <1>7, ReplayExact, Zenon DEF OpensOn, OrderInv, EpochsIncrease
    <3>2. CASE current'.epoch = s.epoch
      BY <1>5, <2>4, <3>2, Zenon DEF Covered
    <3>3. CASE current'.epoch # s.epoch
      <4>1. PICK i \in 1..Len(wal) : Readable(wal, i) /\ wal[i].epoch = current'.epoch
        BY <3>1, <3>3, Zenon DEF Replayed
      <4>2. wal[i].epoch \in Nat /\ i \in Kept' /\ wal'[i] = wal[i]
        BY <1>0, <2>1, <4>1, ReadableFrame, Zenon
      <4>3. current'.epoch <= wal'[i].epoch
        BY <4>1, <4>2
      <4> QED
        BY <4>2, <4>3, Zenon
    <3> QED
      BY <3>2, <3>3, Zenon
  <2>5. Covered(current', wal', Kept')
    BY <2>2, <2>4, Zenon DEF Covered
  <2> QED
    BY <2>2, <2>3, <2>5, Zenon
<1> QED
  BY <1>6, <1>7, Zenon

\* The sync of a transaction: its frame, and all before it, are kept.
LEMMA OnLogSync ==
    ASSUME DirInv, SurvivalInv, OnLogInv, SyncTx, offLog = {}
    PROVE  /\ Covered(current', wal', Kept')
           /\ \A i \in 1..Len(wal') : EntryOf(wal'[i]) \in current'.entries
<1> DEFINE m == Len(wal)
           n == current.epoch + 1
           x == [epoch |-> n, tx |-> writing]
<1>1. /\ writing # NoTx /\ open /\ wal' = wal /\ durable' = Len(wal)
      /\ current' = With(current, writing)
  BY Zenon DEF SyncTx, FsyncOk
<1>2. /\ wal \in Seq(Frame) /\ Ordered(wal) /\ current \in Store /\ writing \in Txs
      /\ wal[m] = GoodFrame(n, writing) /\ m > 0
  BY <1>1, Zenon DEF DirInv, WritingInv, OrderInv, EpochsIncrease, TypeOK, WalTypeOK
<1>3. /\ m \in Nat /\ m \in 1..m /\ current.epoch \in Nat /\ n \in Nat \ {0} /\ n # 0 /\ n <= n
  BY <1>2, SeqLen DEF Store
<1>4. current'.epoch = n /\ current'.entries = current.entries \cup {x}
  BY <1>1, <1>2, WithType, Zenon
<1>5. wal[m].epoch = n /\ EntryOf(wal[m]) = x
  <2>1. GoodFrame(n, writing).epoch = n /\ GoodFrame(n, writing).tx = writing
    BY <1>2, <1>3, GoodFrameType, Zenon
  <2> HIDE DEF n, m
  <2> QED
    BY <1>2, <2>1, Zenon DEF EntryOf
<1>6. \A i \in 1..m : wal[i].ok /\ wal[i] \in Frame /\ wal[i].epoch \in Nat
  BY <1>1, <1>2, SeqElement, FrameFields, Zenon DEF SurvivalInv
<1>7. ASSUME NEW i \in 1..m PROVE EntryOf(wal[i]) \in current'.entries
  <2>1. CASE i = m
    BY <1>4, <1>5, <2>1, Zenon
  <2>2. CASE i # m
    <3>1. i < m
      BY <1>3, <2>2
    <3>2. wal[i].epoch < wal[m].epoch
      BY <1>3, <1>6, <1>2, <3>1, Zenon DEF Ordered
    <3>3. wal[i].epoch <= current.epoch
      BY <1>3, <1>5, <1>6, <3>2
    <3>4. EntryOf(wal[i]) \in current.entries
      BY <1>1, <3>3, Zenon DEF OnLogInv
    <3> QED
      BY <1>4, <3>4, Zenon
  <2> QED
    BY <2>1, <2>2, Zenon
<1>8. m \in Kept'
  <2>1. \A j \in 1..m : wal'[j].ok
    BY <1>1, <1>6, Zenon
  <2> QED
    BY <1>1, <1>3, <2>1, Zenon DEF Kept, Readable
<1>9. \A i \in Kept' : i \in 1..m
  BY <1>1, Zenon DEF Kept
<1> HIDE DEF m, n, x
<1>10. Covered(current', wal', Kept')
  BY <1>1, <1>3, <1>4, <1>5, <1>7, <1>8, <1>9, Zenon DEF Covered
<1> QED
  BY <1>1, <1>7, <1>10, Zenon DEF m

\* One step keeps the log sufficient.
LEMMA OnLogStep ==
    ASSUME DirInv, DirInv', SurvivalInv, OnLogInv, [Next]_vars, ~ TornAppend
    PROVE  OnLogInv'
<1>0. TypeOK /\ OrderInv /\ OrderInv' /\ wal \in Seq(Frame) /\ current \in Store
  BY Zenon DEF DirInv, TypeOK, WalTypeOK
<1>1. KeptGrows
  BY <1>0, LogSteps, LogGrows, Zenon
<1> SUFFICES ASSUME offLog' = {} PROVE OnLogInv'
  BY Zenon DEF OnLogInv
<1>2. offLog = {}
  <2>1. CASE CheckpointStep
    BY <2>1, CheckpointKeeps, Zenon
  <2>2. CASE ColdStarts
    BY <1>0, <2>2, ColdStartOpens, Zenon DEF OpensOn
  <2>3. CASE ~ (CheckpointStep \/ ColdStarts)
    BY <2>3, Steps, Zenon DEF LogTx, PublishUnlogged, LogTxErr, SyncTx, SyncTxErr,
       CrashProcess, CrashMachine, LoseMemory, dirVars, vars
  <2> QED
    BY <2>1, <2>2, <2>3, Zenon
<1>3. /\ \A s \in Stores : Covered(s, wal, Kept)
      /\ up => \A i \in Kept : EntryOf(wal[i]) \in current.entries
      /\ open => \A i \in 1..Len(wal) :
                    wal[i].epoch <= current.epoch => EntryOf(wal[i]) \in current.entries
  BY <1>2, Zenon DEF OnLogInv
<1>4. \A s \in Stores : Covered(s, wal', Kept')
  BY <1>0, <1>1, <1>3, StoresTyped, StillCovered, Zenon
<1>5. ASSUME current' \in Stores \/ Covered(current', wal', Kept'),
             up' => \A i \in Kept' : EntryOf(wal'[i]) \in current'.entries,
             open' => \A i \in 1..Len(wal') :
                 wal'[i].epoch <= current'.epoch => EntryOf(wal'[i]) \in current'.entries
      PROVE  OnLogInv'
  <2>1. \A s \in Stores' : Covered(s, wal', Kept')
    BY <1>0, <1>4, <1>5, StoresStep, Zenon
  <2> QED
    BY <1>5, <2>1, Zenon DEF OnLogInv
<1>6. ASSUME UNCHANGED <<wal, durable, current, up, open>> PROVE OnLogInv'
  <2>1. Kept' = Kept /\ current' \in Stores
    BY <1>6, StoresHeld, Zenon DEF Kept
  <2> QED
    BY <1>3, <1>5, <1>6, <2>1, Zenon
<1>7. ASSUME NEW t \in Txs, LogTx(t) PROVE OnLogInv'
  <2> DEFINE n == current.epoch + 1
             f == GoodFrame(n, t)
  <2>1. wal' = Append(wal, f) /\ UNCHANGED <<durable, current, up, open>>
    BY <1>7, Zenon DEF LogTx, AppendOk
  <2>2. n \in Nat \ {0} /\ current.epoch \in Nat /\ ~ (n <= current.epoch)
    BY <1>0 DEF Store
  <2>3. f \in Frame /\ f.epoch = n
    BY <2>2, GoodFrameType, Zenon
  <2> HIDE DEF f
  <2>4. /\ Len(wal') = Len(wal) + 1
        /\ \A i \in 1..Len(wal) : wal'[i] = wal[i]
        /\ wal'[Len(wal) + 1] = f
    BY <1>0, <2>1, <2>3, Extended, Zenon
  <2>5. \A i \in 1..Len(wal') : i \in 1..Len(wal) \/ i = Len(wal) + 1
    BY <1>0, <2>4, SeqLen
  <2>6. ASSUME NEW i \in Kept' PROVE i \in Kept /\ wal'[i] = wal[i]
    <3>1. i \in 1..durable /\ durable \in Nat
      BY <1>0, <2>1 DEF Kept, OrderInv, WalTypeOK
    <3>2. i \notin (durable + 1)..Len(wal)
      BY <3>1
    <3> QED
      BY <1>1, <3>2, Zenon DEF KeptGrows
  <2> HIDE DEF n
  <2>7. ASSUME open', NEW i \in 1..Len(wal'), wal'[i].epoch <= current'.epoch
        PROVE  EntryOf(wal'[i]) \in current'.entries
    <3>1. CASE i \in 1..Len(wal)
      BY <1>3, <2>1, <2>4, <2>7, <3>1, Zenon
    <3>2. CASE i = Len(wal) + 1
      BY <2>1, <2>2, <2>3, <2>4, <2>7, <3>2, Zenon
    <3> QED
      BY <2>5, <3>1, <3>2, Zenon
  <2>8. up' => \A i \in Kept' : EntryOf(wal'[i]) \in current'.entries
    BY <1>3, <2>1, <2>6, Zenon
  <2>9. current' \in Stores
    BY <2>1, StoresHeld, Zenon
  <2> QED
    BY <1>5, <2>7, <2>8, <2>9, Zenon
<1>8. CASE SyncTx
  <2>1. Covered(current', wal', Kept')
        /\ \A i \in 1..Len(wal') : EntryOf(wal'[i]) \in current'.entries
    BY <1>2, <1>8, OnLogSync, Zenon
  <2>2. \A i \in Kept' : i \in 1..Len(wal')
    BY Zenon DEF Kept, Readable
  <2> QED
    BY <1>5, <2>1, <2>2, Zenon
<1>9. ASSUME NEW t \in Txs, PublishUnlogged(t) PROVE OnLogInv'
  BY <1>9, Zenon DEF PublishUnlogged
<1>10. CASE CrashProcess \/ CrashMachine
  <2>1. current' = Genesis /\ ~ up' /\ ~ open'
    <3>1. CASE CrashProcess
      <4>1. current' = Genesis /\ ~ up'
        BY <3>1, Zenon DEF CrashProcess, LoseMemory
      <4>2. CASE KillProcess
        BY <4>1, <4>2, Zenon DEF KillProcess
      <4>3. CASE ~ open /\ open' = open
        BY <4>1, <4>3, Zenon
      <4> QED
        BY <3>1, <4>2, <4>3, Zenon DEF CrashProcess
    <3>2. CASE CrashMachine
      BY <3>2, Zenon DEF CrashMachine, LoseMemory, LosePower
    <3> QED
      BY <1>10, <3>1, <3>2, Zenon
  <2> QED
    BY <1>5, <2>1, StoresHeld, Zenon
<1>11. CASE ColdStarts
  BY <1>1, <1>5, <1>11, OnLogOpens, Zenon
<1>12. CASE LogTxErr \/ SyncTxErr \/ CheckpointStep \/ UNCHANGED vars
  <2>1. UNCHANGED <<wal, durable, current, up, open>>
    BY <1>12, CheckpointKeeps, Zenon DEF LogTxErr, SyncTxErr, AppendRefused, AppendFailed,
       FsyncFailed, dirVars, walVars, vars
  <2> QED
    BY <1>6, <2>1, Zenon
<1> QED
  BY <1>7, <1>8, <1>9, <1>10, <1>11, <1>12, Steps, Zenon

-----------------------------------------------------------------------------
(* The checkpoint and the log together, in an unspoiled directory: whichever *)
(* checkpoint a restart finds has what earlier ones saved and what was       *)
(* acknowledged up to its epoch, so the log has the rest.                    *)

InStore(f) == f.blocks[1].store

\* s has all of v, and of a what is not above its epoch.
Guards(s, a, v) == v \subseteq s.entries /\ \A e \in a : e.epoch <= s.epoch => e \in s.entries

\* May a restart read the checkpoint of place p?
MayFind(p) == p = "old" => ~ dirSynced

FoundSafe(p) ==
    MayFind(p) =>
        /\ ~ file[p].exists => saved = {}
        /\ file[p].exists =>
              /\ Guards(InStore(file[p]), acked, saved)
              /\ InStore(file[p]).epoch <= InStore(file["chk"]).epoch

WriterSafe(c) ==
    ~ Idle(c) =>
        /\ Guards(ck[c].store, acked, saved)
        /\ ck[c].store.epoch <= current.epoch
        /\ ck[c].store.entries \subseteq current.entries
        /\ file["chk"].exists => InStore(file["chk"]).epoch <= ck[c].store.epoch

SafeInv ==
    ~ spoiled =>
        /\ ~ dirSynced => file["chk"].exists
        /\ FoundSafe("chk") /\ FoundSafe("old")
        /\ \A c \in Checkpointers : WriterSafe(c)
        /\ up => acked \cup saved \subseteq current.entries
        /\ up /\ file["chk"].exists => InStore(file["chk"]).epoch <= current.epoch

\* The store of a whole checkpoint.
LEMMA InStoreType ==
    ASSUME NEW f \in File, f.exists, Clean(f)
    PROVE  InStore(f) \in Store /\ InStore(f).epoch \in Nat
<1>1. f.blocks \in Seq(Block) /\ f.blocks # << >>
  BY Zenon DEF File, Clean, Whole
<1>2. 1 \in 1..Len(f.blocks)
  BY <1>1, SeqEmpty, SeqLen
<1>3. f.blocks[1] \in Block
  BY <1>1, <1>2, SeqElement, Zenon
<1> QED
  BY <1>3, Zenon DEF InStore, Block, Store

\* The store of a finished file.
LEMMA InFinished ==
    ASSUME NEW s \in Store
    PROVE  Finished(s).exists /\ InStore(Finished(s)) = s
  BY ImageWhole, Zenon DEF InStore

\* An acknowledged entry above the epoch of a store asks nothing of it.
LEMMA GuardsMore ==
    ASSUME NEW s, NEW a, NEW v, NEW e, Guards(s, a, v), ~ (e.epoch <= s.epoch)
    PROVE  Guards(s, a \cup {e}, v)
  BY Zenon DEF Guards

\* A step of the one checkpoint.
LEMMA SafeTidy ==
    ASSUME TypeOK, HandleInv, FileInv, SafeInv, ~ spoiled, NEW c \in Checkpointers, Tidy(c),
           UNCHANGED <<up, current, acked>>
    PROVE  SafeInv'
<1>0. /\ \A d \in Checkpointers \ {c} : Idle(d) /\ Idle(d)'
      /\ current \in Store /\ current.epoch \in Nat /\ ck[c].store \in Store
      /\ ck[c].store.epoch \in Nat
      /\ file["chk"] \in File /\ file["old"] \in File /\ FilesClean
  BY HandleFields, FileFields, Zenon DEF TypeOK, Store, FileInv, Places, Tidy
<1>1. /\ ~ dirSynced => file["chk"].exists
      /\ FoundSafe("chk") /\ FoundSafe("old") /\ WriterSafe(c)
      /\ up => acked \cup saved \subseteq current.entries
      /\ up /\ file["chk"].exists => InStore(file["chk"]).epoch <= current.epoch
  BY Zenon DEF SafeInv
<1>2. ASSUME WriterSafe(c)', FoundSafe("chk")', FoundSafe("old")',
             dirSynced' \/ file'["chk"].exists,
             up' => acked' \cup saved' \subseteq current'.entries,
             up' /\ file'["chk"].exists => InStore(file'["chk"]).epoch <= current'.epoch
      PROVE  SafeInv'
  <2>1. \A d \in Checkpointers : WriterSafe(d)'
    BY <1>0, <1>2, Zenon DEF WriterSafe
  <2> QED
    BY <1>2, <2>1, Zenon DEF SafeInv
<1>3. up
  BY Zenon DEF HandleInv, Tidy
<1>5. CASE /\ WriterSafe(c)'
           /\ UNCHANGED <<file["chk"], file["old"], dirSynced, saved>>
  <2>1. FoundSafe("chk")' /\ FoundSafe("old")'
    BY <1>1, <1>5, Zenon DEF FoundSafe, MayFind
  <2> QED
    BY <1>1, <1>2, <1>5, <2>1, Zenon
<1>6. CASE /\ Idle(c) /\ ~ Idle(c)' /\ ck'[c].store = current
           /\ UNCHANGED <<file["chk"], file["old"], dirSynced, saved>>
  <2>1. Guards(current, acked, saved)
    BY <1>1, <1>3, Zenon DEF Guards
  <2>2. current.epoch <= current.epoch
    BY <1>0
  <2>3. WriterSafe(c)'
    BY <1>1, <1>3, <1>6, <2>1, <2>2, Zenon DEF WriterSafe
  <2> QED
    BY <1>5, <1>6, <2>3, Zenon
<1>7. CASE /\ ~ Idle(c) /\ (Idle(c)' \/ ck'[c].store = ck[c].store)
           /\ UNCHANGED <<file["chk"], file["old"], dirSynced, saved>>
  <2>1. WriterSafe(c)'
    BY <1>1, <1>7, Zenon DEF WriterSafe
  <2> QED
    BY <1>5, <1>7, <2>1, Zenon
<1> DEFINE s == ck[c].store
<1>8. Finished(s).exists /\ InStore(Finished(s)) = s /\ s.epoch <= s.epoch
  BY <1>0, InFinished
<1>9. CASE /\ ~ Idle(c) /\ ~ Idle(c)' /\ ck'[c].store = ck[c].store
           /\ file'["chk"] = Finished(ck[c].store)
           /\ \/ file'["old"] = file["chk"]
              \/ ~ dirSynced /\ file'["old"] = file["old"]
           /\ ~ dirSynced' /\ UNCHANGED saved
  <2>1. /\ Guards(s, acked, saved) /\ s.epoch <= current.epoch
        /\ s.entries \subseteq current.entries
        /\ file["chk"].exists => InStore(file["chk"]).epoch <= s.epoch
    BY <1>1, <1>9, Zenon DEF WriterSafe
  <2>2. file'["chk"].exists /\ InStore(file'["chk"]) = s
    BY <1>8, <1>9, Zenon
  <2> HIDE DEF s
  <2>3. FoundSafe("chk")'
    BY <1>8, <1>9, <2>1, <2>2, Zenon DEF FoundSafe
  <2>4. WriterSafe(c)'
    BY <1>8, <1>9, <2>1, <2>2, Zenon DEF WriterSafe, s
  <2>5. FoundSafe("old")'
    <3>1. CASE file'["old"] = file["chk"]
      BY <1>1, <1>9, <2>1, <2>2, <3>1, Zenon DEF FoundSafe, MayFind
    <3>2. CASE ~ dirSynced /\ file'["old"] = file["old"]
      <4>1. ASSUME file["old"].exists
            PROVE  InStore(file["old"]).epoch <= s.epoch
        <5>1. InStore(file["old"]).epoch <= InStore(file["chk"]).epoch
          BY <1>1, <3>2, <4>1, Zenon DEF FoundSafe, MayFind
        <5>2. file["chk"].exists
          BY <1>1, <3>2, Zenon
        <5>3. InStore(file["old"]).epoch \in Nat /\ InStore(file["chk"]).epoch \in Nat
          BY <1>0, <3>2, <4>1, <5>2, InStoreType, Zenon DEF FilesClean
        <5>4. InStore(file["chk"]).epoch <= s.epoch
          BY <2>1, <5>2, Zenon
        <5> DEFINE x == InStore(file["old"]).epoch
                   y == InStore(file["chk"]).epoch
                   z == s.epoch
        <5>5. x \in Nat /\ y \in Nat /\ z \in Nat /\ x <= y /\ y <= z
          BY <1>0, <5>1, <5>3, <5>4, Zenon DEF s
        <5> HIDE DEF x, y, z
        <5>6. x <= z
          BY <5>5
        <5> QED
          BY <5>6, Zenon DEF x, z
      <4>2. (~ file["old"].exists => saved = {})
            /\ (file["old"].exists => Guards(InStore(file["old"]), acked, saved))
        BY <1>1, <3>2, Zenon DEF FoundSafe, MayFind
      <4> QED
        BY <1>9, <2>2, <3>2, <4>1, <4>2, Zenon DEF FoundSafe
    <3> QED
      BY <1>9, <3>1, <3>2, Zenon
  <2>6. up' => acked' \cup saved' \subseteq current'.entries
    BY <1>1, <1>9, Zenon
  <2>7. InStore(file'["chk"]).epoch <= current'.epoch
    BY <2>1, <2>2, Zenon
  <2> QED
    BY <1>2, <2>2, <2>3, <2>4, <2>5, <2>6, <2>7, Zenon
<1>10. CASE /\ ~ Idle(c) /\ Idle(c)'
            /\ file["chk"] = Finished(ck[c].store) /\ UNCHANGED file["chk"]
            /\ dirSynced' /\ saved' = saved \cup ck[c].store.entries
  <2>1. /\ Guards(s, acked, saved) /\ s.epoch <= current.epoch
        /\ s.entries \subseteq current.entries
    BY <1>1, <1>10, Zenon DEF WriterSafe
  <2>2. file'["chk"].exists /\ InStore(file'["chk"]) = s
    BY <1>8, <1>10, Zenon
  <2>3. Guards(s, acked', saved')
    BY <1>10, <2>1, Zenon DEF Guards
  <2>4. WriterSafe(c)'
    BY <1>10, Zenon DEF WriterSafe
  <2> HIDE DEF s
  <2>5. FoundSafe("chk")'
    BY <1>8, <2>2, <2>3, Zenon DEF FoundSafe
  <2>6. FoundSafe("old")'
    BY <1>10, Zenon DEF FoundSafe, MayFind
  <2>7. acked' \cup saved' \subseteq current'.entries
    BY <1>1, <1>3, <1>10, <2>1, Zenon DEF s
  <2>8. InStore(file'["chk"]).epoch <= current'.epoch
    BY <2>1, <2>2, Zenon
  <2> QED
    BY <1>2, <2>2, <2>4, <2>5, <2>6, <2>7, <2>8, Zenon
<1> QED
  BY <1>6, <1>7, <1>9, <1>10, Zenon DEF Tidy

\* What a cold start of an unspoiled directory opens has everything.
LEMMA SafeOpens ==
    ASSUME DirInv, SurvivalInv, AckedLogged, FileInv, SafeInv, ColdStarts,
           ~ spoiled, ~ spoiled'
    PROVE  /\ acked \cup saved \subseteq current'.entries
           /\ file["chk"].exists => InStore(file["chk"]).epoch <= current'.epoch
<1>0. TypeOK /\ OrderInv /\ ParseInv /\ FilesClean /\ file["chk"] \in File
  BY FileFields, Zenon DEF DirInv, FileInv, Places
<1>1. PICK s \in Store : OpensOn(s)
  BY <1>0, ColdStartOpens, Zenon
<1>2. /\ file["chk"].exists => s = InStore(file["chk"])
      /\ ~ file["chk"].exists => s = Genesis
  BY <1>0, <1>1, Zenon DEF OpensOn, HasCheckpoint, Loadable, Loaded, FilesClean, Clean,
     InStore
<1>3. Guards(s, acked, saved)
  <2>1. CASE file["chk"].exists
    <3>1. "chk" # "old"
      OBVIOUS
    <3> QED
      BY <1>2, <2>1, <3>1, Zenon DEF SafeInv, FoundSafe, MayFind
  <2>2. CASE ~ file["chk"].exists
    <3>0. "chk" # "old"
      OBVIOUS
    <3>1. saved = {} /\ s.epoch = 0
      BY <1>2, <2>2, <3>0, ConstantTypes, Zenon DEF SafeInv, FoundSafe, MayFind
    <3>2. ASSUME NEW e \in acked PROVE ~ (e.epoch <= s.epoch)
      <4>1. PICK i \in Kept : e = EntryOf(wal[i])
        BY AckedKept, Zenon
      <4>2. Readable(wal, i)
        BY Zenon DEF Kept
      <4>3. wal[i] \in Frame /\ wal[i].ok /\ wal[i].epoch \in Nat /\ wal[i].epoch > 0
        BY <1>0, <4>2, ReadableFrame, Zenon
      <4>4. e.epoch = wal[i].epoch
        BY <4>1, <4>3, FrameEntry, Zenon
      <4> QED
        BY <3>1, <4>3, <4>4
    <3> QED
      BY <3>1, <3>2, Zenon DEF Guards
  <2> QED
    BY <2>1, <2>2, Zenon
<1>4. s.epoch \in Nat /\ s.epoch <= s.epoch
  BY DEF Store
<1>5. CASE ~ logFile
  <2>1. current' = s
    BY <1>1, <1>5, Zenon DEF OpensOn
  <2>2. acked = {}
    BY <1>5, Zenon DEF DirInv, LogFileInv, AckedLogged
  <2> QED
    BY <1>2, <1>3, <1>4, <2>1, <2>2, Zenon DEF Guards
<1>6. CASE logFile
  <2>1. Replayed(s, current')
    <3>1. wal \in Seq(Frame) /\ Ordered(wal)
      BY <1>0, Zenon DEF OrderInv, WalTypeOK, EpochsIncrease
    <3> QED
      BY <1>0, <1>1, <1>6, <3>1, ReplayExact, Zenon DEF OpensOn
  <2>2. ASSUME NEW e \in acked PROVE e \in current'.entries
    <3>1. PICK i \in Kept : e = EntryOf(wal[i])
      BY AckedKept, Zenon
    <3>2. Readable(wal, i)
      BY Zenon DEF Kept
    <3>3. /\ i \in 1..Len(wal) /\ wal[i] \in Frame /\ wal[i].ok /\ wal[i].epoch \in Nat
      BY <1>0, <3>2, ReadableFrame, Zenon
    <3>4. e.epoch = wal[i].epoch
      BY <3>1, <3>3, FrameEntry, Zenon
    <3>5. e.epoch <= s.epoch \/ s.epoch < wal[i].epoch
      BY <1>4, <3>3, <3>4
    <3> QED
      BY <1>3, <2>1, <3>1, <3>2, <3>3, <3>5, Zenon DEF Guards, Replayed
  <2>3. s.entries \subseteq current'.entries /\ s.epoch <= current'.epoch
    BY <2>1, Zenon DEF Replayed
  <2> QED
    BY <1>2, <1>3, <2>2, <2>3, Zenon DEF Guards
<1> QED
  BY <1>5, <1>6, Zenon

\* A commit: its entry, if it is acknowledged, is above every checkpoint.
LEMMA SafeCommit ==
    ASSUME TypeOK, FileInv, SafeInv, ~ spoiled, NEW t \in Txs, up,
           current' = With(current, t),
           acked' \in {acked, acked \cup {[epoch |-> current.epoch + 1, tx |-> t]}},
           UNCHANGED <<up, file, dirSynced, ck, saved>>
    PROVE  SafeInv'
<1> DEFINE n == current.epoch + 1
           x == [epoch |-> n, tx |-> t]
<1>0. /\ current \in Store /\ current.epoch \in Nat /\ FilesClean
      /\ file["chk"] \in File /\ file["old"] \in File
  BY FileFields, Zenon DEF TypeOK, Store, FileInv, Places
<1>1. current'.epoch = n /\ current'.entries = current.entries \cup {x}
  BY <1>0, WithType, Zenon
<1>2. x.epoch = n
  BY Zenon
<1>3. \A k \in Nat : k <= current.epoch => k <= n /\ ~ (n <= k)
  BY <1>0
<1> HIDE DEF n, x
<1>4. acked' = acked \/ acked' = acked \cup {x}
  BY Zenon DEF x, n
<1>5. /\ ~ dirSynced => file["chk"].exists
      /\ FoundSafe("chk") /\ FoundSafe("old")
      /\ \A c \in Checkpointers : WriterSafe(c)
      /\ acked \cup saved \subseteq current.entries
      /\ file["chk"].exists => InStore(file["chk"]).epoch <= current.epoch
  BY Zenon DEF SafeInv
<1>6. ASSUME NEW s \in Store, Guards(s, acked, saved), s.epoch <= current.epoch
      PROVE  Guards(s, acked', saved') /\ s.epoch <= current'.epoch
  <2>1. s.epoch \in Nat
    BY Zenon DEF Store
  <2>2. s.epoch <= n /\ ~ (x.epoch <= s.epoch)
    BY <1>2, <1>3, <1>6, <2>1, Zenon
  <2>3. Guards(s, acked \cup {x}, saved)
    BY <1>6, <2>2, GuardsMore, Zenon
  <2> QED
    BY <1>1, <1>4, <1>6, <2>2, <2>3, Zenon
<1>7. ASSUME NEW p \in {"chk", "old"} PROVE FoundSafe(p)'
  <2> SUFFICES ASSUME MayFind(p), file[p].exists
               PROVE  Guards(InStore(file[p]), acked', saved')
    BY <1>5, Zenon DEF FoundSafe, MayFind
  <2>1. /\ Guards(InStore(file[p]), acked, saved)
        /\ InStore(file[p]).epoch <= InStore(file["chk"]).epoch
    BY <1>5, Zenon DEF FoundSafe
  <2>2. file["chk"].exists
    BY <1>5, Zenon DEF MayFind
  <2>3. /\ InStore(file[p]) \in Store /\ InStore(file[p]).epoch \in Nat
        /\ InStore(file["chk"]).epoch \in Nat
    BY <1>0, <2>2, InStoreType, Zenon DEF FilesClean, MayFind
  <2> DEFINE a == InStore(file[p]).epoch
             b == InStore(file["chk"]).epoch
             m == current.epoch
  <2>4. a \in Nat /\ b \in Nat /\ m \in Nat /\ a <= b /\ b <= m
    BY <1>0, <1>5, <2>1, <2>2, <2>3, Zenon
  <2> HIDE DEF a, b, m
  <2>5. a <= m
    BY <2>4
  <2>6. InStore(file[p]).epoch <= current.epoch
    BY <2>5, Zenon DEF a, m
  <2> QED
    BY <1>6, <2>1, <2>3, <2>6, Zenon
<1>8. ASSUME NEW c \in Checkpointers PROVE WriterSafe(c)'
  <2> SUFFICES ASSUME ~ Idle(c)
               PROVE  /\ Guards(ck[c].store, acked', saved')
                      /\ ck[c].store.epoch <= current'.epoch
                      /\ ck[c].store.entries \subseteq current'.entries
                      /\ file["chk"].exists => InStore(file["chk"]).epoch <= ck[c].store.epoch
    BY Zenon DEF WriterSafe, Idle
  <2>1. ck[c].store \in Store
    BY HandleFields, Zenon
  <2>2. WriterSafe(c)
    BY <1>5, Zenon
  <2>3. /\ Guards(ck[c].store, acked, saved) /\ ck[c].store.epoch <= current.epoch
        /\ ck[c].store.entries \subseteq current.entries
        /\ file["chk"].exists => InStore(file["chk"]).epoch <= ck[c].store.epoch
    BY <2>2, Zenon DEF WriterSafe
  <2>4. Guards(ck[c].store, acked', saved') /\ ck[c].store.epoch <= current'.epoch
    BY <1>6, <2>1, <2>3, Zenon
  <2> QED
    BY <1>1, <2>3, <2>4, Zenon
<1>9. acked' \cup saved' \subseteq current'.entries
  BY <1>1, <1>4, <1>5, Zenon
<1>10. file["chk"].exists => InStore(file["chk"]).epoch <= current'.epoch
  <2> SUFFICES ASSUME file["chk"].exists PROVE InStore(file["chk"]).epoch <= current'.epoch
    OBVIOUS
  <2>1. InStore(file["chk"]).epoch \in Nat
    BY <1>0, InStoreType, Zenon DEF FilesClean
  <2> QED
    BY <1>1, <1>3, <1>5, <2>1, Zenon
<1>11. FoundSafe("chk")' /\ FoundSafe("old")'
  BY <1>7, Zenon
<1> QED
  BY <1>5, <1>8, <1>9, <1>10, <1>11, Zenon DEF SafeInv

\* A crash leaves the checkpoint, or the one before while its name is in reach.
LEMMA SafeCrash ==
    ASSUME TypeOK, FileInv, SafeInv, ~ spoiled, CrashProcess \/ CrashMachine
    PROVE  SafeInv'
<1>0. /\ file \in [Places -> File] /\ FilesClean /\ "chk" # "old" /\ "tmp" # "chk"
      /\ "tmp" # "old"
  BY Zenon DEF TypeOK, FileInv
<1>1. /\ ~ dirSynced => file["chk"].exists
      /\ FoundSafe("chk") /\ FoundSafe("old")
  BY Zenon DEF SafeInv
<1>2. ~ up' /\ UNCHANGED <<acked, saved>> /\ \A c \in Checkpointers : ck'[c] = NoCk
  BY Zenon DEF CrashProcess, CrashMachine, LoseMemory
<1>3. \A c \in Checkpointers : WriterSafe(c)'
  <2>1. NoCk.step = "idle"
    BY Zenon DEF NoCk
  <2> QED
    BY <1>2, <2>1, Zenon DEF WriterSafe, Idle
<1>4. CASE CrashProcess
  <2>1. file' = [file EXCEPT !["tmp"] = NoFile] /\ dirSynced' = dirSynced
    BY <1>4, Zenon DEF CrashProcess
  <2>2. file'["chk"] = file["chk"] /\ file'["old"] = file["old"]
    BY <1>0, <2>1, Zenon DEF Places
  <2>3. FoundSafe("chk")' /\ FoundSafe("old")'
    BY <1>1, <1>2, <2>1, <2>2, Zenon DEF FoundSafe, MayFind
  <2> QED
    BY <1>1, <1>2, <1>3, <2>1, <2>2, <2>3, Zenon DEF SafeInv
<1>5. CASE CrashMachine
  <2>1. PICK p \in {"chk", "old"} :
          /\ p = "old" => ~ dirSynced
          /\ Clean(file[p]) /\ file'["chk"] = file[p]
    BY <1>5, CleanCrash, Zenon
  <2>2. dirSynced'
    BY <1>5, Zenon DEF CrashMachine
  <2>3. /\ ~ file[p].exists => saved = {}
        /\ file[p].exists => Guards(InStore(file[p]), acked, saved)
    BY <1>1, <2>1, Zenon DEF FoundSafe, MayFind
  <2>4. ASSUME file[p].exists PROVE InStore(file[p]).epoch <= InStore(file[p]).epoch
    <3>1. file[p] \in File
      BY <1>0, Zenon DEF Places
    <3>2. InStore(file[p]).epoch \in Nat
      BY <2>1, <2>4, <3>1, InStoreType, Zenon
    <3> QED
      BY <3>2
  <2>5. FoundSafe("chk")'
    BY <1>2, <2>1, <2>3, <2>4, Zenon DEF FoundSafe
  <2>6. FoundSafe("old")'
    BY <2>2, Zenon DEF FoundSafe, MayFind
  <2> QED
    BY <1>2, <1>3, <2>2, <2>5, <2>6, Zenon DEF SafeInv
<1> QED
  BY <1>4, <1>5, Zenon

\* One step keeps checkpoint and log complete between them.
LEMMA SafeStep ==
    ASSUME DirInv, SurvivalInv, AckedLogged, HandleInv, FileInv, SafeInv, [Next]_vars
    PROVE  SafeInv'
<1>0. TypeOK
  BY Zenon DEF DirInv
<1> SUFFICES ASSUME ~ spoiled' PROVE SafeInv'
  BY Zenon DEF SafeInv
<1>1. ~ spoiled
  BY <1>0, SpoiledStays, Zenon
<1>2. CASE CheckpointStep
  <2>1. PICK c \in Checkpointers : Tidy(c)
    BY <1>0, <1>2, CheckpointTidy, Zenon
  <2>2. UNCHANGED <<up, current, acked>>
    BY <1>2, CheckpointKeeps, Zenon
  <2> QED
    BY <1>0, <1>1, <2>1, <2>2, SafeTidy, Zenon
<1>3. CASE CrashProcess \/ CrashMachine
  BY <1>0, <1>1, <1>3, SafeCrash, Zenon
<1>4. CASE ColdStarts
  <2>1. UNCHANGED <<file, dirSynced, ck, acked, saved>> /\ ~ up
    BY <1>0, <1>4, ColdStartOpens, Zenon DEF OpensOn, diskVars
  <2>2. /\ acked \cup saved \subseteq current'.entries
        /\ file["chk"].exists => InStore(file["chk"]).epoch <= current'.epoch
    BY <1>1, <1>4, SafeOpens, Zenon
  <2>3. FoundSafe("chk")' /\ FoundSafe("old")' /\ (~ dirSynced' => file'["chk"].exists)
    BY <1>1, <2>1, Zenon DEF SafeInv, FoundSafe, MayFind
  <2>4. \A c \in Checkpointers : WriterSafe(c)'
    BY <2>1, Zenon DEF HandleInv, WriterSafe, Idle
  <2> QED
    BY <2>1, <2>2, <2>3, <2>4, Zenon DEF SafeInv
<1>5. CASE SyncTx
  <2>1. writing \in Txs /\ up
    BY <1>0, <1>5, Zenon DEF SyncTx, FsyncOk, TypeOK
  <2>2. /\ current' = With(current, writing)
        /\ acked' = acked \cup {[epoch |-> current.epoch + 1, tx |-> writing]}
        /\ UNCHANGED <<up, file, dirSynced, ck, saved>>
    BY <1>5, Zenon DEF SyncTx, diskVars
  <2> QED
    BY <1>0, <1>1, <2>1, <2>2, SafeCommit
<1>6. ASSUME NEW t \in Txs, PublishUnlogged(t) PROVE SafeInv'
  <2>1. /\ current' = With(current, t) /\ acked' = acked /\ up
        /\ UNCHANGED <<up, file, dirSynced, ck, saved>>
    BY <1>6, Zenon DEF PublishUnlogged, diskVars
  <2> QED
    BY <1>0, <1>1, <2>1, SafeCommit
<1>7. ASSUME (\E t \in Txs : LogTx(t)) \/ LogTxErr \/ SyncTxErr \/ UNCHANGED vars
      PROVE  SafeInv'
  <2>1. UNCHANGED <<up, current, file, dirSynced, ck, acked, saved>>
    BY <1>7, Zenon DEF LogTx, LogTxErr, SyncTxErr, dirVars, diskVars, vars
  <2>2. FoundSafe("chk")' /\ FoundSafe("old")' /\ (~ dirSynced' => file'["chk"].exists)
    BY <1>1, <2>1, Zenon DEF SafeInv, FoundSafe, MayFind
  <2>3. \A c \in Checkpointers : WriterSafe(c)'
    BY <1>1, <2>1, Zenon DEF SafeInv, WriterSafe, Idle
  <2>4. /\ up' => acked' \cup saved' \subseteq current'.entries
        /\ up' /\ file'["chk"].exists => InStore(file'["chk"]).epoch <= current'.epoch
    BY <1>1, <2>1, Zenon DEF SafeInv
  <2> QED
    BY <2>2, <2>3, <2>4, Zenon DEF SafeInv
<1> QED
  BY <1>2, <1>3, <1>4, <1>5, <1>6, <1>7, Steps, Zenon

\* The directory as a whole.
WholeInv ==
    /\ DirInv /\ SurvivalInv /\ HandleInv /\ FileInv
    /\ AckedLogged /\ OnLogInv /\ SafeInv

\* The empty directory.
LEMMA WholeInitially ==
    ASSUME Init
    PROVE  WholeInv
<1>1. DirInv /\ SurvivalInv /\ HandleInv /\ FileInv
  BY DirInitially, FilesInitially, Zenon
<1>2. AckedLogged
  BY Zenon DEF Init, AckedLogged
<1>3. OnLogInv
  <2>1. Stores = {Genesis}
    <3>1. NoCk.store = Genesis
      BY Zenon DEF NoCk
    <3>2. current = Genesis /\ \A c \in Checkpointers : ck[c].store = Genesis
      BY <3>1, Zenon DEF Init
    <3>3. \A p \in Places : InFile(file[p]) = {}
      BY InNoBlocks, Zenon DEF Init
    <3> QED
      BY <3>2, <3>3, Zenon DEF Stores
  <2>2. \A i \in Kept : FALSE
    BY DEF Init, Kept
  <2>3. Covered(Genesis, wal, Kept)
    BY <2>2, ConstantTypes, Zenon DEF Covered
  <2>4. ~ up /\ ~ open
    BY Zenon DEF Init
  <2> QED
    BY <2>1, <2>3, <2>4, Zenon DEF OnLogInv
<1>4. SafeInv
  <2>1. /\ ~ up /\ dirSynced /\ saved = {} /\ "chk" \in Places
        /\ file["chk"] = NoFile /\ ~ NoFile.exists
    BY Zenon DEF Init, Places, NoFile
  <2>2. \A c \in Checkpointers : Idle(c)
    <3>1. NoCk.step = "idle"
      BY Zenon DEF NoCk
    <3> QED
      BY <3>1, Zenon DEF Init, Idle
  <2>3. FoundSafe("chk") /\ FoundSafe("old")
    BY <2>1, Zenon DEF FoundSafe, MayFind
  <2> QED
    BY <2>1, <2>2, <2>3, Zenon DEF SafeInv, WriterSafe
<1> QED
  BY <1>1, <1>2, <1>3, <1>4, Zenon DEF WholeInv

\* One step keeps all of it.
LEMMA WholeStep ==
    ASSUME ~ TornAppend, WholeInv, [Next]_vars
    PROVE  WholeInv'
<1>0. DirInv /\ TypeOK /\ OrderInv /\ LogFileInv /\ SurvivalInv /\ LogStep
  BY LogSteps, Zenon DEF WholeInv, DirInv
<1>1. DirInv'
  BY <1>0, DirStep, Zenon
<1>2. SurvivalInv'
  BY <1>0, LogSurvival, Zenon
<1>3. HandleInv' /\ FileInv'
  BY <1>0, HandleStep, FileStep, Zenon DEF WholeInv
<1>4. AckedLogged'
  BY AckedStep, Zenon DEF WholeInv
<1>5. OnLogInv'
  BY <1>1, OnLogStep, Zenon DEF WholeInv
<1>6. SafeInv'
  BY SafeStep, Zenon DEF WholeInv
<1> QED
  BY <1>1, <1>2, <1>3, <1>4, <1>5, <1>6, Zenon DEF WholeInv

\* INV-FERR-014: for any number of transactions, epochs, threads, checkpoints,
\* process kills, power losses and cold starts: as long as a failing write_all
\* leaves no part of a frame in the log, a database has everything that was
\* acknowledged and everything that a checkpoint saved, unless checkpoints
\* overlapped, one was written in place or a cold start passed over an error;
\* and even then everything acknowledged, if no database showed an entry before
\* the log had it on stable storage.
THEOREM NothingIsLost == ~ TornAppend => (Spec => []NothingLost)
<1> SUFFICES ASSUME ~ TornAppend PROVE Spec => []NothingLost
  OBVIOUS
<1>1. Init => WholeInv
  BY WholeInitially, Zenon
<1>2. WholeInv /\ [Next]_vars => WholeInv'
  BY WholeStep, Zenon
<1>3. WholeInv => NothingLost
  <2> SUFFICES ASSUME WholeInv, up PROVE
        /\ (~ spoiled \/ offLog = {}) => acked \subseteq current.entries
        /\ ~ spoiled => saved \subseteq current.entries
    BY Zenon DEF NothingLost
  <2>1. ~ spoiled => acked \cup saved \subseteq current.entries
    BY Zenon DEF WholeInv, SafeInv
  <2>2. ASSUME offLog = {}, NEW e \in acked PROVE e \in current.entries
    <3>1. \A i \in Kept : EntryOf(wal[i]) \in current.entries
      BY <2>2, Zenon DEF WholeInv, OnLogInv
    <3>2. \E i \in Kept : e = EntryOf(wal[i])
      BY AckedKept, Zenon DEF WholeInv
    <3> QED
      BY <3>1, <3>2, Zenon
  <2> QED
    BY <2>1, <2>2, Zenon
<1> QED
  BY <1>1, <1>2, <1>3, PTL DEF Spec
=============================================================================
