----------------------------- MODULE WalProofs -----------------------------
(* The log keeps what fsync vouched for, and keeps its epochs in order, for *)
(* any payloads, any epochs and any number of crashes.                      *)
EXTENDS Wal, TLAPS

\* No good frame has an epoch above n.
UpTo(file, n) == \A i \in 1..Len(file) : file[i].ok => file[i].epoch <= n

\* Order, with or without torn appends: the frames that pass their checks have
\* increasing epochs, none above the pending epoch of an open handle.
OrderInv ==
    /\ WalTypeOK
    /\ EpochsIncrease
    /\ open => UpTo(wal, pending)

\* Survival, when a failing append leaves nothing behind: an open file has no
\* bad frame, and every confirmed frame lies in the durable part, readable.
SurvivalInv ==
    /\ open => \A i \in 1..Len(wal) : wal[i].ok
    /\ ConfirmedSurvive

-----------------------------------------------------------------------------
(* Facts about sequences that the proofs about the log keep needing.         *)

\* A sequence is a function on an interval.
LEMMA SeqLen ==
    ASSUME NEW S, NEW s \in Seq(S)
    PROVE  Len(s) \in Nat /\ DOMAIN s = 1..Len(s) /\ s \in [1..Len(s) -> S]
  OBVIOUS

\* And a function on an interval is a sequence.
LEMMA SeqOf ==
    ASSUME NEW S, NEW n \in Nat, NEW s \in [1..n -> S]
    PROVE  s \in Seq(S) /\ Len(s) = n
  OBVIOUS

\* Its elements are of the set it is over.
LEMMA SeqElement ==
    ASSUME NEW S, NEW s \in Seq(S), NEW i \in 1..Len(s)
    PROVE  s[i] \in S
  OBVIOUS

\* The empty sequence is the one of length 0.
LEMMA SeqEmpty ==
    ASSUME NEW S
    PROVE  /\ << >> \in Seq(S) /\ Len(<< >>) = 0
           /\ \A s \in Seq(S) : s # << >> => Len(s) \in Nat \ {0}
  OBVIOUS

\* What Append adds, and what it keeps.
LEMMA SeqAppend ==
    ASSUME NEW S, NEW s \in Seq(S), NEW x \in S
    PROVE  /\ Append(s, x) \in Seq(S)
           /\ Len(Append(s, x)) = Len(s) + 1
           /\ \A i \in 1..Len(s) : Append(s, x)[i] = s[i]
           /\ Append(s, x)[Len(s) + 1] = x
  OBVIOUS

\* Sequences with the same elements are the same.
LEMMA SeqSame ==
    ASSUME NEW S, NEW s \in Seq(S), NEW t \in Seq(S), Len(s) = Len(t),
           \A i \in 1..Len(s) : s[i] = t[i]
    PROVE  s = t
  OBVIOUS

-----------------------------------------------------------------------------
\* A prefix of a file is a file, with the same frames.
LEMMA Prefix ==
    ASSUME NEW file \in Seq(Frame), NEW k \in 0..Len(file)
    PROVE  /\ SubSeq(file, 1, k) \in Seq(Frame)
           /\ Len(SubSeq(file, 1, k)) = k
           /\ \A i \in 1..k : SubSeq(file, 1, k)[i] = file[i]
  OBVIOUS

\* A file with one more frame.
LEMMA Extended ==
    ASSUME NEW file \in Seq(Frame), NEW f \in Frame
    PROVE  /\ Append(file, f) \in Seq(Frame)
           /\ Len(Append(file, f)) = Len(file) + 1
           /\ \A i \in 1..Len(file) : Append(file, f)[i] = file[i]
           /\ Append(file, f)[Len(file) + 1] = f
  BY SeqAppend, SeqLen

\* A torn frame fails its checks.
LEMMA TornType == Torn \in Frame /\ ~ Torn.ok
  BY Zenon DEF Torn, Frame

\* A frame that write_frame completes passes them.
LEMMA GoodFrameType ==
    ASSUME NEW e \in Nat \ {0}, NEW t \in Txs
    PROVE  /\ GoodFrame(e, t) \in Frame
           /\ GoodFrame(e, t).ok
           /\ GoodFrame(e, t).epoch = e
           /\ GoodFrame(e, t).tx = t
  BY Zenon DEF Frame, GoodFrame

\* The fields of a frame.
LEMMA FrameFields ==
    ASSUME NEW f \in Frame
    PROVE  /\ f.epoch \in Nat
           /\ f.ok => f.epoch > 0 /\ f.tx \in Txs /\ f = GoodFrame(f.epoch, f.tx)
<1>1. CASE f = Torn
  BY <1>1, Zenon DEF Torn
<1>2. CASE f \in [ok : {TRUE}, epoch : Nat \ {0}, tx : Txs]
  BY <1>2 DEF GoodFrame
<1> QED
  BY <1>1, <1>2, ZenonT(40) DEF Frame

-----------------------------------------------------------------------------
\* A prefix of an ordered file is ordered.
LEMMA OrderedPrefix ==
    ASSUME NEW file \in Seq(Frame), Ordered(file), NEW k \in 0..Len(file)
    PROVE  Ordered(SubSeq(file, 1, k))
  BY Prefix DEF Ordered

\* So is the file with a torn frame behind it.
LEMMA OrderedTorn ==
    ASSUME NEW file \in Seq(Frame), Ordered(file)
    PROVE  Ordered(Append(file, Torn))
<1> SUFFICES ASSUME NEW i \in 1..Len(file) + 1, NEW j \in 1..Len(file) + 1, i < j,
                    Append(file, Torn)[i].ok, Append(file, Torn)[j].ok
             PROVE  Append(file, Torn)[i].epoch < Append(file, Torn)[j].epoch
  BY Extended, TornType, Zenon DEF Ordered
<1>1. i \in 1..Len(file) /\ j \in 1..Len(file)
  BY Extended, TornType, SeqLen
<1> QED
  BY <1>1, Extended, TornType, Zenon DEF Ordered

\* So is the file with a frame of a later epoch.
LEMMA OrderedAppend ==
    ASSUME NEW file \in Seq(Frame), Ordered(file), NEW n \in Nat, UpTo(file, n),
           NEW e \in Nat \ {0}, n < e, NEW t \in Txs
    PROVE  /\ Ordered(Append(file, GoodFrame(e, t)))
           /\ UpTo(Append(file, GoodFrame(e, t)), e)
<1> DEFINE longer == Append(file, GoodFrame(e, t))
<1>1. /\ longer \in Seq(Frame) /\ Len(longer) = Len(file) + 1
      /\ \A i \in 1..Len(file) : longer[i] = file[i]
      /\ longer[Len(file) + 1].epoch = e
  BY Extended, GoodFrameType
<1> HIDE DEF longer
<1>2. \A i \in 1..Len(file) : longer[i].ok => longer[i].epoch \in Nat /\ longer[i].epoch < e
  <2>1. \A i \in 1..Len(file) : file[i] \in Frame
    BY SeqElement, Zenon
  <2>2. \A i \in 1..Len(file) : file[i].epoch \in Nat
    BY <2>1, FrameFields, Zenon
  <2> QED
    BY <1>1, <2>2 DEF UpTo
<1>3. Len(file) \in Nat
  BY SeqLen, Zenon
<1>4. Ordered(longer)
  <2> SUFFICES ASSUME NEW i \in 1..Len(file) + 1, NEW j \in 1..Len(file) + 1, i < j,
                      longer[i].ok, longer[j].ok
               PROVE  longer[i].epoch < longer[j].epoch
    BY <1>1, Zenon DEF Ordered
  <2>1. i \in 1..Len(file)
    BY <1>3
  <2>2. CASE j = Len(file) + 1
    BY <1>1, <1>2, <2>1, <2>2, Zenon
  <2>3. CASE j \in 1..Len(file)
    BY <1>1, <2>1, <2>3, SMTT(30) DEF Ordered
  <2> QED
    BY <1>3, <2>2, <2>3
<1>5. UpTo(longer, e)
  BY <1>1, <1>2, <1>3 DEF UpTo
<1> QED
  BY <1>4, <1>5, Zenon DEF longer

-----------------------------------------------------------------------------
\* One step of the log keeps its types and the order of its epochs.
LEMMA OrderStep ==
    ASSUME OrderInv, [WalNext]_walVars
    PROVE  OrderInv'
<1> USE DEF OrderInv, EpochsIncrease
<1>0. Len(wal) \in Nat /\ wal \in Seq(Frame)
  BY SeqLen, Zenon DEF WalTypeOK
<1>1. ASSUME NEW e \in Epochs, NEW t \in Txs, AppendOk(e, t)
      PROVE  OrderInv'
  <2>1. e \in Nat \ {0} /\ pending < e /\ pending' = e
    BY <1>1, WalAssumption DEF AppendOk, Refused, WalMax, WalTypeOK
  <2>2. wal' \in Seq(Frame) /\ Len(wal') = Len(wal) + 1
    BY <1>0, <1>1, <2>1, Extended, GoodFrameType, Zenon DEF AppendOk
  <2>3. WalTypeOK'
    BY <1>0, <1>1, <2>1, <2>2 DEF AppendOk, WalTypeOK
  <2>4. Ordered(wal') /\ UpTo(wal', e)
    BY <1>0, <1>1, <2>1, OrderedAppend, Zenon DEF AppendOk, WalTypeOK
  <2> QED
    BY <2>1, <2>3, <2>4, Zenon
<1>2. ASSUME NEW e \in Epochs, AppendFailed(e)
      PROVE  OrderInv'
  <2>1. CASE wal' = wal
    BY <1>2, <2>1, Zenon DEF AppendFailed, WalTypeOK, UpTo
  <2>2. CASE wal' = Append(wal, Torn)
    <3>1. /\ wal' \in Seq(Frame) /\ Len(wal') = Len(wal) + 1
          /\ \A i \in 1..Len(wal) : wal'[i] = wal[i]
          /\ ~ wal'[Len(wal) + 1].ok
      BY <1>0, <2>2, Extended, TornType, Zenon
    <3>2. Ordered(wal')
      BY <1>0, <2>2, OrderedTorn, Zenon
    <3>3. UpTo(wal', pending)
      BY <1>0, <1>2, <3>1 DEF AppendFailed, UpTo
    <3> QED
      BY <1>0, <1>2, <3>1, <3>2, <3>3 DEF AppendFailed, WalTypeOK
  <2> QED
    BY <1>2, <2>1, <2>2, Zenon DEF AppendFailed
<1>3. ASSUME FsyncOk
      PROVE  OrderInv'
  <2>1. confirmed' \in SUBSET Frame
    <3>1. \A i \in 1..Len(wal) : wal[i] \in Frame
      BY <1>0, SeqElement, Zenon
    <3> QED
      BY <1>3, <3>1, Zenon DEF FsyncOk, WalTypeOK
  <2> QED
    BY <1>0, <1>3, <2>1 DEF FsyncOk, WalTypeOK, WalMax, UpTo
<1>4. ASSUME KillProcess
      PROVE  OrderInv'
  <2>1. /\ wal' \in Seq(Frame) /\ Ordered(wal')
        /\ Len(wal') \in Nat /\ Len(wal) <= Len(wal')
    <3>1. CASE wal' = wal
      BY <1>0, <3>1
    <3>2. CASE wal' = Append(wal, Torn)
      BY <1>0, <3>2, Extended, TornType, OrderedTorn
    <3> QED
      BY <1>4, <3>1, <3>2, Zenon DEF KillProcess
  <2>2. open' = FALSE /\ crashes' \in Nat
    BY <1>4 DEF KillProcess, WalTypeOK
  <2>3. durable' \in 0..Len(wal')
    BY <1>0, <1>4, <2>1 DEF KillProcess, WalTypeOK
  <2> QED
    BY <1>4, <2>1, <2>2, <2>3, ZenonT(40) DEF KillProcess, WalTypeOK
<1>5. ASSUME LosePower
      PROVE  OrderInv'
  <2>1. PICK k \in durable..Len(wal) :
          /\ wal' \in {SubSeq(wal, 1, k), Append(SubSeq(wal, 1, k), Torn)}
          /\ durable' = k
    BY <1>5, Zenon DEF LosePower
  <2>2. k \in 0..Len(wal)
    BY <1>0 DEF WalTypeOK
  <2>3. /\ SubSeq(wal, 1, k) \in Seq(Frame) /\ Ordered(SubSeq(wal, 1, k))
        /\ Len(SubSeq(wal, 1, k)) = k
    BY <1>0, <2>2, Prefix, OrderedPrefix, Zenon
  <2>4. /\ wal' \in Seq(Frame) /\ Ordered(wal')
        /\ Len(wal') \in Nat /\ k <= Len(wal')
    <3> DEFINE kept == SubSeq(wal, 1, k)
    <3>0. kept \in Seq(Frame) /\ Ordered(kept) /\ Len(kept) = k
      BY <2>3, Zenon
    <3>1. wal' = kept \/ wal' = Append(kept, Torn)
      BY <2>1, Zenon
    <3> HIDE DEF kept
    <3>2. CASE wal' = kept
      BY <2>2, <3>0, <3>2
    <3>3. CASE wal' = Append(kept, Torn)
      BY <2>2, <3>0, <3>3, Extended, TornType, OrderedTorn
    <3> QED
      BY <3>1, <3>2, <3>3, Zenon
  <2>5. open' = FALSE /\ crashes' \in Nat
    BY <1>5 DEF LosePower, WalTypeOK
  <2>6. durable' \in 0..Len(wal')
    BY <2>1, <2>2, <2>4
  <2> QED
    BY <1>5, <2>4, <2>5, <2>6, ZenonT(40) DEF LosePower, WalTypeOK
<1>6. ASSUME RecoverWal
      PROVE  OrderInv'
  <2>1. PICK n \in 0..Len(wal) :
          /\ ParsedLength(wal, n)
          /\ wal' = SubSeq(wal, 1, n)
          /\ durable' = IF n < Len(wal) THEN n ELSE durable
          /\ lastSynced' = IF n = 0 THEN 0 ELSE wal[n].epoch
          /\ pending' = IF n = 0 THEN 0 ELSE wal[n].epoch
    BY <1>6, Zenon DEF RecoverWal
  <2>2. /\ wal' \in Seq(Frame) /\ Ordered(wal') /\ Len(wal') = n
        /\ \A i \in 1..n : wal'[i] = wal[i]
    BY <1>0, <2>1, Prefix, OrderedPrefix, Zenon
  <2>3. \A i \in 1..Len(wal) : wal[i].epoch \in Nat
    <3>1. \A i \in 1..Len(wal) : wal[i] \in Frame
      BY <1>0, SeqElement, Zenon
    <3> QED
      BY <3>1, FrameFields, Zenon
  <2>4. pending' \in Nat /\ lastSynced' \in Nat /\ durable' \in 0..n
    BY <1>0, <2>1, <2>3 DEF WalTypeOK
  <2>5. UpTo(wal', pending')
    BY <1>0, <2>1, <2>2, <2>3 DEF UpTo, Ordered, ParsedLength
  <2> QED
    BY <1>6, <2>2, <2>4, <2>5, Zenon DEF RecoverWal, WalTypeOK
<1>7. CASE UNCHANGED walVars
  BY <1>7, Zenon DEF walVars, WalTypeOK, UpTo
<1> QED
  BY <1>1, <1>2, <1>3, <1>4, <1>5, <1>6, <1>7, Zenon
  DEF WalNext, AppendRefused, FsyncFailed

\* Two files that agree up to m: a frame readable in one is so in the other.
LEMMA SameReadable ==
    ASSUME NEW file, NEW other, NEW m \in Nat, m <= Len(other), Len(other) \in Nat,
           \A j \in 1..m : other[j] = file[j],
           NEW i \in 1..m, Readable(file, i)
    PROVE  Readable(other, i)
  BY DEF Readable

\* One step keeps every confirmed frame in the durable part, readable.
LEMMA SurvivalStep ==
    ASSUME ~ TornAppend, OrderInv, SurvivalInv, [WalNext]_walVars
    PROVE  SurvivalInv'
<1>0. /\ Len(wal) \in Nat /\ wal \in Seq(Frame) /\ durable \in 0..Len(wal)
      /\ open => \A i \in 1..Len(wal) : wal[i].ok
      /\ \A f \in confirmed : \E i \in 1..durable : wal[i] = f /\ Readable(wal, i)
  BY SeqLen, Zenon DEF OrderInv, WalTypeOK, SurvivalInv, ConfirmedSurvive
<1>a. ASSUME NEW k \in Nat, durable <= k, durable' = k \/ durable' = durable,
             Len(wal') \in Nat, k <= Len(wal'),
             \A i \in 1..k : wal'[i] = wal[i], confirmed' = confirmed
      PROVE  ConfirmedSurvive'
  <2> SUFFICES ASSUME NEW f \in confirmed
               PROVE  \E i \in 1..durable' : wal'[i] = f /\ Readable(wal', i)
    BY <1>a, Zenon DEF ConfirmedSurvive
  <2>1. PICK i \in 1..durable : wal[i] = f /\ Readable(wal, i)
    BY <1>0, Zenon
  <2>2. i \in 1..k /\ i \in 1..durable'
    BY <1>0, <1>a, <2>1
  <2>3. Readable(wal', i)
    BY <1>a, <2>1, <2>2, SameReadable, Zenon
  <2> QED
    BY <1>a, <2>1, <2>2, <2>3, Zenon
<1>1. ASSUME NEW e \in Epochs, NEW t \in Txs, AppendOk(e, t)
      PROVE  SurvivalInv'
  <2>1. /\ Len(wal') = Len(wal) + 1 /\ wal'[Len(wal) + 1].ok
        /\ \A i \in 1..Len(wal) : wal'[i] = wal[i]
    BY <1>0, <1>1, WalAssumption, Extended, GoodFrameType DEF AppendOk
  <2>2. durable' = durable /\ confirmed' = confirmed /\ open
    BY <1>1, Zenon DEF AppendOk
  <2>3. \A i \in 1..Len(wal') : wal'[i].ok
    BY <1>0, <2>1, <2>2
  <2>4. ConfirmedSurvive'
    BY <1>0, <1>a, <2>1, <2>2
  <2> QED
    BY <2>3, <2>4, Zenon DEF SurvivalInv
<1>2. ASSUME NEW e \in Epochs, AppendFailed(e)
      PROVE  SurvivalInv'
  BY <1>2, Zenon DEF AppendFailed, SurvivalInv, ConfirmedSurvive
<1>3. ASSUME FsyncOk
      PROVE  SurvivalInv'
  <2>1. \A i \in 1..Len(wal) : wal[i].ok /\ Readable(wal, i)
    BY <1>0, <1>3 DEF FsyncOk, Readable
  <2>2. \A f \in confirmed' : \E i \in 1..Len(wal) : wal[i] = f
    BY <1>0, <1>3 DEF FsyncOk
  <2> QED
    BY <1>3, <2>1, <2>2, Zenon DEF FsyncOk, SurvivalInv, ConfirmedSurvive
<1>4. ASSUME KillProcess
      PROVE  SurvivalInv'
  <2>1. /\ \A i \in 1..durable : wal'[i] = wal[i]
        /\ Len(wal') \in Nat /\ durable <= Len(wal')
    <3>1. CASE wal' = wal
      BY <1>0, <3>1
    <3>2. CASE wal' = Append(wal, Torn)
      BY <1>0, <3>2, Extended, TornType
    <3> QED
      BY <1>4, <3>1, <3>2, Zenon DEF KillProcess
  <2>2. ConfirmedSurvive'
    BY <1>0, <1>4, <1>a, <2>1 DEF KillProcess
  <2> QED
    BY <1>4, <2>2, Zenon DEF KillProcess, SurvivalInv
<1>5. ASSUME LosePower
      PROVE  SurvivalInv'
  <2>1. PICK k \in durable..Len(wal) :
          /\ wal' \in {SubSeq(wal, 1, k), Append(SubSeq(wal, 1, k), Torn)}
          /\ durable' = k
    BY <1>5, Zenon DEF LosePower
  <2> DEFINE kept == SubSeq(wal, 1, k)
  <2>2. /\ kept \in Seq(Frame) /\ Len(kept) = k
        /\ \A i \in 1..k : kept[i] = wal[i]
    BY <1>0, <2>1, Prefix
  <2>3. wal' = kept \/ wal' = Append(kept, Torn)
    BY <2>1, Zenon
  <2> HIDE DEF kept
  <2>4. /\ \A i \in 1..k : wal'[i] = wal[i]
        /\ Len(wal') \in Nat /\ k <= Len(wal')
    <3>1. CASE wal' = kept
      BY <2>2, <3>1
    <3>2. CASE wal' = Append(kept, Torn)
      <4>1. Len(wal') = k + 1 /\ \A i \in 1..k : wal'[i] = kept[i]
        BY <2>2, <3>2, Extended, TornType, Zenon
      <4>2. k \in Nat
        BY <1>0, <2>1
      <4> QED
        BY <2>2, <4>1, <4>2
    <3> QED
      BY <2>3, <3>1, <3>2, Zenon
  <2>5. ConfirmedSurvive'
    BY <1>0, <1>5, <1>a, <2>1, <2>4 DEF LosePower
  <2> QED
    BY <1>5, <2>5, Zenon DEF LosePower, SurvivalInv
<1>6. ASSUME RecoverWal
      PROVE  SurvivalInv'
  <2>1. PICK n \in 0..Len(wal) :
          /\ ParsedLength(wal, n)
          /\ wal' = SubSeq(wal, 1, n)
          /\ durable' = IF n < Len(wal) THEN n ELSE durable
    BY <1>6, Zenon DEF RecoverWal
  <2>2. Len(wal') = n /\ \A i \in 1..n : wal'[i] = wal[i] /\ wal[i].ok
    BY <1>0, <2>1, Prefix, Zenon DEF ParsedLength
  <2>3. \A i \in 1..durable : Readable(wal, i) => i <= n /\ i <= durable'
    BY <1>0, <2>1 DEF ParsedLength, Readable
  <2>4. ConfirmedSurvive'
    <3> SUFFICES ASSUME NEW f \in confirmed
                 PROVE  \E i \in 1..durable' : wal'[i] = f /\ Readable(wal', i)
      BY <1>6, ZenonT(40) DEF RecoverWal, ConfirmedSurvive
    <3>1. PICK i \in 1..durable : wal[i] = f /\ Readable(wal, i)
      BY <1>0, Zenon
    <3>2. i \in 1..n /\ i \in 1..durable'
      BY <1>0, <2>1, <2>3, <3>1
    <3>3. wal'[i] = f /\ Readable(wal', i)
      BY <2>2, <3>1, <3>2 DEF Readable
    <3> QED
      BY <3>2, <3>3, Zenon
  <2> QED
    BY <2>2, <2>4, Zenon DEF SurvivalInv
<1>7. CASE UNCHANGED walVars
  BY <1>7, Zenon DEF walVars, SurvivalInv, ConfirmedSurvive
<1> QED
  BY <1>1, <1>2, <1>3, <1>4, <1>5, <1>6, <1>7, Zenon
  DEF WalNext, AppendRefused, FsyncFailed

\* The empty file.
LEMMA WalInitially == WalInit => OrderInv /\ SurvivalInv
<1> SUFFICES ASSUME WalInit PROVE OrderInv /\ SurvivalInv
  BY Zenon
<1>1. wal \in Seq(Frame) /\ Len(wal) = 0
  BY SeqEmpty, Zenon DEF WalInit
<1> QED
  BY <1>1 DEF WalInit, OrderInv, SurvivalInv, WalTypeOK,
       EpochsIncrease, Ordered, UpTo, ConfirmedSurvive

\* INV-FERR-007: the epochs of a log file are strictly increasing, whatever
\* appends fail (torn or not), whatever syncs fail and however often the
\* process or the machine dies: write_frame's test against pending_epoch and
\* the reset of pending_epoch in recover() suffice.
THEOREM WalOrder == WalSpec => [](WalTypeOK /\ EpochsIncrease)
<1>1. WalInit => OrderInv
  BY WalInitially, Zenon
<1>2. OrderInv /\ [WalNext]_walVars => OrderInv'
  BY OrderStep, Zenon
<1>3. OrderInv => WalTypeOK /\ EpochsIncrease
  BY Zenon DEF OrderInv
<1> QED
  BY <1>1, <1>2, <1>3, PTL DEF WalSpec

\* INV-FERR-008: as long as a failing write_all leaves no part of a frame in
\* the file, every entry that an Ok of fsync() has vouched for is found by
\* every later recovery.
THEOREM WalSurvival == ~ TornAppend => (WalSpec => []ConfirmedSurvive)
<1> SUFFICES ASSUME ~ TornAppend PROVE WalSpec => []ConfirmedSurvive
  BY Zenon
<1>1. WalInit => OrderInv /\ SurvivalInv
  BY WalInitially, Zenon
<1>2. OrderInv /\ SurvivalInv /\ [WalNext]_walVars => OrderInv' /\ SurvivalInv'
  BY OrderStep, SurvivalStep, Zenon
<1>3. OrderInv /\ SurvivalInv => ConfirmedSurvive
  BY Zenon DEF SurvivalInv
<1> QED
  BY <1>1, <1>2, <1>3, PTL DEF WalSpec
=============================================================================
