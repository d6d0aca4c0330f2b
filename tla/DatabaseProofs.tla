--------------------------- MODULE DatabaseProofs ---------------------------
(* The write limiter is exact.  The commit path keeps its types, the order of *)
(* its log and the bound of its limiter, what it acknowledges and what it     *)
(* published.  All for any number of writers, transactions, epochs and        *)
(* crashes, and batches of any length.                                        *)
EXTENDS Database, WalProofs, FiniteSetTheorems

-----------------------------------------------------------------------------
\* The inductive invariant.  The bound on the guards is not inductive alone:
\* try_acquire tests the counter, so the counter has to be exact.
LimiterInv == LimiterTypeOK /\ CountExact /\ GuardsBounded

\* A thread that enters the counted set adds one, one that leaves it takes one.
LEMMA CountedFinite ==
    ASSUME LimiterTypeOK
    PROVE  /\ IsFiniteSet(Counted) /\ Cardinality(Counted) \in Nat
           /\ IsFiniteSet(Guards) /\ Cardinality(Guards) \in Nat
           /\ Cardinality(Guards) <= Cardinality(Counted)
<1>1. Counted \subseteq Writers /\ Guards \subseteq Counted
  BY DEF Counted, Guards
<1>2. IsFiniteSet(Counted)
  BY <1>1, LimiterAssumption, FS_Subset
<1>3. IsFiniteSet(Guards) /\ Cardinality(Guards) <= Cardinality(Counted)
  BY <1>1, <1>2, FS_Subset
<1> QED
  BY <1>2, <1>3, FS_CardinalityType

\* One step of the limiter keeps the invariant.
LEMMA LimiterStep ==
    ASSUME LimiterInv, [LimiterNext]_limiterVars
    PROVE  LimiterInv'
<1> USE DEF LimiterInv
<1>0. /\ IsFiniteSet(Counted) /\ Cardinality(Counted) \in Nat
      /\ IsFiniteSet(Guards) /\ Cardinality(Guards) \in Nat
      /\ Cardinality(Guards) <= Cardinality(Counted)
  BY CountedFinite
<1>1. ASSUME NEW w \in Writers, TryAcquire(w)
      PROVE  LimiterInv'
  <2>1. Counted' = Counted \cup {w} /\ w \notin Counted
    BY <1>1 DEF TryAcquire, Counted, LimiterTypeOK, Slots
  <2>2. Cardinality(Counted') = Cardinality(Counted) + 1
    BY <2>1, <1>0, FS_AddElement, ZenonT(40)
  <2>3. LimiterTypeOK' /\ CountExact'
    BY <1>1, <2>2 DEF TryAcquire, LimiterTypeOK, Slots, CountExact
  <2>4. CASE active >= MaxConcurrentWrites
    <3>1. Guards' = Guards
      BY <1>1, <2>4 DEF TryAcquire, Guards, LimiterTypeOK, Slots
    <3> QED
      BY <2>3, <3>1 DEF GuardsBounded
  <2>5. CASE ~ (active >= MaxConcurrentWrites)
    <3>1. Guards' = Guards \cup {w} /\ w \notin Guards
      BY <1>1, <2>5 DEF TryAcquire, Guards, LimiterTypeOK, Slots
    <3>2. Cardinality(Guards') = Cardinality(Guards) + 1
      BY <3>1, <1>0, FS_AddElement, ZenonT(40)
    <3>3. Cardinality(Guards) + 1 <= MaxConcurrentWrites
      BY <2>5, <1>0, LimiterAssumption DEF CountExact
    <3> QED
      BY <2>3, <3>2, <3>3 DEF GuardsBounded
  <2> QED
    BY <2>4, <2>5
<1>2. ASSUME NEW w \in Writers, UndoAcquire(w)
      PROVE  LimiterInv'
  <2>1. Counted' = Counted \ {w} /\ w \in Counted /\ Guards' = Guards
    BY <1>2 DEF UndoAcquire, Counted, Guards, LimiterTypeOK, Slots
  <2>2. Cardinality(Counted') = Cardinality(Counted) - 1
    BY <2>1, <1>0, FS_RemoveElement, ZenonT(40)
  <2>3. Cardinality(Counted') \in Nat
    BY <2>1, <1>0, FS_RemoveElement, FS_CardinalityType
  <2> QED
    BY <1>2, <2>1, <2>2, <2>3
    DEF UndoAcquire, LimiterTypeOK, Slots, CountExact, GuardsBounded
<1>3. ASSUME NEW w \in Writers, DropGuard(w)
      PROVE  LimiterInv'
  <2>1. /\ Counted' = Counted \ {w} /\ w \in Counted
        /\ Guards' = Guards \ {w} /\ w \in Guards
    BY <1>3 DEF DropGuard, Counted, Guards, LimiterTypeOK, Slots
  <2>2. /\ Cardinality(Counted') = Cardinality(Counted) - 1
        /\ Cardinality(Guards') = Cardinality(Guards) - 1
    BY <2>1, <1>0, FS_RemoveElement, ZenonT(40)
  <2>3. Cardinality(Counted') \in Nat
    BY <2>1, <1>0, FS_RemoveElement, FS_CardinalityType
  <2> QED
    BY <1>3, <1>0, <2>2, <2>3, LimiterAssumption
    DEF DropGuard, LimiterTypeOK, Slots, CountExact, GuardsBounded
<1>4. CASE UNCHANGED limiterVars
  BY <1>4 DEF limiterVars, LimiterTypeOK, CountExact, GuardsBounded, Counted, Guards
<1> QED
  BY <1>1, <1>2, <1>3, <1>4 DEF LimiterNext

\* INV-FERR-021 for every number of threads: WriteLimiter's counter equals the
\* number of calls between their fetch_add and their fetch_sub, and at most
\* max_concurrent_writes guards exist at any time.
THEOREM LimiterSafety ==
    LimiterSpec => [](LimiterTypeOK /\ CountExact /\ GuardsBounded)
<1>1. LimiterInit => LimiterInv
  <2> SUFFICES ASSUME LimiterInit PROVE LimiterInv
    OBVIOUS
  <2>1. Counted = {} /\ Guards = {}
    BY DEF LimiterInit, Counted, Guards
  <2> QED
    BY <2>1, FS_EmptySet, LimiterAssumption
    DEF LimiterInit, LimiterInv, LimiterTypeOK, Slots, CountExact, GuardsBounded
<1>2. LimiterInv /\ [LimiterNext]_limiterVars => LimiterInv'
  BY LimiterStep
<1> QED
  BY <1>1, <1>2, PTL DEF LimiterSpec, LimiterInv

-----------------------------------------------------------------------------
\* A call starts at its first receipt, and one that is logging has a receipt to
\* log, within the bounds.
CallShape ==
    \A w \in Writers :
        /\ pc[w] \in {"idle", "undo", "lock", "apply"} => idx[w] = 1
        /\ pc[w] \in {"append", "fsync", "publish", "frontier"} =>
              /\ idx[w] \in 1..Len(job[w])
              /\ Len(job[w]) <= next[w].epoch
              /\ next[w].epoch \in Epochs

TypeInv == TypeOK /\ OrderInv /\ LimiterInv /\ CallShape

-----------------------------------------------------------------------------
\* A job is a sequence of transactions.
LEMMA JobType ==
    ASSUME used \in SUBSET Txs, NEW n \in Nat, NEW s \in Jobs(n)
    PROVE  /\ s \in Seq(Txs) /\ Len(s) \in Nat
           /\ \A i \in 1..Len(s) : s[i] \in Txs
<1>1. PICK m \in 0..n : s \in [1..m -> Txs \ used]
  BY Zenon DEF Jobs
<1>2. s \in Seq(Txs)
  BY <1>1, SeqOf
<1> QED
  BY <1>2, SeqLen, SeqElement, Zenon

\* The transactions of the job of a writer.
LEMMA ElementTypes ==
    ASSUME CallTypeOK, NEW w \in Writers
    PROVE  /\ job[w] \in Seq(Txs) /\ Len(job[w]) \in Nat
           /\ \A i \in 1..Len(job[w]) : job[w][i] \in Txs
           /\ JobTxs(w) \in SUBSET Txs
<1>1. job[w] \in Seq(Txs)
  BY Zenon DEF CallTypeOK
<1>2. \A i \in 1..Len(job[w]) : job[w][i] \in Txs
  BY <1>1, SeqElement, Zenon
<1> QED
  BY <1>1, <1>2, SeqLen, Zenon DEF JobTxs

\* The receipt that a call logs is a transaction with an epoch in range.
LEMMA ReceiptType ==
    ASSUME TypeInv, NEW w \in Writers, pc[w] \in {"append", "fsync"}
    PROVE  /\ ReceiptEpoch(w) \in Epochs
           /\ job[w][idx[w]] \in Txs
           /\ GoodFrame(ReceiptEpoch(w), job[w][idx[w]]) \in Frame
<1>1. /\ idx[w] \in 1..Len(job[w]) /\ Len(job[w]) <= next[w].epoch
      /\ next[w].epoch \in Epochs
  BY Zenon DEF TypeInv, CallShape
<1>2. Len(job[w]) \in Nat /\ job[w][idx[w]] \in Txs
  BY <1>1, ElementTypes, Zenon DEF TypeInv, TypeOK
<1>3. next[w].epoch \in Nat
  BY <1>1, WalAssumption, ZenonT(40)
<1>4. ReceiptEpoch(w) \in 1..next[w].epoch
  BY <1>1, <1>2, <1>3 DEF ReceiptEpoch
<1>5. ReceiptEpoch(w) \in Epochs
  BY <1>1, <1>4, WalAssumption, ZenonT(40)
<1>6. ReceiptEpoch(w) \in Nat \ {0}
  BY <1>3, <1>4
<1> QED
  BY <1>2, <1>5, <1>6, Zenon DEF GoodFrame, Frame

\* Every step of the database is a step of the log or leaves it alone.
LEMMA WalSteps ==
    ASSUME TypeInv, [Next]_vars
    PROVE  [WalNext]_walVars
<1>1. ASSUME NEW w \in Writers, LogOk(w)
      PROVE  WalNext
  BY <1>1, ReceiptType, Zenon DEF LogOk, WalNext
<1>2. ASSUME NEW w \in Writers, LogErr(w)
      PROVE  WalNext
  BY <1>2, ReceiptType, Zenon DEF LogErr, WalNext
<1>3. ASSUME NEW w \in Writers, SyncOk(w) \/ SyncErr(w)
      PROVE  WalNext
  BY <1>3, Zenon DEF SyncOk, SyncErr, WalNext
<1>4. ASSUME CrashProcess \/ CrashMachine \/ Reopen
      PROVE  WalNext
  BY <1>4, Zenon DEF CrashProcess, CrashMachine, Reopen, WalNext
<1>5. ASSUME CheckpointStep
      PROVE  UNCHANGED walVars
  BY <1>5, Zenon DEF CheckpointStep, BeginCheckpoint, WriteTemp, RenameTemp,
              SyncDirectory, CheckpointErr, walVars
<1>6. ASSUME NEW w \in Writers,
             \/ BeginCall(w) \/ Backpressure(w) \/ LockBusy(w) \/ TakeLock(w)
             \/ ApplyOk(w) \/ ApplyErr(w) \/ Publish(w) \/ AdvanceFrontier(w)
             \/ Unlock(w) \/ DropSlot(w) \/ NotifyAndReturn(w)
      PROVE  UNCHANGED walVars
  BY <1>6, ZenonT(40) DEF BeginCall, Backpressure, LockBusy, TakeLock, ApplyOk, ApplyErr,
              Publish, AdvanceFrontier, Unlock, DropSlot, NotifyAndReturn, walVars
<1>7. ASSUME UNCHANGED vars
      PROVE  UNCHANGED walVars
  BY <1>7, Zenon DEF vars, walVars
<1> QED
  BY <1>1, <1>2, <1>3, <1>4, <1>5, <1>6, <1>7, ZenonT(40) DEF Next, CallStep

\* Every step of the database is a step of the limiter, leaves it alone, or is
\* a crash, after which the counter starts from zero.
LEMMA LimiterSteps ==
    ASSUME TypeInv, [Next]_vars
    PROVE  LimiterInv'
<1>1. ASSUME NEW w \in Writers, BeginCall(w) \/ Backpressure(w) \/ DropSlot(w)
      PROVE  LimiterInv'
  <2>1. LimiterNext
    BY <1>1, Zenon DEF BeginCall, Backpressure, DropSlot, LimiterNext
  <2> QED
    BY <2>1, LimiterStep, Zenon DEF TypeInv
<1>2. ASSUME CrashProcess \/ CrashMachine
      PROVE  LimiterInv'
  <2>1. active' = 0 /\ slot' = [w \in Writers |-> "none"]
    BY <1>2, Zenon DEF CrashProcess, CrashMachine, LoseMemory
  <2>2. Counted' = {} /\ Guards' = {}
    BY <2>1, Zenon DEF Counted, Guards
  <2> QED
    BY <2>1, <2>2, FS_EmptySet, LimiterAssumption
    DEF LimiterInv, LimiterTypeOK, Slots, CountExact, GuardsBounded
<1>3. ASSUME UNCHANGED limiterVars
      PROVE  LimiterInv'
  BY <1>3, LimiterStep, Zenon DEF TypeInv
<1>4. ASSUME CheckpointStep \/ Reopen \/ UNCHANGED vars
      PROVE  UNCHANGED limiterVars
  BY <1>4, Zenon DEF CheckpointStep, BeginCheckpoint, WriteTemp, RenameTemp,
              SyncDirectory, CheckpointErr, Reopen, limiterVars, vars
<1>5. ASSUME NEW w \in Writers,
             \/ LockBusy(w) \/ TakeLock(w) \/ ApplyOk(w) \/ ApplyErr(w)
             \/ LogOk(w) \/ LogErr(w) \/ SyncOk(w) \/ SyncErr(w) \/ Publish(w)
             \/ AdvanceFrontier(w) \/ Unlock(w) \/ NotifyAndReturn(w)
      PROVE  UNCHANGED limiterVars
  BY <1>5, ZenonT(40) DEF LockBusy, TakeLock, ApplyOk, ApplyErr, LogOk, LogErr, SyncOk,
              SyncErr, Publish, AdvanceFrontier, Unlock, NotifyAndReturn, limiterVars
<1> QED
  BY <1>1, <1>2, <1>3, <1>4, <1>5, Zenon DEF Next, CallStep

-----------------------------------------------------------------------------
\* Recovery produces a store.
LEMMA ReplayedType ==
    ASSUME WalTypeOK, ckpt \in Store
    PROVE  Replayed(wal) \in SUBSET Entry
<1> SUFFICES ASSUME NEW i \in 1..Len(wal), Readable(wal, i)
             PROVE  EntryOf(wal[i]) \in Entry
  BY Zenon DEF Replayed, ReadableFrames
<1>1. wal[i] \in Frame
  BY SeqElement, Zenon DEF WalTypeOK
<1>2. wal[i].ok
  BY SeqLen DEF Readable, WalTypeOK
<1> QED
  BY <1>1, <1>2, FrameFields, Zenon DEF EntryOf, Entry

\* The types of a call and of the stores, and the shape of a call that logs.
LEMMA TypeStep ==
    ASSUME TypeInv, [Next]_vars
    PROVE  CallTypeOK' /\ StoreTypeOK' /\ CallShape'
<1>0. CallTypeOK /\ StoreTypeOK /\ CallShape /\ WalTypeOK
  BY Zenon DEF TypeInv, TypeOK
<1> USE DEF CallTypeOK, StoreTypeOK, CallShape, Steps
<1>1. ASSUME NEW w \in Writers, BeginCall(w) \/ Backpressure(w) \/ LockBusy(w)
      PROVE  CallTypeOK' /\ StoreTypeOK' /\ CallShape'
  BY <1>0, <1>1, ZenonT(30)
     DEF BeginCall, Backpressure, LockBusy, Goto, Fail, ckptVars, historyVars
<1>2. ASSUME NEW w \in Writers, TakeLock(w)
      PROVE  CallTypeOK' /\ StoreTypeOK' /\ CallShape'
  <2>1. PICK n \in Nat : \E s \in Jobs(n) : job' = [job EXCEPT ![w] = s]
    BY <1>2, DatabaseAssumption, Zenon DEF TakeLock
  <2>2. PICK s \in Jobs(n) : job' = [job EXCEPT ![w] = s]
    BY <2>1, ZenonT(40)
  <2>3. s \in Seq(Txs) /\ \A i \in 1..Len(s) : s[i] \in Txs
    BY <1>0, JobType, Zenon
  <2>4. used' = used \cup {s[i] : i \in 1..Len(s)}
    BY <1>0, <1>2, <2>2 DEF TakeLock
  <2>5. used' \in SUBSET Txs /\ job' \in [Writers -> Seq(Txs)]
    BY <1>0, <2>2, <2>3, <2>4
  <2>6. batch' \in [Writers -> BOOLEAN]
    BY <1>0, <1>2, ZenonT(40) DEF TakeLock
  <2>7. pc' = [pc EXCEPT ![w] = "apply"] /\ \A v \in Writers : v # w => job'[v] = job[v]
    BY <1>0, <1>2, <2>2, ZenonT(40) DEF TakeLock, Goto
  <2> QED
    BY <1>0, <1>2, <2>5, <2>6, <2>7, Zenon DEF TakeLock, ckptVars
<1>3. ASSUME NEW w \in Writers, ApplyOk(w)
      PROVE  CallTypeOK' /\ StoreTypeOK' /\ CallShape'
  <2>1. /\ job[w] \in Seq(Txs) /\ Len(job[w]) \in Nat
        /\ \A i \in 1..Len(job[w]) : job[w][i] \in Txs
    BY <1>0, ElementTypes, Zenon
  <2>2. current.epoch \in Nat /\ current.entries \in SUBSET Entry
    BY <1>0, ZenonT(40) DEF Store
  <2>3. next'[w] \in Store
    <3>1. next'[w].epoch \in Nat
      BY <1>0, <1>3, <2>1, <2>2 DEF ApplyOk
    <3>2. \A i \in 1..Len(job[w]) :
             [epoch |-> current.epoch + i, tx |-> job[w][i]] \in Entry
      BY <2>1, <2>2 DEF Entry
    <3>3. next'[w] = [epoch |-> current.epoch + Len(job[w]),
                      entries |-> current.entries \cup
                         {[epoch |-> current.epoch + i, tx |-> job[w][i]] : i \in 1..Len(job[w])}]
      BY <1>0, <1>3, ZenonT(40) DEF ApplyOk
    <3> HIDE DEF CallTypeOK, StoreTypeOK, CallShape, Steps
    <3> QED
      BY <2>2, <3>1, <3>2, <3>3 DEF Store
  <2>4. next' = [next EXCEPT ![w] = next'[w]]
    BY <1>0, <1>3, ZenonT(40) DEF ApplyOk
  <2>5. /\ idx[w] \in 1..Len(job[w])
        /\ Len(job[w]) <= next'[w].epoch
        /\ next'[w].epoch \in Epochs
    <3>1. Len(job[w]) # 0
      BY <1>3, <2>1, SeqEmpty, ZenonT(40) DEF ApplyOk
    <3>2. next'[w].epoch = current.epoch + Len(job[w]) /\ next'[w].epoch \in Epochs
      BY <1>0, <1>3, Zenon DEF ApplyOk
    <3> QED
      BY <1>0, <1>3, <2>1, <2>2, <3>1, <3>2 DEF ApplyOk
  <2> QED
    BY <1>0, <1>3, <2>3, <2>4, <2>5, ZenonT(40) DEF ApplyOk, Goto, ckptVars, historyVars
<1>4. ASSUME NEW w \in Writers, ApplyErr(w) \/ LogErr(w) \/ SyncErr(w)
      PROVE  CallTypeOK' /\ StoreTypeOK' /\ CallShape'
  BY <1>0, <1>4, ZenonT(30)
     DEF ApplyErr, LogErr, SyncErr, Goto, Fail, ckptVars, historyVars
<1>5. ASSUME NEW w \in Writers, LogOk(w)
      PROVE  CallTypeOK' /\ StoreTypeOK' /\ CallShape'
  BY <1>0, <1>5, ZenonT(40) DEF LogOk, Goto, ckptVars, historyVars
<1>13. ASSUME NEW w \in Writers, SyncOk(w)
      PROVE  CallTypeOK' /\ StoreTypeOK' /\ CallShape'
  <2>1. idx[w] \in 1..Len(job[w]) /\ Len(job[w]) \in Nat
    BY <1>0, <1>13, ElementTypes, ZenonT(40) DEF SyncOk
  <2>2. CASE idx[w] < Len(job[w])
    <3>1. idx' = [idx EXCEPT ![w] = idx[w] + 1] /\ idx[w] + 1 \in 1..Len(job[w])
      BY <1>13, <2>1, <2>2 DEF SyncOk
    <3>2. idx' \in [Writers -> Nat \ {0}] /\ idx'[w] \in 1..Len(job[w])
      BY <1>0, <2>1, <3>1
    <3>3. \A v \in Writers : v # w => pc'[v] = pc[v] /\ idx'[v] = idx[v]
      BY <1>0, <1>13, <2>2, <3>1, Zenon DEF SyncOk, Goto
    <3>4. pc' \in [Writers -> Steps] /\ pc'[w] = "append"
      BY <1>0, <1>13, <2>2, ZenonT(40) DEF SyncOk, Goto
    <3>5. UNCHANGED <<limiterVars, current, lock, frontier, job, batch, next,
                      failed, ckptVars, historyVars>>
      BY <1>13, Zenon DEF SyncOk
    <3>6. CallTypeOK' /\ StoreTypeOK'
      BY <1>0, <3>2, <3>4, <3>5, ZenonT(40) DEF ckptVars, historyVars
    <3>7. CallShape'
      BY <1>0, <1>13, <3>2, <3>3, <3>4, <3>5, ZenonT(40) DEF SyncOk
    <3> QED
      BY <3>6, <3>7, ZenonT(40)
  <2>3. CASE ~ (idx[w] < Len(job[w]))
    BY <1>0, <1>13, <2>3, ZenonT(40) DEF SyncOk, Goto, ckptVars, historyVars
  <2> QED
    BY <2>2, <2>3, ZenonT(40)
<1>6. ASSUME NEW w \in Writers, Publish(w) \/ AdvanceFrontier(w)
      PROVE  CallTypeOK' /\ StoreTypeOK' /\ CallShape'
  <2>1. /\ Len(job[w]) \in 1..Len(job[w]) /\ 1 \in 1..Len(job[w])
        /\ \A i \in 1..Len(job[w]) : job[w][i] \in Txs
    BY <1>0, <1>6, ElementTypes DEF Publish, AdvanceFrontier
  <2>2. lastCommit' \in Txs \cup {NoTx} /\ frontier' \in Txs \cup {NoTx}
    BY <1>0, <1>6, <2>1 DEF Publish, AdvanceFrontier, historyVars
  <2>3. pc' = [pc EXCEPT ![w] = pc'[w]] /\ pc'[w] \in {"unlock", "frontier"}
    BY <1>0, <1>6, ZenonT(40) DEF Publish, AdvanceFrontier, Goto
  <2>4. current' \in Store
    BY <1>0, <1>6, ZenonT(40) DEF Publish, AdvanceFrontier
  <2>5. UNCHANGED <<lock, job, batch, idx, next, failed, ckptVars, used, acked, refused>>
    BY <1>6, Zenon DEF Publish, AdvanceFrontier, historyVars
  <2>6. CallTypeOK' /\ StoreTypeOK'
    BY <1>0, <2>2, <2>3, <2>4, <2>5, ZenonT(40) DEF ckptVars
  <2>7. CallShape'
    BY <1>0, <1>6, <2>3, <2>5, ZenonT(40) DEF Publish, AdvanceFrontier
  <2> QED
    BY <2>6, <2>7, Zenon
<1>7. ASSUME NEW w \in Writers, Unlock(w)
      PROVE  CallTypeOK' /\ StoreTypeOK' /\ CallShape'
  BY <1>0, <1>7, ZenonT(40) DEF Unlock, Goto, ckptVars, historyVars
<1>8. ASSUME NEW w \in Writers, DropSlot(w) \/ NotifyAndReturn(w)
      PROVE  CallTypeOK' /\ StoreTypeOK' /\ CallShape'
  <2>1. JobTxs(w) \in SUBSET Txs /\ << >> \in Seq(Txs) /\ Genesis \in Store
    BY <1>0, ElementTypes, SeqEmpty, ZenonT(40) DEF Genesis, Store
  <2>2. CASE DropSlot(w) /\ failed[w]
    <3>1. Return(w) /\ UNCHANGED <<lock, frontier, used, acked, lastCommit>>
      BY <2>2, ZenonT(40) DEF DropSlot
    <3>2. refused' \in SUBSET SUBSET Txs
      <4>1. refused' \in {refused, refused \cup {JobTxs(w)}}
        BY <2>2, Zenon DEF DropSlot
      <4>2. refused \in SUBSET SUBSET Txs
        BY <1>0, Zenon
      <4> HIDE DEF CallTypeOK, StoreTypeOK, CallShape
      <4> QED
        BY <2>1, <4>1, <4>2, ZenonT(40)
    <3>6. pc' \in [Writers -> Steps] /\ job' \in [Writers -> Seq(Txs)]
      BY <1>0, <2>1, <3>1, ZenonT(40) DEF Return, Goto
    <3>7. batch' \in [Writers -> BOOLEAN] /\ failed' \in [Writers -> BOOLEAN]
      BY <1>0, <3>1, Zenon DEF Return
    <3>8. idx' \in [Writers -> Nat \ {0}]
      BY <1>0, <3>1 DEF Return
    <3>3. CallTypeOK'
      BY <1>0, <3>1, <3>2, <3>6, <3>7, <3>8, ZenonT(40)
    <3>4. StoreTypeOK'
      BY <1>0, <2>1, <2>2, ZenonT(40) DEF DropSlot, Return, ckptVars
    <3>5. CallShape'
      BY <1>0, <3>1, Zenon DEF Return, Goto
    <3> QED
      BY <3>3, <3>4, <3>5, Zenon
  <2>3. CASE DropSlot(w) /\ ~ failed[w]
    BY <1>0, <2>1, <2>3, ZenonT(30) DEF DropSlot, Goto, ckptVars
  <2>4. CASE NotifyAndReturn(w)
    BY <1>0, <2>1, <2>4 DEF NotifyAndReturn, Return, Goto, ckptVars
  <2> QED
    BY <1>8, <2>2, <2>3, <2>4, ZenonT(40)
<1>9. ASSUME CheckpointStep
      PROVE  CallTypeOK' /\ StoreTypeOK' /\ CallShape'
  <2>1. Genesis \in Store
    BY Zenon DEF Genesis, Store
  <2> QED
    BY <1>0, <1>9, <2>1, ZenonT(40) DEF CheckpointStep, BeginCheckpoint, WriteTemp, RenameTemp,
       SyncDirectory, CheckpointErr, callVars, historyVars
<1>10. ASSUME CrashProcess \/ CrashMachine
      PROVE  CallTypeOK' /\ StoreTypeOK' /\ CallShape'
  <2>1. Genesis \in Store /\ << >> \in Seq(Txs)
    BY SeqEmpty, Zenon DEF Genesis, Store
  <2>2. LoseMemory /\ ckpt' \in Store /\ ckptDurable' \in Store
    BY <1>0, <1>10, ZenonT(40) DEF CrashProcess, CrashMachine
  <2>3. CallTypeOK'
    BY <1>0, <2>1, <2>2 DEF LoseMemory
  <2>4. StoreTypeOK'
    BY <2>1, <2>2, Zenon DEF LoseMemory
  <2>5. CallShape'
    BY <2>2, ZenonT(40) DEF LoseMemory
  <2> QED
    BY <2>3, <2>4, <2>5, ZenonT(40)
<1>11. ASSUME Reopen
      PROVE  CallTypeOK' /\ StoreTypeOK' /\ CallShape'
  <2>1. lastSynced' \in Nat
    BY OrderStep, WalSteps, Zenon DEF TypeInv, OrderInv, WalTypeOK
  <2>2. ckpt.epoch \in Nat /\ ckpt.entries \in SUBSET Entry
    BY <1>0, Zenon DEF Store
  <2>3. Replayed(wal) \in SUBSET Entry
    BY <1>0, ReplayedType, Zenon
  <2>4. current' \in Store
    BY <1>11, <2>1, <2>2, <2>3, ZenonT(40) DEF Reopen, Store, WalMax
  <2> QED
    BY <1>0, <1>11, <2>4, ZenonT(40) DEF Reopen, callVars, ckptVars, historyVars
<1>12. CASE UNCHANGED vars
  BY <1>0, <1>12, Zenon DEF vars, callVars, ckptVars, historyVars
<1> QED
  BY <1>1, <1>2, <1>3, <1>4, <1>5, <1>6, <1>7, <1>8, <1>9, <1>10, <1>11, <1>12, <1>13, ZenonT(40)
  DEF Next, CallStep

\* The types, the order of the log, the exact limiter and the shape of a call
\* are kept by every step.
LEMMA TypeInvStep ==
    ASSUME TypeInv, [Next]_vars
    PROVE  TypeInv'
<1>1. OrderInv'
  BY OrderStep, WalSteps, Zenon DEF TypeInv
<1>2. LimiterInv'
  BY LimiterSteps, Zenon
<1> QED
  BY <1>1, <1>2, TypeStep, Zenon DEF TypeInv, TypeOK, OrderInv, LimiterInv

\* The start of a database.
LEMMA TypeInvInit ==
    ASSUME Init
    PROVE  TypeInv
<1>1. OrderInv
  BY WalInitially, Zenon DEF Init
<1>2. LimiterInv
  <2>1. Counted = {} /\ Guards = {}
    BY Zenon DEF Init, LimiterInit, Counted, Guards
  <2> QED
    BY <2>1, FS_EmptySet, LimiterAssumption
    DEF Init, LimiterInit, LimiterInv, LimiterTypeOK, Slots, CountExact, GuardsBounded
<1>3. Genesis \in Store /\ << >> \in Seq(Txs)
  BY SeqEmpty, Zenon DEF Genesis, Store
<1>4. CallTypeOK
  BY <1>3 DEF Init, CallTypeOK, Steps
<1>5. StoreTypeOK
  BY <1>3, Zenon DEF Init, StoreTypeOK
<1>6. CallShape
  BY Zenon DEF Init, CallShape
<1> QED
  BY <1>1, <1>2, <1>4, <1>5, <1>6, ZenonT(40) DEF TypeInv, TypeOK, OrderInv, LimiterInv

\* Database<Ready> keeps its types, and inside it the log keeps its epochs
\* increasing and the write limiter its count exact and within its bound,
\* through crashes and recoveries, for every number of writers, transactions and crashes.
THEOREM DatabaseTypes ==
    Spec => [](TypeOK /\ EpochsIncrease /\ CountExact /\ GuardsBounded)
<1>1. Init => TypeInv
  BY TypeInvInit, Zenon
<1>2. TypeInv /\ [Next]_vars => TypeInv'
  BY TypeInvStep, Zenon
<1>3. TypeInv => TypeOK /\ EpochsIncrease /\ CountExact /\ GuardsBounded
  BY Zenon DEF TypeInv, OrderInv, LimiterInv
<1> QED
  BY <1>1, <1>2, <1>3, PTL DEF Spec

-----------------------------------------------------------------------------
\* A call keeps the database open.
LEMMA CallsKeepOpen ==
    ASSUME NEW w \in Writers, BeginCall(w) \/ CallStep(w)
    PROVE  open /\ open'
<1>1. CASE LogOk(w) \/ LogErr(w) \/ SyncOk(w) \/ SyncErr(w)
  <2>1. CASE LogOk(w)
    <3> DEFINE e == ReceiptEpoch(w)
               t == job[w][idx[w]]
    <3>1. AppendOk(e, t)
      BY <2>1, Zenon DEF LogOk
    <3> HIDE DEF e, t
    <3> QED
      BY <3>1, ZenonT(40) DEF AppendOk
  <2>2. CASE LogErr(w)
    <3> DEFINE e == ReceiptEpoch(w)
    <3>1. AppendRefused(e) \/ AppendFailed(e)
      BY <2>2, Zenon DEF LogErr
    <3> HIDE DEF e
    <3>2. CASE AppendRefused(e)
      BY <3>2, Zenon DEF AppendRefused, walVars
    <3>3. CASE AppendFailed(e)
      BY <3>3, Zenon DEF AppendFailed
    <3> QED
      BY <3>1, <3>2, <3>3, Zenon
  <2>3. CASE SyncOk(w)
    <3>1. FsyncOk
      BY <2>3, Zenon DEF SyncOk
    <3> QED
      BY <3>1, Zenon DEF FsyncOk
  <2>4. CASE SyncErr(w)
    <3>1. FsyncFailed
      BY <2>4, Zenon DEF SyncErr
    <3> QED
      BY <3>1, Zenon DEF FsyncFailed, walVars
  <2> QED
    BY <1>1, <2>1, <2>2, <2>3, <2>4, Zenon
<1>2. CASE ~ (LogOk(w) \/ LogErr(w) \/ SyncOk(w) \/ SyncErr(w))
  <2>1. open
    BY <1>2, ZenonT(40) DEF BeginCall, CallStep, Backpressure, LockBusy, TakeLock,
       ApplyOk, ApplyErr, Publish, AdvanceFrontier, Unlock, DropSlot,
       NotifyAndReturn
  <2>2. UNCHANGED walVars
    BY <1>2, ZenonT(40) DEF BeginCall, CallStep, Backpressure, LockBusy, TakeLock,
       ApplyOk, ApplyErr, Publish, AdvanceFrontier, Unlock, DropSlot,
       NotifyAndReturn
  <2>3. open' = open
    BY <2>2, Zenon DEF walVars
  <2> QED
    BY <2>1, <2>3, Zenon
<1> QED
  BY <1>1, <1>2, Zenon

\* A call moves only its own thread.
LEMMA CallsMoveOne ==
    ASSUME CallTypeOK, StoreTypeOK, NEW w \in Writers, BeginCall(w) \/ CallStep(w),
           NEW v \in Writers, v # w
    PROVE  /\ pc'[v] = pc[v] /\ job'[v] = job[v] /\ idx'[v] = idx[v]
           /\ failed'[v] = failed[v] /\ next'[v] = next[v]
  BY ZenonT(40) DEF CallTypeOK, StoreTypeOK, BeginCall, CallStep, Backpressure, LockBusy,
     TakeLock, ApplyOk, ApplyErr, LogOk, LogErr, SyncOk, SyncErr, Publish,
     AdvanceFrontier, Unlock, DropSlot, NotifyAndReturn, Goto, Fail, Return

-----------------------------------------------------------------------------
(* An acknowledged transaction is on disk.  The invariant follows a call from *)
(* receipt to receipt: each was vouched for by an Ok of fsync before the call *)
(* moved on, so at the publication all were.  No lock is needed for this part.*)

Vouched(t) == \E f \in confirmed : f.tx = t

\* A call that will return Ok unless it crashes.
Succeeding(w) ==
    \/ pc[w] \in {"publish", "frontier", "notify"}
    \/ pc[w] \in {"unlock", "dropSlot"} /\ ~ failed[w]

LoggedSoFar(w) ==
    /\ pc[w] \in {"append", "fsync"} =>
          \A i \in 1..Len(job[w]) : i < idx[w] => Vouched(job[w][i])
    /\ pc[w] = "fsync" =>
          \E k \in 1..Len(wal) : wal[k].ok /\ wal[k].tx = job[w][idx[w]]
    /\ Succeeding(w) => \A i \in 1..Len(job[w]) : Vouched(job[w][i])

LoggedInv ==
    /\ ~ open => \A w \in Writers : pc[w] = "idle"
    /\ \A w \in Writers : LoggedSoFar(w)
    /\ \A t \in acked : Vouched(t)

\* fsync never takes back what it vouched for.
LEMMA VouchedStays ==
    ASSUME TypeInv, [Next]_vars, NEW t, Vouched(t)
    PROVE  Vouched(t)'
<1>1. [WalNext]_walVars
  BY WalSteps, Zenon
<1>2. confirmed \subseteq confirmed'
  BY <1>1, Zenon DEF WalNext, AppendRefused, AppendOk, AppendFailed, FsyncOk, FsyncFailed,
              KillProcess, LosePower, RecoverWal, walVars
<1> QED
  BY <1>2, Zenon DEF Vouched

\* A call that does not move, or moves among the steps that log nothing, keeps
\* its record as long as the log is not cut.
LEMMA LoggedStays ==
    ASSUME TypeInv, [Next]_vars, NEW v \in Writers, LoggedSoFar(v),
           pc'[v] = pc[v], job'[v] = job[v], idx'[v] = idx[v], failed'[v] = failed[v],
           wal' = wal \/ \E f \in Frame : wal' = Append(wal, f)
    PROVE  LoggedSoFar(v)'
<1>1. \A t : Vouched(t) => Vouched(t)'
  BY VouchedStays, Zenon
<1>2. wal \in Seq(Frame) /\ Len(wal) \in Nat
  BY SeqLen, Zenon DEF TypeInv, TypeOK, WalTypeOK
<1>3. \A k \in 1..Len(wal) : k \in 1..Len(wal') /\ wal'[k] = wal[k]
  <2>1. CASE wal' = wal
    BY <1>2, <2>1, Zenon
  <2>2. ASSUME NEW f \in Frame, wal' = Append(wal, f)
        PROVE  \A k \in 1..Len(wal) : k \in 1..Len(wal') /\ wal'[k] = wal[k]
    BY <1>2, <2>2, SeqAppend
  <2> QED
    BY <2>1, <2>2, Zenon
<1>4. pc[v] = "fsync" =>
        \E k \in 1..Len(wal') : wal'[k].ok /\ wal'[k].tx = job'[v][idx'[v]]
  BY <1>3, Zenon DEF LoggedSoFar
<1> QED
  BY <1>1, <1>4, ZenonT(40) DEF LoggedSoFar, Succeeding

\* While the database is open the log only grows.
LEMMA LogGrows ==
    ASSUME TypeInv, [Next]_vars, open'
    PROVE  \/ wal' = wal \/ \E f \in Frame : wal' = Append(wal, f)
           \/ ~ open
<1>1. [WalNext]_walVars
  BY WalSteps, Zenon
<1>2. ASSUME NEW e \in Epochs, NEW t \in Txs, AppendOk(e, t)
      PROVE  \E f \in Frame : wal' = Append(wal, f)
  <2>1. e \in Nat \ {0}
    BY WalAssumption, Zenon
  <2>2. GoodFrame(e, t) \in Frame
    BY <2>1, Zenon DEF GoodFrame, Frame
  <2> QED
    BY <1>2, <2>2, Zenon DEF AppendOk
<1>3. ASSUME NEW e \in Epochs, AppendFailed(e)
      PROVE  wal' = wal \/ \E f \in Frame : wal' = Append(wal, f)
  BY <1>3, TornType, Zenon DEF AppendFailed
<1> QED
  BY <1>1, <1>2, <1>3, ZenonT(40) DEF WalNext, AppendRefused, FsyncOk, FsyncFailed,
     KillProcess, LosePower, RecoverWal, walVars

\* One step of any thread keeps the record of every call.
LEMMA LoggedStep ==
    ASSUME TypeInv, LoggedInv, [Next]_vars
    PROVE  LoggedInv'
<1>0. CallTypeOK /\ StoreTypeOK /\ CallShape /\ WalTypeOK
  BY Zenon DEF TypeInv, TypeOK
<1>1. \A t : Vouched(t) => Vouched(t)'
  BY VouchedStays, Zenon
<1>2. ASSUME NEW w \in Writers, BeginCall(w) \/ CallStep(w)
      PROVE  LoggedInv'
  <2>0. open /\ open'
    BY <1>2, CallsKeepOpen, Zenon
  <2>1. ASSUME NEW v \in Writers, v # w
        PROVE  LoggedSoFar(v)'
    <3>1. /\ pc'[v] = pc[v] /\ job'[v] = job[v] /\ idx'[v] = idx[v]
          /\ failed'[v] = failed[v]
      BY <1>0, <1>2, <2>1, CallsMoveOne, ZenonT(40)
    <3> QED
      BY <2>0, <2>1, <3>1, LogGrows, LoggedStays, ZenonT(40) DEF LoggedInv
  <2>2. LoggedSoFar(w)'
    <3>1. CASE BeginCall(w) \/ Backpressure(w) \/ LockBusy(w) \/ TakeLock(w)
      BY <1>0, <3>1, Zenon DEF CallTypeOK, BeginCall, Backpressure, LockBusy, TakeLock, Goto,
         Fail, LoggedSoFar, Succeeding
    <3>2. CASE ApplyOk(w)
      <4>1. pc'[w] = "append" /\ idx' = idx
        BY <1>0, <3>2, ZenonT(40) DEF CallTypeOK, ApplyOk, Goto
      <4>2. idx[w] = 1
        BY <1>0, <3>2, ZenonT(40) DEF CallShape, ApplyOk
      <4>3. \A i \in 1..Len(job'[w]) : ~ (i < idx'[w])
        BY <4>1, <4>2
      <4> QED
        BY <4>1, <4>3, ZenonT(40) DEF LoggedSoFar, Succeeding
    <3>3. CASE ApplyErr(w) \/ LogErr(w) \/ SyncErr(w)
      BY <1>0, <3>3, ZenonT(40) DEF CallTypeOK, ApplyErr, LogErr, SyncErr, Goto, Fail, LoggedSoFar,
         Succeeding
    <3>4. CASE LogOk(w)
      <4> DEFINE f == GoodFrame(ReceiptEpoch(w), job[w][idx[w]])
      <4>1. wal' = Append(wal, f) /\ f.ok /\ f.tx = job[w][idx[w]]
        BY <3>4, Zenon DEF LogOk, AppendOk, GoodFrame
      <4>2. \E k \in 1..Len(wal') : wal'[k] = f
        <5>1. wal \in Seq(Frame) /\ Len(wal) \in Nat
          BY <1>0, SeqLen, Zenon DEF WalTypeOK
        <5>2. f \in Frame
          BY <3>4, ReceiptType, Zenon DEF LogOk
        <5> HIDE DEF f
        <5>3. Len(wal') = Len(wal) + 1 /\ wal'[Len(wal) + 1] = f
          BY <4>1, <5>1, <5>2, SeqAppend, Zenon
        <5> QED
          BY <5>1, <5>3
      <4>3. pc'[w] = "fsync" /\ job' = job /\ idx' = idx /\ pc[w] = "append"
        BY <1>0, <3>4, Zenon DEF CallTypeOK, LogOk, Goto
      <4> HIDE DEF f
      <4> QED
        BY <1>1, <4>1, <4>2, <4>3, ZenonT(40) DEF LoggedInv, LoggedSoFar, Succeeding
    <3>5. CASE SyncOk(w)
      <4>1. \E f \in confirmed' : f.tx = job[w][idx[w]]
        <5>1. PICK k \in 1..Len(wal) : wal[k].ok /\ wal[k].tx = job[w][idx[w]]
          BY <3>5, ZenonT(40) DEF SyncOk, LoggedInv, LoggedSoFar
        <5>2. wal[k] \in confirmed' /\ job' = job
          BY <3>5, <5>1, Zenon DEF SyncOk, FsyncOk
        <5> QED
          BY <5>1, <5>2, Zenon
      <4>2. \A i \in 1..Len(job[w]) :
               i <= idx[w] => \E f \in confirmed' : f.tx = job[w][i]
        <5> SUFFICES ASSUME NEW i \in 1..Len(job[w]), i <= idx[w]
                     PROVE  \E f \in confirmed' : f.tx = job[w][i]
          BY Zenon
        <5>1. CASE i = idx[w]
          BY <4>1, <5>1, Zenon
        <5>2. CASE i < idx[w]
          <6>1. Vouched(job[w][i])
            BY <3>5, <5>2, Zenon DEF SyncOk, LoggedInv, LoggedSoFar
          <6>2. confirmed \subseteq confirmed'
            BY <3>5, Zenon DEF SyncOk, FsyncOk
          <6> QED
            BY <6>1, <6>2, Zenon DEF Vouched
        <5> QED
          BY <1>0, <5>1, <5>2 DEF CallTypeOK
      <4>3. job' = job
        BY <3>5, Zenon DEF SyncOk
      <4>4. CASE idx[w] < Len(job[w])
        <5>1. pc'[w] = "append" /\ idx'[w] = idx[w] + 1
          BY <1>0, <3>5, <4>4, Zenon DEF CallTypeOK, SyncOk, Goto
        <5>2. idx[w] \in Nat
          BY <1>0, Zenon DEF CallTypeOK
        <5>3. \A i \in 1..Len(job[w]) : i < idx[w] + 1 => i <= idx[w]
          BY <5>2
        <5> QED
          BY <4>2, <4>3, <5>1, <5>3, Zenon DEF LoggedSoFar, Succeeding, Vouched
      <4>5. CASE ~ (idx[w] < Len(job[w]))
        <5>1. pc'[w] = "publish" /\ idx'[w] = idx[w]
          BY <1>0, <3>5, <4>5, Zenon DEF CallTypeOK, SyncOk, Goto
        <5>2. Len(job[w]) \in Nat /\ idx[w] \in Nat
          BY <1>0, ElementTypes, Zenon DEF CallTypeOK
        <5> QED
          BY <4>2, <4>3, <4>5, <5>1, <5>2 DEF LoggedSoFar, Succeeding, Vouched
      <4> QED
        BY <4>4, <4>5, Zenon
    <3>6. CASE Publish(w) \/ AdvanceFrontier(w) \/ Unlock(w)
      <4>1. Succeeding(w)' => Succeeding(w)
        BY <1>0, <3>6, Zenon DEF CallTypeOK, Publish, AdvanceFrontier, Unlock, Goto, Succeeding
      <4>2. job' = job /\ pc'[w] \in {"frontier", "unlock", "dropSlot"}
        BY <1>0, <3>6, ZenonT(40) DEF CallTypeOK, Publish, AdvanceFrontier, Unlock, Goto
      <4> QED
        BY <1>1, <4>1, <4>2, ZenonT(40) DEF LoggedInv, LoggedSoFar
    <3>7. CASE DropSlot(w) \/ NotifyAndReturn(w)
      <4>1. CASE pc'[w] = "idle"
        <5>1. ~ Succeeding(w)'
          BY <4>1, ZenonT(40) DEF Succeeding
        <5> QED
          BY <4>1, <5>1, ZenonT(40) DEF LoggedSoFar
      <4>2. CASE pc'[w] = "notify"
        <5>1. Succeeding(w) /\ job' = job
          BY <1>0, <3>7, <4>2, Zenon DEF CallTypeOK, DropSlot, NotifyAndReturn, Return, Goto,
             Succeeding
        <5> QED
          BY <1>1, <4>2, <5>1, ZenonT(40) DEF LoggedInv, LoggedSoFar
      <4> QED
        BY <1>0, <3>7, <4>1, <4>2, Zenon DEF CallTypeOK, DropSlot, NotifyAndReturn, Return, Goto
    <3> QED
      BY <1>2, <3>1, <3>2, <3>3, <3>4, <3>5, <3>6, <3>7, ZenonT(40) DEF CallStep
  <2>3. \A t \in acked' : Vouched(t)'
    <3>1. CASE NotifyAndReturn(w)
      <4>1. \A t \in JobTxs(w) : Vouched(t)
        BY <3>1, ZenonT(40) DEF NotifyAndReturn, LoggedInv, LoggedSoFar, Succeeding, JobTxs
      <4> QED
        BY <1>1, <3>1, <4>1, Zenon DEF NotifyAndReturn, LoggedInv
    <3>2. CASE ~ NotifyAndReturn(w)
      <4>1. acked' = acked
        BY <1>2, <3>2, ZenonT(40) DEF BeginCall, CallStep, Backpressure, LockBusy, TakeLock,
           ApplyOk, ApplyErr, LogOk, LogErr, SyncOk, SyncErr, Publish, AdvanceFrontier,
           Unlock, DropSlot, historyVars
      <4> QED
        BY <1>1, <4>1, Zenon DEF LoggedInv
    <3> QED
      BY <3>1, <3>2, Zenon
  <2> QED
    BY <2>0, <2>1, <2>2, <2>3, Zenon DEF LoggedInv
<1>3. CASE CheckpointStep \/ UNCHANGED vars
  <2>1. /\ UNCHANGED <<wal, open, confirmed, pc, job, idx, failed, acked>>
    BY <1>3, ZenonT(40) DEF CheckpointStep, BeginCheckpoint, WriteTemp, RenameTemp, SyncDirectory,
       CheckpointErr, callVars, historyVars, walVars, vars
  <2> QED
    BY <2>1, ZenonT(40) DEF LoggedInv, LoggedSoFar, Succeeding, Vouched
<1>4. CASE CrashProcess \/ CrashMachine
  <2>1. acked' = acked /\ pc' = [w \in Writers |-> "idle"]
    BY <1>4, Zenon DEF CrashProcess, CrashMachine, LoseMemory
  <2> QED
    BY <1>1, <2>1, ZenonT(40) DEF LoggedInv, LoggedSoFar, Succeeding
<1>5. CASE Reopen
  <2>1. acked' = acked /\ pc' = pc /\ \A w \in Writers : pc[w] = "idle"
    BY <1>5, Zenon DEF Reopen, RecoverWal, callVars, historyVars, LoggedInv
  <2> QED
    BY <1>1, <2>1, ZenonT(40) DEF LoggedInv, LoggedSoFar, Succeeding
<1> QED
  BY <1>2, <1>3, <1>4, <1>5, Zenon DEF Next

\* INV-FERR-014 for Database: where a failing write leaves no partial frame, a
\* transaction that transact or batch_transact acknowledged is on stable storage
\* where recovery reads it, through any failures, crashes and recoveries.
THEOREM AckedTransactionsDurable == ~ TornAppend => (Spec => []AckedDurable)
<1> SUFFICES ASSUME ~ TornAppend PROVE Spec => []AckedDurable
  BY Zenon
<1> DEFINE Inv == TypeInv /\ SurvivalInv /\ LoggedInv
<1>1. Init => Inv
  <2> SUFFICES ASSUME Init PROVE Inv
    BY Zenon
  <2>1. SurvivalInv
    BY WalInitially, Zenon DEF Init
  <2>2. LoggedInv
    BY Zenon DEF Init, LoggedInv, LoggedSoFar, Succeeding
  <2> QED
    BY <2>1, <2>2, TypeInvInit, Zenon
<1>2. Inv /\ [Next]_vars => Inv'
  <2> SUFFICES ASSUME Inv, [Next]_vars PROVE Inv'
    BY Zenon
  <2>1. TypeInv'
    BY TypeInvStep, Zenon
  <2>2. SurvivalInv'
    BY SurvivalStep, WalSteps, Zenon DEF TypeInv
  <2>3. LoggedInv'
    BY LoggedStep, Zenon
  <2> QED
    BY <2>1, <2>2, <2>3, Zenon
<1>3. Inv => AckedDurable
  <2> SUFFICES ASSUME Inv, NEW t \in acked
               PROVE  \E i \in 1..durable : Readable(wal, i) /\ wal[i].tx = t
    BY Zenon DEF AckedDurable
  <2>1. PICK f \in confirmed : f.tx = t
    BY Zenon DEF LoggedInv, Vouched
  <2> QED
    BY <2>1, Zenon DEF SurvivalInv, ConfirmedSurvive
<1> QED
  BY <1>1, <1>2, <1>3, PTL DEF Spec

-----------------------------------------------------------------------------
(* Published stores only grow.  A writer clones the published store, logs and *)
(* then swaps its clone in: the write lock, held all along, is what keeps the *)
(* clone ahead of the published store until the swap.                         *)

Critical == {"apply", "append", "fsync", "publish", "frontier", "unlock"}

LockInv ==
    /\ ~ open => \A w \in Writers : pc[w] = "idle"
    /\ \A w \in Writers :
         /\ pc[w] \in Critical => lock = w
         /\ pc[w] \in {"append", "fsync", "publish"} =>
               /\ current.entries \subseteq next[w].entries
               /\ current.epoch <= next[w].epoch

\* One step keeps the write lock with its holder.
LEMMA LockStep ==
    ASSUME TypeInv, LockInv, [Next]_vars
    PROVE  LockInv'
<1>0. CallTypeOK /\ StoreTypeOK
  BY Zenon DEF TypeInv, TypeOK
<1>1. ASSUME NEW w \in Writers, TakeLock(w)
      PROVE  LockInv'
  <2>1. lock = NoWriter /\ \A v \in Writers : pc[v] \notin Critical
    BY <1>1, DatabaseAssumption, Zenon DEF TakeLock, LockInv
  <2>2. pc' = [pc EXCEPT ![w] = "apply"] /\ lock' = w
    BY <1>1, ZenonT(40) DEF TakeLock, Goto
  <2>3. open /\ open'
    BY <1>1, CallsKeepOpen, Zenon DEF CallStep
  <2> QED
    BY <1>0, <2>1, <2>2, <2>3, ZenonT(40) DEF LockInv, CallTypeOK, Critical
<1>2. ASSUME NEW w \in Writers, ApplyOk(w)
      PROVE  LockInv'
  <2>1. lock = w /\ lock' = w /\ current' = current
    BY <1>2, Zenon DEF ApplyOk, LockInv, Critical
  <2>2. /\ current.entries \subseteq next'[w].entries
        /\ current.epoch <= next'[w].epoch
    <3>1. Len(job[w]) \in Nat /\ current.epoch \in Nat
      BY <1>0, ElementTypes, ZenonT(40) DEF StoreTypeOK, Store
    <3>2. /\ next'[w].epoch = current.epoch + Len(job[w])
          /\ current.entries \subseteq next'[w].entries
      BY <1>0, <1>2, Zenon DEF ApplyOk, StoreTypeOK
    <3> QED
      BY <3>1, <3>2
  <2>3. \A v \in Writers : v # w => pc'[v] = pc[v] /\ next'[v] = next[v]
    BY <1>0, <1>2, CallsMoveOne, ZenonT(40) DEF CallStep
  <2>4. open /\ open'
    BY <1>2, CallsKeepOpen, ZenonT(40) DEF CallStep
  <2> QED
    BY <2>1, <2>2, <2>3, <2>4, ZenonT(40) DEF LockInv
<1>3. ASSUME NEW w \in Writers,
             ApplyErr(w) \/ LogOk(w) \/ LogErr(w) \/ SyncOk(w) \/ SyncErr(w)
             \/ AdvanceFrontier(w)
      PROVE  LockInv'
  <2>1. /\ current' = current /\ lock' = lock /\ next' = next
        /\ pc[w] \in Critical /\ pc'[w] \in Critical
        /\ pc'[w] \in {"append", "fsync", "publish"} => pc[w] \in {"append", "fsync", "publish"}
    BY <1>0, <1>3, ZenonT(40) DEF ApplyErr, LogOk, LogErr, SyncOk, SyncErr, AdvanceFrontier, Goto,
       Fail, CallTypeOK, Critical
  <2>2. \A v \in Writers : v # w => pc'[v] = pc[v]
    BY <1>0, <1>3, CallsMoveOne, ZenonT(40) DEF CallStep
  <2>3. open /\ open'
    BY <1>3, CallsKeepOpen, ZenonT(40) DEF CallStep
  <2> QED
    BY <2>1, <2>2, <2>3, Zenon DEF LockInv
<1>4. ASSUME NEW w \in Writers, Publish(w) \/ Unlock(w)
      PROVE  LockInv'
  <2>1. lock = w
    BY <1>4, Zenon DEF Publish, Unlock, LockInv, Critical
  <2>2. \A v \in Writers : v # w => pc'[v] = pc[v] /\ pc[v] \notin Critical
    BY <1>0, <1>4, <2>1, CallsMoveOne, ZenonT(40) DEF CallStep, LockInv
  <2>3. /\ pc'[w] \in Critical => lock' = w
        /\ pc'[w] \notin {"append", "fsync", "publish"}
    BY <1>0, <1>4, <2>1, Zenon DEF Publish, Unlock, Goto, CallTypeOK, Critical
  <2>4. open /\ open'
    BY <1>4, CallsKeepOpen, Zenon DEF CallStep
  <2> QED
    BY <2>2, <2>3, <2>4, ZenonT(40) DEF LockInv, Critical
<1>5. ASSUME NEW w \in Writers,
             BeginCall(w) \/ Backpressure(w) \/ LockBusy(w) \/ DropSlot(w)
             \/ NotifyAndReturn(w)
      PROVE  LockInv'
  <2>1. current' = current /\ lock' = lock /\ pc'[w] \notin Critical
    BY <1>0, <1>5, ZenonT(40) DEF BeginCall, Backpressure, LockBusy, DropSlot, NotifyAndReturn,
       Return, Goto, Fail, CallTypeOK, Critical
  <2>2. \A v \in Writers : v # w => pc'[v] = pc[v] /\ next'[v] = next[v]
    BY <1>0, <1>5, CallsMoveOne, ZenonT(40) DEF CallStep
  <2>3. open /\ open'
    BY <1>5, CallsKeepOpen, Zenon DEF CallStep
  <2> QED
    BY <2>1, <2>2, <2>3, ZenonT(40) DEF LockInv, Critical
<1>6. CASE CheckpointStep \/ UNCHANGED vars
  <2>1. UNCHANGED <<open, pc, lock, current, next>>
    BY <1>6, ZenonT(40) DEF CheckpointStep, BeginCheckpoint, WriteTemp, RenameTemp, SyncDirectory,
       CheckpointErr, callVars, walVars, vars
  <2> QED
    BY <2>1, Zenon DEF LockInv
<1>7. CASE CrashProcess \/ CrashMachine
  BY <1>7, ZenonT(40) DEF CrashProcess, CrashMachine, LoseMemory, LockInv, Critical
<1>8. CASE Reopen
  <2>1. pc' = pc /\ \A w \in Writers : pc[w] = "idle"
    BY <1>8, Zenon DEF Reopen, RecoverWal, callVars, LockInv
  <2> QED
    BY <2>1, Zenon DEF LockInv, Critical
<1> QED
  BY <1>1, <1>2, <1>3, <1>4, <1>5, <1>6, <1>7, <1>8, ZenonT(40) DEF Next, CallStep

\* INV-FERR-006 and INV-FERR-011 for Database: while it stays open, the store
\* that snapshot() and epoch() read never loses an entry and never goes back,
\* however many writers race for the write lock.
THEOREM PublishedStoresGrow == Spec => SnapshotsGrow
<1> DEFINE Inv == TypeInv /\ LockInv
<1> DEFINE Grows == open /\ open' => /\ current.entries \subseteq current'.entries
                                     /\ current.epoch <= current'.epoch
<1>1. Init => Inv
  <2> SUFFICES ASSUME Init PROVE Inv
    BY Zenon
  <2>1. LockInv
    BY Zenon DEF Init, LockInv, Critical
  <2> QED
    BY <2>1, TypeInvInit, Zenon
<1>2. Inv /\ [Next]_vars => Inv'
  BY TypeInvStep, LockStep, ZenonT(40)
<1>3. Inv /\ [Next]_vars => [Grows]_vars
  <2> SUFFICES ASSUME Inv, Next, open, open' PROVE Grows
    BY Zenon
  <2>1. current.epoch \in Nat
    BY Zenon DEF TypeInv, TypeOK, StoreTypeOK, Store
  <2>2. CASE \E w \in Writers : Publish(w)
    BY <2>2, Zenon DEF Publish, LockInv
  <2>3. CASE current' = current
    BY <2>1, <2>3
  <2>4. CASE CrashProcess \/ CrashMachine \/ Reopen
    BY <2>4, ZenonT(40) DEF CrashProcess, CrashMachine, Reopen, KillProcess, LosePower, RecoverWal
  <2> QED
    BY <2>2, <2>3, <2>4, ZenonT(40) DEF Next, CallStep, CheckpointStep, BeginCheckpoint, WriteTemp,
       RenameTemp, SyncDirectory, CheckpointErr, BeginCall, Backpressure, LockBusy,
       TakeLock, ApplyOk, ApplyErr, LogOk, LogErr, SyncOk, SyncErr, AdvanceFrontier,
       Unlock, DropSlot, NotifyAndReturn
<1> QED
  BY <1>1, <1>2, <1>3, PTL DEF Spec, SnapshotsGrow

-----------------------------------------------------------------------------
(* A log ahead of the published store.  The clone of a call that is logging    *)
(* is ahead of the published store by its own receipts, so its first receipt   *)
(* takes the next epoch: the very one that such a log refuses.                 *)

ClonesInv ==
    \A w \in Writers : pc[w] \in {"append", "fsync", "publish"} =>
        next[w].epoch = current.epoch + Len(job[w])

\* One step keeps a clone ahead of the published store by its own receipts.
LEMMA ClonesStep ==
    ASSUME TypeInv, LockInv, ClonesInv, [Next]_vars
    PROVE  ClonesInv'
<1>0. CallTypeOK /\ StoreTypeOK
  BY Zenon DEF TypeInv, TypeOK
<1>1. ASSUME NEW w \in Writers, Publish(w)
      PROVE  ClonesInv'
  <2>1. lock = w /\ pc'[w] \notin {"append", "fsync", "publish"}
    BY <1>0, <1>1, Zenon DEF Publish, Goto, LockInv, Critical, CallTypeOK
  <2>2. \A v \in Writers : v # w => pc'[v] = pc[v] /\ pc[v] \notin Critical
    BY <1>0, <1>1, <2>1, CallsMoveOne, ZenonT(40) DEF CallStep, LockInv
  <2> QED
    BY <2>1, <2>2, Zenon DEF ClonesInv, Critical
<1>2. ASSUME NEW w \in Writers, ApplyOk(w)
      PROVE  ClonesInv'
  <2>1. UNCHANGED <<current, job>> /\ next'[w].epoch = current.epoch + Len(job[w])
    BY <1>0, <1>2, Zenon DEF ApplyOk, StoreTypeOK
  <2>2. \A v \in Writers : v # w => pc'[v] = pc[v] /\ next'[v] = next[v]
    BY <1>0, <1>2, CallsMoveOne, ZenonT(40) DEF CallStep
  <2> QED
    BY <2>1, <2>2, Zenon DEF ClonesInv
<1>3. ASSUME NEW w \in Writers,
             ApplyErr(w) \/ LogOk(w) \/ LogErr(w) \/ SyncOk(w) \/ SyncErr(w)
             \/ AdvanceFrontier(w) \/ Unlock(w) \/ BeginCall(w) \/ Backpressure(w)
             \/ LockBusy(w) \/ TakeLock(w) \/ DropSlot(w) \/ NotifyAndReturn(w)
      PROVE  ClonesInv'
  <2>1. /\ current' = current
        /\ pc'[w] \in {"append", "fsync", "publish"} =>
             /\ pc[w] \in {"append", "fsync", "publish"}
             /\ UNCHANGED <<job, next>>
    BY <1>0, <1>3, ZenonT(40) DEF ApplyErr, LogOk, LogErr, SyncOk, SyncErr, AdvanceFrontier, Unlock,
       BeginCall, Backpressure, LockBusy, TakeLock, DropSlot, NotifyAndReturn, Return,
       Goto, Fail, CallTypeOK
  <2>2. \A v \in Writers : v # w => pc'[v] = pc[v] /\ next'[v] = next[v] /\ job'[v] = job[v]
    BY <1>0, <1>3, CallsMoveOne, ZenonT(40) DEF CallStep
  <2> QED
    BY <2>1, <2>2, Zenon DEF ClonesInv
<1>4. CASE CheckpointStep \/ UNCHANGED vars
  <2>1. UNCHANGED <<pc, job, next, current>>
    BY <1>4, ZenonT(40) DEF CheckpointStep, BeginCheckpoint, WriteTemp, RenameTemp, SyncDirectory,
       CheckpointErr, callVars, vars
  <2> QED
    BY <2>1, Zenon DEF ClonesInv
<1>5. CASE CrashProcess \/ CrashMachine
  BY <1>5, Zenon DEF CrashProcess, CrashMachine, LoseMemory, ClonesInv
<1>6. CASE Reopen
  <2>1. \A w \in Writers : pc'[w] = "idle"
    BY <1>6, Zenon DEF Reopen, RecoverWal, callVars, LockInv
  <2> QED
    BY <2>1, Zenon DEF ClonesInv
<1> QED
  BY <1>1, <1>2, <1>3, <1>4, <1>5, <1>6, ZenonT(40) DEF Next, CallStep

\* A wedged database that is still open stays wedged, and its log as it is.
LEMMA WedgedStays ==
    ASSUME TypeInv, LockInv, ClonesInv, Next, Wedged, open'
    PROVE  Wedged' /\ wal' = wal
<1>0. CallTypeOK /\ StoreTypeOK /\ open
  BY Zenon DEF TypeInv, TypeOK, Wedged
<1>1. ASSUME NEW w \in Writers, pc[w] = "append", idx[w] = 1
      PROVE  Refused(ReceiptEpoch(w))
  <2>1. next[w].epoch = current.epoch + Len(job[w])
    BY <1>1, Zenon DEF ClonesInv
  <2>2. current.epoch \in Nat /\ Len(job[w]) \in Nat /\ pending \in Nat
    BY <1>0, ElementTypes, Zenon DEF StoreTypeOK, Store, TypeInv, TypeOK, WalTypeOK
  <2>3. ReceiptEpoch(w) = current.epoch + 1
    BY <1>1, <2>1, <2>2 DEF ReceiptEpoch
  <2> QED
    BY <2>2, <2>3 DEF Refused, Wedged
<1>2. ASSUME NEW w \in Writers PROVE ~ LogOk(w) /\ ~ SyncOk(w) /\ ~ SyncErr(w) /\ ~ Publish(w)
  <2>1. ~ SyncOk(w) /\ ~ SyncErr(w) /\ ~ Publish(w)
    BY Zenon DEF Wedged, SyncOk, SyncErr, Publish
  <2>2. ~ LogOk(w)
    BY <1>1, Zenon DEF Wedged, LogOk, AppendOk
  <2> QED
    BY <2>1, <2>2, Zenon
<1>3. ASSUME NEW w \in Writers,
             BeginCall(w) \/ Backpressure(w) \/ LockBusy(w) \/ TakeLock(w) \/ ApplyOk(w)
             \/ ApplyErr(w) \/ LogErr(w) \/ AdvanceFrontier(w) \/ Unlock(w) \/ DropSlot(w)
             \/ NotifyAndReturn(w)
      PROVE  Wedged' /\ wal' = wal
  <2>1. UNCHANGED <<current, pending, wal>>
    <3>1. CASE LogErr(w)
      <4>1. Refused(ReceiptEpoch(w))
        BY <1>1, <3>1, Zenon DEF LogErr, Wedged
      <4> QED
        BY <3>1, <4>1, Zenon DEF LogErr, AppendRefused, AppendFailed, walVars
    <3>2. CASE ~ LogErr(w)
      BY <1>3, <3>2, ZenonT(40) DEF BeginCall, Backpressure, LockBusy, TakeLock, ApplyOk, ApplyErr,
         AdvanceFrontier, Unlock, DropSlot, NotifyAndReturn, walVars
    <3> QED
      BY <3>1, <3>2, Zenon
  <2>2. /\ pc'[w] \notin {"fsync", "publish"}
        /\ pc'[w] = "append" => idx'[w] = 1
    <3>1. CASE ApplyOk(w)
      BY <1>0, <3>1, Zenon DEF ApplyOk, Goto, CallTypeOK, TypeInv, CallShape
    <3>2. CASE ~ ApplyOk(w)
      BY <1>0, <1>3, <3>2, ZenonT(40) DEF BeginCall, Backpressure, LockBusy, TakeLock, ApplyErr,
         LogErr, AdvanceFrontier, Unlock, DropSlot, NotifyAndReturn, Goto, Fail, Return,
         CallTypeOK
    <3> QED
      BY <3>1, <3>2, Zenon
  <2>3. \A v \in Writers : v # w => pc'[v] = pc[v] /\ idx'[v] = idx[v]
    BY <1>0, <1>3, CallsMoveOne, ZenonT(40) DEF CallStep
  <2> QED
    BY <2>1, <2>2, <2>3, Zenon DEF Wedged
<1>4. CASE CheckpointStep
  <2>1. UNCHANGED <<pc, idx, current, pending, wal>>
    BY <1>4, ZenonT(40) DEF CheckpointStep, BeginCheckpoint, WriteTemp, RenameTemp, SyncDirectory,
       CheckpointErr, callVars, walVars
  <2> QED
    BY <2>1, Zenon DEF Wedged
<1>5. ~ CrashProcess /\ ~ CrashMachine /\ ~ Reopen
  BY <1>0, Zenon DEF CrashProcess, CrashMachine, KillProcess, LosePower, Reopen, RecoverWal
<1> QED
  BY <1>2, <1>3, <1>4, <1>5, ZenonT(40) DEF Next, CallStep

\* Once a failed sync or a half-logged batch has left the log ahead of the
\* published store, write_frame refuses every further receipt: the file does
\* not change until the database is reopened, torn appends or not.
THEOREM RefusesUntilReopened == Spec => WedgedUntilReopened
<1> DEFINE Inv == TypeInv /\ LockInv /\ ClonesInv
<1>1. Init => Inv
  <2> SUFFICES ASSUME Init PROVE Inv
    BY Zenon
  <2>1. LockInv /\ ClonesInv
    BY Zenon DEF Init, LockInv, ClonesInv, Critical
  <2> QED
    BY <2>1, TypeInvInit, Zenon
<1>2. Inv /\ [Next]_vars => Inv'
  BY TypeInvStep, LockStep, ClonesStep, ZenonT(40)
<1>3. Inv /\ [Next]_vars => [Wedged /\ open' => Wedged' /\ wal' = wal]_vars
  BY WedgedStays, Zenon
<1> QED
  BY <1>1, <1>2, <1>3, PTL DEF Spec, WedgedUntilReopened

-----------------------------------------------------------------------------
(* The frontier.  Without batch_transact, a writer between the swap and        *)
(* advance_frontier is the only one the frontier waits for.                    *)

FrontierInv ==
    /\ \A w \in Writers : ~ batch[w] /\ Len(job[w]) <= 1
    /\ \A w \in Writers : pc[w] = "frontier" => lastCommit = job[w][1]
    /\ (\A w \in Writers : pc[w] # "frontier") => frontier = lastCommit

\* One step keeps the frontier at the newest published commit.
LEMMA FrontierStep ==
    ASSUME MaxBatch = 0, TypeInv, LockInv, FrontierInv, [Next]_vars
    PROVE  FrontierInv'
<1>0. CallTypeOK /\ StoreTypeOK /\ Len(<< >>) = 0
  BY Zenon DEF TypeInv, TypeOK
<1>1. ASSUME NEW w \in Writers, TakeLock(w)
      PROVE  FrontierInv'
  <2>1. \A s \in Jobs(0) : s = << >>
    BY DEF Jobs
  <2>2. PICK s \in Jobs(1) : job' = [job EXCEPT ![w] = s] /\ UNCHANGED batch
    BY <1>1, <2>1, Zenon DEF TakeLock
  <2>3. Len(s) <= 1
    <3>1. PICK m \in 0..1 : s \in [1..m -> Txs \ used]
      BY Zenon DEF Jobs
    <3>2. Len(s) = m
      BY <3>1
    <3> QED
      BY <3>2
  <2>4. /\ pc' = [pc EXCEPT ![w] = "apply"] /\ UNCHANGED <<frontier, lastCommit>>
        /\ pc[w] = "lock"
    BY <1>1, ZenonT(40) DEF TakeLock, Goto
  <2> QED
    BY <1>0, <2>2, <2>3, <2>4, Zenon DEF FrontierInv, CallTypeOK
<1>2. ASSUME NEW w \in Writers, Publish(w)
      PROVE  FrontierInv'
  <2>1. /\ pc' = [pc EXCEPT ![w] = "frontier"] /\ UNCHANGED <<job, batch>>
        /\ lastCommit' = job[w][Len(job[w])]
    BY <1>2, ZenonT(40) DEF Publish, Goto, FrontierInv
  <2>2. Len(job[w]) = 1
    <3>1. idx[w] \in 1..Len(job[w]) /\ Len(job[w]) \in Nat
      BY <1>0, <1>2, ElementTypes, Zenon DEF Publish, TypeInv, CallShape
    <3>2. Len(job[w]) <= 1
      BY Zenon DEF FrontierInv
    <3>3. \A n \in Nat : \A i \in 1..n : n <= 1 => n = 1
      OBVIOUS
    <3> QED
      BY <3>1, <3>2, <3>3, ZenonT(40)
  <2>3. \A v \in Writers : v # w => pc[v] # "frontier"
    BY <1>2, Zenon DEF Publish, LockInv, Critical
  <2> QED
    BY <1>0, <2>1, <2>2, <2>3, Zenon DEF FrontierInv, CallTypeOK
<1>3. ASSUME NEW w \in Writers, AdvanceFrontier(w)
      PROVE  FrontierInv'
  <2>1. /\ pc' = [pc EXCEPT ![w] = "unlock"] /\ UNCHANGED <<job, batch, lastCommit>>
        /\ frontier' = job[w][1] /\ pc[w] = "frontier"
    BY <1>3, ZenonT(40) DEF AdvanceFrontier, Goto, historyVars
  <2> QED
    BY <1>0, <2>1, Zenon DEF FrontierInv, CallTypeOK
<1>4. ASSUME NEW w \in Writers,
             BeginCall(w) \/ Backpressure(w) \/ LockBusy(w) \/ ApplyOk(w) \/ ApplyErr(w)
             \/ LogOk(w) \/ LogErr(w) \/ SyncOk(w) \/ SyncErr(w) \/ Unlock(w)
             \/ DropSlot(w) \/ NotifyAndReturn(w)
      PROVE  FrontierInv'
  <2>1. /\ UNCHANGED <<frontier, lastCommit>>
        /\ pc[w] # "frontier" /\ pc'[w] # "frontier"
        /\ \/ UNCHANGED <<job, batch>>
           \/ /\ job' = [job EXCEPT ![w] = << >>]
              /\ batch' = [batch EXCEPT ![w] = FALSE]
    BY <1>0, <1>4, ZenonT(40) DEF BeginCall, Backpressure, LockBusy, ApplyOk, ApplyErr, LogOk, LogErr,
       SyncOk, SyncErr, Unlock, DropSlot, NotifyAndReturn, Return, Goto, Fail, CallTypeOK,
       historyVars
  <2>2. \A v \in Writers : v # w => pc'[v] = pc[v] /\ job'[v] = job[v]
    BY <1>0, <1>4, CallsMoveOne, ZenonT(40) DEF CallStep
  <2>3. \A v \in Writers : ~ batch'[v] /\ Len(job'[v]) <= 1
    BY <1>0, <2>1 DEF FrontierInv, CallTypeOK
  <2> QED
    BY <2>1, <2>2, <2>3, ZenonT(40) DEF FrontierInv
<1>5. CASE CheckpointStep \/ Reopen \/ UNCHANGED vars
  <2>1. UNCHANGED <<pc, job, batch, frontier, lastCommit>>
    BY <1>5, ZenonT(40) DEF CheckpointStep, BeginCheckpoint, WriteTemp, RenameTemp, SyncDirectory,
       CheckpointErr, Reopen, callVars, historyVars, vars
  <2> QED
    BY <2>1, Zenon DEF FrontierInv
<1>6. CASE CrashProcess \/ CrashMachine
  BY <1>0, <1>6 DEF CrashProcess, CrashMachine, LoseMemory, FrontierInv
<1> QED
  BY <1>1, <1>2, <1>3, <1>4, <1>5, <1>6, ZenonT(40) DEF Next, CallStep

\* After transact() has given the write lock back, Database.frontier names the
\* last transaction published, through crashes and recoveries, as long as
\* batch_transact is not used.
THEOREM FrontierFollows == MaxBatch = 0 => (Spec => []FrontierCurrent)
<1> SUFFICES ASSUME MaxBatch = 0 PROVE Spec => []FrontierCurrent
  BY Zenon
<1> DEFINE Inv == TypeInv /\ LockInv /\ FrontierInv
<1>1. Init => Inv
  <2> SUFFICES ASSUME Init PROVE Inv
    BY Zenon
  <2>1. LockInv /\ FrontierInv
    BY DEF Init, LockInv, FrontierInv, Critical
  <2> QED
    BY <2>1, TypeInvInit, Zenon
<1>2. Inv /\ [Next]_vars => Inv'
  BY TypeInvStep, LockStep, FrontierStep, ZenonT(40)
<1>3. Inv => FrontierCurrent
  BY DatabaseAssumption, Zenon DEF FrontierCurrent, LockInv, FrontierInv, Critical
<1> QED
  BY <1>1, <1>2, <1>3, PTL DEF Spec
=============================================================================
