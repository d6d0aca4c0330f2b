-------------------------- MODULE ObserversProofs ---------------------------
(* What a broadcast guarantees, for any number of writers, observers and      *)
(* pullers, any length of batch and any size of the buffer.                   *)
EXTENDS Observers, TLAPS

\* The broadcasts that are owed: their batches end at different epochs, none at
\* one already broadcast, and a store loaded for a catch-up holds its batch.
NotesInv ==
    \A n \in Notifiers :
        /\ note[n].step = "none" => note[n] = NoNote
        /\ note[n].step # "none" =>
              /\ 1 <= note[n].lo /\ note[n].lo <= note[n].hi /\ note[n].hi <= epoch
              /\ note[n].hi # newest
              /\ \A m \in Notifiers :
                    m # n /\ note[m].step # "none" => note[m].hi # note[n].hi
        /\ note[n].step = "broadcast" =>
              note[n].hi <= note[n].store /\ note[n].store <= epoch

BufferInv == \A i \in 1..Len(recent) : recent[i].hi <= epoch

\* An observer behind the published store is owed every epoch it has not been
\* told of; one that registered past every broadcast has missed nothing.
SeenInv ==
    \A o \in registered :
        /\ lastSeen[o] <= epoch
        /\ \A e \in lastSeen[o] + 1..epoch : e \in Owed
        /\ lastSeen[o] > newest => Matching(o, 1..lastSeen[o]) \subseteq got[o]
        /\ got[o] \subseteq 1..epoch
        /\ Matching(o, 1..lastSeen[o]) \ got[o] \subseteq overtaken \cup Owed

ObserversInv ==
    TypeOK /\ newest <= epoch /\ NotesInv /\ BufferInv /\ SeenInv

-----------------------------------------------------------------------------
\* A filter only leaves datoms out.
LEMMA MatchingParts ==
    ASSUME NEW o, NEW S
    PROVE  /\ Matching(o, S) \subseteq S
           /\ \A T : S \subseteq T => Matching(o, S) \subseteq Matching(o, T)
           /\ \A T : \A e \in T : e \in S /\ e \in Matching(o, T) => e \in Matching(o, S)
  BY DEF Matching

\* The epochs that some notifier has yet to broadcast.
LEMMA InOwed ==
    ASSUME NEW e
    PROVE  e \in Owed <=> \E n \in Notifiers : e \in note[n].lo..note[n].hi
  BY DEF Owed

\* The fields of a notification.
LEMMA NoteFields ==
    ASSUME NEW x \in Note
    PROVE  /\ x.step \in {"none", "load", "broadcast"} /\ x.lo \in Nat /\ x.hi \in Nat
           /\ x.store \in Nat /\ x.hi \in 0..MaxEpoch /\ x.store \in 0..MaxEpoch
  BY ObserversAssumption DEF Note

\* The buffer after a push: the batch is its last, the others were there.
LEMMA PushedParts ==
    ASSUME TypeOK, NEW b \in Batch
    PROVE  /\ Pushed(b) \in Seq(Batch)
           /\ Len(Pushed(b)) \in 1..MaxBuffer
           /\ Pushed(b)[Len(Pushed(b))] = b
           /\ \A i \in 1..Len(Pushed(b)) :
                 \/ Pushed(b)[i] = b
                 \/ \E j \in 1..Len(recent) : Pushed(b)[i] = recent[j]
<1> DEFINE all == Append(recent, b)
<1>1. recent \in Seq(Batch) /\ Len(recent) \in Nat /\ Len(recent) <= MaxBuffer
  BY DEF TypeOK
<1>2. /\ all \in Seq(Batch) /\ Len(all) = Len(recent) + 1 /\ all[Len(recent) + 1] = b
      /\ \A i \in 1..Len(recent) : all[i] = recent[i]
  BY <1>1
<1> HIDE DEF all
<1>3. /\ Tail(all) \in Seq(Batch) /\ Len(Tail(all)) = Len(recent)
      /\ \A i \in 1..Len(recent) : Tail(all)[i] = all[i + 1]
  BY <1>1, <1>2
<1>4. MaxBuffer \in Nat \ {0}
  BY ObserversAssumption
<1>5. CASE Len(all) > MaxBuffer
  <2>1. Pushed(b) = Tail(all)
    BY <1>5 DEF Pushed, all
  <2>2. Len(recent) = MaxBuffer
    BY <1>1, <1>2, <1>4, <1>5
  <2>3. Tail(all)[Len(recent)] = b
    BY <1>1, <1>2, <1>3, <1>4, <2>2
  <2>4. ASSUME NEW i \in 1..Len(recent)
        PROVE  Tail(all)[i] = b \/ \E j \in 1..Len(recent) : Tail(all)[i] = recent[j]
    <3>1. CASE i = Len(recent)
      BY <2>3, <3>1
    <3>2. CASE i < Len(recent)
      <4>1. i + 1 \in 1..Len(recent)
        BY <1>1, <3>2
      <4> QED
        BY <1>2, <1>3, <4>1
    <3>3. i = Len(recent) \/ i < Len(recent)
      BY <1>1
    <3> QED
      BY <3>1, <3>2, <3>3
  <2> QED
    BY <1>3, <1>4, <2>1, <2>2, <2>3, <2>4
<1>6. CASE ~ (Len(all) > MaxBuffer)
  <2>1. Pushed(b) = all
    BY <1>6 DEF Pushed, all
  <2>2. \A i \in 1..Len(all) : i = Len(recent) + 1 \/ i \in 1..Len(recent)
    BY <1>1, <1>2
  <2>3. Len(all) \in 1..MaxBuffer
    BY <1>1, <1>2, <1>4, <1>6
  <2> QED
    BY <1>2, <2>1, <2>2, <2>3
<1> QED
  BY <1>5, <1>6

-----------------------------------------------------------------------------
\* The batch that a broadcast publishes.
LEMMA BatchOf ==
    ASSUME ObserversInv, NEW n \in Notifiers, note[n].step = "broadcast"
    PROVE  /\ note[n].lo \in Nat /\ note[n].hi \in Nat /\ note[n].store \in Nat
           /\ epoch \in Nat /\ newest \in Nat
           /\ 1 <= note[n].lo /\ note[n].lo <= note[n].hi
           /\ note[n].hi <= note[n].store /\ note[n].store <= epoch
           /\ note[n].hi # newest
           /\ [lo |-> note[n].lo, hi |-> note[n].hi] \in Batch
<1>1. note[n] \in Note /\ epoch \in 0..MaxEpoch /\ newest \in 0..MaxEpoch /\ MaxEpoch \in Nat
  BY ObserversAssumption DEF ObserversInv, TypeOK
<1>2. note[n].lo \in Nat /\ note[n].hi \in 0..MaxEpoch /\ note[n].store \in 0..MaxEpoch
  BY <1>1, NoteFields
<1>3. /\ 1 <= note[n].lo /\ note[n].lo <= note[n].hi
      /\ note[n].hi <= note[n].store /\ note[n].store <= epoch
      /\ note[n].hi # newest
  BY DEF ObserversInv, NotesInv
<1>4. note[n].lo \in 1..MaxEpoch /\ note[n].hi \in 1..MaxEpoch
  BY <1>1, <1>2, <1>3
<1> QED
  BY <1>1, <1>2, <1>3, <1>4 DEF Batch

\* After a broadcast the other writers still owe theirs.
LEMMA OwedAfter ==
    ASSUME ObserversInv, NEW n \in Notifiers, Broadcast(n)
    PROVE  /\ \A e \in Owed : e \in note[n].lo..note[n].hi \/ e \in Owed'
           /\ Owed' \subseteq Owed
<1>1. note' = [note EXCEPT ![n] = NoNote] /\ note \in [Notifiers -> Note]
  BY DEF Broadcast, ObserversInv, TypeOK
<1>2. \A m \in Notifiers : m # n => note'[m] = note[m]
  BY <1>1
<1>3. \A e : e \notin note'[n].lo..note'[n].hi
  <2>1. note'[n].lo = 1 /\ note'[n].hi = 0
    BY <1>1 DEF NoNote
  <2> QED
    BY <2>1
<1>4. Owed' = UNION {note'[m].lo..note'[m].hi : m \in Notifiers}
  BY DEF Owed
<1>5. ASSUME NEW e \in Owed, e \notin note[n].lo..note[n].hi PROVE e \in Owed'
  <2>1. PICK m \in Notifiers : e \in note[m].lo..note[m].hi
    BY InOwed
  <2> QED
    BY <1>2, <1>4, <1>5, <2>1
<1>6. ASSUME NEW e \in Owed' PROVE e \in Owed
  <2>1. PICK m \in Notifiers : e \in note'[m].lo..note'[m].hi
    BY <1>4
  <2>2. m # n
    BY <1>3, <2>1
  <2> QED
    BY <1>2, <2>1, <2>2, InOwed
<1> QED
  BY <1>5, <1>6

\* What one observer is handed lies within the published store; past its last
\* epoch it covers the batch, and whatever no other writer still owes.
LEMMA Delivered ==
    ASSUME ObserversInv, NEW n \in Notifiers, Broadcast(n), NEW o \in registered
    PROVE  LET b == [lo |-> note[n].lo, hi |-> note[n].hi]
               d == Delivery(o, b, recent', note[n].store)
           IN  /\ d \subseteq 1..epoch
               /\ b.hi > lastSeen[o] =>
                    \/ Matching(o, b.lo..b.hi) \subseteq d
                    \/ Matching(o, 1..b.hi) \subseteq d
<1> DEFINE b == [lo |-> note[n].lo, hi |-> note[n].hi]
           buffer == Pushed(b)
           store == note[n].store
           from == lastSeen[o]
           d == Delivery(o, b, recent', store)
<1>0. note[n].step = "broadcast" /\ recent' = buffer
  BY DEF Broadcast
<1>1. /\ b \in Batch /\ b.lo = note[n].lo /\ b.hi = note[n].hi
      /\ b.lo \in Nat /\ b.hi \in Nat /\ store \in Nat /\ epoch \in Nat
      /\ 1 <= b.lo /\ b.lo <= b.hi /\ b.hi <= store /\ store <= epoch
  BY <1>0, BatchOf
<1>2. /\ buffer \in Seq(Batch) /\ Len(buffer) \in 1..MaxBuffer /\ buffer[Len(buffer)] = b
      /\ \A i \in 1..Len(buffer) :
            buffer[i] = b \/ \E j \in 1..Len(recent) : buffer[i] = recent[j]
  BY <1>1, PushedParts DEF ObserversInv
<1>3. from \in Nat
  BY DEF ObserversInv, TypeOK
<1> DEFINE delta == UNION {buffer[i].lo..buffer[i].hi :
                              i \in {j \in 1..Len(buffer) : buffer[j].hi > from}}
<1> HIDE DEF b, buffer, store, from
<1>4. ASSUME NEW i \in 1..Len(buffer) PROVE buffer[i].lo..buffer[i].hi \subseteq 1..epoch
  <2>1. buffer[i] \in Batch
    BY <1>2
  <2>2. buffer[i].hi <= epoch
    <3>1. CASE buffer[i] = b
      BY <1>1, <3>1
    <3>2. ASSUME NEW j \in 1..Len(recent), buffer[i] = recent[j]
          PROVE  buffer[i].hi <= epoch
      BY <3>2 DEF ObserversInv, BufferInv
    <3> QED
      BY <1>2, <3>1, <3>2
  <2>3. buffer[i].lo \in 1..MaxEpoch /\ buffer[i].hi \in 1..MaxEpoch /\ MaxEpoch \in Nat
    BY <2>1, ObserversAssumption DEF Batch
  <2> QED
    BY <1>1, <2>2, <2>3
<1>5. delta \subseteq 1..epoch
  BY <1>4
<1>6. b.hi > from => b.lo..b.hi \subseteq delta
  <2>1. Len(buffer) \in 1..Len(buffer)
    BY <1>2, ObserversAssumption
  <2> QED
    BY <1>2, <2>1
<1>7. 1..store \subseteq 1..epoch /\ 1..b.hi \subseteq 1..store /\ b.lo..b.hi \subseteq 1..epoch
  BY <1>1
<1>8. d = CASE b.hi <= from -> {}
            [] from + 1 < b.hi ->
                 Matching(o, IF buffer[1].hi > from + 1 THEN 1..store ELSE delta)
            [] OTHER -> Matching(o, b.lo..b.hi)
  BY <1>0 DEF Delivery, Catchup, b, buffer, store, from
<1> HIDE DEF d, delta
<1>9. CASE b.hi <= from
  <2>1. d = {}
    BY <1>1, <1>3, <1>8, <1>9
  <2> QED
    BY <1>1, <1>3, <1>9, <2>1 DEF b, d, store, from
<1>10. CASE from + 1 < b.hi /\ buffer[1].hi > from + 1
  <2>1. d = Matching(o, 1..store)
    BY <1>1, <1>3, <1>8, <1>10
  <2>2. Matching(o, 1..store) \subseteq 1..store
    BY MatchingParts
  <2>3. Matching(o, 1..b.hi) \subseteq Matching(o, 1..store)
    BY <1>7 DEF Matching
  <2>4. d \subseteq 1..epoch /\ Matching(o, 1..b.hi) \subseteq d
    BY <1>7, <2>1, <2>2, <2>3
  <2> QED
    BY <2>4 DEF b, d, store
<1>11. CASE from + 1 < b.hi /\ ~ (buffer[1].hi > from + 1)
  <2>1. d = Matching(o, delta)
    BY <1>1, <1>3, <1>8, <1>11
  <2>2. b.hi > from
    BY <1>1, <1>3, <1>11
  <2>3. d \subseteq 1..epoch /\ Matching(o, b.lo..b.hi) \subseteq d
    BY <1>5, <1>6, <2>1, <2>2, MatchingParts, ZenonT(40)
  <2> QED
    BY <2>3 DEF b, d, store
<1>12. CASE ~ (b.hi <= from) /\ ~ (from + 1 < b.hi)
  <2>1. d = Matching(o, b.lo..b.hi)
    BY <1>8, <1>12
  <2>2. d \subseteq 1..epoch
    BY <1>7, <2>1, MatchingParts, ZenonT(40)
  <2> QED
    BY <2>1, <2>2 DEF b, d, store
<1> QED
  BY <1>9, <1>10, <1>11, <1>12

-----------------------------------------------------------------------------
\* One step keeps the notifications in order.
LEMMA NotesStep ==
    ASSUME ObserversInv, [Next]_obsVars
    PROVE  NotesInv' /\ newest' <= epoch' /\ epoch <= epoch'
<1>0. /\ epoch \in Nat /\ newest \in Nat /\ newest <= epoch /\ NotesInv
      /\ note \in [Notifiers -> Note]
      /\ \A n \in Notifiers : note[n].lo \in Nat /\ note[n].hi \in Nat /\ note[n].store \in Nat
  BY NoteFields, ObserversAssumption DEF ObserversInv, TypeOK
<1>1. ASSUME NEW n \in Notifiers, Commit(n)
      PROVE  NotesInv' /\ newest' <= epoch' /\ epoch <= epoch'
  <2>1. PICK k \in 1..MaxBatch :
          /\ epoch' = epoch + k
          /\ note' = [note EXCEPT ![n] = [step |-> "load", lo |-> epoch + 1,
                                          hi |-> epoch + k, store |-> 0]]
    BY <1>1 DEF Commit
  <2>2. k \in Nat /\ k >= 1 /\ newest' = newest
    BY <1>1, ObserversAssumption DEF Commit, pushVars
  <2>3. /\ note'[n].step = "load" /\ note'[n].lo = epoch + 1 /\ note'[n].hi = epoch + k
        /\ \A m \in Notifiers : m # n => note'[m] = note[m]
    BY <1>0, <2>1
  <2>4. ASSUME NEW m \in Notifiers, note[m].step # "none" PROVE note[m].hi <= epoch
    BY <1>0, <2>4 DEF NotesInv
  <2> QED
    BY <1>0, <2>1, <2>2, <2>3, <2>4 DEF NotesInv
<1>2. ASSUME NEW n \in Notifiers, LoadPublished(n)
      PROVE  NotesInv' /\ newest' <= epoch' /\ epoch <= epoch'
  <2>1. /\ note[n].step = "load" /\ UNCHANGED <<epoch, newest>>
        /\ note' = [note EXCEPT ![n].step = "broadcast", ![n].store = epoch]
    BY <1>2 DEF LoadPublished, pushVars
  <2>2. /\ note'[n].step = "broadcast" /\ note'[n].lo = note[n].lo /\ note'[n].hi = note[n].hi
        /\ note'[n].store = epoch
        /\ \A m \in Notifiers : m # n => note'[m] = note[m]
    <3>1. note[n] \in Note
      BY <1>0
    <3> QED
      BY <1>0, <2>1, <3>1 DEF Note
  <2> QED
    BY <1>0, <2>1, <2>2 DEF NotesInv
<1>3. ASSUME NEW n \in Notifiers, Broadcast(n)
      PROVE  NotesInv' /\ newest' <= epoch' /\ epoch <= epoch'
  <2>1. /\ note[n].step = "broadcast" /\ epoch' = epoch
        /\ newest' = IF note[n].hi > newest THEN note[n].hi ELSE newest
        /\ note' = [note EXCEPT ![n] = NoNote]
    BY <1>3 DEF Broadcast
  <2>2. /\ note'[n] = NoNote /\ NoNote.step = "none"
        /\ \A m \in Notifiers : m # n => note'[m] = note[m]
    BY <1>0, <2>1 DEF NoNote
  <2>3. ASSUME NEW m \in Notifiers, m # n, note[m].step # "none"
        PROVE  note[m].hi # newest'
    BY <1>0, <2>1, <2>3 DEF NotesInv
  <2>4. newest' <= epoch
    BY <1>0, <2>1 DEF NotesInv
  <2> QED
    BY <1>0, <2>1, <2>2, <2>3, <2>4 DEF NotesInv
<1>4. ASSUME UNCHANGED <<epoch, note, newest>>
      PROVE  NotesInv' /\ newest' <= epoch' /\ epoch <= epoch'
  BY <1>0, <1>4 DEF NotesInv
<1> QED
  BY <1>1, <1>2, <1>3, <1>4
  DEF Next, Register, LoadStore, Observe, obsVars, pushVars

\* The seen epochs, step by step.
LEMMA SeenAtCommit ==
    ASSUME ObserversInv, NEW n \in Notifiers, Commit(n)
    PROVE  SeenInv'
<1>0. /\ epoch \in Nat /\ newest \in Nat /\ note \in [Notifiers -> Note]
      /\ lastSeen \in [Observers -> Nat] /\ registered \subseteq Observers
  BY ObserversAssumption DEF ObserversInv, TypeOK
<1>1. PICK k \in 1..MaxBatch :
        /\ epoch' = epoch + k
        /\ note' = [note EXCEPT ![n] = [step |-> "load", lo |-> epoch + 1,
                                        hi |-> epoch + k, store |-> 0]]
  BY DEF Commit
<1>2. k \in Nat /\ k >= 1 /\ UNCHANGED <<registered, lastSeen, got, overtaken, newest>>
  BY ObserversAssumption DEF Commit, pushVars
<1>3. /\ note'[n].lo = epoch + 1 /\ note'[n].hi = epoch + k
      /\ \A m \in Notifiers : m # n => note'[m] = note[m]
  BY <1>0, <1>1
<1>4. Owed' = UNION {note'[m].lo..note'[m].hi : m \in Notifiers}
  BY DEF Owed
<1>5. Owed \subseteq Owed'
  <2> SUFFICES ASSUME NEW e \in Owed PROVE e \in Owed'
    OBVIOUS
  <2>1. PICK m \in Notifiers : e \in note[m].lo..note[m].hi
    BY InOwed
  <2>2. m # n
    <3>1. note[n] = NoNote
      BY DEF Commit, ObserversInv, NotesInv
    <3> QED
      BY <2>1, <3>1 DEF NoNote
  <2> QED
    BY <1>3, <1>4, <2>1, <2>2
<1>6. \A e \in epoch + 1..epoch + k : e \in Owed'
  BY <1>3, <1>4
<1> SUFFICES ASSUME NEW o \in registered
             PROVE  /\ lastSeen[o] <= epoch'
                    /\ \A e \in lastSeen[o] + 1..epoch' : e \in Owed'
                    /\ lastSeen[o] > newest => Matching(o, 1..lastSeen[o]) \subseteq got[o]
                    /\ got[o] \subseteq 1..epoch'
                    /\ Matching(o, 1..lastSeen[o]) \ got[o] \subseteq overtaken \cup Owed'
  BY <1>2 DEF SeenInv
<1>7. /\ lastSeen[o] <= epoch /\ lastSeen[o] \in Nat
      /\ \A e \in lastSeen[o] + 1..epoch : e \in Owed
      /\ lastSeen[o] > newest => Matching(o, 1..lastSeen[o]) \subseteq got[o]
      /\ got[o] \subseteq 1..epoch
      /\ Matching(o, 1..lastSeen[o]) \ got[o] \subseteq overtaken \cup Owed
  BY <1>0 DEF ObserversInv, SeenInv
<1>8. ASSUME NEW e \in lastSeen[o] + 1..epoch' PROVE e \in Owed'
  <2>1. e \in lastSeen[o] + 1..epoch \/ e \in epoch + 1..epoch + k
    BY <1>0, <1>1, <1>2, <1>7
  <2> QED
    BY <1>5, <1>6, <1>7, <2>1
<1>9. lastSeen[o] <= epoch' /\ 1..epoch \subseteq 1..epoch'
  BY <1>0, <1>1, <1>2, <1>7
<1> QED
  BY <1>5, <1>7, <1>8, <1>9

\* A registration and what its observer has seen.
LEMMA SeenAtRegister ==
    ASSUME ObserversInv, NEW o \in Observers, Register(o)
    PROVE  SeenInv'
<1>0. /\ epoch \in Nat /\ lastSeen \in [Observers -> Nat] /\ registered \subseteq Observers
      /\ got \in [Observers -> SUBSET (1..MaxEpoch)]
  BY ObserversAssumption DEF ObserversInv, TypeOK
<1>1. /\ UNCHANGED <<epoch, note, overtaken, newest>>
      /\ registered' = registered \cup {o}
      /\ lastSeen'[o] = epoch /\ got'[o] = Matching(o, 1..epoch)
      /\ \A v \in Observers : v # o => lastSeen'[v] = lastSeen[v] /\ got'[v] = got[v]
  BY <1>0 DEF Register
<1>2. Owed' = Owed
  BY <1>1 DEF Owed
<1>3. Matching(o, 1..epoch) \subseteq 1..epoch /\ \A e \in epoch + 1..epoch : FALSE
  BY <1>0, MatchingParts
<1>4. SeenInv
  BY DEF ObserversInv
<1> QED
  BY <1>0, <1>1, <1>2, <1>3, <1>4 DEF SeenInv

\* A broadcast and what its observers have seen.
LEMMA SeenAtBroadcast ==
    ASSUME ObserversInv, NEW n \in Notifiers, Broadcast(n)
    PROVE  SeenInv'
<1> DEFINE lo == note[n].lo
           hi == note[n].hi
<1>0. /\ lastSeen \in [Observers -> Nat] /\ registered \subseteq Observers
      /\ got \in [Observers -> SUBSET (1..MaxEpoch)]
  BY ObserversAssumption DEF ObserversInv, TypeOK
<1>1. /\ lo \in Nat /\ hi \in Nat /\ epoch \in Nat /\ newest \in Nat
      /\ 1 <= lo /\ lo <= hi /\ hi <= epoch /\ hi # newest
  <2>1. note[n].step = "broadcast"
    BY DEF Broadcast
  <2>2. /\ lo \in Nat /\ hi \in Nat /\ epoch \in Nat /\ newest \in Nat /\ note[n].store \in Nat
        /\ 1 <= lo /\ lo <= hi /\ hi <= note[n].store /\ note[n].store <= epoch /\ hi # newest
    BY <2>1, BatchOf
  <2> QED
    BY <2>2
<1>2. /\ \A e \in Owed : e \in lo..hi \/ e \in Owed'
      /\ Owed' \subseteq Owed
  BY OwedAfter
<1>3. /\ UNCHANGED <<epoch, registered>>
      /\ newest' = IF hi > newest THEN hi ELSE newest
      /\ overtaken' = IF hi < newest THEN overtaken \cup lo..hi ELSE overtaken
  BY DEF Broadcast
<1> SUFFICES ASSUME NEW o \in registered
             PROVE  /\ lastSeen'[o] <= epoch
                    /\ \A e \in lastSeen'[o] + 1..epoch : e \in Owed'
                    /\ lastSeen'[o] > newest' => Matching(o, 1..lastSeen'[o]) \subseteq got'[o]
                    /\ got'[o] \subseteq 1..epoch
                    /\ Matching(o, 1..lastSeen'[o]) \ got'[o] \subseteq overtaken' \cup Owed'
  BY <1>3 DEF SeenInv
<1>4. /\ lastSeen[o] <= epoch /\ lastSeen[o] \in Nat
      /\ \A e \in lastSeen[o] + 1..epoch : e \in Owed
      /\ lastSeen[o] > newest => Matching(o, 1..lastSeen[o]) \subseteq got[o]
      /\ got[o] \subseteq 1..epoch
      /\ Matching(o, 1..lastSeen[o]) \ got[o] \subseteq overtaken \cup Owed
  BY <1>0 DEF ObserversInv, SeenInv
<1> DEFINE d == Delivery(o, [lo |-> lo, hi |-> hi], recent', note[n].store)
<1>5. /\ got'[o] = got[o] \cup d
      /\ lastSeen'[o] = IF hi > lastSeen[o] THEN hi ELSE lastSeen[o]
  BY <1>0 DEF Broadcast
<1>6. /\ d \subseteq 1..epoch
      /\ hi > lastSeen[o] =>
            Matching(o, lo..hi) \subseteq d \/ Matching(o, 1..hi) \subseteq d
  BY Delivered
<1> HIDE DEF lo, hi, d
<1>7. lastSeen'[o] <= epoch /\ got'[o] \subseteq 1..epoch
  BY <1>1, <1>4, <1>5, <1>6
<1>8. ASSUME NEW e \in lastSeen'[o] + 1..epoch PROVE e \in Owed'
  <2>1. e \in lastSeen[o] + 1..epoch /\ e \notin lo..hi
    BY <1>1, <1>4, <1>5
  <2> QED
    BY <1>2, <1>4, <2>1
<1>9. ASSUME lastSeen'[o] > newest' PROVE Matching(o, 1..lastSeen'[o]) \subseteq got'[o]
  <2>1. lastSeen'[o] = lastSeen[o] /\ lastSeen[o] > newest
    BY <1>1, <1>3, <1>4, <1>5, <1>9
  <2> QED
    BY <1>4, <1>5, <2>1
<1>10. ASSUME NEW e \in Matching(o, 1..lastSeen'[o]), e \notin got'[o]
       PROVE  e \in overtaken' \cup Owed'
  <2>1. e \in 1..lastSeen'[o]
    BY <1>10 DEF Matching
  <2>2. e \in 1..lastSeen[o] => e \in Matching(o, 1..lastSeen[o])
    BY <1>10, <2>1 DEF Matching
  <2>3. e \in lo..hi => e \in Matching(o, lo..hi)
    BY <1>10, <2>1 DEF Matching
  <2>4. overtaken \subseteq overtaken'
    BY <1>3
  <2>5. CASE hi > lastSeen[o]
    <3>1. ~ (Matching(o, 1..hi) \subseteq d)
      BY <1>5, <1>10, <2>5
    <3>2. Matching(o, lo..hi) \subseteq d
      BY <1>6, <2>5, <3>1
    <3>3. e \notin lo..hi
      BY <1>5, <1>10, <2>3, <3>2
    <3>4. e \in overtaken \cup Owed
      <4>1. CASE e \in 1..lastSeen[o]
        BY <1>4, <1>5, <1>10, <2>2, <4>1
      <4>2. CASE e \notin 1..lastSeen[o]
        <5>1. e \in lastSeen[o] + 1..epoch
          BY <1>1, <1>4, <1>5, <2>1, <2>5, <4>2
        <5> QED
          BY <1>4, <5>1
      <4> QED
        BY <4>1, <4>2
    <3> QED
      BY <1>2, <2>4, <3>3, <3>4
  <2>6. CASE ~ (hi > lastSeen[o])
    <3>1. lastSeen'[o] = lastSeen[o]
      BY <1>5, <2>6
    <3>2. e \in overtaken \cup Owed
      BY <1>4, <1>5, <1>10, <3>1
    <3>3. ~ (lastSeen[o] > newest)
      BY <1>4, <1>5, <1>10, <3>1
    <3>4. hi < newest
      BY <1>1, <1>4, <2>6, <3>3
    <3> QED
      BY <1>2, <1>3, <3>2, <3>4
  <2> QED
    BY <2>5, <2>6
<1> QED
  BY <1>7, <1>8, <1>9, <1>10

\* One step keeps account of what each observer has seen.
LEMMA SeenStep ==
    ASSUME ObserversInv, [Next]_obsVars
    PROVE  SeenInv'
<1>1. ASSUME NEW n \in Notifiers, LoadPublished(n)
      PROVE  SeenInv'
  <2>1. /\ note' = [note EXCEPT ![n].step = "broadcast", ![n].store = epoch]
        /\ UNCHANGED <<epoch, registered, lastSeen, got, overtaken, newest>>
    BY <1>1 DEF LoadPublished, pushVars
  <2>2. \A m \in Notifiers : note'[m].lo = note[m].lo /\ note'[m].hi = note[m].hi
    <3>1. note \in [Notifiers -> Note]
      BY DEF ObserversInv, TypeOK
    <3> QED
      BY <2>1, <3>1 DEF Note
  <2>3. Owed' = Owed
    BY <2>2 DEF Owed
  <2> QED
    BY <2>1, <2>3 DEF ObserversInv, SeenInv
<1>2. ASSUME UNCHANGED <<epoch, note, registered, lastSeen, got, overtaken, newest>>
      PROVE  SeenInv'
  <2>1. Owed' = Owed
    BY <1>2 DEF Owed
  <2> QED
    BY <1>2, <2>1 DEF ObserversInv, SeenInv
<1> QED
  BY <1>1, <1>2, SeenAtCommit, SeenAtRegister, SeenAtBroadcast
  DEF Next, LoadStore, Observe, obsVars, pushVars

\* One step keeps the types.
LEMMA TypeStep ==
    ASSUME ObserversInv, [Next]_obsVars
    PROVE  TypeOK' /\ BufferInv'
<1>0. TypeOK /\ MaxEpoch \in Nat /\ MaxBuffer \in Nat \ {0} /\ MaxBatch \in Nat \ {0} /\ BufferInv
  BY ObserversAssumption DEF ObserversInv
<1>1. ASSUME NEW n \in Notifiers, Commit(n)
      PROVE  TypeOK' /\ BufferInv'
  <2>1. PICK k \in 1..MaxBatch :
          /\ epoch + k <= MaxEpoch /\ epoch' = epoch + k
          /\ note' = [note EXCEPT ![n] = [step |-> "load", lo |-> epoch + 1,
                                          hi |-> epoch + k, store |-> 0]]
    BY <1>1 DEF Commit
  <2>2. UNCHANGED <<pushVars, pullVars>>
    BY <1>1 DEF Commit
  <2>3. epoch' \in 0..MaxEpoch /\ epoch <= epoch'
    BY <1>0, <2>1 DEF TypeOK
  <2>4. [step |-> "load", lo |-> epoch + 1, hi |-> epoch + k, store |-> 0] \in Note
    BY <1>0, <2>1 DEF TypeOK, Note
  <2>5. note' \in [Notifiers -> Note]
    BY <1>0, <2>1, <2>4 DEF TypeOK
  <2>6. BufferInv'
    <3>1. \A i \in 1..Len(recent) : recent[i] \in Batch
      BY <1>0 DEF TypeOK
    <3>2. \A x \in Batch : x.hi \in Nat
      BY <1>0 DEF Batch
    <3> QED
      BY <1>0, <2>2, <2>3, <3>1, <3>2 DEF BufferInv, pushVars, TypeOK
  <2> QED
    BY <1>0, <2>2, <2>3, <2>5, <2>6 DEF TypeOK, pushVars, pullVars
<1>2. ASSUME NEW n \in Notifiers, LoadPublished(n)
      PROVE  TypeOK' /\ BufferInv'
  <2>1. /\ note' = [note EXCEPT ![n].step = "broadcast", ![n].store = epoch]
        /\ UNCHANGED <<epoch, pushVars, pullVars>>
    BY <1>2 DEF LoadPublished
  <2>2. note' \in [Notifiers -> Note]
    <3>1. note[n] \in Note /\ epoch \in 0..MaxEpoch
      BY <1>0 DEF TypeOK
    <3>2. [note[n] EXCEPT !.step = "broadcast", !.store = epoch] \in Note
      BY <3>1 DEF Note
    <3>3. note' = [note EXCEPT ![n] = [note[n] EXCEPT !.step = "broadcast", !.store = epoch]]
      BY <2>1
    <3> QED
      BY <1>0, <3>2, <3>3 DEF TypeOK
  <2> QED
    BY <1>0, <2>1, <2>2 DEF TypeOK, BufferInv, pushVars, pullVars
<1>3. ASSUME NEW n \in Notifiers, Broadcast(n)
      PROVE  TypeOK' /\ BufferInv'
  <2> DEFINE b == [lo |-> note[n].lo, hi |-> note[n].hi]
  <2>1. /\ recent' = Pushed(b) /\ note[n].step = "broadcast"
        /\ note' = [note EXCEPT ![n] = NoNote]
        /\ UNCHANGED <<epoch, registered, pullVars>>
        /\ newest' = IF b.hi > newest THEN b.hi ELSE newest
        /\ overtaken' = IF b.hi < newest THEN overtaken \cup b.lo..b.hi ELSE overtaken
    BY <1>3 DEF Broadcast
  <2>2. /\ b \in Batch /\ b.lo = note[n].lo /\ b.hi = note[n].hi /\ b.hi <= epoch
    <3>1. /\ b \in Batch /\ note[n].hi \in Nat /\ note[n].store \in Nat /\ epoch \in Nat
          /\ note[n].hi <= note[n].store /\ note[n].store <= epoch
      BY <2>1, BatchOf
    <3> QED
      BY <3>1
  <2>3. b.lo \in 1..MaxEpoch /\ b.hi \in 1..MaxEpoch
    BY <2>2 DEF Batch
  <2>4. /\ Pushed(b) \in Seq(Batch) /\ Len(Pushed(b)) \in 1..MaxBuffer
        /\ \A i \in 1..Len(Pushed(b)) :
              Pushed(b)[i] = b \/ \E j \in 1..Len(recent) : Pushed(b)[i] = recent[j]
    BY <1>0, <2>2, PushedParts
  <2>5. /\ got' = [o \in Observers |-> IF o \in registered
                                       THEN got[o] \cup Delivery(o, b, recent', note[n].store)
                                       ELSE got[o]]
        /\ lastSeen' = [o \in Observers |-> IF o \in registered /\ b.hi > lastSeen[o]
                                            THEN b.hi ELSE lastSeen[o]]
    BY <1>3 DEF Broadcast
  <2>6. \A o \in registered : Delivery(o, b, recent', note[n].store) \subseteq 1..epoch
    BY <1>3, Delivered
  <2>7. got' \in [Observers -> SUBSET (1..MaxEpoch)]
    <3>1. 1..epoch \subseteq 1..MaxEpoch
      BY <1>0 DEF TypeOK
    <3>2. \A o \in Observers : got[o] \subseteq 1..MaxEpoch
      BY <1>0 DEF TypeOK
    <3> QED
      BY <2>5, <2>6, <3>1, <3>2
  <2> HIDE DEF b
  <2>8. lastSeen' \in [Observers -> 0..MaxEpoch]
    BY <1>0, <2>3, <2>5 DEF TypeOK
  <2>9. newest' \in 0..MaxEpoch /\ overtaken' \subseteq 1..MaxEpoch
    <3>1. b.lo..b.hi \subseteq 1..MaxEpoch
      BY <1>0, <2>3
    <3>2. newest' \in 0..MaxEpoch
      BY <1>0, <2>1, <2>3 DEF TypeOK
    <3>3. overtaken \subseteq 1..MaxEpoch
      BY <1>0 DEF TypeOK
    <3> QED
      BY <2>1, <3>1, <3>2, <3>3, Zenon
  <2>10. NoNote \in Note
    BY <1>0 DEF NoNote, Note
  <2>11. note' \in [Notifiers -> Note]
    BY <1>0, <2>1, <2>10 DEF TypeOK
  <2>12. recent' \in Seq(Batch) /\ Len(recent') <= MaxBuffer
    BY <1>0, <2>1, <2>4
  <2>13. BufferInv'
    BY <1>0, <2>1, <2>2, <2>4 DEF BufferInv
  <2> QED
    BY <1>0, <2>1, <2>7, <2>8, <2>9, <2>11, <2>12, <2>13 DEF TypeOK, pullVars
<1>4. ASSUME NEW o \in Observers, Register(o)
      PROVE  TypeOK' /\ BufferInv'
  <2>1. Matching(o, 1..epoch) \subseteq 1..MaxEpoch
    BY <1>0 DEF TypeOK, Matching
  <2>2. /\ got' \in [Observers -> SUBSET (1..MaxEpoch)]
        /\ lastSeen' \in [Observers -> 0..MaxEpoch]
        /\ registered' \subseteq Observers
        /\ UNCHANGED <<epoch, note, recent, overtaken, newest, pullVars>>
    BY <1>0, <1>4, <2>1 DEF TypeOK, Register
  <2> QED
    BY <1>0, <2>2 DEF TypeOK, BufferInv, pullVars
<1>5. ASSUME NEW p \in Pullers, LoadStore(p) \/ Observe(p)
      PROVE  TypeOK' /\ BufferInv'
  <2>1. UNCHANGED <<epoch, note, pushVars>>
    BY <1>5 DEF LoadStore, Observe
  <2>2. held' \in [Pullers -> {NoStore} \cup 0..MaxEpoch] /\ lastEpoch' \in 0..MaxEpoch
    BY <1>0, <1>5 DEF LoadStore, Observe, TypeOK
  <2> QED
    BY <1>0, <2>1, <2>2 DEF TypeOK, BufferInv, pushVars
<1>6. CASE UNCHANGED obsVars
  BY <1>0, <1>6 DEF TypeOK, BufferInv, obsVars, pushVars, pullVars
<1> QED
  BY <1>1, <1>2, <1>3, <1>4, <1>5, <1>6 DEF Next

\* The start: no observer, nothing published.
LEMMA ObserversStart == Init => ObserversInv
<1> SUFFICES ASSUME Init PROVE ObserversInv
  OBVIOUS
<1>1. NoNote \in Note /\ << >> \in Seq(Batch) /\ Len(<< >>) = 0
  BY ObserversAssumption DEF NoNote, Note
<1>2. TypeOK
  BY <1>1, ObserversAssumption DEF Init, TypeOK
<1>3. NotesInv
  BY DEF Init, NotesInv, NoNote
<1>4. BufferInv /\ SeenInv /\ newest <= epoch
  BY DEF Init, BufferInv, SeenInv
<1> QED
  BY <1>2, <1>3, <1>4 DEF ObserversInv

\* One step of the observers, one case for each action.
LEMMA ObserversStep == ObserversInv /\ [Next]_obsVars => ObserversInv'
  BY NotesStep, SeenStep, TypeStep DEF ObserversInv

\* INV-FERR-011: an observer misses only what a writer broadcast after a later
\* epoch, hears of nothing unpublished, and is not left behind once every
\* broadcast is done: for any number of writers racing for the observers
\* mutex, and any buffer size, whether the catch-up comes from the buffer or
\* from the store.
THEOREM BroadcastGuarantee == Spec => [](TypeOK /\ OnlyOvertakenMissed)
<1>1. ObserversInv => TypeOK /\ OnlyOvertakenMissed
  <2> SUFFICES ASSUME ObserversInv PROVE OnlyOvertakenMissed
    BY DEF ObserversInv
  <2> SUFFICES ASSUME NEW o \in registered
               PROVE  /\ Matching(o, 1..lastSeen[o]) \ got[o] \subseteq overtaken \cup Owed
                      /\ got[o] \subseteq 1..epoch
                      /\ Owed = {} => lastSeen[o] = epoch
    BY DEF OnlyOvertakenMissed
  <2>1. /\ lastSeen[o] <= epoch
        /\ \A e \in lastSeen[o] + 1..epoch : e \in Owed
        /\ got[o] \subseteq 1..epoch
        /\ Matching(o, 1..lastSeen[o]) \ got[o] \subseteq overtaken \cup Owed
    BY DEF ObserversInv, SeenInv
  <2>2. lastSeen[o] \in Nat /\ epoch \in Nat
    BY ObserversAssumption DEF ObserversInv, TypeOK
  <2>3. Owed = {} => lastSeen[o] = epoch
    BY <2>1, <2>2
  <2> QED
    BY <2>1, <2>3
<1> QED
  BY <1>1, ObserversStart, ObserversStep, PTL DEF Spec

-----------------------------------------------------------------------------
\* A pull observer that is not shared.
OnePuller == \A p, q \in Pullers : p = q

PullInv ==
    /\ lastEpoch <= epoch
    /\ \A p \in Pullers :
          /\ held[p] <= epoch
          /\ held[p] # NoStore => held[p] >= lastEpoch

\* One step never moves a puller back.
LEMMA PullStep ==
    ASSUME OnePuller, ObserversInv, PullInv, [Next]_obsVars
    PROVE  PullInv'
<1>0. /\ epoch \in Nat /\ lastEpoch \in Nat /\ held \in [Pullers -> Int]
      /\ MaxEpoch \in Nat
  BY ObserversAssumption DEF ObserversInv, TypeOK, NoStore
<1>1. ASSUME NEW p \in Pullers, LoadStore(p)
      PROVE  PullInv'
  BY <1>0, <1>1 DEF LoadStore, PullInv
<1>2. ASSUME NEW p \in Pullers, Observe(p)
      PROVE  PullInv'
  <2>1. /\ held'[p] = NoStore /\ epoch' = epoch
        /\ lastEpoch' = IF held[p] > lastEpoch THEN held[p] ELSE lastEpoch
    BY <1>0, <1>2 DEF Observe
  <2>2. \A q \in Pullers : q = p
    BY DEF OnePuller
  <2>3. lastEpoch' <= epoch'
    BY <1>0, <2>1 DEF PullInv
  <2>4. \A q \in Pullers : held'[q] = NoStore /\ held'[q] <= epoch'
    BY <1>0, <2>1, <2>2 DEF NoStore
  <2> QED
    BY <2>3, <2>4 DEF PullInv
<1>3. ASSUME UNCHANGED pullVars
      PROVE  PullInv'
  <2>1. epoch <= epoch' /\ epoch' \in Nat
    BY NotesStep, TypeStep, ObserversAssumption DEF TypeOK
  <2> QED
    BY <1>0, <1>3, <2>1 DEF PullInv, pullVars
<1> QED
  BY <1>1, <1>2, <1>3 DEF Next, Commit, LoadPublished, Broadcast, Register, obsVars

\* INV-FERR-011 (the debug_assert of Observer::observe): a pull observer used
\* by one thread never returns an epoch behind the last one it returned,
\* whatever the writers do meanwhile.
THEOREM PullsForward == OnePuller => (Spec => PullMonotone)
<1> SUFFICES ASSUME OnePuller PROVE Spec => PullMonotone
  OBVIOUS
<1> DEFINE Inv == ObserversInv /\ PullInv
           Forward == \A p \in Pullers :
               held[p] # NoStore /\ held'[p] = NoStore => held[p] >= lastEpoch
<1>1. Init => Inv
  <2> SUFFICES ASSUME Init PROVE Inv
    OBVIOUS
  <2>1. PullInv
    BY DEF Init, PullInv, NoStore
  <2> QED
    BY <2>1, ObserversStart
<1>2. Inv /\ [Next]_obsVars => Inv'
  BY ObserversStep, PullStep
<1>3. Inv /\ [Next]_obsVars => [Forward]_obsVars
  BY DEF PullInv
<1> QED
  BY <1>1, <1>2, <1>3, PTL DEF Spec, PullMonotone
=============================================================================
