------------------------- MODULE HybridClockProofs -------------------------
(***************************************************************************)
(* TxIds respect causality, for every number of replicas, every wall clock *)
(* and every order, repetition and loss of messages.  The invariant says   *)
(* that a clock has reached every TxId in its replica's causal past; since *)
(* tick() goes strictly beyond the clock, a new TxId is after all of them. *)
(***************************************************************************)
EXTENDS HybridClock, NaturalsInduction, WellFoundedInduction, TLAPS

\* Every clock has reached what its replica knows, and the predecessors that a
\* replica would record next are among that.
PastReached ==
    \A n \in Nodes :
        /\ \A t \in past[n] : Reached(clock[n], t)
        /\ frontier[n] \subseteq past[n]

\* The predecessors a transaction names were known to its replica.
PredsInPast ==
    \A n \in Nodes : \A i \in DOMAIN log[n] : log[n][i].preds \subseteq log[n][i].past

ClockInv == TypeOK /\ PastReached /\ PredsInPast /\ CausalOrder

\* tick() moves strictly forward and keeps the counter within its width.
LEMMA TickForward ==
    ASSUME NEW c \in Clock, NEW now \in Time, CanTick(c, now), NEW n \in Nodes
    PROVE  /\ Ticked(c, now) \in Clock
           /\ \A t \in TxId : Reached(c, t) =>
                 /\ Reached(Ticked(c, now), t)
                 /\ Before(t, [physical |-> Ticked(c, now).physical,
                               logical |-> Ticked(c, now).logical, node |-> n])
  BY ClockAssumption
  DEF Clock, Time, Logical, CanTick, Ticked, TxId, Reached, Before

\* receive() loses nothing that was reached and reaches the remote TxId and
\* everything before it.
LEMMA ReceiveForward ==
    ASSUME NEW c \in Clock, NEW now \in Time, NEW r \in TxId
    PROVE  /\ Received(c, r, now) \in Clock
           /\ \A t \in TxId : Reached(c, t) \/ t = r \/ Before(t, r)
                                 => Reached(Received(c, r, now), t)
<1>1. Received(c, r, now) \in Clock
  BY ClockAssumption DEF Clock, Time, Logical, Received, TimeMax, TxId
<1>2. ASSUME NEW t \in TxId, Reached(c, t)
      PROVE  Reached(Received(c, r, now), t)
  BY <1>2, ClockAssumption
  DEF Clock, Time, Logical, Received, TimeMax, TxId, Reached
<1>3. Reached(Received(c, r, now), r)
  BY ClockAssumption DEF Clock, Time, Logical, Received, TimeMax, TxId, Reached
<1>4. ASSUME NEW t \in TxId, Before(t, r)
      PROVE  Reached(Received(c, r, now), t)
  BY <1>4, ClockAssumption
  DEF Clock, Time, Logical, Received, TimeMax, TxId, Reached, Before
<1> QED BY <1>1, <1>2, <1>3, <1>4

\* advance() and merge() keep no TxId they were not given.
LEMMA AdvancedParts == \A f, t : Advanced(f, t) \subseteq f \cup {t}
  BY DEF Advanced

\* A merged frontier has its members from the two.
LEMMA MergedParts == \A f, g : Merged(f, g) \subseteq f \cup g
  BY DEF Merged

\* The start of the clocks.
LEMMA ClockInit == Init => ClockInv
  BY ClockAssumption
  DEF Init, FreshClock, ClockInv, TypeOK, PastReached, PredsInPast, CausalOrder, Clock,
      Time, Logical

\* One step of the clocks, one case for each action.
LEMMA ClockStep == ClockInv /\ [Next]_clockVars => ClockInv'
<1> SUFFICES ASSUME ClockInv, [Next]_clockVars PROVE ClockInv'
  OBVIOUS
<1> USE DEF ClockInv
<1>1. ASSUME NEW n \in Nodes, Commit(n) PROVE ClockInv'
  <2> PICK now \in Time :
        LET c == Ticked(clock[n], now)
            tx == [physical |-> c.physical, logical |-> c.logical, node |-> n]
        IN  /\ CanTick(clock[n], now)
            /\ clock' = [clock EXCEPT ![n] = c]
            /\ log' = [log EXCEPT ![n] = Append(@,
                  [tx |-> tx, preds |-> frontier[n], past |-> past[n]])]
            /\ frontier' = [frontier EXCEPT ![n] = Advanced(@, tx)]
            /\ past' = [past EXCEPT ![n] = @ \cup {tx}]
            /\ UNCHANGED restarts
    BY <1>1, ZenonT(40) DEF Commit
  <2> DEFINE c == Ticked(clock[n], now)
             tx == [physical |-> c.physical, logical |-> c.logical, node |-> n]
             r == [tx |-> tx, preds |-> frontier[n], past |-> past[n]]
  <2>1. clock[n] \in Clock /\ frontier[n] \subseteq TxId /\ past[n] \subseteq TxId
    BY DEF TypeOK
  <2>2. c \in Clock /\ \A t \in TxId : Reached(clock[n], t) =>
                          Reached(c, t) /\ Before(t, tx)
    BY <2>1, TickForward
  <2>3. tx \in TxId /\ Reached(c, tx)
    BY <2>2, ClockAssumption DEF Clock, TxId, Reached, Time, Logical
  <2>4. \A t \in r.past \cup r.preds : Before(t, r.tx)
    BY <2>1, <2>2 DEF PastReached
  <2>41. r.preds \subseteq r.past
    BY DEF PastReached
  <2>5. r \in Transaction
    BY <2>1, <2>3 DEF Transaction
  <2>6. /\ clock' = [clock EXCEPT ![n] = c]
        /\ log' = [log EXCEPT ![n] = Append(@, r)]
        /\ frontier' = [frontier EXCEPT ![n] = Advanced(@, tx)]
        /\ past' = [past EXCEPT ![n] = @ \cup {tx}]
        /\ restarts' = restarts
    OBVIOUS
  <2>7. Advanced(frontier[n], tx) \subseteq frontier[n] \cup {tx}
    BY AdvancedParts
  <2> HIDE DEF c, tx, r
  <2>8. TypeOK'
    BY <2>1, <2>2, <2>3, <2>5, <2>6, <2>7 DEF TypeOK
  <2>9. PastReached'
    BY <2>1, <2>2, <2>3, <2>6, <2>7 DEF PastReached, TypeOK
  <2>10. PredsInPast' /\ CausalOrder'
    <3> SUFFICES ASSUME NEW m \in Nodes, NEW i \in DOMAIN log'[m]
                 PROVE  /\ log'[m][i].preds \subseteq log'[m][i].past
                        /\ \A t \in log'[m][i].past \cup log'[m][i].preds :
                              Before(t, log'[m][i].tx)
      BY DEF PredsInPast, CausalOrder
    <3>1. log[m] \in Seq(Transaction)
      BY DEF TypeOK
    <3>2. CASE m = n /\ i = Len(log[n]) + 1
      <4>1. log'[m][i] = r
        BY <2>6, <3>1, <3>2 DEF TypeOK
      <4> QED BY <4>1, <2>4, <2>41
    <3>3. CASE ~ (m = n /\ i = Len(log[n]) + 1)
      <4>1. i \in DOMAIN log[m] /\ log'[m][i] = log[m][i]
        BY <2>6, <3>1, <3>3, <2>5 DEF TypeOK
      <4> QED BY <4>1 DEF PredsInPast, CausalOrder
    <3> QED BY <3>2, <3>3
  <2> QED BY <2>8, <2>9, <2>10
<1>2. ASSUME NEW n \in Nodes, AbortCommit(n) PROVE ClockInv'
  <2> PICK now \in Time :
        /\ CanTick(clock[n], now)
        /\ clock' = [clock EXCEPT ![n] = Ticked(@, now)]
        /\ UNCHANGED <<frontier, log, past, restarts>>
    BY <1>2, ZenonT(40) DEF AbortCommit
  <2>1. clock[n] \in Clock /\ past[n] \subseteq TxId
    BY DEF TypeOK
  <2>2. Ticked(clock[n], now) \in Clock
        /\ \A t \in TxId : Reached(clock[n], t) => Reached(Ticked(clock[n], now), t)
    BY <2>1, TickForward, ZenonT(40)
  <2>3. TypeOK'
    BY <2>2 DEF TypeOK
  <2>4. PastReached'
    BY <2>1, <2>2 DEF PastReached, TypeOK
  <2>5. PredsInPast' /\ CausalOrder'
    BY DEF PredsInPast, CausalOrder
  <2> QED BY <2>3, <2>4, <2>5
<1>3. ASSUME NEW n \in Nodes, TickOverflow(n) PROVE ClockInv'
  BY <1>3 DEF TickOverflow, clockVars, TypeOK, PastReached, PredsInPast, CausalOrder
<1>4. ASSUME NEW n \in Nodes, NEW m \in Nodes, Receive(n, m) PROVE ClockInv'
  <2> PICK i \in DOMAIN log[m], now \in Time :
        LET r == log[m][i]
        IN  /\ n # m
            /\ clock' = [clock EXCEPT ![n] = Received(@, r.tx, now)]
            /\ frontier' = [frontier EXCEPT ![n] =
                               Merged(@, Advanced(r.preds, r.tx))]
            /\ past' = [past EXCEPT ![n] = @ \cup r.past \cup {r.tx}]
            /\ UNCHANGED <<log, restarts>>
    BY <1>4, ZenonT(40) DEF Receive
  <2> DEFINE r == log[m][i]
             c == Received(clock[n], r.tx, now)
             f == Merged(frontier[n], Advanced(r.preds, r.tx))
  <2>1. r \in Transaction /\ clock[n] \in Clock
        /\ past[n] \subseteq TxId /\ frontier[n] \subseteq TxId
    BY DEF TypeOK
  <2>2. r.tx \in TxId /\ r.past \subseteq TxId /\ r.preds \subseteq TxId
    BY <2>1 DEF Transaction
  <2>3. \A t \in r.past \cup r.preds : Before(t, r.tx)
    BY DEF CausalOrder
  <2>4. c \in Clock /\ \A t \in TxId :
            Reached(clock[n], t) \/ t = r.tx \/ Before(t, r.tx) => Reached(c, t)
    BY <2>1, <2>2, ReceiveForward
  <2>5. f \subseteq frontier[n] \cup r.past \cup {r.tx}
    <3>1. r.preds \subseteq r.past
      BY DEF PredsInPast
    <3>2. Advanced(r.preds, r.tx) \subseteq r.preds \cup {r.tx}
      BY AdvancedParts
    <3>3. f \subseteq frontier[n] \cup Advanced(r.preds, r.tx)
      BY MergedParts
    <3> QED BY <3>1, <3>2, <3>3
  <2>6. /\ clock' = [clock EXCEPT ![n] = c]
        /\ frontier' = [frontier EXCEPT ![n] = f]
        /\ past' = [past EXCEPT ![n] = @ \cup r.past \cup {r.tx}]
        /\ log' = log /\ restarts' = restarts
    OBVIOUS
  <2> HIDE DEF r, c, f
  <2>7. TypeOK'
    BY <2>1, <2>2, <2>4, <2>5, <2>6 DEF TypeOK
  <2>8. PastReached'
    <3> SUFFICES ASSUME NEW k \in Nodes
                 PROVE  /\ \A t \in past'[k] : Reached(clock'[k], t)
                        /\ frontier'[k] \subseteq past'[k]
      BY DEF PastReached
    <3>1. CASE k = n
      <4>1. clock'[k] = c /\ frontier'[k] = f
            /\ past'[k] = past[n] \cup r.past \cup {r.tx}
        BY <3>1, <2>6 DEF TypeOK
      <4>2. \A t \in past[n] : t \in TxId /\ Reached(clock[n], t)
        BY <2>1 DEF PastReached
      <4>3. frontier[n] \subseteq past[n]
        BY DEF PastReached
      <4> QED BY <4>1, <4>2, <4>3, <2>2, <2>3, <2>4, <2>5
    <3>2. CASE k # n
      BY <3>2, <2>6 DEF PastReached, TypeOK
    <3> QED BY <3>1, <3>2
  <2>9. PredsInPast' /\ CausalOrder'
    BY <2>6 DEF PredsInPast, CausalOrder
  <2> QED BY <2>7, <2>8, <2>9
<1>5. ASSUME NEW n \in Nodes, Restart(n) PROVE ClockInv'
  <2>1. FreshClock \in Clock
    BY ClockAssumption DEF FreshClock, Clock, Time, Logical
  <2>2. TypeOK'
    BY <1>5, <2>1 DEF Restart, TypeOK
  <2>3. PastReached'
    BY <1>5 DEF Restart, TypeOK, PastReached
  <2>4. PredsInPast' /\ CausalOrder'
    BY <1>5 DEF Restart, PredsInPast, CausalOrder
  <2> QED BY <2>2, <2>3, <2>4
<1>6. CASE UNCHANGED clockVars
  BY <1>6 DEF clockVars, TypeOK, PastReached, PredsInPast, CausalOrder
<1> QED BY <1>1, <1>2, <1>3, <1>4, <1>5, <1>6 DEF Next

\* INV-FERR-016, INV-FERR-061: for every set of replicas, TxIds respect
\* causality: HybridClock::receive of the last TxId of a chain is enough for
\* tick() to be past all of the chain, and the predecessors a transaction
\* records from its frontier are before it.
THEOREM CausalityRespected == Spec => [](TypeOK /\ CausalOrder)
<1> QED BY ClockInit, ClockStep, PTL DEF Spec, ClockInv

\* INV-FERR-015: for every wall clock, tick() produces a TxId after everything
\* its replica has produced or received since it was opened.
THEOREM TickMonotone == Spec => TickAfterPast
<1>1. ClockInv /\ [Next]_clockVars =>
        [\A n \in Nodes : Len(log'[n]) > Len(log[n]) =>
           \A t \in past[n] : Before(t, log'[n][Len(log'[n])].tx)]_clockVars
  <2> SUFFICES ASSUME ClockInv, Next, NEW n \in Nodes,
                      Len(log'[n]) > Len(log[n]), NEW t \in past[n]
               PROVE  Before(t, log'[n][Len(log'[n])].tx)
    OBVIOUS
  <2>1. log[n] \in Seq(Transaction) /\ clock[n] \in Clock /\ t \in TxId
    BY DEF ClockInv, TypeOK
  <2>2. Commit(n)
    <3>1. PICK m \in Nodes : \/ Commit(m) \/ AbortCommit(m) \/ TickOverflow(m)
                             \/ Restart(m) \/ \E k \in Nodes : Receive(m, k)
      BY DEF Next
    <3>2. log' = log => FALSE
      BY <2>1
    <3>3. Commit(m)
      BY <3>1, <3>2
      DEF AbortCommit, TickOverflow, Restart, Receive, clockVars
    <3>4. m # n => log'[n] = log[n]
      BY <3>3 DEF Commit, ClockInv, TypeOK
    <3> QED BY <3>3, <3>4, <2>1
  <2>3. PICK now \in Time :
          /\ CanTick(clock[n], now)
          /\ log' = [log EXCEPT ![n] = Append(@,
               [tx |-> [physical |-> Ticked(clock[n], now).physical,
                        logical |-> Ticked(clock[n], now).logical,
                        node |-> n],
                preds |-> frontier[n], past |-> past[n]])]
    BY <2>2, ZenonT(40) DEF Commit
  <2>4. log'[n][Len(log'[n])].tx =
          [physical |-> Ticked(clock[n], now).physical,
           logical |-> Ticked(clock[n], now).logical, node |-> n]
    BY <2>1, <2>3 DEF ClockInv, TypeOK
  <2>5. Reached(clock[n], t)
    BY DEF ClockInv, PastReached
  <2> QED BY <2>1, <2>3, <2>4, <2>5, TickForward
<1> QED BY <1>1, ClockInit, ClockStep, PTL DEF Spec, TickAfterPast

-----------------------------------------------------------------------------
\* The fields of a transaction identifier.
LEMMA TxIdParts ==
    ASSUME NEW t \in TxId
    PROVE  t.physical \in Nat /\ t.logical \in Nat /\ t.node \in Nat
<1>1. t.physical \in 0..MaxTime /\ t.logical \in 0..MaxLogical /\ t.node \in Nodes
  BY DEF TxId, Time, Logical
<1>2. MaxTime \in Nat /\ MaxLogical \in Nat /\ Nodes \subseteq Nat
  BY ClockAssumption
<1>3. t.physical \in Nat /\ t.logical \in Nat
  BY <1>1, <1>2
<1>4. t.node \in Nat
  BY <1>1, <1>2, Zenon
<1> QED BY <1>3, <1>4

\* The TxIds of one node are in a strict order, whoever compares them.
LEMMA BeforeStrict ==
    ASSUME NEW s \in TxId, NEW t \in TxId
    PROVE  ~ Before(s, s) /\ (Before(s, t) => ~ Before(t, s))
<1>1. \A x \in {s, t} : x.physical \in Nat /\ x.logical \in Nat /\ x.node \in Nat
  BY TxIdParts
<1> QED BY <1>1 DEF Before

\* The order of identifiers is transitive.
LEMMA BeforeTransitive ==
    ASSUME NEW s \in TxId, NEW t \in TxId, NEW u \in TxId
    PROVE  Before(s, t) /\ ~ Before(u, t) /\ u.node = t.node => Before(s, u)
<1>1. \A x \in {s, t, u} : x.physical \in Nat /\ x.logical \in Nat /\ x.node \in Nat
  BY TxIdParts
<1> QED BY <1>1 DEF Before

\* A set of numbers within a bound has a largest.
LEMMA LargestWithin ==
    ASSUME NEW N \in Nat, NEW X, X \subseteq 0..N, X # {}
    PROVE  \E m \in X : \A x \in X : x <= m
<1> DEFINE R == {p \in Nat \X Nat : p[1] < p[2]}
           Y == {N - x : x \in X}
<1>1. IsWellFoundedOn(R, Nat)
  BY NatLessThanWellFounded DEF OpToRel
<1>2. Y \subseteq Nat /\ Y # {}
  <2>1. \A x \in X : N - x \in Nat
    OBVIOUS
  <2> QED BY <2>1
<1>3. \A x, y \in Nat : y < x => <<y, x>> \in R
  OBVIOUS
<1>4. PICK y \in Y : \A z \in Y : <<z, y>> \notin R
  <2> HIDE DEF R, Y
  <2> QED BY <1>1, <1>2, WFMin, Zenon
<1>5. PICK m \in X : y = N - m
  OBVIOUS
<1>6. ASSUME NEW x \in X PROVE x <= m
  <2>1. N - x \in Y
    OBVIOUS
  <2>2. <<N - x, y>> \notin R
    BY <2>1, <1>4
  <2>3. ~ (N - x < y)
    BY <1>2, <1>3, <2>1, <2>2
  <2> QED BY <1>5, <2>3
<1> QED BY <1>6

\* Nothing a replica has observed of a node is after the newest it has of it.
LEMMA NewestAbove ==
    ASSUME NEW P, P \subseteq TxId, NEW s \in P
    PROVE  \E u \in Newest(P) : u.node = s.node /\ ~ Before(u, s)
<1> DEFINE S == {t \in P : t.node = s.node}
           X == {t.physical : t \in S}
<1>1. X \subseteq 0..MaxTime /\ X # {}
  BY DEF TxId, Time
<1>2. PICK p \in X : \A x \in X : x <= p
  <2> HIDE DEF X
  <2> QED BY <1>1, LargestWithin, ClockAssumption
<1> DEFINE U == {t \in S : t.physical = p}
           Y == {t.logical : t \in U}
<1>3. Y \subseteq 0..MaxLogical /\ Y # {}
  BY DEF TxId, Logical
<1>4. PICK l \in Y : \A y \in Y : y <= l
  <2> HIDE DEF Y
  <2> QED BY <1>3, LargestWithin, ClockAssumption
<1>5. PICK u \in U : u.logical = l
  OBVIOUS
<1>6. ASSUME NEW t \in P, t.node = s.node PROVE ~ Before(u, t)
  <2>1. t.physical <= u.physical
    BY <1>2, <1>5, <1>6
  <2>2. t.physical = u.physical => t.logical <= u.logical
    BY <1>4, <1>5, <1>6
  <2>3. u \in TxId /\ t \in TxId /\ u.node = t.node
    BY <1>6
  <2>4. /\ u.physical \in Nat /\ u.logical \in Nat /\ u.node \in Nat
        /\ t.physical \in Nat /\ t.logical \in Nat
    BY <2>3, TxIdParts
  <2> HIDE DEF S, X, U, Y
  <2> QED BY <2>1, <2>2, <2>3, <2>4 DEF Before
<1>7. u \in P /\ u.node = s.node
  OBVIOUS
<1> HIDE DEF S, X, U, Y
<1> QED BY <1>6, <1>7 DEF Newest

\* advance() by a TxId after everything observed so far.
LEMMA AdvancedNewest ==
    ASSUME NEW P, P \subseteq TxId, NEW t \in TxId, \A s \in P : Before(s, t)
    PROVE  Advanced(Newest(P), t) = Newest(P \cup {t})
<1>1. Newest(P) \subseteq P
  BY DEF Newest
<1>2. Advanced(Newest(P), t) = {s \in Newest(P) : s.node # t.node} \cup {t}
  BY <1>1 DEF Advanced
<1>3. t \in Newest(P \cup {t})
  BY BeforeStrict DEF Newest
<1>4. ASSUME NEW s \in P
      PROVE  s \in Newest(P \cup {t}) <=> s \in Newest(P) /\ s.node # t.node
  <2>1. Before(s, t)
    BY <1>4
  <2> QED BY <2>1 DEF Newest
<1>5. t \in P => FALSE
  BY BeforeStrict
<1>6. Newest(P \cup {t}) \subseteq P \cup {t}
  BY DEF Newest
<1> QED BY <1>1, <1>2, <1>3, <1>4, <1>5, <1>6

\* merge() of two frontiers that are each exact.
LEMMA MergedNewest ==
    ASSUME NEW P, P \subseteq TxId, NEW Q, Q \subseteq TxId
    PROVE  Merged(Newest(P), Newest(Q)) = Newest(P \cup Q)
<1> DEFINE F == Newest(P) \cup Newest(Q)
<1>1. Merged(Newest(P), Newest(Q)) = Newest(F)
  BY DEF Merged, Newest
<1>2. F \subseteq P \cup Q
  BY DEF Newest
<1>3. ASSUME NEW u \in Newest(P \cup Q) PROVE u \in Newest(F)
  <2>1. u \in F
    BY <1>3 DEF Newest
  <2> HIDE DEF F
  <2> QED BY <1>2, <1>3, <2>1 DEF Newest
<1>4. ASSUME NEW u \in Newest(F), NEW t \in P \cup Q, u.node = t.node
      PROVE  ~ Before(u, t)
  <2>1. PICK v \in F : v.node = t.node /\ ~ Before(v, t)
    <3>1. CASE t \in P
      BY <3>1, NewestAbove
    <3>2. CASE t \in Q
      BY <3>2, NewestAbove
    <3> QED BY <3>1, <3>2
  <2> HIDE DEF F
  <2>2. u \in F /\ ~ Before(u, v)
    BY <1>4, <2>1 DEF Newest
  <2>3. u \in TxId /\ t \in TxId /\ v \in TxId
    BY <1>2, <2>1, <2>2
  <2> QED BY <2>1, <2>2, <2>3, BeforeTransitive
<1>5. Newest(F) \subseteq F
  BY DEF Newest
<1> HIDE DEF F
<1>6. \A u \in Newest(F) : u \in Newest(P \cup Q)
  BY <1>2, <1>4, <1>5 DEF Newest
<1> QED BY <1>1, <1>3, <1>6

\* The predecessors of a transaction are the newest of what its replica knew.
PredsExact ==
    \A n \in Nodes : \A i \in DOMAIN log[n] :
        log[n][i].preds = Newest(log[n][i].past)

\* The first frontiers are empty.
LEMMA FrontierStarts == Init => FrontierExact /\ PredsExact
  BY DEF Init, FrontierExact, PredsExact, Newest

\* One step keeps frontiers and predecessors exact.
LEMMA FrontierStep ==
    ClockInv /\ FrontierExact /\ PredsExact /\ [Next]_clockVars
        => FrontierExact' /\ PredsExact'
<1> SUFFICES ASSUME ClockInv, FrontierExact, PredsExact, [Next]_clockVars
             PROVE  FrontierExact' /\ PredsExact'
  OBVIOUS
<1> USE DEF ClockInv
<1>1. ASSUME NEW n \in Nodes, Commit(n) PROVE FrontierExact' /\ PredsExact'
  <2> PICK now \in Time :
        LET c == Ticked(clock[n], now)
            tx == [physical |-> c.physical, logical |-> c.logical, node |-> n]
        IN  /\ CanTick(clock[n], now)
            /\ clock' = [clock EXCEPT ![n] = c]
            /\ log' = [log EXCEPT ![n] = Append(@,
                  [tx |-> tx, preds |-> frontier[n], past |-> past[n]])]
            /\ frontier' = [frontier EXCEPT ![n] = Advanced(@, tx)]
            /\ past' = [past EXCEPT ![n] = @ \cup {tx}]
            /\ UNCHANGED restarts
    BY <1>1, ZenonT(40) DEF Commit
  <2> DEFINE c == Ticked(clock[n], now)
             tx == [physical |-> c.physical, logical |-> c.logical, node |-> n]
             r == [tx |-> tx, preds |-> frontier[n], past |-> past[n]]
  <2>1. clock[n] \in Clock /\ past[n] \subseteq TxId /\ frontier[n] \subseteq TxId
    BY DEF TypeOK
  <2>2. c \in Clock /\ \A t \in TxId : Reached(clock[n], t) => Before(t, tx)
    BY <2>1, TickForward
  <2>3. tx \in TxId
    BY <2>2 DEF Clock, TxId
  <2>4. \A t \in past[n] : Before(t, tx)
    BY <2>1, <2>2 DEF PastReached
  <2>5. /\ log' = [log EXCEPT ![n] = Append(@, r)]
        /\ frontier' = [frontier EXCEPT ![n] = Advanced(@, tx)]
        /\ past' = [past EXCEPT ![n] = @ \cup {tx}]
    OBVIOUS
  <2>6. r \in Transaction /\ r.preds = Newest(r.past)
    BY <2>1, <2>3 DEF FrontierExact, Transaction
  <2> HIDE DEF c, tx, r
  <2>7. Advanced(frontier[n], tx) = Newest(past[n] \cup {tx})
    <3>1. frontier[n] = Newest(past[n])
      BY DEF FrontierExact
    <3> QED BY <3>1, <2>1, <2>3, <2>4, AdvancedNewest
  <2>8. FrontierExact'
    <3>1. /\ frontier'[n] = Advanced(frontier[n], tx) /\ past'[n] = past[n] \cup {tx}
          /\ \A m \in Nodes \ {n} : frontier'[m] = frontier[m] /\ past'[m] = past[m]
      BY <2>5 DEF TypeOK
    <3> QED BY <2>7, <3>1, Zenon DEF FrontierExact
  <2>9. PredsExact'
    <3> SUFFICES ASSUME NEW m \in Nodes, NEW i \in DOMAIN log'[m]
                 PROVE  log'[m][i].preds = Newest(log'[m][i].past)
      BY DEF PredsExact
    <3>1. log[m] \in Seq(Transaction)
      BY DEF TypeOK
    <3>2. CASE m = n /\ i = Len(log[n]) + 1
      <4>1. log'[m][i] = r
        BY <2>5, <3>1, <3>2 DEF TypeOK
      <4> QED BY <4>1, <2>6
    <3>3. CASE ~ (m = n /\ i = Len(log[n]) + 1)
      <4>1. i \in DOMAIN log[m] /\ log'[m][i] = log[m][i]
        BY <2>5, <2>6, <3>1, <3>3 DEF TypeOK
      <4> QED BY <4>1 DEF PredsExact
    <3> QED BY <3>2, <3>3
  <2> QED BY <2>8, <2>9
<1>2. ASSUME NEW n \in Nodes, NEW m \in Nodes, Receive(n, m)
      PROVE  FrontierExact' /\ PredsExact'
  <2> PICK i \in DOMAIN log[m], now \in Time :
        LET r == log[m][i]
        IN  /\ n # m
            /\ clock' = [clock EXCEPT ![n] = Received(@, r.tx, now)]
            /\ frontier' = [frontier EXCEPT ![n] =
                               Merged(@, Advanced(r.preds, r.tx))]
            /\ past' = [past EXCEPT ![n] = @ \cup r.past \cup {r.tx}]
            /\ UNCHANGED <<log, restarts>>
    BY <1>2, ZenonT(40) DEF Receive
  <2> DEFINE r == log[m][i]
             f == Merged(frontier[n], Advanced(r.preds, r.tx))
  <2>1. r \in Transaction /\ past[n] \subseteq TxId
    BY DEF TypeOK
  <2>2. r.tx \in TxId /\ r.past \subseteq TxId
    BY <2>1 DEF Transaction
  <2>3. \A t \in r.past : Before(t, r.tx)
    BY DEF CausalOrder
  <2>4. r.preds = Newest(r.past) /\ frontier[n] = Newest(past[n])
    BY DEF PredsExact, FrontierExact
  <2>5. /\ frontier' = [frontier EXCEPT ![n] = f]
        /\ past' = [past EXCEPT ![n] = @ \cup r.past \cup {r.tx}]
        /\ log' = log
    OBVIOUS
  <2>6. f = Newest(past[n] \cup r.past \cup {r.tx})
    <3> HIDE DEF r
    <3>1. Advanced(r.preds, r.tx) = Newest(r.past \cup {r.tx})
      BY <2>2, <2>3, <2>4, AdvancedNewest
    <3>2. Merged(Newest(past[n]), Newest(r.past \cup {r.tx})) =
             Newest(past[n] \cup (r.past \cup {r.tx}))
      BY <2>1, <2>2, MergedNewest
    <3>3. past[n] \cup (r.past \cup {r.tx}) = past[n] \cup r.past \cup {r.tx}
      OBVIOUS
    <3> QED BY <2>4, <3>1, <3>2, <3>3
  <2> HIDE DEF r, f
  <2>7. FrontierExact'
    <3>1. /\ frontier'[n] = f /\ past'[n] = past[n] \cup r.past \cup {r.tx}
          /\ \A k \in Nodes \ {n} : frontier'[k] = frontier[k] /\ past'[k] = past[k]
      BY <2>5 DEF TypeOK
    <3> QED BY <2>6, <3>1, Zenon DEF FrontierExact
  <2>8. PredsExact'
    BY <2>5 DEF PredsExact
  <2> QED BY <2>7, <2>8
<1>3. ASSUME NEW n \in Nodes, Restart(n) PROVE FrontierExact' /\ PredsExact'
  <2>1. Newest({}) = {}
    BY DEF Newest
  <2> QED BY <1>3, <2>1 DEF Restart, FrontierExact, PredsExact, TypeOK
<1>4. ASSUME NEW n \in Nodes, AbortCommit(n) \/ TickOverflow(n) \/ UNCHANGED clockVars
      PROVE  FrontierExact' /\ PredsExact'
  BY <1>4 DEF AbortCommit, TickOverflow, clockVars, FrontierExact, PredsExact
<1>5. CASE UNCHANGED clockVars
  BY <1>5 DEF clockVars, FrontierExact, PredsExact
<1> QED BY <1>1, <1>2, <1>3, <1>4, <1>5 DEF Next

\* INV-FERR-016 (frontier.rs:3): a replica's frontier is exactly the newest
\* transaction of every node in its causal past, for every set of replicas and
\* whatever Frontier::merge is given, in whatever order and how often.
THEOREM FrontierIsNewest == Spec => []FrontierExact
<1> QED BY ClockInit, ClockStep, FrontierStarts, FrontierStep, PTL DEF Spec
=============================================================================
