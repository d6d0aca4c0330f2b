---------------------------- MODULE HybridClock ----------------------------
(***************************************************************************)
(* The hybrid logical clocks of ferratom-clock and the causal frontiers of *)
(* ferratomic-core/src/db, at a set of replicas.  A replica ticks its      *)
(* clock under the write lock for every transaction and records its        *)
(* frontier as the predecessors of the transaction; a replica that is told *)
(* of a transaction passes its TxId to HybridClock::receive and merges the *)
(* frontier that came with it.  Nothing in the repository fixes how        *)
(* transactions travel, so any replica may be told of any transaction at   *)
(* any time, again, late or never.                                         *)
(***************************************************************************)
EXTENDS Naturals, Sequences

CONSTANTS
    Nodes,       \* node identities, ordered like NodeId
    MaxTime,     \* bound on the wall clock
    MaxLogical,  \* u32::MAX
    MaxRestarts  \* bound on the number of times replicas are reopened

ASSUME ClockAssumption ==
    /\ Nodes \subseteq Nat
    /\ MaxTime \in Nat /\ MaxLogical \in Nat
    /\ MaxRestarts \in Nat

VARIABLES
    clock,     \* clock[n]: the physical and logical parts of n's HybridClock
    frontier,  \* frontier[n]: n's Frontier, as a set of TxIds, one per node
    log,       \* log[n]: the transactions of n in commit order
    past,      \* history, past[n]: TxIds that causally precede n's next one
    restarts   \* number of restarts so far

clockVars == <<clock, frontier, log, past, restarts>>

Time == 0..MaxTime
Logical == 0..MaxLogical
TxId == [physical : Time, logical : Logical, node : Nodes]

\* Ord for TxId: lexicographic on (physical, logical, node).
Before(s, t) ==
    \/ s.physical < t.physical
    \/ s.physical = t.physical /\ s.logical < t.logical
    \/ s.physical = t.physical /\ s.logical = t.logical /\ s.node < t.node

\* What HybridClock holds for n, against a TxId: t was produced or received.
Reached(c, t) ==
    \/ t.physical < c.physical
    \/ t.physical = c.physical /\ t.logical <= c.logical

TimeMax(a, b) == IF a > b THEN a ELSE b

-----------------------------------------------------------------------------
\* HybridClock::with_clock, Frontier::new: every open starts from these.
FreshClock == [physical |-> 0, logical |-> 0]

Init ==
    /\ clock = [n \in Nodes |-> FreshClock]
    /\ frontier = [n \in Nodes |-> {}]
    /\ log = [n \in Nodes |-> << >>]
    /\ past = [n \in Nodes |-> {}]
    /\ restarts = 0

\* tick() may return when the wall shows `now`.  On overflow of the logical
\* counter it polls the wall until it has moved on; if it gives up it returns
\* an error and leaves the clock alone.
CanTick(c, now) == now > c.physical \/ c.logical < MaxLogical

\* A faulty tick: it follows the wall wherever it goes.
TickedByWall(c, now) ==
    IF now # c.physical THEN [physical |-> now, logical |-> 0]
    ELSE [c EXCEPT !.logical = @ + 1]

\* HybridClock::tick: the wall has moved on, or the logical counter does.
Ticked(c, now) ==
    IF now > c.physical THEN [physical |-> now, logical |-> 0]
    ELSE [c EXCEPT !.logical = @ + 1]

\* A faulty receive: it keeps the larger physical part, and the local counter.
ReceivedPhysical(c, t, now) ==
    [physical |-> TimeMax(now, TimeMax(c.physical, t.physical)),
     logical |-> c.logical]

\* HybridClock::receive: the largest physical part, with the counter of
\* whoever had it.
Received(c, t, now) ==
    LET p == TimeMax(now, TimeMax(c.physical, t.physical))
    IN  [physical |-> p,
         logical |-> TimeMax(IF p = c.physical THEN c.logical ELSE 0,
                             IF p = t.physical THEN t.logical ELSE 0)]

\* Frontier::advance: an entry only moves forward.
Advanced(f, t) ==
    IF \E s \in f : s.node = t.node /\ ~ Before(s, t) THEN f
    ELSE {s \in f : s.node # t.node} \cup {t}

\* A faulty Frontier::merge: the other frontier's entries win.
MergedTheirs(f, g) == {s \in f : \A t \in g : s.node # t.node} \cup g

\* Frontier::merge: advance() for every entry of the other frontier.
Merged(f, g) ==
    {s \in f \cup g : \A t \in f \cup g : s.node = t.node => ~ Before(s, t)}

\* Database::transact at n: tick under the write lock, record the frontier as
\* the predecessors, commit, advance the frontier.
Commit(n) ==
    \E now \in Time :
        LET c == Ticked(clock[n], now)
            tx == [physical |-> c.physical, logical |-> c.logical, node |-> n]
        IN  /\ CanTick(clock[n], now)
            /\ clock' = [clock EXCEPT ![n] = c]
            /\ log' = [log EXCEPT ![n] = Append(@,
                  [tx |-> tx, preds |-> frontier[n], past |-> past[n]])]
            /\ frontier' = [frontier EXCEPT ![n] = Advanced(@, tx)]
            /\ past' = [past EXCEPT ![n] = @ \cup {tx}]
            /\ UNCHANGED restarts

\* A call that fails after its tick: the clock has moved, nothing else has.
AbortCommit(n) ==
    \E now \in Time :
        /\ CanTick(clock[n], now)
        /\ clock' = [clock EXCEPT ![n] = Ticked(@, now)]
        /\ UNCHANGED <<frontier, log, past, restarts>>

\* tick() gives up: the wall has not passed the physical part, the counter is
\* at its limit.  The call returns LogicalOverflow.
TickOverflow(n) ==
    /\ \E now \in Time : ~ CanTick(clock[n], now)
    /\ UNCHANGED clockVars

\* n is told of a transaction of m: receive(), and the merge of the frontier
\* that m had after it.
Receive(n, m) ==
    \E i \in DOMAIN log[m], now \in Time :
        LET r == log[m][i]
        IN  /\ n # m
            /\ clock' = [clock EXCEPT ![n] = Received(@, r.tx, now)]
            /\ frontier' = [frontier EXCEPT ![n] =
                               Merged(@, Advanced(r.preds, r.tx))]
            /\ past' = [past EXCEPT ![n] = @ \cup r.past \cup {r.tx}]
            /\ UNCHANGED <<log, restarts>>

\* n is closed and opened again: build_opening makes a new clock and a new
\* frontier; neither is seeded from the recovered store.
Restart(n) ==
    /\ restarts < MaxRestarts
    /\ restarts' = restarts + 1
    /\ clock' = [clock EXCEPT ![n] = FreshClock]
    /\ frontier' = [frontier EXCEPT ![n] = {}]
    /\ past' = [past EXCEPT ![n] = {}]
    /\ UNCHANGED log

Next ==
    \E n \in Nodes :
        \/ Commit(n) \/ AbortCommit(n) \/ TickOverflow(n) \/ Restart(n)
        \/ \E m \in Nodes : Receive(n, m)

Spec == Init /\ [][Next]_clockVars

-----------------------------------------------------------------------------
Clock == [physical : Time, logical : Logical]
Transaction == [tx : TxId, preds : SUBSET TxId, past : SUBSET TxId]

TypeOK ==
    /\ clock \in [Nodes -> Clock]
    /\ frontier \in [Nodes -> SUBSET TxId]
    /\ log \in [Nodes -> Seq(Transaction)]
    /\ past \in [Nodes -> SUBSET TxId]
    /\ restarts \in Nat

\* INV-FERR-015 (lib.rs:117): "`tick()` always produces a `TxId` strictly
\* greater than any previously produced or received timestamp", whatever the
\* wall does, since the database was opened.  The node is told only of the
\* last transaction of a causal chain and must be past all of it.
TickAfterPast ==
    [][\A n \in Nodes : Len(log'[n]) > Len(log[n]) =>
          \A t \in past[n] : Before(t, log'[n][Len(log'[n])].tx)]_clockVars

\* INV-FERR-016, INV-FERR-061: TxIds respect causality across replicas: what a
\* transaction's replica knew when it committed, and every predecessor the
\* transaction names, has a smaller TxId, through any chain of replicas.
CausalOrder ==
    \A n \in Nodes : \A i \in DOMAIN log[n] :
        \A t \in log[n][i].past \cup log[n][i].preds : Before(t, log[n][i].tx)

\* The newest TxId of every node in a set of TxIds.
Newest(S) == {s \in S : \A t \in S : s.node = t.node => ~ Before(s, t)}

\* INV-FERR-016 (frontier.rs:3): "The frontier records the latest `TxId`
\* observed from each node": merging frontiers on receipt yields exactly the
\* newest transaction of every node in the causal past, in whatever order and
\* however often messages arrive.
FrontierExact == \A n \in Nodes : frontier[n] = Newest(past[n])

\* db/mod.rs:215: "Ticked under the write lock so `TxId` ordering matches
\* commit order": a replica's later transaction has the larger TxId.
CommitOrder ==
    \A n \in Nodes : \A i, j \in DOMAIN log[n] :
        i < j => Before(log[n][i].tx, log[n][j].tx)
=============================================================================
