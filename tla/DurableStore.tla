---------------------------- MODULE DurableStore ----------------------------
(***************************************************************************)
(* What Database promises, without writers, locks, logs or checkpoints:    *)
(* a set of transactions, each at an epoch of its own, that grows by whole *)
(* calls at the next epochs, whose acknowledged members outlive crashes.   *)
(***************************************************************************)
EXTENDS Naturals

CONSTANT Txs

VARIABLES
    up,         \* is the database open?
    visible,    \* what a reader sees: entries [epoch, tx]
    submitted,  \* transactions a caller has handed over
    acked       \* transactions a caller was told are committed

storeVars == <<up, visible, submitted, acked>>

TxsOf(S) == {e.tx : e \in S}

\* One transaction at every epoch from 1 to some n.
Dense(S) ==
    /\ \A e \in S : \A k \in 1..e.epoch : \E d \in S : d.epoch = k
    /\ \A d, e \in S : d.epoch = e.epoch <=> d.tx = e.tx

StoreInit ==
    /\ up = TRUE
    /\ visible = {}
    /\ submitted = {}
    /\ acked = {}

Submit ==
    /\ up
    /\ submitted \subseteq submitted'
    /\ submitted' \subseteq Txs
    /\ UNCHANGED <<up, visible, acked>>

\* The entries of one call appear together, after all earlier epochs.
Commit ==
    /\ up
    /\ visible \subseteq visible'
    /\ Dense(visible')
    /\ TxsOf(visible') \subseteq submitted
    /\ \A d \in visible, e \in visible' \ visible : d.epoch < e.epoch
    /\ UNCHANGED <<up, submitted, acked>>

Acknowledge ==
    /\ up
    /\ acked \subseteq acked'
    /\ acked' \subseteq TxsOf(visible)
    /\ UNCHANGED <<up, visible, submitted>>

Crash ==
    /\ up' = FALSE
    /\ visible' = {}
    /\ UNCHANGED <<submitted, acked>>

\* Transactions cut off by the crash may or may not be there.
Restart ==
    /\ ~ up
    /\ up' = TRUE
    /\ Dense(visible')
    /\ acked \subseteq TxsOf(visible')
    /\ TxsOf(visible') \subseteq submitted
    /\ UNCHANGED <<submitted, acked>>

StoreNext == Submit \/ Commit \/ Acknowledge \/ Crash \/ Restart

StoreSpec == StoreInit /\ [][StoreNext]_storeVars
=============================================================================
