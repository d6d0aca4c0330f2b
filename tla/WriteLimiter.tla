---------------------------- MODULE WriteLimiter ----------------------------
(***************************************************************************)
(* The write limiter of ferratomic-core/src/backpressure.rs: one atomic    *)
(* counter bounds the number of concurrent transact() calls.  A call adds  *)
(* one first and looks at the old value afterwards, so between the add and *)
(* the undo of a rejected call the counter also counts that call.          *)
(***************************************************************************)
EXTENDS Naturals, FiniteSets

CONSTANTS
    Writers,             \* the threads that call transact()
    MaxConcurrentWrites  \* BackpressurePolicy.max_concurrent_writes

ASSUME LimiterAssumption ==
    /\ IsFiniteSet(Writers)
    /\ MaxConcurrentWrites \in Nat

VARIABLES
    active,   \* WriteLimiter.active
    slot      \* slot[w]: what thread w holds of the limiter

limiterVars == <<active, slot>>

\* "none": outside; "rejected": added one, saw the limit, has not undone it
\* yet; "guard": owns a WriteGuard.
Slots == {"none", "rejected", "guard"}

Guards == {w \in Writers : slot[w] = "guard"}
Counted == {w \in Writers : slot[w] # "none"}

LimiterInit ==
    /\ active = 0
    /\ slot = [w \in Writers |-> "none"]

\* A faulty try_acquire: `prev > max` instead of `prev >= max`.
TryAcquireLate(w) ==
    /\ slot[w] = "none"
    /\ active' = active + 1
    /\ slot' = [slot EXCEPT ![w] =
                   IF active > MaxConcurrentWrites THEN "rejected" ELSE "guard"]

\* try_acquire, the fetch_add: `prev`, the counter before the add, decides.
TryAcquire(w) ==
    /\ slot[w] = "none"
    /\ active' = active + 1
    /\ slot' = [slot EXCEPT ![w] =
                   IF active >= MaxConcurrentWrites THEN "rejected" ELSE "guard"]

\* A faulty try_acquire: a call that saw the limit returns without the undo.
UndoAcquireForgotten(w) ==
    /\ slot[w] = "rejected"
    /\ slot' = [slot EXCEPT ![w] = "none"]
    /\ UNCHANGED active

\* try_acquire, the fetch_sub of a call that saw the limit; it returns None.
UndoAcquire(w) ==
    /\ slot[w] = "rejected"
    /\ active' = active - 1
    /\ slot' = [slot EXCEPT ![w] = "none"]

\* WriteGuard::drop.
DropGuard(w) ==
    /\ slot[w] = "guard"
    /\ active' = active - 1
    /\ slot' = [slot EXCEPT ![w] = "none"]

LimiterNext ==
    \E w \in Writers : TryAcquire(w) \/ UndoAcquire(w) \/ DropGuard(w)

LimiterSpec == LimiterInit /\ [][LimiterNext]_limiterVars

-----------------------------------------------------------------------------
LimiterTypeOK ==
    /\ active \in Nat
    /\ slot \in [Writers -> Slots]

\* INV-FERR-021: the calls that were let through never exceed the configured
\* maximum, whatever the overshoot of the counter while rejected calls undo
\* their increments.
GuardsBounded == Cardinality(Guards) <= MaxConcurrentWrites

\* The counter is exactly the number of calls between their add and their
\* subtract: no path of try_acquire or of the guard's drop leaks a slot, and
\* the unsigned counter never wraps below zero.
CountExact == active = Cardinality(Counted)
=============================================================================
