-------------------------- MODULE DelegationLimits --------------------------
(***************************************************************************)
(* createDelegationLimits: the state that one root run shares with every   *)
(* supervisor of its delegation tree.  A pool is the set of runs that hold *)
(* a concurrency permit and the FIFO of those that wait for one; every     *)
(* method is synchronous, so each is an operator on the pool.              *)
(*                                                                         *)
(* A waiter carries the caller whose delegate tool signal it listens to:   *)
(* the caller of the delegation for a child that wants to start, the run   *)
(* itself for a parent that wants its permit back.                         *)
(***************************************************************************)
EXTENDS Integers, Sequences, FiniteSets

CONSTANTS
    MaxChildren,   \* bound: the largest maxTotalChildren of an instance
    Root           \* the root run, which never holds a permit

ASSUME LimitsAssumption ==
    /\ MaxChildren \in Nat
    /\ Root \notin 1 .. MaxChildren

Runs    == 1 .. MaxChildren   \* child runs, numbered as reserveTotal admits them
Callers == Runs \union {Root}

Waiters == [runId : Runs, caller : Callers]
Pools   == [activeRuns : SUBSET Runs, waiters : Seq(Waiters)]
NewPool == [activeRuns |-> {}, waiters |-> <<>>]

LesserOf(m, n) == IF m < n THEN m ELSE n
Free(pool, max) == max - Cardinality(pool.activeRuns)

RunIdsOf(waiters) == {waiters[i].runId : i \in DOMAIN waiters}

\* The waiters that drainConcurrencyQueue takes.  Its branch for an aborted
\* waiter is never taken: the abort handler has removed that one before.
Admitted(pool, max) ==
    SubSeq(pool.waiters, 1, LesserOf(Free(pool, max), Len(pool.waiters)))

\* Mutant of drainConcurrencyQueue: pop() where the code has shift().
drainNewestFirst(pool, max) ==
    LET left == Len(pool.waiters) - Len(Admitted(pool, max))
    IN  [activeRuns |-> pool.activeRuns \union
                           RunIdsOf(SubSeq(pool.waiters, left + 1, Len(pool.waiters))),
         waiters    |-> SubSeq(pool.waiters, 1, left)]

drainConcurrencyQueue(pool, max) ==
    LET admitted == Admitted(pool, max)
    IN  [activeRuns |-> pool.activeRuns \union RunIdsOf(admitted),
         waiters    |-> SubSeq(pool.waiters, Len(admitted) + 1, Len(pool.waiters))]

Without(pool, runId) == [pool EXCEPT !.activeRuns = @ \ {runId}]

releaseConcurrency(pool, runId, max) ==
    IF runId \in pool.activeRuns
    THEN drainConcurrencyQueue(Without(pool, runId), max)
    ELSE pool

\* A caller whose signal is aborted is refused before this.
acquireConcurrency(pool, waiter, max) ==
    IF waiter.runId \in pool.activeRuns \/ Free(pool, max) > 0
    THEN [pool EXCEPT !.activeRuns = @ \union {waiter.runId}]
    ELSE [pool EXCEPT !.waiters = Append(@, waiter)]

\* The same for the tasks first .. last of one delegate call, in their order.
acquireInOrder(pool, caller, first, last, max) ==
    LET n == LesserOf(Free(pool, max), last - first + 1)
    IN  [activeRuns |-> pool.activeRuns \union (first .. first + n - 1),
         waiters    |-> pool.waiters \o
                        [i \in 1 .. last - first + 1 - n |->
                            [runId |-> first + n + i - 1, caller |-> caller]]]

\* The abort handlers of the waiters that listen to one of these callers: the
\* others move up.  Without the recursion of SelectSeq, for the proofs.
abortWaiters(pool, callers) ==
    LET waiters == pool.waiters
        staying == {i \in DOMAIN waiters : waiters[i].caller \notin callers}
        nth(n)  == CHOOSE i \in staying : Cardinality({j \in staying : j < i}) = n - 1
    IN  [pool EXCEPT !.waiters = [n \in 1 .. Cardinality(staying) |-> waiters[nth(n)]]]

=============================================================================
