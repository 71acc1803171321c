-------------------------- MODULE ChildSupervisor ---------------------------
(***************************************************************************)
(* The recursive child supervisors of one root run: the delegate tool of   *)
(* the root and of every child starts tasks as child sessions, under one   *)
(* pool of concurrency permits (DelegationLimits).  A caller gives its     *)
(* permit up for as long as its delegate call is open and takes it again   *)
(* before the call returns.  The host is one event loop: what runs between *)
(* two awaits is one action.                                               *)
(*                                                                         *)
(* The Pi agent session is not in this repository.  Assumed of it: abort() *)
(* aborts the tool signal of the turn in progress, a turn ends only after  *)
(* its tool calls have, and no tool is started after the abort.  What an   *)
(* abort() of an idle session does to the next prompt() is left open, and  *)
(* so is, by the policy, whether one turn may hold several delegate calls  *)
(* open at once.                                                           *)
(*                                                                         *)
(* Abstracted: personas, models, workspace leases beyond "the child may    *)
(* fail to start", prompts, usage beyond "the token budget is exhausted".  *)
(* Tasks refused by a limit leave no state but their failed event.         *)
(***************************************************************************)
EXTENDS DelegationLimits

CONSTANTS
    Policies,      \* the configurations a root run may have
    MaxCalls,      \* bound: the largest maxCalls of a policy
    MaxTasks       \* bound: the largest maxTasks of a policy

\* The host limits, the attempts that verification allows (1 when it is not
\* configured), whether the delegate calls of one turn may overlap, and two
\* bounds: the delegate calls of the root run, the tasks of one call.
PolicyShape == [maxDepth : Nat \ {0}, maxParallel : Nat \ {0},
                maxTotalChildren : 1 .. MaxChildren, maxAttempts : Nat \ {0},
                overlap : BOOLEAN, maxCalls : 0 .. MaxCalls, maxTasks : 1 .. MaxTasks]

ASSUME SupervisorAssumption ==
    /\ Policies \subseteq PolicyShape
    /\ MaxCalls \in Nat /\ MaxTasks \in Nat \ {0}

VARIABLES
    limits,     \* the policy of this root run
    pool,       \* activeRuns and waiters
    spawned,    \* totalSpawned
    exhausted,  \* budgetExceeded()
    run,        \* the locals of runTask and runChildSession, per child
    call,       \* the delegate calls, numbered as they are made
    cut         \* the callers whose turn in progress has been aborted

supervisorVars == <<limits, pool, spawned, exhausted, run, call, cut>>

CallIds == 1 .. MaxCalls

\* "queued" and "admitted" are before and after the permit of acquireConcurrency;
\* "closing" is the finally of runChildSession.
Pcs == {"unused", "queued", "admitted", "building", "turn", "verifying",
        "closing", "ended"}
Outcomes == {"none", "completed", "failed", "cancelled"}

SupervisorTypeOK ==
    /\ limits \in Policies
    /\ pool \in Pools
    /\ spawned \in 0 .. limits.maxTotalChildren
    /\ exhausted \in BOOLEAN
    /\ run \in [Runs -> [pc : Pcs, caller : Callers, callId : CallIds \union {0},
                         above : SUBSET Callers, attempts : 0 .. limits.maxAttempts,
                         aborted : BOOLEAN, timedOut : BOOLEAN, outcome : Outcomes]]
    /\ call \in [CallIds -> [pc : {"unmade", "tasks", "resuming", "back"},
                             caller : Callers, suspended : BOOLEAN]]
    /\ cut \subseteq Callers

Unused == [pc |-> "unused", caller |-> Root, callId |-> 0, above |-> {},
           attempts |-> 0, aborted |-> FALSE, timedOut |-> FALSE, outcome |-> "none"]

Unmade == [pc |-> "unmade", caller |-> Root, suspended |-> FALSE]

\* What is left of a child that has ended, and of a call that has returned.
Ended == [Unused EXCEPT !.pc = "ended"]
Back  == [Unmade EXCEPT !.pc = "back"]

SupervisorInit ==
    /\ limits \in Policies
    /\ pool = NewPool
    /\ spawned = 0
    /\ exhausted = FALSE
    /\ run = [r \in Runs |-> Unused]
    /\ call = [k \in CallIds |-> Unmade]
    /\ cut = {}

-----------------------------------------------------------------------------
InTurn(p)   == p \in Runs => run[p].pc = "turn"
OpenCalls(p) == {k \in CallIds : /\ call[k].pc \in {"tasks", "resuming"}
                                  /\ call[k].caller = p}
Depth(p)    == IF p = Root THEN 0 ELSE Cardinality(run[p].above)
AboveOf(p)  == IF p = Root THEN {Root} ELSE run[p].above \union {p}
TasksLeft(k) == {r \in Runs : run[r].callId = k}
\* A controller an abort of which still changes something.
HasController(r) == run[r].pc \in {"building", "turn", "verifying"}

\* Runs whose waiter has just been admitted, by a pool that was p before.
Start(runs, p, q) ==
    [r \in Runs |-> IF runs[r].pc = "queued" /\ r \in q.activeRuns \ p.activeRuns
                    THEN [runs[r] EXCEPT !.pc = "admitted"]
                    ELSE runs[r]]

\* Callers whose resumeConcurrency has just been granted.
Resume(calls, p, q) ==
    [k \in CallIds |->
        IF calls[k].pc = "resuming" /\ calls[k].caller \in q.activeRuns \ p.activeRuns
        THEN Back
        ELSE calls[k]]

-----------------------------------------------------------------------------
\* The delegate tool: withParentConcurrencySuspended up to the first await,
\* then the synchronous head of runTask for every task.

\* Mutant of Suspended: a parent keeps its permit while it awaits its children.
Unsuspended(p) == pool

Suspended(p) == releaseConcurrency(pool, p, limits.maxParallel)

\* Mutant of Reserved: every task is counted, none is refused.
ReservedAll(p, tasks) ==
    IF Depth(p) + 1 > limits.maxDepth \/ exhausted THEN 0 ELSE tasks

\* Tasks that pass the depth, budget and total-children checks.
Reserved(p, tasks) ==
    IF Depth(p) + 1 > limits.maxDepth \/ exhausted THEN 0
    ELSE LesserOf(tasks, limits.maxTotalChildren - spawned)

Delegate(p, k, tasks) ==
    LET given == Suspended(p)
        last  == spawned + Reserved(p, tasks)
        after == acquireInOrder(given, p, spawned + 1, last, limits.maxParallel)
        Task(r) == [Unused EXCEPT
                       !.pc = IF r \in after.activeRuns THEN "admitted" ELSE "queued",
                       !.caller = p, !.callId = k, !.above = AboveOf(p)]
        runs == [r \in Runs |-> IF r \in spawned + 1 .. last THEN Task(r) ELSE run[r]]
    IN  /\ InTurn(p) /\ p \notin cut
        /\ k <= limits.maxCalls /\ tasks <= limits.maxTasks
        /\ call[k].pc = "unmade"
        /\ \A j \in CallIds : j < k => call[j].pc # "unmade"
        /\ OpenCalls(p) = {} \/ limits.overlap
        /\ pool' = after
        /\ spawned' = last
        /\ run' = Start(runs, pool, given)
        /\ call' = [Resume(call, pool, given) EXCEPT
                       ![k] = [pc |-> "tasks", caller |-> p,
                               suspended |-> p \in pool.activeRuns]]
        /\ UNCHANGED <<limits, exhausted, cut>>

\* Mutant of FinishTasks: the call returns and the parent's permit is forgotten.
FinishWithoutResume(k) ==
    /\ call[k].pc = "tasks" /\ TasksLeft(k) = {}
    /\ call' = [call EXCEPT ![k] = Back]
    /\ UNCHANGED <<limits, pool, spawned, exhausted, run, cut>>

\* The tasks and their integration are over: the finally of
\* withParentConcurrencySuspended.
FinishTasks(k) ==
    LET p     == call[k].caller
        taken == acquireConcurrency(pool, [runId |-> p, caller |-> p],
                                    limits.maxParallel)
    IN  /\ call[k].pc = "tasks" /\ TasksLeft(k) = {}
        /\ IF call[k].suspended /\ p \notin cut
           THEN /\ pool' = taken
                /\ call' = IF p \in taken.activeRuns
                           THEN [call EXCEPT ![k] = Back]
                           ELSE [call EXCEPT ![k].pc = "resuming"]
           ELSE /\ call' = [call EXCEPT ![k] = Back]
                /\ UNCHANGED pool
        /\ UNCHANGED <<limits, spawned, exhausted, run, cut>>

-----------------------------------------------------------------------------
\* Aborts.  The signal of a turn reaches the controllers of the children that
\* its calls have started, and through their sessions their own turns; a
\* controller fires once.  Waiters are refused on the way.

\* The children an abort of these sessions reaches.
Reached(sessions) ==
    {r \in Runs :
        /\ HasController(r) /\ ~run[r].aborted
        /\ \E s \in sessions \intersect run[r].above :
              \A m \in run[r].above \intersect Runs :
                 s \in run[m].above => ~run[m].aborted}

\* Sessions are aborted; the runs in fired by their own controller.
AbortSessions(sessions, fired, timedOut) ==
    LET reached  == Reached(sessions) \union fired
        nowCut   == {p \in reached \union sessions : InTurn(p)}
        Refused(r) == run[r].pc = "queued" /\ run[r].caller \in nowCut
    IN  /\ cut' = cut \union nowCut
        /\ pool' = abortWaiters(pool, nowCut)
        /\ run' = [r \in Runs |->
                      IF Refused(r)
                      THEN Ended   \* run.cancelled
                      ELSE [run[r] EXCEPT !.aborted = @ \/ r \in reached,
                                          !.timedOut = @ \/ r \in timedOut]]
        /\ call' = [k \in CallIds |->
                       IF call[k].pc = "resuming" /\ call[k].caller \in nowCut
                       THEN Back
                       ELSE call[k]]
        /\ UNCHANGED <<limits, spawned, exhausted>>

\* shutdownActiveWork: the root session and every controller.
AbortRoot ==
    LET controlled == {r \in Runs : HasController(r) /\ ~run[r].aborted}
    IN  /\ Root \notin cut
        /\ AbortSessions({Root} \union controlled, controlled, {})

\* stopChild of the host: a child that waits for a permit has no controller yet.
StopChild(r) ==
    /\ HasController(r) /\ ~run[r].aborted
    /\ AbortSessions({r}, {r}, {})

\* childTimeoutMs, from the prompt of the session to its finally.
TimerFires(r) ==
    /\ run[r].pc \in {"turn", "verifying"} /\ ~run[r].timedOut
    /\ AbortSessions({r}, {}, {r})

-----------------------------------------------------------------------------
\* One child: runTask from its permit on, and runChildSession.

Goes(r, pc) ==
    /\ run' = [run EXCEPT ![r].pc = pc]
    /\ UNCHANGED <<limits, pool, spawned, exhausted, call, cut>>

\* Mutant of TakeController: the signal is not looked at again.
TakeControllerBlindly(r) == run[r].pc = "admitted" /\ Goes(r, "building")

\* The controller is linked to the caller's signal, which may have been
\* aborted since the permit was granted.
TakeController(r) ==
    /\ run[r].pc = "admitted"
    /\ run' = [run EXCEPT ![r].pc = "building",
                          ![r].aborted = run[r].caller \in cut]
    /\ UNCHANGED <<limits, pool, spawned, exhausted, call, cut>>

\* session.prompt, the first time and after each failed verification.
Prompt(r, from, interrupted) ==
    /\ run[r].pc = from
    /\ interrupted => run[r].aborted \/ run[r].timedOut
    /\ run' = [run EXCEPT ![r].pc = "turn", ![r].attempts = @ + 1]
    /\ cut' = IF interrupted THEN cut \union {r} ELSE cut \ {r}
    /\ UNCHANGED <<limits, pool, spawned, exhausted, call>>

StartSession(r) == \E interrupted \in BOOLEAN : Prompt(r, "building", interrupted)

\* The end of runTask: the permit goes to the next waiters.
Leave(r, spent) ==
    LET after == releaseConcurrency(pool, r, limits.maxParallel)
    IN  /\ pool' = after
        /\ run' = Start([run EXCEPT ![r] = Ended], pool, after)
        /\ call' = Resume(call, pool, after)
        /\ exhausted' = (exhausted \/ spent)
        /\ cut' = cut \ {r}
        /\ UNCHANGED <<limits, spawned>>

\* A workspace lease is refused, or the session cannot be built.
StartFails(r) == run[r].pc = "building" /\ Leave(r, FALSE)

Terminal(r, outcome) ==
    /\ run' = [run EXCEPT ![r].pc = "closing", ![r].outcome = outcome,
                          ![r].attempts = 0, ![r].aborted = FALSE, ![r].timedOut = FALSE]
    /\ UNCHANGED <<limits, pool, spawned, exhausted, call, cut>>

\* Mutant of Interrupted: what the turn was interrupted by is not looked at.
NeverInterrupted(r) == FALSE

Interrupted(r) == run[r].timedOut \/ run[r].aborted

TurnEnds(r) ==
    /\ run[r].pc = "turn" /\ OpenCalls(r) = {}
    /\ \/ Terminal(r, "failed")   \* the assistant's error, or no text
       \/ run[r].timedOut /\ Terminal(r, "failed")
       \/ ~run[r].timedOut /\ run[r].aborted /\ Terminal(r, "cancelled")
       \/ ~Interrupted(r) /\ Terminal(r, "completed")
       \/ ~Interrupted(r) /\ limits.maxAttempts > 1 /\ Goes(r, "verifying")

\* requestVerifyResult, which a shutdown answers with an error, decideBoundedLoop,
\* and the awaits behind the answer: an abort or a timer that falls among these is
\* not looked at before the outcome is emitted or the session prompted again.
VerificationEnds(r) ==
    /\ run[r].pc = "verifying"
    /\ \/ Terminal(r, "failed")
       \/ Terminal(r, "completed")
       \/ /\ run[r].attempts < limits.maxAttempts
          /\ \E interrupted \in BOOLEAN : Prompt(r, "verifying", interrupted)

\* The finally of runChildSession: dispose, then recordTokens.
Close(r) ==
    /\ run[r].pc = "closing"
    /\ \E spent \in BOOLEAN : Leave(r, spent)

\* The root's own messages are folded into the budget of the tree.
RootSpends ==
    /\ ~exhausted
    /\ exhausted' = TRUE
    /\ UNCHANGED <<limits, pool, spawned, run, call, cut>>

ChildNext(r) ==
    \/ TakeController(r) \/ StartSession(r) \/ StartFails(r)
    \/ TurnEnds(r) \/ VerificationEnds(r) \/ Close(r)

SupervisorNext ==
    \/ \E p \in Callers, k \in CallIds, tasks \in 1 .. MaxTasks : Delegate(p, k, tasks)
    \/ \E k \in CallIds : FinishTasks(k)
    \/ \E r \in Runs : ChildNext(r)
    \/ AbortRoot
    \/ \E r \in Runs : StopChild(r)
    \/ \E r \in Runs : TimerFires(r)
    \/ RootSpends

SupervisorSpec == SupervisorInit /\ [][SupervisorNext]_supervisorVars

-----------------------------------------------------------------------------
\* Every child that works, or closes its session, holds a permit, whatever was
\* suspended, resumed and aborted before; only one whose turn has been aborted may
\* be without (131-188, 793-840).
WorkersHoldPermit ==
    \A r \in Runs :
        \/ run[r].pc \in {"admitted", "building"}
        \/ /\ run[r].pc \in {"turn", "verifying", "closing"}
           /\ r \notin cut /\ OpenCalls(r) = {}
        => r \in pool.activeRuns

\* No more of them hold one than the limit of the root run, in the whole tree
\* (maxParallelPerDelegation), and nobody else does: a permit is never left with a
\* child that has ended or still waits (131-147, 824-828).
WorkUnderPermit ==
    /\ Cardinality(pool.activeRuns) <= limits.maxParallel
    /\ WorkersHoldPermit
    /\ \A r \in pool.activeRuns : run[r].pc \in {"admitted", "closing"} \/ HasController(r)

\* The waiters as PermitLine sees them: the runs, in order of arrival.
Line == [i \in DOMAIN pool.waiters |-> pool.waiters[i].runId]

Leases == INSTANCE PermitLine WITH
    limit <- limits.maxParallel, holders <- pool.activeRuns, line <- Line

\* "One global active-agent lease, FIFO and abort-aware" (158): whatever a delegate
\* call hands over in one step to waiters, its own tasks and a returning parent,
\* nobody is overtaken, and nobody waits while a permit is free.
ImplementsPermitLine == Leases!Spec

\* Whatever the abort of a turn comes between, the children of its calls learn
\* of it: those that run are aborted, and none is left waiting (171-178, 800-803).
AbortReachesChildren ==
    \A r \in Runs :
        run[r].caller \in cut
            => run[r].pc # "queued" /\ (HasController(r) => run[r].aborted)

\* A child whose turn was aborted under it is not reported completed (1282-1295).
InterruptedNotCompleted ==
    \A r \in Runs : run[r].outcome = "completed" => r \notin cut

\* Every delegate call returns.  With one call at a time nobody waits on
\* himself; with several, the timers of those that do break the circle.
CallsReturn ==
    \A k \in CallIds : call[k].pc = "tasks" ~> call[k].pc = "back"

-----------------------------------------------------------------------------
\* Sessions start, answer and close, and the host's promises settle.  Stops and
\* new calls are never promised, and a timer only where calls overlap.
SupervisorFairness ==
    /\ \A r \in Runs : WF_supervisorVars(ChildNext(r))
    /\ \A k \in CallIds : WF_supervisorVars(FinishTasks(k))
    /\ \A r \in Runs : WF_supervisorVars(limits.overlap /\ TimerFires(r))

FairSupervisorSpec == SupervisorSpec /\ SupervisorFairness

=============================================================================
