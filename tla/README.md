# Offisim in TLA+

Offisim is a desktop application in which a user talks to AI employees. Four things in it are
protocols rather than screens: a **Mission**, a goal that is attempted, verified and repaired under
a budget until it is completed or given up, and that a reload of the renderer must put to rest; a
**Conversation thread**, on which an ordinary turn, a Mission, a reload, and an archive or delete
all want to be the one that is at work; a **delegation tree**, in which an agent and the agents it
starts share one pool of permits; and the **installation** of a package, which is reviewed,
confirmed, materialized and perhaps rolled back. All are TypeScript or JavaScript, single threaded,
and full of `await`s; every `await` is a place where another actor runs. This directory holds TLA+
models of the four, the TLC configurations that check them, and TLAPS proofs about each of the seven
modules that model a component: every invariant and every action property that a passing run checks
is also a theorem, for every value of the constants; liveness is model-checked.

Paths below are relative to the repository (`packages/`, `apps/`, `scripts/`); `renderer/`
abbreviates `apps/desktop/renderer/src/`.

## 1. The system

| Component | State | Operations | Talks to | What makes it correct |
| --- | --- | --- | --- | --- |
| **MissionService** `packages/core/src/runtime/mission/mission-service.ts` | rows of `missions`, `mission_attempts`, `mission_criteria`, `mission_evaluations`, `mission_events` behind repositories | `createMission`, `markReady`, `startAttempt`, `toVerifying`, `toRepairing`, `toAwaitingUser`, `completeMission`, `blockMission`, `failMission`, `pauseMission`, `resumeMission`, `cancelMission`, `interruptMission`, `recordEvaluation` | memory or SQLite repositories; called by the loop, the reload recovery, the user | the status moves along the graph, terminal rows never change, one active root attempt, log and row agree |
| **MissionLoopController** `packages/core/src/runtime/mission/mission-loop-controller.ts`, `bounded-loop.ts`, `mission-budget.ts` | locals of one `run()` | `run`, `runOneAttempt` | MissionService, the delegated runtime, the evaluator, evaluation leases | never completes unverified work, stays in its budget, ends, and tells the truth about how it ended |
| **Mission run controller** `renderer/runtime/mission/mission-run-controller.ts` | abort latch, deadline timer, usage of the run | `runAttempt`, `abort` | desktop agent runtime | one agent run becomes one attempt |
| **ThreadLifecycleGuard** `renderer/runtime/thread-lifecycle-guard.ts` | `activeRuns`, `mutations`, a generation per run | `beginRun`, `transferRun`, `releaseRun`, `acquireMutation` | all the lanes below | one active root per thread; stale leases are harmless; no slot leaks |
| **ConversationRunController** `renderer/assistant/runtime/conversation-run-controller.ts` | `activeRuns`, retry records, snapshots, stop operations | submit, retry, fresh session, Stop, reload hydration, host events, completion, failure | guard, agent runtime, Loop send | at most one turn, a Stop is never lost, the snapshot belongs to the turn at work |
| **MissionRunManager** `renderer/runtime/mission/mission-run-manager.ts` | `activeRuns` by Mission | `start`, `requestAbort`, `runToTerminal`, reload bootstrap | guard, loop, run controller | a Mission runs once, with the slot of its thread |
| **Loop send** `renderer/assistant/runtime/loop-send-execution.ts` | none | `materialize`, `start`, `compensate` | Mission creation, MissionRunManager | a Loop becomes one Mission or nothing |
| **Archive / delete** `renderer/data/queries.ts` | the mutation lock | the two thread mutations | guard, database | never under a running root |
| **Reload recovery** `renderer/runtime/mission/mission-reload-recovery.ts`, `packages/core/src/runtime/mission/recovery/` | per company one cached pass; reload markers and agent rows in the database | discover, settle the hosts, end the agent rows, mark, interrupt, park, repair | native host, MissionService, agent-run rows | whatever failed or died, the UI opens only on settled Missions, and it does open |
| **Install service** `packages/install-core/src/`, Market surface | `install_transactions`, `installed_packages`, `skills`; vault files; a plan cache and a lock per import; the pending install | `importFile`, `confirmBindings`, `cancel`, materialize, flush, rollback | database, vault, dialog | one materialization, no orphans, an end is not overwritten |
| **Delegation supervisor** `scripts/pi-child-supervisor.mjs`, `scripts/pi-delegation-extension.mjs` | children, permits and their waiters, shared counters, controllers | delegate, start, prompt, verify, stop, time out, shut down | agent sessions, host, verifier | limits hold, no permit is lost, an abort reaches every child, every call returns |
| Mission workspace leases and checkpoints, desktop agent runtime and its persistence queue, collaboration turns, native (Rust) hosts, office presentation, documents, registry and platform API | | | | see *Not modelled* |

How they interact. A user submits a turn: the conversation controller takes the thread's lease from
the guard, then persists, assembles and executes. If the turn is a *Loop*, it materializes a Mission
and hands its lease over (`transferRun`) to the MissionRunManager, which drives a
MissionLoopController, which calls MissionService for every status change and the run controller for
every attempt. A Mission can also be started on its own. Stop goes to whichever of them owns the
thread by then. Archive, delete and a fresh session take a mutation lock of the same guard. After a
reload the controller hydrates the thread, and the reload recovery puts the Missions to rest before
the UI is opened. Inside an attempt, an agent's `delegate` tool starts children through the
supervisor, which shares the limits of the root with the supervisors of all of them. Installing is a
lane of its own: it meets the others only in the database.

Hard behaviours. (1) Every MissionService method is a chain of three to six awaited repository
calls, and the status it validates is read at the first of them. (2) On the desktop the
compare-and-swap of `missions.updateStatus` is a `SELECT`, a comparison in the renderer, and an
`UPDATE` by id. (3) Stop awaits the host; the turn may complete, fail, or hand its lease over
meanwhile. (4) Leases are kept in closures of several lanes and may be used late and twice. (5) Any
repository call may reject, half way through a transition. (6) The loop's wall clock may pass at any
await. (7) The renderer may die between any two writes of a reload pass or of an install, and what
it was doing is then known from the rows alone. (8) An abort goes down a tree of agents some of
which are waiting, some starting, some answering. (9) Commit and vault flush are not one
transaction. The list with its lines is `hazards` in `PROJECT.json`.

## 2. The modules

```
 MissionStatusGraph          statuses and edges (ALLOWED_TRANSITIONS)
   |- MissionLifecycle       abstract: one Mission row, atomic steps
   |- MissionService         every method, one action per repository call  --implements--> MissionLifecycle
   |    |- MissionService_proofs
   |    `- MissionLoop       run() composed with MissionService and users  --implements--> MissionService
   |         `- MissionLoop_proofs (with MissionService_proofs)
   `- MissionReload          the reload pass of every company, native hosts, crashes
        `- MissionReload_proofs
 ThreadSlot                  abstract: one exclusive slot per thread
 ThreadLease                 the guard's state and methods as operators
   |- ThreadLease_proofs     lemmas about the methods, for both modules below
   |- ThreadLifecycleGuard   the guard under any use of its handles        --implements--> ThreadSlot
   |    `- ThreadLifecycleGuard_proofs
   `- ThreadOwnership        turns, Missions, mutations and Stop over the guard's operators
        `- ThreadOwnership_proofs (with ThreadLease_proofs)
 PermitLine                  abstract: a limited number of leases and the line for them
 DelegationLimits            the permit pool as operators
   `- ChildSupervisor        delegate calls, children, aborts, timers    --implements--> PermitLine
        `- ChildSupervisor_proofs
 InstallService              imports, confirmations, cancels, database and vault
   `- InstallService_proofs
 MC_MissionService, MC_MissionLoop, MC_MissionReload,
 MC_ChildSupervisor, MC_InstallService      instances for TLC
```

**MissionService.** `mission`, `attempts`, `criteria`, `evaluations` and `events` are the rows of
one Mission; `call[a]` is the call actor *a* is in, with the row it has loaded. `CallTransition` and
`CallRecordEvaluation` begin a call; `Load`, `ListAttempts`, `InsertAttempt`, `CheckCriteria`,
`CompareAndSwap` / `UpdateById`, `FinalizeAttempt`, `WriteEvent`, `InsertEvaluation`,
`SetCriterionStatus`, `SetLastEvaluation` are the repository calls in the order of the code, each
with the synchronous code behind it; `RepoError` is a call that rejects. With `AtomicCAS` the
compare-and-swap is one step (the memory repository); without it the `SELECT` and the `UPDATE` are
two (the desktop one).

**MissionLoop.** `loop.pc` is the await `run()` is at, and each action is named for what the await
resolved to (`AttemptStarted`, `VerifyingEntered`, `DecideRepair`, `CatchConflict`, ...). The
service is the whole of MissionService, not a stub, and the other actors call it at any time. Which
verdicts the evaluator gives, how many tokens an attempt used, whether the runtime failed and
whether it opened a lease are free choices. `loop.reason` is the stop reason `run()` reports.

**MissionReload.** `row[m]` is what the database and the native host hold of one Mission: its
status, its current attempt, the agent row of its root, one child for the subtree, the host of the
root, the events of the attempt, the reload marker, the session link. `pass[c]` is the pass over
company *c*: its phase, the probes of its hosts, and the Mission in hand with the writes still to
come for it. The operators `terminalizeAgentSubtree`, `insertReloadRecoveryMarker`, `reconcileOne`,
`toReadyToResume` and `finalizeMarkedReadyMission` give those writes in the order of the code;
`DoWrite` performs one (and `Refused` is `MissionService`'s check of the edge), `Fails` is a
rejected call, `Crash` ends the renderer, or the whole application with its hosts, between any two.
`gate` is the one promise behind which the UI waits for every company. A Mission is *in flight*
(`InFlight`) when it was left in one of the statuses that discovery looks for; the code parks those
and no other, and the properties speak of them. The others are in the model as well, whatever of
them still runs: one that was failed at its deadline may have a host that is still being aborted.

**ThreadLease, ThreadLifecycleGuard.** `guard` has the two maps of the class and the `{threadId,
generation}` objects; a lease is a pair of an object and the generation it was issued at. `Begun`,
`Transferred`, `Released`, `Locked`, `Unlocked` are the methods. In ThreadLifecycleGuard every lease
and closure ever given out can be used at any time and any number of times; `givenUp` remembers
which were.

**ThreadOwnership.** `run[r].pc` is the await turn *r* is at, `entry[m]` a Mission in the manager,
`mutation[k]` a mutation in progress, `stopping[t]` a Stop that awaits the host, `conversations` and
`snapshot` the controller's maps. A chain of microtasks that nothing can interrupt (a task's end and
the settlement behind it, the resolution of `start` and the turn that awaits it) is one action.

**DelegationLimits, ChildSupervisor.** `pool` is `activeRuns` and `waiters` of
`createDelegationLimits`, whose methods are synchronous and therefore operators. `run[r]` holds the
locals of `runTask` and `runChildSession` of the child the pool admitted as number *r*; `call[k]` is
a delegate call that is open, and `cut` the callers whose turn in progress has been aborted.
`Delegate` is the tool up to its first await (the caller's permit given back, the tasks checked
against depth, budget and total, each granted a permit or queued), `FinishTasks` its `finally`;
`TakeController` is where a child links itself to its caller's signal, a task after the permit was
granted. `Reached` follows the controllers down the tree, stopping where one has already fired.
`AbortRoot`, `StopChild` and `TimerFires` are the host's shutdown, its child stop and
`childTimeoutMs`. The agent session itself is a library outside the repository; the module's header
says what is assumed of it. PermitLine is what the pool promises; `Line`, the runs in
`pool.waiters`, is its line, `activeRuns` its holders, `maxParallel` its limit.

**InstallService.** `txn[i]` is the row of import *i*, `packages` and `skills` say which import
inserted a row, `files` which one wrote a skill's file; `imp`, `confirm` and `cancelling` are the
calls in progress with what each has read, and `pending` is the one install the Market surface
holds. Every import has a service of its own, as in the renderer, so its lock serialises the
confirmations of that import and of nothing else. Each await is an action; a row is written by its
id whatever it says by then (`updateState`), and the database refuses what its unique indexes
refuse. `Crash` forgets every call and keeps the database and the vault. `Overruled(i)` says that a
cancel or a takeover has meddled with the row of import *i*, which the code permits.

## 3. What the runs check

States are distinct states; times are for two workers.

| Run | Bounds | Shows |
| --- | --- | --- |
| `MissionService` | driver 2 calls, user 2, recovery 1; 2 attempt rows; 1 criterion; atomic CAS. 1.4 M, 1 min | `TerminalIsFinal`, `OneActiveRoot`, `TerminalEventTruthful`, and that the service implements MissionLifecycle |
| `MissionServiceDesktop` | desktop backend, any call may reject; driver 5 calls, user 1; 1 attempt row. 1.6 M, 30 s | `VerdictsBacked`, `CompletedGated`: what still holds where updates are lost and calls die |
| `MissionLoop` | a required and an optional criterion, 3 attempts, 1 repair, token budget 2, 2 summaries, wall clock, a user who pauses, resumes or cancels twice. 2.7 M, 75 s | `ResultTruthful`, `CompletedVerified`, `DrivesCurrentAttempt`, `LaunchWithinBudget` |
| `MissionLoopLive` | desktop backend, any repository call may reject, one cancel. 0.3 M, 20 s | `Terminates`, `LeaseReleased` |
| `MissionReload` | 2 Missions, 2 mishaps, the starting rows of `SomeLeft`. 1.2 M, 100 s | `GateMeansSettled`, `StoppedBeforeParked`, `Converges` |
| `ThreadLifecycleGuard` | 2 threads, 2 runs with 2 hand-overs each, 2 closures. 2.5 k | `HolderKeepsSlot`, `BusyHasHolder`, implements ThreadSlot |
| `ThreadOwnership` | 1 thread, 2 turns, 2 Missions, 1 mutation, 3 leases with 1 hand-over, under fairness. 0.6 M, 2 min | `OneRootPerThread`, `NoStrandedSlot`, `WorkingTurnRegistered`, `StopReachesMission`, `NoWorkAfterStop`, `StopFreesThread` |
| `ChildSupervisor` | 3 children, 4 delegate calls, 2 tasks a call, the policies of `TightPolicies`. 77 k, 40 s | `WorkUnderPermit`, `AbortReachesChildren`, `InterruptedNotCompleted`, `CallsReturn`, and that the supervisors implement PermitLine |
| `InstallService` | 2 imports, 2 confirmations; 1 package with 1 skill, from one source or from two files, or 2 packages whose skills share a slug; 1 restart, 3 mishaps. 5.1 M, 3 min | `OwnResultStands`, `FailedOwnsNothing`, `FileHasRow`, `TerminalStays` |
| `ThreadOwnershipSnapshot`, `InstallBlocked`, `InstallSkillFile` | small | the disagreements of section 6 |

Each module's type invariant is checked in one of its runs.

Bounds, and why they are enough. `MaxAttemptRows` bounds the attempts ever inserted: two are needed
for a second attempt to be bound over a first, three for repairs to be compared with earlier ones.
In the loop one criterion is required and one is not, so that verdicts are mixed and a user's call
falls between two recordings; any number of required ones is the theorem `CompletionVerified`.
`MaxCalls` bounds the calls of an actor: a lost update takes two calls at once; the second call of
the driver and of the user lets one of them act on what the other has left; five calls of the driver
are start, verify, record and complete, and one to spare. `MaxUsage` bounds the tokens one attempt
reports; with a budget of 2 the budget is exhausted exactly, early, or never (a runtime that
overshoots is left out: it stops the loop as exhaustion does). `MaxGeneration` bounds hand-overs of
one run; `RunStates`, `Runs`, `Missions` and `Locks` are objects the program allocates without end.
One thread suffices in ThreadOwnership, because every map in it is keyed by thread and no action
reads another thread's key; the guard itself is checked with two.

MissionReload begins in `SomeLeft`: every pair of six rests in one company (in the middle of a run;
verified after a run that left a child; being repaired; between the two writes of an interruption;
parked already; failed at its deadline with its host still to end), and a busy company beside each
of the six in another. Two Missions are what a phase that goes through a list can confuse;
`MaxMishaps` bounds the rejected calls, the late hosts and the crashes together, and two let a
second one hit the pass that repairs what the first has left. In ChildSupervisor the policies are
the three in which waiting bites: one permit, three children and calls that overlap (two waiters can
hold each other up); two permits shared by siblings; one permit and a second attempt after a failed
verification. Depth two is a parent that is itself a child. InstallService has two imports because a
takeover, a unique index and a clearing of the pending install each need another one, and two
confirmations because the lock does. `MaxCrashes` and `MaxMishaps` are its restarts and refused
calls: compensation that fails half way needs a refused flush and a refused delete, and the third is
a marker that is refused too.

No symmetry is used: the liveness properties and the refinements would not be sound under it, and
the state spaces do not need it.

Deadlock is checked in the MissionLoop runs (a finished `run()` is the explicit step `RunIsOver`)
and in the guard's. It is off in `MissionService` (every actor runs out of calls), in the
ThreadOwnership runs (turns, Missions and leases run out), in `MissionReload` (once the gate is open
and the hosts are gone nothing is left to do), in `ChildSupervisor` (the root has made its calls and
every child has ended) and in the install runs (imports and confirmations run out), where stopping
says nothing. That nobody waits for ever is there said by `Converges`, `StopFreesThread` and
`CallsReturn`.

Fairness. MissionLoop: `LoopFairness` is weak fairness of the loop's own steps and of its own
repository calls - a pending promise is settled, and the delegated runtime returns. The last is an
assumption about the agent host: the code itself ends a run only by its deadline or by an abort. The
user and the clock are not fair. A rejection settles a promise as well as a result does; nothing is
assumed to succeed. ThreadOwnership: `Fairness` is weak fairness per turn, per Mission launch and
per mutation, with one exception, `Unbounded`: an agent that runs, or a reattached run the host
still works on, may go on for ever unless it has been stopped, since Stop aborts the host. A looping
Mission is under no fairness, nor is a user, nor the host's answer to an abort. ChildSupervisor:
`SupervisorFairness` is weak fairness of every child's steps and of the end of every delegate call -
sessions answer and close. Stops and new calls are never promised; a timer is, and only in the
policy where calls of one turn overlap, because there it is the code's only way out of two waiters
that hold each other up. MissionReload: `ReloadFairness` is weak fairness per company of the pass,
of its retry (a company that failed is activated again) and of the gate, and of the end of a host
that has been aborted. Nothing forces a rejected call or a crash, and both are bounded by
`MaxMishaps`: `Converges` says that the UI opens once mishaps cease.

## 4. What is proved

Eight modules hold proofs, for every value of the constants: any sets of actors, criteria, threads,
runs, Missions, companies and locks, any budget, any limits, any archives, any rows left behind, any
number of attempts, calls, hand-overs, children, imports, rejected calls and crashes. The constants'
own assumptions (the `ASSUME` of each module) are that each has its type, that `None` is not an
object, that a Mission has a required criterion, and, for MissionReload, that in the rows left
behind (`LeftBehind`) a host runs only under a root that is recorded as running, a child is the
child of some root, and no reload marker is there yet. The status of such a Mission is any: nothing
is assumed of what still runs of one that is no longer in flight.

| Theorem | States | Assumes |
| --- | --- | --- |
| **MissionService_proofs** | | |
| `ServiceTypeAlways` | `[]ServiceTypeOK` | the constants' assumptions only: either backend, with faults |
| `TerminalFinal` | `TerminalIsFinal` | `AtomicCAS` |
| `RootUnique` | `OneActiveRoot` | `AtomicCAS` |
| `EventsTruthful` | `[]TerminalEventTruthful` | `AtomicCAS` |
| `VerdictsAlwaysBacked` | `[]VerdictsBacked` | - (either backend, with faults) |
| `CompletionGated` | `[]CompletedGated` | `OneDriver`: one actor alone records and completes |
| `ServiceImplementsLifecycle` | `ImplementsLifecycle` | `AtomicCAS` |
| **MissionLoop_proofs** | | |
| `LoopServes` | `LoopSpec => ServiceSpec` | - (any backend, any users) |
| `LoopImplementsLifecycle` | `LoopSpec => ImplementsLifecycle` | `AtomicCAS` |
| `LoopTypeAlways` | `[]LoopTypeOK` | - |
| `LeaseAlwaysReleased` | `[]LeaseReleased` | - |
| `CompletionVerified` | `[]CompletedVerified` | `LoopAlone`: no user starts attempts, records or completes |
| `LaunchesWithinBudget` | `LaunchWithinBudget` | `LoopAlone` |
| `AlwaysDrivesCurrent` | `[]DrivesCurrentAttempt` | `AtomicCAS`, `LoopDecides`: no user does any of the loop's calls |
| `ResultAlwaysTruthful` | `[]ResultTruthful` | `AtomicCAS`, `LoopDecides` |
| **ThreadLifecycleGuard_proofs** | | |
| `GuardTypeAlways` | `[]GuardTypeOK` | - |
| `HolderAlwaysKeepsSlot` | `[]HolderKeepsSlot` | - |
| `BusyAlwaysHasHolder` | `[]BusyHasHolder` | - |
| `GuardImplementsSlot` | `ImplementsSlot` | - |
| **ThreadOwnership_proofs** | | |
| `LanesHoldTogether` | `[]LanesInv`, the inductive invariant | - |
| `OwnershipTypes` | `[]OwnershipTypeOK` | - |
| `OneRoot` | `[]OneRootPerThread` | - |
| `NoSlotStranded` | `[]NoStrandedSlot` | - |
| `WorkersRegistered` | `[]WorkingTurnRegistered` | - |
| `StopsReachMissions` | `[]StopReachesMission` | - |
| `StoppedDoNoWork` | `NoWorkAfterStop` | - |
| **MissionReload_proofs** | | |
| `PassesEstablish` | `[]ReloadInv`, the inductive invariant | - |
| `ReloadTypes` | `[]ReloadTypeOK` | - |
| `GateOpensOnSettled` | `[]GateMeansSettled` | - |
| `ParksAfterStop` | `StoppedBeforeParked` | - |
| **InstallService_proofs** | | |
| `InstallTypeAlways` | `[]InstallTypeOK` | - |
| `TerminalStaysAlways` | `TerminalStays` | - |
| `OwnResultAlwaysStands` | `[]OwnResultStands` | - |
| `FailedAlwaysOwnsNothing` | `[]FailedOwnsNothing` | - |
| `FileAlwaysHasRow` | `[]FileHasRow` | - |
| **ChildSupervisor_proofs** | | |
| `SupervisorTypes` | `[]SupervisorTypeOK` | - |
| `WorksUnderPermit` | `[]WorkUnderPermit` | - |
| `SupervisorImplementsPermitLine` | `ImplementsPermitLine` | - |
| `AbortReachesChildrenAlways` | `[]AbortReachesChildren` | - |
| `InterruptedNotCompletedAlways` | `[]InterruptedNotCompleted` | - |

ThreadLease_proofs, the eighth, holds only lemmas.

`AtomicCAS` is not a convenience: over the desktop backend `TerminalIsFinal` is false (section 6).
Theorems that assume it say what the service and the loop guarantee over a backend whose
`updateStatus` is what its interface promises; the others hold over either. `LoopAlone` and
`LoopDecides` are what `MissionRunManager` sees to: one loop drives a Mission, and the users of the
service pause, resume and cancel.

*The service's argument.* Types alone are not inductive, because what a call does next depends on
what it has loaded. `TypeInv` adds `CallsCoherent`: a call that is about to write has validated an
edge of the graph from the status it loaded, and a call that starts an attempt has an attempt of its
own. From that, `MissionStep` lists everything a step can do to the row: leave it, move it along an
edge from the status it has, or bind an attempt while no root is active. `TerminalFinal`,
`RootUnique` and the refinement follow from it alone. `EventsTruthful` needs the calls that have
written the row and not yet the log, hence `ServiceInv`, which adds `OutcomePending`: such a call,
if its target is terminal, is towards the status the row is in (and stays in, by `TerminalStays`).

`VerdictsAlwaysBacked` needs `EvidencePending`: a call at its second or third write has its
evaluation in the table, which no step shrinks. `CompletionGated` rests on the driver being one
actor (`DriverAlone`): while it completes, nobody changes a criterion (`CompletesOnPass`), and while
it records, the row is not completed (`RecordsWhileOpen`), although neither the criteria nor the
status are read again. With two recorders it is false; `MissionRunManager` keeps one loop per
Mission. `StepTo` and `RepoStepTo` list how a step can move a call.

*The loop's argument.* One lemma per action (`...Does`) says what the action does to the loop's
locals and which call it makes; `RepoStepWrites` says what a call keeps, and `LoopNextIs` splits a
step into the loop's and everybody else's. `LoopInv` adds three things to the types: a loop that may
still launch has an attempt and tokens left (`LocalsAgree`), the leases that are open are this
iteration's or were refused (`LeasesAgree`), and the call in progress is the one this await waits
for (`CallAgrees`). That is enough for the types, the leases, and for `LoopServes`, which carries
over every theorem about the service. On top of it:

* `VerifiedInv`: the row is bound to the attempt the loop works on (`Bound`), a recorded criterion
  shows the outcome the loop holds for it but for the one in progress (`RecordsAgree`), and a
  completion is asked for on verified criteria only (`CompletesVerified`).
* `DrivenInv` adds `RunsOn`: while the row has an active status, the attempt it is bound to is open,
  or the call that will open it is under way.
* `ResultInv` says, per result, which call was made for it (`StopsAs`), what that call leaves
  (`StopStands`), that it stands after `run()` is over (`ResultStands`), and that nobody settles the
  row as long as the loop has not (`StaysOpen`).
* `BudgetInv` counts rows, not counters: an attempt is inserted before it is counted (`Uncounted`)
  and a failure recorded before its repair is (`Owed`), so what is proved is that rows and counters
  differ by no more than what is under way (`RowsCounted`, `FailsCounted`); at a launch nothing is.
  `AttemptsThere` keeps an overwriting write from making a row out of nothing.

*The guard's argument.* `GuardInv` relates five things the code keeps in different places: a slot
names a run of its own thread (`RunsAgree`), a run that is current is in the map (`ActiveInMap`), a
lease is given up or its generation is the current one (`LeasesAgree`), nothing is given up that was
never issued (`OnlyGivenUsed`), and a mutation's lock agrees with the one closure that can open it
(`LocksAgree`). `BeginRunKeeps`, `AcquireMutationKeeps`, `ReleaseMutationKeeps`, `ReleaseKeeps` and
`TransferKeeps` are its steps; `StaleOrHeld` is the heart: a handle that is used is either the
current one or does nothing. The refinement reuses the invariant: each method maps to one step of
ThreadSlot or to a stutter.

*The lanes' argument.* That two roots never share a thread is half the guard's doing and half the
lanes'. The guard's half is `SlotsAgree(g, H)` of ThreadLease_proofs, for any set H of lease
holders: its two maps describe the same active runs, each active run is held by its newest lease,
every holder's lease is good, and no thread has two holders. One lemma per method says what H may
become. The lanes' half, `LanesInv`, says that H is what the turns and Missions carry: what a turn
holds at each of its awaits (`TurnsOK`), that an open mutation has its lock (`LocksAgree`), that
`conversations` names exactly the turns that may work (`ConversationsAgree`), that a turn which
launches a Mission and the Mission it launched name each other, until the one is done and the other
loops, and that a stop of the one has reached the other (`MissionsAgree`). Every path that gives a
thread up then gives up the lease it holds, and no other. The safety properties are consequences;
`StoppedDoNoWork` looks at each action that starts an agent or a Mission.

*The reload's argument.* A pass knows only its phase, a list and the Mission in hand, so `PassInv`
says what each phase has established for a Mission of its company once it is off the list: that it
stopped, if it was in flight (`StoppedOK`), that it is marked (`MarkedOK`), that it is parked
(`ParkedOK`), and that nothing of its trail is missing (`RepairedOK`). For the one in hand, the
writes that are due say what is missing (`InHand`); `EndsReady` says that a Mission moved through a
passing status has the write of its rest still to come. `RowsInv` is what a crash leaves: the
relations between the status, the marker and the status the Mission was left in, which hold whatever
phase a pass died in. Operators that give lists of writes have lemmas on the elements of their
sequences, so that no proof needs induction. The gate opens when every pass is at `converged`, where
these facts are the property.

*The install's argument.* A row is written without looking at it, so that no end is overwritten
rests on who can be at work on it. `InstallInv` says that the row is its import's until it has been
reviewed (`ImportsAgree`), that only a reviewed import is pending or confirmed (`OnlyReviewed`),
that one confirmation of an import is past the lock (`OneWorks`), and that what this one has read
still holds unless the row was overruled (`ConfirmsAgree`). The steps are summarised once, per call,
as effects on the row and on the call (`ImportEffect`, `ConfirmEffect`, `StartEffect`,
`CancelEffect`). What an install leaves behind is `PackagesAgree`: the call that inserted a
package's row is the only one to take anything of it away, and takes the package last, so that a
trace of an import in the database or the vault has the package's row, a marker, or the call that is
about to write one, beside it (`TracesAgree`); a call that has materialized holds its rows and the
files it has written (`Holdings`), has left nothing when it reports failure (`Leavings`), and shares
its package with no other (`OwnersDiffer`). The exception in `OwnResultStands`, `Contested`, is the
race of section 6: a file is removed by path, not by owner.

*The supervisor's argument.* An abort has to find every child by walking down from the session it
hit. `SupervisorInv` therefore describes the tree: a child that lives is of an open call of a caller
in turn, and carries the path from the root to that caller (`Lineage`); a run whose turn was aborted
knows it until its outcome is known (`CutAgrees`); who works and is not aborted holds a permit or
has lent it to a call (`PermitsAgree`). It is inductive together with `AbortReachesChildren` itself.
For the permits, one lemma per method of the pool (`DrainGives`, `AcquireGives`, `ReleaseGives`,
`AbortLeaves`) says whom it admits and whom it leaves waiting, in any `GoodPool`: permits within the
limit, nobody waiting while one is free, no one waiting twice. `QueueInv` says what the permits are
for: holders are at work (`HoldersLive`), a waiter is a child that has not started or a parent whose
call resumes (`WaitersAgree`), a parent has lent its permit to one call at most and holds none
meanwhile (`LentAgree`), and verification bounds the prompts (`AttemptsAgree`). `DelegationLimits`
writes the filter of an abort without the recursion of `SelectSeq`, which no prover could unfold.

That the supervisors implement PermitLine says more than that no permit is lost: it fixes the order.
`Hands` is the effect of a method on the line, place by place: the first of a queue are served
beside those who keep their permits, the others stay in their order (`DrainHands`, `ReleaseHands`,
`AcquireHands`, `AcquireInOrderHands`). A delegate call releases a permit and then asks for several,
each drain between two requests handing out what it can; `HandsInTurn` says that to serve a queue
and then the newcomers is to serve both in one row, so the whole call is one `Pass`. The end of a
child (a lease comes back) and of a call (its parent asks again) are the simpler ones. An abort is a
`Cancel` (`Thinned`). That newcomers are not in the pool already is not the pool's doing: it follows
from the tree and from what permits are for (`Lineage`, `WaitersAgree`, `LentAgree`).

*Only model-checked.* Liveness: `Terminates`, `StopFreesThread`, `Converges` and `CallsReturn`, each
under the fairness of section 3. Everything else a passing run checks is proved; the runs check it
too, on instances where a counterexample can be read.

## 5. What is abstracted

* One Mission and one run of its loop; one summary per round of evaluation; the immutable criterion
  that `recordEvaluation` reads again is not read twice. `createMission` is the initial state
  (`draft`, or `ready`, since every production creator also calls `markReady`).
* Prompts, failure packets beyond the attempt they name, budget nudges, evidence, titles, messages.
* In MissionReload: the reads of a phase are lumped with its entry, since the renderer is the only
  writer; one child stands for a root's subtree; a link is parked whether it becomes interrupted or
  incompatible; rows that break ownership or scope, which the pass refuses, do not occur; the window
  of 32 events holds an attempt's whole trail.
* In ThreadOwnership: queued messages (`enqueue`), approvals, stops of single children, thread
  status rows; each turn has an id of its own, though hydration can make a second object with the id
  of a run that an older object still carries. A Mission's loop is one step from `looping` to its
  end.
* In ChildSupervisor: personas, models, prompts; usage beyond "the token budget is exhausted";
  workspace leases beyond "the child may fail to start"; the integration of a child's writes; tasks
  that a limit refuses leave only their event.
* In InstallService: a package is its row and its skills; the states `integrity_checked` and
  `compatibility_checked`, which nothing tells apart from `manifest_loaded`, are passed with it; the
  deletes of one kind in a rollback settle together; registry receipts, events, upgrades.
* No caller outside tests invokes the service's cancel, pause or await-user methods at this commit;
  a comment in `mission-run-manager.ts:225-227` describes the cancel the UI is to make. The models
  give them to the user because they are the service's interface, and the loop has code for each.

*What the properties leave open,* because the code does not promise it or does not have it. Reload:
a Mission cancelled, or failed at its deadline, while its native root still ran is not discovered,
since discovery goes by Mission status (section 6, 9); an interruption whose event was lost with the
renderer is not completed, and an earlier `mission.resumed` of the same attempt hides a missing one.
Supervisor: a stop of a child that still waits for its permit finds no controller and is lost; an
abort while a session is built or a verification is out is noticed only at the next prompt, if the
session says so; the token budget is not looked at again when a waiter is admitted. Install: a
cancel that overlaps the confirmation overwrites its end, in either order; a restart between commit
and flush leaves rows without files, the next import marks that transaction failed and its
confirmation is refused as already installed; two versions that share a slug cannot both be
installed; a confirmation that resolves clears whichever install is pending by then. The entries
under `hazards` give the lines.

*Not modelled.* The Conversation lane of the reload (`reconcile-interrupted-runs.ts`), recovery
cards, pending interactions. Workspace leases and checkpoints, agent runtime and persistence queue,
collaboration turns: outside the core protocol, seen from it as nondeterministic answers. Native
hosts: processes and pipes. Office presentation, documents, registry and platform API: projections,
conversions and request/response services without a protocol of their own. They are most of the
repository's lines: what is modelled is its concurrent core, a few thousand lines.

## 6. Where code and documentation disagree

Three are shown by a run:

1. `ThreadOwnershipSnapshot` - the tail of `failRun` writes `failed` over the snapshot of the turn
   that took the thread meanwhile.
2. `InstallBlocked` - an import whose row awaits the user when the renderer restarts is refused for
   ever: the row is active, and nothing that could cancel it survives the restart, although
   `install-service.ts:301-304` says that it can be cancelled and re-initiated.
3. `InstallSkillFile` - a rollback deletes the skill rows, which frees their slugs, and removes the
   files awaits later; in between another package can commit a skill of the same slug and write its
   file at the same path, which is then removed: that install is reported with a row whose file is
   gone, which `materializer.ts:845-847` says the rollback is there to avoid. `OwnResultStands`
   excepts it (`Contested`).

The quotations and lines are under `findings` in `PROJECT.json`. Six more met while modelling; each
is refuted by adding the property named to the configuration named:

4. `TerminalIsFinal` in `MissionServiceDesktop.cfg` - the desktop `updateStatus`
   (`renderer/lib/tauri-repos/mission.ts:93-108`) can overwrite a cancel that commits between its
   two statements; the service's comments rely on it not to.
5. `NoLingeringAttempt` in `MissionService.cfg` or `MissionLoop.cfg` - `startAttempt` inserts the
   attempt before it is bound; when the bind loses, the row stays `running` for ever, which the
   comment on `finalizeAttempt` rules out.
6. `BoundAttemptClosed` in `MissionService.cfg` - a call that ends the work writes a status it
   expects and closes the attempt it loaded (`mission-service.ts:661-697`). Between its load and its
   write the row may have been handed to the user and started again, with a newer attempt: the
   expected status is there, the older attempt is closed, and the newer one stays `running` under a
   Mission that has ended, against the comment on `finalizeAttempt` again.
7. `CleanCancel` in `MissionLoop.cfg` - a cancel during the recording of evaluations makes `run()`
   throw instead of returning `cancelled`.
8. `LoopStaysLoop` in `ThreadOwnership.cfg` with a third turn (one Mission, loops only) - the retry
   of a retried Loop, stopped during its launch, runs as an ordinary turn.
9. `NoHostBehindGate` in `MissionReload.cfg` - the gate is there so that no scope is exposed while a
   native host still writes files (`renderer/runtime/mission/mission-reload-recovery.ts:61-66`), but
   discovery goes by Mission status (464). At the wall-clock deadline an attempt returns without
   waiting for its abort (`renderer/runtime/mission/mission-run-controller.ts:338-345`, 370-378) and
   the loop fails the Mission (`mission-loop-controller.ts:553-572`); a renderer that reloads before
   the host has ended finds nothing to stop and opens the gate beside it. Whether the recovery of
   the Conversation lane, behind the gate, ends such a host is not modelled.

## 7. Plan

Done: MissionStatusGraph, MissionLifecycle, MissionService, MissionLoop, MissionReload; ThreadLease,
ThreadSlot, ThreadLifecycleGuard, ThreadOwnership; PermitLine, DelegationLimits, ChildSupervisor;
InstallService. Each with its runs, and with proofs of every safety property they check.

Next: an abstract installation with one owner per package, to be checked and proved as a refinement
by InstallService; `CompletionGated` for recorders that take turns, instead of one driver.

Next, to model: the Conversation lane of the reload beside MissionReload; the Mission workspace
leases; two objects of one run id in ThreadOwnership.
