-------------------------- MODULE ThreadOwnership --------------------------
(***************************************************************************)
(* The lanes that share a Conversation thread through one                  *)
(* ThreadLifecycleGuard: the turns of ConversationRunController (submit,   *)
(* retry, fresh session, reload hydration, Stop), the Missions of          *)
(* MissionRunManager (started on their own, or handed a turn's lease by a  *)
(* Loop), and the archive and delete mutations.                            *)
(*                                                                         *)
(* A turn is an async task whose run[r].pc is the await it is at; each     *)
(* action is one await resolved and the synchronous code after it.  What a *)
(* chain of microtasks does (a task's end and settleStoppedRun behind it;  *)
(* the resolution of MissionRunManager.start and the turn that awaits it)  *)
(* is one action.  Model work, messages and projections are left out.      *)
(* guard.mutations stands for the controller's own mutationLocks too:      *)
(* acquireMutationLock, the only caller of acquireMutation, keeps them in  *)
(* step.                                                                   *)
(***************************************************************************)
EXTENDS ThreadLease, FiniteSets

CONSTANTS
    Runs,       \* bound: ActiveRun objects, one per turn started
    Missions,   \* bound: Missions that are prepared or started
    Kinds       \* the kinds of turn a user submits, of "plain" and "loop"

\* A Loop's turn hands its lease over once.
ASSUME LanesAssumption ==
    /\ None \notin Runs \union Missions
    /\ Kinds \subseteq {"plain", "loop"}
    /\ MaxGeneration >= 1

VARIABLES
    guard,           \* conversationThreadLifecycle
    conversations,   \* ConversationRunController.activeRuns: thread -> turn
    run,             \* the turns
    entry,           \* MissionRunManager.activeRuns, and the Missions not in it
    mutation,        \* who holds each mutation closure
    stopping,        \* stopOperations: the turn a Stop is waiting to abort
    snapshot         \* the phase that the thread's snapshot shows

vars == <<guard, conversations, run, entry, mutation, stopping, snapshot>>

NoLease == <<None, 0>>

TurnAwaits == {"preflight", "materialize", "compensateStopped", "compensateFailed",
               "persist", "repersist", "starting", "assemble", "execute", "finish",
               "failing", "tail", "recover", "hydrate", "attached"}
MissionAwaits == {"load", "runtime", "status", "looping"}
RetryKinds == {"none", "preflight", "assemble", "handoff"}
Phases == {"idle", "preparing", "running", "completed", "failed", "interrupted"}

OwnershipTypeOK ==
    /\ guard \in Guards
    /\ conversations \in [Threads -> Runs \union {None}]
    /\ run \in [Runs -> [pc : TurnAwaits \union {"absent", "done"},
                         thread : Threads \union {None},
                         loop : BOOLEAN,        \* input.loopExecution is there
                         fromLoop : BOOLEAN,    \* the user sent a Loop
                         stopped : BOOLEAN,
                         reattached : BOOLEAN,
                         connected : BOOLEAN,   \* hostConnected
                         settlement : BOOLEAN,  \* resolveReattachSettlement is set
                         lease : Leases \union {NoLease},
                         mission : Missions \union {None},
                         persisted : BOOLEAN,   \* messagePersistedNotified
                         pending : BOOLEAN,     \* pendingLoopHandoff is set
                         executed : BOOLEAN,    \* the runtime has a row for it
                         retry : RetryKinds]]   \* where its retry record restarts
    /\ entry \in [Missions -> [pc : MissionAwaits \union {"none", "ready", "over"},
                               thread : Threads \union {None},
                               lease : Leases \union {NoLease},
                               aborted : BOOLEAN,  \* signal and missionAbortRequested
                               caller : Runs \union {None}]]
    /\ mutation \in [Locks -> [pc : {"absent", "archive", "fresh", "done"},
                               source : Runs \union {None}]]
    /\ stopping \in [Threads -> Runs \union {None}]
    /\ snapshot \in [Threads -> Phases]

Absent ==
    [pc |-> "absent", thread |-> None, loop |-> FALSE, fromLoop |-> FALSE,
     stopped |-> FALSE, reattached |-> FALSE, connected |-> FALSE,
     settlement |-> FALSE, lease |-> NoLease, mission |-> None,
     persisted |-> FALSE, pending |-> FALSE, executed |-> FALSE, retry |-> "none"]

NoMission == [pc |-> "none", thread |-> None, lease |-> NoLease, aborted |-> FALSE,
              caller |-> None]

Init ==
    /\ guard = NewGuard
    /\ conversations = [t \in Threads |-> None]
    /\ run = [r \in Runs |-> Absent]
    /\ entry = [m \in Missions |-> NoMission]
    /\ mutation = [k \in Locks |-> [pc |-> "absent", source |-> None]]
    /\ stopping = [t \in Threads |-> None]
    /\ snapshot = [t \in Threads |-> "idle"]

-----------------------------------------------------------------------------
\* New objects, in the order of their creation.
NewRuns     == {r \in Runs : run[r].pc = "absent"}
NewRun      == CHOOSE r \in NewRuns : TRUE
NewStates   == {s \in RunStates : guard.states[s].threadId = None}
NewState    == CHOOSE s \in NewStates : TRUE
NewMissions == {m \in Missions : entry[m].pc = "none"}
NewMission  == CHOOSE m \in NewMissions : TRUE

Active(r) == conversations[run[r].thread] = r

Show(t, phase) == snapshot' = [snapshot EXCEPT ![t] = phase]

Now(r, rec) == run' = [run EXCEPT ![r] = rec]

\* Mutant of Saved: the record restarts at the await where the turn ended.
SavedInPlace(rec) == [rec EXCEPT !.retry = rec.pc]

\* saveRetryRecord: where retry() will restart this turn.
Saved(rec) ==
    [rec EXCEPT !.retry = IF rec.pending THEN "handoff"
                          ELSE IF rec.loop \/ ~rec.persisted THEN "preflight"
                          ELSE "assemble"]

\* cleanupRun and activeRuns.delete.  g is the guard after what the step did.
Retire(r, rec, g) ==
    /\ guard' = IF rec.lease = NoLease THEN g ELSE Released(g, rec.lease)
    /\ conversations' = [conversations EXCEPT ![rec.thread] = None]
    /\ Now(r, [rec EXCEPT !.lease = NoLease])

\* Mutant of TaskEnds: the turn is retired though another one may be active.
TaskEndsRetiring(r, rec, g) == Retire(r, [rec EXCEPT !.pc = "done"], g)

\* Mutant of TaskEnds: nobody settles a stopped turn.
TaskEndsUnsettled(r, rec, g) ==
    /\ guard' = g
    /\ Now(r, [rec EXCEPT !.pc = "done"])
    /\ UNCHANGED conversations

\* The task ends without retiring its turn.  If that is because of a Stop,
\* settleStoppedRun (or executeAttempt's finally) retires it now.
TaskEnds(r, rec, g) ==
    IF Active(r) THEN Retire(r, [rec EXCEPT !.pc = "done"], g)
    ELSE /\ guard' = g
         /\ Now(r, [rec EXCEPT !.pc = "done"])
         /\ UNCHANGED conversations

\* Mutant of Interrupted: run.stopped is not looked at.
Superseded(r) == ~Active(r)

Interrupted(r) == ~Active(r) \/ run[r].stopped

\* failRun: a competitive draft (never a Loop) converges first; then the slot is
\* given up, and only after one more database read the snapshot shows it.
Fail(r, rec, g) ==
    IF ~Active(r) \/ rec.stopped THEN TaskEnds(r, rec, g)
    ELSE \/ Retire(r, Saved([rec EXCEPT !.pc = "tail"]), g)
         \/ /\ ~rec.fromLoop
            /\ guard' = g
            /\ Now(r, [rec EXCEPT !.pc = "failing"])
            /\ UNCHANGED conversations

At(r, pc) == run[r].pc = pc
Goes(r, pc) == Now(r, [run[r] EXCEPT !.pc = pc]) /\ UNCHANGED <<guard, conversations>>

TurnOnly == UNCHANGED <<entry, mutation, stopping, snapshot>>

-----------------------------------------------------------------------------
(* Turns: how one begins. *)

\* beginRun of a turn on g, whose task then waits at pc.
BeginTurn(t, rec, g) ==
    /\ NewRuns # {} /\ NewStates # {}
    /\ Free(g, t)
    /\ guard' = Begun(g, t, NewState)
    /\ conversations' = [conversations EXCEPT ![t] = NewRun]
    /\ Now(NewRun, [rec EXCEPT !.thread = t, !.lease = <<NewState, 0>>])
    /\ Show(t, "preparing")

Submit(t) ==
    /\ conversations[t] = None
    /\ \E kind \in Kinds :
          BeginTurn(t, [Absent EXCEPT !.pc = "preflight", !.loop = (kind = "loop"),
                                      !.fromLoop = (kind = "loop")], guard)
    /\ UNCHANGED <<entry, mutation, stopping>>

\* A retry of a turn whose record keeps a prepared Mission has lost the factory.
RetryOf(old) ==
    [Absent EXCEPT !.pc = run[old].retry, !.fromLoop = run[old].fromLoop,
                   !.loop = run[old].loop /\ run[old].retry # "handoff",
                   !.mission = IF run[old].retry = "handoff" THEN run[old].mission ELSE None,
                   !.pending = (run[old].retry = "handoff"),
                   !.persisted = run[old].persisted]

\* The launch of a prepared Mission by the turn r: transfer, then the
\* synchronous part of MissionRunManager.start.
Launch(r, rec, g) ==
    /\ guard' = Transferred(g, rec.lease)
    /\ Now(r, [rec EXCEPT !.pc = "starting", !.lease = NoLease, !.pending = TRUE])
    /\ entry' = [entry EXCEPT ![rec.mission] =
                    [pc |-> "load", thread |-> rec.thread, lease |-> NextLease(rec.lease),
                     aborted |-> FALSE, caller |-> r]]

Retry(t) ==
    /\ conversations[t] = None
    /\ \E old \in Runs :
          /\ run[old].pc = "done" /\ run[old].thread = t /\ run[old].retry # "none"
          /\ IF run[old].retry = "handoff" /\ run[old].persisted
             THEN /\ NewRuns # {} /\ NewStates # {} /\ Free(guard, t)
                  /\ Launch(NewRun, [RetryOf(old) EXCEPT !.thread = t, !.lease = <<NewState, 0>>],
                            Begun(guard, t, NewState))
                  /\ conversations' = [conversations EXCEPT ![t] = NewRun]
                  /\ Show(t, "preparing")
             ELSE /\ BeginTurn(t, IF run[old].retry = "handoff"
                                  THEN [RetryOf(old) EXCEPT !.pc = "repersist"]
                                  ELSE RetryOf(old), guard)
                  /\ UNCHANGED entry
    /\ UNCHANGED <<mutation, stopping>>

\* hydrateLiveRun, of a row left running or interrupted by a former renderer.
\* Only the lifecycle guard is asked: activeRuns was read some awaits ago.
Hydrate(t) ==
    /\ NewRuns # {} /\ NewStates # {}
    /\ Free(guard, t)
    /\ guard' = Begun(guard, t, NewState)
    /\ Now(NewRun, [Absent EXCEPT !.pc = "hydrate", !.thread = t,
                                  !.lease = <<NewState, 0>>, !.persisted = TRUE,
                                  !.executed = TRUE])
    /\ UNCHANGED <<conversations, entry, mutation, stopping, snapshot>>

\* Bootstrap leaves the turn to the host's events; Resume executes it.
Hydrated(r) ==
    /\ At(r, "hydrate")
    /\ conversations' = [conversations EXCEPT ![run[r].thread] = r]
    /\ \/ /\ Now(r, [run[r] EXCEPT !.pc = "attached", !.reattached = TRUE,
                                   !.settlement = TRUE])
          /\ Show(run[r].thread, "running")
       \/ /\ Now(r, [run[r] EXCEPT !.pc = "execute"])
          /\ Show(run[r].thread, "preparing")
    /\ UNCHANGED <<guard, entry, mutation, stopping>>

\* Mutant of HydrationFails: the catch forgets the lease.
HydrationFailsHolding(r) ==
    /\ At(r, "hydrate")
    /\ Now(r, [run[r] EXCEPT !.pc = "done"])
    /\ UNCHANGED <<guard, conversations, entry, mutation, stopping, snapshot>>

HydrationFails(r) ==
    /\ At(r, "hydrate")
    /\ guard' = Released(guard, run[r].lease)
    /\ Now(r, [run[r] EXCEPT !.pc = "done", !.lease = NoLease])
    /\ UNCHANGED <<conversations, entry, mutation, stopping, snapshot>>

-----------------------------------------------------------------------------
(* Turns: runAttempt. *)

\* materializeTurn.  A Stop is not looked at here.
PreflightDone(r) ==
    /\ At(r, "preflight")
    /\ \/ Fail(r, run[r], guard)
       \/ Active(r) /\ Goes(r, IF run[r].loop THEN "materialize" ELSE "persist")
    /\ TurnOnly

\* loopExecution.materialize: a ready Mission, thrown away again after a Stop.
Materialized(r) ==
    /\ At(r, "materialize")
    /\ \/ Fail(r, run[r], guard) /\ UNCHANGED entry
       \/ /\ NewMissions # {}
          /\ entry' = [entry EXCEPT ![NewMission] = [NoMission EXCEPT !.pc = "ready"]]
          /\ Now(r, [run[r] EXCEPT !.mission = NewMission,
                                   !.pc = IF Interrupted(r) THEN "compensateStopped"
                                                            ELSE "persist"])
          /\ UNCHANGED <<guard, conversations>>
    /\ UNCHANGED <<mutation, stopping, snapshot>>

\* compensate deletes the Mission, or fails and leaves it as the retry target.
Compensated(r) ==
    /\ run[r].pc \in {"compensateStopped", "compensateFailed"}
    /\ \E deleted \in BOOLEAN :
          LET rec == IF deleted THEN [run[r] EXCEPT !.mission = None]
                                ELSE [run[r] EXCEPT !.pending = TRUE]
          IN  /\ entry' = IF deleted THEN [entry EXCEPT ![run[r].mission].pc = "over"] ELSE entry
              /\ IF At(r, "compensateFailed") THEN Fail(r, rec, guard)
                 ELSE TaskEnds(r, IF deleted THEN rec ELSE Saved(rec), guard)
    /\ UNCHANGED <<mutation, stopping, snapshot>>

\* persistRunMessage: from here the user's message is durable.
Persisted(r) ==
    /\ At(r, "persist")
    /\ LET rec == [run[r] EXCEPT !.persisted = TRUE, !.pending = run[r].loop]
       IN  \/ /\ ~run[r].loop /\ Fail(r, run[r], guard)
              /\ UNCHANGED <<entry, snapshot>>
           \/ /\ run[r].loop /\ Goes(r, "compensateFailed")
              /\ UNCHANGED <<entry, snapshot>>
           \/ /\ Interrupted(r) /\ TaskEnds(r, Saved(rec), guard)
              /\ UNCHANGED <<entry, snapshot>>
           \/ /\ ~Interrupted(r) /\ rec.loop
              /\ Launch(r, rec, guard)
              /\ UNCHANGED <<conversations, snapshot>>
           \/ /\ ~Interrupted(r) /\ ~rec.loop
              /\ Now(r, [Saved(rec) EXCEPT !.pc = "assemble"])
              /\ Show(rec.thread, "running")
              /\ UNCHANGED <<guard, conversations, entry>>
    /\ UNCHANGED <<mutation, stopping>>

\* resumeLoopHandoff of a retry whose message was never persisted.
Repersisted(r) ==
    /\ At(r, "repersist")
    /\ LET rec == [run[r] EXCEPT !.persisted = TRUE]
       IN  \/ Fail(r, run[r], guard) /\ UNCHANGED entry
           \/ Interrupted(r) /\ TaskEnds(r, Saved(rec), guard) /\ UNCHANGED entry
           \/ ~Interrupted(r) /\ Launch(r, rec, guard) /\ UNCHANGED conversations
    /\ UNCHANGED <<mutation, stopping, snapshot>>

-----------------------------------------------------------------------------
(* Turns: executeAttempt. *)

\* runtimeFactory.
Assembled(r) ==
    /\ At(r, "assemble")
    /\ \/ Fail(r, run[r], guard)
       \/ Interrupted(r) /\ TaskEnds(r, run[r], guard)
       \/ /\ ~Interrupted(r)
          /\ Now(r, [run[r] EXCEPT !.pc = "execute", !.executed = TRUE])
          /\ UNCHANGED <<guard, conversations>>
    /\ TurnOnly

Complete(r) ==
    /\ Retire(r, [run[r] EXCEPT !.pc = "done"], guard)
    /\ Show(run[r].thread, "completed")

\* runtime.execute: answered, answered with the reply still to be persisted,
\* failed, or ended with a terminal checkpoint that SQLite refused.
Executed(r) ==
    /\ At(r, "execute")
    /\ \/ Interrupted(r) /\ TaskEnds(r, run[r], guard) /\ UNCHANGED snapshot
       \/ ~Interrupted(r) /\ Complete(r)
       \/ ~Interrupted(r) /\ Goes(r, "finish") /\ UNCHANGED snapshot
       \/ ~Interrupted(r) /\ Fail(r, run[r], guard) /\ UNCHANGED snapshot
       \/ /\ ~Interrupted(r)
          /\ Now(r, [run[r] EXCEPT !.pc = "recover", !.reattached = TRUE, !.connected = FALSE])
          /\ Show(run[r].thread, "interrupted")
          /\ UNCHANGED <<guard, conversations>>
    /\ UNCHANGED <<entry, mutation, stopping>>

Finished(r) ==
    /\ At(r, "finish")
    /\ \/ Interrupted(r) /\ TaskEnds(r, run[r], guard) /\ UNCHANGED snapshot
       \/ ~Interrupted(r) /\ Complete(r)
       \/ Fail(r, run[r], guard) /\ UNCHANGED snapshot
    /\ UNCHANGED <<entry, mutation, stopping>>

\* failRun after the competitive draft: no second look at who is active.
DraftConverged(r) ==
    /\ At(r, "failing")
    /\ Retire(r, Saved([run[r] EXCEPT !.pc = "tail"]), guard)
    /\ TurnOnly

FailureShown(r) ==
    /\ At(r, "tail")
    /\ Goes(r, "done")
    /\ Show(run[r].thread, "failed")
    /\ UNCHANGED <<entry, mutation, stopping>>

\* The recovery poll after a refused checkpoint notices that the turn is over.
RecoveryEnds(r) ==
    /\ At(r, "recover") /\ Interrupted(r)
    /\ TaskEnds(r, run[r], guard)
    /\ TurnOnly

\* bootstrapLiveRuns again: the turn becomes a candidate with a settlement.
Bootstrap(r) ==
    /\ At(r, "recover") /\ Active(r) /\ ~run[r].connected /\ ~run[r].settlement
    /\ Now(r, [run[r] EXCEPT !.settlement = TRUE])
    /\ UNCHANGED <<guard, conversations>>
    /\ TurnOnly

Candidate(r) == /\ run[r].pc \in {"attached", "recover"} /\ Active(r)
                /\ run[r].settlement /\ ~run[r].connected

HostConnects(r) ==
    /\ Candidate(r)
    /\ Now(r, [run[r] EXCEPT !.connected = TRUE])
    /\ UNCHANGED <<guard, conversations>>
    /\ TurnOnly

\* A turn with a task of its own leaves the task to find out.
WithoutTask(r) == [run[r] EXCEPT !.pc = IF @ = "attached" THEN "done" ELSE @,
                                 !.settlement = FALSE]

\* The host does not know the run: bootstrap drops the turn.
HostMissing(r) ==
    /\ Candidate(r)
    /\ Retire(r, WithoutTask(r), guard)
    /\ TurnOnly

\* finalizeReattachedRun: the native terminal reaches a reattached turn.
TerminalArrives(r) ==
    /\ run[r].pc \in {"attached", "recover"} /\ Active(r) /\ run[r].reattached
    /\ \/ /\ run[r].stopped /\ run[r].settlement
          /\ Retire(r, WithoutTask(r), guard)
          /\ UNCHANGED snapshot
       \/ /\ ~run[r].stopped
          /\ \E phase \in {"completed", "failed", "interrupted"} :
                /\ Retire(r, IF phase = "completed" THEN WithoutTask(r)
                                                    ELSE Saved(WithoutTask(r)), guard)
                /\ Show(run[r].thread, phase)
    /\ UNCHANGED <<entry, mutation, stopping>>

-----------------------------------------------------------------------------
(* Stop. *)

StopRequested(t) ==
    /\ conversations[t] # None /\ stopping[t] = None
    /\ ~run[conversations[t]].stopped
    /\ stopping' = [stopping EXCEPT ![t] = conversations[t]]
    /\ UNCHANGED <<guard, conversations, run, entry, mutation, snapshot>>

\* Mutant of StopConfirmed: the abort signal does not reach the Mission.
StopConfirmedToTurn(t) ==
    /\ stopping[t] # None
    /\ LET r == stopping[t]
       IN  IF ~Active(r) THEN UNCHANGED <<run, snapshot>>
           ELSE /\ Now(r, Saved([run[r] EXCEPT !.stopped = TRUE]))
                /\ Show(t, "interrupted")
    /\ stopping' = [stopping EXCEPT ![t] = None]
    /\ UNCHANGED <<guard, conversations, entry, mutation>>

\* The abort is confirmed.  If the turn is still the active one it is marked,
\* and its abort signal reaches the Mission it is starting.
StopConfirmed(t) ==
    /\ stopping[t] # None
    /\ LET r == stopping[t]
       IN  IF ~Active(r) THEN UNCHANGED <<run, entry, snapshot>>
           ELSE /\ Now(r, Saved([run[r] EXCEPT !.stopped = TRUE]))
                /\ entry' = IF At(r, "starting")
                            THEN [entry EXCEPT ![run[r].mission].aborted = TRUE]
                            ELSE entry
                /\ Show(t, "interrupted")
    /\ stopping' = [stopping EXCEPT ![t] = None]
    /\ UNCHANGED <<guard, conversations, mutation>>

\* A natural terminal won the race, or the abort was refused.
StopRefused(t) ==
    /\ stopping[t] # None
    /\ run[stopping[t]].pc \in {"execute", "finish", "failing", "tail", "recover",
                                "attached", "done"}
    /\ stopping' = [stopping EXCEPT ![t] = None]
    /\ UNCHANGED <<guard, conversations, run, entry, mutation, snapshot>>

-----------------------------------------------------------------------------
(* Missions: MissionRunManager. *)

StartMission(t) ==
    /\ NewMissions # {}
    /\ entry' = [entry EXCEPT ![NewMission] = [NoMission EXCEPT !.pc = "load", !.thread = t]]
    /\ UNCHANGED <<guard, conversations, run, mutation, stopping, snapshot>>

\* start() throws: entry and slot are given up, and the turn that handed the
\* lease over releases it once more, to no effect, and fails.
Rejected(m) ==
    LET r == entry[m].caller
        g == IF entry[m].lease = NoLease THEN guard ELSE Released(guard, entry[m].lease)
    IN  /\ entry' = [entry EXCEPT ![m] = [NoMission EXCEPT
                                             !.pc = IF r = None THEN "over" ELSE "ready"]]
        /\ IF r = None THEN guard' = g /\ UNCHANGED <<conversations, run>>
           ELSE Fail(r, [run[r] EXCEPT !.pending = TRUE], g)
        /\ UNCHANGED <<mutation, stopping, snapshot>>

\* findById, and the slot for a Mission that was not handed one.
LoadMission(m) ==
    /\ entry[m].pc = "load"
    /\ \/ Rejected(m)
       \/ /\ ~entry[m].aborted /\ entry[m].lease # NoLease
          /\ entry' = [entry EXCEPT ![m].pc = "runtime"]
          /\ UNCHANGED guard
          /\ UNCHANGED <<conversations, run, mutation, stopping, snapshot>>
       \/ /\ ~entry[m].aborted /\ entry[m].lease = NoLease
          /\ NewStates # {} /\ Free(guard, entry[m].thread)
          /\ guard' = Begun(guard, entry[m].thread, NewState)
          /\ entry' = [entry EXCEPT ![m].pc = "runtime", ![m].lease = <<NewState, 0>>]
          /\ UNCHANGED <<conversations, run, mutation, stopping, snapshot>>

\* getDesktopAgentRuntime; then the controller exists and latches every abort.
RuntimeReady(m) ==
    /\ entry[m].pc = "runtime"
    /\ \/ Rejected(m)
       \/ /\ ~entry[m].aborted
          /\ entry' = [entry EXCEPT ![m].pc = "status"]
          /\ UNCHANGED <<guard, conversations, run, mutation, stopping, snapshot>>

\* The status is persisted: the loop is under way, and start() resolves.
StatusPersisted(m) ==
    /\ entry[m].pc = "status"
    /\ \/ Rejected(m)
       \/ /\ entry' = [entry EXCEPT ![m].pc = "looping"]
          /\ LET r   == entry[m].caller
                 rec == [run[r] EXCEPT !.pending = FALSE]
             IN  IF r = None THEN UNCHANGED <<guard, conversations, run, snapshot>>
                 ELSE IF Interrupted(r)
                 THEN TaskEnds(r, Saved(rec), guard) /\ UNCHANGED snapshot
                 ELSE /\ Retire(r, [rec EXCEPT !.pc = "done"], guard)
                      /\ Show(rec.thread, "completed")
          /\ UNCHANGED <<mutation, stopping>>

\* runToTerminal's finally.
MissionEnds(m) ==
    /\ entry[m].pc = "looping"
    /\ guard' = Released(guard, entry[m].lease)
    /\ entry' = [entry EXCEPT ![m].pc = "over", ![m].lease = NoLease]
    /\ UNCHANGED <<conversations, run, mutation, stopping, snapshot>>

-----------------------------------------------------------------------------
(* Mutations. *)

Lock(t, k, pc, source) ==
    /\ mutation[k].pc = "absent"
    /\ Free(guard, t) /\ conversations[t] = None
    /\ guard' = Locked(guard, t, k)
    /\ mutation' = [mutation EXCEPT ![k] = [pc |-> pc, source |-> source]]
    /\ UNCHANGED <<conversations, run, entry, stopping, snapshot>>

ArchiveOrDelete(t, k) == Lock(t, k, "archive", None)

\* startFreshSession of a failed turn.
FreshSession(t, k) ==
    \E r \in Runs : /\ run[r].pc = "done" /\ run[r].thread = t
                    /\ run[r].retry # "none" /\ ~run[r].loop
                    /\ Lock(t, k, "fresh", r)

\* The transaction is over, or the fresh-session source is gone.
Unlock(k) ==
    /\ mutation[k].pc \in {"archive", "fresh"}
    /\ guard' = Unlocked(guard, k)
    /\ mutation' = [mutation EXCEPT ![k].pc = "done"]
    /\ UNCHANGED <<conversations, run, entry, stopping, snapshot>>

\* The source is there: the lock becomes a turn in one synchronous step.
FreshTurn(k) ==
    LET t == guard.closures[k].threadId
        source == run[mutation[k].source]
    IN  /\ mutation[k].pc = "fresh" /\ source.executed
        /\ BeginTurn(t, [Absent EXCEPT !.pc = "assemble", !.persisted = source.persisted,
                                       !.fromLoop = source.fromLoop],
                     Unlocked(guard, k))
        /\ mutation' = [mutation EXCEPT ![k].pc = "done"]
        /\ UNCHANGED <<entry, stopping>>

-----------------------------------------------------------------------------
TurnStep(r) ==
    \/ Hydrated(r)
    \/ HydrationFails(r)
    \/ PreflightDone(r)
    \/ Materialized(r)
    \/ Compensated(r)
    \/ Persisted(r)
    \/ Repersisted(r)
    \/ Assembled(r)
    \/ Executed(r)
    \/ Finished(r)
    \/ DraftConverged(r)
    \/ FailureShown(r)
    \/ RecoveryEnds(r)
    \/ TerminalArrives(r)

HostStep(r) == Bootstrap(r) \/ HostConnects(r) \/ HostMissing(r)

LaunchStep(m) == LoadMission(m) \/ RuntimeReady(m) \/ StatusPersisted(m)

MutationStep(k) == Unlock(k) \/ FreshTurn(k)

Request(t) ==
    \/ Submit(t)
    \/ Retry(t)
    \/ Hydrate(t)
    \/ StopRequested(t)
    \/ StopConfirmed(t)
    \/ StopRefused(t)
    \/ StartMission(t)
    \/ \E k \in Locks : ArchiveOrDelete(t, k) \/ FreshSession(t, k)

Next ==
    \/ \E t \in Threads : Request(t)
    \/ \E r \in Runs : TurnStep(r) \/ HostStep(r)
    \/ \E m \in Missions : LaunchStep(m) \/ MissionEnds(m)
    \/ \E k \in Locks : MutationStep(k)

Spec == Init /\ [][Next]_vars

\* Repository calls and the launch of a Mission resolve; a runtime that was
\* aborted ends, and its terminal is delivered.  A model, a Mission and a user
\* may take for ever.
Unbounded(r) == run[r].pc \in {"execute", "attached"} /\ ~run[r].stopped

Fairness ==
    /\ \A r \in Runs : WF_vars(~Unbounded(r) /\ TurnStep(r))
    /\ \A m \in Missions : WF_vars(LaunchStep(m))
    /\ \A k \in Locks : WF_vars(MutationStep(k))

FairSpec == Spec /\ Fairness

-----------------------------------------------------------------------------
(* Properties. *)

\* A turn holds its thread while it is registered and has not handed it on.
Holds(r) ==
    \/ run[r].pc = "hydrate"
    \/ run[r].pc \notin {"absent", "starting", "tail", "done"} /\ Active(r)

HoldsFor(t) ==
    {<<r, run[r].lease>> : r \in {x \in Runs : run[x].thread = t /\ Holds(x)}}
    \union {<<m, entry[m].lease>> : m \in {x \in Missions :
                entry[x].thread = t /\ entry[x].pc \in MissionAwaits
                /\ entry[x].lease # NoLease}}

\* "A thread has at most one active root": of the turns at work, the Missions
\* launched or looping and the mutations in progress on a thread there is at
\* most one, and it holds the lease by which the guard lets it.
OneRootPerThread ==
    \A t \in Threads :
        /\ Cardinality(HoldsFor(t)) + (IF t \in guard.mutations THEN 1 ELSE 0) <= 1
        /\ \A h \in HoldsFor(t) : /\ h[2] # NoLease
                                  /\ Current(guard, h[2])
                                  /\ guard.activeRuns[t] = h[2][1]

\* No path of any lane loses a slot: a thread that the guard calls busy has a
\* turn, a Mission or a mutation that holds it and has yet to give it up.
NoStrandedSlot ==
    \A t \in Threads : ~Free(guard, t) =>
        \/ HoldsFor(t) # {}
        \/ \E k \in Locks : mutation[k].pc \in {"archive", "fresh"}
                            /\ guard.closures[k].threadId = t

\* A turn that can still do work is the one its thread is mapped to, so Stop
\* and the events of the thread reach it: no late cleanup evicts it.
WorkingTurnRegistered ==
    \A r \in Runs : run[r].pc \in TurnAwaits \ {"hydrate", "tail", "recover"} => Active(r)

\* A Stop that lands while a Loop's Mission is being launched is not lost: if
\* the Mission gets to loop all the same, it is under an abort request.
StopReachesMission ==
    \A m \in Missions : entry[m].pc = "looping" /\ entry[m].caller # None
                        /\ run[entry[m].caller].stopped => entry[m].aborted

\* A stopped turn starts no paid work any more: no agent, no Mission.
NoWorkAfterStop ==
    [][\A r \in Runs : run[r].stopped /\ run'[r].pc # run[r].pc =>
          run'[r].pc \notin {"starting", "execute", "finish"}]_vars

\* A turn that was stopped lets its thread go.
StopFreesThread ==
    \A r \in Runs : run[r].stopped ~> (run[r].lease = NoLease /\ ~\E t \in Threads : conversations[t] = r)

\* "must never overwrite the snapshot owned by a newly-started attempt": while
\* a turn is at work the snapshot of its thread shows a turn at work.
SnapshotOwned ==
    \A t \in Threads : conversations[t] # None
                       /\ ~run[conversations[t]].stopped
                       /\ run[conversations[t]].pc \in TurnAwaits \ {"recover"}
        => snapshot[t] \in {"preparing", "running"}

\* "Retry must create a new Mission from the original Loop input": a Loop never
\* turns into an ordinary agent turn.  The code does not have this (README, 6):
\* the retry of a retried Loop that was stopped during its launch does.
LoopStaysLoop == \A r \in Runs : run[r].fromLoop => run[r].pc # "execute"

=============================================================================
