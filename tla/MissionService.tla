--------------------------- MODULE MissionService ---------------------------
(***************************************************************************)
(* MissionService over its repositories: one Mission, called by several    *)
(* actors (the loop controller, the user, reload recovery) that share the  *)
(* database and nothing else.                                              *)
(*                                                                         *)
(* Every service method is a chain of awaited repository calls, and        *)
(* another actor can run at each await.  A call is a record in call[a]     *)
(* whose pc names the repository call it will make next, so one action     *)
(* below is one repository call with the synchronous code around it:       *)
(*                                                                         *)
(*   any transition   load -> cas [-> update] [-> finalize] -> event       *)
(*   startAttempt     load -> list -> insert -> cas ... -> event           *)
(*   completeMission  load -> criteria -> cas ... -> finalize -> event     *)
(*   recordEvaluation load -> insertEvaluation -> setStatus -> setLast     *)
(*                                                                         *)
(* and ends in "returned" or in the error it throws, which stays in call[a] *)
(* until the caller has looked at it and makes its next call.               *)
(*                                                                         *)
(* AtomicCAS says which missions.updateStatus is underneath.  The memory   *)
(* and better-sqlite3 backends compare and swap in one step.  The desktop  *)
(* backend selects the row, compares, and updates by id in a second step.  *)
(***************************************************************************)
EXTENDS Naturals, FiniteSets, MissionStatusGraph

CONSTANTS
    Actors,          \* callers of the service
    Criteria,        \* criterion ids of the mission
    Required,        \* the criteria with required = 1
    MaxAttemptRows,  \* bound: mission_attempt rows a behaviour can insert
    MaxCalls,        \* [Actors -> Nat], bound: service calls each actor makes
    MayCall,         \* [Actors -> SUBSET Operations]: what each caller uses
    AtomicCAS,       \* is missions.updateStatus one atomic step?
    RepoFaults       \* can a repository call reject (or the renderer die)?

Attempts  == 1 .. MaxAttemptRows
NoAttempt == 0

(***************************************************************************)
(* The methods.  Target is the status a method moves the mission to, and   *)
(* Closes the finalizeAttempt it passes to transition ("open": none).      *)
(* resumeReady is resume(missionId, 'ready').                              *)
(***************************************************************************)
Transitions ==
    {"markReady", "startAttempt", "beginVerifying", "completeMission",
     "toRepairing", "toAwaitingUser", "toInterrupted", "toReadyToResume",
     "toBlocked", "toFailed", "pause", "resume", "resumeReady", "cancel"}

Operations == Transitions \union {"recordEvaluation"}

Target ==
    [op \in Transitions |->
        CASE op \in {"markReady", "resumeReady"}  -> "ready"
          [] op \in {"startAttempt", "resume"}    -> "running"
          [] op = "beginVerifying"  -> "verifying"
          [] op = "completeMission" -> "completed"
          [] op = "toRepairing"     -> "repairing"
          [] op = "toAwaitingUser"  -> "awaiting_user"
          [] op = "toInterrupted"   -> "interrupted"
          [] op = "toReadyToResume" -> "ready_to_resume"
          [] op = "toBlocked"       -> "blocked"
          [] op = "toFailed"        -> "failed"
          [] op = "pause"           -> "paused"
          [] op = "cancel"          -> "cancelled"]

Closes ==
    [op \in Transitions |->
        CASE op = "completeMission" -> "completed"
          [] op = "toRepairing"     -> "superseded"
          [] op = "toBlocked"       -> "blocked"
          [] op = "toFailed"        -> "failed"
          [] op = "cancel"          -> "cancelled"
          [] OTHER                  -> "open"]

Verdicts == {"PASS", "FAIL", "BLOCKED", "ERROR", "SKIP"}

VERDICT_TO_CRITERION_STATUS ==
    [v \in Verdicts |-> CASE v = "PASS"    -> "pass"
                          [] v = "FAIL"    -> "fail"
                          [] v = "BLOCKED" -> "blocked"
                          [] v = "ERROR"   -> "error"
                          [] v = "SKIP"    -> "skip"]

ClosedStatus     == {"completed", "superseded", "blocked", "failed", "cancelled"}
AttemptStatus    == {"absent", "running"} \union ClosedStatus
CriterionStatus  == {"pending", "pass", "fail", "blocked", "error", "skip"}
Evaluations      == [criterion : Criteria, attempt : Attempts, verdict : Verdicts]
NoEvaluation     == [criterion |-> "none", attempt |-> NoAttempt, verdict |-> "none"]
MissionEvents    == [from : MissionStatus, to : MissionStatus,
                     attempt : Attempts \union {NoAttempt}]

Awaiting == {"load", "list", "insert", "criteria", "cas", "update", "finalize",
             "event", "insertEvaluation", "setStatus", "setLast"}
Errors   == {"illegal_transition", "invariant_violation", "repo_error"}
Settled  == {"returned"} \union Errors

ASSUME BoundsAssumption == MaxAttemptRows \in Nat \ {0} /\ MaxCalls \in [Actors -> Nat]
ASSUME CriteriaAssumption == Required \subseteq Criteria /\ Required # {}
ASSUME CallersAssumption == MayCall \in [Actors -> SUBSET Operations]
ASSUME SwitchesAssumption == AtomicCAS \in BOOLEAN /\ RepoFaults \in BOOLEAN

VARIABLES
    mission,      \* the row: status and current_attempt_id
    attempts,     \* mission_attempt: status and attempt_number by id
    criteria,     \* mission_criterion: status and last_evaluation_id by id
    evaluations,  \* mission_evaluation rows
    events,       \* mission_event rows written by transition
    call          \* the service call each actor is in, and the calls it has left

serviceVars == <<mission, attempts, criteria, evaluations, events, call>>

Calls == [pc : {"idle"} \union Awaiting \union Settled,
          op : Operations,
          from : MissionStatus,                       \* mission.status as loaded
          current : Attempts \union {NoAttempt},      \* current_attempt_id as loaded
          number : 0 .. MaxAttemptRows,               \* existing.length as listed
          fresh : Attempts \union {NoAttempt},        \* the attempt startAttempt inserts
          evaluation : Evaluations \union {NoEvaluation},
          left : Nat]

Idle(left) ==
    [pc |-> "idle", op |-> "cancel", from |-> "draft", current |-> NoAttempt,
     number |-> 0, fresh |-> NoAttempt, evaluation |-> NoEvaluation, left |-> left]

ServiceTypeOK ==
    /\ mission \in [status : MissionStatus, attempt : Attempts \union {NoAttempt}]
    /\ attempts \in [Attempts -> [status : AttemptStatus, number : 0 .. MaxAttemptRows + 1]]
    /\ criteria \in [Criteria -> [status : CriterionStatus,
                                  last : Evaluations \union {NoEvaluation}]]
    /\ evaluations \subseteq Evaluations
    /\ events \subseteq MissionEvents
    /\ call \in [Actors -> Calls]

-----------------------------------------------------------------------------
\* createMission, and then markReady when the creator is the one the desktop
\* uses; no actor holds the mission id before that.
ServiceInit ==
    /\ mission \in [status : {"draft", "ready"}, attempt : {NoAttempt}]
    /\ attempts = [id \in Attempts |-> [status |-> "absent", number |-> 0]]
    /\ criteria = [c \in Criteria |-> [status |-> "pending", last |-> NoEvaluation]]
    /\ evaluations = {}
    /\ events = {}
    /\ call = [a \in Actors |-> Idle(MaxCalls[a])]

Begin(a, op, evaluation) ==
    call' = [call EXCEPT ![a] = [Idle(@.left - 1) EXCEPT
                                    !.pc = "load", !.op = op, !.evaluation = evaluation]]

\* An actor calls a method that takes only the mission id.
CallTransition(a, op) ==
    /\ call[a].pc \notin Awaiting /\ call[a].left > 0
    /\ op \in MayCall[a] \intersect Transitions
    /\ Begin(a, op, NoEvaluation)
    /\ UNCHANGED <<mission, attempts, criteria, evaluations, events>>

CallRecordEvaluation(a, evaluation) ==
    /\ call[a].pc \notin Awaiting /\ call[a].left > 0
    /\ "recordEvaluation" \in MayCall[a]
    /\ Begin(a, "recordEvaluation", evaluation)
    /\ UNCHANGED <<mission, attempts, criteria, evaluations, events>>

\* Mutant of Validated: the graph is not consulted.
ValidatedAlways(c) == [c EXCEPT !.pc = "cas"]

\* canTransition(from, to), checked before updateStatus is called.
Validated(c) ==
    [c EXCEPT !.pc = IF canTransition(c.from, Target[c.op])
                     THEN "cas" ELSE "illegal_transition"]

\* load(): findById, and the checks the method makes on the row it returned.
AfterLoad(c) ==
    CASE c.op = "recordEvaluation" ->
            [c EXCEPT !.pc = IF c.from = "verifying"
                             THEN "insertEvaluation" ELSE "invariant_violation"]
      [] c.op = "startAttempt" ->
            [c EXCEPT !.pc = IF c.from \in ActiveRoot /\ c.current # NoAttempt
                             THEN "invariant_violation" ELSE "list"]
      [] c.op = "completeMission" -> [c EXCEPT !.pc = "criteria"]
      [] OTHER -> Validated(c)

Load(a) ==
    /\ call[a].pc = "load"
    /\ call' = [call EXCEPT ![a] = AfterLoad([@ EXCEPT !.from = mission.status,
                                                       !.current = mission.attempt])]
    /\ UNCHANGED <<mission, attempts, criteria, evaluations, events>>

Existing == {id \in Attempts : attempts[id].status # "absent"}

\* Mutant of ListAttempts: counts the attempt that is to come.
ListAttemptsAndNext(a) ==
    /\ call[a].pc = "list"
    /\ call' = [call EXCEPT ![a].pc = "insert", ![a].number = Cardinality(Existing) + 1]
    /\ UNCHANGED <<mission, attempts, criteria, evaluations, events>>

\* startAttempt: missionAttempts.listByMission.
ListAttempts(a) ==
    /\ call[a].pc = "list"
    /\ call' = [call EXCEPT ![a].pc = "insert", ![a].number = Cardinality(Existing)]
    /\ UNCHANGED <<mission, attempts, criteria, evaluations, events>>

\* startAttempt: the row goes in as 'running' before the transition is
\* validated.  newId() is the next id never used.
InsertAttempt(a) ==
    /\ call[a].pc = "insert"
    /\ \E id \in Attempts \ Existing :
          /\ \A older \in Attempts : older < id => older \in Existing
          /\ attempts' = [attempts EXCEPT ![id] = [status |-> "running",
                                                   number |-> call[a].number + 1]]
          /\ call' = [call EXCEPT ![a] = Validated([@ EXCEPT !.fresh = id])]
    /\ UNCHANGED <<mission, criteria, evaluations, events>>

\* Mutant of CheckCriteria: a criterion that was never evaluated is no obstacle.
CheckFailures(a) ==
    /\ call[a].pc = "criteria"
    /\ call' = [call EXCEPT ![a] =
                   IF \A c \in Required : criteria[c].status \in {"pass", "pending"}
                   THEN Validated(@) ELSE [@ EXCEPT !.pc = "invariant_violation"]]
    /\ UNCHANGED <<mission, attempts, criteria, evaluations, events>>

\* completeMission: listByMission, then every required criterion must be pass.
CheckCriteria(a) ==
    /\ call[a].pc = "criteria"
    /\ call' = [call EXCEPT ![a] =
                   IF \A c \in Required : criteria[c].status = "pass"
                   THEN Validated(@) ELSE [@ EXCEPT !.pc = "invariant_violation"]]
    /\ UNCHANGED <<mission, attempts, criteria, evaluations, events>>

\* Mutant of Written: every patch has a current_attempt_id, null if none is given.
WrittenOrNull(c) ==
    [status |-> Target[c.op],
     attempt |-> IF c.op = "startAttempt" THEN c.fresh ELSE NoAttempt]

\* Mutant of Written: the new attempt is not bound.
WrittenUnbound(c) == [status |-> Target[c.op], attempt |-> mission.attempt]

\* The patch that transition hands to updateStatus.
Written(c) ==
    [status |-> Target[c.op],
     attempt |-> IF c.op = "startAttempt" THEN c.fresh ELSE mission.attempt]

\* The attempt is finalized only if the row loaded at the start had one.
AfterWrite(c) ==
    [c EXCEPT !.pc = IF Closes[c.op] # "open" /\ c.current # NoAttempt
                     THEN "finalize" ELSE "event"]

\* Mutant of CompareAndSwap: no expectedStatus.
SwapUnconditionally(a) ==
    /\ call[a].pc = "cas"
    /\ mission' = Written(call[a])
    /\ call' = [call EXCEPT ![a] = AfterWrite(@)]
    /\ UNCHANGED <<attempts, criteria, evaluations, events>>

\* missions.updateStatus with expectedStatus = from.
CompareAndSwap(a) ==
    /\ call[a].pc = "cas"
    /\ \/ /\ mission.status # call[a].from
          /\ call' = [call EXCEPT ![a].pc = "illegal_transition"]
          /\ UNCHANGED mission
       \/ /\ mission.status = call[a].from
          /\ AtomicCAS
          /\ mission' = Written(call[a])
          /\ call' = [call EXCEPT ![a] = AfterWrite(@)]
       \/ /\ mission.status = call[a].from   \* the desktop SELECT: it matched
          /\ ~AtomicCAS
          /\ call' = [call EXCEPT ![a].pc = "update"]
          /\ UNCHANGED mission
    /\ UNCHANGED <<attempts, criteria, evaluations, events>>

\* The desktop UPDATE: by mission id alone.
UpdateById(a) ==
    /\ call[a].pc = "update"
    /\ mission' = Written(call[a])
    /\ call' = [call EXCEPT ![a] = AfterWrite(@)]
    /\ UNCHANGED <<attempts, criteria, evaluations, events>>

\* transition: close the attempt that was current when the row was loaded.
FinalizeAttempt(a) ==
    /\ call[a].pc = "finalize"
    /\ attempts' = [attempts EXCEPT ![call[a].current].status = Closes[call[a].op]]
    /\ call' = [call EXCEPT ![a].pc = "event"]
    /\ UNCHANGED <<mission, criteria, evaluations, events>>

WriteEvent(a) ==
    /\ call[a].pc = "event"
    /\ events' = events \union
          {[from |-> call[a].from, to |-> Target[call[a].op],
            attempt |-> IF call[a].op = "startAttempt" THEN call[a].fresh
                                                       ELSE call[a].current]}
    /\ call' = [call EXCEPT ![a].pc = "returned"]
    /\ UNCHANGED <<mission, attempts, criteria, evaluations>>

\* Mutant of InsertEvaluation: a criterion has one evaluation, never a second.
InsertFirstEvaluation(a) ==
    /\ call[a].pc = "insertEvaluation"
    /\ evaluations' = IF \E e \in evaluations : e.criterion = call[a].evaluation.criterion
                      THEN evaluations ELSE evaluations \union {call[a].evaluation}
    /\ call' = [call EXCEPT ![a].pc = "setStatus"]
    /\ UNCHANGED <<mission, attempts, criteria, events>>

\* recordEvaluation: three writes, guarded only by the status read in load.
InsertEvaluation(a) ==
    /\ call[a].pc = "insertEvaluation"
    /\ evaluations' = evaluations \union {call[a].evaluation}
    /\ call' = [call EXCEPT ![a].pc = "setStatus"]
    /\ UNCHANGED <<mission, attempts, criteria, events>>

SetCriterionStatus(a) ==
    /\ call[a].pc = "setStatus"
    /\ criteria' = [criteria EXCEPT ![call[a].evaluation.criterion].status =
                       VERDICT_TO_CRITERION_STATUS[call[a].evaluation.verdict]]
    /\ call' = [call EXCEPT ![a].pc = "setLast"]
    /\ UNCHANGED <<mission, attempts, evaluations, events>>

SetLastEvaluation(a) ==
    /\ call[a].pc = "setLast"
    /\ criteria' = [criteria EXCEPT ![call[a].evaluation.criterion].last =
                       call[a].evaluation]
    /\ call' = [call EXCEPT ![a].pc = "returned"]
    /\ UNCHANGED <<mission, attempts, evaluations, events>>

\* The awaited repository call rejects: the method throws on from where it was.
\* With nobody left to observe the error this is also the death of the renderer.
RepoError(a) ==
    /\ RepoFaults
    /\ call[a].pc \in Awaiting
    /\ call' = [call EXCEPT ![a].pc = "repo_error"]
    /\ UNCHANGED <<mission, attempts, criteria, evaluations, events>>

\* One repository call of a service method in progress.
RepoStep(a) ==
    \/ Load(a)
    \/ ListAttempts(a)
    \/ InsertAttempt(a)
    \/ CheckCriteria(a)
    \/ CompareAndSwap(a)
    \/ UpdateById(a)
    \/ FinalizeAttempt(a)
    \/ WriteEvent(a)
    \/ InsertEvaluation(a)
    \/ SetCriterionStatus(a)
    \/ SetLastEvaluation(a)
    \/ RepoError(a)

ServiceNext ==
    \E a \in Actors :
        \/ \E op \in Transitions : CallTransition(a, op)
        \/ \E e \in Evaluations : CallRecordEvaluation(a, e)
        \/ RepoStep(a)

ServiceSpec == ServiceInit /\ [][ServiceNext]_serviceVars

-----------------------------------------------------------------------------
(* Properties. *)

\* A mission that has completed, failed or been cancelled keeps its row for
\* ever, whatever calls were already under way when it got there: the graph has
\* no edge out (section 18.6) and a stale writer misses its compare-and-swap.
TerminalIsFinal ==
    [][mission.status \in Terminal => mission' = mission]_serviceVars

\* A second root attempt is never bound over one that is running or being
\* verified (section 18.3), even if startAttempt made its check before the
\* first one was bound.
OneActiveRoot ==
    [][mission'.attempt # mission.attempt => mission.status \notin ActiveRoot]_serviceVars

\* The audit log and the row agree on the outcome: an event into a terminal
\* status is only ever written for the terminal status the mission is in, so
\* the log cannot report two outcomes.
TerminalEventTruthful ==
    \A e \in events : e.to \in Terminal => mission.status = e.to

\* A criterion never shows more than the evaluations bear out, even if a call
\* dies between its three writes: its status is the verdict of an evaluation
\* that is there, and so is the one it names as its last.
VerdictsBacked ==
    \A c \in Criteria :
        /\ criteria[c].status # "pending" =>
               \E e \in evaluations :
                  /\ e.criterion = c
                  /\ VERDICT_TO_CRITERION_STATUS[e.verdict] = criteria[c].status
        /\ criteria[c].last \in evaluations \union {NoEvaluation}

\* Section 18.1 as the service alone enforces it: a completed mission has every
\* required criterion at pass, though they were read awaits before the row was
\* written, and on a backend that loses updates and rejects calls.  The one
\* driver of the mission is the only actor that records and completes.
CompletedGated ==
    mission.status = "completed" => \A c \in Required : criteria[c].status = "pass"

\* The comment on finalizeAttempt: an attempt "never lingers in `running` once
\* its mission has moved on".  Read of a mission that is over and has no call
\* in progress.  The code does not have this (README, 6): startAttempt inserts
\* the row before a cancel makes its bind lose, and nothing closes it.
NoLingeringAttempt ==
    (mission.status \in Terminal /\ \A a \in Actors : call[a].pc \notin Awaiting)
        => \A id \in Attempts : attempts[id].status # "running"

\* The same comment, of the attempt that a mission which is over names.  The code
\* does not have this either (README, 6): a call closes the attempt it has loaded,
\* and the status it expects may by then be that of a newer one.
BoundAttemptClosed ==
    (mission.status \in Terminal /\ mission.attempt # NoAttempt
       /\ \A a \in Actors : call[a].pc \notin Awaiting)
        => attempts[mission.attempt].status # "running"

\* The service implements the lifecycle it promises.
Lifecycle == INSTANCE MissionLifecycle
                 WITH status <- mission.status, attempt <- mission.attempt

ImplementsLifecycle == Lifecycle!Spec

=============================================================================
