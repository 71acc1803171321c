----------------------------- MODULE MissionLoop -----------------------------
(***************************************************************************)
(* MissionLoopController.run(missionId) as a client of MissionService,     *)
(* composed with the other callers of that service (a user who cancels or  *)
(* pauses).  The controller runs no model and writes no row itself: it     *)
(* starts an attempt, waits for the delegated runtime, moves the mission   *)
(* to verifying, evaluates and records every required criterion, and       *)
(* completes, repairs or stops.  loop.pc is the await it is at; what       *)
(* follows an await up to the next one is synchronous and is one action.   *)
(*                                                                         *)
(* Data abstracted: prompts, failure packets beyond the attempt they name, *)
(* budget nudges, evidence.  A summary is one of Summaries, so a failure   *)
(* signature is the failed criteria with their verdicts and that summary.  *)
(***************************************************************************)
EXTENDS MissionService, Integers

CONSTANTS
    Loop,          \* the controller, one of Actors
    MaxAttempts,   \* budget.maxAttempts
    MaxRepairs,    \* budget.maxRepairsPerCriterion
    TokenBudget,   \* budget.tokenBudget, 0 when it is not set
    MaxUsage,      \* bound: tokens one attempt reports
    Summaries,     \* evaluator summaries
    WallClock      \* is budget.wallClockMinutes set?

ASSUME LoopAssumption ==
    /\ Loop \in Actors
    /\ MaxAttempts \in Nat \ {0} /\ MaxRepairs \in Nat \ {0}
    /\ TokenBudget \in Nat /\ MaxUsage \in Nat
    /\ WallClock \in BOOLEAN /\ Summaries # {}

VARIABLES
    loop,     \* the locals of run() and runOneAttempt()
    expired,  \* has the clock reached wallClockDeadlineMs?
    leases,   \* attempts whose evaluation lease is open at the backend
    leaked    \* attempts whose lease release was refused: left to its TTL

loopLocals == <<loop, expired, leases, leaked>>
loopVars   == <<serviceVars, loopLocals>>

Users == Actors \ {Loop}

InTry == {"awaitRepairing", "awaitStart", "awaitVerifying", "recording", "awaitStop"}
LoopPcs == InTry \union {"top", "awaitStopAtTop", "running", "evaluating",
                         "catch", "finally", "done"}
LoopStatus == {"completed", "cancelled", "failed", "stuck", "blocked"}
Pending == "pending"
Threw   == "threw"
RuntimeErrors == {"none", "runtime_error", "wall_clock_budget"}

\* Why run() stopped, or what made it throw.
MissionLoopStopReason ==
    {"completed", "stuck", "repair_cap", "attempt_cap", "token_budget",
     "wall_clock_budget", "cancelled", "needs_input", "runtime_incompatible"}
Reasons == MissionLoopStopReason \union Errors \union {"none", "getMission", "evaluator"}

LoopTypeOK ==
    /\ loop \in [pc : LoopPcs,
                 attemptNumber : 0 .. MaxAttempts,
                 attemptId : Attempts \union {NoAttempt},
                 packet : Attempts \union {NoAttempt},
                 signature : SUBSET (Required \X Verdicts \X Summaries),
                 tokens : Int,
                 repairs : [Required -> 0 .. MaxRepairs],
                 runtimeError : RuntimeErrors,
                 outcomes : [Required -> Verdicts],
                 summary : Summaries,
                 recorded : SUBSET Required,
                 cleanup : Attempts \union {NoAttempt},
                 result : LoopStatus \union {Pending, Threw},
                 reason : Reasons]
    /\ expired \in BOOLEAN
    /\ leases \subseteq Attempts
    /\ leaked \subseteq Attempts

LoopInit ==
    /\ ServiceInit
    /\ mission.status = "ready"
    /\ \E s \in Summaries :
          loop = [pc |-> "top", attemptNumber |-> 0, attemptId |-> NoAttempt,
                  packet |-> NoAttempt, signature |-> {}, tokens |-> TokenBudget,
                  repairs |-> [c \in Required |-> 0], runtimeError |-> "none",
                  outcomes |-> [c \in Required |-> "PASS"], summary |-> s,
                  recorded |-> {}, cleanup |-> NoAttempt,
                  result |-> Pending, reason |-> "none"]
    /\ expired = FALSE
    /\ leases = {}
    /\ leaked = {}

-----------------------------------------------------------------------------
\* Verdict classes, and what decideBoundedLoop reads.
Having(outcomes, verdicts) == {c \in Required : outcomes[c] \in verdicts}
ProductFails(o) == Having(o, {"FAIL"})
InfraFails(o)   == Having(o, {"BLOCKED", "ERROR"})

computeFailureSignature(o, summary) ==
    {<<c, o[c], summary>> : c \in ProductFails(o) \union InfraFails(o)}

\* A packet and a previous signature are carried over together.
Stuck(l) == /\ l.packet # NoAttempt
            /\ computeFailureSignature(l.outcomes, l.summary) = l.signature

\* Mutant of decideBoundedLoop: the last token may be spent twice.
decideBeyondTokens(l) ==
    IF Stuck(l)                                THEN "stuck"
    ELSE IF l.attemptNumber >= MaxAttempts     THEN "attempt_cap"
    ELSE IF TokenBudget # 0 /\ l.tokens < 0    THEN "token_budget"
    ELSE "continue"

decideBoundedLoop(l) ==
    IF Stuck(l)                                THEN "stuck"
    ELSE IF l.attemptNumber >= MaxAttempts     THEN "attempt_cap"
    ELSE IF TokenBudget # 0 /\ l.tokens <= 0   THEN "token_budget"
    ELSE "continue"

\* Mutant of CapExceeded: off by one.
CapPassed(l) == {c \in ProductFails(l.outcomes) : l.repairs[c] > MaxRepairs}

CapExceeded(l) == {c \in ProductFails(l.outcomes) : l.repairs[c] >= MaxRepairs}

-----------------------------------------------------------------------------
Stay == UNCHANGED <<expired, leases, leaked>>

\* run() asks the service for a transition and awaits it at pc.
AskFor(op, pc) ==
    /\ CallTransition(Loop, op)
    /\ loop' = [loop EXCEPT !.pc = pc]
    /\ Stay

\* The same, with the result run() will return if the service agrees.
StopWith(op, pc, l, result, reason) ==
    /\ CallTransition(Loop, op)
    /\ loop' = [l EXCEPT !.pc = pc, !.result = result, !.reason = reason]
    /\ Stay

\* No repository call: run() moves on, or ends, by itself.
Settle(pc, result, reason) ==
    /\ loop' = [loop EXCEPT !.pc = pc, !.result = result, !.reason = reason]
    /\ Stay
    /\ UNCHANGED serviceVars

\* The head of the for loop: getMission, then the human-cancel and wall-clock
\* guards, then toRepairing when a packet is pending, else startAttempt.
TopOfLoop ==
    /\ loop.pc = "top"
    /\ \/ mission.status = "cancelled" /\ Settle("done", "cancelled", "cancelled")
       \/ RepoFaults /\ Settle("done", Threw, "getMission")
       \/ /\ mission.status # "cancelled"
          /\ expired
          /\ IF loop.attemptNumber = 0
             THEN Settle("done", Threw, "invariant_violation")
             ELSE StopWith("toFailed", "awaitStopAtTop", loop, "failed", "wall_clock_budget")
       \/ /\ mission.status # "cancelled"
          /\ ~expired
          /\ IF loop.packet # NoAttempt
             THEN AskFor("toRepairing", "awaitRepairing")
             ELSE AskFor("startAttempt", "awaitStart")

\* toFailed at the head of the loop is outside the try: its error escapes.
StoppedAtTop ==
    /\ loop.pc = "awaitStopAtTop"
    /\ \/ call[Loop].pc = "returned" /\ Settle("done", loop.result, loop.reason)
       \/ call[Loop].pc \in Errors /\ Settle("done", Threw, call[Loop].pc)

RepairingEntered ==
    /\ loop.pc = "awaitRepairing" /\ call[Loop].pc = "returned"
    /\ AskFor("startAttempt", "awaitStart")

AttemptStarted ==
    /\ loop.pc = "awaitStart" /\ call[Loop].pc = "returned"
    /\ loop' = [loop EXCEPT !.pc = "running",
                            !.attemptNumber = @ + 1,
                            !.attemptId = call[Loop].fresh]
    /\ Stay
    /\ UNCHANGED serviceVars

\* deps.runAttempt resolves: the delegated run ended, failed, or was cut by the
\* deadline timer.  Only a run without an error holds an evaluation lease.  Its
\* tokens are debited, and the wall clock is looked at, before verification.
AttemptReturns ==
    /\ loop.pc = "running"
    /\ \E usage \in 0 .. MaxUsage, error \in RuntimeErrors :
          /\ error = "wall_clock_budget" => expired
          /\ LET l == [loop EXCEPT
                          !.runtimeError = error,
                          !.tokens = IF TokenBudget = 0 THEN @ ELSE @ - usage,
                          !.cleanup = IF error = "none" THEN loop.attemptId ELSE NoAttempt]
             IN  IF error = "wall_clock_budget" \/ expired
                 THEN /\ CallTransition(Loop, "toFailed")
                      /\ loop' = [l EXCEPT !.pc = "awaitStop", !.result = "failed",
                                           !.reason = "wall_clock_budget"]
                 ELSE /\ CallTransition(Loop, "beginVerifying")
                      /\ loop' = [l EXCEPT !.pc = "awaitVerifying"]
          /\ leases' = IF error = "none" THEN leases \union {loop.attemptId} ELSE leases
    /\ UNCHANGED <<expired, leaked>>

VerifyingEntered ==
    /\ loop.pc = "awaitVerifying" /\ call[Loop].pc = "returned"
    /\ IF loop.runtimeError # "none"
       THEN StopWith("toBlocked", "awaitStop", loop, "blocked", "runtime_incompatible")
       ELSE Settle("evaluating", loop.result, loop.reason)

\* evaluateCriteria: one evaluator per required criterion.
Evaluate ==
    /\ loop.pc = "evaluating"
    /\ \/ /\ \E o \in [Required -> Verdicts], s \in Summaries :
                loop' = [loop EXCEPT !.pc = "recording", !.outcomes = o,
                                     !.summary = s, !.recorded = {}]
          /\ Stay
          /\ UNCHANGED serviceVars
       \/ RepoFaults /\ Settle("finally", Threw, "evaluator")

\* Mutant of RecordNext: the evaluation is filed under the attempt repaired.
RecordUnderPacket ==
    /\ loop.pc = "recording" /\ call[Loop].pc = "returned"
    /\ \E c \in Required \ loop.recorded :
          /\ CallRecordEvaluation(Loop, [criterion |-> c,
                 attempt |-> IF loop.packet = NoAttempt THEN loop.attemptId ELSE loop.packet,
                 verdict |-> loop.outcomes[c]])
          /\ loop' = [loop EXCEPT !.recorded = @ \union {c}]
    /\ Stay

RecordNext ==
    /\ loop.pc = "recording" /\ call[Loop].pc = "returned"
    /\ \E c \in Required \ loop.recorded :
          /\ CallRecordEvaluation(Loop, [criterion |-> c, attempt |-> loop.attemptId,
                                         verdict |-> loop.outcomes[c]])
          /\ loop' = [loop EXCEPT !.recorded = @ \union {c}]
    /\ Stay

\* All outcomes are recorded: what is left of runOneAttempt is one synchronous
\* decision.  The five actions below are its branches, in the code's order.
Recorded == /\ loop.pc = "recording" /\ call[Loop].pc = "returned"
            /\ loop.recorded = Required

AllPass   == Having(loop.outcomes, {"PASS"}) = Required
InfraOnly == ProductFails(loop.outcomes) = {} /\ InfraFails(loop.outcomes) # {}
Repairable == ~expired /\ ~AllPass /\ ~InfraOnly

DecideExpired ==
    /\ Recorded /\ expired
    /\ StopWith("toFailed", "awaitStop", loop, "failed", "wall_clock_budget")

DecideComplete ==
    /\ Recorded /\ ~expired /\ AllPass
    /\ StopWith("completeMission", "awaitStop", loop, "completed", "completed")

DecideBlocked ==
    /\ Recorded /\ ~expired /\ InfraOnly
    /\ StopWith("toBlocked", "awaitStop", loop, "blocked",
                IF Having(loop.outcomes, {"ERROR"}) = {} THEN "needs_input"
                                                         ELSE "runtime_incompatible")

DecideStop ==
    /\ Recorded /\ Repairable
    /\ LET decision == decideBoundedLoop(loop)
       IN  \/ /\ decision # "continue"
              /\ StopWith("toFailed", "awaitStop", loop,
                          IF decision = "stuck" THEN "stuck" ELSE "failed", decision)
           \/ /\ decision = "continue" /\ CapExceeded(loop) # {}
              /\ StopWith("toFailed", "awaitStop", loop, "failed", "repair_cap")

\* A repair: consume one repair per product failure, and carry the packet and
\* the signature over.  The mission stays in verifying until the next head.
DecideRepair ==
    /\ Recorded /\ Repairable
    /\ decideBoundedLoop(loop) = "continue" /\ CapExceeded(loop) = {}
    /\ loop' = [loop EXCEPT
                   !.pc = "finally",
                   !.packet = loop.attemptId,
                   !.signature = computeFailureSignature(loop.outcomes, loop.summary),
                   !.repairs = [c \in Required |->
                                  IF c \in ProductFails(loop.outcomes) THEN @[c] + 1
                                                                       ELSE @[c]]]
    /\ Stay
    /\ UNCHANGED serviceVars

Stopped ==
    /\ loop.pc = "awaitStop" /\ call[Loop].pc = "returned"
    /\ Settle("finally", loop.result, loop.reason)

\* Mutant of ThrownInTry: a rejected repository call is not caught.
ThrownByService ==
    /\ loop.pc \in InTry /\ call[Loop].pc \in Errors \ {"repo_error"}
    /\ IF call[Loop].pc = "illegal_transition"
       THEN Settle("catch", Pending, "none")
       ELSE Settle("finally", Threw, call[Loop].pc)

\* An error inside the try: only illegal_transition is looked into.
ThrownInTry ==
    /\ loop.pc \in InTry /\ call[Loop].pc \in Errors
    /\ IF call[Loop].pc = "illegal_transition"
       THEN Settle("catch", Pending, "none")
       ELSE Settle("finally", Threw, call[Loop].pc)

\* Mutant of CatchConflict: every conflict counts as a cancel.
CatchAsCancel ==
    /\ loop.pc = "catch"
    /\ Settle("finally", "cancelled", "cancelled")

\* Re-read the mission: a cancel explains the conflict, anything else is rethrown.
CatchConflict ==
    /\ loop.pc = "catch"
    /\ \/ mission.status = "cancelled" /\ Settle("finally", "cancelled", "cancelled")
       \/ mission.status # "cancelled" /\ Settle("finally", Threw, "illegal_transition")
       \/ RepoFaults /\ Settle("finally", Threw, "getMission")

\* Mutant of CleanUp: only when run() is about to return.
CleanUpAtTheEnd ==
    /\ loop.pc = "finally"
    /\ loop' = [loop EXCEPT !.pc = IF loop.result = Pending THEN "top" ELSE "done",
                            !.cleanup = NoAttempt]
    /\ leases' = IF loop.result = Pending THEN leases ELSE leases \ {loop.cleanup}
    /\ UNCHANGED <<serviceVars, expired, leaked>>

\* The finally block: the registered cleanup runs at most once, and its failure
\* changes nothing but the lease it leaves to the backend's TTL.
CleanUp ==
    /\ loop.pc = "finally"
    /\ loop' = [loop EXCEPT !.pc = IF loop.result = Pending THEN "top" ELSE "done",
                            !.cleanup = NoAttempt]
    /\ \/ /\ leases' = leases \ {loop.cleanup}
          /\ UNCHANGED leaked
       \/ /\ RepoFaults /\ loop.cleanup # NoAttempt
          /\ leaked' = leaked \union {loop.cleanup}
          /\ UNCHANGED leases
    /\ UNCHANGED <<serviceVars, expired>>

ClockExpires ==
    /\ WallClock /\ ~expired
    /\ expired' = TRUE
    /\ UNCHANGED <<serviceVars, loop, leases, leaked>>

LoopStep ==
    \/ TopOfLoop
    \/ StoppedAtTop
    \/ RepairingEntered
    \/ AttemptStarted
    \/ AttemptReturns
    \/ VerifyingEntered
    \/ Evaluate
    \/ RecordNext
    \/ DecideExpired
    \/ DecideComplete
    \/ DecideBlocked
    \/ DecideStop
    \/ DecideRepair
    \/ Stopped
    \/ ThrownInTry
    \/ CatchConflict
    \/ CleanUp

UserCall == \E a \in Users, op \in Transitions : CallTransition(a, op)

\* run() has returned or thrown: the one way in which nothing more may happen.
RunIsOver == loop.pc = "done" /\ UNCHANGED loopVars

LoopNext ==
    \/ LoopStep
    \/ RunIsOver
    \/ \E a \in Actors : RepoStep(a) /\ UNCHANGED loopLocals
    \/ UserCall /\ UNCHANGED loopLocals
    \/ ClockExpires

LoopSpec == LoopInit /\ [][LoopNext]_loopVars

\* Promises resolve and the delegated runtime returns; a user and the clock
\* need not do anything.
LoopFairness ==
    /\ WF_loopVars(LoopStep)
    /\ WF_loopVars(RepoStep(Loop) /\ UNCHANGED loopLocals)

FairLoopSpec == LoopSpec /\ LoopFairness

-----------------------------------------------------------------------------
(* Properties. *)

\* The point of a mission (section 18.1): it is completed only if every required
\* criterion is pass, and pass by an evaluation of the attempt the mission
\* completed with, never by one left over from an earlier attempt.
CompletedVerified ==
    mission.status = "completed" =>
        \A c \in Required :
            /\ criteria[c].status = "pass"
            /\ criteria[c].last = [criterion |-> c, attempt |-> mission.attempt,
                                   verdict |-> "PASS"]

\* What run() returns is what the database says, whatever the user did
\* meanwhile: a result of completed, cancelled, failed or stuck is the final
\* status of the row, and a mission it left blocked has no other outcome yet.
ResultTruthful ==
    loop.pc = "done" =>
        /\ loop.result = "completed" => mission.status = "completed"
        /\ loop.result = "cancelled" => mission.status = "cancelled"
        /\ loop.result \in {"failed", "stuck"} => mission.status = "failed"
        /\ loop.result = "blocked" => mission.status \notin {"completed", "failed"}

\* No agent is launched past a budget (section 19.2): with the attempts used up,
\* with the tokens gone, or with a criterion that has failed more often than it
\* may be repaired.  Failures are counted in the evaluations that were recorded
\* and attempts in the rows that were inserted, not in the loop's own counters.
LaunchWithinBudget ==
    [][loop.pc # "running" /\ loop'.pc = "running" =>
          /\ loop'.attemptNumber <= MaxAttempts
          /\ Cardinality(Existing) <= MaxAttempts
          /\ TokenBudget # 0 => loop.tokens > 0
          /\ \A c \in Required :
                Cardinality({e \in evaluations : e.criterion = c /\ e.verdict = "FAIL"})
                    <= MaxRepairs]_loopVars

\* While the mission is the loop's to drive, the attempt the agent works on is
\* the one the row is bound to, and it is open.
DrivesCurrentAttempt ==
    loop.pc \in {"running", "evaluating", "recording"} /\ mission.status \in ActiveRoot =>
        /\ mission.attempt = loop.attemptId
        /\ attempts[mission.attempt].status = "running"

\* An evaluation lease does not outlive its iteration: when run() is back at
\* the head of the loop or has returned, on whatever path, the only leases
\* still open are those whose release the backend refused.
LeaseReleased ==
    loop.pc \in {"top", "done"} => leases \subseteq leaked

\* "a cancel that lands mid-attempt ... return a clean `cancelled` result":
\* run() does not throw on a mission that the user has cancelled.  The code does
\* not have this (README, 6): a cancel while evaluations are recorded throws.
CleanCancel ==
    loop.pc = "done" /\ loop.result = Threw => mission.status # "cancelled"

\* run() ends: the budgets bound the attempts, and no path waits for ever.
Terminates == <>[](loop.pc = "done")

=============================================================================
