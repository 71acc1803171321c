------------------------- MODULE MissionLoop_proofs -------------------------
(***************************************************************************)
(* Proofs about MissionLoop, for any budget, any criteria and any other    *)
(* callers of the service.                                                 *)
(***************************************************************************)
EXTENDS MissionLoop, MissionService_proofs

Signatures == SUBSET (Required \X Verdicts \X Summaries)

LoopShape == [pc : LoopPcs,
              attemptNumber : 0 .. MaxAttempts,
              attemptId : Attempts \union {NoAttempt},
              packet : Attempts \union {NoAttempt},
              signature : Signatures,
              tokens : Int,
              repairs : [Required -> 0 .. MaxRepairs],
              runtimeError : RuntimeErrors,
              outcomes : [Required -> Verdicts],
              summary : Summaries,
              recorded : SUBSET Required,
              cleanup : Attempts \union {NoAttempt},
              result : LoopStatus \union {Pending, Threw},
              reason : Reasons]

\* The loop may still launch an attempt.
MayLaunch(l) ==
    \/ l.pc \in {"top", "awaitRepairing", "awaitStart"}
    \/ l.pc = "finally" /\ l.result = Pending

\* It does so only with an attempt and a token left.
BudgetLeft(l) ==
    l.attemptNumber < MaxAttempts /\ (TokenBudget # 0 => l.tokens > 0)

HasAttempt == {"running", "awaitVerifying", "evaluating", "recording", "awaitStop"}

LocalsAgree ==
    /\ MayLaunch(loop) => BudgetLeft(loop)
    /\ loop.pc \in HasAttempt => loop.attemptId \in Attempts
    /\ loop.pc = "awaitStop" => loop.result \in LoopStatus

\* The leases still open are the one this iteration will release, and those
\* whose release was refused.
LeasesAgree ==
    /\ leases \subseteq leaked \union {loop.cleanup}
    /\ loop.pc \in {"top", "awaitStopAtTop", "awaitRepairing", "awaitStart", "running", "done"}
           => loop.cleanup = NoAttempt

\* The call the loop has made is the one it waits for.
Awaited(pc) ==
    CASE pc = "awaitStopAtTop" -> {"toFailed"}
      [] pc = "awaitRepairing" -> {"toRepairing"}
      [] pc \in {"awaitStart", "running"} -> {"startAttempt"}
      [] pc \in {"awaitVerifying", "evaluating"} -> {"beginVerifying"}
      [] pc = "recording"      -> {"beginVerifying", "recordEvaluation"}
      [] pc = "awaitStop"      -> {"completeMission", "toFailed", "toBlocked"}
      [] OTHER                 -> Operations

CallAgrees ==
    /\ call[Loop].op \in Awaited(loop.pc)
    /\ loop.pc \in {"top", "running", "evaluating", "catch", "finally", "done"}
           => call[Loop].pc \notin Awaiting
    /\ call[Loop].pc \in {"insertEvaluation", "setStatus", "setLast"}
           => call[Loop].op = "recordEvaluation"
    /\ call[Loop].pc = "returned" /\ call[Loop].op = "startAttempt"
           => call[Loop].fresh \in Attempts

LoopInv == TypeInv /\ LoopTypeOK /\ LocalsAgree /\ LeasesAgree /\ CallAgrees

-----------------------------------------------------------------------------
LEMMA LoopShapeOK ==
    LoopTypeOK <=> /\ loop \in LoopShape /\ expired \in BOOLEAN
                   /\ leases \subseteq Attempts /\ leaked \subseteq Attempts
BY DEF LoopTypeOK, LoopShape, Signatures

LEMMA LoopInvInit == LoopInit => LoopInv /\ loop.pc = "top" /\ loop.result = Pending
<1> SUFFICES ASSUME LoopInit PROVE LoopInv /\ loop.pc = "top" /\ loop.result = Pending
  OBVIOUS
<1>1. TypeInv
  BY TypeInvInit DEF LoopInit
<1>2. PICK s \in Summaries :
          loop = [pc |-> "top", attemptNumber |-> 0, attemptId |-> NoAttempt,
                  packet |-> NoAttempt, signature |-> {}, tokens |-> TokenBudget,
                  repairs |-> [c \in Required |-> 0], runtimeError |-> "none",
                  outcomes |-> [c \in Required |-> "PASS"], summary |-> s,
                  recorded |-> {}, cleanup |-> NoAttempt,
                  result |-> Pending, reason |-> "none"]
  BY DEF LoopInit
<1>3. loop \in LoopShape
  <2>1. /\ [c \in Required |-> 0] \in [Required -> 0 .. MaxRepairs]
        /\ [c \in Required |-> "PASS"] \in [Required -> Verdicts]
    BY LoopAssumption DEF Verdicts
  <2>2. "top" \in LoopPcs /\ "none" \in RuntimeErrors /\ TokenBudget \in Int
    BY LoopAssumption DEF LoopPcs, RuntimeErrors
  <2>3. 0 \in 0 .. MaxAttempts /\ Pending \in LoopStatus \union {Pending, Threw}
    BY LoopAssumption
  <2>4. "none" \in Reasons
    BY DEF Reasons
  <2>5. {} \in Signatures
    BY DEF Signatures
  <2> QED
    BY <1>2, <2>1, <2>2, <2>3, <2>4, <2>5 DEF LoopShape
<1>4. LocalsAgree /\ LeasesAgree
  BY <1>2, LoopAssumption DEF LoopInit, LocalsAgree, LeasesAgree, BudgetLeft, HasAttempt
<1>5. /\ call[Loop].op = "cancel" /\ call[Loop].pc = "idle"
      /\ Awaited("top") = Operations /\ "cancel" \in Operations
  BY LoopAssumption DEF LoopInit, ServiceInit, Idle, Awaited, Operations, Transitions
<1> QED
  BY <1>1, <1>2, <1>3, <1>4, <1>5, LoopShapeOK
  DEF LoopInv, LoopInit, CallAgrees, Awaiting

-----------------------------------------------------------------------------
(* What an action of the loop does to its locals and to its call. *)

\* The locals that only the work on an attempt changes.
SameWork(m) ==
    /\ m.attemptNumber = loop.attemptNumber /\ m.attemptId = loop.attemptId
    /\ m.packet = loop.packet /\ m.tokens = loop.tokens /\ m.repairs = loop.repairs
    /\ m.outcomes = loop.outcomes /\ m.recorded = loop.recorded
    /\ m.cleanup = loop.cleanup

\* run() is at another await, with the same work in hand.
Moves(pc, result) ==
    /\ loop' \in LoopShape /\ SameWork(loop')
    /\ loop'.pc = pc /\ loop'.result = result
    /\ UNCHANGED <<expired, leases, leaked>>

TablesStay == UNCHANGED <<mission, attempts, criteria, evaluations, events>>

\* An actor a begins a call.
Calling(a, op) ==
    /\ op \in MayCall[a]
    /\ call[a].pc \notin Awaiting
    /\ call'[a].pc = "load" /\ call'[a].op = op
    /\ \A b \in Actors \ {a} : call'[b] = call[b]
    /\ TablesStay

LEMMA CallTransitionDoes ==
    ASSUME TypeInv, NEW a \in Actors, NEW op, CallTransition(a, op)
    PROVE  Calling(a, op) /\ op \in Transitions /\ [ServiceNext]_serviceVars
<1>1. call \in [Actors -> Calls]
  BY DEF TypeInv, ServiceTypeOK
<1>2. op \in Transitions
  BY DEF CallTransition
<1> QED
  BY <1>1, <1>2 DEF CallTransition, Begin, Idle, Calling, TablesStay, ServiceNext

LEMMA CallRecordEvaluationDoes ==
    ASSUME TypeInv, NEW a \in Actors, NEW e \in Evaluations, CallRecordEvaluation(a, e)
    PROVE  /\ Calling(a, "recordEvaluation") /\ call'[a].evaluation = e
           /\ [ServiceNext]_serviceVars
<1>1. call \in [Actors -> Calls]
  BY DEF TypeInv, ServiceTypeOK
<1> QED
  BY <1>1 DEF CallRecordEvaluation, Begin, Idle, Calling, TablesStay, ServiceNext

Moved(l, pc, result, reason) ==
    [l EXCEPT !.pc = pc, !.result = result, !.reason = reason]

LEMMA MovedFields ==
    ASSUME NEW l \in LoopShape, NEW pc \in LoopPcs,
           NEW result \in LoopStatus \union {Pending, Threw}, NEW reason \in Reasons
    PROVE  /\ Moved(l, pc, result, reason) \in LoopShape
           /\ Moved(l, pc, result, reason).pc = pc
           /\ Moved(l, pc, result, reason).result = result
           /\ Moved(l, pc, result, reason).attemptNumber = l.attemptNumber
           /\ Moved(l, pc, result, reason).attemptId = l.attemptId
           /\ Moved(l, pc, result, reason).packet = l.packet
           /\ Moved(l, pc, result, reason).tokens = l.tokens
           /\ Moved(l, pc, result, reason).repairs = l.repairs
           /\ Moved(l, pc, result, reason).outcomes = l.outcomes
           /\ Moved(l, pc, result, reason).recorded = l.recorded
           /\ Moved(l, pc, result, reason).cleanup = l.cleanup
BY DEF LoopShape, Moved

LEMMA MovedDoes ==
    ASSUME loop \in LoopShape, NEW pc \in LoopPcs,
           NEW result \in LoopStatus \union {Pending, Threw}, NEW reason \in Reasons,
           loop' = Moved(loop, pc, result, reason), Stay
    PROVE  Moves(pc, result)
BY MovedFields DEF Stay, Moves, SameWork

LEMMA SettleDoes ==
    ASSUME loop \in LoopShape, NEW pc \in LoopPcs,
           NEW result \in LoopStatus \union {Pending, Threw}, NEW reason \in Reasons,
           Settle(pc, result, reason)
    PROVE  Moves(pc, result) /\ UNCHANGED serviceVars
<1>1. loop' = Moved(loop, pc, result, reason) /\ Stay /\ UNCHANGED serviceVars
  BY DEF Settle, Moved
<1> QED
  BY <1>1, MovedDoes

LEMMA StopWithDoes ==
    ASSUME TypeInv, loop \in LoopShape, NEW pc \in LoopPcs, NEW op,
           NEW result \in LoopStatus, NEW reason \in Reasons,
           StopWith(op, pc, loop, result, reason)
    PROVE  Moves(pc, result) /\ Calling(Loop, op) /\ [ServiceNext]_serviceVars
<1>1. CallTransition(Loop, op) /\ Stay
      /\ loop' = Moved(loop, pc, result, reason)
  BY DEF StopWith, Moved
<1>2. Moves(pc, result)
  BY <1>1, MovedDoes
<1>3. Calling(Loop, op) /\ [ServiceNext]_serviceVars
  BY <1>1, CallTransitionDoes, LoopAssumption
<1> QED
  BY <1>2, <1>3

LEMMA AskForDoes ==
    ASSUME TypeInv, loop \in LoopShape, NEW pc \in LoopPcs, NEW op, AskFor(op, pc)
    PROVE  Moves(pc, loop.result) /\ Calling(Loop, op) /\ [ServiceNext]_serviceVars
<1>1. [loop EXCEPT !.pc = pc] \in LoopShape
  BY DEF LoopShape
<1>2. CallTransition(Loop, op) /\ Stay /\ loop' = [loop EXCEPT !.pc = pc]
  BY DEF AskFor
<1>3. Moves(pc, loop.result)
  BY <1>1, <1>2 DEF Stay, Moves, SameWork, LoopShape
<1>4. Calling(Loop, op) /\ [ServiceNext]_serviceVars
  BY <1>2, CallTransitionDoes, LoopAssumption
<1> QED
  BY <1>3, <1>4

LEMMA Names ==
    /\ {"top", "awaitStopAtTop", "awaitRepairing", "awaitStart", "running", "awaitVerifying",
        "evaluating", "recording", "awaitStop", "catch", "finally", "done"} = LoopPcs
    /\ {"completed", "cancelled", "failed", "stuck", "blocked"} = LoopStatus
    /\ {"completed", "stuck", "repair_cap", "attempt_cap", "token_budget",
        "wall_clock_budget", "cancelled", "needs_input", "runtime_incompatible",
        "illegal_transition", "invariant_violation", "repo_error", "none", "getMission",
        "evaluator"} = Reasons
BY DEF LoopPcs, InTry, LoopStatus, Reasons, MissionLoopStopReason, Errors

LEMMA TopOfLoopDoes ==
    ASSUME LoopInv, TopOfLoop
    PROVE  /\ loop.pc = "top"
           /\ \/ /\ UNCHANGED serviceVars
                 /\ \/ Moves("done", "cancelled") /\ mission.status = "cancelled"
                    \/ Moves("done", Threw)
              \/ /\ [ServiceNext]_serviceVars
                 /\ \/ Moves("awaitStopAtTop", "failed") /\ Calling(Loop, "toFailed")
                    \/ Moves("awaitRepairing", loop.result) /\ Calling(Loop, "toRepairing")
                    \/ Moves("awaitStart", loop.result) /\ Calling(Loop, "startAttempt")
<1> USE Names
<1>0. TypeInv /\ loop \in LoopShape
  BY LoopShapeOK DEF LoopInv
<1>1. CASE Settle("done", "cancelled", "cancelled") /\ mission.status = "cancelled"
  BY <1>0, <1>1, SettleDoes DEF TopOfLoop
<1>2. CASE Settle("done", Threw, "getMission") \/ Settle("done", Threw, "invariant_violation")
  BY <1>0, <1>2, SettleDoes DEF TopOfLoop
<1>3. CASE StopWith("toFailed", "awaitStopAtTop", loop, "failed", "wall_clock_budget")
  BY <1>0, <1>3, StopWithDoes DEF TopOfLoop
<1>4. CASE AskFor("toRepairing", "awaitRepairing")
  BY <1>0, <1>4, AskForDoes DEF TopOfLoop
<1>5. CASE AskFor("startAttempt", "awaitStart")
  BY <1>0, <1>5, AskForDoes DEF TopOfLoop
<1> QED
  BY <1>1, <1>2, <1>3, <1>4, <1>5 DEF TopOfLoop

LEMMA StoppedAtTopDoes ==
    ASSUME LoopInv, StoppedAtTop
    PROVE  /\ loop.pc = "awaitStopAtTop" /\ UNCHANGED serviceVars
           /\ \/ Moves("done", loop.result) /\ call[Loop].pc = "returned"
              \/ Moves("done", Threw) /\ call[Loop].pc \in Errors
<1> USE Names
<1>0. loop \in LoopShape
  BY LoopShapeOK DEF LoopInv
<1>1. loop.result \in LoopStatus \union {Pending, Threw} /\ loop.reason \in Reasons
  BY <1>0 DEF LoopShape
<1>2. CASE call[Loop].pc = "returned" /\ Settle("done", loop.result, loop.reason)
  BY <1>0, <1>1, <1>2, SettleDoes DEF StoppedAtTop
<1>3. CASE call[Loop].pc \in Errors /\ Settle("done", Threw, call[Loop].pc)
  BY <1>0, <1>3, SettleDoes DEF StoppedAtTop, Errors
<1> QED
  BY <1>2, <1>3 DEF StoppedAtTop

LEMMA RepairingEnteredDoes ==
    ASSUME LoopInv, RepairingEntered
    PROVE  /\ loop.pc = "awaitRepairing" /\ [ServiceNext]_serviceVars
           /\ Moves("awaitStart", loop.result) /\ Calling(Loop, "startAttempt")
BY Names, AskForDoes, LoopShapeOK DEF LoopInv, RepairingEntered

LEMMA AttemptStartedDoes ==
    ASSUME LoopInv, AttemptStarted
    PROVE  /\ loop.pc = "awaitStart" /\ call[Loop].pc = "returned" /\ UNCHANGED serviceVars
           /\ loop' \in LoopShape /\ loop'.pc = "running" /\ loop'.result = loop.result
           /\ loop'.attemptNumber = loop.attemptNumber + 1
           /\ loop'.attemptId = call[Loop].fresh /\ loop'.attemptId \in Attempts
           /\ loop'.repairs = loop.repairs /\ loop'.cleanup = loop.cleanup
           /\ UNCHANGED <<expired, leases, leaked>>
<1>1. loop \in LoopShape /\ loop.pc = "awaitStart" /\ call[Loop].pc = "returned"
  BY LoopShapeOK DEF LoopInv, AttemptStarted
<1>2. loop.attemptNumber + 1 \in 0 .. MaxAttempts
  BY <1>1, LoopAssumption DEF LoopInv, LocalsAgree, MayLaunch, BudgetLeft, LoopShape
<1>3. call[Loop].fresh \in Attempts
  BY <1>1 DEF LoopInv, CallAgrees, Awaited
<1> QED
  BY ZenonT(60), <1>1, <1>2, <1>3, Names DEF AttemptStarted, Stay, LoopShape

Debited(l, error, tokens, cleanup) ==
    [l EXCEPT !.runtimeError = error, !.tokens = tokens, !.cleanup = cleanup]

LEMMA DebitedFields ==
    ASSUME NEW l \in LoopShape, NEW error \in RuntimeErrors, NEW tokens \in Int,
           NEW cleanup \in Attempts \union {NoAttempt}
    PROVE  /\ Debited(l, error, tokens, cleanup) \in LoopShape
           /\ Debited(l, error, tokens, cleanup).attemptId = l.attemptId
           /\ Debited(l, error, tokens, cleanup).attemptNumber = l.attemptNumber
           /\ Debited(l, error, tokens, cleanup).repairs = l.repairs
           /\ Debited(l, error, tokens, cleanup).result = l.result
           /\ Debited(l, error, tokens, cleanup).cleanup = cleanup
BY DEF LoopShape, Debited

LEMMA AttemptReturnsDoes ==
    ASSUME LoopInv, AttemptReturns
    PROVE  /\ loop.pc = "running" /\ [ServiceNext]_serviceVars
           /\ loop' \in LoopShape /\ loop'.attemptId = loop.attemptId
           /\ loop'.repairs = loop.repairs /\ loop'.attemptNumber = loop.attemptNumber
           /\ \/ /\ loop'.pc = "awaitStop" /\ loop'.result = "failed"
                 /\ Calling(Loop, "toFailed")
              \/ /\ loop'.pc = "awaitVerifying" /\ loop'.result = loop.result
                 /\ Calling(Loop, "beginVerifying")
           /\ \/ loop'.cleanup = NoAttempt /\ UNCHANGED leases
              \/ loop'.cleanup = loop.attemptId /\ leases' = leases \union {loop.attemptId}
           /\ UNCHANGED <<expired, leaked>>
<1>0. TypeInv /\ loop \in LoopShape /\ loop.pc = "running"
  BY LoopShapeOK DEF LoopInv, AttemptReturns
<1>1. PICK usage \in 0 .. MaxUsage, error \in RuntimeErrors :
          LET l == [loop EXCEPT
                       !.runtimeError = error,
                       !.tokens = IF TokenBudget = 0 THEN @ ELSE @ - usage,
                       !.cleanup = IF error = "none" THEN loop.attemptId ELSE NoAttempt]
          IN  /\ IF error = "wall_clock_budget" \/ expired
                 THEN /\ CallTransition(Loop, "toFailed")
                      /\ loop' = [l EXCEPT !.pc = "awaitStop", !.result = "failed",
                                           !.reason = "wall_clock_budget"]
                 ELSE /\ CallTransition(Loop, "beginVerifying")
                      /\ loop' = [l EXCEPT !.pc = "awaitVerifying"]
              /\ leases' = IF error = "none" THEN leases \union {loop.attemptId} ELSE leases
  BY DEF AttemptReturns
<1> DEFINE tokens  == IF TokenBudget = 0 THEN loop.tokens ELSE loop.tokens - usage
           cleanup == IF error = "none" THEN loop.attemptId ELSE NoAttempt
           l == Debited(loop, error, tokens, cleanup)
<1>2. /\ tokens \in Int /\ cleanup \in Attempts \union {NoAttempt}
  BY <1>0, LoopAssumption DEF LoopShape
<1>3. /\ \/ /\ CallTransition(Loop, "toFailed")
            /\ loop' = Moved(l, "awaitStop", "failed", "wall_clock_budget")
         \/ /\ CallTransition(Loop, "beginVerifying")
            /\ loop' = [l EXCEPT !.pc = "awaitVerifying"]
      /\ leases' = IF error = "none" THEN leases \union {loop.attemptId} ELSE leases
  BY <1>1 DEF Moved, Debited
<1> HIDE DEF tokens, cleanup
<1>4. /\ l \in LoopShape /\ l.attemptId = loop.attemptId /\ l.repairs = loop.repairs
      /\ l.result = loop.result /\ l.cleanup = cleanup /\ l.attemptNumber = loop.attemptNumber
  BY <1>0, <1>2, DebitedFields
<1>5. /\ UNCHANGED <<expired, leaked>>
      /\ \/ cleanup = NoAttempt /\ UNCHANGED leases
         \/ cleanup = loop.attemptId /\ leases' = leases \union {loop.attemptId}
  BY <1>3 DEF AttemptReturns, cleanup
<1> HIDE DEF l
<1>6. CASE /\ CallTransition(Loop, "toFailed")
           /\ loop' = Moved(l, "awaitStop", "failed", "wall_clock_budget")
  <2>0. /\ "awaitStop" \in LoopPcs /\ "wall_clock_budget" \in Reasons
        /\ "failed" \in LoopStatus \union {Pending, Threw}
    BY Names
  <2>1. /\ loop' \in LoopShape /\ loop'.attemptId = l.attemptId /\ loop'.repairs = l.repairs
        /\ loop'.pc = "awaitStop" /\ loop'.result = "failed" /\ loop'.cleanup = l.cleanup
    BY <1>4, <1>6, <2>0, MovedFields
  <2>2. loop'.attemptNumber = l.attemptNumber
    BY <1>4, <1>6 DEF Moved, LoopShape
  <2>3. Calling(Loop, "toFailed") /\ [ServiceNext]_serviceVars
    BY <1>0, <1>6, CallTransitionDoes, LoopAssumption
  <2>4. /\ loop'.attemptId = loop.attemptId /\ loop'.repairs = loop.repairs
        /\ loop'.attemptNumber = loop.attemptNumber /\ loop'.cleanup = cleanup
    BY <1>4, <2>1, <2>2
  <2>5. \/ loop'.cleanup = NoAttempt /\ UNCHANGED leases
        \/ loop'.cleanup = loop.attemptId /\ leases' = leases \union {loop.attemptId}
    BY <1>5, <2>4
  <2> QED
    BY <1>0, <1>5, <2>1, <2>3, <2>4, <2>5
<1>7. CASE /\ CallTransition(Loop, "beginVerifying")
           /\ loop' = [l EXCEPT !.pc = "awaitVerifying"]
  <2>1. /\ loop' \in LoopShape /\ loop'.attemptId = l.attemptId /\ loop'.repairs = l.repairs
        /\ loop'.pc = "awaitVerifying" /\ loop'.result = l.result /\ loop'.cleanup = l.cleanup
        /\ loop'.attemptNumber = l.attemptNumber
    BY <1>4, <1>7, Names DEF LoopShape
  <2>2. Calling(Loop, "beginVerifying") /\ [ServiceNext]_serviceVars
    BY <1>0, <1>7, CallTransitionDoes, LoopAssumption
  <2> QED
    BY <1>0, <1>4, <1>5, <2>1, <2>2
<1> QED
  BY <1>3, <1>6, <1>7

LEMMA VerifyingEnteredDoes ==
    ASSUME LoopInv, VerifyingEntered
    PROVE  /\ loop.pc = "awaitVerifying" /\ call[Loop].pc = "returned"
           /\ [ServiceNext]_serviceVars
           /\ \/ Moves("awaitStop", "blocked") /\ Calling(Loop, "toBlocked")
              \/ Moves("evaluating", loop.result) /\ UNCHANGED serviceVars
<1> USE Names
<1>0. TypeInv /\ loop \in LoopShape
  BY LoopShapeOK DEF LoopInv
<1>1. loop.result \in LoopStatus \union {Pending, Threw} /\ loop.reason \in Reasons
  BY <1>0 DEF LoopShape
<1>2. CASE StopWith("toBlocked", "awaitStop", loop, "blocked", "runtime_incompatible")
  BY <1>0, <1>2, StopWithDoes DEF VerifyingEntered
<1>3. CASE Settle("evaluating", loop.result, loop.reason)
  BY <1>0, <1>1, <1>3, SettleDoes DEF VerifyingEntered
<1> QED
  BY <1>2, <1>3 DEF VerifyingEntered

LEMMA EvaluateDoes ==
    ASSUME LoopInv, Evaluate
    PROVE  /\ loop.pc = "evaluating" /\ UNCHANGED serviceVars
           /\ \/ Moves("finally", Threw)
              \/ /\ loop' \in LoopShape /\ loop'.pc = "recording"
                 /\ loop'.result = loop.result /\ loop'.recorded = {}
                 /\ loop'.attemptId = loop.attemptId /\ loop'.repairs = loop.repairs
                 /\ loop'.cleanup = loop.cleanup /\ loop'.attemptNumber = loop.attemptNumber
                 /\ UNCHANGED <<expired, leases, leaked>>
<1> USE Names
<1>0. loop \in LoopShape
  BY LoopShapeOK DEF LoopInv
<1>1. CASE Settle("finally", Threw, "evaluator")
  BY <1>0, <1>1, SettleDoes DEF Evaluate
<1>2. ASSUME NEW o \in [Required -> Verdicts], NEW s \in Summaries, Stay, UNCHANGED serviceVars,
             loop.pc = "evaluating",
             loop' = [loop EXCEPT !.pc = "recording", !.outcomes = o,
                                  !.summary = s, !.recorded = {}]
      PROVE  /\ loop' \in LoopShape /\ loop'.pc = "recording"
             /\ loop'.result = loop.result /\ loop'.recorded = {}
             /\ loop'.attemptId = loop.attemptId /\ loop'.repairs = loop.repairs
             /\ loop'.cleanup = loop.cleanup /\ loop'.attemptNumber = loop.attemptNumber
  BY ZenonT(60), <1>0, <1>2 DEF LoopShape
<1> QED
  BY <1>1, <1>2 DEF Evaluate, Stay

\* The evaluation a criterion is given.
EvaluationOf(c) == [criterion |-> c, attempt |-> loop.attemptId, verdict |-> loop.outcomes[c]]

LEMMA RecordNextDoes ==
    ASSUME LoopInv, RecordNext
    PROVE  /\ loop.pc = "recording" /\ call[Loop].pc = "returned"
           /\ [ServiceNext]_serviceVars
           /\ Calling(Loop, "recordEvaluation")
           /\ loop' \in LoopShape /\ loop'.pc = "recording"
           /\ loop'.result = loop.result /\ loop'.outcomes = loop.outcomes
           /\ loop'.attemptId = loop.attemptId /\ loop'.repairs = loop.repairs
           /\ loop'.cleanup = loop.cleanup /\ loop'.attemptNumber = loop.attemptNumber
           /\ \E c \in Required \ loop.recorded :
                  /\ loop'.recorded = loop.recorded \union {c}
                  /\ call'[Loop].evaluation = EvaluationOf(c)
           /\ UNCHANGED <<expired, leases, leaked>>
<1>0. TypeInv /\ loop \in LoopShape /\ loop.pc = "recording" /\ call[Loop].pc = "returned"
  BY LoopShapeOK DEF LoopInv, RecordNext
<1>1. PICK c \in Required \ loop.recorded :
          /\ CallRecordEvaluation(Loop, EvaluationOf(c))
          /\ loop' = [loop EXCEPT !.recorded = @ \union {c}]
  BY DEF RecordNext, EvaluationOf
<1>2. EvaluationOf(c) \in Evaluations
  <2>1. loop.attemptId \in Attempts /\ loop.outcomes[c] \in Verdicts
    BY <1>0 DEF LoopInv, LocalsAgree, HasAttempt, LoopShape
  <2> QED
    BY <2>1, CriteriaAssumption DEF EvaluationOf, Evaluations
<1>3. /\ Calling(Loop, "recordEvaluation") /\ call'[Loop].evaluation = EvaluationOf(c)
      /\ [ServiceNext]_serviceVars
  BY <1>0, <1>1, <1>2, CallRecordEvaluationDoes, LoopAssumption
<1>4. /\ loop' \in LoopShape /\ loop'.pc = "recording"
      /\ loop'.result = loop.result /\ loop'.outcomes = loop.outcomes
      /\ loop'.attemptId = loop.attemptId /\ loop'.repairs = loop.repairs
      /\ loop'.cleanup = loop.cleanup /\ loop'.attemptNumber = loop.attemptNumber
      /\ loop'.recorded = loop.recorded \union {c}
  BY <1>0, <1>1 DEF LoopShape
<1> QED
  BY <1>0, <1>3, <1>4 DEF RecordNext, Stay

Decides ==
    DecideExpired \/ DecideComplete \/ DecideBlocked \/ DecideStop

LEMMA DecidesDoes ==
    ASSUME LoopInv, Decides
    PROVE  /\ Recorded /\ [ServiceNext]_serviceVars
           /\ \/ Moves("awaitStop", "completed") /\ Calling(Loop, "completeMission") /\ AllPass
              \/ Moves("awaitStop", "blocked") /\ Calling(Loop, "toBlocked")
              \/ /\ Moves("awaitStop", "failed") \/ Moves("awaitStop", "stuck")
                 /\ Calling(Loop, "toFailed")
<1>0. TypeInv /\ loop \in LoopShape
  BY LoopShapeOK DEF LoopInv
<1>1. CASE DecideExpired
  BY <1>0, <1>1, Names, StopWithDoes DEF DecideExpired
<1>2. CASE DecideComplete
  BY <1>0, <1>2, Names, StopWithDoes DEF DecideComplete
<1>3. CASE DecideBlocked
  BY <1>0, <1>3, Names, StopWithDoes DEF DecideBlocked
<1>4. CASE DecideStop
  <2>1. decideBoundedLoop(loop) \in {"stuck", "attempt_cap", "token_budget", "continue"}
    BY DEF decideBoundedLoop
  <2>2. PICK result \in {"stuck", "failed"},
             reason \in {"stuck", "attempt_cap", "token_budget", "repair_cap"} :
            StopWith("toFailed", "awaitStop", loop, result, reason)
    BY <1>4, <2>1 DEF DecideStop
  <2>3. Moves("awaitStop", result) /\ Calling(Loop, "toFailed") /\ [ServiceNext]_serviceVars
    BY <1>0, <2>2, Names, StopWithDoes
  <2> QED
    BY <1>4, <2>2, <2>3 DEF DecideStop
<1> QED
  BY <1>1, <1>2, <1>3, <1>4 DEF Decides

\* A repair leaves room for another attempt and another repair.
LEMMA DecideRepairDoes ==
    ASSUME LoopInv, DecideRepair
    PROVE  /\ Recorded /\ UNCHANGED serviceVars
           /\ loop' \in LoopShape /\ loop'.pc = "finally" /\ loop'.result = loop.result
           /\ BudgetLeft(loop')
           /\ loop'.attemptId = loop.attemptId /\ loop'.cleanup = loop.cleanup
           /\ loop'.attemptNumber = loop.attemptNumber
           /\ \A c \in Required :
                 loop'.repairs[c] = IF loop.outcomes[c] = "FAIL" THEN loop.repairs[c] + 1
                                                                 ELSE loop.repairs[c]
           /\ UNCHANGED <<expired, leases, leaked>>
<1> DEFINE signature == computeFailureSignature(loop.outcomes, loop.summary)
           repairs == [c \in Required |-> IF c \in ProductFails(loop.outcomes)
                                          THEN loop.repairs[c] + 1 ELSE loop.repairs[c]]
<1>0. loop \in LoopShape /\ Recorded /\ loop.pc = "recording"
  BY LoopShapeOK DEF LoopInv, DecideRepair, Recorded
<1>1. loop' = [loop EXCEPT !.pc = "finally", !.packet = loop.attemptId,
                           !.signature = signature, !.repairs = repairs]
  BY DEF DecideRepair
<1>2. signature \in Signatures
  BY <1>0 DEF computeFailureSignature, ProductFails, InfraFails, Having, Signatures, LoopShape
<1>3. \A c \in Required : c \in ProductFails(loop.outcomes) <=> loop.outcomes[c] = "FAIL"
  BY DEF ProductFails, Having
<1>4. \A c \in ProductFails(loop.outcomes) : loop.repairs[c] < MaxRepairs
  <2>1. \A c \in ProductFails(loop.outcomes) : loop.repairs[c] \in Int /\ MaxRepairs \in Int
    BY <1>0, LoopAssumption DEF LoopShape, ProductFails, Having
  <2> QED
    BY <2>1 DEF DecideRepair, CapExceeded
<1>5. repairs \in [Required -> 0 .. MaxRepairs]
  BY <1>0, <1>4, LoopAssumption DEF LoopShape
<1>6. BudgetLeft(loop)
  <2>1. /\ ~(loop.attemptNumber >= MaxAttempts)
        /\ ~(TokenBudget # 0 /\ loop.tokens <= 0)
    BY DEF DecideRepair, decideBoundedLoop
  <2> QED
    BY <1>0, <2>1, LoopAssumption DEF BudgetLeft, LoopShape
<1>7. loop.attemptId \in Attempts
  BY <1>0 DEF LoopInv, LocalsAgree, HasAttempt
<1> HIDE DEF signature, repairs
<1>8. /\ loop' \in LoopShape /\ loop'.pc = "finally" /\ loop'.result = loop.result
      /\ loop'.attemptNumber = loop.attemptNumber /\ loop'.tokens = loop.tokens
      /\ loop'.attemptId = loop.attemptId /\ loop'.cleanup = loop.cleanup
      /\ loop'.repairs = repairs
  BY <1>0, <1>1, <1>2, <1>5, <1>7, Names DEF LoopShape
<1>9. BudgetLeft(loop')
  BY <1>6, <1>8 DEF BudgetLeft
<1> QED
  BY <1>0, <1>3, <1>8, <1>9 DEF DecideRepair, Stay, repairs

LEMMA StoppedDoes ==
    ASSUME LoopInv, Stopped
    PROVE  /\ loop.pc = "awaitStop" /\ call[Loop].pc = "returned" /\ UNCHANGED serviceVars
           /\ Moves("finally", loop.result) /\ loop.result \in LoopStatus
<1>0. loop \in LoopShape
  BY LoopShapeOK DEF LoopInv
<1> QED
  BY <1>0, Names, SettleDoes DEF Stopped, LoopInv, LocalsAgree, LoopShape

LEMMA ThrownInTryDoes ==
    ASSUME LoopInv, ThrownInTry
    PROVE  /\ loop.pc \in InTry /\ call[Loop].pc \in Errors /\ UNCHANGED serviceVars
           /\ \/ Moves("catch", Pending) /\ call[Loop].pc = "illegal_transition"
              \/ Moves("finally", Threw)
<1>0. loop \in LoopShape /\ Errors \subseteq Reasons
  BY LoopShapeOK DEF LoopInv, Reasons
<1>1. CASE call[Loop].pc = "illegal_transition"
  BY <1>0, <1>1, Names, SettleDoes DEF ThrownInTry
<1>2. CASE call[Loop].pc # "illegal_transition"
  BY <1>0, <1>2, Names, SettleDoes DEF ThrownInTry
<1> QED
  BY <1>1, <1>2

LEMMA CatchConflictDoes ==
    ASSUME LoopInv, CatchConflict
    PROVE  /\ loop.pc = "catch" /\ UNCHANGED serviceVars
           /\ \/ Moves("finally", "cancelled") /\ mission.status = "cancelled"
              \/ Moves("finally", Threw)
<1>0. loop \in LoopShape
  BY LoopShapeOK DEF LoopInv
<1> QED
  BY <1>0, Names, SettleDoes DEF CatchConflict

LEMMA CleanUpDoes ==
    ASSUME LoopInv, CleanUp
    PROVE  /\ loop.pc = "finally" /\ UNCHANGED <<serviceVars, expired>>
           /\ loop' \in LoopShape /\ loop'.result = loop.result
           /\ loop'.pc = IF loop.result = Pending THEN "top" ELSE "done"
           /\ loop'.cleanup = NoAttempt
           /\ loop'.attemptNumber = loop.attemptNumber /\ loop'.tokens = loop.tokens
           /\ loop'.attemptId = loop.attemptId /\ loop'.repairs = loop.repairs
           /\ \/ leases' = leases \ {loop.cleanup} /\ UNCHANGED leaked
              \/ leaked' = leaked \union {loop.cleanup} /\ loop.cleanup # NoAttempt
                 /\ UNCHANGED leases
<1>0. loop \in LoopShape
  BY LoopShapeOK DEF LoopInv
<1> DEFINE pc == IF loop.result = Pending THEN "top" ELSE "done"
           l  == [loop EXCEPT !.pc = pc, !.cleanup = NoAttempt]
<1>1. loop' = l
  BY DEF CleanUp
<1>2. pc \in LoopPcs
  BY DEF LoopPcs
<1> HIDE DEF pc
<1>3. /\ l \in LoopShape /\ l.pc = pc /\ l.cleanup = NoAttempt /\ l.result = loop.result
      /\ l.attemptNumber = loop.attemptNumber /\ l.tokens = loop.tokens
      /\ l.attemptId = loop.attemptId /\ l.repairs = loop.repairs
  BY <1>0, <1>2 DEF LoopShape
<1> HIDE DEF l
<1> QED
  BY <1>1, <1>3 DEF CleanUp, pc

-----------------------------------------------------------------------------
(* The invariant is kept. *)

LEMMA AwaitedAt ==
    /\ Awaited("awaitStopAtTop") = {"toFailed"}
    /\ Awaited("awaitRepairing") = {"toRepairing"}
    /\ Awaited("awaitStart") = {"startAttempt"} /\ Awaited("running") = {"startAttempt"}
    /\ Awaited("awaitVerifying") = {"beginVerifying"}
    /\ Awaited("evaluating") = {"beginVerifying"}
    /\ Awaited("recording") = {"beginVerifying", "recordEvaluation"}
    /\ Awaited("awaitStop") = {"completeMission", "toFailed", "toBlocked"}
    /\ \A pc \in {"top", "catch", "finally", "done"} : Awaited(pc) = Operations
BY DEF Awaited

LoopCall ==
    /\ call[Loop].op \in Operations /\ call'[Loop].op \in Operations
    /\ "load" \in Awaiting /\ "returned" \notin Awaiting /\ "load" # "returned"
    /\ Errors \intersect Awaiting = {}

\* The parts of LoopInv that a step of the loop itself has to keep.
OwnParts ==
    /\ loop \in LoopShape /\ expired \in BOOLEAN
    /\ leases \subseteq Attempts /\ leaked \subseteq Attempts
    /\ LocalsAgree /\ LeasesAgree /\ CallAgrees

LEMMA LoopInvParts == LoopInv <=> TypeInv /\ OwnParts
BY LoopShapeOK DEF LoopInv, OwnParts

\* A step that only moves the loop on, without a call.
LEMMA MovesKeeps ==
    ASSUME LoopInv, LoopCall, NEW pc, NEW result, Moves(pc, result), call' = call,
           \/ pc = "finally" /\ result # Pending
           \/ pc = "done" /\ loop.cleanup = NoAttempt
           \/ pc = "catch" /\ call[Loop].pc \notin Awaiting
           \/ pc = "evaluating" /\ loop.pc = "awaitVerifying" /\ call[Loop].pc = "returned",
           call[Loop].pc \notin Awaiting
    PROVE  OwnParts'
<1>0. LoopInv /\ OwnParts
  BY LoopInvParts
<1>1. /\ loop' \in LoopShape /\ expired' \in BOOLEAN
      /\ leases' \subseteq Attempts /\ leaked' \subseteq Attempts
  BY <1>0 DEF Moves, OwnParts
<1>2. LocalsAgree'
  BY <1>0 DEF Moves, SameWork, OwnParts, LocalsAgree, MayLaunch, HasAttempt
<1>3. LeasesAgree'
  BY <1>0 DEF Moves, SameWork, OwnParts, LeasesAgree
<1>4. CallAgrees'
  BY <1>0, AwaitedAt DEF Moves, OwnParts, CallAgrees, LoopCall
<1> QED
  BY <1>1, <1>2, <1>3, <1>4 DEF OwnParts

\* A step that makes a call and waits for it.
LEMMA CallsKeeps ==
    ASSUME LoopInv, LoopCall, NEW pc, NEW result, Moves(pc, result),
           NEW op, Calling(Loop, op), op \in Awaited(pc),
           \/ pc = "awaitStop" /\ result \in LoopStatus /\ loop.pc \in HasAttempt
           \/ pc = "awaitStopAtTop" /\ loop.cleanup = NoAttempt
           \/ pc \in {"awaitRepairing", "awaitStart"} /\ loop.pc \in {"top", "awaitRepairing"}
    PROVE  OwnParts'
<1>0. LoopInv /\ OwnParts
  BY LoopInvParts
<1>1. /\ loop' \in LoopShape /\ expired' \in BOOLEAN
      /\ leases' \subseteq Attempts /\ leaked' \subseteq Attempts
  BY <1>0 DEF Moves, OwnParts
<1>2. CallAgrees'
  <2>1. /\ call'[Loop].op = op /\ call'[Loop].pc = "load" /\ loop'.pc = pc
        /\ pc \in {"awaitStop", "awaitStopAtTop", "awaitRepairing", "awaitStart"}
    BY DEF Calling, Moves
  <2> QED
    BY <2>1 DEF CallAgrees, LoopCall
<1>3. LeasesAgree'
  BY <1>0 DEF Moves, SameWork, OwnParts, LeasesAgree
<1>4. LocalsAgree'
  <2>1. CASE pc = "awaitStop" /\ result \in LoopStatus /\ loop.pc \in HasAttempt
    BY <1>0, <2>1 DEF Moves, SameWork, OwnParts, LocalsAgree, MayLaunch, HasAttempt
  <2>2. CASE pc = "awaitStopAtTop"
    BY <1>0, <2>2 DEF Moves, LocalsAgree, MayLaunch, HasAttempt
  <2>3. CASE pc \in {"awaitRepairing", "awaitStart"}
    BY <1>0, <2>3 DEF Moves, SameWork, OwnParts, LocalsAgree, MayLaunch, BudgetLeft, HasAttempt
  <2> QED
    BY <2>1, <2>2, <2>3
<1> QED
  BY <1>1, <1>2, <1>3, <1>4 DEF OwnParts

LEMMA LoopCallOK ==
    ASSUME TypeInv, TypeInv'
    PROVE  LoopCall
<1>1. call[Loop] \in Calls /\ call'[Loop] \in Calls
  BY LoopAssumption DEF TypeInv, ServiceTypeOK
<1> QED
  BY <1>1 DEF LoopCall, Calls, Awaiting, Errors

\* To the service the loop is one more actor.
LEMMA LoopStepServes ==
    ASSUME LoopInv, LoopStep
    PROVE  [ServiceNext]_serviceVars
BY TopOfLoopDoes, StoppedAtTopDoes, RepairingEnteredDoes, AttemptStartedDoes,
   AttemptReturnsDoes, VerifyingEnteredDoes, EvaluateDoes, RecordNextDoes, DecidesDoes,
   DecideRepairDoes, StoppedDoes, ThrownInTryDoes, CatchConflictDoes, CleanUpDoes
DEF LoopStep, Decides

\* With no cleanup registered, a lease that is open is a leaked one.
LEMMA NothingHeld ==
    ASSUME LeasesAgree, leases \subseteq Attempts,
           loop.cleanup = NoAttempt \/ loop.pc \in {"running", "top", "done"}
    PROVE  leases \subseteq leaked
<1>1. loop.cleanup = NoAttempt /\ NoAttempt \notin Attempts
  BY DEF LeasesAgree, Attempts, NoAttempt
<1> QED
  BY <1>1 DEF LeasesAgree

LEMMA LoopStepKeeps ==
    ASSUME LoopInv, LoopStep, LoopCall
    PROVE  OwnParts'
<1>0. LoopInv /\ OwnParts
  BY LoopInvParts
<1>1. CASE TopOfLoop
  <2>0. loop.pc = "top" /\ loop.cleanup = NoAttempt /\ call[Loop].pc \notin Awaiting
    BY <1>0, <1>1, TopOfLoopDoes DEF OwnParts, LeasesAgree, CallAgrees
  <2> QED
    BY <1>1, <2>0, TopOfLoopDoes, MovesKeeps, CallsKeeps, AwaitedAt, Names DEF serviceVars
<1>2. CASE StoppedAtTop
  <2>0. loop.pc = "awaitStopAtTop" /\ loop.cleanup = NoAttempt /\ call[Loop].pc \notin Awaiting
    BY <1>0, <1>2, StoppedAtTopDoes DEF OwnParts, LeasesAgree, LoopCall
  <2> QED
    BY <1>2, <2>0, StoppedAtTopDoes, MovesKeeps DEF serviceVars
<1>3. CASE RepairingEntered
  BY <1>3, RepairingEnteredDoes, CallsKeeps, AwaitedAt
<1>4. CASE AttemptStarted
  <2>1. LocalsAgree'
    BY <1>4, AttemptStartedDoes DEF LocalsAgree, MayLaunch
  <2>2. LeasesAgree'
    BY <1>0, <1>4, AttemptStartedDoes DEF OwnParts, LeasesAgree
  <2>3. CallAgrees'
    BY <1>0, <1>4, AttemptStartedDoes, AwaitedAt DEF OwnParts, CallAgrees, LoopCall, serviceVars
  <2> QED
    BY <1>0, <1>4, <2>1, <2>2, <2>3, AttemptStartedDoes DEF OwnParts
<1>5. CASE AttemptReturns
  <2>0. loop.attemptId \in Attempts
    BY <1>0, <1>5, AttemptReturnsDoes DEF OwnParts, LocalsAgree, HasAttempt
  <2>1. LocalsAgree'
    BY <2>0, <1>5, AttemptReturnsDoes, Names DEF LocalsAgree, MayLaunch
  <2>2. LeasesAgree' /\ leases' \subseteq Attempts
    <3>1. loop.pc = "running" /\ leases \subseteq leaked
      BY <1>0, <1>5, AttemptReturnsDoes, NothingHeld DEF OwnParts
    <3>2. /\ loop'.pc \in {"awaitStop", "awaitVerifying"}
          /\ leases' \subseteq leases \union {loop'.cleanup} /\ leases' \subseteq Attempts
          /\ leaked' = leaked
      BY <1>0, <2>0, <1>5, AttemptReturnsDoes DEF OwnParts
    <3> QED
      BY <3>1, <3>2 DEF LeasesAgree
  <2>3. CallAgrees'
    <3>1. /\ call'[Loop].pc = "load"
          /\ \/ loop'.pc = "awaitStop" /\ call'[Loop].op = "toFailed"
             \/ loop'.pc = "awaitVerifying" /\ call'[Loop].op = "beginVerifying"
      BY <1>5, AttemptReturnsDoes DEF Calling
    <3> QED
      BY <3>1, AwaitedAt DEF CallAgrees
  <2> QED
    BY <1>0, <1>5, <2>1, <2>2, <2>3, AttemptReturnsDoes DEF OwnParts
<1>6. CASE VerifyingEntered
  <2>0. loop.pc = "awaitVerifying" /\ call[Loop].pc = "returned" /\ loop.pc \in HasAttempt
    BY <1>6, VerifyingEnteredDoes DEF HasAttempt
  <2> QED
    BY <1>6, <2>0, VerifyingEnteredDoes, MovesKeeps, CallsKeeps, AwaitedAt, Names
    DEF serviceVars, LoopCall
<1>7. CASE Evaluate
  <2>0. loop.pc = "evaluating" /\ call[Loop].pc \notin Awaiting /\ call' = call
    BY <1>0, <1>7, EvaluateDoes DEF OwnParts, CallAgrees, serviceVars
  <2>1. CASE Moves("finally", Threw)
    BY <2>0, <2>1, MovesKeeps DEF Threw, Pending
  <2>2. CASE ~Moves("finally", Threw)
    <3>1. LocalsAgree' /\ LeasesAgree'
      BY <1>0, <1>7, <2>2, EvaluateDoes
      DEF OwnParts, LocalsAgree, MayLaunch, HasAttempt, LeasesAgree
    <3>2. CallAgrees'
      BY <1>0, <1>7, <2>0, <2>2, EvaluateDoes, AwaitedAt DEF OwnParts, CallAgrees, LoopCall
    <3> QED
      BY <1>0, <1>7, <2>2, <3>1, <3>2, EvaluateDoes DEF OwnParts
  <2> QED
    BY <2>1, <2>2
<1>8. CASE RecordNext
  <2>1. LocalsAgree' /\ LeasesAgree'
    BY <1>0, <1>8, RecordNextDoes DEF OwnParts, LocalsAgree, MayLaunch, HasAttempt, LeasesAgree
  <2>2. CallAgrees'
    BY <1>8, RecordNextDoes, AwaitedAt DEF CallAgrees, Calling, LoopCall
  <2> QED
    BY <1>0, <1>8, <2>1, <2>2, RecordNextDoes DEF OwnParts
<1>9. CASE Decides
  <2>0. loop.pc \in HasAttempt
    BY <1>9, DecidesDoes DEF Recorded, HasAttempt
  <2> QED
    BY <1>9, <2>0, DecidesDoes, CallsKeeps, AwaitedAt, Names
<1>10. CASE DecideRepair
  <2>1. LocalsAgree' /\ LeasesAgree'
    BY <1>0, <1>10, DecideRepairDoes DEF OwnParts, LocalsAgree, HasAttempt, LeasesAgree
  <2>2. CallAgrees'
    BY <1>0, <1>10, DecideRepairDoes, AwaitedAt
    DEF OwnParts, CallAgrees, LoopCall, Recorded, serviceVars
  <2> QED
    BY <1>0, <1>10, <2>1, <2>2, DecideRepairDoes DEF OwnParts
<1>11. CASE Stopped
  BY <1>11, StoppedDoes, MovesKeeps DEF serviceVars, LoopCall, LoopStatus, Pending
<1>12. CASE ThrownInTry
  BY <1>12, ThrownInTryDoes, MovesKeeps DEF serviceVars, LoopCall, Threw, Pending
<1>13. CASE CatchConflict
  <2>0. loop.pc = "catch" /\ call[Loop].pc \notin Awaiting /\ call' = call
    BY <1>0, <1>13, CatchConflictDoes DEF OwnParts, CallAgrees, serviceVars
  <2> QED
    BY <1>13, <2>0, CatchConflictDoes, MovesKeeps DEF Threw, Pending
<1>14. CASE CleanUp
  <2>0. loop.cleanup \in Attempts \union {NoAttempt}
    BY <1>0 DEF OwnParts, LoopShape
  <2>1. LocalsAgree'
    BY <1>0, <1>14, CleanUpDoes DEF OwnParts, LocalsAgree, MayLaunch, BudgetLeft, HasAttempt
  <2>2. LeasesAgree' /\ leases' \subseteq Attempts /\ leaked' \subseteq Attempts
    BY <1>0, <1>14, <2>0, CleanUpDoes DEF OwnParts, LeasesAgree
  <2>3. CallAgrees'
    BY <1>0, <1>14, CleanUpDoes, AwaitedAt DEF OwnParts, CallAgrees, LoopCall, serviceVars
  <2> QED
    BY <1>0, <1>14, <2>1, <2>2, <2>3, CleanUpDoes DEF OwnParts
<1> QED
  BY <1>1, <1>2, <1>3, <1>4, <1>5, <1>6, <1>7, <1>8, <1>9, <1>10, <1>11, <1>12, <1>13, <1>14
  DEF LoopStep, Decides

\* A call keeps what it was given, and tells by its program counter what it wrote.
Writes(a) ==
    /\ call'[a].evaluation = call[a].evaluation
    /\ call'[a].fresh = call[a].fresh \/ call[a].pc = "insert"
    /\ call'[a].current \in {call[a].current, mission.attempt}
    /\ call'[a].pc \in {"list", "insert", "insertEvaluation"} => call[a].pc \in {"load", "list"}
    /\ call'[a].pc = "cas" /\ call[a].op = "startAttempt" => InsertAttempt(a)
    /\ call'[a].pc = "returned" => WriteEvent(a) \/ SetLastEvaluation(a)
    /\ call'[a].pc = "event" =>
           FinalizeAttempt(a) \/ (call[a].pc \in {"cas", "update"} /\ mission' = Written(call[a]))

LEMMA RepoStepWrites ==
    ASSUME TypeInv, NEW a \in Actors, RepoStep(a)
    PROVE  Writes(a)
<1>0. call \in [Actors -> Calls] /\ call[a] \in Calls
  BY DEF TypeInv, ServiceTypeOK
<1>1. CASE Load(a)
  <2> DEFINE c == [call[a] EXCEPT !.from = mission.status, !.current = mission.attempt]
  <2>1. /\ c \in Calls /\ call'[a] = AfterLoad(c)
        /\ c.evaluation = call[a].evaluation /\ c.fresh = call[a].fresh
        /\ c.current = mission.attempt /\ call[a].pc = "load"
    BY <1>0, <1>1 DEF Load, TypeInv, ServiceTypeOK, Calls
  <2>2. /\ AfterLoad(c).evaluation = c.evaluation /\ AfterLoad(c).fresh = c.fresh
        /\ AfterLoad(c).current = c.current
        /\ c.op = call[a].op /\ (c.op = "startAttempt" => AfterLoad(c).pc # "cas")
    BY <2>1 DEF AfterLoad, Validated, Calls
  <2> QED
    BY <2>1, <2>2, AfterLoadTo DEF Writes
<1>2. CASE InsertAttempt(a)
  <2>1. PICK id \in Attempts : call' = [call EXCEPT ![a] = Validated([@ EXCEPT !.fresh = id])]
    BY <1>2 DEF InsertAttempt
  <2> DEFINE c == [call[a] EXCEPT !.fresh = id]
  <2>2. /\ c \in Calls /\ call'[a] = Validated(c)
        /\ c.evaluation = call[a].evaluation /\ c.current = call[a].current
    BY <1>0, <2>1 DEF Calls
  <2>3. Validated(c).evaluation = c.evaluation /\ Validated(c).current = c.current
    BY <2>2 DEF Validated, Calls
  <2> QED
    BY <1>2, <2>2, <2>3, ValidatedTo DEF Writes, InsertAttempt
<1>3. CASE CheckCriteria(a)
  <2>1. call'[a] = Validated(call[a]) \/ call'[a] = [call[a] EXCEPT !.pc = "invariant_violation"]
    BY <1>0, <1>3 DEF CheckCriteria
  <2>2. /\ Validated(call[a]).evaluation = call[a].evaluation
        /\ Validated(call[a]).fresh = call[a].fresh
        /\ Validated(call[a]).current = call[a].current
        /\ call[a].op = "completeMission"
    BY <1>0, <1>3 DEF Validated, Calls, CheckCriteria, TypeInv, CallsCoherent, Coherent
  <2> QED
    BY <1>0, <2>1, <2>2, ValidatedTo DEF Calls, Writes
<1>4. CASE CompareAndSwap(a) \/ UpdateById(a)
  <2>1. /\ call[a].pc \in {"cas", "update"}
        /\ \/ call'[a] = AfterWrite(call[a]) /\ mission' = Written(call[a])
           \/ call'[a] = [call[a] EXCEPT !.pc = "illegal_transition"]
           \/ call'[a] = [call[a] EXCEPT !.pc = "update"]
    BY <1>0, <1>4 DEF CompareAndSwap, UpdateById
  <2>2. AfterWrite(call[a]).pc \in {"finalize", "event"}
        /\ AfterWrite(call[a]).evaluation = call[a].evaluation
        /\ AfterWrite(call[a]).fresh = call[a].fresh
        /\ AfterWrite(call[a]).current = call[a].current
    BY <1>0 DEF AfterWrite, Calls
  <2> QED
    BY <1>0, <2>1, <2>2 DEF Calls, Writes
<1>5. CASE WriteEvent(a) \/ SetLastEvaluation(a)
  BY <1>0, <1>5 DEF WriteEvent, SetLastEvaluation, Calls, Writes
<1>6. CASE ListAttempts(a) \/ InsertEvaluation(a) \/ SetCriterionStatus(a) \/ RepoError(a)
  BY <1>0, <1>6 DEF ListAttempts, InsertEvaluation, SetCriterionStatus, RepoError, Calls, Writes
<1>7. CASE FinalizeAttempt(a)
  <2>1. call'[a] = [call[a] EXCEPT !.pc = "event"]
    BY <1>0, <1>7 DEF FinalizeAttempt
  <2> QED
    BY <1>0, <1>7, <2>1 DEF Calls, Writes
<1> QED
  BY <1>1, <1>2, <1>3, <1>4, <1>5, <1>6, <1>7 DEF RepoStep

\* The steps that are not the loop's: the service's, its other callers', the clock's.
Others ==
    /\ ClockExpires \/ UNCHANGED loopLocals
    /\ [ServiceNext]_serviceVars
    /\ call'[Loop] = call[Loop] \/ (RepoStep(Loop) /\ CallTo(Loop))

LEMMA OthersKeep ==
    ASSUME LoopInv, LoopCall, Others
    PROVE  OwnParts'
<1>0. TypeInv /\ OwnParts /\ Loop \in Actors
  BY LoopInvParts, LoopAssumption
<1>1. loop' = loop /\ expired' \in BOOLEAN /\ leases' = leases /\ leaked' = leaked
  BY <1>0 DEF Others, ClockExpires, loopLocals, OwnParts
<1>2. LocalsAgree' /\ LeasesAgree'
  BY <1>0, <1>1 DEF OwnParts, LocalsAgree, LeasesAgree
<1>3. CallAgrees'
  <2>1. CASE call'[Loop] = call[Loop]
    BY <1>0, <1>1, <2>1 DEF OwnParts, CallAgrees
  <2>2. CASE RepoStep(Loop) /\ CallTo(Loop)
    <3>1. /\ call'[Loop].op = call[Loop].op
          /\ call'[Loop].pc \in Awaiting => call[Loop].pc \in Awaiting
      BY <2>2 DEF CallTo
    <3>2. call'[Loop].pc \in {"insertEvaluation", "setStatus", "setLast"}
             => call[Loop].op = "recordEvaluation"
      BY <1>0, <2>2 DEF CallTo, InsertEvaluation, SetCriterionStatus, OwnParts, CallAgrees
    <3>3. call'[Loop].pc = "returned" /\ call[Loop].op = "startAttempt"
             => call'[Loop].fresh \in Attempts
      <4> SUFFICES ASSUME call'[Loop].pc = "returned", call[Loop].op = "startAttempt"
                   PROVE  call'[Loop].fresh \in Attempts
        OBVIOUS
      <4>1. Writes(Loop)
        BY <1>0, <2>2, RepoStepWrites
      <4>2. call[Loop].pc = "event"
        BY <1>0, <4>1 DEF Writes, WriteEvent, SetLastEvaluation, OwnParts, CallAgrees
      <4> QED
        BY <1>0, <4>1, <4>2 DEF Writes,  TypeInv, CallsCoherent, Coherent
    <3> QED
      BY <1>0, <1>1, <3>1, <3>2, <3>3 DEF OwnParts, CallAgrees
  <2> QED
    BY <2>1, <2>2 DEF Others
<1> QED
  BY <1>0, <1>1, <1>2, <1>3 DEF OwnParts

LEMMA LoopNextIs ==
    ASSUME TypeInv, [LoopNext]_loopVars
    PROVE  LoopStep \/ Others
<1>0. call \in [Actors -> Calls] /\ Loop \in Actors
  BY LoopAssumption DEF TypeInv, ServiceTypeOK
<1>1. ASSUME NEW a \in Actors, RepoStep(a), UNCHANGED loopLocals PROVE Others
  BY <1>0, <1>1, RepoStepTo DEF Others, ServiceNext
<1>2. CASE UserCall /\ UNCHANGED loopLocals
  <2>1. PICK a \in Users, op \in Transitions : CallTransition(a, op)
    BY <1>2 DEF UserCall
  <2>2. a \in Actors /\ a # Loop
    BY DEF Users
  <2>3. call'[Loop] = call[Loop]
    BY <1>0, <2>1, <2>2 DEF CallTransition, Begin
  <2> QED
    BY <1>2, <2>1, <2>2, <2>3 DEF Others, ServiceNext
<1>3. CASE ClockExpires
  BY <1>3 DEF ClockExpires, Others, serviceVars
<1>4. CASE RunIsOver \/ UNCHANGED loopVars
  BY <1>4 DEF RunIsOver, loopVars, Others, serviceVars, loopLocals
<1> QED
  BY <1>1, <1>2, <1>3, <1>4 DEF LoopNext

LEMMA LoopInvStep == LoopInv /\ [LoopNext]_loopVars => LoopInv' /\ [ServiceNext]_serviceVars
<1> SUFFICES ASSUME LoopInv, [LoopNext]_loopVars PROVE LoopInv' /\ [ServiceNext]_serviceVars
  OBVIOUS
<1>1. LoopStep \/ Others
  BY LoopNextIs DEF LoopInv
<1>2. [ServiceNext]_serviceVars
  BY <1>1, LoopStepServes DEF Others
<1>3. TypeInv'
  BY <1>2, TypeInvStep DEF LoopInv
<1>4. OwnParts'
  BY <1>1, <1>3, LoopCallOK, LoopStepKeeps, OthersKeep DEF LoopInv
<1>5. LoopTypeOK'
  BY <1>4 DEF OwnParts, LoopTypeOK, LoopShape, Signatures
<1>6. LoopInv'
  BY <1>3, <1>4, <1>5 DEF LoopInv, OwnParts
<1> QED
  BY <1>2, <1>6

-----------------------------------------------------------------------------
(* Theorems. *)

\* The loop only ever calls the service as any of its callers may: whatever is
\* proved of the service alone holds with the loop and its users around it.
THEOREM LoopServes == LoopSpec => ServiceSpec
<1>1. LoopInit => LoopInv /\ ServiceInit
  BY LoopInvInit DEF LoopInit
<1>2. LoopInv /\ [LoopNext]_loopVars => LoopInv'
  BY LoopInvStep
<1>3. LoopInv /\ [LoopNext]_loopVars => [ServiceNext]_serviceVars
  BY LoopInvStep
<1> QED
  BY <1>1, <1>2, <1>3, PTL DEF LoopSpec, ServiceSpec

\* So with a loop that starts attempts, records and completes, and users that pause,
\* cancel and decide in between, the row still moves as one atomic call after the
\* other would move it: no interleaving leaves a terminal status, skips an edge of the
\* graph or binds a second root attempt while one is active.
THEOREM LoopImplementsLifecycle == ASSUME AtomicCAS PROVE LoopSpec => ImplementsLifecycle
BY LoopServes, ServiceImplementsLifecycle

\* For any budget: the counters stay within it, and the loop waits for a call
\* it has made with an attempt in hand that is there.
THEOREM LoopTypeAlways == LoopSpec => []LoopTypeOK
<1>1. LoopInv => LoopTypeOK
  BY DEF LoopInv
<1> QED
  BY <1>1, LoopInvInit, LoopInvStep, PTL DEF LoopSpec

\* A lease is released in the iteration that took it, on every path of run():
\* success, repair, stop, a lost call, a conflict, an evaluator that throws.
THEOREM LeaseAlwaysReleased == LoopSpec => []LeaseReleased
<1>1. LoopInv => LeaseReleased
  <2> SUFFICES ASSUME LoopInv, loop.pc \in {"top", "done"} PROVE leases \subseteq leaked
    BY DEF LeaseReleased
  <2> QED
    BY LoopShapeOK, NothingHeld DEF LoopInv
<1> QED
  BY <1>1, LoopInvInit, LoopInvStep, PTL DEF LoopSpec

-----------------------------------------------------------------------------
(* A completed mission is verified, over any backend. *)

\* The other callers of the service leave the attempts, the evaluations and
\* the completion of the mission to its loop.
LoopAlone ==
    \A a \in Users :
        MayCall[a] \intersect {"startAttempt", "recordEvaluation", "completeMission"} = {}

\* The mission is bound to the attempt the loop works on.
Bound ==
    /\ loop.pc \in HasAttempt => mission.attempt = loop.attemptId
    /\ loop.pc = "awaitStart" /\ call[Loop].pc \in {"event", "returned"}
           => mission.attempt = call[Loop].fresh

\* A criterion shows the outcome the loop holds for it.
Shown(c) ==
    /\ criteria[c].status = VERDICT_TO_CRITERION_STATUS[loop.outcomes[c]]
    /\ criteria[c].last = EvaluationOf(c)

\* Every outcome recorded is shown, but for the one whose call is in progress.
RecordsAgree ==
    /\ \A c \in loop.recorded :
           Shown(c) \/ (call[Loop].pc # "returned" /\ call[Loop].evaluation = EvaluationOf(c))
    /\ call[Loop].op = "recordEvaluation" =>
           \E c \in loop.recorded : call[Loop].evaluation = EvaluationOf(c)
    /\ call[Loop].pc = "setLast" =>
           criteria[call[Loop].evaluation.criterion].status =
               VERDICT_TO_CRITERION_STATUS[call[Loop].evaluation.verdict]
    /\ call[Loop].op = "beginVerifying" => call[Loop].pc \notin Awaiting

Verified ==
    \A c \in Required :
        /\ criteria[c].status = "pass"
        /\ criteria[c].last = [criterion |-> c, attempt |-> mission.attempt, verdict |-> "PASS"]

\* What completeMission is asked to settle.
CompletesVerified ==
    loop.pc = "awaitStop" /\ call[Loop].op = "completeMission" => Verified

VerifiedInv ==
    /\ LoopInv /\ GateInv
    /\ Bound
    /\ loop.pc = "recording" => RecordsAgree
    /\ CompletesVerified
    /\ CompletedVerified

LEMMA LoopStepStays ==
    ASSUME LoopInv, LoopStep
    PROVE  UNCHANGED <<mission, attempts, criteria, evaluations>>
BY TopOfLoopDoes, StoppedAtTopDoes, RepairingEnteredDoes, AttemptStartedDoes,
   AttemptReturnsDoes, VerifyingEnteredDoes, EvaluateDoes, RecordNextDoes, DecidesDoes,
   DecideRepairDoes, StoppedDoes, ThrownInTryDoes, CatchConflictDoes, CleanUpDoes
DEF LoopStep, Decides, Calling, TablesStay, serviceVars

\* Where a step of the loop leads, as far as the attempt in hand is concerned.
LEMMA LoopStepLeads ==
    ASSUME LoopInv, LoopStep
    PROVE  /\ loop'.pc \in HasAttempt =>
                  \/ /\ loop.pc \in HasAttempt \ {"awaitStop"}
                     /\ loop'.attemptId = loop.attemptId
                  \/ AttemptStarted
           /\ loop'.pc = "awaitStart" => call'[Loop].pc = "load"
           /\ loop'.pc = "recording" => Evaluate \/ RecordNext
           /\ loop'.pc = "awaitStop" /\ call'[Loop].op = "completeMission" =>
                  /\ Recorded /\ AllPass
                  /\ loop'.attemptId = loop.attemptId
<1>1. CASE TopOfLoop \/ RepairingEntered \/ StoppedAtTop
  BY <1>1, TopOfLoopDoes, RepairingEnteredDoes, StoppedAtTopDoes DEF Moves, Calling, HasAttempt
<1>2. CASE AttemptStarted
  BY <1>2, AttemptStartedDoes
<1>3. CASE AttemptReturns
  BY <1>3, AttemptReturnsDoes DEF Calling, HasAttempt
<1>4. CASE VerifyingEntered \/ Stopped
  BY <1>4, VerifyingEnteredDoes, StoppedDoes DEF Moves, SameWork, Calling, HasAttempt
<1>5. CASE Evaluate
  BY <1>5, EvaluateDoes DEF Moves, HasAttempt
<1>6. CASE RecordNext
  BY <1>6, RecordNextDoes DEF HasAttempt
<1>7. CASE Decides
  BY <1>7, DecidesDoes DEF Moves, SameWork, Calling, Recorded, HasAttempt
<1>8. CASE DecideRepair \/ ThrownInTry \/ CatchConflict
  BY <1>8, DecideRepairDoes, ThrownInTryDoes, CatchConflictDoes DEF Moves, HasAttempt
<1>9. CASE CleanUp
  BY <1>9, CleanUpDoes DEF HasAttempt
<1> QED
  BY <1>1, <1>2, <1>3, <1>4, <1>5, <1>6, <1>7, <1>8, <1>9 DEF LoopStep, Decides

LEMMA OneDriverIsLoop == ASSUME LoopAlone PROVE OneDriver
BY LoopAssumption DEF LoopAlone, OneDriver, Users

\* Who writes what the property is about: the loop's own calls.
LEMMA OwnWrites ==
    ASSUME LoopAlone, LoopInv, GateInv, [ServiceNext]_serviceVars
    PROVE  /\ mission'.attempt # mission.attempt =>
                  /\ call[Loop].op = "startAttempt" /\ call[Loop].pc \in Awaiting
                  /\ mission' = Written(call[Loop])
           /\ mission' # mission /\ mission'.status = "completed" =>
                  call[Loop].op = "completeMission" /\ call[Loop].pc \in Awaiting
           /\ criteria' # criteria => SetCriterionStatus(Loop) \/ SetLastEvaluation(Loop)
<1>0. ASSUME NEW a \in Actors, call[a].pc \in Awaiting,
             call[a].op \in {"startAttempt", "recordEvaluation", "completeMission"}
      PROVE  a = Loop
  BY <1>0 DEF GateInv, CallsPermitted, LoopAlone, Users
<1>1. ASSUME NEW a \in Actors, CompareAndSwap(a) \/ UpdateById(a), mission' # mission
      PROVE  /\ mission' = Written(call[a]) /\ call[a].pc \in Awaiting
             /\ call[a].op \in Transitions
  BY <1>1 DEF CompareAndSwap, UpdateById, Awaiting, GateInv, TypeInv, CallsCoherent, Coherent
<1>2. mission' # mission => \E a \in Actors : CompareAndSwap(a) \/ UpdateById(a)
  BY DEF ServiceNext, CallTransition, CallRecordEvaluation, RepoStep, Load, ListAttempts,
         InsertAttempt, CheckCriteria, FinalizeAttempt, WriteEvent, InsertEvaluation,
         SetCriterionStatus, SetLastEvaluation, RepoError, serviceVars
<1>3. mission'.attempt # mission.attempt =>
          /\ call[Loop].op = "startAttempt" /\ call[Loop].pc \in Awaiting
          /\ mission' = Written(call[Loop])
  BY <1>0, <1>1, <1>2 DEF Written
<1>4. mission' # mission /\ mission'.status = "completed" =>
          call[Loop].op = "completeMission" /\ call[Loop].pc \in Awaiting
  BY <1>0, <1>1, <1>2, CompletedTarget DEF Written
<1>5. ASSUME NEW a \in Actors, SetCriterionStatus(a) \/ SetLastEvaluation(a) PROVE a = Loop
  <2>1. call[a].pc \in {"setStatus", "setLast"} /\ call[a].pc \in Awaiting
    BY <1>5 DEF SetCriterionStatus, SetLastEvaluation, Awaiting
  <2>2. call[a].op = "recordEvaluation"
    BY <2>1 DEF GateInv, RecordsWhileOpen
  <2> QED
    BY <1>0, <2>1, <2>2
<1>6. criteria' # criteria => SetCriterionStatus(Loop) \/ SetLastEvaluation(Loop)
  BY <1>5, RecordStep
<1> QED
  BY <1>3, <1>4, <1>6

LEMMA BoundKept ==
    ASSUME LoopAlone, VerifiedInv, [LoopNext]_loopVars
    PROVE  Bound'
<1>0. LoopInv /\ GateInv /\ Bound /\ TypeInv /\ [ServiceNext]_serviceVars /\ CallAgrees
  BY LoopInvStep DEF VerifiedInv, LoopInv
<1>1. CASE LoopStep
  <2>1. mission' = mission
    BY <1>0, <1>1, LoopStepStays
  <2>2. AttemptStarted => loop'.attemptId = mission.attempt
    BY <1>0, AttemptStartedDoes DEF Bound
  <2> QED
    BY <1>0, <1>1, <2>1, <2>2, LoopStepLeads DEF Bound
<1>2. CASE Others
  <2>0. loop' = loop
    BY <1>2 DEF Others, ClockExpires, loopLocals
  <2>1. ASSUME loop.pc \in HasAttempt PROVE mission'.attempt = loop.attemptId
    <3>1. ~(call[Loop].op = "startAttempt" /\ call[Loop].pc \in Awaiting)
      BY <1>0, <2>1, AwaitedAt DEF CallAgrees, HasAttempt
    <3> QED
      BY <1>0, <2>1, <3>1, OwnWrites DEF Bound
  <2>2. ASSUME loop.pc = "awaitStart", call'[Loop].pc \in {"event", "returned"}
        PROVE  mission'.attempt = call'[Loop].fresh
    <3>0. call[Loop].op = "startAttempt"
      BY <1>0, <2>2, AwaitedAt DEF CallAgrees
    <3>1. CASE call'[Loop] = call[Loop] /\ mission'.attempt = mission.attempt
      BY <1>0, <2>2, <3>1 DEF Bound
    <3>2. CASE call'[Loop] = call[Loop] /\ mission'.attempt # mission.attempt
      BY <1>0, <3>0, <3>2, OwnWrites DEF Written
    <3>3. CASE RepoStep(Loop) /\ CallTo(Loop)
      <4>1. Writes(Loop)
        BY <1>0, <3>3, RepoStepWrites, LoopAssumption
      <4>2. ~SetLastEvaluation(Loop)
        BY <1>0, <3>0 DEF SetLastEvaluation, CallAgrees
      <4>3. ~FinalizeAttempt(Loop)
        <5>1. Closes["startAttempt"] = "open" /\ "open" \notin ClosedStatus
          BY DEF Closes, Transitions, ClosedStatus
        <5> QED
          BY <1>0, <3>0, <5>1, LoopAssumption
          DEF FinalizeAttempt, TypeInv, CallsCoherent, Coherent
      <4>4. call[Loop].pc \in {"cas", "update", "event"} /\ call'[Loop].fresh = call[Loop].fresh
        BY <2>2, <4>1, <4>2, <4>3 DEF Writes, WriteEvent
      <4>5. CASE mission' = Written(call[Loop])
        BY <3>0, <4>4, <4>5 DEF Written
      <4>6. CASE mission' # Written(call[Loop])
        <5>1. call[Loop].pc = "event" /\ mission' = mission
          BY <2>2, <4>1, <4>2, <4>3, <4>6 DEF Writes, WriteEvent
        <5> QED
          BY <1>0, <2>2, <4>4, <5>1 DEF Bound
      <4> QED
        BY <4>5, <4>6
    <3> QED
      BY <1>2, <3>1, <3>2, <3>3 DEF Others
  <2> QED
    BY <2>0, <2>1, <2>2 DEF Bound
<1> QED
  BY <1>0, <1>1, <1>2, LoopNextIs

\* recordEvaluation of the loop, one repository call at a time.
LEMMA RecordsKept ==
    ASSUME LoopAlone, VerifiedInv, [LoopNext]_loopVars, loop'.pc = "recording"
    PROVE  RecordsAgree'
<1>0. /\ LoopInv /\ GateInv /\ TypeInv /\ [ServiceNext]_serviceVars /\ CallAgrees
      /\ call[Loop] \in Calls /\ criteria \in [Criteria -> [status : CriterionStatus,
                                     last : Evaluations \union {NoEvaluation}]]
  BY LoopInvStep, LoopAssumption DEF VerifiedInv, LoopInv, TypeInv, ServiceTypeOK
<1>1. CASE Evaluate
  <2>1. /\ loop'.recorded = {} /\ call' = call /\ loop.pc = "evaluating"
    BY <1>0, <1>1, EvaluateDoes DEF Moves, serviceVars
  <2>2. call[Loop].op = "beginVerifying" /\ call[Loop].pc \notin Awaiting
    BY <1>0, <2>1, AwaitedAt DEF CallAgrees
  <2> QED
    BY <2>1, <2>2 DEF RecordsAgree, Awaiting
<1>2. CASE RecordNext
  <2>1. /\ call[Loop].pc = "returned" /\ loop.pc = "recording"
        /\ loop'.outcomes = loop.outcomes /\ loop'.attemptId = loop.attemptId
        /\ call'[Loop].pc = "load" /\ call'[Loop].op = "recordEvaluation"
        /\ criteria' = criteria
    BY <1>0, <1>2, RecordNextDoes DEF Calling, TablesStay
  <2>2. PICK c \in Required : /\ loop'.recorded = loop.recorded \union {c}
                             /\ call'[Loop].evaluation = EvaluationOf(c)
    BY <1>0, <1>2, RecordNextDoes
  <2>3. \A d : EvaluationOf(d)' = EvaluationOf(d)
    BY <2>1 DEF EvaluationOf
  <2>4. \A d \in loop.recorded : Shown(d)'
    BY <2>1, <2>3 DEF VerifiedInv, RecordsAgree, Shown
  <2> QED
    BY <2>1, <2>2, <2>3, <2>4 DEF RecordsAgree
<1>3. CASE Others
  <2>0. loop' = loop /\ RecordsAgree
    BY <1>3 DEF Others, ClockExpires, loopLocals, VerifiedInv
  <2>1. \A c : EvaluationOf(c)' = EvaluationOf(c)
    BY <2>0 DEF EvaluationOf
  <2>2. CASE call'[Loop] = call[Loop]
    <3>1. call[Loop].pc \in {"setStatus", "setLast"} => call'[Loop].pc = call[Loop].pc
      BY <2>2
    <3>2. criteria' = criteria
      BY <1>0, <3>1, OwnWrites, LoopAssumption
      DEF SetCriterionStatus, SetLastEvaluation, TypeInv, ServiceTypeOK, Calls
    <3> QED
      BY <2>0, <2>1, <2>2, <3>2 DEF RecordsAgree, Shown
  <2>3. CASE RepoStep(Loop) /\ CallTo(Loop)
    <3> DEFINE e == call[Loop].evaluation
    <3>1. call[Loop].pc \in Awaiting
      BY <2>3 DEF RepoStep, Load, ListAttempts, InsertAttempt, CheckCriteria, CompareAndSwap,
                  UpdateById, FinalizeAttempt, WriteEvent, InsertEvaluation,
                  SetCriterionStatus, SetLastEvaluation, RepoError, Awaiting
    <3>2. call[Loop].op = "recordEvaluation" /\ call'[Loop].op = "recordEvaluation"
      BY <1>0, <2>0, <2>3, <3>1, AwaitedAt DEF CallAgrees, CallTo, RecordsAgree
    <3>3. PICK d \in loop.recorded : e = EvaluationOf(d)
      BY <2>0, <3>2 DEF RecordsAgree
    <3>4. call'[Loop].evaluation = e /\ Writes(Loop)
      BY <1>0, <2>3, RepoStepWrites, LoopAssumption DEF Writes
    <3>5. \A c \in loop.recorded : c = d \/ Shown(c)
      <4>1. \A c : EvaluationOf(c).criterion = c
        BY DEF EvaluationOf
      <4> QED
        BY <2>0, <3>3, <4>1 DEF RecordsAgree
    <3>6. e.criterion = d /\ e.verdict = loop.outcomes[d] /\ loop.recorded \subseteq Criteria
      BY <1>0, <3>3, CriteriaAssumption, LoopShapeOK DEF EvaluationOf, LoopInv, LoopShape
    <3>7. CASE SetCriterionStatus(Loop)
      <4>1. /\ call'[Loop].pc = "setLast"
            /\ criteria'[d].status = VERDICT_TO_CRITERION_STATUS[e.verdict]
            /\ \A c \in Criteria \ {d} : criteria'[c] = criteria[c]
        BY <1>0, <3>6, <3>7, LoopAssumption
        DEF SetCriterionStatus, TypeInv, ServiceTypeOK, Calls
      <4>2. \A c \in loop.recorded \ {d} : Shown(c)'
        BY <2>0, <2>1, <3>5, <3>6, <4>1 DEF Shown
      <4> QED
        BY <2>0, <2>1, <3>2, <3>3, <3>4, <3>6, <4>1, <4>2 DEF RecordsAgree
    <3>8. CASE SetLastEvaluation(Loop)
      <4>1. /\ call'[Loop].pc = "returned" /\ call[Loop].pc = "setLast"
            /\ criteria'[d].status = criteria[d].status /\ criteria'[d].last = e
            /\ \A c \in Criteria \ {d} : criteria'[c] = criteria[c]
        BY <1>0, <3>6, <3>8, LoopAssumption
        DEF SetLastEvaluation, TypeInv, ServiceTypeOK, Calls
      <4>2. criteria[d].status = VERDICT_TO_CRITERION_STATUS[loop.outcomes[d]]
        BY <2>0, <3>6, <4>1 DEF RecordsAgree
      <4>3. \A c \in loop.recorded : Shown(c)'
        BY <2>0, <2>1, <3>3, <3>5, <3>6, <4>1, <4>2 DEF Shown
      <4> QED
        BY <2>0, <2>1, <3>2, <3>3, <3>4, <4>1, <4>3 DEF RecordsAgree
    <3>9. CASE ~SetCriterionStatus(Loop) /\ ~SetLastEvaluation(Loop)
      <4>1. criteria' = criteria
        BY <1>0, <3>9, OwnWrites
      <4>2. ~WriteEvent(Loop)
        BY <1>0, <3>2, LoopAssumption
        DEF WriteEvent, TypeInv, CallsCoherent, Coherent, Transitions
      <4>3. call'[Loop].pc # "returned" /\ call'[Loop].pc # "setLast"
        BY <2>3, <3>4, <3>9, <4>2 DEF Writes, CallTo
      <4>4. \A c \in loop.recorded : c = d \/ Shown(c)'
        BY <2>0, <2>1, <3>5, <4>1 DEF Shown
      <4> QED
        BY <2>0, <2>1, <3>2, <3>3, <3>4, <4>3, <4>4 DEF RecordsAgree
    <3> QED
      BY <3>7, <3>8, <3>9
  <2> QED
    BY <1>3, <2>2, <2>3 DEF Others
<1> QED
  BY <1>0, <1>1, <1>2, <1>3, LoopNextIs, LoopStepLeads

LEMMA CompletesKept ==
    ASSUME LoopAlone, VerifiedInv, [LoopNext]_loopVars
    PROVE  CompletesVerified'
<1> SUFFICES ASSUME loop'.pc = "awaitStop", call'[Loop].op = "completeMission"
             PROVE  Verified'
  BY DEF CompletesVerified
<1>0. LoopInv /\ GateInv /\ Bound /\ TypeInv /\ [ServiceNext]_serviceVars /\ CallAgrees
  BY LoopInvStep DEF VerifiedInv, LoopInv
<1>1. CASE LoopStep
  <2>1. Recorded /\ AllPass /\ UNCHANGED <<mission, criteria>>
    BY <1>0, <1>1, LoopStepLeads, LoopStepStays
  <2>2. mission.attempt = loop.attemptId
    BY <1>0, <2>1 DEF Recorded, Bound, HasAttempt
  <2>3. \A c \in Required : Shown(c) /\ loop.outcomes[c] = "PASS"
    BY <2>1 DEF Recorded, AllPass, Having, VerifiedInv, RecordsAgree
  <2>4. VERDICT_TO_CRITERION_STATUS["PASS"] = "pass"
    BY DEF VERDICT_TO_CRITERION_STATUS, Verdicts
  <2>5. Verified
    BY <2>2, <2>3, <2>4 DEF Shown, EvaluationOf, Verified
  <2> QED
    BY <2>1, <2>5 DEF Verified
<1>2. CASE Others
  <2>1. loop.pc = "awaitStop" /\ call[Loop].op = "completeMission"
    <3>1. loop' = loop
      BY <1>2 DEF Others, ClockExpires, loopLocals
    <3> QED
      BY <1>2, <3>1 DEF Others, CallTo
  <2>2. criteria' = criteria
    BY <1>0, <2>1, OwnWrites DEF SetCriterionStatus, SetLastEvaluation, CallAgrees
  <2>3. mission'.attempt = mission.attempt
    BY <1>0, <2>1, OwnWrites
  <2> QED
    BY <2>1, <2>2, <2>3 DEF VerifiedInv, CompletesVerified, Verified
<1> QED
  BY <1>0, <1>1, <1>2, LoopNextIs

LEMMA CompletedKept ==
    ASSUME LoopAlone, VerifiedInv, [LoopNext]_loopVars
    PROVE  CompletedVerified'
<1> SUFFICES ASSUME mission'.status = "completed" PROVE Verified'
  BY DEF CompletedVerified, Verified
<1>0. LoopInv /\ GateInv /\ TypeInv /\ [ServiceNext]_serviceVars /\ CallAgrees
  BY LoopInvStep DEF VerifiedInv, LoopInv
<1>1. CASE mission' = mission
  <2>1. criteria' = criteria
    BY <1>0, <1>1, OwnWrites, LoopAssumption
    DEF SetCriterionStatus, SetLastEvaluation, GateInv, RecordsWhileOpen
  <2> QED
    BY <1>1, <2>1 DEF VerifiedInv, CompletedVerified, Verified
<1>2. CASE mission' # mission
  <2>1. call[Loop].op = "completeMission" /\ call[Loop].pc \in Awaiting
    BY <1>0, <1>2, OwnWrites
  <2>2. loop.pc = "awaitStop"
    <3>1. loop.pc \in LoopPcs
      BY <1>0, LoopShapeOK DEF LoopInv, LoopShape
    <3> QED
      BY <1>0, <2>1, <3>1, AwaitedAt, Names DEF CallAgrees
  <2>3. criteria' = criteria
    BY <1>0, <2>1, OwnWrites DEF SetCriterionStatus, SetLastEvaluation, CallAgrees
  <2>4. mission'.attempt = mission.attempt
    BY <1>0, <2>1, OwnWrites
  <2> QED
    BY <2>1, <2>2, <2>3, <2>4 DEF VerifiedInv, CompletesVerified, Verified
<1> QED
  BY <1>1, <1>2

LEMMA VerifiedInvInit == LoopInit => VerifiedInv
<1> SUFFICES ASSUME LoopInit PROVE VerifiedInv
  OBVIOUS
<1>0. LoopInv /\ ServiceInit /\ mission.status = "ready"
  BY LoopInvInit DEF LoopInit
<1>1. loop.pc = "top"
  BY LoopInvInit
<1>2. GateInv
  BY <1>0, TypeInvInit DEF ServiceInit, Idle, GateInv, CallsPermitted, RecordsWhileOpen,
                           CompletesOnPass, CompletedGated, Awaiting
<1> QED
  BY <1>0, <1>1, <1>2 DEF VerifiedInv, Bound, HasAttempt, CompletesVerified, CompletedVerified

LEMMA VerifiedInvStep ==
    ASSUME LoopAlone PROVE VerifiedInv /\ [LoopNext]_loopVars => VerifiedInv'
<1> SUFFICES ASSUME VerifiedInv, [LoopNext]_loopVars PROVE VerifiedInv'
  OBVIOUS
<1>1. LoopInv' /\ [ServiceNext]_serviceVars
  BY LoopInvStep DEF VerifiedInv
<1>2. GateInv'
  BY <1>1, OneDriverIsLoop, GateInvStep DEF VerifiedInv
<1> QED
  BY <1>1, <1>2, BoundKept, RecordsKept, CompletesKept, CompletedKept DEF VerifiedInv

\* The point of a mission (section 18.1), whatever its users do meanwhile, on a
\* backend that may lose updates and reject calls: a mission is completed only
\* on evaluations, every one a pass, of the attempt it is completed with.
THEOREM CompletionVerified == ASSUME LoopAlone PROVE LoopSpec => []CompletedVerified
<1>1. VerifiedInv /\ [LoopNext]_loopVars => VerifiedInv'
  BY VerifiedInvStep
<1>2. VerifiedInv => CompletedVerified
  BY DEF VerifiedInv
<1> QED
  BY <1>1, <1>2, VerifiedInvInit, PTL DEF LoopSpec

-----------------------------------------------------------------------------
(* What the loop works on and what it reports, over an atomic backend. *)

\* Nobody but the loop ends an attempt of the mission, except by a cancel.
LoopDecides ==
    \A a \in Users :
        MayCall[a] \intersect {"startAttempt", "recordEvaluation", "completeMission",
                              "toRepairing", "toBlocked", "toFailed"} = {}

Working == {"running", "awaitVerifying", "evaluating", "recording"}

\* While the mission is open its attempt runs, from the insert of the row on.
RunsOn ==
    mission.status \notin Terminal =>
        /\ loop.pc \in Working => attempts[loop.attemptId].status = "running"
        /\ loop.pc = "awaitStart" /\ call[Loop].pc \in {"cas", "event", "returned"}
               => attempts[call[Loop].fresh].status = "running"

DrivenInv == VerifiedInv /\ ServiceInv /\ RunsOn

LEMMA OpensOnly ==
    ASSUME NEW op \in Transitions, Closes[op] # "open"
    PROVE  op \in {"completeMission", "toRepairing", "toBlocked", "toFailed", "cancel"}
BY DEF Closes, Transitions

LEMMA AttemptRows ==
    ASSUME [ServiceNext]_serviceVars
    PROVE  attempts' = attempts \/ \E a \in Actors : InsertAttempt(a) \/ FinalizeAttempt(a)
BY DEF ServiceNext, CallTransition, CallRecordEvaluation, RepoStep, Load, ListAttempts,
       CheckCriteria, CompareAndSwap, UpdateById, WriteEvent, InsertEvaluation,
       SetCriterionStatus, SetLastEvaluation, RepoError, serviceVars

LEMMA RunsOnKept ==
    ASSUME AtomicCAS, LoopDecides, DrivenInv, [LoopNext]_loopVars
    PROVE  RunsOn'
<1>0. /\ LoopInv /\ GateInv /\ TypeInv /\ ServiceInv /\ [ServiceNext]_serviceVars /\ CallAgrees
      /\ call \in [Actors -> Calls] /\ Loop \in Actors
      /\ attempts \in [Attempts -> [status : AttemptStatus, number : 0 .. MaxAttemptRows + 1]]
  BY LoopInvStep, LoopAssumption DEF DrivenInv, VerifiedInv, LoopInv, TypeInv, ServiceTypeOK
<1> SUFFICES ASSUME mission'.status \notin Terminal
             PROVE  /\ loop'.pc \in Working => attempts'[loop'.attemptId].status = "running"
                    /\ loop'.pc = "awaitStart" /\ call'[Loop].pc \in {"cas", "event", "returned"}
                           => attempts'[call'[Loop].fresh].status = "running"
  BY DEF RunsOn
<1>1. mission.status \notin Terminal
  BY <1>0, TerminalStays
<1>2. CASE LoopStep
  <2>1. attempts' = attempts
    BY <1>0, <1>2, LoopStepStays
  <2>2. AttemptStarted => attempts[loop'.attemptId].status = "running"
    BY <1>0, <1>1, AttemptStartedDoes DEF DrivenInv, RunsOn
  <2>3. loop'.pc \in Working => AttemptStarted \/
            (loop.pc \in Working /\ loop'.attemptId = loop.attemptId)
    BY <1>0, <1>2, LoopStepLeads DEF HasAttempt, Working
  <2> QED
    BY <1>0, <1>1, <1>2, <2>1, <2>2, <2>3, LoopStepLeads DEF DrivenInv, RunsOn
<1>3. CASE Others
  <2>0. loop' = loop /\ loop.attemptId \in Attempts \union {NoAttempt}
    BY <1>0, <1>3, LoopShapeOK DEF Others, ClockExpires, loopLocals, LoopInv, LoopShape
\* The attempt of an open mission is finalized by nobody but the loop that stops it.
  <2>1. ASSUME NEW a \in Actors, FinalizeAttempt(a)
        PROVE  loop.pc \notin Working \union {"awaitStart"}
    <3>1. call[a].pc = "finalize" /\ call[a].op \in Transitions /\ Closes[call[a].op] # "open"
      BY <1>0, <2>1 DEF FinalizeAttempt, TypeInv, CallsCoherent, Coherent, ClosedStatus
    <3>2. call[a].op # "cancel"
      <4>1. mission' = mission /\ Target["cancel"] \in Terminal
        BY <2>1 DEF FinalizeAttempt, Target, Transitions, Terminal
      <4> QED
        BY <1>0, <1>1, <3>1, <4>1 DEF ServiceInv, OutcomePending
    <3>3. call[a].pc \in Awaiting
      BY <3>1 DEF Awaiting
    <3>4. a = Loop
      BY <1>0, <3>1, <3>2, <3>3, OpensOnly DEF GateInv, CallsPermitted, LoopDecides, Users
    <3> QED
      BY <1>0, <3>1, <3>3, <3>4, AwaitedAt, OpensOnly DEF CallAgrees, Working
\* A row that is there is not replaced.
  <2>2. ASSUME NEW a \in Actors, InsertAttempt(a)
        PROVE  /\ a = Loop /\ loop.pc = "awaitStart"
               /\ attempts'[call'[Loop].fresh].status = "running"
    <3>1. call[a].op = "startAttempt" /\ call[a].pc \in Awaiting
      BY <1>0, <2>2 DEF InsertAttempt, TypeInv, CallsCoherent, Coherent, Awaiting
    <3>2. a = Loop
      BY <1>0, <3>1 DEF GateInv, CallsPermitted, LoopDecides, Users
    <3>3. loop.pc = "awaitStart"
      <4>1. loop.pc \in LoopPcs
        BY <1>0, LoopShapeOK DEF LoopInv, LoopShape
      <4> QED
        BY <1>0, <3>1, <3>2, <4>1, AwaitedAt, Names DEF CallAgrees
    <3>4. PICK id \in Attempts :
             /\ attempts' = [attempts EXCEPT ![id] = [status |-> "running",
                                                      number |-> call[a].number + 1]]
             /\ call' = [call EXCEPT ![a] = Validated([@ EXCEPT !.fresh = id])]
      BY <2>2 DEF InsertAttempt
    <3>5. call'[a].fresh = id
      BY <1>0, <3>4 DEF Validated, Calls
    <3> QED
      BY <1>0, <3>2, <3>3, <3>4, <3>5
  <2>3. CASE loop.pc \in Working
    <3>1. attempts' = attempts
      BY <1>0, <2>1, <2>2, <2>3, AttemptRows DEF Working
    <3> QED
      BY <1>1, <2>0, <2>3, <3>1 DEF DrivenInv, RunsOn, Working
  <2>4. CASE loop.pc = "awaitStart" /\ call'[Loop].pc \in {"cas", "event", "returned"}
    <3>1. CASE InsertAttempt(Loop)
      BY <1>0, <2>0, <2>2, <2>4, <3>1 DEF Working
    <3>2. CASE ~InsertAttempt(Loop)
      <4>1. attempts' = attempts
        BY <1>0, <2>1, <2>2, <2>4, <3>2, AttemptRows
      <4>2. call[Loop].op = "startAttempt"
        BY <1>0, <2>4, AwaitedAt DEF CallAgrees
      <4>3. CASE call'[Loop] = call[Loop]
        BY <1>1, <2>0, <2>4, <4>1, <4>3 DEF DrivenInv, RunsOn, Working
      <4>4. CASE RepoStep(Loop)
        <5>1. Writes(Loop)
          BY <1>0, <4>4, RepoStepWrites
        <5>2. ~FinalizeAttempt(Loop) /\ ~SetLastEvaluation(Loop) /\ call[Loop].pc # "update"
          BY <1>0, <2>1, <2>4, <4>2
          DEF SetLastEvaluation, CallAgrees, TypeInv, CallsCoherent, Coherent
        <5>3. call[Loop].pc \in {"cas", "event"} /\ call'[Loop].fresh = call[Loop].fresh
          BY <2>4, <3>2, <4>2, <5>1, <5>2 DEF Writes, WriteEvent
        <5> QED
          BY <1>1, <2>0, <2>4, <4>1, <5>3 DEF DrivenInv, RunsOn, Working
      <4> QED
        BY <1>3, <4>3, <4>4 DEF Others
    <3> QED
      BY <3>1, <3>2
  <2> QED
    BY <2>0, <2>3, <2>4
<1> QED
  BY <1>0, <1>2, <1>3, LoopNextIs

LEMMA ServiceInvInit == LoopInit => ServiceInv
BY TypeInvInit DEF LoopInit, ServiceInit, Idle, ServiceInv, OutcomePending, TerminalEventTruthful

LEMMA DecidesAlone == ASSUME LoopDecides PROVE LoopAlone
BY DEF LoopDecides, LoopAlone

\* While the mission is the loop's to drive, the agent works on the attempt its
\* row is bound to, and that attempt is open: a user's cancel, pause or resume
\* at any await never leaves an agent on a closed attempt of an open mission.
THEOREM AlwaysDrivesCurrent ==
    ASSUME AtomicCAS, LoopDecides PROVE LoopSpec => []DrivesCurrentAttempt
<1>1. LoopInit => DrivenInv
  <2> SUFFICES ASSUME LoopInit PROVE DrivenInv
    OBVIOUS
  <2>1. loop.pc = "top"
    BY LoopInvInit
  <2> QED
    BY <2>1, VerifiedInvInit, ServiceInvInit DEF DrivenInv, RunsOn, Working
<1>2. DrivenInv /\ [LoopNext]_loopVars => DrivenInv'
  <2> SUFFICES ASSUME DrivenInv, [LoopNext]_loopVars PROVE DrivenInv'
    OBVIOUS
  <2>1. VerifiedInv' /\ [ServiceNext]_serviceVars
    BY DecidesAlone, VerifiedInvStep, LoopInvStep DEF DrivenInv, VerifiedInv
  <2> QED
    BY <2>1, ServiceInvStep, RunsOnKept DEF DrivenInv
<1>3. DrivenInv => DrivesCurrentAttempt
  <2> SUFFICES ASSUME DrivenInv, loop.pc \in {"running", "evaluating", "recording"},
                      mission.status \in ActiveRoot
               PROVE  mission.attempt = loop.attemptId
                      /\ attempts[mission.attempt].status = "running"
    BY DEF DrivesCurrentAttempt
  <2>1. mission.status \notin Terminal
    BY DEF ActiveRoot, Terminal
  <2> QED
    BY <2>1 DEF DrivenInv, VerifiedInv, Bound, HasAttempt, RunsOn, Working
<1> QED
  BY <1>1, <1>2, <1>3, PTL DEF LoopSpec

\* The call a stop is made by, and the result run() will return.
StopsAs ==
    /\ loop.pc = "awaitStop" =>
          \/ loop.result = "completed" /\ call[Loop].op = "completeMission"
          \/ loop.result \in {"failed", "stuck"} /\ call[Loop].op = "toFailed"
          \/ loop.result = "blocked" /\ call[Loop].op = "toBlocked"
    /\ loop.pc = "awaitStopAtTop" => loop.result = "failed"
    /\ loop.pc \in Working \union {"top", "awaitRepairing", "awaitStart"} => loop.result = Pending

\* A stop that has returned is in the row.
StopStands ==
    loop.pc \in {"awaitStop", "awaitStopAtTop"} /\ call[Loop].pc = "returned"
        /\ call[Loop].op \in {"completeMission", "toFailed"}
            => mission.status = Target[call[Loop].op]

\* A result that run() has settled on is in the row.
ResultStands ==
    loop.pc \in {"finally", "done"} =>
        /\ loop.result = "completed" => mission.status = "completed"
        /\ loop.result = "cancelled" => mission.status = "cancelled"
        /\ loop.result \in {"failed", "stuck"} => mission.status = "failed"

\* Until the loop asks for it, and when it has blocked it, the mission is open.
Unsettled ==
    \/ loop.pc \in Working \union {"top", "awaitRepairing", "awaitStart"}
    \/ loop.pc = "awaitStop" /\ call[Loop].op = "toBlocked"
    \/ loop.pc \in {"finally", "done"} /\ loop.result \in {Pending, "blocked"}

StaysOpen == Unsettled => mission.status \notin {"completed", "failed"}

ResultInv == LoopInv /\ GateInv /\ ServiceInv /\ StopsAs /\ StopStands /\ ResultStands /\ StaysOpen

LEMMA OutcomeTargets ==
    /\ Target["completeMission"] = "completed" /\ Target["toFailed"] = "failed"
    /\ {"completed", "failed", "cancelled"} = Terminal
    /\ \A op \in Transitions : /\ Target[op] = "completed" => op = "completeMission"
                               /\ Target[op] = "failed" => op = "toFailed"
BY DEF Target, Transitions, Terminal

LEMMA ResultKeptByLoop ==
    ASSUME ResultInv, LoopStep
    PROVE  StopsAs' /\ StopStands' /\ ResultStands' /\ StaysOpen'
<1>0. LoopInv /\ mission' = mission
  BY LoopStepStays DEF ResultInv
<1>1. StopsAs' /\ StopStands' /\ ResultStands' /\ (Unsettled' => Unsettled)
  <2>1. CASE TopOfLoop
    BY <1>0, <2>1, TopOfLoopDoes
    DEF ResultInv, Moves, Calling, StopsAs, StopStands, ResultStands, Unsettled, Working,
        Threw, Pending
  <2>2. CASE StoppedAtTop
    <3>0. /\ loop.pc = "awaitStopAtTop" /\ call[Loop].op = "toFailed" /\ loop.result = "failed"
          /\ call[Loop].pc = "returned" => mission.status = "failed"
      BY <1>0, <2>2, StoppedAtTopDoes, AwaitedAt, OutcomeTargets
      DEF LoopInv, CallAgrees, ResultInv, StopsAs, StopStands
    <3> QED
      BY <1>0, <2>2, <3>0, StoppedAtTopDoes
      DEF Moves, StopsAs, StopStands, ResultStands, Unsettled, Working, Threw, Pending
  <2>3. CASE RepairingEntered
    BY <1>0, <2>3, RepairingEnteredDoes
    DEF ResultInv, Moves, Calling, StopsAs, StopStands, ResultStands, Unsettled, Working
  <2>4. CASE AttemptStarted
    BY <1>0, <2>4, AttemptStartedDoes
    DEF ResultInv, StopsAs, StopStands, ResultStands, Unsettled, Working
  <2>5. CASE AttemptReturns
    BY <1>0, <2>5, AttemptReturnsDoes
    DEF ResultInv, Calling, StopsAs, StopStands, ResultStands, Unsettled, Working
  <2>6. CASE VerifyingEntered
    BY <1>0, <2>6, VerifyingEnteredDoes
    DEF ResultInv, Moves, Calling, StopsAs, StopStands, ResultStands, Unsettled, Working
  <2>7. CASE Evaluate
    BY <1>0, <2>7, EvaluateDoes
    DEF ResultInv, Moves, StopsAs, StopStands, ResultStands, Unsettled, Working, Threw, Pending
  <2>8. CASE RecordNext
    BY <1>0, <2>8, RecordNextDoes
    DEF ResultInv, StopsAs, StopStands, ResultStands, Unsettled, Working
  <2>9. CASE Decides
    BY <1>0, <2>9, DecidesDoes
    DEF ResultInv, Moves, Calling, StopsAs, StopStands, ResultStands, Unsettled, Working, Recorded
  <2>10. CASE DecideRepair
    BY <1>0, <2>10, DecideRepairDoes
    DEF ResultInv, StopsAs, StopStands, ResultStands, Unsettled, Working, Recorded, Pending
  <2>11. CASE Stopped
    <3>0. /\ loop.pc = "awaitStop" /\ call[Loop].pc = "returned"
          /\ \/ loop.result = "completed" /\ mission.status = "completed"
             \/ loop.result \in {"failed", "stuck"} /\ mission.status = "failed"
             \/ loop.result = "blocked" /\ call[Loop].op = "toBlocked"
      BY <1>0, <2>11, StoppedDoes, OutcomeTargets DEF ResultInv, StopsAs, StopStands
    <3> QED
      BY <1>0, <2>11, <3>0, StoppedDoes
      DEF ResultInv, Moves, StopsAs, StopStands, ResultStands, Unsettled, Working, Pending
  <2>12. CASE ThrownInTry
    BY <1>0, <2>12, ThrownInTryDoes
    DEF ResultInv, Moves, StopsAs, StopStands, ResultStands, Unsettled, Working, Threw, Pending
  <2>13. CASE CatchConflict
    BY <1>0, <2>13, CatchConflictDoes
    DEF ResultInv, Moves, StopsAs, StopStands, ResultStands, Unsettled, Working, Threw, Pending
  <2>14. CASE CleanUp
    BY <1>0, <2>14, CleanUpDoes
    DEF ResultInv, StopsAs, StopStands, ResultStands, Unsettled, Working, Pending
  <2> QED
    BY <2>1, <2>2, <2>3, <2>4, <2>5, <2>6, <2>7, <2>8, <2>9, <2>10, <2>11, <2>12, <2>13, <2>14
    DEF LoopStep, Decides
<1> QED
  BY <1>0, <1>1 DEF ResultInv, StaysOpen

LEMMA ResultKeptByOthers ==
    ASSUME AtomicCAS, LoopDecides, ResultInv, Others
    PROVE  StopsAs' /\ StopStands' /\ ResultStands' /\ StaysOpen'
<1>0. /\ LoopInv /\ GateInv /\ TypeInv /\ ServiceInv /\ [ServiceNext]_serviceVars /\ CallAgrees
      /\ loop' = loop /\ call'[Loop].op = call[Loop].op /\ Loop \in Actors
  BY LoopAssumption DEF ResultInv, LoopInv, Others, CallTo, ClockExpires, loopLocals
<1>1. mission.status \in {"completed", "failed", "cancelled"} => mission' = mission
  BY <1>0, TerminalStays, OutcomeTargets
<1>2. StopsAs'
  BY <1>0 DEF ResultInv, StopsAs
<1>3. StopStands'
  <2> SUFFICES ASSUME loop.pc \in {"awaitStop", "awaitStopAtTop"}, call'[Loop].pc = "returned",
                      call[Loop].op \in {"completeMission", "toFailed"}
               PROVE  mission'.status = Target[call[Loop].op]
    BY <1>0 DEF StopStands
  <2>1. CASE call'[Loop] = call[Loop]
    BY <1>0, <1>1, <2>1, OutcomeTargets DEF ResultInv, StopStands
  <2>2. CASE RepoStep(Loop)
    <3>1. ~SetLastEvaluation(Loop)
      BY <1>0 DEF SetLastEvaluation, CallAgrees
    <3>2. WriteEvent(Loop)
      BY <1>0, <2>2, <3>1, RepoStepWrites DEF Writes
    <3>3. Target[call[Loop].op] \in Terminal
      BY OutcomeTargets
    <3> QED
      BY <1>0, <3>2, <3>3 DEF WriteEvent, ServiceInv, OutcomePending
  <2> QED
    BY <2>1, <2>2 DEF Others
<1>4. ResultStands'
  BY <1>0, <1>1 DEF ResultInv, ResultStands
<1>5. StaysOpen'
  <2> SUFFICES ASSUME Unsettled', mission'.status \in {"completed", "failed"} PROVE FALSE
    BY DEF StaysOpen
  <2>1. Unsettled /\ mission' # mission
    BY <1>0 DEF Unsettled, ResultInv, StaysOpen
  <2>2. PICK a \in Actors : /\ call[a].pc \in {"cas", "update"} /\ call[a].op \in Transitions
                           /\ mission'.status = Target[call[a].op]
    BY <1>0, <2>1, RowStep
  <2>3. call[a].op \in {"completeMission", "toFailed"} /\ call[a].pc \in Awaiting
    BY <2>2, OutcomeTargets DEF Awaiting
  <2>4. a = Loop
    BY <1>0, <2>3 DEF GateInv, CallsPermitted, LoopDecides, Users
  <2> QED
    BY <1>0, <2>1, <2>3, <2>4, AwaitedAt DEF Unsettled, Working, CallAgrees
<1> QED
  BY <1>2, <1>3, <1>4, <1>5

\* What run() returns is what the database says, whatever the users did while
\* it was ending: the user is never told of another outcome than the row has.
THEOREM ResultAlwaysTruthful ==
    ASSUME AtomicCAS, LoopDecides PROVE LoopSpec => []ResultTruthful
<1>1. LoopInit => ResultInv
  <2> SUFFICES ASSUME LoopInit PROVE ResultInv
    OBVIOUS
  <2>1. loop.pc = "top" /\ loop.result = Pending /\ mission.status = "ready"
    BY LoopInvInit DEF LoopInit
  <2> QED
    BY <2>1, VerifiedInvInit, ServiceInvInit
    DEF VerifiedInv, ResultInv, StopsAs, StopStands, ResultStands, StaysOpen
<1>2. ResultInv /\ [LoopNext]_loopVars => ResultInv'
  <2> SUFFICES ASSUME ResultInv, [LoopNext]_loopVars PROVE ResultInv'
    OBVIOUS
  <2>1. LoopInv' /\ [ServiceNext]_serviceVars /\ TypeInv
    BY LoopInvStep DEF ResultInv, LoopInv
  <2>2. GateInv' /\ ServiceInv'
    BY <2>1, DecidesAlone, OneDriverIsLoop, GateInvStep, ServiceInvStep DEF ResultInv
  <2> QED
    BY <2>1, <2>2, LoopNextIs, ResultKeptByLoop, ResultKeptByOthers DEF ResultInv
<1>3. ResultInv => ResultTruthful
  BY DEF ResultInv, ResultStands, StaysOpen, Unsettled, ResultTruthful
<1> QED
  BY <1>1, <1>2, <1>3, PTL DEF LoopSpec

-----------------------------------------------------------------------------
(* No attempt past a budget, over any backend. *)

\* The attempts that are spoken of are in their table.
AttemptsThere ==
    /\ mission.attempt \in Existing \union {NoAttempt}
    /\ \A a \in Actors :
          /\ call[a].current \in Existing \union {NoAttempt}
          /\ call[a].op = "startAttempt" /\ call[a].pc \in {"cas", "update", "event"}
                 => call[a].fresh \in Existing

\* run() is still to launch attempts.
Counting ==
    \/ loop.pc \in Working \union {"top", "awaitRepairing", "awaitStart"}
    \/ loop.pc = "finally" /\ loop.result = Pending

\* The row that is there before the attempt is counted.
Uncounted ==
    IF loop.pc = "awaitStart" /\ call[Loop].pc \notin {"load", "list", "insert"} THEN 1 ELSE 0

RowsCounted == Counting => Cardinality(Existing) <= loop.attemptNumber + Uncounted

Fails(c) == {e \in evaluations : e.criterion = c /\ e.verdict = "FAIL"}

\* The failure that is in its table before the repair is counted.
Owed(c) ==
    IF /\ loop.pc = "recording" /\ c \in loop.recorded /\ loop.outcomes[c] = "FAIL"
       /\ ~ /\ call[Loop].pc \in {"load", "insertEvaluation"}
            /\ call[Loop].evaluation = EvaluationOf(c)
    THEN 1 ELSE 0

FailsCounted ==
    /\ IsFiniteSet(evaluations)
    /\ Counting => \A c \in Required : Cardinality(Fails(c)) <= loop.repairs[c] + Owed(c)

BudgetInv == VerifiedInv /\ AttemptsThere /\ RowsCounted /\ FailsCounted

\* How a step of any kind moves a call, and the row of the mission.
LEMMA CallMoves ==
    ASSUME TypeInv, [ServiceNext]_serviceVars, NEW b \in Actors
    PROVE  \/ call'[b] = call[b]
           \/ call'[b].pc = "load" /\ call'[b].current = NoAttempt
           \/ RepoStep(b) /\ CallTo(b) /\ Writes(b)
<1>0. call \in [Actors -> Calls]
  BY DEF TypeInv, ServiceTypeOK
<1>1. ASSUME NEW a \in Actors, NEW op \in Transitions, CallTransition(a, op)
      PROVE  call'[b] = call[b] \/ (call'[b].pc = "load" /\ call'[b].current = NoAttempt)
  BY <1>0, <1>1 DEF CallTransition, Begin, Idle
<1>2. ASSUME NEW a \in Actors, NEW e \in Evaluations, CallRecordEvaluation(a, e)
      PROVE  call'[b] = call[b] \/ (call'[b].pc = "load" /\ call'[b].current = NoAttempt)
  BY <1>0, <1>2 DEF CallRecordEvaluation, Begin, Idle
<1>3. ASSUME NEW a \in Actors, RepoStep(a)
      PROVE  call'[b] = call[b] \/ (RepoStep(b) /\ CallTo(b) /\ Writes(b))
  BY <1>3, RepoStepTo, RepoStepWrites
<1>4. CASE UNCHANGED serviceVars
  BY <1>4 DEF serviceVars
<1> QED
  BY <1>1, <1>2, <1>3, <1>4 DEF ServiceNext

\* Rows of attempts are added by InsertAttempt and by nothing else.
LEMMA RowsGrow ==
    ASSUME TypeInv, AttemptsThere, [ServiceNext]_serviceVars
    PROVE  \/ Existing' = Existing /\ \A a \in Actors : ~InsertAttempt(a)
           \/ \E a \in Actors : /\ InsertAttempt(a) /\ call[a].op = "startAttempt"
                                /\ call'[a].fresh \in Attempts
                                /\ Existing' = Existing \union {call'[a].fresh}
                                /\ call'[a].pc \in {"cas", "illegal_transition"}
<1>0. /\ call \in [Actors -> Calls]
      /\ attempts \in [Attempts -> [status : AttemptStatus, number : 0 .. MaxAttemptRows + 1]]
  BY DEF TypeInv, ServiceTypeOK
<1>1. ASSUME NEW a \in Actors, InsertAttempt(a)
      PROVE  /\ call[a].op = "startAttempt" /\ call'[a].fresh \in Attempts
             /\ Existing' = Existing \union {call'[a].fresh}
             /\ call'[a].pc \in {"cas", "illegal_transition"}
  <2>1. PICK id \in Attempts :
           /\ attempts' = [attempts EXCEPT ![id] = [status |-> "running",
                                                    number |-> call[a].number + 1]]
           /\ call' = [call EXCEPT ![a] = Validated([@ EXCEPT !.fresh = id])]
    BY <1>1 DEF InsertAttempt
  <2>2. call'[a].fresh = id /\ call'[a].pc \in {"cas", "illegal_transition"}
    BY <1>0, <2>1 DEF Validated, Calls
  <2>3. /\ attempts'[id].status = "running"
        /\ \A older \in Attempts \ {id} : attempts'[older] = attempts[older]
    BY <1>0, <2>1
  <2>4. Existing' = Existing \union {id}
    BY <2>3 DEF Existing
  <2> QED
    BY <1>1, <2>2, <2>4 DEF InsertAttempt, TypeInv, CallsCoherent, Coherent
<1>2. ASSUME NEW a \in Actors, FinalizeAttempt(a)
      PROVE  Existing' = Existing
  <2>1. /\ call[a].current \in Existing /\ Closes[call[a].op] \in ClosedStatus
    <3>1. call[a].current \in Attempts /\ Closes[call[a].op] \in ClosedStatus
      BY <1>2 DEF FinalizeAttempt, TypeInv, CallsCoherent, Coherent
    <3> QED
      BY <3>1 DEF AttemptsThere, Attempts, NoAttempt
  <2>2. /\ attempts'[call[a].current].status = Closes[call[a].op]
        /\ \A other \in Attempts \ {call[a].current} : attempts'[other] = attempts[other]
    BY <1>0, <1>2, <2>1 DEF FinalizeAttempt, Existing
  <2> QED
    BY <2>1, <2>2 DEF Existing, ClosedStatus
<1>3. CASE attempts' = attempts
  <2>1. Existing' = Existing
    BY <1>3 DEF Existing
  <2> QED
    BY <1>1, <2>1
<1> QED
  BY <1>1, <1>2, <1>3, AttemptRows

LEMMA AttemptsThereKept ==
    ASSUME TypeInv, AttemptsThere, [ServiceNext]_serviceVars
    PROVE  AttemptsThere'
<1>0. Existing \subseteq Existing'
  BY RowsGrow
<1>1. mission'.attempt \in Existing' \union {NoAttempt}
  <2>1. CASE mission' = mission
    BY <1>0, <2>1 DEF AttemptsThere
  <2>2. ASSUME NEW a \in Actors, call[a].pc \in {"cas", "update"}, mission' = Written(call[a])
        PROVE  mission'.attempt \in Existing' \union {NoAttempt}
    BY <1>0, <2>2 DEF AttemptsThere, Written
  <2>3. mission' = mission \/ \E a \in Actors : CompareAndSwap(a) \/ UpdateById(a)
    BY DEF ServiceNext, CallTransition, CallRecordEvaluation, RepoStep, Load, ListAttempts,
           InsertAttempt, CheckCriteria, FinalizeAttempt, WriteEvent, InsertEvaluation,
           SetCriterionStatus, SetLastEvaluation, RepoError, serviceVars
  <2> QED
    BY <2>1, <2>2, <2>3 DEF CompareAndSwap, UpdateById
<1>2. ASSUME NEW b \in Actors
      PROVE  /\ call'[b].current \in Existing' \union {NoAttempt}
             /\ call'[b].op = "startAttempt" /\ call'[b].pc \in {"cas", "update", "event"}
                    => call'[b].fresh \in Existing'
  <2>1. CASE call'[b] = call[b]
    BY <1>0, <2>1 DEF AttemptsThere
  <2>2. CASE call'[b].pc = "load" /\ call'[b].current = NoAttempt
    BY <2>2
  <2>3. CASE RepoStep(b) /\ CallTo(b) /\ Writes(b)
    <3>1. call'[b].current \in Existing' \union {NoAttempt}
      BY <1>0, <2>3 DEF Writes, AttemptsThere
    <3>2. ASSUME call'[b].op = "startAttempt", call'[b].pc = "cas"
          PROVE  call'[b].fresh \in Existing'
      <4>1. InsertAttempt(b)
        BY <2>3, <3>2 DEF Writes, CallTo
      <4>2. attempts'[call'[b].fresh].status # "absent" /\ call'[b].fresh \in Attempts
        <5>0. /\ call \in [Actors -> Calls]
              /\ attempts \in [Attempts -> [status : AttemptStatus,
                                            number : 0 .. MaxAttemptRows + 1]]
          BY DEF TypeInv, ServiceTypeOK
        <5>1. PICK id \in Attempts :
                 /\ attempts' = [attempts EXCEPT ![id] = [status |-> "running",
                                                          number |-> call[b].number + 1]]
                 /\ call' = [call EXCEPT ![b] = Validated([@ EXCEPT !.fresh = id])]
          BY <4>1 DEF InsertAttempt
        <5>2. call'[b].fresh = id
          BY <5>0, <5>1 DEF Validated, Calls
        <5> QED
          BY <5>0, <5>1, <5>2
      <4> QED
        BY <4>2 DEF Existing
    <3>3. ASSUME call'[b].op = "startAttempt", call'[b].pc \in {"update", "event"}
          PROVE  call'[b].fresh \in Existing'
      <4>1. Closes["startAttempt"] = "open" /\ "open" \notin ClosedStatus
        BY DEF Closes, Transitions, ClosedStatus
      <4>2. call[b].op = "startAttempt" /\ ~FinalizeAttempt(b)
        BY <2>3, <3>3, <4>1 DEF CallTo, FinalizeAttempt, TypeInv, CallsCoherent, Coherent
      <4>3. call[b].pc \in {"cas", "update"}
        BY <2>3, <3>3, <4>2 DEF CallTo, Writes
      <4> QED
        BY <1>0, <2>3, <4>2, <4>3 DEF Writes, AttemptsThere
    <3> QED
      BY <3>1, <3>2, <3>3
  <2> QED
    BY <2>1, <2>2, <2>3, CallMoves
<1> QED
  BY <1>1, <1>2 DEF AttemptsThere

LEMMA OneMore ==
    ASSUME NEW S, IsFiniteSet(S), NEW x
    PROVE  /\ IsFiniteSet(S \union {x}) /\ Cardinality(S \union {x}) \in Nat
           /\ Cardinality(S \union {x}) <= Cardinality(S) + 1
<1>1. Cardinality(S) \in Nat
  BY FS_CardinalityType
<1>2. /\ IsFiniteSet(S \union {x})
      /\ \/ Cardinality(S \union {x}) = Cardinality(S)
         \/ Cardinality(S \union {x}) = Cardinality(S) + 1
  BY FS_AddElement
<1> QED
  BY <1>1, <1>2

LEMMA RowsAreCounted == /\ IsFiniteSet(Existing) /\ Cardinality(Existing) \in Nat
                        /\ IsFiniteSet(Attempts)
<1>1. IsFiniteSet(Attempts)
  BY FS_Interval, BoundsAssumption DEF Attempts
<1>2. Existing \subseteq Attempts
  BY DEF Existing
<1> QED
  BY <1>1, <1>2, FS_Subset, FS_CardinalityType

\* A step of the loop that goes on launching: what it does to the counters.
LEMMA CountersMove ==
    ASSUME LoopInv, LoopStep, Counting'
    PROVE  /\ Counting
           /\ \/ AttemptStarted
              \/ /\ ~AttemptStarted /\ loop'.pc # "running"
                 /\ loop'.attemptNumber = loop.attemptNumber
                 /\ loop'.pc = "awaitStart" => call'[Loop].pc = "load"
           /\ DecideRepair \/ loop'.repairs = loop.repairs
           /\ loop.pc = "recording" => DecideRepair \/ RecordNext
           /\ loop'.pc = "recording" => Evaluate \/ RecordNext
<1>1. CASE TopOfLoop \/ RepairingEntered \/ StoppedAtTop
  BY <1>1, TopOfLoopDoes, RepairingEnteredDoes, StoppedAtTopDoes
  DEF Moves, SameWork, Calling, Counting, Working, AttemptStarted
<1>2. CASE AttemptStarted
  BY <1>2, AttemptStartedDoes DEF Counting
<1>3. CASE AttemptReturns
  BY <1>3, AttemptReturnsDoes DEF Counting, Working, AttemptStarted
<1>4. CASE VerifyingEntered \/ Stopped
  BY <1>4, VerifyingEnteredDoes, StoppedDoes
  DEF Moves, SameWork, Counting, Working, AttemptStarted, LoopStatus, Pending
<1>5. CASE Evaluate
  BY <1>5, EvaluateDoes DEF Moves, Counting, Working, AttemptStarted, Threw, Pending
<1>6. CASE RecordNext
  BY <1>6, RecordNextDoes DEF Counting, Working, AttemptStarted
<1>7. CASE Decides
  BY <1>7, DecidesDoes DEF Moves, Counting, Working
<1>8. CASE DecideRepair
  BY <1>8, DecideRepairDoes DEF Counting, Working, AttemptStarted, Recorded
<1>9. CASE ThrownInTry \/ CatchConflict
  BY <1>9, ThrownInTryDoes, CatchConflictDoes DEF Moves, Counting, Working, Threw, Pending
<1>10. CASE CleanUp
  BY <1>10, CleanUpDoes DEF Counting, Working, AttemptStarted
<1> QED
  BY <1>1, <1>2, <1>3, <1>4, <1>5, <1>6, <1>7, <1>8, <1>9, <1>10 DEF LoopStep, Decides

LEMMA AwaitStartLeads ==
    ASSUME LoopInv, LoopStep, loop.pc = "awaitStart", ~AttemptStarted
    PROVE  ~Counting'
<1>1. ThrownInTry
  BY TopOfLoopDoes, RepairingEnteredDoes, StoppedAtTopDoes, AttemptReturnsDoes,
     VerifyingEnteredDoes, StoppedDoes, EvaluateDoes, RecordNextDoes, DecidesDoes,
     DecideRepairDoes, CatchConflictDoes, CleanUpDoes
  DEF LoopStep, Decides, Recorded
<1> QED
  BY <1>1, ThrownInTryDoes DEF Moves, Counting, Working, Threw, Pending

\* A call that is past its insert stays so.
LEMMA InsertLast ==
    ASSUME TypeInv, Others, call[Loop].pc \notin {"load", "list", "insert"}
    PROVE  call'[Loop].pc \notin {"load", "list", "insert"}
<1>1. CASE call'[Loop] = call[Loop]
  BY <1>1
<1>2. CASE RepoStep(Loop) /\ CallTo(Loop)
  BY <1>2, RepoStepWrites, LoopAssumption DEF Writes, CallTo
<1> QED
  BY <1>1, <1>2 DEF Others

LEMMA RowsKept ==
    ASSUME LoopAlone, BudgetInv, [LoopNext]_loopVars
    PROVE  RowsCounted'
<1> SUFFICES ASSUME Counting'
             PROVE  Cardinality(Existing)' <= loop'.attemptNumber + Uncounted'
  BY DEF RowsCounted
<1>0. /\ LoopInv /\ GateInv /\ TypeInv /\ AttemptsThere /\ [ServiceNext]_serviceVars /\ CallAgrees
      /\ loop.attemptNumber \in Int /\ Loop \in Actors
      /\ Cardinality(Existing) \in Nat /\ Uncounted \in {0, 1}
      /\ Counting => Cardinality(Existing) <= loop.attemptNumber + Uncounted
  BY LoopInvStep, LoopShapeOK, LoopAssumption, RowsAreCounted
  DEF BudgetInv, VerifiedInv, LoopInv, LoopShape, RowsCounted, Uncounted
<1>1. CASE LoopStep
  <2>1. Existing' = Existing
    BY <1>0, <1>1, LoopStepStays DEF Existing
  <2>2. CASE AttemptStarted
    <3>1. /\ loop'.attemptNumber = loop.attemptNumber + 1 /\ Uncounted' = 0 /\ Counting
      BY <1>0, <2>2, AttemptStartedDoes DEF Uncounted, Counting
    <3> QED
      BY <1>0, <2>1, <3>1
  <2>3. CASE ~AttemptStarted
    <3>1. /\ Counting /\ loop'.attemptNumber = loop.attemptNumber
          /\ loop'.pc = "awaitStart" => call'[Loop].pc = "load"
      BY <1>0, <1>1, <2>3, CountersMove
    <3>2. Uncounted = 0
      <4>1. loop.pc # "awaitStart"
        BY <1>0, <1>1, <2>3, AwaitStartLeads DEF Counting
      <4> QED
        BY <4>1 DEF Uncounted
    <3>3. Uncounted' \in {0, 1}
      BY DEF Uncounted
    <3> QED
      BY <1>0, <2>1, <3>1, <3>2, <3>3
  <2> QED
    BY <2>2, <2>3
<1>2. CASE Others
  <2>0. loop' = loop /\ Counting
    BY <1>2 DEF Others, ClockExpires, loopLocals, Counting
  <2>1. ASSUME NEW a \in Actors, InsertAttempt(a), call[a].op = "startAttempt",
               call'[a].fresh \in Attempts, Existing' = Existing \union {call'[a].fresh},
               call'[a].pc \in {"cas", "illegal_transition"}
        PROVE  Cardinality(Existing)' <= loop'.attemptNumber + Uncounted'
    <3>1. a = Loop /\ call[Loop].pc = "insert"
      BY <1>0, <2>1 DEF InsertAttempt, GateInv, CallsPermitted, LoopAlone, Users, Awaiting
    <3>2. loop.pc = "awaitStart"
      <4>1. loop.pc \in LoopPcs /\ call[Loop].pc \in Awaiting
        BY <1>0, <3>1, LoopShapeOK DEF LoopInv, LoopShape, Awaiting
      <4> QED
        BY <1>0, <2>1, <3>1, <4>1, AwaitedAt, Names DEF CallAgrees
    <3>3. Uncounted = 0 /\ Uncounted' = 1
      BY <2>0, <2>1, <3>1, <3>2 DEF Uncounted
    <3>4. Cardinality(Existing') <= Cardinality(Existing) + 1
      BY <2>1, RowsAreCounted, OneMore
    <3>5. Cardinality(Existing') \in Nat
      BY <2>1, RowsAreCounted, OneMore
    <3> QED
      BY <1>0, <2>0, <3>3, <3>4, <3>5
  <2>2. CASE Existing' = Existing /\ \A a \in Actors : ~InsertAttempt(a)
    <3>1. Uncounted' >= Uncounted
      BY <1>0, <1>2, <2>0, InsertLast DEF Uncounted
    <3>2. Uncounted' \in {0, 1}
      BY DEF Uncounted
    <3> QED
      BY <1>0, <2>0, <2>2, <3>1, <3>2
  <2> QED
    BY <1>0, <2>1, <2>2, RowsGrow
<1> QED
  BY <1>0, <1>1, <1>2, LoopNextIs

\* The loop's call is the only one that adds evaluations, and the one it adds is
\* the one the loop has asked for.
LEMMA EvaluationsGrow ==
    ASSUME LoopAlone, VerifiedInv, Others
    PROVE  \/ evaluations' = evaluations
           \/ /\ InsertEvaluation(Loop) /\ call[Loop].pc = "insertEvaluation"
              /\ call'[Loop].pc = "setStatus" /\ loop.pc = "recording"
              /\ evaluations' = evaluations \union {call[Loop].evaluation}
<1>0. LoopInv /\ GateInv /\ TypeInv /\ CallAgrees /\ [ServiceNext]_serviceVars
  BY DEF VerifiedInv, LoopInv, Others
<1>1. ASSUME NEW a \in Actors, InsertEvaluation(a)
      PROVE  /\ InsertEvaluation(Loop) /\ call[Loop].pc = "insertEvaluation"
             /\ call'[Loop].pc = "setStatus" /\ loop.pc = "recording"
             /\ evaluations' = evaluations \union {call[Loop].evaluation}
  <2>1. /\ call[a].op = "recordEvaluation" /\ call[a].pc \in Awaiting
        /\ call[a].pc = "insertEvaluation"
    BY <1>0, <1>1 DEF InsertEvaluation, GateInv, RecordsWhileOpen, Awaiting
  <2>2. a = Loop
    BY <1>0, <2>1 DEF GateInv, CallsPermitted, LoopAlone, Users
  <2>3. loop.pc = "recording"
    <3>1. loop.pc \in LoopPcs
      BY <1>0, LoopShapeOK DEF LoopInv, LoopShape
    <3> QED
      BY <1>0, <2>1, <2>2, <3>1, AwaitedAt, Names DEF CallAgrees
  <2>4. call'[Loop].pc = "setStatus" /\ evaluations' = evaluations \union {call[Loop].evaluation}
    BY <1>0, <1>1, <2>2 DEF InsertEvaluation, TypeInv, ServiceTypeOK, Calls
  <2> QED
    BY <1>1, <2>1, <2>2, <2>3, <2>4
<1>2. evaluations' # evaluations => \E a \in Actors : InsertEvaluation(a)
  BY <1>0 DEF ServiceNext, CallTransition, CallRecordEvaluation, RepoStep, Load, ListAttempts,
         InsertAttempt, CheckCriteria, CompareAndSwap, UpdateById, FinalizeAttempt, WriteEvent,
         SetCriterionStatus, SetLastEvaluation, RepoError, serviceVars
<1> QED
  BY <1>1, <1>2

LEMMA FailsAreCounted ==
    ASSUME IsFiniteSet(evaluations), NEW c
    PROVE  IsFiniteSet(Fails(c)) /\ Cardinality(Fails(c)) \in Nat
<1>1. Fails(c) \subseteq evaluations
  BY DEF Fails
<1> QED
  BY <1>1, FS_Subset, FS_CardinalityType

\* The loop's own steps add no evaluation, and count what they owe.
LEMMA OwedByLoop ==
    ASSUME VerifiedInv, LoopStep, Counting', NEW c \in Required
    PROVE  Counting /\ loop.repairs[c] + Owed(c) <= loop'.repairs[c] + Owed(c)'
<1>0. LoopInv /\ loop \in LoopShape /\ loop.repairs[c] \in Int /\ Counting
  BY LoopShapeOK, CountersMove, LoopAssumption DEF VerifiedInv, LoopInv, LoopShape
<1>1. Owed(c) \in {0, 1} /\ Owed(c)' \in {0, 1}
  BY DEF Owed
<1>2. CASE DecideRepair
  <2>1. /\ Owed(c) = 1 => loop.outcomes[c] = "FAIL"
        /\ loop'.repairs[c] = IF loop.outcomes[c] = "FAIL" THEN loop.repairs[c] + 1
                                                           ELSE loop.repairs[c]
    BY <1>0, <1>2, DecideRepairDoes DEF Owed
  <2> QED
    BY <1>0, <1>1, <2>1
<1>3. CASE ~DecideRepair /\ loop.pc # "recording"
  <2>1. Owed(c) = 0 /\ loop'.repairs[c] = loop.repairs[c]
    BY <1>0, <1>3, CountersMove DEF Owed
  <2> QED
    BY <1>0, <1>1, <2>1
<1>4. CASE ~DecideRepair /\ loop.pc = "recording"
  <2>1. RecordNext
    BY <1>0, <1>4, CountersMove
  <2>2. /\ loop'.pc = "recording" /\ loop'.repairs[c] = loop.repairs[c]
        /\ loop'.outcomes = loop.outcomes /\ loop'.attemptId = loop.attemptId
    BY <1>0, <2>1, RecordNextDoes
  <2>3. PICK d \in Required \ loop.recorded : /\ loop'.recorded = loop.recorded \union {d}
                                             /\ call'[Loop].evaluation = EvaluationOf(d)
    BY <1>0, <2>1, RecordNextDoes
  <2>4. CASE Owed(c) = 1
    <3>1. c \in loop.recorded /\ loop.outcomes[c] = "FAIL" /\ c # d
      BY <2>3, <2>4 DEF Owed
    <3>2. EvaluationOf(c)' = EvaluationOf(c) /\ EvaluationOf(c) # EvaluationOf(d)
      BY <2>2, <3>1 DEF EvaluationOf
    <3>3. Owed(c)' = 1
      BY <2>2, <2>3, <3>1, <3>2 DEF Owed
    <3> QED
      BY <1>0, <2>2, <2>4, <3>3
  <2> QED
    BY <1>0, <1>1, <2>2, <2>4
<1> QED
  BY <1>2, <1>3, <1>4

\* A call in progress is owed for as soon as it has written its row.
LEMMA OwedByOthers ==
    ASSUME LoopAlone, VerifiedInv, Others, loop' = loop, NEW c \in Required
    PROVE  Owed(c) <= Owed(c)'
<1>0. LoopInv /\ TypeInv
  BY DEF VerifiedInv, LoopInv
<1>1. Owed(c) \in {0, 1} /\ Owed(c)' \in {0, 1} /\ EvaluationOf(c)' = EvaluationOf(c)
  BY DEF Owed, EvaluationOf
<1>2. CASE call'[Loop] = call[Loop]
  <2>1. Owed(c)' = Owed(c)
    BY <1>1, <1>2 DEF Owed
  <2> QED
    BY <1>1, <2>1
<1>3. CASE RepoStep(Loop) /\ CallTo(Loop)
  <2>1. Writes(Loop)
    BY <1>0, <1>3, RepoStepWrites, LoopAssumption
  <2>2. /\ call'[Loop].pc # "load" /\ call'[Loop].evaluation = call[Loop].evaluation
        /\ call'[Loop].pc = "insertEvaluation" => call[Loop].pc = "load"
    <3>1. call'[Loop].pc = "insertEvaluation" => call[Loop].op = "recordEvaluation"
      BY <1>3 DEF CallTo
    <3>2. call[Loop].pc = "list" => call[Loop].op = "startAttempt"
      BY <1>0, LoopAssumption DEF TypeInv, CallsCoherent, Coherent
    <3> QED
      BY <1>3, <2>1, <3>1, <3>2 DEF Writes, CallTo
  <2>3. Owed(c) = 1 => Owed(c)' = 1
    BY <1>1, <2>2 DEF Owed
  <2> QED
    BY <1>1, <2>3
<1> QED
  BY <1>2, <1>3 DEF Others

LEMMA FailsKept ==
    ASSUME LoopAlone, BudgetInv, [LoopNext]_loopVars
    PROVE  FailsCounted'
<1>0. /\ VerifiedInv /\ LoopInv /\ TypeInv /\ loop \in LoopShape /\ Loop \in Actors
      /\ IsFiniteSet(evaluations)
      /\ Counting => \A c \in Required : Cardinality(Fails(c)) <= loop.repairs[c] + Owed(c)
      /\ \A c \in Required : loop.repairs[c] \in Int
      /\ \A c \in Required : Owed(c) \in {0, 1} /\ Owed(c)' \in {0, 1}
  BY LoopShapeOK, LoopAssumption
  DEF BudgetInv, VerifiedInv, LoopInv, FailsCounted, LoopShape, Owed
<1>1. CASE LoopStep
  <2>1. evaluations' = evaluations /\ \A c : Fails(c)' = Fails(c)
    BY <1>0, <1>1, LoopStepStays DEF Fails
  <2>2. loop' \in LoopShape
    <3>1. LoopInv'
      BY <1>0, LoopInvStep
    <3> QED
      BY <3>1, LoopShapeOK DEF LoopInv, LoopTypeOK, LoopShape, Signatures
  <2>3. ASSUME Counting', NEW c \in Required
        PROVE  Cardinality(Fails(c)') <= loop'.repairs[c] + Owed(c)'
    <3>1. Counting /\ loop.repairs[c] + Owed(c) <= loop'.repairs[c] + Owed(c)'
      BY <1>0, <1>1, <2>3, OwedByLoop
    <3>2. Cardinality(Fails(c)) \in Nat /\ loop'.repairs[c] \in Int
      BY <1>0, <2>2, FailsAreCounted, LoopAssumption DEF LoopShape
    <3> QED
      BY <1>0, <2>1, <3>1, <3>2
  <2> QED
    BY <1>0, <2>1, <2>3 DEF FailsCounted
<1>2. CASE Others
  <2>0. loop' = loop /\ (Counting' <=> Counting)
    BY <1>2 DEF Others, ClockExpires, loopLocals, Counting
  <2>1. CASE evaluations' = evaluations
    <3>1. \A c : Fails(c)' = Fails(c)
      BY <2>1 DEF Fails
    <3>2. ASSUME Counting', NEW c \in Required
          PROVE  Cardinality(Fails(c)') <= loop'.repairs[c] + Owed(c)'
      <4>1. Cardinality(Fails(c)) \in Nat /\ Owed(c) <= Owed(c)'
        BY <1>0, <1>2, <2>0, FailsAreCounted, OwedByOthers
      <4> QED
        BY <1>0, <2>0, <3>1, <3>2, <4>1
    <3> QED
      BY <1>0, <2>1, <3>2 DEF FailsCounted
  <2>2. ASSUME call[Loop].pc = "insertEvaluation", call'[Loop].pc = "setStatus",
               loop.pc = "recording",
               evaluations' = evaluations \union {call[Loop].evaluation}
        PROVE  FailsCounted'
    <3> DEFINE e == call[Loop].evaluation
    <3>1. PICK d \in loop.recorded : e = EvaluationOf(d)
      <4>1. call[Loop].op = "recordEvaluation"
        BY <1>0, <2>2 DEF LoopInv, CallAgrees
      <4> QED
        BY <1>0, <2>2, <4>1 DEF VerifiedInv, RecordsAgree
    <3>2. e.criterion = d /\ e.verdict = loop.outcomes[d]
      BY <3>1 DEF EvaluationOf
    <3>3. IsFiniteSet(evaluations)'
      BY <1>0, <2>2, OneMore
    <3>4. ASSUME NEW c \in Required, Counting
          PROVE  Cardinality(Fails(c)') <= loop'.repairs[c] + Owed(c)'
      <4>0. IsFiniteSet(Fails(c)) /\ Cardinality(Fails(c)) \in Nat /\ Owed(c) <= Owed(c)'
        BY <1>0, <1>2, <2>0, FailsAreCounted, OwedByOthers
      <4>1. CASE c = d /\ loop.outcomes[d] = "FAIL"
        <5>1. Fails(c)' = Fails(c) \union {e}
          BY <2>2, <3>2, <4>1 DEF Fails
        <5>2. /\ Cardinality(Fails(c)') \in Nat
              /\ Cardinality(Fails(c)') <= Cardinality(Fails(c)) + 1
          BY <4>0, <5>1, OneMore
        <5>3. Owed(c) = 0 /\ Owed(c)' = 1
          BY <2>0, <2>2, <3>1, <4>1 DEF Owed
        <5> QED
          BY <1>0, <2>0, <3>4, <4>0, <5>2, <5>3
      <4>2. CASE ~(c = d /\ loop.outcomes[d] = "FAIL")
        <5>1. Fails(c)' = Fails(c)
          BY <2>2, <3>2, <4>2 DEF Fails
        <5> QED
          BY <1>0, <2>0, <3>4, <4>0, <5>1
      <4> QED
        BY <4>1, <4>2
    <3> QED
      BY <2>0, <3>3, <3>4 DEF FailsCounted
  <2> QED
    BY <1>0, <1>2, <2>1, <2>2, EvaluationsGrow
<1> QED
  BY <1>0, <1>1, <1>2, LoopNextIs

LEMMA BudgetInvInit == LoopInit => BudgetInv
<1> SUFFICES ASSUME LoopInit PROVE BudgetInv
  OBVIOUS
<1>0. VerifiedInv /\ loop.pc = "top" /\ ServiceInit
  BY VerifiedInvInit, LoopInvInit DEF LoopInit
<1>a. /\ \A c \in Required : loop.repairs[c] = 0
      /\ loop.attemptNumber = 0
  BY DEF LoopInit
<1>1. Existing = {} /\ Cardinality(Existing) = 0
  BY <1>0, FS_EmptySet DEF ServiceInit, Existing
<1>2. /\ IsFiniteSet(evaluations)
      /\ \A c : Cardinality(Fails(c)) = 0
  BY <1>0, FS_EmptySet DEF ServiceInit, Fails
<1>3. AttemptsThere
  BY <1>0 DEF ServiceInit, Idle, AttemptsThere
<1>4. RowsCounted
  BY <1>0, <1>a, <1>1 DEF RowsCounted, Uncounted
<1>5. FailsCounted
  BY <1>0, <1>a, <1>2 DEF FailsCounted, Owed
<1> QED
  BY <1>0, <1>3, <1>4, <1>5 DEF BudgetInv

LEMMA BudgetInvStep ==
    ASSUME LoopAlone PROVE BudgetInv /\ [LoopNext]_loopVars => BudgetInv'
<1> SUFFICES ASSUME BudgetInv, [LoopNext]_loopVars PROVE BudgetInv'
  OBVIOUS
<1>1. VerifiedInv' /\ AttemptsThere'
  <2>1. VerifiedInv /\ LoopInv /\ GateInv /\ TypeInv /\ AttemptsThere
    BY DEF BudgetInv, VerifiedInv, LoopInv
  <2> QED
    BY <2>1, VerifiedInvStep, LoopInvStep, AttemptsThereKept
<1>2. RowsCounted'
  BY RowsKept
<1>3. FailsCounted'
  BY FailsKept
<1> QED
  BY <1>1, <1>2, <1>3 DEF BudgetInv

\* Only AttemptStarted launches, and every count leaves it room for one more.
LEMMA LaunchCounted ==
    ASSUME LoopAlone, BudgetInv, [LoopNext]_loopVars, loop.pc # "running", loop'.pc = "running"
    PROVE  /\ loop'.attemptNumber <= MaxAttempts
           /\ Cardinality(Existing) <= MaxAttempts
           /\ TokenBudget # 0 => loop.tokens > 0
           /\ \A c \in Required : Cardinality(Fails(c)) <= MaxRepairs
<1>0. LoopInv /\ TypeInv /\ loop \in LoopShape /\ loop.attemptNumber \in Int
  BY LoopShapeOK, LoopAssumption DEF BudgetInv, VerifiedInv, LoopInv, LoopShape
<1>1. LoopStep
  BY <1>0, LoopNextIs DEF Others, ClockExpires, loopLocals
<1>2. AttemptStarted
  BY <1>0, <1>1, CountersMove DEF Counting, Working
<1>3. /\ loop.pc = "awaitStart" /\ call[Loop].pc = "returned"
      /\ loop'.attemptNumber = loop.attemptNumber + 1
  BY <1>0, <1>2, AttemptStartedDoes
<1>4. loop.attemptNumber < MaxAttempts /\ (TokenBudget # 0 => loop.tokens > 0)
  BY <1>0, <1>3 DEF LoopInv, LocalsAgree, MayLaunch, BudgetLeft
<1>5. MaxAttempts \in Int /\ Cardinality(Existing) \in Nat
  BY LoopAssumption, RowsAreCounted
<1>6. Cardinality(Existing) <= loop.attemptNumber + 1
  BY <1>0, <1>3 DEF BudgetInv, RowsCounted, Counting, Uncounted
<1>7. ASSUME NEW c \in Required PROVE Cardinality(Fails(c)) <= MaxRepairs
  <2>1. Cardinality(Fails(c)) \in Nat
    BY FailsAreCounted DEF BudgetInv, FailsCounted
  <2>2. Cardinality(Fails(c)) <= loop.repairs[c] + 0
    BY <1>3 DEF BudgetInv, FailsCounted, Counting, Owed
  <2>3. loop.repairs[c] \in 0 .. MaxRepairs /\ MaxRepairs \in Int
    BY <1>0, LoopAssumption DEF LoopShape
  <2> QED
    BY <2>1, <2>2, <2>3
<1> QED
  BY <1>0, <1>3, <1>4, <1>5, <1>6, <1>7

\* Whatever its users do meanwhile, and whatever calls are rejected, no agent is
\* launched past the attempts, the tokens or the repairs the mission was given.
THEOREM LaunchesWithinBudget == ASSUME LoopAlone PROVE LoopSpec => LaunchWithinBudget
<1>1. BudgetInv /\ [LoopNext]_loopVars => BudgetInv'
  BY BudgetInvStep
<1>2. BudgetInv /\ [LoopNext]_loopVars =>
          [loop.pc # "running" /\ loop'.pc = "running" =>
              /\ loop'.attemptNumber <= MaxAttempts
              /\ Cardinality(Existing) <= MaxAttempts
              /\ TokenBudget # 0 => loop.tokens > 0
              /\ \A c \in Required :
                    Cardinality({e \in evaluations : e.criterion = c /\ e.verdict = "FAIL"})
                        <= MaxRepairs]_loopVars
  BY LaunchCounted DEF Fails
<1> QED
  BY <1>1, <1>2, BudgetInvInit, PTL DEF LoopSpec, LaunchWithinBudget

=============================================================================
