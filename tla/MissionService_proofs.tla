------------------------ MODULE MissionService_proofs ------------------------
(***************************************************************************)
(* Proofs about MissionService, for any callers, criteria and bounds.      *)
(* Type correctness, and what is said of verdicts and of completion, hold  *)
(* over every backend.  The other safety properties are theorems of the    *)
(* backends whose compare-and-swap is one step (AtomicCAS): over the       *)
(* desktop backend they are false.                                         *)
(*                                                                         *)
(* None of them is inductive by itself: what a call may write depends on   *)
(* what it checked when it was at an earlier program counter.  TypeInv,    *)
(* ServiceInv, VerdictInv and GateInv add what calls in progress have      *)
(* established.                                                            *)
(***************************************************************************)
EXTENDS MissionService, FiniteSetTheorems, TLAPS

\* What has been checked by a call whose next repository call is c.pc.
Coherent(c) ==
    /\ c.pc = "load" /\ c.op = "recordEvaluation" => c.evaluation \in Evaluations
    /\ c.pc \in {"insertEvaluation", "setStatus", "setLast"} => c.evaluation \in Evaluations
    /\ c.pc \in {"list", "insert"} => c.op = "startAttempt"
    /\ c.pc = "criteria" => c.op = "completeMission"
    /\ c.pc \in {"cas", "update", "finalize", "event"} =>
          /\ c.op \in Transitions
          /\ canTransition(c.from, Target[c.op])
          /\ c.op = "startAttempt" => c.fresh \in Attempts
    /\ c.pc = "update" => ~AtomicCAS
    /\ c.pc = "finalize" => c.current \in Attempts /\ Closes[c.op] \in ClosedStatus

CallsCoherent == \A a \in Actors : Coherent(call[a])

\* A call that has moved the mission to a terminal status, and has not yet
\* written its event, finds the mission in that status.
OutcomePending ==
    \A a \in Actors :
        call[a].pc \in {"finalize", "event"} /\ Target[call[a].op] \in Terminal
            => mission.status = Target[call[a].op]

TypeInv == ServiceTypeOK /\ CallsCoherent

ServiceInv == TypeInv /\ OutcomePending /\ TerminalEventTruthful

-----------------------------------------------------------------------------
(* The status graph and the methods. *)

LEMMA TargetType == Target \in [Transitions -> MissionStatus]
BY DEF Target, Transitions, MissionStatus

LEMMA ClosesType == \A op \in Transitions : Closes[op] \in ClosedStatus \union {"open"}
BY DEF Closes, Transitions, ClosedStatus

LEMMA VerdictType == VERDICT_TO_CRITERION_STATUS \in [Verdicts -> CriterionStatus]
BY DEF VERDICT_TO_CRITERION_STATUS, Verdicts, CriterionStatus

\* The graph has no edge out of a terminal status, and none from an active root
\* to running.
LEMMA GraphShape ==
    /\ \A s \in Terminal, to \in MissionStatus : ~canTransition(s, to)
    /\ \A s \in ActiveRoot : ~canTransition(s, "running")
<1>1. \A s \in Terminal : ALLOWED_TRANSITIONS[s] = {}
  BY DEF ALLOWED_TRANSITIONS, Terminal, MissionStatus
<1>2. \A s \in ActiveRoot : "running" \notin ALLOWED_TRANSITIONS[s]
  BY DEF ALLOWED_TRANSITIONS, ActiveRoot, MissionStatus, Terminal
<1> QED BY <1>1, <1>2 DEF canTransition

\* startAttempt leads to running.
LEMMA StartTarget == "startAttempt" \in Transitions /\ Target["startAttempt"] = "running"
BY DEF Target, Transitions

-----------------------------------------------------------------------------
(* The records of calls in progress. *)

Pcs == {"idle"} \union Awaiting \union Settled

LEMMA SetPc ==
    ASSUME NEW c \in Calls, NEW p \in Pcs
    PROVE  /\ [c EXCEPT !.pc = p] \in Calls
           /\ [c EXCEPT !.pc = p].pc = p
           /\ [c EXCEPT !.pc = p].op = c.op
           /\ [c EXCEPT !.pc = p].from = c.from
           /\ [c EXCEPT !.pc = p].current = c.current
           /\ [c EXCEPT !.pc = p].fresh = c.fresh
           /\ [c EXCEPT !.pc = p].evaluation = c.evaluation
BY DEF Calls, Pcs

\* A call that has settled has nothing left to be coherent about.
LEMMA SettledCoherent ==
    ASSUME NEW c \in Calls, NEW p \in {"idle"} \union Settled
    PROVE  [c EXCEPT !.pc = p] \in Calls /\ Coherent([c EXCEPT !.pc = p])
<1>1. p \in Pcs
  BY DEF Pcs
<1>2. p \notin {"load", "insertEvaluation", "setStatus", "setLast", "list", "insert",
                "criteria", "cas", "update", "finalize", "event"}
  BY DEF Settled, Errors
<1> QED BY <1>1, <1>2, SetPc DEF Coherent

LEMMA ValidatedKeeps ==
    ASSUME NEW c \in Calls, c.op \in Transitions,
           c.op = "startAttempt" => c.fresh \in Attempts
    PROVE  Validated(c) \in Calls /\ Coherent(Validated(c))
<1>1. "cas" \in Pcs /\ "illegal_transition" \in Settled
  BY DEF Pcs, Awaiting, Settled, Errors
<1>2. CASE canTransition(c.from, Target[c.op])
  <2>1. Validated(c) = [c EXCEPT !.pc = "cas"]
    BY <1>2 DEF Validated
  <2> QED BY <2>1, <1>1, <1>2, SetPc DEF Coherent
<1>3. CASE ~canTransition(c.from, Target[c.op])
  <2>1. Validated(c) = [c EXCEPT !.pc = "illegal_transition"]
    BY <1>3 DEF Validated
  <2> QED BY <2>1, <1>1, SettledCoherent
<1> QED BY <1>2, <1>3

LEMMA AfterLoadKeeps ==
    ASSUME NEW c \in Calls, c.pc = "load", Coherent(c)
    PROVE  AfterLoad(c) \in Calls /\ Coherent(AfterLoad(c))
<1>0. /\ {"insertEvaluation", "list", "criteria"} \subseteq Pcs
      /\ "invariant_violation" \in Settled
  BY DEF Pcs, Awaiting, Settled, Errors
<1>1. CASE c.op = "recordEvaluation"
  <2>1. AfterLoad(c) = [c EXCEPT !.pc = IF c.from = "verifying"
                             THEN "insertEvaluation" ELSE "invariant_violation"]
    BY <1>1 DEF AfterLoad
  <2>2. CASE c.from = "verifying"
    BY <1>0, <1>1, <2>1, <2>2, SetPc DEF Coherent
  <2>3. CASE c.from # "verifying"
    BY <1>0, <2>1, <2>3, SettledCoherent
  <2> QED BY <2>2, <2>3
<1>2. CASE c.op = "startAttempt"
  <2>1. AfterLoad(c) = [c EXCEPT !.pc = IF c.from \in ActiveRoot /\ c.current # NoAttempt
                             THEN "invariant_violation" ELSE "list"]
    BY <1>2 DEF AfterLoad
  <2>2. CASE c.from \in ActiveRoot /\ c.current # NoAttempt
    BY <1>0, <2>1, <2>2, SettledCoherent
  <2>3. CASE ~(c.from \in ActiveRoot /\ c.current # NoAttempt)
    BY <1>0, <1>2, <2>1, <2>3, SetPc DEF Coherent
  <2> QED BY <2>2, <2>3
<1>3. CASE c.op = "completeMission"
  <2>1. AfterLoad(c) = [c EXCEPT !.pc = "criteria"]
    BY <1>3 DEF AfterLoad
  <2> QED BY <1>0, <1>3, <2>1, SetPc DEF Coherent
<1>4. CASE c.op \notin {"recordEvaluation", "startAttempt", "completeMission"}
  <2>1. AfterLoad(c) = Validated(c)
    BY <1>4 DEF AfterLoad
  <2>2. c.op \in Transitions
    BY <1>4 DEF Calls, Operations
  <2> QED BY <1>4, <2>1, <2>2, ValidatedKeeps
<1> QED BY <1>1, <1>2, <1>3, <1>4

LEMMA AfterWriteKeeps ==
    ASSUME NEW c \in Calls, Coherent(c), c.pc \in {"cas", "update"}
    PROVE  /\ AfterWrite(c) \in Calls /\ Coherent(AfterWrite(c))
           /\ AfterWrite(c).pc \in {"finalize", "event"}
           /\ AfterWrite(c).op = c.op
<1>0. {"finalize", "event"} \subseteq Pcs
  BY DEF Pcs, Awaiting
<1>1. CASE Closes[c.op] # "open" /\ c.current # NoAttempt
  <2>1. AfterWrite(c) = [c EXCEPT !.pc = "finalize"]
    BY <1>1 DEF AfterWrite
  <2>2. c.current \in Attempts /\ Closes[c.op] \in ClosedStatus
    BY <1>1, ClosesType DEF Calls, Coherent
  <2> QED BY <1>0, <2>1, <2>2, SetPc DEF Coherent
<1>2. CASE ~(Closes[c.op] # "open" /\ c.current # NoAttempt)
  <2>1. AfterWrite(c) = [c EXCEPT !.pc = "event"]
    BY <1>2 DEF AfterWrite
  <2> QED BY <1>0, <2>1, SetPc DEF Coherent
<1> QED BY <1>1, <1>2

-----------------------------------------------------------------------------
(* Type correctness and coherence of every action, over any backend. *)

LEMMA CallStep ==
    ASSUME call \in [Actors -> Calls], CallsCoherent, NEW a \in Actors, NEW c \in Calls,
           Coherent(c), call' = [call EXCEPT ![a] = c]
    PROVE  call' \in [Actors -> Calls] /\ CallsCoherent'
<1>1. call' \in [Actors -> Calls]
  OBVIOUS
<1>2. \A b \in Actors : call'[b] = IF b = a THEN c ELSE call[b]
  OBVIOUS
<1>3. \A b \in Actors : Coherent(call'[b])
  BY <1>2 DEF CallsCoherent
<1> QED BY <1>1, <1>3 DEF CallsCoherent

\* The tables keep their type and one call moves on.
LEMMA OneCall ==
    ASSUME TypeInv, NEW a \in Actors, NEW c \in Calls, Coherent(c),
           call' = [call EXCEPT ![a] = c],
           mission' \in [status : MissionStatus, attempt : Attempts \union {NoAttempt}],
           attempts' \in [Attempts -> [status : AttemptStatus, number : 0 .. MaxAttemptRows + 1]],
           criteria' \in [Criteria -> [status : CriterionStatus,
                                  last : Evaluations \union {NoEvaluation}]],
           evaluations' \subseteq Evaluations,
           events' \subseteq MissionEvents
    PROVE  TypeInv'
<1>1. call' \in [Actors -> Calls] /\ CallsCoherent'
  BY CallStep DEF TypeInv, ServiceTypeOK
<1> QED BY <1>1 DEF TypeInv, ServiceTypeOK

LEMMA IdleType ==
    ASSUME NEW n \in Nat
    PROVE  Idle(n) \in Calls /\ Idle(n).pc = "idle" /\ Coherent(Idle(n)) /\ Idle(n).left = n
<1>1. /\ "cancel" \in Operations /\ "draft" \in MissionStatus /\ 0 \in 0 .. MaxAttemptRows
  BY BoundsAssumption DEF Operations, Transitions, MissionStatus
<1> QED BY <1>1 DEF Idle, Calls, Coherent

LEMMA TypeInvInit == ServiceInit => TypeInv
<1> SUFFICES ASSUME ServiceInit PROVE TypeInv
  OBVIOUS
<1>1. \A a \in Actors : MaxCalls[a] \in Nat
  BY BoundsAssumption
<1>2. call \in [Actors -> Calls] /\ CallsCoherent
  BY <1>1, IdleType DEF ServiceInit, CallsCoherent
<1>3. mission \in [status : MissionStatus, attempt : Attempts \union {NoAttempt}]
  BY DEF ServiceInit, MissionStatus
<1>4. attempts \in [Attempts -> [status : AttemptStatus, number : 0 .. MaxAttemptRows + 1]]
  BY BoundsAssumption DEF ServiceInit, AttemptStatus
<1>5. criteria \in [Criteria -> [status : CriterionStatus, last : Evaluations \union {NoEvaluation}]]
  BY DEF ServiceInit, CriterionStatus
<1> QED BY <1>2, <1>3, <1>4, <1>5 DEF TypeInv, ServiceTypeOK, ServiceInit

\* A new call: its record is that of an idle actor, at its load.
LEMMA BeginKeeps ==
    ASSUME TypeInv, NEW a \in Actors, call[a].left > 0, NEW op \in Operations,
           NEW e \in Evaluations \union {NoEvaluation},
           op = "recordEvaluation" => e \in Evaluations,
           Begin(a, op, e), UNCHANGED <<mission, attempts, criteria, evaluations, events>>
    PROVE  TypeInv'
<1> DEFINE n == call[a].left - 1
           c == [Idle(n) EXCEPT !.pc = "load", !.op = op, !.evaluation = e]
<1>1. n \in Nat
  BY DEF TypeInv, ServiceTypeOK, Calls
<1>2. /\ c \in Calls /\ Coherent(c)
  <2>1. "load" \in Awaiting
    BY DEF Awaiting
  <2> DEFINE c1 == [Idle(n) EXCEPT !.pc = "load"]
             c2 == [c1 EXCEPT !.op = op]
             c3 == [c2 EXCEPT !.evaluation = e]
  <2>2. c1 \in Calls /\ c1.pc = "load"
    BY <1>1, <2>1, IdleType, SetPc DEF Pcs
  <2>3. c2 \in Calls /\ c2.pc = "load" /\ c2.op = op
    BY <2>2 DEF Calls
  <2>4. c3 \in Calls /\ c3.pc = "load" /\ c3.op = op /\ c3.evaluation = e
    BY <2>3 DEF Calls
  <2>5. c = c3
    OBVIOUS
  <2> QED BY <2>4, <2>5 DEF Coherent
<1>3. call' = [call EXCEPT ![a] = c]
  BY DEF Begin
<1> QED BY <1>2, <1>3, OneCall DEF TypeInv, ServiceTypeOK

LEMMA LoadKeeps == ASSUME TypeInv, NEW a \in Actors, Load(a) PROVE TypeInv'
<1> DEFINE c == [call[a] EXCEPT !.from = mission.status, !.current = mission.attempt]
<1>1. /\ call[a] \in Calls /\ Coherent(call[a]) /\ call[a].pc = "load"
      /\ mission.status \in MissionStatus /\ mission.attempt \in Attempts \union {NoAttempt}
  BY DEF Load, TypeInv, ServiceTypeOK, CallsCoherent
<1>2. /\ c \in Calls /\ c.pc = "load" /\ c.op = call[a].op
      /\ c.evaluation = call[a].evaluation
  BY <1>1 DEF Calls
<1>3. Coherent(c)
  BY <1>1, <1>2 DEF Coherent
<1>4. AfterLoad(c) \in Calls /\ Coherent(AfterLoad(c))
  BY <1>2, <1>3, AfterLoadKeeps
<1>5. call' = [call EXCEPT ![a] = AfterLoad(c)]
  BY DEF Load
<1> QED BY <1>4, <1>5, OneCall DEF Load, TypeInv, ServiceTypeOK

LEMMA ExistingCount == Cardinality(Existing) \in 0 .. MaxAttemptRows
<1>1. IsFiniteSet(Attempts) /\ Cardinality(Attempts) = MaxAttemptRows
  BY FS_Interval, BoundsAssumption DEF Attempts
<1>2. Existing \subseteq Attempts
  BY DEF Existing
<1>3. Cardinality(Existing) \in Nat /\ Cardinality(Existing) <= Cardinality(Attempts)
  BY <1>1, <1>2, FS_Subset, FS_CardinalityType
<1> QED BY <1>1, <1>3, BoundsAssumption

LEMMA ListAttemptsKeeps == ASSUME TypeInv, NEW a \in Actors, ListAttempts(a) PROVE TypeInv'
<1> DEFINE c == [call[a] EXCEPT !.pc = "insert", !.number = Cardinality(Existing)]
<1>1. call[a] \in Calls /\ Coherent(call[a]) /\ call[a].pc = "list"
  BY DEF ListAttempts, TypeInv, ServiceTypeOK, CallsCoherent
<1>2. "insert" \in Awaiting
  BY DEF Awaiting
<1>3. c \in Calls /\ c.pc = "insert" /\ c.op = call[a].op
  BY <1>1, <1>2, ExistingCount DEF Calls
<1>4. Coherent(c)
  BY <1>1, <1>3 DEF Coherent
<1>5. call' = [call EXCEPT ![a] = c]
  BY DEF ListAttempts
<1> QED BY <1>3, <1>4, <1>5, OneCall DEF ListAttempts, TypeInv, ServiceTypeOK

LEMMA InsertAttemptKeeps == ASSUME TypeInv, NEW a \in Actors, InsertAttempt(a) PROVE TypeInv'
<1>1. call[a] \in Calls /\ Coherent(call[a]) /\ call[a].pc = "insert"
  BY DEF InsertAttempt, TypeInv, ServiceTypeOK, CallsCoherent
<1>2. PICK id \in Attempts \ Existing :
         /\ attempts' = [attempts EXCEPT ![id] = [status |-> "running",
                                                  number |-> call[a].number + 1]]
         /\ call' = [call EXCEPT ![a] = Validated([@ EXCEPT !.fresh = id])]
  BY DEF InsertAttempt
<1> DEFINE c == [call[a] EXCEPT !.fresh = id]
<1>3. c \in Calls /\ c.fresh = id /\ c.op = "startAttempt"
  BY <1>1 DEF Calls, Coherent
<1>4. Validated(c) \in Calls /\ Coherent(Validated(c))
  BY <1>3, StartTarget, ValidatedKeeps
<1>5. attempts' \in [Attempts -> [status : AttemptStatus, number : 0 .. MaxAttemptRows + 1]]
  <2>1. [status |-> "running", number |-> call[a].number + 1]
            \in [status : AttemptStatus, number : 0 .. MaxAttemptRows + 1]
    BY <1>1, BoundsAssumption DEF Calls, AttemptStatus
  <2> QED BY <1>2, <2>1 DEF TypeInv, ServiceTypeOK
<1>6. call' = [call EXCEPT ![a] = Validated(c)]
  BY <1>2
<1> QED BY <1>4, <1>5, <1>6, OneCall DEF InsertAttempt, TypeInv, ServiceTypeOK

LEMMA CheckCriteriaKeeps == ASSUME TypeInv, NEW a \in Actors, CheckCriteria(a) PROVE TypeInv'
<1>1. call[a] \in Calls /\ Coherent(call[a]) /\ call[a].pc = "criteria"
  BY DEF CheckCriteria, TypeInv, ServiceTypeOK, CallsCoherent
<1>2. call[a].op = "completeMission" /\ "completeMission" \in Transitions
  BY <1>1 DEF Coherent, Transitions
<1> DEFINE c == IF \A k \in Required : criteria[k].status = "pass"
                THEN Validated(call[a]) ELSE [call[a] EXCEPT !.pc = "invariant_violation"]
<1>3. c \in Calls /\ Coherent(c)
  <2>1. "invariant_violation" \in Settled
    BY DEF Settled, Errors
  <2>2. Validated(call[a]) \in Calls /\ Coherent(Validated(call[a]))
    BY <1>1, <1>2, ValidatedKeeps
  <2>3. /\ [call[a] EXCEPT !.pc = "invariant_violation"] \in Calls
        /\ Coherent([call[a] EXCEPT !.pc = "invariant_violation"])
    BY <1>1, <2>1, SettledCoherent
  <2> QED BY <2>2, <2>3
<1>4. call' = [call EXCEPT ![a] = c]
  BY DEF CheckCriteria
<1> QED BY <1>3, <1>4, OneCall DEF CheckCriteria, TypeInv, ServiceTypeOK

LEMMA WrittenType ==
    ASSUME TypeInv, NEW a \in Actors, call[a].pc \in {"cas", "update"}
    PROVE  Written(call[a]) \in [status : MissionStatus, attempt : Attempts \union {NoAttempt}]
<1>1. call[a] \in Calls /\ Coherent(call[a]) /\ mission.attempt \in Attempts \union {NoAttempt}
  BY DEF TypeInv, ServiceTypeOK, CallsCoherent
<1> QED BY <1>1, TargetType DEF Written, Coherent

LEMMA CompareAndSwapKeeps == ASSUME TypeInv, NEW a \in Actors, CompareAndSwap(a) PROVE TypeInv'
<1>1. call[a] \in Calls /\ Coherent(call[a]) /\ call[a].pc = "cas"
  BY DEF CompareAndSwap, TypeInv, ServiceTypeOK, CallsCoherent
<1>2. CASE mission' = mission /\ call' = [call EXCEPT ![a].pc = "illegal_transition"]
  <2>1. "illegal_transition" \in Settled
    BY DEF Settled, Errors
  <2>2. /\ [call[a] EXCEPT !.pc = "illegal_transition"] \in Calls
        /\ Coherent([call[a] EXCEPT !.pc = "illegal_transition"])
    BY <1>1, <2>1, SettledCoherent
  <2>3. call' = [call EXCEPT ![a] = [call[a] EXCEPT !.pc = "illegal_transition"]]
    BY <1>2
  <2> QED BY <1>2, <2>2, <2>3, OneCall DEF CompareAndSwap, TypeInv, ServiceTypeOK
<1>3. CASE mission' = Written(call[a]) /\ call' = [call EXCEPT ![a] = AfterWrite(@)]
  <2>1. AfterWrite(call[a]) \in Calls /\ Coherent(AfterWrite(call[a]))
    BY <1>1, AfterWriteKeeps
  <2>2. call' = [call EXCEPT ![a] = AfterWrite(call[a])]
    BY <1>3
  <2> QED BY <1>1, <1>3, <2>1, <2>2, WrittenType, OneCall
          DEF CompareAndSwap, TypeInv, ServiceTypeOK
<1>4. CASE ~AtomicCAS /\ mission' = mission /\ call' = [call EXCEPT ![a].pc = "update"]
  <2>1. "update" \in Pcs
    BY DEF Pcs, Awaiting
  <2>2. [call[a] EXCEPT !.pc = "update"] \in Calls /\ Coherent([call[a] EXCEPT !.pc = "update"])
    BY <1>1, <1>4, <2>1, SetPc DEF Coherent
  <2>3. call' = [call EXCEPT ![a] = [call[a] EXCEPT !.pc = "update"]]
    BY <1>4
  <2> QED BY <1>4, <2>2, <2>3, OneCall DEF CompareAndSwap, TypeInv, ServiceTypeOK
<1> QED BY <1>2, <1>3, <1>4 DEF CompareAndSwap

LEMMA UpdateByIdKeeps == ASSUME TypeInv, NEW a \in Actors, UpdateById(a) PROVE TypeInv'
<1>1. call[a] \in Calls /\ Coherent(call[a]) /\ call[a].pc = "update"
  BY DEF UpdateById, TypeInv, ServiceTypeOK, CallsCoherent
<1>2. AfterWrite(call[a]) \in Calls /\ Coherent(AfterWrite(call[a]))
  BY <1>1, AfterWriteKeeps
<1>3. call' = [call EXCEPT ![a] = AfterWrite(call[a])]
  BY DEF UpdateById
<1> QED BY <1>1, <1>2, <1>3, WrittenType, OneCall DEF UpdateById, TypeInv, ServiceTypeOK

LEMMA FinalizeAttemptKeeps ==
    ASSUME TypeInv, NEW a \in Actors, FinalizeAttempt(a) PROVE TypeInv'
<1>1. call[a] \in Calls /\ Coherent(call[a]) /\ call[a].pc = "finalize"
  BY DEF FinalizeAttempt, TypeInv, ServiceTypeOK, CallsCoherent
<1>2. call[a].current \in Attempts /\ Closes[call[a].op] \in AttemptStatus
  BY <1>1 DEF Coherent, AttemptStatus
<1>3. attempts' \in [Attempts -> [status : AttemptStatus, number : 0 .. MaxAttemptRows + 1]]
  <2>1. [attempts[call[a].current] EXCEPT !.status = Closes[call[a].op]]
            \in [status : AttemptStatus, number : 0 .. MaxAttemptRows + 1]
    BY <1>2 DEF TypeInv, ServiceTypeOK
  <2> QED BY <1>2, <2>1 DEF FinalizeAttempt, TypeInv, ServiceTypeOK
<1>4. "event" \in Pcs
  BY DEF Pcs, Awaiting
<1>5. [call[a] EXCEPT !.pc = "event"] \in Calls /\ Coherent([call[a] EXCEPT !.pc = "event"])
  BY <1>1, <1>4, SetPc DEF Coherent
<1>6. call' = [call EXCEPT ![a] = [call[a] EXCEPT !.pc = "event"]]
  BY DEF FinalizeAttempt
<1> QED BY <1>3, <1>5, <1>6, OneCall DEF FinalizeAttempt, TypeInv, ServiceTypeOK

LEMMA WriteEventKeeps == ASSUME TypeInv, NEW a \in Actors, WriteEvent(a) PROVE TypeInv'
<1>1. call[a] \in Calls /\ Coherent(call[a]) /\ call[a].pc = "event"
  BY DEF WriteEvent, TypeInv, ServiceTypeOK, CallsCoherent
<1>2. /\ Target[call[a].op] \in MissionStatus /\ call[a].from \in MissionStatus
      /\ call[a].current \in Attempts \union {NoAttempt}
      /\ call[a].fresh \in Attempts \union {NoAttempt}
  BY <1>1, TargetType DEF Coherent, Calls
<1>3. events' \subseteq MissionEvents
  BY <1>2 DEF WriteEvent, TypeInv, ServiceTypeOK, MissionEvents
<1>4. "returned" \in Settled
  BY DEF Settled
<1>5. [call[a] EXCEPT !.pc = "returned"] \in Calls /\ Coherent([call[a] EXCEPT !.pc = "returned"])
  BY <1>1, <1>4, SettledCoherent
<1>6. call' = [call EXCEPT ![a] = [call[a] EXCEPT !.pc = "returned"]]
  BY DEF WriteEvent
<1> QED BY <1>3, <1>5, <1>6, OneCall DEF WriteEvent, TypeInv, ServiceTypeOK

\* The three writes of recordEvaluation.
LEMMA RecordKeeps ==
    ASSUME TypeInv, NEW a \in Actors,
           InsertEvaluation(a) \/ SetCriterionStatus(a) \/ SetLastEvaluation(a)
    PROVE  TypeInv'
<1> DEFINE e == call[a].evaluation
<1>1. call[a] \in Calls /\ Coherent(call[a]) /\ e \in Evaluations
  BY DEF InsertEvaluation, SetCriterionStatus, SetLastEvaluation,
         TypeInv, ServiceTypeOK, CallsCoherent, Coherent
<1>2. e.criterion \in Criteria /\ VERDICT_TO_CRITERION_STATUS[e.verdict] \in CriterionStatus
  BY <1>1, VerdictType DEF Evaluations
<1>3. CASE InsertEvaluation(a)
  <2>1. "setStatus" \in Pcs
    BY DEF Pcs, Awaiting
  <2>2. [call[a] EXCEPT !.pc = "setStatus"] \in Calls /\ Coherent([call[a] EXCEPT !.pc = "setStatus"])
    BY <1>1, <2>1, SetPc DEF Coherent
  <2>3. call' = [call EXCEPT ![a] = [call[a] EXCEPT !.pc = "setStatus"]]
    BY <1>3 DEF InsertEvaluation
  <2> QED BY <1>1, <1>3, <2>2, <2>3, OneCall DEF InsertEvaluation, TypeInv, ServiceTypeOK
<1>4. CASE SetCriterionStatus(a)
  <2>1. "setLast" \in Pcs
    BY DEF Pcs, Awaiting
  <2>2. [call[a] EXCEPT !.pc = "setLast"] \in Calls /\ Coherent([call[a] EXCEPT !.pc = "setLast"])
    BY <1>1, <2>1, SetPc DEF Coherent
  <2>3. call' = [call EXCEPT ![a] = [call[a] EXCEPT !.pc = "setLast"]]
    BY <1>4 DEF SetCriterionStatus
  <2>4. criteria' \in [Criteria -> [status : CriterionStatus,
                                    last : Evaluations \union {NoEvaluation}]]
    <3>1. [criteria[e.criterion] EXCEPT !.status = VERDICT_TO_CRITERION_STATUS[e.verdict]]
              \in [status : CriterionStatus, last : Evaluations \union {NoEvaluation}]
      BY <1>2 DEF TypeInv, ServiceTypeOK
    <3> QED BY <1>2, <1>4, <3>1 DEF SetCriterionStatus, TypeInv, ServiceTypeOK
  <2> QED BY <1>4, <2>2, <2>3, <2>4, OneCall DEF SetCriterionStatus, TypeInv, ServiceTypeOK
<1>5. CASE SetLastEvaluation(a)
  <2>1. "returned" \in Settled
    BY DEF Settled
  <2>2. [call[a] EXCEPT !.pc = "returned"] \in Calls /\ Coherent([call[a] EXCEPT !.pc = "returned"])
    BY <1>1, <2>1, SettledCoherent
  <2>3. call' = [call EXCEPT ![a] = [call[a] EXCEPT !.pc = "returned"]]
    BY <1>5 DEF SetLastEvaluation
  <2>4. criteria' \in [Criteria -> [status : CriterionStatus,
                                    last : Evaluations \union {NoEvaluation}]]
    <3>1. [criteria[e.criterion] EXCEPT !.last = e]
              \in [status : CriterionStatus, last : Evaluations \union {NoEvaluation}]
      BY <1>1, <1>2 DEF TypeInv, ServiceTypeOK
    <3> QED BY <1>2, <1>5, <3>1 DEF SetLastEvaluation, TypeInv, ServiceTypeOK
  <2> QED BY <1>5, <2>2, <2>3, <2>4, OneCall DEF SetLastEvaluation, TypeInv, ServiceTypeOK
<1> QED BY <1>3, <1>4, <1>5

LEMMA RepoErrorKeeps == ASSUME TypeInv, NEW a \in Actors, RepoError(a) PROVE TypeInv'
<1>1. call[a] \in Calls /\ "repo_error" \in Settled
  BY DEF TypeInv, ServiceTypeOK, Settled, Errors
<1>2. [call[a] EXCEPT !.pc = "repo_error"] \in Calls /\ Coherent([call[a] EXCEPT !.pc = "repo_error"])
  BY <1>1, SettledCoherent
<1>3. call' = [call EXCEPT ![a] = [call[a] EXCEPT !.pc = "repo_error"]]
  BY DEF RepoError
<1> QED BY <1>2, <1>3, OneCall DEF RepoError, TypeInv, ServiceTypeOK

LEMMA TypeInvStep == TypeInv /\ [ServiceNext]_serviceVars => TypeInv'
<1> SUFFICES ASSUME TypeInv, [ServiceNext]_serviceVars PROVE TypeInv'
  OBVIOUS
<1>1. ASSUME NEW a \in Actors, NEW op \in Transitions, CallTransition(a, op) PROVE TypeInv'
  <2>1. op \in Operations /\ op # "recordEvaluation"
    BY DEF Operations, Transitions
  <2> QED BY <1>1, <2>1, BeginKeeps DEF CallTransition
<1>2. ASSUME NEW a \in Actors, NEW e \in Evaluations, CallRecordEvaluation(a, e) PROVE TypeInv'
  <2>1. "recordEvaluation" \in Operations
    BY DEF Operations
  <2> QED BY <1>2, <2>1, BeginKeeps DEF CallRecordEvaluation
<1>3. ASSUME NEW a \in Actors, RepoStep(a) PROVE TypeInv'
  BY <1>3, LoadKeeps, ListAttemptsKeeps, InsertAttemptKeeps, CheckCriteriaKeeps,
     CompareAndSwapKeeps, UpdateByIdKeeps, FinalizeAttemptKeeps, WriteEventKeeps,
     RecordKeeps, RepoErrorKeeps DEF RepoStep
<1>4. CASE UNCHANGED serviceVars
  BY <1>4 DEF serviceVars, TypeInv, ServiceTypeOK, CallsCoherent
<1> QED BY <1>1, <1>2, <1>3, <1>4 DEF ServiceNext

\* Over every backend, and whatever calls interleave or fail, the rows and the
\* calls in progress are of their types, and a call only makes a repository call
\* it has made the checks for.
THEOREM ServiceTypeAlways == ServiceSpec => []ServiceTypeOK
<1>1. ServiceSpec => []TypeInv
  BY TypeInvInit, TypeInvStep, PTL DEF ServiceSpec
<1>2. TypeInv => ServiceTypeOK
  BY DEF TypeInv
<1> QED BY <1>1, <1>2, PTL

-----------------------------------------------------------------------------
(* Safety over a backend with an atomic compare-and-swap. *)

\* The mission row changes only in a compare-and-swap that found the status the
\* call had loaded and validated.
SwapStep(a) ==
    /\ call[a].op \in Transitions
    /\ canTransition(mission.status, Target[call[a].op])
    /\ call[a].op = "startAttempt" => call[a].fresh \in Attempts
    /\ mission' = Written(call[a])

LEMMA MissionStep ==
    ASSUME AtomicCAS, TypeInv, [ServiceNext]_serviceVars
    PROVE  mission' = mission \/ \E a \in Actors : SwapStep(a)
<1>1. ASSUME NEW a \in Actors, RepoStep(a) PROVE mission' = mission \/ SwapStep(a)
  <2>1. Coherent(call[a])
    BY DEF TypeInv, CallsCoherent
  <2>2. CASE CompareAndSwap(a)
    BY <2>1, <2>2 DEF CompareAndSwap, SwapStep, Coherent
  <2>3. ~UpdateById(a)
    BY <2>1 DEF UpdateById, Coherent
  <2> QED BY <1>1, <2>2, <2>3 DEF RepoStep, Load, ListAttempts, InsertAttempt, CheckCriteria,
             FinalizeAttempt, WriteEvent, InsertEvaluation, SetCriterionStatus,
             SetLastEvaluation, RepoError
<1> QED BY <1>1 DEF ServiceNext, CallTransition, CallRecordEvaluation, serviceVars

LEMMA TerminalStays ==
    ASSUME AtomicCAS, TypeInv, [ServiceNext]_serviceVars, mission.status \in Terminal
    PROVE  mission' = mission
BY MissionStep, GraphShape, TargetType DEF SwapStep

LEMMA RootStep ==
    ASSUME AtomicCAS, TypeInv, [ServiceNext]_serviceVars, mission'.attempt # mission.attempt
    PROVE  mission.status \notin ActiveRoot
<1>1. PICK a \in Actors : SwapStep(a)
  BY MissionStep
<1>2. call[a].op = "startAttempt"
  BY <1>1 DEF SwapStep, Written
<1> QED BY <1>1, <1>2, StartTarget, GraphShape DEF SwapStep

\* A mission row that is over stays as it is.
THEOREM TerminalFinal == ASSUME AtomicCAS PROVE ServiceSpec => TerminalIsFinal
<1>1. ServiceSpec => []TypeInv
  BY TypeInvInit, TypeInvStep, PTL DEF ServiceSpec
<1>2. TypeInv /\ [ServiceNext]_serviceVars
          => [mission.status \in Terminal => mission' = mission]_serviceVars
  BY TerminalStays
<1> QED BY <1>1, <1>2, PTL DEF ServiceSpec, TerminalIsFinal

\* A root attempt is never bound over an active one.
THEOREM RootUnique == ASSUME AtomicCAS PROVE ServiceSpec => OneActiveRoot
<1>1. ServiceSpec => []TypeInv
  BY TypeInvInit, TypeInvStep, PTL DEF ServiceSpec
<1>2. TypeInv /\ [ServiceNext]_serviceVars
          => [mission'.attempt # mission.attempt => mission.status \notin ActiveRoot]_serviceVars
  BY RootStep
<1> QED BY <1>1, <1>2, PTL DEF ServiceSpec, OneActiveRoot

-----------------------------------------------------------------------------
\* No action but a compare-and-swap puts a call where it owes an event.
LEMMA OwesEvent ==
    ASSUME AtomicCAS, TypeInv, [ServiceNext]_serviceVars,
           NEW b \in Actors, call'[b].pc \in {"finalize", "event"}
    PROVE  \/ call[b].pc \in {"finalize", "event"} /\ call'[b].op = call[b].op
           \/ mission'.status = Target[call'[b].op]
<1>0. call \in [Actors -> Calls]
  BY DEF TypeInv, ServiceTypeOK
<1>1. CASE call'[b] = call[b]
  BY <1>1
<1>2. ASSUME NEW a \in Actors, NEW c, call' = [call EXCEPT ![a] = c],
             c.pc \notin {"finalize", "event"}
      PROVE  call'[b] = call[b]
  BY <1>0, <1>2
<1>3. ASSUME NEW a \in Actors, NEW op, NEW e, Begin(a, op, e) PROVE call'[b] = call[b]
  <2> DEFINE c == [Idle(call[a].left - 1) EXCEPT !.pc = "load", !.op = op, !.evaluation = e]
  <2>1. c.pc = "load" /\ call' = [call EXCEPT ![a] = c]
    BY <1>3 DEF Begin, Idle
  <2> QED BY <2>1, <1>2
<1>4. ASSUME NEW c \in Calls PROVE Validated(c).pc \in {"cas", "illegal_transition"}
  BY <1>4 DEF Validated, Calls
<1>5. ASSUME NEW a \in Actors, Load(a) PROVE call'[b] = call[b]
  <2> DEFINE c == [call[a] EXCEPT !.from = mission.status, !.current = mission.attempt]
  <2>1. c \in Calls
    BY ZenonT(60), <1>0 DEF TypeInv, ServiceTypeOK, Calls
  <2>2. AfterLoad(c).pc \notin {"finalize", "event"}
    BY <2>1, <1>4 DEF AfterLoad, Calls
  <2>3. call' = [call EXCEPT ![a] = AfterLoad(c)]
    BY <1>5 DEF Load
  <2> QED BY <2>2, <2>3, <1>2
<1>6. ASSUME NEW a \in Actors, InsertAttempt(a) PROVE call'[b] = call[b]
  <2>1. PICK id \in Attempts : call' = [call EXCEPT ![a] = Validated([@ EXCEPT !.fresh = id])]
    BY <1>6 DEF InsertAttempt
  <2>2. [call[a] EXCEPT !.fresh = id] \in Calls
    BY <1>0 DEF Calls
  <2> QED BY <2>1, <2>2, <1>2, <1>4
<1>7. ASSUME NEW a \in Actors, CheckCriteria(a) PROVE call'[b] = call[b]
  <2>1. Validated(call[a]).pc \notin {"finalize", "event"}
    BY <1>0, <1>4
  <2>2. [call[a] EXCEPT !.pc = "invariant_violation"].pc = "invariant_violation"
    BY <1>0 DEF Calls
  <2>3. \/ call' = [call EXCEPT ![a] = Validated(call[a])]
        \/ call' = [call EXCEPT ![a] = [call[a] EXCEPT !.pc = "invariant_violation"]]
    BY <1>7 DEF CheckCriteria
  <2> QED BY <2>1, <2>2, <2>3, <1>2
<1>8. ASSUME NEW a \in Actors, NEW p \in STRING, p \notin {"finalize", "event"},
             call' = [call EXCEPT ![a].pc = p]
      PROVE  call'[b] = call[b]
  BY <1>0, <1>8 DEF Calls
<1>9. ASSUME NEW a \in Actors,
             ListAttempts(a) \/ WriteEvent(a) \/ InsertEvaluation(a) \/ SetCriterionStatus(a)
             \/ SetLastEvaluation(a) \/ RepoError(a)
      PROVE  call'[b] = call[b]
  <2>1. CASE ListAttempts(a)
    <3> DEFINE c == [call[a] EXCEPT !.pc = "insert", !.number = Cardinality(Existing)]
    <3>1. c.pc = "insert"
      BY <1>0 DEF Calls
    <3>2. call' = [call EXCEPT ![a] = c]
      BY <2>1 DEF ListAttempts
    <3> QED BY <3>1, <3>2, <1>2
  <2>2. CASE WriteEvent(a)
    BY <1>8, <2>2 DEF WriteEvent
  <2>3. CASE InsertEvaluation(a)
    BY <1>8, <2>3 DEF InsertEvaluation
  <2>4. CASE SetCriterionStatus(a)
    BY <1>8, <2>4 DEF SetCriterionStatus
  <2>5. CASE SetLastEvaluation(a)
    BY <1>8, <2>5 DEF SetLastEvaluation
  <2>6. CASE RepoError(a)
    BY <1>8, <2>6 DEF RepoError
  <2> QED BY <1>9, <2>1, <2>2, <2>3, <2>4, <2>5, <2>6
<1>10. ASSUME NEW a \in Actors, FinalizeAttempt(a)
       PROVE  call[b].pc \in {"finalize", "event"} /\ call'[b].op = call[b].op
  BY <1>0, <1>10 DEF FinalizeAttempt, Calls
<1>11. ASSUME NEW a \in Actors, CompareAndSwap(a)
       PROVE  call'[b] = call[b] \/ mission'.status = Target[call'[b].op]
  <2>1. CASE call' = [call EXCEPT ![a].pc = "illegal_transition"]
    BY <2>1, <1>8
  <2>2. CASE mission' = Written(call[a]) /\ call' = [call EXCEPT ![a] = AfterWrite(@)]
    <3>1. AfterWrite(call[a]).op = call[a].op
      BY <1>0, <1>11, AfterWriteKeeps DEF CompareAndSwap, TypeInv, CallsCoherent
    <3> QED BY <2>2, <3>1, <1>0 DEF Written
  <2> QED BY <1>11, <2>1, <2>2 DEF CompareAndSwap
<1>12. ASSUME NEW a \in Actors PROVE ~UpdateById(a)
  BY DEF UpdateById, TypeInv, CallsCoherent, Coherent
<1>13. CASE UNCHANGED serviceVars
  BY <1>13 DEF serviceVars
<1> QED BY <1>1, <1>3, <1>5, <1>6, <1>7, <1>9, <1>10, <1>11, <1>12, <1>13
        DEF ServiceNext, RepoStep, CallTransition, CallRecordEvaluation

LEMMA ServiceInvStep ==
    ASSUME AtomicCAS PROVE ServiceInv /\ [ServiceNext]_serviceVars => ServiceInv'
<1> SUFFICES ASSUME ServiceInv, [ServiceNext]_serviceVars PROVE ServiceInv'
  OBVIOUS
<1>1. TypeInv /\ TypeInv'
  BY TypeInvStep DEF ServiceInv
<1>2. OutcomePending'
  <2> SUFFICES ASSUME NEW b \in Actors, call'[b].pc \in {"finalize", "event"},
                      Target[call'[b].op] \in Terminal
               PROVE  mission'.status = Target[call'[b].op]
    BY DEF OutcomePending
  <2>1. CASE call[b].pc \in {"finalize", "event"} /\ call'[b].op = call[b].op
    <3>1. mission.status = Target[call'[b].op]
      BY <2>1 DEF ServiceInv, OutcomePending
    <3> QED BY <1>1, <3>1, TerminalStays
  <2> QED BY <1>1, <2>1, OwesEvent
<1>3. TerminalEventTruthful'
  <2> SUFFICES ASSUME NEW e \in events', e.to \in Terminal PROVE mission'.status = e.to
    BY DEF TerminalEventTruthful
  <2>1. CASE e \in events
    BY <1>1, <2>1, TerminalStays DEF ServiceInv, TerminalEventTruthful
  <2>2. CASE e \notin events
    <3>1. PICK a \in Actors : WriteEvent(a)
      BY <2>2 DEF ServiceNext, RepoStep, CallTransition, CallRecordEvaluation, Load, ListAttempts,
         InsertAttempt, CheckCriteria, CompareAndSwap, UpdateById, FinalizeAttempt,
         InsertEvaluation, SetCriterionStatus, SetLastEvaluation, RepoError, serviceVars
    <3>2. e.to = Target[call[a].op] /\ call[a].pc = "event" /\ mission' = mission
      BY <2>2, <3>1 DEF WriteEvent
    <3> QED BY <3>2 DEF ServiceInv, OutcomePending
  <2> QED BY <2>1, <2>2
<1> QED BY <1>1, <1>2, <1>3 DEF ServiceInv

\* The audit log never reports an outcome the mission does not have.
THEOREM EventsTruthful == ASSUME AtomicCAS PROVE ServiceSpec => []TerminalEventTruthful
<1>1. ServiceInit => ServiceInv
  <2>1. ASSUME ServiceInit PROVE OutcomePending /\ TerminalEventTruthful
    <3>1. \A a \in Actors : call[a].pc = "idle"
      BY <2>1, BoundsAssumption, IdleType DEF ServiceInit
    <3> QED BY <2>1, <3>1 DEF ServiceInit, OutcomePending, TerminalEventTruthful
  <2> QED BY <2>1, TypeInvInit DEF ServiceInv
<1>2. ServiceInv /\ [ServiceNext]_serviceVars => ServiceInv'
  BY ServiceInvStep
<1>3. ServiceInv => TerminalEventTruthful
  BY DEF ServiceInv
<1> QED BY <1>1, <1>2, <1>3, PTL DEF ServiceSpec

-----------------------------------------------------------------------------
(* The service implements MissionLifecycle. *)

\* The instance has the graph of the service.
LEMMA SameGraph ==
    /\ Lifecycle!MissionStatus = MissionStatus /\ Lifecycle!ActiveRoot = ActiveRoot
    /\ \A s, t : Lifecycle!canTransition(s, t) <=> canTransition(s, t)
<1>1. /\ Lifecycle!MissionStatus = MissionStatus /\ Lifecycle!Terminal = Terminal
      /\ Lifecycle!ActiveRoot = ActiveRoot
  BY DEF Lifecycle!MissionStatus, MissionStatus, Lifecycle!Terminal, Terminal,
         Lifecycle!ActiveRoot, ActiveRoot
<1>2. Lifecycle!ALLOWED_TRANSITIONS = ALLOWED_TRANSITIONS
  BY <1>1 DEF Lifecycle!ALLOWED_TRANSITIONS, ALLOWED_TRANSITIONS
<1> QED BY <1>1, <1>2 DEF Lifecycle!canTransition, canTransition

LEMMA LifecycleStep ==
    ASSUME AtomicCAS, TypeInv, [ServiceNext]_serviceVars
    PROVE  [Lifecycle!Next]_Lifecycle!lifecycleVars
<1>1. CASE mission' = mission
  BY <1>1 DEF Lifecycle!lifecycleVars
<1>2. ASSUME NEW a \in Actors, SwapStep(a) PROVE Lifecycle!Next
  <2>1. Target[call[a].op] \in MissionStatus
    BY <1>2, TargetType DEF SwapStep
  <2>2. CASE call[a].op = "startAttempt"
    <3>1. mission.status \notin ActiveRoot
      BY <1>2, <2>2, StartTarget, GraphShape DEF SwapStep
    <3>2. /\ mission'.status = "running" /\ mission'.attempt = call[a].fresh
          /\ call[a].fresh \in Attempts /\ canTransition(mission.status, "running")
      BY <1>2, <2>2, StartTarget DEF SwapStep, Written
    <3> QED BY <3>1, <3>2, SameGraph DEF Lifecycle!Next, Lifecycle!BindAttempt
  <2>3. CASE call[a].op # "startAttempt"
    <3>1. mission'.status = Target[call[a].op] /\ mission'.attempt = mission.attempt
      BY <1>2, <2>3 DEF SwapStep, Written
    <3> QED BY <1>2, <2>1, <3>1, SameGraph DEF SwapStep, Lifecycle!Next, Lifecycle!Move
  <2> QED BY <2>2, <2>3
<1> QED BY <1>1, <1>2, MissionStep

\* Every behaviour of the service, seen as the status and the bound attempt of
\* the row, is one of the lifecycle.
THEOREM ServiceImplementsLifecycle == ASSUME AtomicCAS PROVE ServiceSpec => ImplementsLifecycle
<1>1. ServiceSpec => []TypeInv
  BY TypeInvInit, TypeInvStep, PTL DEF ServiceSpec
<1>2. ServiceInit => Lifecycle!Init
  BY DEF ServiceInit, Lifecycle!Init
<1>3. TypeInv /\ [ServiceNext]_serviceVars => [Lifecycle!Next]_Lifecycle!lifecycleVars
  BY LifecycleStep
<1> QED BY <1>1, <1>2, <1>3, PTL DEF ServiceSpec, ImplementsLifecycle, Lifecycle!Spec

-----------------------------------------------------------------------------
(* What is on record, over any backend. *)

AllPassed == \A c \in Required : criteria[c].status = "pass"

LEMMA ValidatedTo ==
    ASSUME NEW c \in Calls
    PROVE  /\ Validated(c).pc \in {"cas", "illegal_transition"}
           /\ Validated(c).op = c.op
BY DEF Validated, Calls

LEMMA AfterLoadTo ==
    ASSUME NEW c \in Calls
    PROVE  /\ AfterLoad(c).pc \in {"insertEvaluation", "invariant_violation", "list",
                                   "criteria", "cas", "illegal_transition"}
           /\ AfterLoad(c).op = c.op
           /\ AfterLoad(c).pc = "insertEvaluation" =>
                  c.op = "recordEvaluation" /\ c.from = "verifying"
           /\ AfterLoad(c).pc = "cas" => c.op # "completeMission"
<1>1. CASE c.op = "recordEvaluation"
  BY <1>1 DEF AfterLoad, Calls
<1>2. CASE c.op = "startAttempt"
  BY <1>2 DEF AfterLoad, Calls
<1>3. CASE c.op = "completeMission"
  BY <1>3 DEF AfterLoad, Calls
<1>4. CASE c.op \notin {"recordEvaluation", "startAttempt", "completeMission"}
  <2>1. AfterLoad(c) = Validated(c)
    BY <1>4 DEF AfterLoad
  <2> QED BY <1>4, <2>1, ValidatedTo
<1> QED BY <1>1, <1>2, <1>3, <1>4

\* Which step leads a call to each of its decisive writes, and what held then.
CallTo(a) ==
    /\ call'[a].op = call[a].op
    /\ call'[a].pc # "load"
    /\ call'[a].pc \in Awaiting => call[a].pc \in Awaiting
    /\ call'[a].pc = "insertEvaluation" =>
           /\ call[a].op = "recordEvaluation"
           /\ mission.status = "verifying" /\ mission' = mission
    /\ call'[a].pc = "setStatus" => InsertEvaluation(a)
    /\ call'[a].pc = "setLast" => SetCriterionStatus(a)
    /\ call'[a].pc = "cas" /\ call[a].op = "completeMission" => AllPassed
    /\ call'[a].pc = "update" => call[a].pc = "cas"
    /\ call'[a].pc \in {"cas", "update"} => criteria' = criteria

LEMMA RepoStepTo ==
    ASSUME TypeInv, NEW a \in Actors, RepoStep(a)
    PROVE  CallTo(a) /\ \A b \in Actors \ {a} : call'[b] = call[b]
<1>0. call \in [Actors -> Calls] /\ call[a] \in Calls /\ Coherent(call[a])
  BY DEF TypeInv, ServiceTypeOK, CallsCoherent
<1>1. CASE Load(a)
  <2> DEFINE c == [call[a] EXCEPT !.from = mission.status, !.current = mission.attempt]
  <2>1. c \in Calls /\ c.op = call[a].op /\ c.from = mission.status
    BY <1>0 DEF TypeInv, ServiceTypeOK, Calls
  <2>2. call' = [call EXCEPT ![a] = AfterLoad(c)]
    BY <1>1 DEF Load
  <2>3. call'[a] = AfterLoad(c) /\ \A b \in Actors \ {a} : call'[b] = call[b]
    BY <1>0, <2>2
  <2>4. call[a].pc \in Awaiting /\ UNCHANGED <<mission, criteria>>
    BY <1>1 DEF Load, Awaiting
  <2> QED BY <2>1, <2>3, <2>4, AfterLoadTo DEF CallTo
<1>2. CASE InsertAttempt(a)
  <2>1. PICK id \in Attempts : call' = [call EXCEPT ![a] = Validated([@ EXCEPT !.fresh = id])]
    BY <1>2 DEF InsertAttempt
  <2> DEFINE c == [call[a] EXCEPT !.fresh = id]
  <2>2. c \in Calls /\ c.op = call[a].op /\ call[a].op = "startAttempt"
    BY <1>0, <1>2 DEF InsertAttempt, Calls, Coherent
  <2>3. call'[a] = Validated(c) /\ \A b \in Actors \ {a} : call'[b] = call[b]
    BY <1>0, <2>1
  <2>4. call[a].pc \in Awaiting /\ criteria' = criteria
    BY <1>2 DEF InsertAttempt, Awaiting
  <2> QED BY <2>2, <2>3, <2>4, ValidatedTo DEF CallTo
<1>3. CASE CheckCriteria(a)
  <2>1. /\ call'[a] = IF AllPassed THEN Validated(call[a])
                      ELSE [call[a] EXCEPT !.pc = "invariant_violation"]
        /\ \A b \in Actors \ {a} : call'[b] = call[b]
    BY <1>0, <1>3 DEF CheckCriteria, AllPassed
  <2>2. call[a].pc \in Awaiting /\ criteria' = criteria
    BY <1>3 DEF CheckCriteria, Awaiting
  <2>3. CASE AllPassed
    BY <1>0, <2>1, <2>2, <2>3, ValidatedTo DEF CallTo
  <2>4. CASE ~AllPassed
    BY <1>0, <2>1, <2>2, <2>4 DEF CallTo, Calls, Awaiting
  <2> QED BY <2>3, <2>4
<1>4. CASE CompareAndSwap(a) \/ UpdateById(a)
  <2>1. /\ \/ call'[a] = AfterWrite(call[a])
           \/ call'[a] = [call[a] EXCEPT !.pc = "illegal_transition"]
           \/ call'[a] = [call[a] EXCEPT !.pc = "update"] /\ call[a].pc = "cas"
        /\ \A b \in Actors \ {a} : call'[b] = call[b]
    BY <1>0, <1>4 DEF CompareAndSwap, UpdateById
  <2>2. call[a].pc \in {"cas", "update"} /\ call[a].pc \in Awaiting /\ criteria' = criteria
    BY <1>4 DEF CompareAndSwap, UpdateById, Awaiting
  <2> QED BY <1>0, <2>1, <2>2, AfterWriteKeeps DEF CallTo, Calls, Awaiting
<1>5. CASE ListAttempts(a) \/ FinalizeAttempt(a) \/ WriteEvent(a) \/ SetLastEvaluation(a)
  BY <1>0, <1>5 DEF ListAttempts, FinalizeAttempt, WriteEvent, SetLastEvaluation,
                    CallTo, Calls, Awaiting
<1>6. CASE InsertEvaluation(a) \/ SetCriterionStatus(a) \/ RepoError(a)
  BY <1>0, <1>6 DEF InsertEvaluation, SetCriterionStatus, RepoError, CallTo, Calls, Awaiting
<1> QED BY <1>1, <1>2, <1>3, <1>4, <1>5, <1>6 DEF RepoStep

\* b begins a call.
Begins(b) ==
    /\ call'[b].pc = "load"
    /\ call'[b].op \in MayCall[b]
    /\ UNCHANGED <<mission, criteria, evaluations>>

\* How a step of any kind moves the calls.
LEMMA StepTo ==
    ASSUME TypeInv, [ServiceNext]_serviceVars, NEW b \in Actors
    PROVE  \/ call'[b] = call[b]
           \/ RepoStep(b) /\ CallTo(b)
           \/ Begins(b)
<1>0. call \in [Actors -> Calls]
  BY DEF TypeInv, ServiceTypeOK
<1>1. ASSUME NEW a \in Actors, NEW op \in Transitions, CallTransition(a, op)
      PROVE  call'[b] = call[b] \/ Begins(b)
  BY <1>0, <1>1 DEF CallTransition, Begin, Begins, Idle
<1>2. ASSUME NEW a \in Actors, NEW e \in Evaluations, CallRecordEvaluation(a, e)
      PROVE  call'[b] = call[b] \/ Begins(b)
  BY <1>0, <1>2 DEF CallRecordEvaluation, Begin, Begins, Idle
<1>3. ASSUME NEW a \in Actors, RepoStep(a)
      PROVE  call'[b] = call[b] \/ (RepoStep(b) /\ CallTo(b))
  BY <1>3, RepoStepTo
<1>4. CASE UNCHANGED serviceVars
  BY <1>4 DEF serviceVars
<1> QED BY <1>1, <1>2, <1>3, <1>4 DEF ServiceNext

\* What a step does to the rows of the verdicts.
LEMMA RecordStep ==
    ASSUME [ServiceNext]_serviceVars
    PROVE  \/ UNCHANGED <<criteria, evaluations>>
           \/ UNCHANGED criteria /\ evaluations \subseteq evaluations'
           \/ \E a \in Actors : SetCriterionStatus(a) \/ SetLastEvaluation(a)
BY DEF ServiceNext, CallTransition, CallRecordEvaluation, RepoStep, Load, ListAttempts,
       InsertAttempt, CheckCriteria, CompareAndSwap, UpdateById, FinalizeAttempt, WriteEvent,
       InsertEvaluation, RepoError, serviceVars

\* A call writes to the criterion only after its evaluation is there.
EvidencePending ==
    \A a \in Actors : call[a].pc \in {"setStatus", "setLast"} => call[a].evaluation \in evaluations

VerdictInv == TypeInv /\ EvidencePending /\ VerdictsBacked

LEMMA VerdictInvStep == VerdictInv /\ [ServiceNext]_serviceVars => VerdictInv'
<1> SUFFICES ASSUME VerdictInv, [ServiceNext]_serviceVars PROVE VerdictInv'
  OBVIOUS
<1>0. TypeInv /\ TypeInv' /\ call \in [Actors -> Calls]
  BY TypeInvStep DEF VerdictInv, TypeInv, ServiceTypeOK
<1>1. evaluations \subseteq evaluations'
  BY RecordStep DEF SetCriterionStatus, SetLastEvaluation
<1>2. EvidencePending'
  <2> SUFFICES ASSUME NEW b \in Actors, call'[b].pc \in {"setStatus", "setLast"}
               PROVE  call'[b].evaluation \in evaluations'
    BY DEF EvidencePending
  <2>1. call'[b] = call[b] \/ InsertEvaluation(b) \/ SetCriterionStatus(b)
    BY <1>0, StepTo DEF CallTo, Begins
  <2>2. CASE call'[b] = call[b]
    BY <1>1, <2>2 DEF VerdictInv, EvidencePending
  <2>3. CASE InsertEvaluation(b)
    BY <1>0, <2>3 DEF InsertEvaluation, Calls
  <2>4. CASE SetCriterionStatus(b)
    <3>1. call'[b].evaluation = call[b].evaluation
      BY <1>0, <2>4 DEF SetCriterionStatus, Calls
    <3>2. call[b].evaluation \in evaluations
      BY <2>4 DEF SetCriterionStatus, VerdictInv, EvidencePending
    <3> QED BY <1>1, <3>1, <3>2
  <2> QED BY <2>1, <2>2, <2>3, <2>4
<1>3. VerdictsBacked'
  <2>1. CASE UNCHANGED criteria
    BY <1>1, <2>1 DEF VerdictInv, VerdictsBacked
  <2>2. ASSUME NEW a \in Actors, SetCriterionStatus(a) PROVE VerdictsBacked'
    <3> DEFINE e == call[a].evaluation
    <3>1. e \in evaluations /\ evaluations' = evaluations
      BY <2>2 DEF SetCriterionStatus, VerdictInv, EvidencePending
    <3>2. /\ criteria'[e.criterion].status = VERDICT_TO_CRITERION_STATUS[e.verdict]
          /\ \A c \in Criteria : criteria'[c].last = criteria[c].last
          /\ \A c \in Criteria \ {e.criterion} : criteria'[c] = criteria[c]
      BY <1>0, <2>2, <3>1 DEF SetCriterionStatus, TypeInv, ServiceTypeOK, Evaluations
    <3> QED BY <3>1, <3>2 DEF VerdictInv, VerdictsBacked
  <2>3. ASSUME NEW a \in Actors, SetLastEvaluation(a) PROVE VerdictsBacked'
    <3> DEFINE e == call[a].evaluation
    <3>1. e \in evaluations /\ evaluations' = evaluations
      BY <2>3 DEF SetLastEvaluation, VerdictInv, EvidencePending
    <3>2. /\ criteria'[e.criterion].last = e
          /\ \A c \in Criteria : criteria'[c].status = criteria[c].status
          /\ \A c \in Criteria \ {e.criterion} : criteria'[c] = criteria[c]
      BY <1>0, <2>3, <3>1 DEF SetLastEvaluation, TypeInv, ServiceTypeOK, Evaluations
    <3> QED BY <3>1, <3>2 DEF VerdictInv, VerdictsBacked
  <2> QED BY <2>1, <2>2, <2>3, RecordStep
<1> QED BY <1>0, <1>2, <1>3 DEF VerdictInv

\* On any backend, with calls that fail half way and any number of recorders, a
\* criterion shows only verdicts whose evaluations are in their table.
THEOREM VerdictsAlwaysBacked == ServiceSpec => []VerdictsBacked
<1>1. ServiceInit => VerdictInv
  BY TypeInvInit DEF ServiceInit, Idle, VerdictInv, EvidencePending, VerdictsBacked
<1>2. VerdictInv => VerdictsBacked
  BY DEF VerdictInv
<1> QED BY <1>1, <1>2, VerdictInvStep, PTL DEF ServiceSpec

\* Only one actor records evaluations and completes: the loop of the mission.
OneDriver ==
    \E d \in Actors : \A a \in Actors \ {d} :
        "recordEvaluation" \notin MayCall[a] /\ "completeMission" \notin MayCall[a]

CallsPermitted == \A a \in Actors : call[a].pc \in Awaiting => call[a].op \in MayCall[a]

\* An evaluation is being written only while the mission is not completed.
RecordsWhileOpen ==
    \A a \in Actors : call[a].pc \in {"insertEvaluation", "setStatus", "setLast"} =>
        call[a].op = "recordEvaluation" /\ mission.status # "completed"

\* What completeMission has read still holds when it writes the row.
CompletesOnPass ==
    \A a \in Actors :
        call[a].op = "completeMission" /\ call[a].pc \in {"cas", "update"} => AllPassed

GateInv == TypeInv /\ CallsPermitted /\ RecordsWhileOpen /\ CompletesOnPass /\ CompletedGated

LEMMA DriverAlone ==
    ASSUME OneDriver, CallsPermitted, NEW a \in Actors, NEW b \in Actors,
           call[a].pc \in Awaiting, call[b].pc \in Awaiting,
           call[a].op \in {"recordEvaluation", "completeMission"},
           call[b].op \in {"recordEvaluation", "completeMission"}
    PROVE  a = b
BY DEF OneDriver, CallsPermitted

LEMMA CompletedTarget ==
    ASSUME NEW op \in Transitions, Target[op] = "completed"
    PROVE  op = "completeMission"
BY DEF Target, Transitions

\* Who writes the row of the mission.
LEMMA RowStep ==
    ASSUME TypeInv, [ServiceNext]_serviceVars, mission' # mission
    PROVE  \E a \in Actors : /\ call[a].pc \in {"cas", "update"} /\ call[a].op \in Transitions
                            /\ mission'.status = Target[call[a].op]
                            /\ criteria' = criteria
<1>1. PICK a \in Actors : CompareAndSwap(a) \/ UpdateById(a)
  BY DEF ServiceNext, CallTransition, CallRecordEvaluation, RepoStep, Load, ListAttempts,
         InsertAttempt, CheckCriteria, FinalizeAttempt, WriteEvent, InsertEvaluation,
         SetCriterionStatus, SetLastEvaluation, RepoError, serviceVars
<1>2. /\ call[a].pc \in {"cas", "update"} /\ criteria' = criteria
      /\ mission' = Written(call[a])
  BY <1>1 DEF CompareAndSwap, UpdateById
<1>3. call[a].op \in Transitions
  BY <1>2 DEF TypeInv, CallsCoherent, Coherent
<1> QED BY <1>2, <1>3 DEF Written

LEMMA PassStays ==
    ASSUME TypeInv, [ServiceNext]_serviceVars, AllPassed,
           \A a \in Actors : ~SetCriterionStatus(a)
    PROVE  AllPassed'
<1>1. CASE criteria' = criteria
  BY <1>1 DEF AllPassed
<1>2. ASSUME NEW a \in Actors, SetLastEvaluation(a) PROVE AllPassed'
  <2>1. \A c \in Criteria : criteria'[c].status = criteria[c].status
    BY <1>2 DEF SetLastEvaluation, TypeInv, ServiceTypeOK
  <2> QED BY <2>1, CriteriaAssumption DEF AllPassed
<1> QED BY <1>1, <1>2, RecordStep

LEMMA GateInvStep ==
    ASSUME OneDriver
    PROVE  GateInv /\ [ServiceNext]_serviceVars => GateInv'
<1> SUFFICES ASSUME GateInv, [ServiceNext]_serviceVars PROVE GateInv'
  OBVIOUS
<1>0. TypeInv /\ TypeInv'
  BY TypeInvStep DEF GateInv
<1>1. CallsPermitted'
  <2> SUFFICES ASSUME NEW b \in Actors, call'[b].pc \in Awaiting
               PROVE  call'[b].op \in MayCall[b]
    BY DEF CallsPermitted
  <2> QED BY <1>0, StepTo DEF GateInv, CallsPermitted, CallTo, Begins
\* The row is completed by the driver, which then records nothing.
<1>2. ASSUME NEW b \in Actors, call[b].pc \in {"insertEvaluation", "setStatus", "setLast"}
      PROVE  mission'.status # "completed"
  <2>1. CASE mission' = mission
    BY <1>2, <2>1 DEF GateInv, RecordsWhileOpen
  <2>2. CASE mission' # mission
    <3>1. PICK a \in Actors : /\ call[a].pc \in {"cas", "update"} /\ call[a].op \in Transitions
                             /\ mission'.status = Target[call[a].op]
      BY <1>0, <2>2, RowStep
    <3>2. a # b /\ call[a].pc \in Awaiting /\ call[b].pc \in Awaiting
      BY <1>2, <3>1 DEF Awaiting
    <3>3. call[b].op = "recordEvaluation"
      BY <1>2 DEF GateInv, RecordsWhileOpen
    <3> QED BY <3>1, <3>2, <3>3, DriverAlone, CompletedTarget DEF GateInv
  <2> QED BY <2>1, <2>2
<1>3. RecordsWhileOpen'
  <2> SUFFICES ASSUME NEW b \in Actors,
                      call'[b].pc \in {"insertEvaluation", "setStatus", "setLast"}
               PROVE  call'[b].op = "recordEvaluation" /\ mission'.status # "completed"
    BY DEF RecordsWhileOpen
  <2>1. CASE call'[b] = call[b]
    BY <1>2, <2>1 DEF GateInv, RecordsWhileOpen
  <2>2. CASE CallTo(b)
    <3>1. \/ /\ call[b].op = "recordEvaluation"
             /\ mission.status = "verifying" /\ mission' = mission
          \/ call[b].pc \in {"insertEvaluation", "setStatus"}
      BY <2>2 DEF CallTo, InsertEvaluation, SetCriterionStatus
    <3>2. call'[b].op = call[b].op
      BY <2>2 DEF CallTo
    <3> QED BY <1>2, <3>1, <3>2 DEF GateInv, RecordsWhileOpen
  <2>3. ~Begins(b)
    BY DEF Begins
  <2> QED BY <1>0, <2>1, <2>2, <2>3, StepTo
\* While the driver completes, it does not record.
<1>4. ASSUME NEW b \in Actors, call[b].op = "completeMission", call[b].pc \in {"cas", "update"}
      PROVE  AllPassed'
  <2>1. ASSUME NEW a \in Actors, SetCriterionStatus(a) PROVE FALSE
    <3>1. /\ call[a].pc = "setStatus" /\ call[a].op = "recordEvaluation"
          /\ call[a].pc \in Awaiting /\ call[b].pc \in Awaiting
      BY <1>4, <2>1 DEF SetCriterionStatus, GateInv, RecordsWhileOpen, Awaiting
    <3> QED BY <1>4, <3>1, DriverAlone DEF GateInv
  <2>2. AllPassed
    BY <1>4 DEF GateInv, CompletesOnPass
  <2> QED BY <1>0, <2>1, <2>2, PassStays
<1>5. CompletesOnPass'
  <2> SUFFICES ASSUME NEW b \in Actors, call'[b].op = "completeMission",
                      call'[b].pc \in {"cas", "update"}
               PROVE  AllPassed'
    BY DEF CompletesOnPass
  <2>1. CASE call'[b] = call[b]
    BY <1>4, <2>1
  <2>2. CASE CallTo(b)
    <3>1. AllPassed /\ criteria' = criteria
      BY <2>2 DEF CallTo, GateInv, CompletesOnPass
    <3> QED BY <3>1 DEF AllPassed
  <2>3. ~Begins(b)
    BY DEF Begins
  <2> QED BY <1>0, <2>1, <2>2, <2>3, StepTo
<1>6. CompletedGated'
  <2> SUFFICES ASSUME mission'.status = "completed" PROVE AllPassed'
    BY DEF CompletedGated, AllPassed
  <2>1. CASE mission' = mission
    <3>1. \A a \in Actors : ~SetCriterionStatus(a)
      BY <2>1 DEF SetCriterionStatus, GateInv, RecordsWhileOpen
    <3>2. AllPassed
      BY <2>1 DEF GateInv, CompletedGated, AllPassed
    <3> QED BY <1>0, <3>1, <3>2, PassStays
  <2>2. CASE mission' # mission
    <3>1. PICK a \in Actors : /\ call[a].pc \in {"cas", "update"} /\ call[a].op \in Transitions
                             /\ mission'.status = Target[call[a].op]
      BY <1>0, <2>2, RowStep
    <3> QED BY <1>4, <3>1, CompletedTarget
  <2> QED BY <2>1, <2>2
<1> QED BY <1>0, <1>1, <1>3, <1>5, <1>6 DEF GateInv

\* With one driver a mission is completed only with every required criterion at
\* pass, though completeMission reads them awaits before it writes the row, on
\* any backend and whatever calls of the other actors interleave or fail.
THEOREM CompletionGated == ASSUME OneDriver PROVE ServiceSpec => []CompletedGated
<1>1. ServiceInit => GateInv
  BY TypeInvInit DEF ServiceInit, Idle, GateInv, CallsPermitted, RecordsWhileOpen,
                     CompletesOnPass, CompletedGated, Awaiting
<1>2. GateInv => CompletedGated
  BY DEF GateInv
<1>3. GateInv /\ [ServiceNext]_serviceVars => GateInv'
  BY GateInvStep
<1> QED BY <1>1, <1>2, <1>3, PTL DEF ServiceSpec

=============================================================================
