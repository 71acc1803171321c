--------------------------- MODULE MissionReload ----------------------------
(***************************************************************************)
(* What the renderer does about the Missions that a former renderer left   *)
(* in flight (convergeMissionReload and reconcileInterruptedMissions): per *)
(* company it stops the native hosts, ends the agent rows, marks, parks    *)
(* every Mission as ready_to_resume and repairs what an earlier pass left  *)
(* half written.  One gate over all companies keeps the UI closed until    *)
(* every pass has converged.                                               *)
(*                                                                         *)
(* The database and the native host outlive a renderer; a restart of the   *)
(* whole application ends the host as well.  Every write is one step that  *)
(* may fail, and the renderer may die between any two.                     *)
(*                                                                         *)
(* Abstracted: the reads of a phase are lumped with its entry (the         *)
(* renderer is the only writer), one child stands for a root's subtree,    *)
(* the link is "parked" as interrupted or incompatible, rows that break    *)
(* ownership or scope (the pass refuses them) do not occur, and the window *)
(* of 32 events holds the whole trail of an attempt.                       *)
(***************************************************************************)
EXTENDS MissionStatusGraph, Naturals, Sequences

CONSTANTS
    Missions, NoMission,
    Left,          \* what a former renderer may leave: companyOf and row
    MaxMishaps     \* bound: calls that fail, settle windows that run out, and
                   \* renderers and applications that die

RECOVERABLE_MISSION_STATUSES == {"running", "verifying", "repairing"}
RELOAD_DISCOVERY_STATUSES == RECOVERABLE_MISSION_STATUSES \union {"interrupted"}

HostEnd == {"completed", "failed", "cancelled"}
Events  == {"resumed", "interrupted", "ready_to_resume"}

\* The rows of one Mission: its status, its current attempt, the root and the
\* children of that attempt in agent_run, the native host of the root, the
\* events of the attempt, the reload marker (fromStatus), the session link.  An
\* attempt that the loop has ended, whatever its end, is "closed".
Rows == [status : MissionStatus,
         attempt : {"running", "closed", "interrupted"},
         root : {"none", "running"} \union HostEnd,
         child : {"none", "running", "cancelled"},
         host : {"running", "aborting", "gone"} \union HostEnd,
         events : SUBSET Events,
         marker : RELOAD_DISCOVERY_STATUSES \union {"none"},
         link : {"none", "active", "parked"}]

\* A host runs under a root that is recorded as running: the root is durable
\* before the host starts and any child, and ends when the host has.  The Mission
\* need not be in flight any more: the loop fails it at its deadline without
\* waiting for the abort (mission-run-controller.ts:338-345), and a user may have
\* cancelled it.
LeftBehind(r) ==
    /\ r \in Rows /\ r.marker = "none"
    /\ r.host \in {"running", "aborting"} => r.root = "running"
    /\ r.child = "running" => r.root # "none"

AnyCompany == {l.companyOf[m] : l \in Left, m \in Missions}

ASSUME ReloadAssumption ==
    /\ NoMission \notin Missions
    /\ \A l \in Left :
          /\ l.companyOf \in [Missions -> AnyCompany] /\ l.row \in [Missions -> Rows]
          /\ \A m \in Missions : LeftBehind(l.row[m])
    /\ MaxMishaps \in Nat

VARIABLES
    companyOf,  \* the company of each Mission
    row,        \* the database and the host, per Mission
    left,       \* history: the status each Mission was left in
    pass,       \* the locals of convergeMissionReload, per company
    gate,       \* bootstrapAllRendererReload: "closed" until it resolves
    mishaps

reloadVars == <<companyOf, row, left, pass, gate, mishaps>>

\* A company without Missions has nothing to converge.
Companies == {companyOf[m] : m \in Missions}

\* finishInterruptedMissions and finalizeReadyMissions run before the
\* reconciliation, after it, and as the closure of one that failed.
Finishes  == {"finish", "finishAfter", "finishClosing"}
Finalizes == {"finalize", "finalizeAfter", "finalizeClosing"}
Phases == {"discover", "settle", "terminalize", "mark", "reconcile",
           "converged", "failed"} \union Finishes \union Finalizes
Probes == {"none", "unasked", "asked", "late", "gone"} \union HostEnd

\* A write of the pass: a column of Rows (or "event") and its new value.
Write == {"status", "attempt", "root", "child", "event", "marker", "link"}
         \X (MissionStatus \union Events \union HostEnd \union {"parked"})

ReloadTypeOK ==
    /\ companyOf \in [Missions -> AnyCompany]
    /\ row \in [Missions -> Rows]
    /\ left \in [Missions -> MissionStatus]
    /\ \A c \in AnyCompany :
          /\ pass[c].phase \in Phases
          /\ pass[c].found \subseteq Missions
          /\ pass[c].probe \in [Missions -> Probes]
          /\ pass[c].todo \subseteq Missions
          /\ pass[c].at \in pass[c].todo \union {NoMission}
          /\ \A i \in DOMAIN pass[c].work : pass[c].work[i] \in Write
          /\ pass[c].inspected \subseteq Missions
    /\ gate \in {"closed", "open"}
    /\ mishaps \in 0 .. MaxMishaps

NewPass == [phase |-> "discover", found |-> {}, probe |-> [m \in Missions |-> "none"],
            todo |-> {}, at |-> NoMission, work |-> <<>>, inspected |-> {}]

ReloadInit ==
    /\ \E l \in Left : companyOf = l.companyOf /\ row = l.row
    /\ left = [m \in Missions |-> row[m].status]
    /\ pass = [c \in AnyCompany |-> NewPass]
    /\ gate = "closed"
    /\ mishaps = 0

-----------------------------------------------------------------------------
Owned(c) == {m \in Missions : companyOf[m] = c}
InStatus(c, statuses) == {m \in Owned(c) : row[m].status \in statuses}
Runs(r) == r.root = "running" \/ r.child = "running"
HostRuns(r) == r.host \in {"running", "aborting"}
Candidates(p) == {m \in Missions : p.probe[m] # "none"}

\* The Missions a phase goes through, listed when it begins.
Listed(c, phase, p) ==
    CASE phase = "terminalize" -> Candidates(p)
      [] phase = "mark"        -> p.found
      [] phase \in Finishes    -> InStatus(c, {"interrupted"})
      [] phase \in Finalizes   -> InStatus(c, {"ready_to_resume"}) \ p.inspected
      [] phase = "reconcile"   -> InStatus(c, RECOVERABLE_MISSION_STATUSES)
      [] OTHER                 -> {}

Enter(c, phase) ==
    pass' = [pass EXCEPT ![c] = [pass[c] EXCEPT !.phase = phase,
                                    !.todo = Listed(c, phase, pass[c]),
                                    !.at = NoMission, !.work = <<>>]]

Following ==
    [phase \in {"terminalize", "mark", "reconcile"} \union Finishes \union Finalizes |->
        CASE phase = "terminalize"     -> "mark"
          [] phase = "mark"            -> "finish"
          [] phase = "finish"          -> "finalize"
          [] phase = "finalize"        -> "reconcile"
          [] phase = "reconcile"       -> "finishAfter"
          [] phase = "finishAfter"     -> "finalizeAfter"
          [] phase = "finalizeAfter"   -> "converged"
          [] phase = "finishClosing"   -> "finalizeClosing"
          [] phase = "finalizeClosing" -> "failed"]

\* Where an error leads: the catch around the reconciliation closes what it can.
OnError(phase) ==
    IF phase \in {"reconcile", "finishAfter", "finalizeAfter"}
    THEN "finishClosing" ELSE "failed"

-----------------------------------------------------------------------------
\* The writes for one Mission, in the order of the code.
When(needed, writes) == IF needed THEN writes ELSE <<>>

transition(to, event) == << <<"status", to>>, <<"event", event>> >>

toInterrupted   == transition("interrupted", "interrupted")
toReadyToResume == transition("ready_to_resume", "ready_to_resume")
park == << <<"link", "parked">> >>

\* Mutant of terminalStatus: what the host says is written as it is.
terminalStatusVerbatim(seen) == seen

\* No snapshot: the host does not know the request any more.
terminalStatus(seen) == IF seen = "gone" THEN "cancelled" ELSE seen

\* Children first: the running root is what a later pass discovers.
terminalizeAgentSubtree(r, seen) ==
    When(r.child = "running", << <<"child", "cancelled">> >>)
    \o When(r.root = "running", << <<"root", terminalStatus(seen)>> >>)

\* The marker has one id per attempt, and a second insert does nothing.
insertReloadRecoveryMarker(r) ==
    When(r.marker = "none", << <<"marker", r.status>> >>)

reconcileOne(r) ==
    << <<"attempt", "interrupted">> >>
    \o When(r.status = "repairing", transition("running", "resumed"))
    \o toInterrupted \o toReadyToResume
    \o When(r.link # "none", park)

ensureReloadTransitionEvent(r, event) ==
    When(event \notin r.events, << <<"event", event>> >>)

\* Mutant of finalizeMarkedReadyMission: the trail is taken to be complete.
finalizeWithoutTrail(r) ==
    When(r.attempt # "interrupted", << <<"attempt", "interrupted">> >>)
    \o When(r.link = "active", park)

\* The body of finalizeMarkedReadyMissions, for a Mission that has a marker.
finalizeMarkedReadyMission(r) ==
    When(r.attempt # "interrupted", << <<"attempt", "interrupted">> >>)
    \o When(r.marker = "repairing", ensureReloadTransitionEvent(r, "resumed"))
    \o When(r.marker # "interrupted", ensureReloadTransitionEvent(r, "interrupted"))
    \o ensureReloadTransitionEvent(r, "ready_to_resume")
    \o When(r.link = "active", park)

WritesOf(phase, r, seen) ==
    CASE phase = "terminalize" -> terminalizeAgentSubtree(r, seen)
      [] phase = "mark"        -> insertReloadRecoveryMarker(r)
      [] phase = "reconcile"   -> reconcileOne(r)
      [] phase \in Finishes    -> toReadyToResume
      [] phase \in Finalizes   ->
            When(r.marker # "none", finalizeMarkedReadyMission(r))

Written(r, column, value) ==
    IF column = "event" THEN [r EXCEPT !.events = @ \union {value}]
                        ELSE [r EXCEPT ![column] = value]

-----------------------------------------------------------------------------
\* Discovery and the hosts.

Discover(c) ==
    LET found == InStatus(c, RELOAD_DISCOVERY_STATUSES)
        probe == [m \in Missions |->
                     CASE m \notin found \/ ~Runs(row[m]) -> "none"
                       [] m \in found /\ row[m].root = "running" -> "unasked"
                       [] OTHER -> "gone"]
    IN  /\ pass[c].phase = "discover"
        /\ pass' = [pass EXCEPT ![c] = [NewPass EXCEPT !.phase = "settle",
                                           !.found = found, !.probe = probe]]
        /\ UNCHANGED <<companyOf, row, left, gate, mishaps>>

Probed(c, m, answer) == pass' = [pass EXCEPT ![c].probe[m] = answer]

\* waitForHostToSettle: the first snapshot, and the abort of a host that runs.
Ask(c, m) ==
    /\ pass[c].phase = "settle" /\ pass[c].probe[m] = "unasked"
    /\ IF HostRuns(row[m])
       THEN Probed(c, m, "asked") /\ row' = [row EXCEPT ![m].host = "aborting"]
       ELSE Probed(c, m, row[m].host) /\ UNCHANGED row
    /\ UNCHANGED <<companyOf, left, gate, mishaps>>

\* A probe that finds the host stopped.
Probe(c, m) ==
    /\ pass[c].phase = "settle" /\ pass[c].probe[m] = "asked"
    /\ ~HostRuns(row[m])
    /\ Probed(c, m, row[m].host)
    /\ UNCHANGED <<companyOf, row, left, gate, mishaps>>

\* A call to the host fails, or it still runs after the last probe.
Late(c, m) ==
    /\ pass[c].phase = "settle" /\ mishaps < MaxMishaps
    /\ \/ pass[c].probe[m] = "unasked"
       \/ pass[c].probe[m] = "asked" /\ HostRuns(row[m])
    /\ Probed(c, m, "late")
    /\ mishaps' = mishaps + 1
    /\ UNCHANGED <<companyOf, row, left, gate>>

AllAnswered(p) == \A m \in Missions : p.probe[m] \notin {"unasked", "asked"}

\* Mutant of Settle: the hosts that did not stop are let through.
SettleAnyway(c) ==
    /\ pass[c].phase = "settle" /\ AllAnswered(pass[c])
    /\ Enter(c, "terminalize")
    /\ UNCHANGED <<companyOf, row, left, gate, mishaps>>

\* allSettled over the candidates; one that is late fails the pass.
Settle(c) ==
    /\ pass[c].phase = "settle" /\ AllAnswered(pass[c])
    /\ Enter(c, IF \E m \in Missions : pass[c].probe[m] = "late"
                THEN "failed" ELSE "terminalize")
    /\ UNCHANGED <<companyOf, row, left, gate, mishaps>>

\* The host ends, by itself or after its abort; nobody promises the former.
HostEnds(m) ==
    /\ HostRuns(row[m])
    /\ \E end \in HostEnd :
          /\ end = "cancelled" => row[m].host = "aborting"
          /\ row' = [row EXCEPT ![m].host = end]
    /\ UNCHANGED <<companyOf, left, pass, gate, mishaps>>

-----------------------------------------------------------------------------
\* The phases that write.
AtWork(c) == pass[c].phase \in DOMAIN Following

\* The Mission in hand, and the writes for it that are still to come.
HaveLeft(c, m, work) ==
    pass' = [pass EXCEPT
                ![c].at        = IF work = <<>> THEN NoMission ELSE m,
                ![c].work      = work,
                ![c].todo      = IF work = <<>> THEN @ \ {m} ELSE @,
                ![c].inspected = IF work = <<>> /\ pass[c].phase \in Finalizes
                                 THEN @ \union {m} ELSE @]

\* The list has one order (created_at); what is left may be in either.
TakeMission(c) ==
    LET m == CHOOSE n \in pass[c].todo : TRUE
    IN  /\ AtWork(c) /\ pass[c].at = NoMission /\ pass[c].todo # {}
        /\ HaveLeft(c, m, WritesOf(pass[c].phase, row[m], pass[c].probe[m]))
        /\ UNCHANGED <<companyOf, row, left, gate, mishaps>>

\* MissionService.transition checks the edge before it writes.
Refused(c) ==
    LET w == Head(pass[c].work)
    IN  w[1] = "status" /\ ~canTransition(row[pass[c].at].status, w[2])

DoWrite(c) ==
    LET w == Head(pass[c].work)
        m == pass[c].at
    IN  /\ pass[c].work # <<>> /\ ~Refused(c)
        /\ row' = [row EXCEPT ![m] = Written(@, w[1], w[2])]
        /\ HaveLeft(c, m, Tail(pass[c].work))
        /\ UNCHANGED <<companyOf, left, gate, mishaps>>

NextPhase(c) ==
    /\ AtWork(c) /\ pass[c].todo = {}
    /\ Enter(c, Following[pass[c].phase])
    /\ UNCHANGED <<companyOf, row, left, gate, mishaps>>

\* A database call fails, or a transition is refused.
Fails(c) ==
    LET refused == pass[c].work # <<>> /\ Refused(c)
    IN  /\ AtWork(c) \/ pass[c].phase = "discover"
        /\ refused \/ mishaps < MaxMishaps
        /\ Enter(c, OnError(pass[c].phase))
        /\ mishaps' = IF refused THEN mishaps ELSE mishaps + 1
        /\ UNCHANGED <<companyOf, row, left, gate>>

-----------------------------------------------------------------------------
\* The gate, its retry and the crashes.

OpenGate ==
    /\ gate = "closed"
    /\ \A c \in Companies : pass[c].phase = "converged"
    /\ gate' = "open"
    /\ UNCHANGED <<companyOf, row, left, pass, mishaps>>

\* Mutant of Retry: the rejected promise stays in the cache.
RetryCached(c) ==
    /\ pass[c].phase = "failed"
    /\ UNCHANGED reloadVars

\* A company is activated again: the failed pass was evicted, the others are shared.
Retry(c) ==
    /\ pass[c].phase = "failed"
    /\ pass' = [pass EXCEPT ![c] = NewPass]
    /\ UNCHANGED <<companyOf, row, left, gate, mishaps>>

\* The renderer dies, alone or with the application and its hosts.
Crash(whole) ==
    /\ mishaps < MaxMishaps
    /\ mishaps' = mishaps + 1
    /\ pass' = [c \in AnyCompany |-> NewPass]
    /\ gate' = "closed"
    /\ row' = [m \in Missions |->
                  IF whole /\ HostRuns(row[m]) THEN [row[m] EXCEPT !.host = "gone"]
                  ELSE row[m]]
    /\ UNCHANGED <<companyOf, left>>

PassNext(c) ==
    \/ Discover(c) \/ Settle(c) \/ TakeMission(c) \/ DoWrite(c) \/ NextPhase(c)
    \/ \E m \in Missions : Ask(c, m) \/ Probe(c, m)

ReloadNext ==
    \/ \E c \in Companies : PassNext(c) \/ Fails(c) \/ Retry(c)
    \/ \E c \in Companies, m \in Missions : Late(c, m)
    \/ \E m \in Missions : HostEnds(m)
    \/ OpenGate
    \/ \E whole \in BOOLEAN : Crash(whole)

ReloadSpec == ReloadInit /\ [][ReloadNext]_reloadVars

-----------------------------------------------------------------------------
Stopped(r) == ~HostRuns(r) /\ ~Runs(r)

\* The events that lead from the status a Mission was left in to its parking.
Trail(status) ==
    CASE status = "repairing"              -> Events
      [] status \in {"running", "verifying"} -> Events \ {"resumed"}
      [] status = "interrupted"            -> {"ready_to_resume"}
      [] OTHER                             -> {}

\* The Missions a pass finds, now or in the renderer before it (464).
InFlight(m) == left[m] \in RELOAD_DISCOVERY_STATUSES

\* When the UI is opened, every Mission of any company that was in flight has
\* neither host nor root nor child that runs, and is parked with its attempt, its
\* link and its whole trail of events, whatever failed or died in between
\* (mission-reload-recovery.ts:182-184, 442-448).
GateMeansSettled ==
    gate = "open" =>
        \A m \in Missions :
            InFlight(m) =>
                /\ Stopped(row[m])
                /\ row[m].status = "ready_to_resume"
                /\ row[m].attempt = "interrupted"
                /\ row[m].link # "active"
                /\ Trail(left[m]) \subseteq row[m].events

\* A Mission is marked or moved only once all its company had in flight has
\* stopped, in the host and in agent_run (531-533).
StoppedBeforeParked ==
    [][\A m \in Missions :
          (row'[m].status # row[m].status \/ row'[m].marker # row[m].marker)
              => \A n \in Missions :
                    companyOf[n] = companyOf[m] /\ InFlight(n) => Stopped(row[n])]_reloadVars

\* "No Conversation scope is exposed while another company's native host is still
\* writing files" (61-66).  The code does not have this (README, 6): discovery
\* goes by status, and a Mission that was failed at its deadline, or cancelled,
\* may have a host that has yet to end.
NoHostBehindGate == gate = "open" => \A m \in Missions : ~HostRuns(row[m])

\* After the last crash and the last fault, retries open the UI for good.
Converges == <>[](gate = "open")

-----------------------------------------------------------------------------
\* Calls return, every aborted host stops, and a company that failed is activated
\* again.
ReloadFairness ==
    /\ \A c \in AnyCompany :
          WF_reloadVars(c \in Companies /\ (PassNext(c) \/ Retry(c) \/ OpenGate))
    /\ WF_reloadVars(\E m \in Missions : row[m].host = "aborting" /\ HostEnds(m))

FairReloadSpec == ReloadSpec /\ ReloadFairness

=============================================================================
