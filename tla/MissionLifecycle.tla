-------------------------- MODULE MissionLifecycle --------------------------
(***************************************************************************)
(* What MissionService promises of one Mission row, with every call a      *)
(* single atomic step: the status moves along the graph, the graph has no  *)
(* edge out of a terminal status, and a root attempt is bound only by the  *)
(* step that enters `running', never while another one is active.          *)
(* MissionService is checked, and proved, to implement this specification. *)
(***************************************************************************)
EXTENDS MissionStatusGraph

CONSTANTS
    Attempts,   \* attempt ids
    NoAttempt   \* current_attempt_id = null

VARIABLES
    status,     \* mission.status
    attempt     \* mission.current_attempt_id

lifecycleVars == <<status, attempt>>

\* As createMission leaves it, or as the createMission + markReady pair that
\* every production creator runs leaves it.
Init == status \in {"draft", "ready"} /\ attempt = NoAttempt

\* A status change that leaves the bound attempt alone.
Move == \E to \in MissionStatus :
            /\ canTransition(status, to)
            /\ status' = to
            /\ UNCHANGED attempt

\* A new root attempt: the only step that rebinds current_attempt_id.
BindAttempt == \E id \in Attempts :
                  /\ status \notin ActiveRoot
                  /\ canTransition(status, "running")
                  /\ status' = "running"
                  /\ attempt' = id

Next == Move \/ BindAttempt

Spec == Init /\ [][Next]_lifecycleVars

=============================================================================
