------------------------- MODULE MissionStatusGraph -------------------------
(***************************************************************************)
(* The status graph of a Mission, as MissionService declares it            *)
(* (packages/core/src/runtime/mission/mission-service.ts).  A constant     *)
(* module: it has no variables, and is shared by the abstract lifecycle    *)
(* and by the service that is to implement it.                             *)
(***************************************************************************)

MissionStatus ==
    {"draft", "ready", "running", "verifying", "repairing", "awaiting_user",
     "interrupted", "ready_to_resume", "blocked", "failed", "completed",
     "paused", "cancelled"}

Terminal == {"completed", "failed", "cancelled"}

\* The statuses in which a bound attempt is the active root (section 18.3).
ActiveRoot == {"running", "verifying"}

ALLOWED_TRANSITIONS ==
    [s \in MissionStatus |->
        CASE s = "draft"           -> {"ready", "cancelled"}
          [] s = "ready"           -> {"running", "cancelled", "paused"}
          [] s = "running"         -> {"verifying", "awaiting_user", "interrupted",
                                       "blocked", "failed", "cancelled", "paused"}
          [] s = "verifying"       -> {"completed", "repairing", "awaiting_user",
                                       "interrupted", "blocked", "failed",
                                       "cancelled", "paused"}
          [] s = "repairing"       -> {"running", "cancelled", "paused"}
          [] s = "awaiting_user"   -> {"running", "cancelled", "paused"}
          [] s = "interrupted"     -> {"ready_to_resume", "cancelled"}
          [] s = "ready_to_resume" -> {"running", "cancelled"}
          [] s = "blocked"         -> {"cancelled", "paused"}
          [] s = "paused"          -> {"running", "ready", "cancelled"}
          [] s \in Terminal        -> {}]

canTransition(from, to) == to \in ALLOWED_TRANSITIONS[from]

=============================================================================
