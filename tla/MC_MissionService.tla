------------------------- MODULE MC_MissionService -------------------------
(***************************************************************************)
(* Instances of MissionService for TLC: a driver that uses the calls of    *)
(* the loop controller, a user and a recovery pass that use theirs.        *)
(***************************************************************************)
EXTENDS MissionService, TLC

CONSTANTS driver, user, recovery

ThreeActors == {driver, user, recovery}

DriverCalls   == {"startAttempt", "beginVerifying", "recordEvaluation",
                  "completeMission", "toRepairing", "toBlocked", "toFailed"}
UserCalls     == {"markReady", "toAwaitingUser", "pause", "resume", "resumeReady", "cancel"}
RecoveryCalls == {"toInterrupted", "toReadyToResume", "resume", "startAttempt"}

CallsByActor == (driver :> DriverCalls) @@ (user :> UserCalls) @@ (recovery :> RecoveryCalls)

ShortCalls == (driver :> 2) @@ (user :> 2) @@ (recovery :> 1)

\* For the run on the desktop backend, where calls fail as well: what it takes
\* to complete a mission, with one evaluation to spare.
DriverAndUser == {driver, user}

CallsToCompletion ==
    (driver :> {"startAttempt", "beginVerifying", "recordEvaluation", "completeMission"})
        @@ (user :> {"pause", "resume", "cancel"})

ToCompletion == (driver :> 5) @@ (user :> 1)

=============================================================================
