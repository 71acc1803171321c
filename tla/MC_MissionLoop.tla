--------------------------- MODULE MC_MissionLoop ---------------------------
(***************************************************************************)
(* Instances of MissionLoop for TLC: the loop with a user who may cancel,  *)
(* or pause and resume, at any await.                                      *)
(***************************************************************************)
EXTENDS MissionLoop, TLC

CONSTANTS loopActor, user

LoopAndUser == {loopActor, user}

LoopCalls == {"startAttempt", "beginVerifying", "recordEvaluation",
              "completeMission", "toRepairing", "toBlocked", "toFailed"}

UserCancels == (loopActor :> LoopCalls) @@ (user :> {"cancel"})
UserPauses  == (loopActor :> LoopCalls) @@ (user :> {"pause", "resume", "cancel"})

\* 40 calls are more than the attempts and criteria of any instance need.
TwoUserCalls == (loopActor :> 40) @@ (user :> 2)
OneUserCall  == (loopActor :> 40) @@ (user :> 1)

=============================================================================
