-------------------------- MODULE MC_MissionReload --------------------------
(***************************************************************************)
(* An instance of MissionReload for TLC.                                   *)
(***************************************************************************)
EXTENDS MissionReload

CONSTANTS c1, c2, m1, m2

Quiet == [status |-> "running", attempt |-> "running", root |-> "none",
          child |-> "none", host |-> "gone", events |-> {}, marker |-> "none",
          link |-> "active"]

Busy == [Quiet EXCEPT !.root = "running", !.child = "running", !.host = "running"]

\* In the middle of a run; verified after a run that left a child; being repaired;
\* between the two writes of an interruption; parked already; failed at its
\* deadline while its host was still to end.
Rests ==
    {Busy,
     [Quiet EXCEPT !.status = "verifying", !.root = "completed", !.child = "running"],
     [Quiet EXCEPT !.status = "repairing", !.attempt = "closed", !.root = "failed"],
     [Quiet EXCEPT !.status = "interrupted", !.root = "running"],
     [Quiet EXCEPT !.status = "ready_to_resume", !.attempt = "interrupted",
                   !.link = "none"],
     [Busy EXCEPT !.status = "failed", !.attempt = "closed", !.host = "aborting"]}

\* Every pair in one company, and a busy company beside another.
SomeLeft ==
    {[companyOf |-> [m \in Missions |-> c1], row |-> r] : r \in [Missions -> Rests]}
    \union
    {[companyOf |-> [m \in Missions |-> IF m = m1 THEN c1 ELSE c2],
      row |-> [m \in Missions |-> IF m = m1 THEN Busy ELSE r]] : r \in Rests}

=============================================================================
