------------------------ MODULE MC_ChildSupervisor --------------------------
(***************************************************************************)
(* An instance of ChildSupervisor for TLC.                                 *)
(***************************************************************************)
EXTENDS ChildSupervisor

\* Tight limits: the circle of waiters that overlapping calls can make, a pool
\* that siblings share, and a failed verification that is prompted again.
Tight(parallel, children) ==
    [maxDepth |-> 2, maxParallel |-> parallel, maxTotalChildren |-> children,
     maxAttempts |-> 1, overlap |-> FALSE, maxCalls |-> 3, maxTasks |-> 2]

TightPolicies ==
    {[Tight(1, 3) EXCEPT !.overlap = TRUE, !.maxCalls = 4, !.maxTasks = 1],
     Tight(2, 3),
     [Tight(1, 2) EXCEPT !.maxAttempts = 2]}

=============================================================================
