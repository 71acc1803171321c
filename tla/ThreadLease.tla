----------------------------- MODULE ThreadLease -----------------------------
(***************************************************************************)
(* The state of a ThreadLifecycleGuard and what each of its methods makes  *)
(* of it.  All of them are synchronous.  A lease is a handle <<run state,  *)
(* generation>>, so a stale lease is one whose run is over or has been     *)
(* transferred since.  A constant module: the guard on its own and the     *)
(* lanes that share it are specified over these operators.                 *)
(***************************************************************************)
EXTENDS Naturals

CONSTANTS
    Threads,
    RunStates,       \* identities of the ThreadRunLeaseState objects
    Locks,           \* identities of the mutation closures
    MaxGeneration,   \* bound: hand-overs of one run
    None             \* absent from the map; a free slot

ASSUME GuardAssumption ==
    /\ None \notin Threads \union RunStates
    /\ MaxGeneration \in Nat

Leases == RunStates \X (0 .. MaxGeneration)

\* A closure is not a lease.
ASSUME HandlesAssumption == Locks \intersect Leases = {}

Guards ==
    [activeRuns : [Threads -> RunStates \union {None}],
     mutations  : SUBSET Threads,
     states     : [RunStates -> [threadId : Threads \union {None},
                                 generation : 0 .. MaxGeneration,
                                 active : BOOLEAN]],
     closures   : [Locks -> [threadId : Threads \union {None}, released : BOOLEAN]]]

NewGuard ==
    [activeRuns |-> [t \in Threads |-> None],
     mutations  |-> {},
     states     |-> [s \in RunStates |-> [threadId |-> None, generation |-> 0,
                                          active |-> FALSE]],
     closures   |-> [k \in Locks |-> [threadId |-> None, released |-> FALSE]]]

-----------------------------------------------------------------------------
\* Mutant of Free: a mutation in progress is not looked at.
FreeOfRuns(g, t) == g.activeRuns[t] = None

\* beginRun and acquireMutation return null unless the thread is free.
Free(g, t) == t \notin g.mutations /\ g.activeRuns[t] = None

\* Mutant of Begun: the map gets the lease in place of the run state.
BegunWithLease(g, t, s) ==
    [g EXCEPT !.states[s] = [threadId |-> t, generation |-> 0, active |-> TRUE],
              !.activeRuns[t] = <<s, 0>>]

Begun(g, t, s) ==
    [g EXCEPT !.states[s] = [threadId |-> t, generation |-> 0, active |-> TRUE],
              !.activeRuns[t] = s]

Locked(g, t, k) ==
    [g EXCEPT !.mutations = @ \union {t},
              !.closures[k] = [threadId |-> t, released |-> FALSE]]

Unlocked(g, k) ==
    IF g.closures[k].released THEN g
    ELSE [g EXCEPT !.closures[k].released = TRUE,
                   !.mutations = @ \ {g.closures[k].threadId}]

\* A lease is good while its run is active and in the lease's generation.
Current(g, lease) ==
    g.states[lease[1]].active /\ g.states[lease[1]].generation = lease[2]

\* Mutant of Released: a lease of an older generation still releases.
ReleasedByAnyGeneration(g, lease) ==
    LET s == lease[1]
        t == g.states[s].threadId
    IN  IF ~g.states[s].active THEN g
        ELSE [g EXCEPT !.states[s].active = FALSE, !.activeRuns[t] = None]

\* Mutant of Released: the run ends but stays in the map.
ReleasedInPlace(g, lease) ==
    IF ~Current(g, lease) THEN g ELSE [g EXCEPT !.states[lease[1]].active = FALSE]

Released(g, lease) ==
    LET s == lease[1]
        t == g.states[s].threadId
    IN  IF ~Current(g, lease) THEN g
        ELSE [g EXCEPT !.states[s].active = FALSE,
                       !.activeRuns = IF @[t] = s THEN [@ EXCEPT ![t] = None] ELSE @]

\* transfer() of a good lease; it returns null for any other.
Transferred(g, lease) == [g EXCEPT !.states[lease[1]].generation = @ + 1]

NextLease(lease) == <<lease[1], lease[2] + 1>>

=============================================================================
