------------------------ MODULE ThreadLifecycleGuard ------------------------
(***************************************************************************)
(* ThreadLifecycleGuard: the renderer-wide exclusion between Conversation  *)
(* work, Mission work and destructive conversation mutations.  Every       *)
(* method is synchronous, so each is one action.                           *)
(*                                                                         *)
(* A lease stays with whoever was given it, and its release() and          *)
(* transfer() can be called at any time and any number of times.  The same *)
(* is true of the closure that acquireMutation returns.                    *)
(***************************************************************************)
EXTENDS ThreadLease

VARIABLES
    guard,    \* activeRuns and mutations, the states and closures given out
    givenUp   \* leases and locks whose holder has called release or transfer

guardVars == <<guard, givenUp>>

GuardTypeOK == guard \in Guards /\ givenUp \subseteq Leases \union Locks

-----------------------------------------------------------------------------
Given(lease) == /\ guard.states[lease[1]].threadId # None
                /\ lease[2] <= guard.states[lease[1]].generation

GuardInit == guard = NewGuard /\ givenUp = {}

BeginRun(t, s) ==
    /\ guard.states[s].threadId = None   \* a new object
    /\ Free(guard, t)
    /\ guard' = Begun(guard, t, s)
    /\ UNCHANGED givenUp

AcquireMutation(t, k) ==
    /\ guard.closures[k].threadId = None
    /\ Free(guard, t)
    /\ guard' = Locked(guard, t, k)
    /\ UNCHANGED givenUp

ReleaseMutation(k) ==
    /\ guard.closures[k].threadId # None
    /\ guard' = Unlocked(guard, k)
    /\ givenUp' = givenUp \union {k}

Release(lease) ==
    /\ Given(lease)
    /\ guard' = Released(guard, lease)
    /\ givenUp' = givenUp \union {lease}

Transfer(lease) ==
    /\ Given(lease)
    /\ IF Current(guard, lease)
       THEN /\ guard.states[lease[1]].generation < MaxGeneration
            /\ guard' = Transferred(guard, lease)
       ELSE UNCHANGED guard
    /\ givenUp' = givenUp \union {lease}

GuardNext ==
    \/ \E t \in Threads, s \in RunStates : BeginRun(t, s)
    \/ \E t \in Threads, k \in Locks : AcquireMutation(t, k)
    \/ \E k \in Locks : ReleaseMutation(k)
    \/ \E lease \in Leases : Release(lease) \/ Transfer(lease)

GuardSpec == GuardInit /\ [][GuardNext]_guardVars

-----------------------------------------------------------------------------
(* Properties. *)

HeldLeases(t) == {l \in Leases \ givenUp : Given(l) /\ guard.states[l[1]].threadId = t}
HeldLocks(t)  == {k \in Locks \ givenUp : guard.closures[k].threadId = t}

\* A lease works for its holder until the holder gives it up, whatever calls
\* the holders of stale leases and stale closures make: the slot of its thread
\* is still filled by its run, and its release or transfer is not ignored.
HolderKeepsSlot ==
    \A t \in Threads :
        /\ \A l \in HeldLeases(t) : Current(guard, l) /\ guard.activeRuns[t] = l[1]
        /\ HeldLocks(t) # {} => t \in guard.mutations

\* No slot leaks: a thread that the guard calls busy has a holder who can still
\* make it free.
BusyHasHolder ==
    \A t \in Threads : ~Free(guard, t) => HeldLeases(t) \union HeldLocks(t) # {}

\* The guard implements one exclusive slot per thread.
Slot == INSTANCE ThreadSlot
            WITH Holdings <- Leases \union Locks,
                 holding <- [t \in Threads |-> HeldLeases(t) \union HeldLocks(t)],
                 givenUp <- givenUp

ImplementsSlot == Slot!Spec

=============================================================================
