--------------------- MODULE ThreadLifecycleGuard_proofs ---------------------
(***************************************************************************)
(* Proofs about ThreadLifecycleGuard, for any threads, run objects, locks  *)
(* and any number of hand-overs.                                           *)
(*                                                                         *)
(* HolderKeepsSlot is not inductive: that a stale release does no harm     *)
(* depends on the two maps of the guard agreeing with the objects given    *)
(* out.  GuardInv adds that agreement.                                     *)
(***************************************************************************)
EXTENDS ThreadLifecycleGuard, ThreadLease_proofs

\* A run in the map is the active run of that thread, and its newest lease is
\* still held.
RunsAgree ==
    \A t \in Threads : guard.activeRuns[t] # None =>
        LET s == guard.activeRuns[t]
        IN  /\ guard.states[s].active
            /\ guard.states[s].threadId = t
            /\ <<s, guard.states[s].generation>> \notin givenUp

\* An active run is in the map, under its thread.
ActiveInMap ==
    \A s \in RunStates : guard.states[s].active =>
        /\ guard.states[s].threadId \in Threads
        /\ guard.activeRuns[guard.states[s].threadId] = s

\* Of the leases given out, only the newest one of an active run in the map can
\* be unused.
LeasesAgree ==
    \A l \in Leases \ givenUp : Given(l) =>
        /\ Current(guard, l)
        /\ guard.activeRuns[guard.states[l[1]].threadId] = l[1]

OnlyGivenUsed == \A l \in Leases \intersect givenUp : Given(l)

\* The closures not yet released are those of the busy threads, one for each.
LocksAgree ==
    /\ \A k \in Locks : guard.closures[k].threadId = None => k \notin givenUp
    /\ \A k \in Locks : guard.closures[k].threadId # None =>
          /\ guard.closures[k].released <=> k \in givenUp
          /\ ~guard.closures[k].released =>
                /\ guard.closures[k].threadId \in guard.mutations
                /\ guard.activeRuns[guard.closures[k].threadId] = None
    /\ \A t \in guard.mutations :
          \E k \in Locks : guard.closures[k].threadId = t /\ ~guard.closures[k].released
    /\ \A j, k \in Locks :
          /\ guard.closures[j].threadId # None
          /\ guard.closures[j].threadId = guard.closures[k].threadId
          /\ ~guard.closures[j].released /\ ~guard.closures[k].released
          => j = k

GuardInv ==
    GuardTypeOK /\ RunsAgree /\ ActiveInMap /\ LeasesAgree /\ OnlyGivenUsed /\ LocksAgree

-----------------------------------------------------------------------------
LEMMA GuardInvInit == GuardInit => GuardInv
<1> SUFFICES ASSUME GuardInit PROVE GuardInv
  OBVIOUS
<1> USE DEF GuardInit, NewGuard
<1>1. GuardTypeOK
  <2>1. guard \in Guards
    BY GuardAssumption DEF Guards
  <2> QED BY <2>1 DEF GuardTypeOK
<1>2. RunsAgree /\ ActiveInMap
  BY DEF RunsAgree, ActiveInMap
<1>3. LeasesAgree
  BY DEF LeasesAgree, Given, Leases
<1>4. OnlyGivenUsed /\ LocksAgree
  BY DEF OnlyGivenUsed, LocksAgree
<1> QED BY <1>1, <1>2, <1>3, <1>4 DEF GuardInv

LEMMA BeginRunKeeps ==
    ASSUME GuardInv, NEW t \in Threads, NEW s \in RunStates, BeginRun(t, s)
    PROVE  GuardInv'
<1>0. /\ RunsAgree /\ ActiveInMap /\ LeasesAgree /\ OnlyGivenUsed /\ LocksAgree
      /\ guard \in Guards /\ givenUp \subseteq Leases \union Locks
      /\ guard.states[s].threadId = None /\ Free(guard, t) /\ givenUp' = givenUp
      /\ t # None /\ s # None
  BY GuardAssumption DEF GuardInv, GuardTypeOK, BeginRun
<1>1. /\ guard' \in Guards
      /\ guard'.activeRuns = [guard.activeRuns EXCEPT ![t] = s]
      /\ guard'.mutations = guard.mutations
      /\ guard'.closures = guard.closures
      /\ guard'.states = [guard.states EXCEPT ![s] =
                             [threadId |-> t, generation |-> 0, active |-> TRUE]]
  BY <1>0, BegunFields DEF BeginRun
<1>2. GuardTypeOK'
  BY <1>0, <1>1 DEF GuardTypeOK
<1>3. \A u \in Threads : guard.activeRuns[u] # s
  BY <1>0, GuardAssumption DEF RunsAgree
<1>4. \A l \in Leases \intersect givenUp : l[1] # s
  BY <1>0 DEF OnlyGivenUsed, Given
<1>5. RunsAgree'
  <2> SUFFICES ASSUME NEW u \in Threads, guard'.activeRuns[u] # None
               PROVE  /\ guard'.states[guard'.activeRuns[u]].active
                      /\ guard'.states[guard'.activeRuns[u]].threadId = u
                      /\ <<guard'.activeRuns[u], guard'.states[guard'.activeRuns[u]].generation>>
                            \notin givenUp'
    BY DEF RunsAgree
  <2>1. CASE u = t
    <3>1. guard'.activeRuns[u] = s /\ guard'.states[s].generation = 0
      BY <2>1, <1>0, <1>1 DEF Guards
    <3>2. <<s, 0>> \notin givenUp
      BY <1>4, GuardAssumption DEF Leases
    <3> QED BY <2>1, <3>1, <3>2, <1>0, <1>1 DEF Guards
  <2>2. CASE u # t
    BY <2>2, <1>0, <1>1, <1>3 DEF RunsAgree, Guards
  <2> QED BY <2>1, <2>2
<1>6. LeasesAgree'
  <2> SUFFICES ASSUME NEW l \in Leases \ givenUp', Given(l)'
               PROVE  Current(guard', l) /\ guard'.activeRuns[guard'.states[l[1]].threadId] = l[1]
    BY DEF LeasesAgree
  <2>0. l[1] \in RunStates /\ l[2] \in 0 .. MaxGeneration
    BY DEF Leases
  <2>1. CASE l[1] = s
    BY <2>0, <2>1, <1>0, <1>1, GuardAssumption DEF Given, Current, Guards
  <2>2. CASE l[1] # s
    <3>1. guard'.states[l[1]] = guard.states[l[1]]
      BY <2>0, <2>2, <1>0, <1>1 DEF Guards
    <3>2. Given(l)
      BY <3>1 DEF Given
    <3>3. Current(guard, l) /\ guard.activeRuns[guard.states[l[1]].threadId] = l[1]
      BY <3>2, <1>0 DEF LeasesAgree
    <3>4. guard.states[l[1]].threadId \in Threads
      BY <3>2, <2>0, <1>0 DEF Given, Guards
    <3>5. guard.states[l[1]].threadId # t
      BY <3>3, <2>0, <1>0, GuardAssumption DEF Free
    <3> QED BY <3>1, <3>3, <3>4, <3>5, <1>0, <1>1 DEF Current, Guards
  <2> QED BY <2>1, <2>2
<1>7. OnlyGivenUsed'
  <2> SUFFICES ASSUME NEW l \in Leases \intersect givenUp PROVE Given(l)'
    BY <1>0 DEF OnlyGivenUsed
  <2> QED BY <1>0, <1>1, <1>4 DEF OnlyGivenUsed, Given, Guards, Leases
<1>8. LocksAgree'
  <2>1. \A k \in Locks : guard.closures[k].threadId # None /\ ~guard.closures[k].released
                            => guard.closures[k].threadId # t
    BY <1>0 DEF LocksAgree, Free
  <2> QED BY <2>1, <1>0, <1>1 DEF LocksAgree, Guards
<1>9. ActiveInMap'
  <2> SUFFICES ASSUME NEW r \in RunStates, guard'.states[r].active
               PROVE  /\ guard'.states[r].threadId \in Threads
                      /\ guard'.activeRuns[guard'.states[r].threadId] = r
    BY DEF ActiveInMap
  <2>1. CASE r = s
    BY <2>1, <1>0, <1>1 DEF Guards
  <2>2. CASE r # s
    <3>1. guard'.states[r] = guard.states[r]
      BY <2>2, <1>0, <1>1 DEF Guards
    <3>2. /\ guard.states[r].threadId \in Threads
          /\ guard.activeRuns[guard.states[r].threadId] = r
      BY <3>1, <1>0 DEF ActiveInMap
    <3>3. guard.states[r].threadId # t
      BY <3>2, <1>0, GuardAssumption DEF Free
    <3> QED BY <3>1, <3>2, <3>3, <1>0, <1>1 DEF Guards
  <2> QED BY <2>1, <2>2
<1> QED BY <1>2, <1>5, <1>6, <1>7, <1>8, <1>9 DEF GuardInv

LEMMA AcquireMutationKeeps ==
    ASSUME GuardInv, NEW t \in Threads, NEW k \in Locks, AcquireMutation(t, k)
    PROVE  GuardInv'
<1>0. /\ RunsAgree /\ ActiveInMap /\ LeasesAgree /\ OnlyGivenUsed /\ LocksAgree
      /\ guard \in Guards /\ givenUp \subseteq Leases \union Locks
      /\ guard.closures[k].threadId = None /\ Free(guard, t) /\ givenUp' = givenUp
      /\ t # None
  BY GuardAssumption DEF GuardInv, GuardTypeOK, AcquireMutation
<1>1. /\ guard' \in Guards
      /\ guard'.activeRuns = guard.activeRuns
      /\ guard'.mutations = guard.mutations \union {t}
      /\ guard'.states = guard.states
      /\ guard'.closures = [guard.closures EXCEPT ![k] = [threadId |-> t, released |-> FALSE]]
  BY <1>0, LockedFields DEF AcquireMutation
<1>2. GuardTypeOK'
  BY <1>0, <1>1 DEF GuardTypeOK
<1>3. RunsAgree' /\ ActiveInMap' /\ LeasesAgree' /\ OnlyGivenUsed'
  BY <1>0, <1>1 DEF RunsAgree, ActiveInMap, LeasesAgree, OnlyGivenUsed, Given, Current
<1>4. /\ guard'.closures[k] = [threadId |-> t, released |-> FALSE]
      /\ \A j \in Locks : j # k => guard'.closures[j] = guard.closures[j]
  BY <1>0, <1>1 DEF Guards
<1>5. \A j \in Locks : j # k /\ guard.closures[j].threadId = t => guard.closures[j].released
  BY <1>0 DEF LocksAgree, Free
<1>6. LocksAgree'
  <2>1. \A j \in Locks : guard'.closures[j].threadId = None => j \notin givenUp'
    BY <1>0, <1>4 DEF LocksAgree
  <2>2. \A j \in Locks : guard'.closures[j].threadId # None =>
          /\ guard'.closures[j].released <=> j \in givenUp'
          /\ ~guard'.closures[j].released =>
                /\ guard'.closures[j].threadId \in guard'.mutations
                /\ guard'.activeRuns[guard'.closures[j].threadId] = None
    BY <1>0, <1>1, <1>4 DEF LocksAgree, Free
  <2>3. \A u \in guard'.mutations : \E j \in Locks :
           guard'.closures[j].threadId = u /\ ~guard'.closures[j].released
    <3> SUFFICES ASSUME NEW u \in guard'.mutations
                 PROVE  \E j \in Locks : guard'.closures[j].threadId = u
                                         /\ ~guard'.closures[j].released
      OBVIOUS
    <3>1. CASE u = t
      BY <3>1, <1>4
    <3>2. CASE u # t
      <4>1. u \in guard.mutations /\ u # None
        BY <3>2, <1>0, <1>1, GuardAssumption DEF Guards
      <4> QED BY <4>1, <1>0, <1>4 DEF LocksAgree
    <3> QED BY <3>1, <3>2
  <2>4. \A i, j \in Locks :
          /\ guard'.closures[i].threadId # None
          /\ guard'.closures[i].threadId = guard'.closures[j].threadId
          /\ ~guard'.closures[i].released /\ ~guard'.closures[j].released
          => i = j
    BY <1>0, <1>4, <1>5 DEF LocksAgree
  <2> QED BY <2>1, <2>2, <2>3, <2>4 DEF LocksAgree
<1> QED BY <1>2, <1>3, <1>6 DEF GuardInv

LEMMA ReleaseMutationKeeps ==
    ASSUME GuardInv, NEW k \in Locks, ReleaseMutation(k)
    PROVE  GuardInv'
<1>0. /\ RunsAgree /\ ActiveInMap /\ LeasesAgree /\ OnlyGivenUsed /\ LocksAgree
      /\ guard \in Guards /\ givenUp \subseteq Leases \union Locks
      /\ guard.closures[k].threadId # None
      /\ guard' = Unlocked(guard, k) /\ givenUp' = givenUp \union {k}
      /\ k \notin Leases
  BY HandlesAssumption DEF GuardInv, GuardTypeOK, ReleaseMutation
<1>1. CASE guard.closures[k].released
  <2>1. guard' = guard /\ givenUp' = givenUp
    BY <1>0, <1>1 DEF Unlocked, LocksAgree
  <2> QED BY <2>1 DEF GuardInv, GuardTypeOK, RunsAgree, ActiveInMap, LeasesAgree, OnlyGivenUsed,
                      LocksAgree, Given, Current
<1>2. CASE ~guard.closures[k].released
  <2> DEFINE t == guard.closures[k].threadId
  <2>1. /\ guard' \in Guards
        /\ guard'.activeRuns = guard.activeRuns
        /\ guard'.mutations = guard.mutations \ {t}
        /\ guard'.states = guard.states
        /\ guard'.closures = [guard.closures EXCEPT ![k].released = TRUE]
    BY <1>0, <1>2, UnlockedFields
  <2>2. GuardTypeOK'
    BY <1>0, <2>1 DEF GuardTypeOK
  <2>3. RunsAgree' /\ ActiveInMap' /\ LeasesAgree' /\ OnlyGivenUsed'
    <3>1. \A l \in Leases : l \in givenUp' <=> l \in givenUp
      BY <1>0
    <3>2. \A s \in RunStates : <<s, guard.states[s].generation>> \in Leases
      BY <1>0 DEF Guards, Leases
    <3>3. RunsAgree'
      BY <1>0, <2>1, <3>1, <3>2, GuardAssumption DEF RunsAgree, Guards
    <3>4. ActiveInMap'
      BY <1>0, <2>1 DEF ActiveInMap
    <3> QED BY <1>0, <2>1, <3>1, <3>3, <3>4 DEF LeasesAgree, OnlyGivenUsed, Given, Current
  <2>4. /\ guard'.closures[k].released /\ guard'.closures[k].threadId = t
        /\ \A j \in Locks : j # k => guard'.closures[j] = guard.closures[j]
    BY <1>0, <2>1 DEF Guards
  <2>5. LocksAgree'
    <3>1. \A j \in Locks : guard'.closures[j].threadId = None => j \notin givenUp'
      BY <1>0, <2>4 DEF LocksAgree
    <3>2. \A j \in Locks : guard'.closures[j].threadId # None =>
            /\ guard'.closures[j].released <=> j \in givenUp'
            /\ ~guard'.closures[j].released =>
                  /\ guard'.closures[j].threadId \in guard'.mutations
                  /\ guard'.activeRuns[guard'.closures[j].threadId] = None
      BY <1>0, <1>2, <2>1, <2>4 DEF LocksAgree
    <3>3. \A u \in guard'.mutations : \E j \in Locks :
             guard'.closures[j].threadId = u /\ ~guard'.closures[j].released
      BY <1>0, <2>1, <2>4 DEF LocksAgree
    <3>4. \A i, j \in Locks :
            /\ guard'.closures[i].threadId # None
            /\ guard'.closures[i].threadId = guard'.closures[j].threadId
            /\ ~guard'.closures[i].released /\ ~guard'.closures[j].released
            => i = j
      BY <1>0, <2>4 DEF LocksAgree
    <3> QED BY <3>1, <3>2, <3>3, <3>4 DEF LocksAgree
  <2> QED BY <2>2, <2>3, <2>5 DEF GuardInv
<1> QED BY <1>1, <1>2

\* A lease whose holder uses it for the first time is current; any other use
\* of a lease changes nothing.
LEMMA StaleOrHeld ==
    ASSUME GuardInv, NEW l \in Leases, Given(l)
    PROVE  /\ l[1] \in RunStates /\ l[2] \in Nat
           /\ guard.states[l[1]].threadId \in Threads
           /\ l \in givenUp => ~Current(guard, l)
           /\ l \notin givenUp => /\ Current(guard, l)
                                  /\ guard.activeRuns[guard.states[l[1]].threadId] = l[1]
<1>1. l[1] \in RunStates /\ l[2] \in Nat /\ l = <<l[1], l[2]>>
  BY GuardAssumption DEF Leases
<1>2. guard.states[l[1]].threadId \in Threads
  BY <1>1 DEF GuardInv, GuardTypeOK, Given, Guards
<1>3. ASSUME Current(guard, l) PROVE l \notin givenUp
  <2>1. l = <<l[1], guard.states[l[1]].generation>>
    BY <1>1, <1>3 DEF Current
  <2>2. guard.activeRuns[guard.states[l[1]].threadId] = l[1] /\ l[1] # None
    BY <1>1, <1>3, GuardAssumption DEF GuardInv, ActiveInMap, Current
  <2> QED BY <1>2, <2>1, <2>2 DEF GuardInv, RunsAgree
<1> QED BY <1>1, <1>2, <1>3 DEF GuardInv, LeasesAgree

LEMMA ReleaseKeeps ==
    ASSUME GuardInv, NEW l \in Leases, Release(l)
    PROVE  GuardInv'
<1> DEFINE s == l[1]
           t == guard.states[s].threadId
<1>0. /\ RunsAgree /\ ActiveInMap /\ LeasesAgree /\ OnlyGivenUsed /\ LocksAgree
      /\ guard \in Guards /\ givenUp \subseteq Leases \union Locks
      /\ Given(l) /\ guard' = Released(guard, l) /\ givenUp' = givenUp \union {l}
      /\ l \notin Locks
  BY HandlesAssumption DEF GuardInv, GuardTypeOK, Release
<1>1. /\ s \in RunStates /\ t \in Threads /\ s # None
      /\ l \in givenUp => ~Current(guard, l)
      /\ l \notin givenUp => Current(guard, l) /\ guard.activeRuns[t] = s
  BY <1>0, StaleOrHeld, GuardAssumption
<1>2. CASE l \in givenUp
  <2>1. guard' = guard /\ givenUp' = givenUp
    BY <1>0, <1>1, <1>2 DEF Released
  <2> QED BY <2>1 DEF GuardInv, GuardTypeOK, RunsAgree, ActiveInMap, LeasesAgree,
                      OnlyGivenUsed, LocksAgree, Given, Current
<1>3. CASE l \notin givenUp
  <2>1. /\ guard' \in Guards
        /\ guard'.activeRuns = [guard.activeRuns EXCEPT ![t] = None]
        /\ guard'.mutations = guard.mutations
        /\ guard'.closures = guard.closures
        /\ guard'.states = [guard.states EXCEPT ![s].active = FALSE]
    BY <1>0, <1>1, <1>3, ReleasedFields
  <2>2. GuardTypeOK'
    BY <1>0, <2>1 DEF GuardTypeOK
  <2>3. /\ \A r \in RunStates : r # s => guard'.states[r] = guard.states[r]
        /\ ~guard'.states[s].active
        /\ guard'.states[s].threadId = t
        /\ guard'.states[s].generation = guard.states[s].generation
        /\ guard'.activeRuns[t] = None
        /\ \A u \in Threads : u # t => guard'.activeRuns[u] = guard.activeRuns[u]
    BY <1>0, <1>1, <2>1 DEF Guards
  <2>4. \A u \in Threads : u # t => guard.activeRuns[u] # s
    BY <1>0, <1>1 DEF RunsAgree
  <2>5. \A r \in RunStates : r # s /\ guard.states[r].active => guard.states[r].threadId # t
    BY <1>0, <1>1, <1>3 DEF ActiveInMap
  <2>6. RunsAgree'
    <3> SUFFICES ASSUME NEW u \in Threads, guard'.activeRuns[u] # None
                 PROVE  LET r == guard'.activeRuns[u]
                        IN  /\ guard'.states[r].active
                            /\ guard'.states[r].threadId = u
                            /\ <<r, guard'.states[r].generation>> \notin givenUp'
      BY DEF RunsAgree
    <3> DEFINE r == guard.activeRuns[u]
    <3>1. u # t /\ guard'.activeRuns[u] = r /\ r # s /\ r \in RunStates
      BY <1>0, <2>3, <2>4 DEF Guards
    <3>2. guard'.states[r] = guard.states[r]
      BY <3>1, <2>3
    <3>3. <<r, guard.states[r].generation>> # l
      BY <3>1
    <3> QED BY <3>1, <3>2, <3>3, <1>0 DEF RunsAgree
  <2>7. ActiveInMap'
    BY <1>0, <2>3, <2>5 DEF ActiveInMap
  <2>8. LeasesAgree'
    <3> SUFFICES ASSUME NEW m \in Leases \ givenUp', Given(m)'
                 PROVE  /\ Current(guard', m)
                        /\ guard'.activeRuns[guard'.states[m[1]].threadId] = m[1]
      BY DEF LeasesAgree
    <3>1. m \in Leases \ givenUp /\ m # l /\ m[1] \in RunStates
      BY <1>0 DEF Leases
    <3>2. Given(m)
      BY <3>1, <2>3 DEF Given
    <3>3. Current(guard, m) /\ guard.activeRuns[guard.states[m[1]].threadId] = m[1]
      BY <3>1, <3>2, <1>0 DEF LeasesAgree
    <3>4. m[1] # s
      BY <3>1, <3>3, <1>1, <1>3 DEF Current, Leases
    <3>5. guard.states[m[1]].threadId \in Threads /\ guard.states[m[1]].threadId # t
      BY <3>1, <3>3, <3>4, <1>0, <2>5 DEF Current, ActiveInMap
    <3> QED BY <3>1, <3>3, <3>4, <3>5, <2>3 DEF Current
  <2>9. OnlyGivenUsed'
    <3>1. \A m \in Leases : Given(m) => Given(m)'
      BY <2>3 DEF Given, Leases
    <3> QED BY <3>1, <1>0 DEF OnlyGivenUsed
  <2>10. LocksAgree'
    <3>1. \A k \in Locks : k \in givenUp' <=> k \in givenUp
      BY <1>0
    <3>2. \A k \in Locks :
            /\ guard.closures[k].threadId # None
            /\ ~guard.closures[k].released
            => guard'.activeRuns[guard.closures[k].threadId] = None
      <4>1. \A k \in Locks :
               guard.closures[k].threadId # None => guard.closures[k].threadId \in Threads
        BY <1>0 DEF Guards
      <4> QED BY <4>1, <1>0, <2>3 DEF LocksAgree
    <3> QED BY <1>0, <2>1, <3>1, <3>2 DEF LocksAgree
  <2> QED BY <2>2, <2>6, <2>7, <2>8, <2>9, <2>10 DEF GuardInv
<1> QED BY <1>2, <1>3

LEMMA TransferKeeps ==
    ASSUME GuardInv, NEW l \in Leases, Transfer(l)
    PROVE  GuardInv'
<1> DEFINE s == l[1]
           t == guard.states[s].threadId
<1>0. /\ RunsAgree /\ ActiveInMap /\ LeasesAgree /\ OnlyGivenUsed /\ LocksAgree
      /\ guard \in Guards /\ givenUp \subseteq Leases \union Locks
      /\ Given(l) /\ givenUp' = givenUp \union {l}
      /\ l \notin Locks
  BY HandlesAssumption DEF GuardInv, GuardTypeOK, Transfer
<1>1. /\ s \in RunStates /\ t \in Threads /\ s # None
      /\ l \in givenUp => ~Current(guard, l)
      /\ l \notin givenUp => Current(guard, l) /\ guard.activeRuns[t] = s
  BY <1>0, StaleOrHeld, GuardAssumption
<1>2. CASE l \in givenUp
  <2>1. guard' = guard /\ givenUp' = givenUp
    BY <1>0, <1>1, <1>2 DEF Transfer
  <2> QED BY <2>1 DEF GuardInv, GuardTypeOK, RunsAgree, ActiveInMap, LeasesAgree,
                      OnlyGivenUsed, LocksAgree, Given, Current
<1>3. CASE l \notin givenUp
  <2>0. guard.states[s].generation < MaxGeneration /\ guard' = Transferred(guard, l)
    BY <1>1, <1>3 DEF Transfer
  <2>1. /\ guard' \in Guards
        /\ guard'.activeRuns = guard.activeRuns
        /\ guard'.mutations = guard.mutations
        /\ guard'.closures = guard.closures
        /\ guard'.states = [guard.states EXCEPT ![s].generation = @ + 1]
    BY <1>0, <2>0, TransferredFields
  <2>2. GuardTypeOK'
    BY <1>0, <2>1 DEF GuardTypeOK
  <2>3. /\ \A r \in RunStates : r # s => guard'.states[r] = guard.states[r]
        /\ guard'.states[s].active = guard.states[s].active
        /\ guard'.states[s].threadId = t
        /\ guard'.states[s].generation = guard.states[s].generation + 1
        /\ guard.states[s].generation \in Nat
    BY <1>0, <1>1, <2>1 DEF Guards
  <2>4. l = <<s, guard.states[s].generation>>
    BY <1>1, <1>3 DEF Current, Leases
  <2>5. <<s, guard'.states[s].generation>> \notin givenUp'
    <3>1. <<s, guard'.states[s].generation>> \in Leases
      BY <1>1, <2>1 DEF Guards, Leases
    <3>2. <<s, guard'.states[s].generation>> \notin givenUp
      BY <3>1, <2>3, <1>0 DEF OnlyGivenUsed, Given
    <3> QED BY <3>2, <2>3, <2>4, <1>0
  <2>6. RunsAgree'
    <3> SUFFICES ASSUME NEW u \in Threads, guard'.activeRuns[u] # None
                 PROVE  LET r == guard'.activeRuns[u]
                        IN  /\ guard'.states[r].active
                            /\ guard'.states[r].threadId = u
                            /\ <<r, guard'.states[r].generation>> \notin givenUp'
      BY DEF RunsAgree
    <3> DEFINE r == guard.activeRuns[u]
    <3>1. guard'.activeRuns[u] = r /\ r \in RunStates
      BY <1>0, <2>1 DEF Guards
    <3>2. guard.states[r].active /\ guard.states[r].threadId = u
          /\ <<r, guard.states[r].generation>> \notin givenUp
      BY <3>1, <1>0, <2>1 DEF RunsAgree
    <3>3. CASE r = s
      BY <3>1, <3>2, <3>3, <2>3, <2>5
    <3>4. CASE r # s
      BY <3>1, <3>2, <3>4, <2>3, <1>0
    <3> QED BY <3>3, <3>4
  <2>7. ActiveInMap'
    BY <1>0, <2>1, <2>3 DEF ActiveInMap
  <2>8. LeasesAgree'
    <3> SUFFICES ASSUME NEW m \in Leases \ givenUp', Given(m)'
                 PROVE  /\ Current(guard', m)
                        /\ guard'.activeRuns[guard'.states[m[1]].threadId] = m[1]
      BY DEF LeasesAgree
    <3>1. /\ m \in Leases \ givenUp /\ m # l
          /\ m[1] \in RunStates /\ m[2] \in Nat /\ m = <<m[1], m[2]>>
      BY <1>0, GuardAssumption DEF Leases
    <3>2. CASE m[1] = s
      <4>1. ~Given(m)
        BY <3>1, <3>2, <2>4, <1>0 DEF LeasesAgree, Current
      <4>2. m[2] = guard'.states[s].generation
        BY <3>1, <3>2, <4>1, <2>3, <1>1, GuardAssumption DEF Given
      <4> QED BY <3>2, <4>2, <2>1, <2>3, <1>1, <1>3 DEF Current
    <3>3. CASE m[1] # s
      BY SMTT(30), <3>1, <3>3, <1>0, <2>1, <2>3 DEF LeasesAgree, Given, Current
    <3> QED BY <3>2, <3>3
  <2>9. OnlyGivenUsed'
    <3>1. \A m \in Leases : Given(m) => Given(m)'
      BY <2>3, GuardAssumption DEF Given, Leases
    <3> QED BY <3>1, <1>0 DEF OnlyGivenUsed
  <2>10. LocksAgree'
    BY <1>0, <2>1 DEF LocksAgree
  <2> QED BY <2>2, <2>6, <2>7, <2>8, <2>9, <2>10 DEF GuardInv
<1> QED BY <1>2, <1>3

LEMMA GuardInvStep == GuardInv /\ [GuardNext]_guardVars => GuardInv'
<1> SUFFICES ASSUME GuardInv, [GuardNext]_guardVars PROVE GuardInv'
  OBVIOUS
<1>1. CASE \E t \in Threads, s \in RunStates : BeginRun(t, s)
  BY <1>1, BeginRunKeeps
<1>2. CASE \E t \in Threads, k \in Locks : AcquireMutation(t, k)
  BY <1>2, AcquireMutationKeeps
<1>3. CASE \E k \in Locks : ReleaseMutation(k)
  BY <1>3, ReleaseMutationKeeps
<1>4. CASE \E l \in Leases : Release(l) \/ Transfer(l)
  BY <1>4, ReleaseKeeps, TransferKeeps
<1>5. CASE UNCHANGED guardVars
  BY <1>5 DEF guardVars, GuardInv, GuardTypeOK, RunsAgree, ActiveInMap, LeasesAgree,
              OnlyGivenUsed, LocksAgree, Given, Current
<1> QED BY <1>1, <1>2, <1>3, <1>4, <1>5 DEF GuardNext

-----------------------------------------------------------------------------
\* The two maps of the guard always agree with the leases and closures out.
THEOREM GuardInvAlways == GuardSpec => []GuardInv
<1> QED BY GuardInvInit, GuardInvStep, PTL DEF GuardSpec

\* The guard's state is always of its type, in particular no lease goes beyond
\* the generations.
THEOREM GuardTypeAlways == GuardSpec => []GuardTypeOK
<1>1. GuardInv => GuardTypeOK
  BY DEF GuardInv
<1> QED BY <1>1, GuardInvAlways, PTL

LEMMA InvHolderKeepsSlot == GuardInv => HolderKeepsSlot
<1> SUFFICES ASSUME GuardInv, NEW t \in Threads
             PROVE  /\ \A l \in HeldLeases(t) : Current(guard, l) /\ guard.activeRuns[t] = l[1]
                    /\ HeldLocks(t) # {} => t \in guard.mutations
  BY DEF HolderKeepsSlot
<1>1. \A l \in HeldLeases(t) : Current(guard, l) /\ guard.activeRuns[t] = l[1]
  BY DEF HeldLeases, GuardInv, LeasesAgree
<1>2. HeldLocks(t) # {} => t \in guard.mutations
  BY GuardAssumption DEF HeldLocks, GuardInv, LocksAgree
<1> QED BY <1>1, <1>2

LEMMA InvBusyHasHolder == GuardInv => BusyHasHolder
<1> SUFFICES ASSUME GuardInv, NEW t \in Threads, ~Free(guard, t)
             PROVE  HeldLeases(t) \union HeldLocks(t) # {}
  BY DEF BusyHasHolder
<1>1. CASE t \in guard.mutations
  <2>1. PICK k \in Locks : guard.closures[k].threadId = t /\ ~guard.closures[k].released
    BY <1>1 DEF GuardInv, LocksAgree
  <2>2. k \in HeldLocks(t)
    BY <2>1, GuardAssumption DEF HeldLocks, GuardInv, LocksAgree
  <2> QED BY <2>2
<1>2. CASE guard.activeRuns[t] # None
  <2> DEFINE s == guard.activeRuns[t]
             l == <<s, guard.states[s].generation>>
  <2>1. s \in RunStates /\ guard.states[s].threadId = t /\ l \notin givenUp
    BY <1>2 DEF GuardInv, GuardTypeOK, Guards, RunsAgree
  <2>2. l \in Leases /\ guard.states[s].generation \in Nat
    BY <2>1 DEF GuardInv, GuardTypeOK, Guards, Leases
  <2>3. Given(l)
    BY <2>1, <2>2, GuardAssumption DEF Given
  <2>4. l \in HeldLeases(t)
    BY <2>1, <2>2, <2>3 DEF HeldLeases
  <2> QED BY <2>4
<1> QED BY <1>1, <1>2 DEF Free

\* No call of a stale lease or closure takes the slot from its holder.
THEOREM HolderAlwaysKeepsSlot == GuardSpec => []HolderKeepsSlot
<1> QED BY GuardInvAlways, InvHolderKeepsSlot, PTL

\* A busy thread always has a holder that can free it.
THEOREM BusyAlwaysHasHolder == GuardSpec => []BusyHasHolder
<1> QED BY GuardInvAlways, InvBusyHasHolder, PTL

-----------------------------------------------------------------------------
(* The guard implements ThreadSlot. *)

Held(t) == HeldLeases(t) \union HeldLocks(t)

Newest(t) == <<guard.activeRuns[t], guard.states[guard.activeRuns[t]].generation>>

\* What is held of a thread, read off the guard's maps and objects.
HeldAsStored ==
    \A t \in Threads :
        /\ HeldLeases(t) = IF guard.activeRuns[t] = None THEN {} ELSE {Newest(t)}
        /\ HeldLocks(t) = {k \in Locks : guard.closures[k].threadId = t
                                          /\ ~guard.closures[k].released}

LEMMA HeldIs == GuardInv => HeldAsStored
<1> SUFFICES ASSUME GuardInv, NEW t \in Threads
             PROVE  /\ HeldLeases(t) = IF guard.activeRuns[t] = None THEN {} ELSE {Newest(t)}
                    /\ HeldLocks(t) = {k \in Locks : guard.closures[k].threadId = t
                                          /\ ~guard.closures[k].released}
  BY DEF HeldAsStored
<1> DEFINE s == guard.activeRuns[t]
           l == <<s, guard.states[s].generation>>
<1>0. l = Newest(t)
  BY DEF Newest
<1>1. \A m \in HeldLeases(t) : s # None /\ m = l
  <2> SUFFICES ASSUME NEW m \in HeldLeases(t) PROVE s # None /\ m = l
    OBVIOUS
  <2>1. m \in Leases /\ Current(guard, m) /\ s = m[1]
    BY DEF HeldLeases, GuardInv, LeasesAgree
  <2> QED BY <2>1, GuardAssumption DEF Current, Leases
<1>2. ASSUME s # None PROVE l \in HeldLeases(t)
  <2>1. s \in RunStates /\ guard.states[s].threadId = t /\ l \notin givenUp
    BY <1>2 DEF GuardInv, GuardTypeOK, Guards, RunsAgree
  <2>2. l \in Leases /\ guard.states[s].generation \in Nat
    BY <2>1 DEF GuardInv, GuardTypeOK, Guards, Leases
  <2>3. Given(l)
    BY <2>1, <2>2, GuardAssumption DEF Given
  <2> QED BY <2>1, <2>2, <2>3 DEF HeldLeases
<1>3. HeldLocks(t) = {k \in Locks : guard.closures[k].threadId = t /\ ~guard.closures[k].released}
  BY GuardAssumption DEF HeldLocks, GuardInv, LocksAgree
<1>4. CASE s = None
  BY <1>0, <1>1, <1>3, <1>4
<1>5. CASE s # None
  BY <1>0, <1>1, <1>2, <1>3, <1>5
<1> QED BY <1>4, <1>5

LEMMA InitRefines == GuardInit => Slot!Init
<1> SUFFICES ASSUME GuardInit PROVE Slot!Init
  OBVIOUS
<1>1. ASSUME NEW t \in Threads PROVE HeldLeases(t) \union HeldLocks(t) = {}
  BY GuardAssumption DEF HeldLeases, HeldLocks, Given, GuardInit, NewGuard, Leases
<1> QED BY <1>1 DEF Slot!Init, GuardInit

\* The refinement mapping of a step that changes what is held of one thread.
LEMMA HoldingStep ==
    ASSUME NEW t \in Threads, NEW S,
           \A u \in Threads : Held(u)' = IF u = t THEN S ELSE Held(u)
    PROVE  [u \in Threads |-> HeldLeases(u) \union HeldLocks(u)]'
               = [[u \in Threads |-> HeldLeases(u) \union HeldLocks(u)] EXCEPT ![t] = S]
BY DEF Held

\* What is held of a thread changes only with the run or the closures of it.
LEMMA SameLeases ==
    ASSUME GuardInv, GuardInv', NEW u \in Threads,
           guard'.activeRuns[u] = guard.activeRuns[u],
           guard.activeRuns[u] # None =>
               guard'.states[guard.activeRuns[u]].generation
                   = guard.states[guard.activeRuns[u]].generation
    PROVE  HeldLeases(u)' = HeldLeases(u)
<1>1. HeldLeases(u) = IF guard.activeRuns[u] = None THEN {} ELSE {Newest(u)}
  BY HeldIs DEF HeldAsStored
<1>2. (GuardInv => HeldAsStored)'
  BY HeldIs, PTL
<1>3. HeldLeases(u)' = IF guard'.activeRuns[u] = None THEN {} ELSE {Newest(u)'}
  BY <1>2 DEF HeldAsStored
<1>4. guard.activeRuns[u] # None => Newest(u)' = Newest(u)
  BY DEF Newest
<1> QED BY <1>1, <1>3, <1>4

LEMMA SameLocks ==
    ASSUME GuardInv, GuardInv', NEW u \in Threads,
           \A k \in Locks : guard'.closures[k].threadId = u /\ ~guard'.closures[k].released
                       <=> guard.closures[k].threadId = u /\ ~guard.closures[k].released
    PROVE  HeldLocks(u)' = HeldLocks(u)
<1>1. (GuardInv => HeldAsStored)'
  BY HeldIs, PTL
<1> QED BY <1>1, HeldIs DEF HeldAsStored

LEMMA BeginRunRefines ==
    ASSUME GuardInv, GuardInv', NEW t \in Threads, NEW s \in RunStates, BeginRun(t, s)
    PROVE  Slot!Take(t, <<s, 0>>)
<1>0. /\ guard \in Guards /\ OnlyGivenUsed /\ RunsAgree /\ LocksAgree
      /\ guard.states[s].threadId = None /\ Free(guard, t) /\ givenUp' = givenUp
      /\ t # None /\ s # None /\ HeldAsStored
  BY GuardAssumption, HeldIs DEF GuardInv, GuardTypeOK, BeginRun
<1>1. /\ guard'.activeRuns = [guard.activeRuns EXCEPT ![t] = s]
      /\ guard'.closures = guard.closures
      /\ guard'.states = [guard.states EXCEPT ![s] =
                             [threadId |-> t, generation |-> 0, active |-> TRUE]]
  BY <1>0, BegunFields DEF BeginRun
<1>2. HeldLeases(t) = {} /\ HeldLocks(t) = {}
  BY <1>0 DEF Free, LocksAgree, HeldAsStored
<1>3. (GuardInv => HeldAsStored)'
  BY HeldIs, PTL
<1>4. \A u \in Threads : HeldLocks(u)' = HeldLocks(u)
  BY <1>1, SameLocks
<1>5. HeldLeases(t)' = {<<s, 0>>}
  BY <1>0, <1>1, <1>3 DEF HeldAsStored, Newest, Guards
<1>6. \A u \in Threads : u # t => HeldLeases(u)' = HeldLeases(u)
  <2> SUFFICES ASSUME NEW u \in Threads, u # t PROVE HeldLeases(u)' = HeldLeases(u)
    OBVIOUS
  <2>1. guard'.activeRuns[u] = guard.activeRuns[u]
    BY <1>0, <1>1 DEF Guards
  <2>2. ASSUME guard.activeRuns[u] # None
        PROVE  guard'.states[guard.activeRuns[u]] = guard.states[guard.activeRuns[u]]
    <3>1. guard.activeRuns[u] \in RunStates
      BY <2>2, <1>0 DEF Guards
    <3>2. guard.activeRuns[u] # s
      BY <2>2, <1>0, GuardAssumption DEF RunsAgree
    <3> QED BY <3>1, <3>2, <1>0, <1>1 DEF Guards
  <2> QED BY <2>1, <2>2, SameLeases
<1>7. <<s, 0>> \notin givenUp
  <2>1. <<s, 0>> \in Leases
    BY GuardAssumption DEF Leases
  <2> QED BY <2>1, <1>0 DEF OnlyGivenUsed, Given
<1>8. \A u \in Threads : Held(u)' = IF u = t THEN {<<s, 0>>} ELSE Held(u)
  BY <1>2, <1>4, <1>5, <1>6 DEF Held
<1> QED BY <1>0, <1>2, <1>7, <1>8, HoldingStep DEF Slot!Take

LEMMA AcquireMutationRefines ==
    ASSUME GuardInv, GuardInv', NEW t \in Threads, NEW k \in Locks, AcquireMutation(t, k)
    PROVE  Slot!Take(t, k)
<1>0. /\ guard \in Guards /\ LocksAgree
      /\ guard.closures[k].threadId = None /\ Free(guard, t) /\ givenUp' = givenUp
      /\ t # None /\ HeldAsStored
  BY GuardAssumption, HeldIs DEF GuardInv, GuardTypeOK, AcquireMutation
<1>1. /\ guard'.activeRuns = guard.activeRuns
      /\ guard'.states = guard.states
      /\ guard'.closures = [guard.closures EXCEPT ![k] = [threadId |-> t, released |-> FALSE]]
  BY <1>0, LockedFields DEF AcquireMutation
<1>2. HeldLeases(t) = {} /\ HeldLocks(t) = {}
  BY <1>0 DEF Free, LocksAgree, HeldAsStored
<1>3. (GuardInv => HeldAsStored)'
  BY HeldIs, PTL
<1>4. \A u \in Threads : HeldLeases(u)' = HeldLeases(u)
  BY <1>1, SameLeases
<1>5. /\ guard'.closures[k] = [threadId |-> t, released |-> FALSE]
      /\ \A j \in Locks : j # k => guard'.closures[j] = guard.closures[j]
  BY <1>0, <1>1 DEF Guards
<1>6. HeldLocks(t)' = {k}
  <2>1. \A j \in Locks : guard'.closures[j].threadId = t /\ ~guard'.closures[j].released
                            <=> j = k
    BY <1>0, <1>2, <1>5 DEF HeldAsStored
  <2> QED BY <2>1, <1>3 DEF HeldAsStored
<1>7. \A u \in Threads : u # t => HeldLocks(u)' = HeldLocks(u)
  <2> SUFFICES ASSUME NEW u \in Threads, u # t PROVE HeldLocks(u)' = HeldLocks(u)
    OBVIOUS
  <2>1. \A j \in Locks : guard'.closures[j].threadId = u /\ ~guard'.closures[j].released
              <=> guard.closures[j].threadId = u /\ ~guard.closures[j].released
    BY <1>0, <1>5, GuardAssumption
  <2> QED BY <2>1, SameLocks
<1>8. \A u \in Threads : Held(u)' = IF u = t THEN {k} ELSE Held(u)
  BY <1>2, <1>4, <1>6, <1>7 DEF Held
<1> QED BY <1>0, <1>2, <1>8, HoldingStep DEF Slot!Take, LocksAgree

LEMMA ReleaseMutationRefines ==
    ASSUME GuardInv, GuardInv', NEW k \in Locks, ReleaseMutation(k)
    PROVE  UNCHANGED guardVars \/ \E t \in Threads : Slot!GiveUp(t, k)
<1>t. PICK t \in Threads : t = guard.closures[k].threadId
  BY DEF GuardInv, GuardTypeOK, ReleaseMutation, Guards
<1>0. /\ guard \in Guards /\ LocksAgree /\ HeldAsStored
      /\ t = guard.closures[k].threadId /\ t # None
      /\ guard' = Unlocked(guard, k) /\ givenUp' = givenUp \union {k}
  BY <1>t, HeldIs DEF GuardInv, GuardTypeOK, ReleaseMutation
<1>1. CASE guard.closures[k].released
  BY <1>0, <1>1 DEF Unlocked, LocksAgree, guardVars
<1>2. CASE ~guard.closures[k].released
  <2>1. /\ guard'.activeRuns = guard.activeRuns
        /\ guard'.states = guard.states
        /\ guard'.closures = [guard.closures EXCEPT ![k].released = TRUE]
    BY <1>0, <1>2, UnlockedFields
  <2>2. (GuardInv => HeldAsStored)'
    BY HeldIs, PTL
  <2>3. \A u \in Threads : HeldLeases(u)' = HeldLeases(u)
    BY <2>1, SameLeases
  <2>4. HeldLeases(t) = {}
    BY <1>0, <1>2 DEF HeldAsStored, LocksAgree
  <2>5. HeldLocks(t) = {k}
    <3>1. \A j \in Locks : guard.closures[j].threadId = t /\ ~guard.closures[j].released
                              <=> j = k
      BY <1>0, <1>2 DEF LocksAgree
    <3> QED BY <3>1, <1>0 DEF HeldAsStored
  <2>6. /\ guard'.closures[k].released
        /\ \A j \in Locks : j # k => guard'.closures[j] = guard.closures[j]
    BY <1>0, <2>1 DEF Guards
  <2>7. HeldLocks(t)' = {}
    <3>1. \A j \in Locks : ~(guard'.closures[j].threadId = t /\ ~guard'.closures[j].released)
      BY <1>0, <1>2, <2>6 DEF LocksAgree
    <3> QED BY <3>1, <1>0, <2>2 DEF HeldAsStored
  <2>8. \A u \in Threads : u # t => HeldLocks(u)' = HeldLocks(u)
    <3> SUFFICES ASSUME NEW u \in Threads, u # t PROVE HeldLocks(u)' = HeldLocks(u)
      OBVIOUS
    <3>1. \A j \in Locks : guard'.closures[j].threadId = u /\ ~guard'.closures[j].released
                <=> guard.closures[j].threadId = u /\ ~guard.closures[j].released
      BY <1>0, <2>6
    <3> QED BY <3>1, SameLocks
  <2>9. \A u \in Threads : Held(u)' = IF u = t THEN {} ELSE Held(u)
    BY <2>3, <2>4, <2>7, <2>8 DEF Held
  <2> QED BY <1>0, <2>4, <2>5, <2>9, HoldingStep DEF Slot!GiveUp
<1> QED BY <1>1, <1>2

LEMMA ReleaseRefines ==
    ASSUME GuardInv, GuardInv', NEW l \in Leases, Release(l)
    PROVE  UNCHANGED guardVars \/ \E t \in Threads : Slot!GiveUp(t, l)
<1>t. PICK t \in Threads : t = guard.states[l[1]].threadId
  BY StaleOrHeld DEF Release
<1>0. /\ guard \in Guards /\ RunsAgree /\ LocksAgree /\ HeldAsStored
      /\ guard' = Released(guard, l) /\ givenUp' = givenUp \union {l}
      /\ l[1] \in RunStates /\ l[1] # None /\ t # None
      /\ l \in givenUp => ~Current(guard, l)
      /\ l \notin givenUp => Current(guard, l) /\ guard.activeRuns[t] = l[1]
  BY <1>t, HeldIs, StaleOrHeld, GuardAssumption DEF GuardInv, GuardTypeOK, Release
<1>1. CASE l \in givenUp
  BY <1>0, <1>1 DEF Released, guardVars
<1>2. CASE l \notin givenUp
  <2>1. /\ guard'.activeRuns = [guard.activeRuns EXCEPT ![t] = None]
        /\ guard'.closures = guard.closures
        /\ guard'.states = [guard.states EXCEPT ![l[1]].active = FALSE]
    BY <1>t, <1>0, <1>2, ReleasedFields
  <2>2. \A u \in Threads : HeldLocks(u)' = HeldLocks(u)
    BY <2>1, SameLocks
  <2>3. HeldLocks(t) = {}
    BY <1>0, <1>2 DEF HeldAsStored, LocksAgree
  <2>4. HeldLeases(t) = {l}
    <3>1. Newest(t) = l
      BY <1>0, <1>2 DEF Newest, Current, Leases
    <3> QED BY <3>1, <1>0, <1>2 DEF HeldAsStored
  <2>5. HeldLeases(t)' = {}
    <3>1. (GuardInv => HeldAsStored)'
      BY HeldIs, PTL
    <3> QED BY <3>1, <1>0, <2>1 DEF HeldAsStored, Guards
  <2>6. \A u \in Threads : u # t => HeldLeases(u)' = HeldLeases(u)
    <3> SUFFICES ASSUME NEW u \in Threads, u # t PROVE HeldLeases(u)' = HeldLeases(u)
      OBVIOUS
    <3>1. guard'.activeRuns[u] = guard.activeRuns[u]
      BY <1>0, <2>1 DEF Guards
    <3>2. ASSUME guard.activeRuns[u] # None
          PROVE  guard'.states[guard.activeRuns[u]].generation
                     = guard.states[guard.activeRuns[u]].generation
      <4>1. guard.activeRuns[u] \in RunStates
        BY <3>2, <1>0 DEF Guards
      <4> QED BY <4>1, <1>0, <2>1 DEF Guards
    <3> QED BY <3>1, <3>2, SameLeases
  <2>7. \A u \in Threads : Held(u)' = IF u = t THEN {} ELSE Held(u)
    BY <2>2, <2>3, <2>5, <2>6 DEF Held
  <2> QED BY <1>0, <2>3, <2>4, <2>7, HoldingStep DEF Slot!GiveUp
<1> QED BY <1>1, <1>2

LEMMA TransferRefines ==
    ASSUME GuardInv, GuardInv', NEW l \in Leases, Transfer(l)
    PROVE  \/ UNCHANGED guardVars
           \/ \E t \in Threads : Slot!HandOver(t, l, NextLease(l)) /\ NextLease(l) \in Leases
<1>t. PICK t \in Threads : t = guard.states[l[1]].threadId
  BY StaleOrHeld DEF Transfer
<1>0. /\ guard \in Guards /\ RunsAgree /\ LocksAgree /\ HeldAsStored /\ OnlyGivenUsed
      /\ givenUp' = givenUp \union {l}
      /\ l[1] \in RunStates /\ l[1] # None /\ t # None /\ l[2] \in Nat
      /\ l \in givenUp => ~Current(guard, l)
      /\ l \notin givenUp => Current(guard, l) /\ guard.activeRuns[t] = l[1]
  BY <1>t, HeldIs, StaleOrHeld, GuardAssumption DEF GuardInv, GuardTypeOK, Transfer
<1>1. CASE l \in givenUp
  BY <1>0, <1>1 DEF Transfer, guardVars
<1>2. CASE l \notin givenUp
  <2>0. guard.states[l[1]].generation < MaxGeneration /\ guard' = Transferred(guard, l)
    BY <1>0, <1>2 DEF Transfer
  <2>1. /\ guard'.activeRuns = guard.activeRuns
        /\ guard'.closures = guard.closures
        /\ guard'.states = [guard.states EXCEPT ![l[1]].generation = @ + 1]
    BY <1>0, <2>0, TransferredFields
  <2>2. \A u \in Threads : HeldLocks(u)' = HeldLocks(u)
    BY <2>1, SameLocks
  <2>3. HeldLocks(t) = {}
    BY <1>0, <1>2 DEF HeldAsStored, LocksAgree
  <2>4. HeldLeases(t) = {l}
    <3>1. Newest(t) = l
      BY <1>0, <1>2 DEF Newest, Current, Leases
    <3> QED BY <3>1, <1>0, <1>2 DEF HeldAsStored
  <2>5. NextLease(l) \in Leases /\ NextLease(l) \notin givenUp /\ NextLease(l) # l
    <3>1. NextLease(l) \in Leases
      BY <1>0, <1>2, <2>0, GuardAssumption DEF NextLease, Leases, Current
    <3>2. ~Given(NextLease(l))
      BY <1>0, <1>2 DEF NextLease, Given, Current
    <3>3. NextLease(l) # l
      BY <1>0 DEF NextLease, Leases
    <3> QED BY <3>1, <3>2, <3>3, <1>0 DEF OnlyGivenUsed
  <2>6. HeldLeases(t)' = {NextLease(l)}
    <3>1. (GuardInv => HeldAsStored)'
      BY HeldIs, PTL
    <3>2. Newest(t)' = NextLease(l)
      BY <1>0, <1>2, <2>1 DEF Newest, NextLease, Current, Guards
    <3> QED BY <3>1, <3>2, <1>0, <1>2, <2>1 DEF HeldAsStored
  <2>7. \A u \in Threads : u # t => HeldLeases(u)' = HeldLeases(u)
    <3> SUFFICES ASSUME NEW u \in Threads, u # t PROVE HeldLeases(u)' = HeldLeases(u)
      OBVIOUS
    <3>1. guard.activeRuns[u] # l[1]
      BY <1>t, <1>0 DEF RunsAgree
    <3>2. ASSUME guard.activeRuns[u] # None
          PROVE  guard'.states[guard.activeRuns[u]] = guard.states[guard.activeRuns[u]]
      <4>1. guard.activeRuns[u] \in RunStates
        BY <3>2, <1>0 DEF Guards
      <4> QED BY <4>1, <3>1, <1>0, <2>1 DEF Guards
    <3> QED BY <2>1, <3>2, SameLeases
  <2>8. \A u \in Threads : Held(u)' = IF u = t THEN {NextLease(l)} ELSE Held(u)
    BY <2>2, <2>3, <2>6, <2>7 DEF Held
  <2> QED BY <1>0, <2>3, <2>4, <2>5, <2>8, HoldingStep DEF Slot!HandOver
<1> QED BY <1>1, <1>2

LEMMA StepRefines ==
    GuardInv /\ GuardInv' /\ [GuardNext]_guardVars => [Slot!Next]_Slot!slotVars
<1> SUFFICES ASSUME GuardInv, GuardInv', [GuardNext]_guardVars
             PROVE  [Slot!Next]_Slot!slotVars
  OBVIOUS
<1>1. ASSUME NEW t \in Threads, NEW s \in RunStates, BeginRun(t, s)
      PROVE  Slot!Next
  <2>1. <<s, 0>> \in Leases
    BY GuardAssumption DEF Leases
  <2> QED BY <1>1, <2>1, BeginRunRefines DEF Slot!Next
<1>2. ASSUME NEW t \in Threads, NEW k \in Locks, AcquireMutation(t, k)
      PROVE  Slot!Next
  BY <1>2, AcquireMutationRefines DEF Slot!Next
<1>3. ASSUME UNCHANGED guardVars PROVE UNCHANGED Slot!slotVars
  BY <1>3 DEF guardVars, Slot!slotVars, HeldLeases, HeldLocks, Given
<1>4. ASSUME NEW k \in Locks, ReleaseMutation(k)
      PROVE  Slot!Next \/ UNCHANGED guardVars
  BY <1>4, ReleaseMutationRefines DEF Slot!Next
<1>5. ASSUME NEW l \in Leases, Release(l)
      PROVE  Slot!Next \/ UNCHANGED guardVars
  BY <1>5, ReleaseRefines DEF Slot!Next
<1>6. ASSUME NEW l \in Leases, Transfer(l)
      PROVE  Slot!Next \/ UNCHANGED guardVars
  BY <1>6, TransferRefines DEF Slot!Next
<1> QED BY <1>1, <1>2, <1>3, <1>4, <1>5, <1>6 DEF GuardNext

\* Per thread the guard is one exclusive slot: begun and acquired only while it
\* is free, and free or handed over only at the word of its holder.
THEOREM GuardImplementsSlot == GuardSpec => ImplementsSlot
<1> QED BY InitRefines, GuardInvAlways, StepRefines, PTL DEF GuardSpec, ImplementsSlot, Slot!Spec

=============================================================================
