------------------------- MODULE ThreadLease_proofs -------------------------
(***************************************************************************)
(* Lemmas about the methods of a ThreadLifecycleGuard: what each of them   *)
(* does to the fields of a guard, and what it does to the agreement of a   *)
(* guard with those who hold its leases (SlotsAgree).  Both the guard's    *)
(* own proofs and those about its lanes rest on them.                      *)
(***************************************************************************)
EXTENDS ThreadLease, TLAPS

\* What each method does to the fields of a guard.
State    == [threadId : Threads \union {None},
             generation : 0 .. MaxGeneration, active : BOOLEAN]
States   == [RunStates -> State]
Closures == [Locks -> [threadId : Threads \union {None}, released : BOOLEAN]]

LEMMA BegunFields ==
    ASSUME NEW g \in Guards, NEW t \in Threads, NEW s \in RunStates
    PROVE  /\ Begun(g, t, s) \in Guards
           /\ Begun(g, t, s).activeRuns = [g.activeRuns EXCEPT ![t] = s]
           /\ Begun(g, t, s).mutations = g.mutations
           /\ Begun(g, t, s).closures = g.closures
           /\ Begun(g, t, s).states =
                 [g.states EXCEPT ![s] = [threadId |-> t, generation |-> 0, active |-> TRUE]]
<1> DEFINE st == [g.states EXCEPT ![s] = [threadId |-> t, generation |-> 0, active |-> TRUE]]
           ar == [g.activeRuns EXCEPT ![t] = s]
<1>1. st \in States /\ ar \in [Threads -> RunStates \union {None}]
  BY GuardAssumption DEF Guards, States, State
<1>2. Begun(g, t, s) = [[g EXCEPT !.states = st] EXCEPT !.activeRuns = ar]
  BY DEF Begun, Guards
<1>3. [g EXCEPT !.states = st] \in Guards
  BY <1>1 DEF Guards, States, State
<1>4. Begun(g, t, s) \in Guards
  BY <1>1, <1>2, <1>3 DEF Guards
<1> QED BY <1>4 DEF Begun, Guards

LEMMA LockedFields ==
    ASSUME NEW g \in Guards, NEW t \in Threads, NEW k \in Locks
    PROVE  /\ Locked(g, t, k) \in Guards
           /\ Locked(g, t, k).activeRuns = g.activeRuns
           /\ Locked(g, t, k).mutations = g.mutations \union {t}
           /\ Locked(g, t, k).states = g.states
           /\ Locked(g, t, k).closures =
                 [g.closures EXCEPT ![k] = [threadId |-> t, released |-> FALSE]]
<1> DEFINE cl == [g.closures EXCEPT ![k] = [threadId |-> t, released |-> FALSE]]
           mu == g.mutations \union {t}
<1>1. cl \in Closures /\ mu \in SUBSET Threads
  BY DEF Guards, Closures
<1>2. Locked(g, t, k) = [[g EXCEPT !.mutations = mu] EXCEPT !.closures = cl]
  BY DEF Locked, Guards
<1>3. [g EXCEPT !.mutations = mu] \in Guards
  BY <1>1 DEF Guards
<1>4. Locked(g, t, k) \in Guards
  BY <1>1, <1>2, <1>3 DEF Guards, Closures
<1> QED BY <1>4 DEF Locked, Guards

LEMMA UnlockedFields ==
    ASSUME NEW g \in Guards, NEW k \in Locks, ~g.closures[k].released
    PROVE  /\ Unlocked(g, k) \in Guards
           /\ Unlocked(g, k).activeRuns = g.activeRuns
           /\ Unlocked(g, k).mutations = g.mutations \ {g.closures[k].threadId}
           /\ Unlocked(g, k).states = g.states
           /\ Unlocked(g, k).closures = [g.closures EXCEPT ![k].released = TRUE]
<1> DEFINE cl == [g.closures EXCEPT ![k].released = TRUE]
           mu == g.mutations \ {g.closures[k].threadId}
<1>1. cl \in Closures /\ mu \in SUBSET Threads
  BY DEF Guards, Closures
<1>2. Unlocked(g, k) = [[g EXCEPT !.closures = cl] EXCEPT !.mutations = mu]
  <2>1. Unlocked(g, k) = [g EXCEPT !.closures[k].released = TRUE,
                                   !.mutations = @ \ {g.closures[k].threadId}]
    BY Zenon DEF Unlocked
  <2>2. [g EXCEPT !.closures = cl].mutations = g.mutations
    BY DEF Guards
  <2> QED BY <2>1, <2>2 DEF Guards
<1>3. [g EXCEPT !.closures = cl] \in Guards
  BY <1>1 DEF Guards, Closures
<1>4. Unlocked(g, k) \in Guards
  BY <1>1, <1>2, <1>3 DEF Guards
<1> QED BY <1>4 DEF Unlocked, Guards

LEMMA ReleasedFields ==
    ASSUME NEW g \in Guards, NEW l \in Leases, Current(g, l),
           NEW t \in Threads, t = g.states[l[1]].threadId, g.activeRuns[t] = l[1]
    PROVE  /\ Released(g, l) \in Guards
           /\ Released(g, l).activeRuns = [g.activeRuns EXCEPT ![t] = None]
           /\ Released(g, l).mutations = g.mutations
           /\ Released(g, l).closures = g.closures
           /\ Released(g, l).states = [g.states EXCEPT ![l[1]].active = FALSE]
<1> DEFINE st == [g.states EXCEPT ![l[1]].active = FALSE]
           ar == [g.activeRuns EXCEPT ![t] = None]
<1>0. l[1] \in RunStates
  BY DEF Leases
<1>1. st \in States /\ ar \in [Threads -> RunStates \union {None}]
  <2>1. g.states \in States
    BY DEF Guards, States, State
  <2>2. [g.states[l[1]] EXCEPT !.active = FALSE] \in State
    BY <1>0, <2>1 DEF States, State
  <2>3. st \in States
    BY <2>1, <2>2 DEF States
  <2>4. ar \in [Threads -> RunStates \union {None}]
    BY DEF Guards
  <2> QED BY <2>3, <2>4
<1>2. Released(g, l) = [[g EXCEPT !.states = st] EXCEPT !.activeRuns = ar]
  BY DEF Released, Guards, Leases
<1>3. [g EXCEPT !.states = st] \in Guards
  BY <1>1 DEF Guards, States, State
<1>4. [[g EXCEPT !.states = st] EXCEPT !.activeRuns = ar] \in Guards
  BY <1>1, <1>3 DEF Guards
<1> QED BY <1>2, <1>4 DEF Guards

LEMMA TransferredFields ==
    ASSUME NEW g \in Guards, NEW l \in Leases,
           g.states[l[1]].generation < MaxGeneration
    PROVE  /\ Transferred(g, l) \in Guards
           /\ Transferred(g, l).activeRuns = g.activeRuns
           /\ Transferred(g, l).mutations = g.mutations
           /\ Transferred(g, l).closures = g.closures
           /\ Transferred(g, l).states = [g.states EXCEPT ![l[1]].generation = @ + 1]
<1> DEFINE st == [g.states EXCEPT ![l[1]].generation = @ + 1]
<1>0. l[1] \in RunStates
  BY DEF Leases
<1>1. st \in States
  <2>1. g.states \in States
    BY DEF Guards, States, State
  <2>2. [g.states[l[1]] EXCEPT !.generation = @ + 1] \in State
    BY <1>0, <2>1, GuardAssumption DEF States, State
  <2> QED BY <2>1, <2>2 DEF States
<1>2. Transferred(g, l) = [g EXCEPT !.states = st]
  BY DEF Transferred, Guards
<1> QED BY <1>1, <1>2 DEF Guards, States, State

-----------------------------------------------------------------------------
\* A guard agrees with the holders H of its leases, each of them a record with
\* the thread it holds and the lease it holds it by: its two maps describe the
\* same active runs, each active run is held by its newest lease, every holder
\* has a good lease of its own thread, and no thread has two holders.
MapsAgree(g) ==
    /\ \A t \in Threads : g.activeRuns[t] # None =>
          /\ t \notin g.mutations
          /\ g.states[g.activeRuns[t]].active
          /\ g.states[g.activeRuns[t]].threadId = t
    /\ \A s \in RunStates : g.states[s].active =>
          /\ g.states[s].threadId \in Threads
          /\ g.activeRuns[g.states[s].threadId] = s

HoldersGood(g, H) ==
    \A h \in H : /\ h.lease \in Leases
                 /\ Current(g, h.lease)
                 /\ g.states[h.lease[1]].threadId = h.thread

ActiveHeld(g, H) ==
    \A s \in RunStates : g.states[s].active =>
        \E h \in H : h.lease = <<s, g.states[s].generation>>

OnePerThread(H) == \A h, i \in H : h.thread = i.thread => h = i

SlotsAgree(g, H) ==
    MapsAgree(g) /\ HoldersGood(g, H) /\ ActiveHeld(g, H) /\ OnePerThread(H)

\* A holder's thread is mapped to the run state of its lease; a free thread has
\* no holder.
LEMMA HolderMapped ==
    ASSUME NEW g \in Guards, NEW H, SlotsAgree(g, H), NEW h \in H
    PROVE  /\ h.lease[1] \in RunStates /\ h.lease[2] \in Nat
           /\ h.lease[2] = g.states[h.lease[1]].generation
           /\ h.thread \in Threads
           /\ g.activeRuns[h.thread] = h.lease[1]
           /\ ~Free(g, h.thread)
<1>1. /\ h.lease[1] \in RunStates /\ h.lease[2] \in Nat
      /\ Current(g, h.lease) /\ g.states[h.lease[1]].threadId = h.thread
  BY GuardAssumption DEF SlotsAgree, HoldersGood, Leases
<1>2. h.thread \in Threads /\ g.activeRuns[h.thread] = h.lease[1]
  BY <1>1 DEF SlotsAgree, MapsAgree, Current
<1>3. h.lease[1] # None
  BY <1>1, GuardAssumption
<1> QED BY <1>1, <1>2, <1>3 DEF Free, Current

LEMMA SlotsBegun ==
    ASSUME NEW g \in Guards, NEW H, SlotsAgree(g, H),
           NEW t \in Threads, NEW s \in RunStates,
           Free(g, t), g.states[s].threadId = None,
           NEW x, x.thread = t, x.lease = <<s, 0>>
    PROVE  /\ Begun(g, t, s) \in Guards
           /\ Begun(g, t, s).mutations = g.mutations
           /\ Begun(g, t, s).closures = g.closures
           /\ SlotsAgree(Begun(g, t, s), H \union {x})
<1> DEFINE b == Begun(g, t, s)
           J == H \union {x}
<1>1. /\ b \in Guards
      /\ b.activeRuns = [g.activeRuns EXCEPT ![t] = s]
      /\ b.mutations = g.mutations
      /\ b.closures = g.closures
      /\ b.states = [g.states EXCEPT ![s] = [threadId |-> t, generation |-> 0, active |-> TRUE]]
  BY BegunFields
<1>2. t \notin g.mutations /\ g.activeRuns[t] = None /\ t # None /\ s # None
  BY GuardAssumption DEF Free
<1> HIDE DEF b
<1>3. /\ b.activeRuns[t] = s
      /\ \A u \in Threads : u # t => b.activeRuns[u] = g.activeRuns[u]
      /\ b.states[s].threadId = t /\ b.states[s].generation = 0 /\ b.states[s].active
      /\ \A r \in RunStates : r # s => b.states[r] = g.states[r]
  BY <1>1 DEF Guards
<1>4. ~g.states[s].active /\ \A u \in Threads : g.activeRuns[u] # s
  BY <1>2, GuardAssumption DEF SlotsAgree, MapsAgree
<1>5. MapsAgree(b)
  <2>1. ASSUME NEW u \in Threads, b.activeRuns[u] # None
        PROVE  /\ u \notin b.mutations
               /\ b.states[b.activeRuns[u]].active
               /\ b.states[b.activeRuns[u]].threadId = u
    <3>1. CASE u = t
      BY <3>1, <1>1, <1>2, <1>3
    <3>2. CASE u # t
      <4>1. g.activeRuns[u] \in RunStates
        BY <3>2, <2>1, <1>3 DEF Guards
      <4> QED BY <4>1, <3>2, <2>1, <1>1, <1>3, <1>4 DEF SlotsAgree, MapsAgree
    <3> QED BY <3>1, <3>2
  <2>2. ASSUME NEW r \in RunStates, b.states[r].active
        PROVE  b.states[r].threadId \in Threads /\ b.activeRuns[b.states[r].threadId] = r
    <3>1. CASE r = s
      BY <3>1, <1>3
    <3>2. CASE r # s
      <4>1. g.states[r].threadId \in Threads /\ g.activeRuns[g.states[r].threadId] = r
        BY <3>2, <2>2, <1>3 DEF SlotsAgree, MapsAgree
      <4>2. g.states[r].threadId # t
        BY <4>1, <1>2, GuardAssumption
      <4> QED BY <4>1, <4>2, <3>2, <1>3
    <3> QED BY <3>1, <3>2
  <2> QED BY <2>1, <2>2 DEF MapsAgree
<1>6. \A h \in H : /\ h.lease \in Leases /\ h.lease[1] # s
                   /\ Current(b, h.lease) /\ b.states[h.lease[1]].threadId = h.thread
                   /\ h.thread # t
  <2> TAKE h \in H
  <2>1. /\ h.lease \in Leases /\ h.lease[1] \in RunStates
        /\ Current(g, h.lease) /\ g.states[h.lease[1]].threadId = h.thread
        /\ g.activeRuns[h.thread] = h.lease[1]
    BY HolderMapped DEF SlotsAgree, HoldersGood
  <2>2. h.lease[1] # s /\ h.lease[1] # None
    BY <2>1, <1>4, GuardAssumption DEF Current
  <2> QED BY <2>1, <2>2, <1>2, <1>3 DEF Current
<1>7. x.lease \in Leases /\ Current(b, x.lease) /\ b.states[x.lease[1]].threadId = x.thread
  BY <1>3, GuardAssumption DEF Leases, Current
<1>8. HoldersGood(b, J)
  BY <1>6, <1>7 DEF HoldersGood
<1>9. ActiveHeld(b, J)
  BY SMTT(30), <1>3 DEF ActiveHeld, SlotsAgree
<1>10. OnePerThread(J)
  BY <1>6 DEF OnePerThread, SlotsAgree
<1> QED BY <1>1, <1>5, <1>8, <1>9, <1>10 DEF SlotsAgree, b

LEMMA SlotsReleased ==
    ASSUME NEW g \in Guards, NEW H, SlotsAgree(g, H), NEW h \in H
    PROVE  /\ Released(g, h.lease) \in Guards
           /\ Released(g, h.lease).mutations = g.mutations
           /\ Released(g, h.lease).closures = g.closures
           /\ SlotsAgree(Released(g, h.lease), H \ {h})
<1> DEFINE b == Released(g, h.lease)
           s == h.lease[1]
           t == h.thread
           J == H \ {h}
<1>1. /\ s \in RunStates /\ t \in Threads /\ s # None
      /\ h.lease \in Leases /\ Current(g, h.lease)
      /\ g.states[s].threadId = t /\ g.activeRuns[t] = s
  BY HolderMapped, GuardAssumption DEF SlotsAgree, HoldersGood
<1>2. /\ b \in Guards
      /\ b.activeRuns = [g.activeRuns EXCEPT ![t] = None]
      /\ b.mutations = g.mutations
      /\ b.closures = g.closures
      /\ b.states = [g.states EXCEPT ![s].active = FALSE]
  BY <1>1, ReleasedFields
<1> HIDE DEF b, s, t
<1>3. /\ b.activeRuns[t] = None
      /\ \A u \in Threads : u # t => b.activeRuns[u] = g.activeRuns[u]
      /\ ~b.states[s].active
      /\ \A r \in RunStates : r # s => b.states[r] = g.states[r]
  BY <1>1, <1>2 DEF Guards
<1>4. MapsAgree(b)
  <2>1. ASSUME NEW u \in Threads, b.activeRuns[u] # None
        PROVE  /\ u \notin b.mutations
               /\ b.states[b.activeRuns[u]].active
               /\ b.states[b.activeRuns[u]].threadId = u
    <3>1. u # t /\ g.activeRuns[u] # None /\ g.activeRuns[u] \in RunStates
      BY <2>1, <1>3 DEF Guards
    <3>2. /\ u \notin g.mutations
          /\ g.states[g.activeRuns[u]].active
          /\ g.states[g.activeRuns[u]].threadId = u
      BY <3>1 DEF SlotsAgree, MapsAgree
    <3>3. g.activeRuns[u] # s
      BY <3>1, <3>2, <1>1
    <3> QED BY <3>1, <3>2, <3>3, <1>2, <1>3
  <2>2. ASSUME NEW r \in RunStates, b.states[r].active
        PROVE  b.states[r].threadId \in Threads /\ b.activeRuns[b.states[r].threadId] = r
    BY <2>2, <1>1, <1>3 DEF SlotsAgree, MapsAgree
  <2> QED BY <2>1, <2>2 DEF MapsAgree
<1>5. \A i \in J : i.lease[1] # s /\ i.lease[1] \in RunStates
  <2> TAKE i \in J
  <2>1. i.lease[1] \in RunStates /\ g.activeRuns[i.thread] = i.lease[1]
        /\ g.states[i.lease[1]].threadId = i.thread
    BY HolderMapped DEF SlotsAgree, HoldersGood
  <2>2. i.thread # t
    BY DEF SlotsAgree, OnePerThread, t
  <2> QED BY <2>1, <2>2, <1>1
<1>6. HoldersGood(b, J)
  BY <1>3, <1>5 DEF SlotsAgree, HoldersGood, Current
<1>7. ActiveHeld(b, J)
  <2> SUFFICES ASSUME NEW r \in RunStates, b.states[r].active
               PROVE  \E i \in J : i.lease = <<r, b.states[r].generation>>
    BY DEF ActiveHeld
  <2>1. r # s /\ b.states[r] = g.states[r]
    BY <1>3
  <2>2. PICK i \in H : i.lease = <<r, g.states[r].generation>>
    BY <2>1 DEF SlotsAgree, ActiveHeld
  <2>3. i # h
    BY <2>1, <2>2 DEF s
  <2> QED BY <2>1, <2>2, <2>3
<1>8. OnePerThread(J)
  BY DEF SlotsAgree, OnePerThread
<1> QED BY <1>2, <1>4, <1>6, <1>7, <1>8 DEF SlotsAgree, b

LEMMA SlotsTransferred ==
    ASSUME NEW g \in Guards, NEW H, SlotsAgree(g, H), NEW h \in H,
           h.lease[2] < MaxGeneration,
           NEW x, x.thread = h.thread, x.lease = NextLease(h.lease)
    PROVE  /\ Transferred(g, h.lease) \in Guards
           /\ Transferred(g, h.lease).mutations = g.mutations
           /\ Transferred(g, h.lease).closures = g.closures
           /\ SlotsAgree(Transferred(g, h.lease), (H \ {h}) \union {x})
<1> DEFINE b == Transferred(g, h.lease)
           s == h.lease[1]
           n == h.lease[2]
           J == (H \ {h}) \union {x}
<1>1. /\ s \in RunStates /\ h.thread \in Threads /\ n \in Nat
      /\ h.lease \in Leases /\ Current(g, h.lease) /\ g.states[s].generation = n
      /\ g.states[s].threadId = h.thread /\ g.activeRuns[h.thread] = s
  BY HolderMapped, GuardAssumption DEF SlotsAgree, HoldersGood
<1>2. /\ b \in Guards
      /\ b.activeRuns = g.activeRuns
      /\ b.mutations = g.mutations
      /\ b.closures = g.closures
      /\ b.states = [g.states EXCEPT ![s].generation = @ + 1]
  BY <1>1, TransferredFields
<1>x. x.lease = <<s, n + 1>>
  BY DEF NextLease
<1>0. n < MaxGeneration
  OBVIOUS
<1> HIDE DEF b, s, n
<1>3. /\ b.states[s].generation = n + 1 /\ b.states[s].active /\ b.states[s].threadId = h.thread
      /\ \A r \in RunStates : /\ r # s => b.states[r] = g.states[r]
                               /\ b.states[r].active = g.states[r].active
                               /\ b.states[r].threadId = g.states[r].threadId
  <2>1. g.states[s].active
    BY <1>1 DEF Current, s
  <2> QED BY <2>1, <1>1, <1>2 DEF Guards
<1>4. MapsAgree(b)
  BY <1>1, <1>2, <1>3 DEF MapsAgree, SlotsAgree, Guards
<1>5. \A i \in H \ {h} : i.lease[1] # s /\ i.lease[1] \in RunStates
  <2> TAKE i \in H \ {h}
  <2>1. i.lease[1] \in RunStates /\ g.states[i.lease[1]].threadId = i.thread
    BY HolderMapped DEF SlotsAgree, HoldersGood
  <2>2. i.thread # h.thread
    BY DEF SlotsAgree, OnePerThread
  <2> QED BY <2>1, <2>2, <1>1
<1>6. HoldersGood(b, J)
  <2>1. \A i \in H \ {h} : /\ i.lease \in Leases /\ Current(b, i.lease)
                           /\ b.states[i.lease[1]].threadId = i.thread
    BY <1>3, <1>5 DEF SlotsAgree, HoldersGood, Current
  <2>2. x.lease \in Leases
    BY <1>x, <1>0, <1>1, GuardAssumption DEF Leases
  <2>3. Current(b, x.lease) /\ b.states[x.lease[1]].threadId = x.thread
    BY <1>x, <1>3 DEF Current
  <2> QED BY <2>1, <2>2, <2>3 DEF HoldersGood
<1>7. ActiveHeld(b, J)
  <2> SUFFICES ASSUME NEW r \in RunStates, b.states[r].active
               PROVE  \E i \in J : i.lease = <<r, b.states[r].generation>>
    BY DEF ActiveHeld
  <2>1. CASE r = s
    BY <2>1, <1>3, <1>x
  <2>2. CASE r # s
    <3>1. b.states[r] = g.states[r]
      BY <2>2, <1>3
    <3>2. PICK i \in H : i.lease = <<r, g.states[r].generation>>
      BY <3>1 DEF SlotsAgree, ActiveHeld
    <3>3. i # h
      BY <2>2, <3>2 DEF s
    <3> QED BY <3>1, <3>2, <3>3
  <2> QED BY <2>1, <2>2
<1>8. OnePerThread(J)
  BY DEF SlotsAgree, OnePerThread
<1> QED BY <1>2, <1>4, <1>6, <1>7, <1>8 DEF SlotsAgree, b

LEMMA SlotsLocked ==
    ASSUME NEW g \in Guards, NEW H, SlotsAgree(g, H),
           NEW t \in Threads, NEW k \in Locks, Free(g, t)
    PROVE  SlotsAgree(Locked(g, t, k), H)
<1> DEFINE b == Locked(g, t, k)
<1>1. /\ b.activeRuns = g.activeRuns
      /\ b.mutations = g.mutations \union {t}
      /\ b.states = g.states
      /\ g.activeRuns[t] = None
  <2>1. g.activeRuns[t] = None
    BY DEF Free
  <2> HIDE DEF b
  <2>2. /\ b.activeRuns = g.activeRuns
        /\ b.mutations = g.mutations \union {t}
        /\ b.states = g.states
    BY LockedFields, ZenonT(60) DEF b
  <2> QED BY <2>1, <2>2
<1> HIDE DEF b
<1> QED BY <1>1 DEF SlotsAgree, MapsAgree, HoldersGood, ActiveHeld, Current, b

LEMMA SlotsUnlocked ==
    ASSUME NEW g \in Guards, NEW H, SlotsAgree(g, H),
           NEW k \in Locks, ~g.closures[k].released
    PROVE  SlotsAgree(Unlocked(g, k), H)
<1> DEFINE b == Unlocked(g, k)
<1>1. /\ b.activeRuns = g.activeRuns
      /\ b.mutations = g.mutations \ {g.closures[k].threadId}
      /\ b.states = g.states
  BY UnlockedFields
<1> HIDE DEF b
<1> QED BY <1>1 DEF SlotsAgree, MapsAgree, HoldersGood, ActiveHeld, Current, b

=============================================================================
