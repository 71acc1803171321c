----------------------- MODULE ThreadOwnership_proofs -----------------------
(***************************************************************************)
(* Proofs about ThreadOwnership, for any threads, run states, locks, turns *)
(* and Missions.                                                           *)
(*                                                                         *)
(* OneRootPerThread is not inductive.  That the guard lets one root in is  *)
(* its own doing (SlotsAgree of ThreadLease_proofs); that the root is the  *)
(* one at work is the lanes': every path that gives up a turn or a Mission *)
(* must give up the very lease it holds, and a Loop's Mission must be the  *)
(* one its turn is waiting for.  LanesInv says how the records of turns,   *)
(* Missions and mutations fit the guard and each other.                    *)
(***************************************************************************)
EXTENDS ThreadOwnership, ThreadLease_proofs, FiniteSetTheorems

Turn ==
    [pc : TurnAwaits \union {"absent", "done"}, thread : Threads \union {None},
     loop : BOOLEAN, fromLoop : BOOLEAN, stopped : BOOLEAN, reattached : BOOLEAN,
     connected : BOOLEAN, settlement : BOOLEAN, lease : Leases \union {NoLease},
     mission : Missions \union {None}, persisted : BOOLEAN, pending : BOOLEAN,
     executed : BOOLEAN, retry : RetryKinds]

Entry ==
    [pc : MissionAwaits \union {"none", "ready", "over"}, thread : Threads \union {None},
     lease : Leases \union {NoLease}, aborted : BOOLEAN, caller : Runs \union {None}]

\* A turn that conversations maps its thread to.
Registered(rec) == rec.pc = "starting" \/ (rec.lease # NoLease /\ rec.pc # "hydrate")

\* What the record of a turn says of itself.  A turn at work holds a lease, but
\* for one whose Mission is being launched; only a Loop has a Mission.
LeaseFits(rec) ==
    /\ rec.lease # NoLease => rec.lease[2] = 0
    /\ rec.pc \in {"absent", "starting", "tail", "done"} => rec.lease = NoLease
    /\ rec.pc \in TurnAwaits \ {"starting", "tail", "recover"} => rec.lease # NoLease

MissionFits(rec) ==
    /\ \/ rec.pc \in {"compensateStopped", "compensateFailed", "repersist", "starting"}
       \/ rec.pc = "persist" /\ rec.loop
       \/ rec.pending
       \/ rec.retry = "handoff"
       => rec.mission # None
    /\ rec.pc \in {"preflight", "materialize", "persist", "compensateStopped",
                   "compensateFailed"}
       => ~rec.pending /\ rec.retry # "handoff"
    /\ rec.loop \/ rec.mission # None => rec.fromLoop
    /\ rec.pc = "materialize" => rec.loop

TurnOK(rec) ==
    /\ rec.pc = "absent" => rec.thread = None /\ rec.mission = None
    /\ rec.pc # "absent" => rec.thread \in Threads
    /\ rec.pc \in {"absent", "hydrate"} => ~rec.stopped
    /\ LeaseFits(rec)
    /\ MissionFits(rec)

TurnsOK == \A r \in Runs : TurnOK(run[r])

\* The holders of the guard's leases.
TurnHolder(r, rec) == [lane |-> "turn", who |-> r, thread |-> rec.thread, lease |-> rec.lease]
MissionHolder(m, e) == [lane |-> "mission", who |-> m, thread |-> e.thread, lease |-> e.lease]

TurnHolders == {TurnHolder(r, run[r]) : r \in {x \in Runs : run[x].lease # NoLease}}
MissionHolders ==
    {MissionHolder(m, entry[m]) : m \in {x \in Missions : entry[x].lease # NoLease}}
Holders == TurnHolders \union MissionHolders

\* The mutations that are not over and the locks of the guard.
LocksAgree(g, mu) ==
    /\ \A k \in Locks :
          /\ mu[k].pc = "absent" => g.closures[k].threadId = None
          /\ mu[k].pc \in {"archive", "fresh"} =>
                ~g.closures[k].released /\ g.closures[k].threadId \in g.mutations
          /\ mu[k].pc = "fresh" => mu[k].source \in Runs
    /\ \A t \in g.mutations : \E k \in Locks :
          mu[k].pc \in {"archive", "fresh"} /\ g.closures[k].threadId = t
    /\ \A j, k \in Locks :
          /\ mu[j].pc \in {"archive", "fresh"} /\ mu[k].pc \in {"archive", "fresh"}
          /\ g.closures[j].threadId = g.closures[k].threadId
          => j = k

\* A thread is mapped to its registered turn.
ConversationsAgree ==
    /\ \A t \in Threads : conversations[t] # None => run[conversations[t]].thread = t
    /\ \A r \in Runs : run[r].pc # "absent" => (Active(r) <=> Registered(run[r]))

\* A Mission in the manager's map has a thread, and a slot once it is past its
\* first await.
EntryOK(e) ==
    /\ e.pc \in MissionAwaits => e.thread \in Threads
    /\ e.pc \notin MissionAwaits => e.lease = NoLease
    /\ e.pc \in {"runtime", "status", "looping"} => e.lease # NoLease
    /\ e.pc \in MissionAwaits /\ e.caller # None => e.lease # NoLease

\* A Mission that a turn launched: the turn waits for it until it loops, and
\* by then the turn is over; an abort request has reached it if the turn was
\* stopped.
Launched(e, m, rec) ==
    /\ rec.mission = m /\ rec.thread = e.thread
    /\ rec.pc = (IF e.pc = "looping" THEN "done" ELSE "starting")
    /\ rec.stopped => e.aborted

MissionsAgree ==
    /\ \A m \in Missions : EntryOK(entry[m])
    /\ \A m \in Missions : entry[m].pc \in MissionAwaits /\ entry[m].caller # None
                              => Launched(entry[m], m, run[entry[m].caller])
    /\ \A r \in Runs : run[r].pc = "starting" =>
          /\ entry[run[r].mission].pc \in {"load", "runtime", "status"}
          /\ entry[run[r].mission].caller = r
    /\ \A r \in Runs : run[r].mission # None =>
          /\ entry[run[r].mission].pc # "none"
          /\ entry[run[r].mission].pc \in MissionAwaits => entry[run[r].mission].caller # None
    /\ \A r, q \in Runs : run[r].mission # None /\ run[r].mission = run[q].mission
                             => run[r].thread = run[q].thread

\* Only a turn that began is being stopped.
StopsAgree == \A t \in Threads : stopping[t] # None => run[stopping[t]].pc # "absent"

LanesInv ==
    /\ OwnershipTypeOK
    /\ TurnsOK
    /\ SlotsAgree(guard, Holders)
    /\ LocksAgree(guard, mutation)
    /\ ConversationsAgree
    /\ MissionsAgree
    /\ StopsAgree

-----------------------------------------------------------------------------
LEMMA LanesInvInit == Init => LanesInv
<1> SUFFICES ASSUME Init PROVE LanesInv
  OBVIOUS
<1> USE LanesAssumption, GuardAssumption
<1>0. /\ guard = NewGuard
      /\ conversations = [t \in Threads |-> None]
      /\ run = [r \in Runs |-> Absent]
      /\ entry = [m \in Missions |-> NoMission]
      /\ mutation = [k \in Locks |-> [pc |-> "absent", source |-> None]]
      /\ stopping = [t \in Threads |-> None]
      /\ snapshot = [t \in Threads |-> "idle"]
  BY DEF Init
<1>1. OwnershipTypeOK
  <2>1. guard \in Guards
    BY <1>0 DEF NewGuard, Guards
  <2>2. Absent \in Turn
    BY DEF Absent, Turn, RetryKinds
  <2>3. NoMission \in Entry
    BY DEF NoMission, Entry
  <2>4. run \in [Runs -> Turn] /\ entry \in [Missions -> Entry]
    BY <1>0, <2>2, <2>3
  <2>5. /\ conversations \in [Threads -> Runs \union {None}]
        /\ stopping \in [Threads -> Runs \union {None}]
        /\ snapshot \in [Threads -> Phases]
    BY <1>0 DEF Phases
  <2>6. mutation \in [Locks -> [pc : {"absent", "archive", "fresh", "done"},
                                source : Runs \union {None}]]
    BY <1>0
  <2> QED BY <2>1, <2>4, <2>5, <2>6 DEF OwnershipTypeOK, Turn, Entry
<1>2. TurnsOK
  <2>1. TurnOK(Absent)
    BY DEF TurnOK, LeaseFits, MissionFits, Absent, TurnAwaits
  <2> QED BY <2>1, <1>0 DEF TurnsOK
<1>3. SlotsAgree(guard, Holders)
  <2>1. Holders = {}
    BY <1>0 DEF Holders, TurnHolders, MissionHolders, Absent, NoMission
  <2> QED BY <1>0, <2>1 DEF SlotsAgree, MapsAgree, HoldersGood, ActiveHeld, OnePerThread, NewGuard
<1>4. LocksAgree(guard, mutation)
  BY <1>0 DEF LocksAgree, NewGuard
<1>5. ConversationsAgree
  BY <1>0 DEF ConversationsAgree, Absent
<1>6. MissionsAgree
  <2>1. \A m \in Missions : EntryOK(entry[m])
    BY <1>0 DEF EntryOK, NoMission, MissionAwaits
  <2> QED BY <1>0, <2>1 DEF MissionsAgree, Absent, NoMission, MissionAwaits
<1>7. StopsAgree
  BY <1>0 DEF StopsAgree
<1> QED BY <1>1, <1>2, <1>3, <1>4, <1>5, <1>6, <1>7 DEF LanesInv

-----------------------------------------------------------------------------
\* The types, with the record sets by name.
LEMMA Types ==
    ASSUME OwnershipTypeOK
    PROVE  /\ guard \in Guards
           /\ conversations \in [Threads -> Runs \union {None}]
           /\ run \in [Runs -> Turn]
           /\ entry \in [Missions -> Entry]
           /\ mutation \in [Locks -> [pc : {"absent", "archive", "fresh", "done"},
                                      source : Runs \union {None}]]
           /\ stopping \in [Threads -> Runs \union {None}]
           /\ snapshot \in [Threads -> Phases]
  BY DEF OwnershipTypeOK, Turn, Entry

\* What a change of one turn, or of one Mission, makes of the holders.
LEMMA TurnHoldersNow ==
    ASSUME run \in [Runs -> Turn], NEW r \in Runs, NEW new, Now(r, new)
    PROVE  TurnHolders' = {h \in TurnHolders : h.who # r}
                          \union (IF new.lease = NoLease THEN {} ELSE {TurnHolder(r, new)})
<1>1. run'[r] = new /\ \A q \in Runs : q # r => run'[q] = run[q]
  BY DEF Now
<1>2. TurnHolders' = {TurnHolder(q, run'[q]) : q \in {x \in Runs : run'[x].lease # NoLease}}
  BY DEF TurnHolders
<1>3. \A q : TurnHolder(q, run[q]).who = q
  BY DEF TurnHolder
<1> QED BY <1>1, <1>2, <1>3 DEF TurnHolders

LEMMA MissionHoldersNow ==
    ASSUME entry \in [Missions -> Entry], NEW m \in Missions, NEW new,
           entry' = [entry EXCEPT ![m] = new]
    PROVE  MissionHolders' = {h \in MissionHolders : h.who # m}
                             \union (IF new.lease = NoLease THEN {} ELSE {MissionHolder(m, new)})
<1>1. entry'[m] = new /\ \A n \in Missions : n # m => entry'[n] = entry[n]
  OBVIOUS
<1>2. MissionHolders' = {MissionHolder(n, entry'[n])
                            : n \in {x \in Missions : entry'[x].lease # NoLease}}
  BY DEF MissionHolders
<1>3. \A n : MissionHolder(n, entry[n]).who = n
  BY DEF MissionHolder
<1> QED BY <1>1, <1>2, <1>3 DEF MissionHolders

\* A change of a turn that leaves its thread and its lease alone.
LEMMA SameTurnHolders ==
    ASSUME run \in [Runs -> Turn], NEW r \in Runs, NEW new, Now(r, new),
           new.lease = run[r].lease, new.thread = run[r].thread
    PROVE  TurnHolders' = TurnHolders
<1>1. TurnHolder(r, new) = TurnHolder(r, run[r])
  BY DEF TurnHolder
<1>2. \A h \in TurnHolders : h.who = r => h = TurnHolder(r, run[r]) /\ run[r].lease # NoLease
  BY DEF TurnHolders, TurnHolder
<1>3. run[r].lease # NoLease => TurnHolder(r, run[r]) \in TurnHolders
  BY DEF TurnHolders
<1>4. TurnHolder(r, run[r]).who = r
  BY DEF TurnHolder
<1> QED BY <1>1, <1>2, <1>3, <1>4, TurnHoldersNow

\* A turn that gives up its lease.
LEMMA TurnHolderLeaves ==
    ASSUME run \in [Runs -> Turn], NEW r \in Runs, NEW new, Now(r, new), new.lease = NoLease
    PROVE  TurnHolders' = TurnHolders \ {TurnHolder(r, run[r])}
<1>1. \A h \in TurnHolders : h.who = r => h = TurnHolder(r, run[r])
  BY DEF TurnHolders, TurnHolder
<1>2. TurnHolder(r, run[r]).who = r
  BY DEF TurnHolder
<1> QED BY <1>1, <1>2, TurnHoldersNow

\* A turn that had no lease gets one.
LEMMA TurnHolderJoins ==
    ASSUME run \in [Runs -> Turn], NEW r \in Runs, NEW new, Now(r, new),
           run[r].lease = NoLease, new.lease # NoLease
    PROVE  TurnHolders' = TurnHolders \union {TurnHolder(r, new)}
<1>1. \A h \in TurnHolders : h.who # r
  BY DEF TurnHolders, TurnHolder
<1> QED BY <1>1, TurnHoldersNow

LEMMA SameMissionHolders ==
    ASSUME entry \in [Missions -> Entry], NEW m \in Missions, NEW new,
           entry' = [entry EXCEPT ![m] = new],
           new.lease = entry[m].lease, new.lease = NoLease \/ new.thread = entry[m].thread
    PROVE  MissionHolders' = MissionHolders
<1>1. new.lease # NoLease => MissionHolder(m, new) = MissionHolder(m, entry[m])
  BY DEF MissionHolder
<1>2. \A h \in MissionHolders : h.who = m => h = MissionHolder(m, entry[m])
                                             /\ entry[m].lease # NoLease
  BY DEF MissionHolders, MissionHolder
<1>3. entry[m].lease # NoLease => MissionHolder(m, entry[m]) \in MissionHolders
  BY DEF MissionHolders
<1>4. MissionHolder(m, entry[m]).who = m
  BY DEF MissionHolder
<1>5. MissionHolders' = {h \in MissionHolders : h.who # m}
                        \union (IF new.lease = NoLease THEN {} ELSE {MissionHolder(m, new)})
  BY MissionHoldersNow
<1>6. new.lease = entry[m].lease
  OBVIOUS
<1>7. CASE new.lease = NoLease
  BY <1>2, <1>5, <1>6, <1>7
<1>8. CASE new.lease # NoLease
  BY <1>1, <1>2, <1>3, <1>4, <1>5, <1>6, <1>8
<1> QED BY <1>7, <1>8

LEMMA MissionHolderLeaves ==
    ASSUME entry \in [Missions -> Entry], NEW m \in Missions, NEW new,
           entry' = [entry EXCEPT ![m] = new], new.lease = NoLease
    PROVE  MissionHolders' = MissionHolders \ {MissionHolder(m, entry[m])}
<1>1. \A h \in MissionHolders : h.who = m => h = MissionHolder(m, entry[m])
  BY DEF MissionHolders, MissionHolder
<1>2. MissionHolder(m, entry[m]).who = m
  BY DEF MissionHolder
<1> QED BY ZenonT(60), <1>1, <1>2, MissionHoldersNow

LEMMA MissionHolderJoins ==
    ASSUME entry \in [Missions -> Entry], NEW m \in Missions, NEW new,
           entry' = [entry EXCEPT ![m] = new],
           entry[m].lease = NoLease, new.lease # NoLease
    PROVE  MissionHolders' = MissionHolders \union {MissionHolder(m, new)}
<1>1. \A h \in MissionHolders : h.who # m
  BY DEF MissionHolders, MissionHolder
<1> QED BY <1>1, MissionHoldersNow

\* A turn's holder and a Mission's are never the same.
LEMMA LanesApart ==
    ASSUME NEW r, NEW rec, NEW m, NEW e
    PROVE  TurnHolder(r, rec) # MissionHolder(m, e)
<1>1. TurnHolder(r, rec).lane = "turn" /\ MissionHolder(m, e).lane = "mission"
  BY DEF TurnHolder, MissionHolder
<1> QED BY <1>1

-----------------------------------------------------------------------------
(* What the invariant says of one turn or one Mission. *)

\* A turn that holds a lease.
LEMMA HoldingTurn ==
    ASSUME LanesInv, NEW r \in Runs, run[r].lease # NoLease
    PROVE  /\ TurnHolder(r, run[r]) \in Holders
           /\ run[r].thread \in Threads
           /\ run[r].lease \in Leases /\ run[r].lease[2] = 0
           /\ ~Free(guard, run[r].thread)
           /\ guard.activeRuns[run[r].thread] = run[r].lease[1]
           /\ Current(guard, run[r].lease)
<1> DEFINE h == TurnHolder(r, run[r])
<1>1. h \in Holders
  BY DEF Holders, TurnHolders
<1>2. h.thread = run[r].thread /\ h.lease = run[r].lease
  BY DEF TurnHolder
<1>3. guard \in Guards /\ SlotsAgree(guard, Holders)
  BY Types DEF LanesInv
<1>4. h.thread \in Threads /\ ~Free(guard, h.thread) /\ guard.activeRuns[h.thread] = h.lease[1]
  BY <1>1, <1>3, HolderMapped
<1>5. h.lease \in Leases /\ Current(guard, h.lease)
  BY <1>1, <1>3 DEF SlotsAgree, HoldersGood
<1>6. run[r].lease[2] = 0
  BY DEF LanesInv, TurnsOK, TurnOK, LeaseFits
<1> QED BY <1>1, <1>2, <1>4, <1>5, <1>6

LEMMA HoldingMission ==
    ASSUME LanesInv, NEW m \in Missions, entry[m].lease # NoLease
    PROVE  /\ MissionHolder(m, entry[m]) \in Holders
           /\ entry[m].thread \in Threads
           /\ entry[m].pc \in MissionAwaits
           /\ entry[m].lease \in Leases
           /\ ~Free(guard, entry[m].thread)
           /\ guard.activeRuns[entry[m].thread] = entry[m].lease[1]
           /\ Current(guard, entry[m].lease)
<1> DEFINE h == MissionHolder(m, entry[m])
<1>1. h \in Holders
  BY DEF Holders, MissionHolders
<1>2. h.thread = entry[m].thread /\ h.lease = entry[m].lease
  BY DEF MissionHolder
<1>3. guard \in Guards /\ SlotsAgree(guard, Holders)
  BY Types DEF LanesInv
<1>4. h.thread \in Threads /\ ~Free(guard, h.thread) /\ guard.activeRuns[h.thread] = h.lease[1]
  BY <1>1, <1>3, HolderMapped
<1>5. h.lease \in Leases /\ Current(guard, h.lease)
  BY <1>1, <1>3 DEF SlotsAgree, HoldersGood
<1>6. entry[m].pc \in MissionAwaits
  BY DEF LanesInv, MissionsAgree, EntryOK
<1> QED BY <1>1, <1>2, <1>4, <1>5, <1>6

\* No thread is held twice.
LEMMA HoldersDiffer ==
    ASSUME LanesInv
    PROVE  /\ \A r, q \in Runs : run[r].lease # NoLease /\ run[q].lease # NoLease
                                 /\ run[r].thread = run[q].thread => r = q
           /\ \A r \in Runs, m \in Missions :
                 run[r].lease # NoLease /\ entry[m].lease # NoLease
                 => run[r].thread # entry[m].thread
           /\ \A m, n \in Missions : entry[m].lease # NoLease /\ entry[n].lease # NoLease
                                     /\ entry[m].thread = entry[n].thread => m = n
<1>1. OnePerThread(Holders)
  BY DEF LanesInv, SlotsAgree
<1>2. \A r \in Runs : run[r].lease # NoLease => TurnHolder(r, run[r]) \in Holders
  BY DEF Holders, TurnHolders
<1>3. \A m \in Missions : entry[m].lease # NoLease => MissionHolder(m, entry[m]) \in Holders
  BY DEF Holders, MissionHolders
<1>4. \A r : TurnHolder(r, run[r]).who = r /\ TurnHolder(r, run[r]).thread = run[r].thread
  BY DEF TurnHolder
<1>5. \A m : MissionHolder(m, entry[m]).who = m
             /\ MissionHolder(m, entry[m]).thread = entry[m].thread
  BY DEF MissionHolder
<1>6. \A r, q \in Runs : run[r].lease # NoLease /\ run[q].lease # NoLease
                         /\ run[r].thread = run[q].thread => r = q
  BY <1>1, <1>2, <1>4 DEF OnePerThread
<1>7. \A r \in Runs, m \in Missions : run[r].lease # NoLease /\ entry[m].lease # NoLease
                                      => run[r].thread # entry[m].thread
  BY <1>1, <1>2, <1>3, <1>4, <1>5, LanesApart DEF OnePerThread
<1>8. \A m, n \in Missions : entry[m].lease # NoLease /\ entry[n].lease # NoLease
                             /\ entry[m].thread = entry[n].thread => m = n
  BY <1>1, <1>3, <1>5 DEF OnePerThread
<1> QED BY <1>6, <1>7, <1>8

\* The Mission of a turn whose thread is free of Missions, or held by the turn,
\* is not in the manager's map.
LEMMA MissionIdle ==
    ASSUME LanesInv, NEW r \in Runs, run[r].mission # None,
           Free(guard, run[r].thread) \/ run[r].lease # NoLease
    PROVE  /\ run[r].mission \in Missions
           /\ entry[run[r].mission].pc \in {"ready", "over"}
           /\ entry[run[r].mission].lease = NoLease
<1> DEFINE m == run[r].mission
           q == entry[m].caller
<1>1. run \in [Runs -> Turn] /\ entry \in [Missions -> Entry]
  BY Types DEF LanesInv
<1>2. m \in Missions
  BY <1>1 DEF Turn
<1>3. entry[m].pc # "none" /\ (entry[m].pc \in MissionAwaits => q # None)
  BY DEF LanesInv, MissionsAgree
<1>4. ASSUME entry[m].pc \in MissionAwaits PROVE FALSE
  <2>1. q \in Runs
    BY <1>1, <1>2, <1>3, <1>4 DEF Entry
  <2>2. run[q].mission = m /\ run[q].thread = entry[m].thread
    BY <1>2, <1>3, <1>4 DEF LanesInv, MissionsAgree, Launched
  <2>3. run[r].thread = entry[m].thread
    BY <2>1, <2>2 DEF LanesInv, MissionsAgree
  <2>4. entry[m].lease # NoLease
    BY <1>2, <1>3, <1>4 DEF LanesInv, MissionsAgree, EntryOK
  <2>5. ~Free(guard, entry[m].thread)
    BY <1>2, <2>4, HoldingMission
  <2> QED BY <1>2, <2>3, <2>4, <2>5, HoldersDiffer
<1>5. entry[m].pc \in {"ready", "over"}
  BY <1>1, <1>2, <1>3, <1>4 DEF Entry
<1>6. entry[m].lease = NoLease
  BY <1>2, <1>4 DEF LanesInv, MissionsAgree, EntryOK
<1> QED BY <1>2, <1>5, <1>6

\* A registered turn keeps its thread busy; so a free thread has no turn.
LEMMA RegisteredBusy ==
    ASSUME LanesInv, NEW t \in Threads, conversations[t] # None
    PROVE  /\ conversations[t] \in Runs
           /\ run[conversations[t]].thread = t
           /\ run[conversations[t]].pc \notin {"absent", "hydrate", "tail", "done"}
           /\ Registered(run[conversations[t]])
           /\ guard.activeRuns[t] # None
           /\ run[conversations[t]].pc = "starting" =>
                 \E m \in Missions : entry[m].lease # NoLease /\ entry[m].thread = t
<1> DEFINE r == conversations[t]
<1>1. run \in [Runs -> Turn] /\ entry \in [Missions -> Entry]
  BY Types DEF LanesInv
<1>2. r \in Runs
  BY Types DEF LanesInv
<1>3. run[r].thread = t /\ t # None
  BY GuardAssumption DEF LanesInv, ConversationsAgree
<1>4. run[r].pc # "absent"
  BY <1>2, <1>3 DEF LanesInv, TurnsOK, TurnOK
<1>5. Registered(run[r])
  BY <1>2, <1>3, <1>4 DEF LanesInv, ConversationsAgree, Active
<1>6. run[r].pc \notin {"absent", "hydrate", "tail", "done"}
  BY <1>2, <1>4, <1>5 DEF LanesInv, TurnsOK, TurnOK, LeaseFits, Registered
<1>7. CASE run[r].pc = "starting"
  <2> DEFINE m == run[r].mission
  <2>1. m # None /\ m \in Missions
    BY <1>1, <1>2, <1>7 DEF LanesInv, TurnsOK, TurnOK, MissionFits, Turn
  <2>2. entry[m].pc \in {"load", "runtime", "status"} /\ entry[m].caller = r /\ r # None
    BY <1>2, <1>7 DEF LanesInv, MissionsAgree
  <2>3. entry[m].lease # NoLease /\ entry[m].thread = t
    BY <1>3, <2>1, <2>2 DEF LanesInv, MissionsAgree, EntryOK, Launched, MissionAwaits
  <2>4. guard.activeRuns[t] # None
    BY <2>1, <2>3, HoldingMission, GuardAssumption DEF Leases
  <2> QED BY <1>2, <1>3, <1>5, <1>6, <2>1, <2>3, <2>4
<1>8. CASE run[r].pc # "starting"
  <2>1. run[r].lease # NoLease
    BY <1>5, <1>8 DEF Registered
  <2>2. guard.activeRuns[t] # None
    BY <1>2, <1>3, <2>1, HoldingTurn, GuardAssumption DEF Leases
  <2> QED BY <1>2, <1>3, <1>5, <1>6, <1>8, <2>2
<1> QED BY <1>7, <1>8

-----------------------------------------------------------------------------
(* What a step of one turn leaves true. *)

\* The turn r becomes new and goes on, or ends, on its thread.
Follows(r, new) ==
    /\ Now(r, new)
    /\ new \in Turn /\ TurnOK(new)
    /\ new.thread = run[r].thread /\ new.stopped = run[r].stopped
    /\ run[r].pc \notin {"absent", "done", "starting"}
    /\ new.pc \notin {"absent", "starting"}

\* What may happen to the turn's Mission meanwhile: nothing, its preparation, or
\* its deletion.
MissionsQuiet(r, new) ==
    \/ new.mission = run[r].mission /\ entry' = entry
    \/ /\ new.mission \in Missions /\ entry[new.mission].pc = "none"
       /\ entry' = [entry EXCEPT ![new.mission] = [NoMission EXCEPT !.pc = "ready"]]
    \/ /\ new.mission = None /\ run[r].mission \in Missions
       /\ entry[run[r].mission].pc \in {"ready", "over"}
       /\ entry' = [entry EXCEPT ![run[r].mission].pc = "over"]

LEMMA MissionsStay ==
    ASSUME LanesInv, NEW r \in Runs, NEW new, Follows(r, new), MissionsQuiet(r, new)
    PROVE  /\ entry' \in [Missions -> Entry]
           /\ MissionHolders' = MissionHolders
           /\ MissionsAgree'
<1>0. /\ run \in [Runs -> Turn] /\ entry \in [Missions -> Entry] /\ None \notin Runs
      /\ MissionsAgree /\ r # None /\ None \notin Missions
  BY Types, LanesAssumption DEF LanesInv
<1>1. /\ run'[r] = new /\ \A q \in Runs : q # r => run'[q] = run[q]
      /\ new.pc # "starting" /\ new.pc # "absent" /\ new.thread = run[r].thread
      /\ run[r].pc \notin {"starting", "done"}
  BY <1>0 DEF Follows, Now
<1>2. \A m \in Missions : entry[m].pc \in MissionAwaits => entry[m].caller # r
  BY <1>0, <1>1 DEF MissionsAgree, Launched
<1>3. \A q \in Runs : run[q].mission # None => run[q].mission \in Missions
  BY <1>0 DEF Turn
<1>4. \A q \in Runs : run[q].pc = "starting" => run[q].mission # None
  BY DEF LanesInv, TurnsOK, TurnOK, MissionFits
<1>5. CASE new.mission = run[r].mission /\ entry' = entry
  <2>1. MissionHolders' = MissionHolders /\ entry' \in [Missions -> Entry]
    BY <1>0, <1>5 DEF MissionHolders
  <2>2. \A m \in Missions : EntryOK(entry'[m])
    BY <1>0, <1>5 DEF MissionsAgree
  <2>3. \A m \in Missions : entry'[m].pc \in MissionAwaits /\ entry'[m].caller # None
                              => Launched(entry'[m], m, run'[entry'[m].caller])
    <3> TAKE m \in Missions
    <3> HAVE entry'[m].pc \in MissionAwaits /\ entry'[m].caller # None
    <3>1. entry[m].caller \in Runs /\ entry[m].caller # r
      BY <1>0, <1>2, <1>5 DEF Entry
    <3> QED BY <3>1, <1>0, <1>1, <1>5 DEF MissionsAgree
  <2>4. \A q \in Runs : run'[q].pc = "starting" =>
          /\ entry'[run'[q].mission].pc \in {"load", "runtime", "status"}
          /\ entry'[run'[q].mission].caller = q
    BY <1>0, <1>1, <1>5 DEF MissionsAgree
  <2>5. \A q \in Runs : run'[q].mission # None =>
          /\ entry'[run'[q].mission].pc # "none"
          /\ entry'[run'[q].mission].pc \in MissionAwaits
             => entry'[run'[q].mission].caller # None
    BY <1>0, <1>1, <1>5 DEF MissionsAgree
  <2>6. \A p, q \in Runs : run'[p].mission # None /\ run'[p].mission = run'[q].mission
                             => run'[p].thread = run'[q].thread
    <3>1. \A q \in Runs : run'[q].mission = run[q].mission /\ run'[q].thread = run[q].thread
      BY <1>1, <1>5
    <3> QED BY <1>0, <3>1 DEF MissionsAgree
  <2> QED BY <2>1, <2>2, <2>3, <2>4, <2>5, <2>6 DEF MissionsAgree
<1>6. CASE /\ new.mission \in Missions /\ entry[new.mission].pc = "none"
           /\ entry' = [entry EXCEPT ![new.mission] = [NoMission EXCEPT !.pc = "ready"]]
  <2> DEFINE m0 == new.mission
             e0 == [NoMission EXCEPT !.pc = "ready"]
  <2>1. /\ e0 \in Entry /\ e0.pc = "ready" /\ e0.lease = NoLease
        /\ entry'[m0] = e0 /\ \A m \in Missions : m # m0 => entry'[m] = entry[m]
    BY <1>0, <1>6 DEF NoMission, Entry
  <2>2. entry[m0].lease = NoLease
    BY <1>0, <1>6 DEF MissionsAgree, EntryOK, MissionAwaits
  <2>3. MissionHolders' = MissionHolders /\ entry' \in [Missions -> Entry]
    <3>1. MissionHolders' = MissionHolders
      <4>1. e0.lease = entry[m0].lease /\ e0.lease = NoLease
        BY <2>1, <2>2
      <4> QED BY <1>0, <1>6, <4>1, SameMissionHolders
    <3> QED BY <1>0, <1>6, <2>1, <3>1
  <2>4. \A q \in Runs : run[q].mission # m0
    BY <1>0, <1>3, <1>6 DEF MissionsAgree
  <2> HIDE DEF e0
  <2>5. EntryOK(e0)
    BY <2>1 DEF EntryOK, MissionAwaits
  <2>6. \A m \in Missions : EntryOK(entry'[m])
    BY <1>0, <2>1, <2>5 DEF MissionsAgree
  <2>7. \A m \in Missions : entry'[m].pc \in MissionAwaits /\ entry'[m].caller # None
                              => Launched(entry'[m], m, run'[entry'[m].caller])
    <3> TAKE m \in Missions
    <3> HAVE entry'[m].pc \in MissionAwaits /\ entry'[m].caller # None
    <3>1. m # m0
      BY <2>1 DEF MissionAwaits
    <3>2. entry'[m] = entry[m] /\ entry[m].caller \in Runs /\ entry[m].caller # r
      BY <1>0, <1>2, <2>1, <3>1 DEF Entry
    <3> QED BY <3>2, <1>0, <1>1 DEF MissionsAgree
  <2>8. \A q \in Runs : run'[q].pc = "starting" =>
          /\ entry'[run'[q].mission].pc \in {"load", "runtime", "status"}
          /\ entry'[run'[q].mission].caller = q
    BY <1>0, <1>1, <1>3, <1>4, <2>1, <2>4 DEF MissionsAgree
  <2>9. \A q \in Runs : run'[q].mission # None =>
          /\ entry'[run'[q].mission].pc # "none"
          /\ entry'[run'[q].mission].pc \in MissionAwaits
             => entry'[run'[q].mission].caller # None
    <3> TAKE q \in Runs
    <3>1. CASE q = r
      BY <3>1, <1>1, <2>1 DEF MissionAwaits
    <3>2. CASE q # r
      BY <3>2, <1>0, <1>1, <1>3, <2>1, <2>4 DEF MissionsAgree
    <3> QED BY <3>1, <3>2
  <2>10. \A p, q \in Runs : run'[p].mission # None /\ run'[p].mission = run'[q].mission
                             => run'[p].thread = run'[q].thread
    BY <1>0, <1>1, <2>4 DEF MissionsAgree
  <2> QED BY <2>3, <2>6, <2>7, <2>8, <2>9, <2>10 DEF MissionsAgree
<1>7. CASE /\ new.mission = None /\ run[r].mission \in Missions
           /\ entry[run[r].mission].pc \in {"ready", "over"}
           /\ entry' = [entry EXCEPT ![run[r].mission].pc = "over"]
  <2> DEFINE m0 == run[r].mission
             e0 == [entry[m0] EXCEPT !.pc = "over"]
  <2>0. entry[m0].lease = NoLease
    BY <1>0, <1>7 DEF MissionsAgree, EntryOK, MissionAwaits
  <2>1. /\ entry' = [entry EXCEPT ![m0] = e0]
        /\ e0 \in Entry /\ e0.pc = "over" /\ e0.lease = NoLease /\ e0.lease = entry[m0].lease
        /\ entry'[m0] = e0 /\ \A m \in Missions : m # m0 => entry'[m] = entry[m]
    BY <1>0, <1>7, <2>0 DEF Entry
  <2> HIDE DEF e0
  <2>3. MissionHolders' = MissionHolders /\ entry' \in [Missions -> Entry]
    <3>1. MissionHolders' = MissionHolders
      BY <1>0, <1>7, <2>1, SameMissionHolders
    <3> QED BY <1>0, <1>7, <2>1, <3>1
  <2>5. EntryOK(e0)
    BY <2>1 DEF EntryOK, MissionAwaits
  <2>6. \A m \in Missions : EntryOK(entry'[m])
    BY <1>0, <2>1, <2>5 DEF MissionsAgree
  <2>7. \A m \in Missions : entry'[m].pc \in MissionAwaits /\ entry'[m].caller # None
                              => Launched(entry'[m], m, run'[entry'[m].caller])
    <3> TAKE m \in Missions
    <3> HAVE entry'[m].pc \in MissionAwaits /\ entry'[m].caller # None
    <3>1. m # m0
      BY <2>1 DEF MissionAwaits
    <3>2. entry'[m] = entry[m] /\ entry[m].caller \in Runs /\ entry[m].caller # r
      BY <1>0, <1>2, <2>1, <3>1 DEF Entry
    <3> QED BY <3>2, <1>0, <1>1 DEF MissionsAgree
  <2>8. \A q \in Runs : run'[q].pc = "starting" =>
          /\ entry'[run'[q].mission].pc \in {"load", "runtime", "status"}
          /\ entry'[run'[q].mission].caller = q
    <3> TAKE q \in Runs
    <3> HAVE run'[q].pc = "starting"
    <3>1. q # r /\ run'[q] = run[q]
      BY <1>1
    <3>2. /\ entry[run[q].mission].pc \in {"load", "runtime", "status"}
          /\ entry[run[q].mission].caller = q /\ run[q].mission \in Missions
      BY <3>1, <1>0, <1>3, <1>4 DEF MissionsAgree
    <3>3. run[q].mission # m0
      BY <3>2, <1>7
    <3> QED BY <3>1, <3>2, <3>3, <2>1
  <2>9. \A q \in Runs : run'[q].mission # None =>
          /\ entry'[run'[q].mission].pc # "none"
          /\ entry'[run'[q].mission].pc \in MissionAwaits
             => entry'[run'[q].mission].caller # None
    <3> TAKE q \in Runs
    <3> HAVE run'[q].mission # None
    <3>1. q # r /\ run'[q] = run[q]
      BY <1>1, <1>7
    <3>2. CASE run[q].mission = m0
      BY <3>1, <3>2, <2>1 DEF MissionAwaits
    <3>3. CASE run[q].mission # m0
      BY <3>1, <3>3, <1>0, <1>3, <2>1 DEF MissionsAgree
    <3> QED BY <3>2, <3>3
  <2>10. \A p, q \in Runs : run'[p].mission # None /\ run'[p].mission = run'[q].mission
                             => run'[p].thread = run'[q].thread
    BY <1>0, <1>1, <1>7 DEF MissionsAgree
  <2> QED BY <2>3, <2>6, <2>7, <2>8, <2>9, <2>10 DEF MissionsAgree
<1> QED BY <1>5, <1>6, <1>7 DEF MissionsQuiet

LEMMA LocksStay ==
    ASSUME NEW g, NEW b, NEW mu, LocksAgree(g, mu),
           b.mutations = g.mutations, b.closures = g.closures
    PROVE  LocksAgree(b, mu)
  BY DEF LocksAgree

\* The mutations and the Stops in progress do not change.
Aside == UNCHANGED <<mutation, stopping>> /\ snapshot' \in [Threads -> Phases]

LEMMA StopsStay ==
    ASSUME LanesInv, NEW r \in Runs, NEW new, Now(r, new), new.pc # "absent", stopping' = stopping
    PROVE  StopsAgree'
<1>1. run \in [Runs -> Turn] /\ stopping \in [Threads -> Runs \union {None}]
  BY Types DEF LanesInv
<1>2. \A q \in Runs : run[q].pc # "absent" => run'[q].pc # "absent"
  BY <1>1 DEF Now
<1> QED BY <1>1, <1>2 DEF LanesInv, StopsAgree

\* The turn keeps its lease, or its lack of one.
LEMMA TurnMoves ==
    ASSUME LanesInv, NEW r \in Runs, NEW new, Follows(r, new), MissionsQuiet(r, new), Aside,
           new.lease = run[r].lease, Registered(new) <=> Registered(run[r]),
           UNCHANGED <<guard, conversations>>
    PROVE  LanesInv'
<1>0. /\ run \in [Runs -> Turn] /\ entry \in [Missions -> Entry]
      /\ conversations \in [Threads -> Runs \union {None}]
      /\ guard' = guard /\ conversations' = conversations
  BY Types DEF LanesInv
<1>1. /\ run' \in [Runs -> Turn]
      /\ run'[r] = new /\ \A q \in Runs : q # r => run'[q] = run[q]
      /\ new.thread = run[r].thread /\ new.pc # "absent" /\ TurnOK(new)
      /\ run[r].pc # "absent"
  BY <1>0 DEF Follows, Now
<1>2. entry' \in [Missions -> Entry] /\ MissionHolders' = MissionHolders /\ MissionsAgree'
  BY MissionsStay
<1>3. OwnershipTypeOK'
  BY <1>0, <1>1, <1>2, Types DEF OwnershipTypeOK, Turn, Entry, LanesInv, Aside
<1>4. TurnsOK'
  BY <1>1 DEF TurnsOK, LanesInv
<1>5. SlotsAgree(guard, Holders)'
  <2>1. TurnHolders' = TurnHolders
    BY <1>0, <1>1, SameTurnHolders DEF Follows
  <2>2. Holders' = Holders
    BY <1>2, <2>1 DEF Holders
  <2> QED BY <1>0, <2>2 DEF LanesInv
<1>6. LocksAgree(guard, mutation)'
  BY <1>0 DEF LanesInv, Aside
<1>7. ConversationsAgree'
  <2>1. \A q \in Runs : run'[q].thread = run[q].thread
                        /\ (Registered(run'[q]) <=> Registered(run[q]))
                        /\ (run'[q].pc # "absent" <=> run[q].pc # "absent")
    BY <1>1
  <2> QED BY <1>0, <2>1 DEF LanesInv, ConversationsAgree, Active
<1>8. StopsAgree'
  BY <1>1, StopsStay DEF Follows, Aside
<1> QED BY <1>2, <1>3, <1>4, <1>5, <1>6, <1>7, <1>8 DEF LanesInv

\* The turn gives up the lease it holds, and its registration.
LEMMA TurnLeaves ==
    ASSUME LanesInv, NEW r \in Runs, NEW new, Follows(r, new), MissionsQuiet(r, new), Aside,
           new.lease = NoLease, run[r].lease # NoLease,
           guard' = Released(guard, run[r].lease),
           \/ Active(r) /\ conversations' = [conversations EXCEPT ![run[r].thread] = None]
           \/ run[r].pc = "hydrate" /\ UNCHANGED conversations
    PROVE  LanesInv'
<1> DEFINE t == run[r].thread
           h == TurnHolder(r, run[r])
<1>0. /\ run \in [Runs -> Turn] /\ entry \in [Missions -> Entry] /\ guard \in Guards
      /\ conversations \in [Threads -> Runs \union {None}]
      /\ SlotsAgree(guard, Holders) /\ LocksAgree(guard, mutation) /\ None \notin Runs
      /\ ConversationsAgree
  BY Types, LanesAssumption DEF LanesInv
<1>1. /\ run' \in [Runs -> Turn]
      /\ run'[r] = new /\ \A q \in Runs : q # r => run'[q] = run[q]
      /\ new.thread = t /\ new.pc # "absent" /\ TurnOK(new) /\ new.pc # "starting"
      /\ run[r].pc # "absent"
  BY <1>0 DEF Follows, Now
<1>2. entry' \in [Missions -> Entry] /\ MissionHolders' = MissionHolders /\ MissionsAgree'
  BY MissionsStay
<1>3. h \in Holders /\ h.lease = run[r].lease /\ t \in Threads
  BY HoldingTurn DEF TurnHolder
<1>4. /\ guard' \in Guards /\ guard'.mutations = guard.mutations
      /\ guard'.closures = guard.closures /\ SlotsAgree(guard', Holders \ {h})
  <2>1. guard' = Released(guard, h.lease)
    BY <1>3
  <2>2. /\ Released(guard, h.lease) \in Guards
        /\ Released(guard, h.lease).mutations = guard.mutations
        /\ Released(guard, h.lease).closures = guard.closures
        /\ SlotsAgree(Released(guard, h.lease), Holders \ {h})
    BY <1>0, <1>3, SlotsReleased
  <2> QED BY <2>1, <2>2
<1>5. Holders' = Holders \ {h}
  <2>1. TurnHolders' = TurnHolders \ {h}
    BY <1>0, TurnHolderLeaves DEF Follows
  <2>2. h \notin MissionHolders
    BY LanesApart DEF MissionHolders
  <2> QED BY <1>2, <2>1, <2>2 DEF Holders
<1>6. conversations' \in [Threads -> Runs \union {None}]
  BY <1>0
<1>7. OwnershipTypeOK'
  BY <1>1, <1>2, <1>4, <1>6, Types DEF OwnershipTypeOK, Turn, Entry, LanesInv, Aside
<1>8. TurnsOK'
  BY <1>1 DEF TurnsOK, LanesInv
<1>9. LocksAgree(guard, mutation)'
  BY <1>0, <1>4, LocksStay DEF Aside
<1>10. ConversationsAgree'
  <2>1. ~Registered(new)
    BY <1>1 DEF Registered
  <2>2. \A q \in Runs : run'[q].thread = run[q].thread
                        /\ (q # r => run'[q] = run[q])
                        /\ (run'[q].pc # "absent" <=> run[q].pc # "absent")
    BY <1>1
  <2>3. \A q \in Runs : run[q].pc # "absent" => run[q].thread \in Threads
    BY DEF LanesInv, TurnsOK, TurnOK
  <2>4. CASE Active(r) /\ conversations' = [conversations EXCEPT ![t] = None]
    <3>1. /\ conversations'[t] = None
          /\ \A u \in Threads : u # t => conversations'[u] = conversations[u]
      BY <1>0, <1>3, <2>4
    <3>2. conversations[t] = r
      BY <2>4 DEF Active
    <3>3. \A u \in Threads : conversations'[u] # None => run'[conversations'[u]].thread = u
      BY <1>0, <2>2, <3>1 DEF ConversationsAgree
    <3>4. \A q \in Runs : run'[q].pc # "absent" =>
             (conversations'[run'[q].thread] = q <=> Registered(run'[q]))
      <4> TAKE q \in Runs
      <4> HAVE run'[q].pc # "absent"
      <4>1. CASE q = r
        BY <4>1, <1>0, <1>1, <2>1, <3>1
      <4>2. CASE q # r
        BY <4>2, <1>0, <2>2, <2>3, <3>1, <3>2 DEF ConversationsAgree, Active
      <4> QED BY <4>1, <4>2
    <3> QED BY <3>3, <3>4 DEF ConversationsAgree, Active
  <2>5. CASE run[r].pc = "hydrate" /\ UNCHANGED conversations
    <3>1. ~Registered(run[r])
      BY <2>5 DEF Registered
    <3> QED BY <1>0, <1>1, <2>1, <2>2, <2>5, <3>1 DEF ConversationsAgree, Active
  <2> QED BY <2>4, <2>5
<1>11. StopsAgree'
  BY <1>1, StopsStay DEF Follows, Aside
<1>12. SlotsAgree(guard, Holders)'
  BY <1>4, <1>5
<1> QED BY <1>2, <1>7, <1>8, <1>9, <1>10, <1>11, <1>12 DEF LanesInv

-----------------------------------------------------------------------------
(* The end of a turn's task. *)

\* What the record of a turn says of itself at every await.
RecordFits(rec) ==
    /\ rec.pending \/ rec.retry = "handoff" => rec.mission # None
    /\ rec.loop \/ rec.mission # None => rec.fromLoop

LEMMA TurnFits ==
    ASSUME LanesInv, NEW r \in Runs
    PROVE  run[r] \in Turn /\ TurnOK(run[r]) /\ RecordFits(run[r])
  BY Types DEF LanesInv, TurnsOK, TurnOK, MissionFits, RecordFits

LEMMA SavedFields ==
    ASSUME NEW rec \in Turn
    PROVE  /\ Saved(rec) \in Turn
           /\ Saved(rec).pc = rec.pc /\ Saved(rec).thread = rec.thread
           /\ Saved(rec).lease = rec.lease /\ Saved(rec).mission = rec.mission
           /\ Saved(rec).stopped = rec.stopped /\ Saved(rec).loop = rec.loop
           /\ Saved(rec).fromLoop = rec.fromLoop /\ Saved(rec).pending = rec.pending
           /\ Saved(rec).retry = "handoff" => rec.pending
           /\ RecordFits(rec) => RecordFits(Saved(rec))
<1>1. \E x \in RetryKinds : /\ Saved(rec) = [rec EXCEPT !.retry = x]
                            /\ x = "handoff" => rec.pending
  BY DEF Saved, RetryKinds
<1>2. PICK x \in RetryKinds : /\ Saved(rec) = [rec EXCEPT !.retry = x]
                              /\ x = "handoff" => rec.pending
  BY <1>1
<1> QED BY <1>2 DEF Turn, RecordFits

\* The awaits at which a turn's own task may find that it is over.
Working == TurnAwaits \ {"hydrate", "tail", "starting"}

\* rec is the record of the turn r after some bookkeeping.
Continues(r, rec) ==
    /\ rec \in Turn /\ RecordFits(rec)
    /\ rec.thread = run[r].thread /\ rec.lease = run[r].lease /\ rec.stopped = run[r].stopped

\* The record of a turn that is over.
Ended(rec, pc) == [rec EXCEPT !.pc = pc, !.lease = NoLease]

LEMMA EndedFits ==
    ASSUME NEW rec \in Turn, RecordFits(rec), rec.thread \in Threads,
           NEW pc \in {"tail", "done", "recover"}
    PROVE  /\ Ended(rec, pc) \in Turn /\ TurnOK(Ended(rec, pc))
           /\ Ended(rec, pc).pc = pc /\ Ended(rec, pc).lease = NoLease
           /\ Ended(rec, pc).thread = rec.thread /\ Ended(rec, pc).stopped = rec.stopped
           /\ Ended(rec, pc).mission = rec.mission
           /\ ~Registered(Ended(rec, pc))
<1> DEFINE e == Ended(rec, pc)
<1>1. /\ e \in Turn /\ e.pc = pc /\ e.lease = NoLease /\ e.thread = rec.thread
      /\ e.stopped = rec.stopped /\ e.mission = rec.mission /\ e.loop = rec.loop
      /\ e.fromLoop = rec.fromLoop /\ e.pending = rec.pending /\ e.retry = rec.retry
  BY DEF Ended, Turn, TurnAwaits
<1> HIDE DEF e
<1>2. RecordFits(e)
  BY <1>1 DEF RecordFits
<1>3. LeaseFits(e)
  BY <1>1 DEF LeaseFits, TurnAwaits
<1>4. MissionFits(e)
  BY <1>1, <1>2 DEF MissionFits, RecordFits
<1>5. TurnOK(e)
  BY <1>1, <1>3, <1>4 DEF TurnOK
<1> QED BY <1>1, <1>5 DEF e, Registered

\* A working turn holds a lease exactly while it is registered.
LEMMA WorkingHolds ==
    ASSUME LanesInv, NEW r \in Runs, run[r].pc \in Working
    PROVE  /\ run[r].thread \in Threads
           /\ run[r].pc \notin {"absent", "done", "starting", "hydrate", "tail"}
           /\ Active(r) <=> run[r].lease # NoLease
           /\ Active(r) <=> Registered(run[r])
<1>1. run[r].pc \notin {"absent", "done", "starting", "hydrate", "tail"}
  BY DEF Working, TurnAwaits
<1> QED BY <1>1 DEF LanesInv, TurnsOK, TurnOK, ConversationsAgree, Registered

LEMMA QuietSame ==
    ASSUME NEW r, NEW rec, NEW new, MissionsQuiet(r, rec), new.mission = rec.mission
    PROVE  MissionsQuiet(r, new)
  BY DEF MissionsQuiet

\* Retire of a turn at work.
LEMMA RetireKeeps ==
    ASSUME LanesInv, NEW r \in Runs, run[r].pc \in Working, Active(r),
           NEW rec, Continues(r, rec), MissionsQuiet(r, rec), Aside,
           rec.pc \in {"tail", "done", "recover"}, Retire(r, rec, guard)
    PROVE  LanesInv'
<1> DEFINE e == Ended(rec, rec.pc)
<1>1. /\ run[r].thread \in Threads /\ run[r].lease # NoLease
      /\ run[r].pc \notin {"absent", "done", "starting"}
      /\ rec \in Turn /\ RecordFits(rec) /\ rec.thread = run[r].thread
      /\ rec.lease = run[r].lease /\ rec.stopped = run[r].stopped
  BY WorkingHolds DEF Continues
<1>2. e = [rec EXCEPT !.lease = NoLease]
  BY <1>1 DEF Ended, Turn
<1>3. /\ Now(r, e) /\ guard' = Released(guard, run[r].lease)
      /\ conversations' = [conversations EXCEPT ![run[r].thread] = None]
  BY <1>1, <1>2 DEF Retire
<1>4. /\ e \in Turn /\ TurnOK(e) /\ e.pc = rec.pc /\ e.lease = NoLease
      /\ e.thread = rec.thread /\ e.stopped = rec.stopped /\ e.mission = rec.mission
  BY <1>1, EndedFits
<1> HIDE DEF e
<1>5. Follows(r, e)
  BY <1>1, <1>3, <1>4 DEF Follows
<1>6. MissionsQuiet(r, e)
  BY <1>4, QuietSame
<1> QED BY <1>1, <1>3, <1>4, <1>5, <1>6, TurnLeaves

LEMMA TaskEndsKeeps ==
    ASSUME LanesInv, NEW r \in Runs, run[r].pc \in Working,
           NEW rec, Continues(r, rec), MissionsQuiet(r, rec), Aside,
           TaskEnds(r, rec, guard)
    PROVE  LanesInv'
<1> DEFINE d == [rec EXCEPT !.pc = "done"]
<1>1. /\ d \in Turn /\ RecordFits(d) /\ d.thread = run[r].thread
      /\ d.lease = run[r].lease /\ d.stopped = run[r].stopped
      /\ d.pc = "done" /\ d.mission = rec.mission
  BY DEF Continues, Turn, RecordFits
<1>2. TaskEnds(r, rec, guard) <=> IF Active(r) THEN Retire(r, d, guard)
                                  ELSE guard' = guard /\ Now(r, d) /\ UNCHANGED conversations
  BY DEF TaskEnds
<1> HIDE DEF d
<1>3. Continues(r, d) /\ MissionsQuiet(r, d)
  BY <1>1, QuietSame DEF Continues
<1>4. CASE Active(r)
  BY <1>1, <1>2, <1>3, <1>4, RetireKeeps
<1>5. CASE ~Active(r)
  <2>1. run[r].lease = NoLease /\ ~Registered(run[r]) /\ run[r].thread \in Threads
        /\ run[r].pc \notin {"absent", "done", "starting"}
    BY <1>5, WorkingHolds
  <2>2. d = Ended(d, "done")
    BY <1>1, <2>1 DEF Ended, Turn
  <2>3. TurnOK(d) /\ ~Registered(d)
    BY <1>1, <2>1, <2>2, EndedFits
  <2>4. Follows(r, d)
    BY <1>1, <1>2, <1>5, <2>1, <2>3 DEF Follows
  <2> QED BY <1>1, <1>2, <1>3, <1>5, <2>1, <2>3, <2>4, TurnMoves
<1> QED BY <1>4, <1>5

LEMMA FailKeeps ==
    ASSUME LanesInv, NEW r \in Runs, run[r].pc \in Working,
           NEW rec, Continues(r, rec), MissionsQuiet(r, rec), Aside,
           Fail(r, rec, guard)
    PROVE  LanesInv'
<1> DEFINE tl == [rec EXCEPT !.pc = "tail"]
           f == [rec EXCEPT !.pc = "failing"]
<1>0. rec \in Turn /\ RecordFits(rec) /\ rec.thread = run[r].thread
      /\ rec.lease = run[r].lease /\ rec.stopped = run[r].stopped
  BY DEF Continues
<1>1. \/ TaskEnds(r, rec, guard)
      \/ Active(r) /\ Retire(r, Saved(tl), guard)
      \/ Active(r) /\ ~rec.fromLoop /\ guard' = guard /\ Now(r, f) /\ UNCHANGED conversations
  BY DEF Fail
<1>2. /\ tl \in Turn /\ RecordFits(tl) /\ tl.thread = run[r].thread /\ tl.lease = run[r].lease
      /\ tl.stopped = run[r].stopped /\ tl.pc = "tail" /\ tl.mission = rec.mission
  BY <1>0 DEF Turn, RecordFits, TurnAwaits
<1>3. /\ f \in Turn /\ RecordFits(f) /\ f.thread = run[r].thread /\ f.lease = run[r].lease
      /\ f.stopped = run[r].stopped /\ f.pc = "failing" /\ f.mission = rec.mission
      /\ f.fromLoop = rec.fromLoop
  BY <1>0 DEF Turn, RecordFits, TurnAwaits
<1> HIDE DEF tl, f
<1>4. CASE TaskEnds(r, rec, guard)
  BY <1>4, TaskEndsKeeps
<1>5. CASE Active(r) /\ Retire(r, Saved(tl), guard)
  <2> DEFINE s == Saved(tl)
  <2>1. /\ s \in Turn /\ RecordFits(s) /\ s.thread = run[r].thread /\ s.lease = run[r].lease
        /\ s.stopped = run[r].stopped /\ s.pc = "tail" /\ s.mission = rec.mission
    BY <1>2, SavedFields
  <2> HIDE DEF s
  <2>2. Continues(r, s) /\ MissionsQuiet(r, s)
    BY <2>1, QuietSame DEF Continues
  <2> QED BY <1>5, <2>1, <2>2, RetireKeeps DEF s
<1>6. CASE Active(r) /\ ~rec.fromLoop /\ guard' = guard /\ Now(r, f) /\ UNCHANGED conversations
  <2>1. run[r].lease # NoLease /\ Registered(run[r]) /\ run[r].thread \in Threads
        /\ run[r].pc \notin {"absent", "done", "starting"} /\ run[r].lease[2] = 0
    BY <1>6, WorkingHolds, TurnFits DEF TurnOK, LeaseFits
  <2>2. TurnOK(f) /\ Registered(f)
    <3>1. LeaseFits(f) /\ Registered(f)
      BY <1>3, <2>1 DEF LeaseFits, Registered
    <3>2. MissionFits(f)
      BY <1>3 DEF MissionFits, RecordFits
    <3> QED BY <1>3, <2>1, <3>1, <3>2 DEF TurnOK
  <2>3. Follows(r, f)
    BY <1>3, <1>6, <2>1, <2>2 DEF Follows
  <2>4. MissionsQuiet(r, f)
    BY <1>3, QuietSame
  <2> QED BY <1>3, <1>6, <2>1, <2>2, <2>3, <2>4, TurnMoves
<1> QED BY <1>1, <1>4, <1>5, <1>6

-----------------------------------------------------------------------------
(* The steps of a turn. *)

LEMMA ShowFits ==
    ASSUME LanesInv, NEW t, NEW phase \in Phases, Show(t, phase)
    PROVE  snapshot' \in [Threads -> Phases]
  BY Types DEF LanesInv, Show

LEMMA UnshownFits ==
    ASSUME LanesInv, UNCHANGED snapshot
    PROVE  snapshot' \in [Threads -> Phases]
  BY Types DEF LanesInv

\* A turn at work, other than one in recovery, is registered and holds a lease.
LEMMA WorkingActive ==
    ASSUME LanesInv, NEW r \in Runs, run[r].pc \in Working \ {"recover"}
    PROVE  Active(r) /\ run[r].lease # NoLease
<1>1. run[r].lease # NoLease
  BY TurnFits DEF TurnOK, LeaseFits, Working
<1> QED BY <1>1, WorkingHolds

\* The turn goes on to another await.
LEMMA GoesOnKeeps ==
    ASSUME LanesInv, NEW r \in Runs, run[r].pc \in Working, Active(r),
           NEW rec, Continues(r, rec), MissionsQuiet(r, rec), Aside,
           rec.pc \in Working, MissionFits(rec), Now(r, rec), UNCHANGED <<guard, conversations>>
    PROVE  LanesInv'
<1>1. run[r].lease # NoLease /\ Registered(run[r]) /\ run[r].thread \in Threads
      /\ run[r].pc \notin {"absent", "done", "starting"} /\ run[r].lease[2] = 0
  BY WorkingHolds, TurnFits DEF TurnOK, LeaseFits
<1>2. rec \in Turn /\ RecordFits(rec) /\ rec.thread = run[r].thread
      /\ rec.lease = run[r].lease /\ rec.stopped = run[r].stopped
      /\ rec.pc \notin {"absent", "done", "starting", "hydrate", "tail"}
  BY DEF Continues, Working, TurnAwaits
<1>3. TurnOK(rec) /\ Registered(rec)
  BY <1>1, <1>2 DEF TurnOK, LeaseFits, Registered
<1>4. Follows(r, rec)
  BY <1>1, <1>2, <1>3 DEF Follows
<1> QED BY <1>1, <1>2, <1>3, <1>4, TurnMoves

\* The bookkeeping that changes no more than where the turn is.
LEMMA GoesFits ==
    ASSUME LanesInv, NEW r \in Runs, NEW pc \in TurnAwaits \union {"done"}
    PROVE  LET rec == [run[r] EXCEPT !.pc = pc]
           IN  /\ Continues(r, rec) /\ rec.pc = pc /\ rec.mission = run[r].mission
               /\ rec.loop = run[r].loop /\ rec.pending = run[r].pending
               /\ rec.retry = run[r].retry /\ rec.fromLoop = run[r].fromLoop
  BY TurnFits DEF Continues, Turn, RecordFits

LEMMA SameFits ==
    ASSUME LanesInv, NEW r \in Runs
    PROVE  Continues(r, run[r])
  BY TurnFits DEF Continues

LEMMA QuietUnchanged ==
    ASSUME NEW r, NEW rec, rec.mission = run[r].mission, entry' = entry
    PROVE  MissionsQuiet(r, rec)
  BY DEF MissionsQuiet

LEMMA TurnOnlyAside ==
    ASSUME LanesInv, UNCHANGED <<mutation, stopping, snapshot>>
    PROVE  Aside
  BY UnshownFits DEF Aside

LEMMA PreflightDoneKeeps ==
    ASSUME LanesInv, NEW r \in Runs, PreflightDone(r)
    PROVE  LanesInv'
<1>1. /\ run[r].pc = "preflight" /\ run[r].pc \in Working
      /\ entry' = entry /\ Aside
      /\ \/ Fail(r, run[r], guard)
         \/ Active(r) /\ Goes(r, IF run[r].loop THEN "materialize" ELSE "persist")
  BY TurnOnlyAside DEF PreflightDone, At, TurnOnly, Working, TurnAwaits
<1>2. CASE Fail(r, run[r], guard)
  BY <1>1, <1>2, SameFits, QuietUnchanged, FailKeeps
<1>3. CASE Active(r) /\ Goes(r, IF run[r].loop THEN "materialize" ELSE "persist")
  <2> DEFINE pc == IF run[r].loop THEN "materialize" ELSE "persist"
             rec == [run[r] EXCEPT !.pc = pc]
  <2>1. pc \in Working /\ pc \in TurnAwaits
    BY DEF Working, TurnAwaits
  <2>2. /\ Continues(r, rec) /\ rec.pc = pc /\ rec.mission = run[r].mission
        /\ rec.loop = run[r].loop /\ rec.pending = run[r].pending
        /\ rec.retry = run[r].retry /\ rec.fromLoop = run[r].fromLoop
    BY <2>1, GoesFits
  <2>3. Now(r, rec) /\ UNCHANGED <<guard, conversations>>
    BY <1>3 DEF Goes
  <2> HIDE DEF rec
  <2>4. MissionFits(rec)
    BY <1>1, <2>2, TurnFits DEF TurnOK, MissionFits
  <2> QED BY <1>1, <1>3, <2>1, <2>2, <2>3, <2>4, QuietUnchanged, GoesOnKeeps
<1> QED BY <1>1, <1>2, <1>3

LEMMA FreshMission ==
    ASSUME LanesInv, NewMissions # {}
    PROVE  /\ NewMission \in Missions /\ NewMission # None /\ entry[NewMission].pc = "none"
           /\ \A r \in Runs : run[r].mission # NewMission
<1>1. NewMission \in NewMissions
  BY DEF NewMission
<1>2. NewMission \in Missions /\ entry[NewMission].pc = "none" /\ NewMission # None
  BY <1>1, LanesAssumption DEF NewMissions
<1> QED BY <1>2 DEF LanesInv, MissionsAgree

LEMMA MaterializedKeeps ==
    ASSUME LanesInv, NEW r \in Runs, Materialized(r)
    PROVE  LanesInv'
<1> DEFINE pc == IF Interrupted(r) THEN "compensateStopped" ELSE "persist"
           rec == [run[r] EXCEPT !.mission = NewMission, !.pc = pc]
<1>1. /\ run[r].pc = "materialize" /\ run[r].pc \in Working \ {"recover"}
      /\ Aside
      /\ \/ Fail(r, run[r], guard) /\ entry' = entry
         \/ /\ NewMissions # {}
            /\ entry' = [entry EXCEPT ![NewMission] = [NoMission EXCEPT !.pc = "ready"]]
            /\ Now(r, rec) /\ UNCHANGED <<guard, conversations>>
  BY TurnOnlyAside DEF Materialized, At, Working, TurnAwaits
<1>2. CASE Fail(r, run[r], guard) /\ entry' = entry
  BY <1>1, <1>2, SameFits, QuietUnchanged, FailKeeps
<1>3. CASE /\ NewMissions # {}
           /\ entry' = [entry EXCEPT ![NewMission] = [NoMission EXCEPT !.pc = "ready"]]
           /\ Now(r, rec) /\ UNCHANGED <<guard, conversations>>
  <2>1. Active(r) /\ run[r].loop /\ run[r].fromLoop /\ ~run[r].pending /\ run[r].retry # "handoff"
    BY <1>1, WorkingActive, TurnFits DEF TurnOK, MissionFits
  <2>2. NewMission \in Missions /\ NewMission # None /\ entry[NewMission].pc = "none"
    BY <1>3, FreshMission
  <2>3. pc \in {"compensateStopped", "persist"} /\ pc \in Working
    BY DEF Working, TurnAwaits
  <2>4. /\ rec \in Turn /\ rec.pc = pc /\ rec.mission = NewMission /\ rec.thread = run[r].thread
        /\ rec.lease = run[r].lease /\ rec.stopped = run[r].stopped
        /\ rec.loop = run[r].loop /\ rec.fromLoop = run[r].fromLoop
        /\ rec.pending = run[r].pending /\ rec.retry = run[r].retry
    BY ZenonT(60), <2>2, <2>3, TurnFits DEF Turn, Working
  <2> HIDE DEF rec, pc
  <2>5. Continues(r, rec)
    BY <2>1, <2>4 DEF Continues, RecordFits
  <2>6. MissionFits(rec)
    BY <2>1, <2>2, <2>3, <2>4 DEF MissionFits
  <2>7. MissionsQuiet(r, rec)
    BY <1>3, <2>2, <2>4 DEF MissionsQuiet
  <2> QED BY <1>1, <1>3, <2>1, <2>3, <2>4, <2>5, <2>6, <2>7, GoesOnKeeps
<1> QED BY <1>1, <1>2, <1>3

LEMMA CompensatedKeeps ==
    ASSUME LanesInv, NEW r \in Runs, Compensated(r)
    PROVE  LanesInv'
<1>1. PICK deleted \in BOOLEAN :
          LET rec == IF deleted THEN [run[r] EXCEPT !.mission = None]
                                ELSE [run[r] EXCEPT !.pending = TRUE]
          IN  /\ entry' = IF deleted THEN [entry EXCEPT ![run[r].mission].pc = "over"] ELSE entry
              /\ IF At(r, "compensateFailed") THEN Fail(r, rec, guard)
                 ELSE TaskEnds(r, IF deleted THEN rec ELSE Saved(rec), guard)
  BY DEF Compensated
<1> DEFINE rec == IF deleted THEN [run[r] EXCEPT !.mission = None]
                             ELSE [run[r] EXCEPT !.pending = TRUE]
<1>2. /\ run[r].pc \in {"compensateStopped", "compensateFailed"}
      /\ run[r].pc \in Working \ {"recover"} /\ Aside
  BY TurnOnlyAside DEF Compensated, Working, TurnAwaits
<1>3. /\ run[r].lease # NoLease /\ run[r].mission # None
      /\ ~run[r].pending /\ run[r].retry # "handoff"
  BY <1>2, WorkingActive, TurnFits DEF TurnOK, MissionFits
<1>4. run[r].mission \in Missions /\ entry[run[r].mission].pc \in {"ready", "over"}
  BY <1>3, MissionIdle
<1>5. Continues(r, rec) /\ MissionsQuiet(r, rec)
  <2>0. run[r] \in Turn /\ RecordFits(run[r])
    BY TurnFits
  <2>1. CASE deleted
    <3> DEFINE d == [run[r] EXCEPT !.mission = None]
    <3>1. /\ d \in Turn /\ d.mission = None /\ d.thread = run[r].thread
          /\ d.lease = run[r].lease /\ d.stopped = run[r].stopped
          /\ d.loop = run[r].loop /\ d.fromLoop = run[r].fromLoop
          /\ d.pending = run[r].pending /\ d.retry = run[r].retry
      BY <2>0 DEF Turn
    <3>2. rec = d /\ entry' = [entry EXCEPT ![run[r].mission].pc = "over"]
      BY <1>1, <2>1
    <3> HIDE DEF d, rec
    <3>3. Continues(r, d)
      BY <1>3, <2>0, <3>1 DEF Continues, RecordFits
    <3> QED BY <1>4, <3>1, <3>2, <3>3 DEF MissionsQuiet
  <2>2. CASE ~deleted
    <3> DEFINE d == [run[r] EXCEPT !.pending = TRUE]
    <3>1. /\ d \in Turn /\ d.mission = run[r].mission /\ d.thread = run[r].thread
          /\ d.lease = run[r].lease /\ d.stopped = run[r].stopped
          /\ d.loop = run[r].loop /\ d.fromLoop = run[r].fromLoop
          /\ d.retry = run[r].retry
      BY <2>0 DEF Turn
    <3>2. rec = d /\ entry' = entry
      BY <1>1, <2>2
    <3> HIDE DEF d, rec
    <3>3. Continues(r, d)
      BY <1>3, <2>0, <3>1 DEF Continues, RecordFits
    <3> QED BY <3>1, <3>2, <3>3 DEF MissionsQuiet
  <2> QED BY <2>1, <2>2
<1>6. \/ Fail(r, rec, guard)
      \/ TaskEnds(r, rec, guard)
      \/ TaskEnds(r, Saved(rec), guard)
  BY <1>1
<1> HIDE DEF rec
<1>7. CASE Fail(r, rec, guard)
  BY <1>2, <1>5, <1>7, FailKeeps
<1>8. CASE TaskEnds(r, rec, guard)
  BY <1>2, <1>5, <1>8, TaskEndsKeeps
<1>9. CASE TaskEnds(r, Saved(rec), guard)
  <2>1. Continues(r, Saved(rec)) /\ Saved(rec).mission = rec.mission
    BY <1>5, SavedFields DEF Continues
  <2>2. MissionsQuiet(r, Saved(rec))
    BY <1>5, <2>1, QuietSame
  <2> QED BY <1>2, <1>9, <2>1, <2>2, TaskEndsKeeps
<1> QED BY <1>6, <1>7, <1>8, <1>9

\* Most of what a task may do at an await: fail, find that the turn is over, or
\* go on.
LEMMA AssembledKeeps ==
    ASSUME LanesInv, NEW r \in Runs, Assembled(r)
    PROVE  LanesInv'
<1> DEFINE rec == [run[r] EXCEPT !.pc = "execute", !.executed = TRUE]
<1>1. /\ run[r].pc = "assemble" /\ run[r].pc \in Working \ {"recover"}
      /\ entry' = entry /\ Aside
      /\ \/ Fail(r, run[r], guard)
         \/ TaskEnds(r, run[r], guard)
         \/ Now(r, rec) /\ UNCHANGED <<guard, conversations>>
  BY TurnOnlyAside DEF Assembled, At, TurnOnly, Working, TurnAwaits
<1>2. CASE Fail(r, run[r], guard)
  BY <1>1, <1>2, SameFits, QuietUnchanged, FailKeeps
<1>3. CASE TaskEnds(r, run[r], guard)
  BY <1>1, <1>3, SameFits, QuietUnchanged, TaskEndsKeeps
<1>4. CASE Now(r, rec) /\ UNCHANGED <<guard, conversations>>
  <2>0. run[r] \in Turn /\ RecordFits(run[r])
    BY TurnFits
  <2>1. /\ rec \in Turn /\ rec.pc = "execute" /\ rec.mission = run[r].mission
        /\ rec.thread = run[r].thread /\ rec.lease = run[r].lease
        /\ rec.stopped = run[r].stopped /\ rec.loop = run[r].loop
        /\ rec.fromLoop = run[r].fromLoop /\ rec.pending = run[r].pending
        /\ rec.retry = run[r].retry
    BY <2>0 DEF Turn, TurnAwaits
  <2> HIDE DEF rec
  <2>2. Continues(r, rec) /\ MissionFits(rec) /\ rec.pc \in Working
    BY <2>0, <2>1 DEF Continues, MissionFits, RecordFits, Working, TurnAwaits
  <2> QED BY <1>1, <1>4, <2>1, <2>2, WorkingActive, QuietUnchanged, GoesOnKeeps
<1> QED BY <1>1, <1>2, <1>3, <1>4

LEMMA CompleteKeeps ==
    ASSUME LanesInv, NEW r \in Runs, run[r].pc \in Working, Active(r), Complete(r),
           entry' = entry, UNCHANGED <<mutation, stopping>>
    PROVE  LanesInv'
<1> DEFINE rec == [run[r] EXCEPT !.pc = "done"]
<1>1. Retire(r, rec, guard) /\ Show(run[r].thread, "completed") /\ "completed" \in Phases
  BY DEF Complete, Phases
<1>2. Aside
  BY <1>1, ShowFits DEF Aside
<1>3. Continues(r, rec) /\ rec.pc = "done" /\ rec.mission = run[r].mission
  BY GoesFits
<1> HIDE DEF rec
<1> QED BY <1>1, <1>2, <1>3, QuietUnchanged, RetireKeeps

LEMMA NotInterrupted ==
    ASSUME NEW r, ~Interrupted(r)
    PROVE  Active(r) /\ ~run[r].stopped
  BY DEF Interrupted

LEMMA GoesKeeps ==
    ASSUME LanesInv, NEW r \in Runs, run[r].pc \in Working, Active(r),
           NEW pc \in {"compensateFailed", "finish"}, Goes(r, pc),
           pc = "compensateFailed" => run[r].pc = "persist" /\ run[r].loop,
           entry' = entry, Aside
    PROVE  LanesInv'
<1> DEFINE rec == [run[r] EXCEPT !.pc = pc]
<1>1. pc \in Working /\ pc \in TurnAwaits
  BY DEF Working, TurnAwaits
<1>2. /\ Continues(r, rec) /\ rec.pc = pc /\ rec.mission = run[r].mission
      /\ rec.loop = run[r].loop /\ rec.pending = run[r].pending
      /\ rec.retry = run[r].retry /\ rec.fromLoop = run[r].fromLoop
  BY <1>1, GoesFits
<1>3. Now(r, rec) /\ UNCHANGED <<guard, conversations>>
  BY DEF Goes
<1> HIDE DEF rec
<1>4. MissionFits(rec)
  BY <1>2, TurnFits DEF TurnOK, MissionFits, RecordFits
<1> QED BY <1>1, <1>2, <1>3, <1>4, QuietUnchanged, GoesOnKeeps

LEMMA ExecutedKeeps ==
    ASSUME LanesInv, NEW r \in Runs, Executed(r)
    PROVE  LanesInv'
<1> DEFINE rec == [run[r] EXCEPT !.pc = "recover", !.reattached = TRUE, !.connected = FALSE]
<1>1. /\ run[r].pc = "execute" /\ run[r].pc \in Working
      /\ entry' = entry /\ UNCHANGED <<mutation, stopping>>
      /\ \/ TaskEnds(r, run[r], guard) /\ UNCHANGED snapshot
         \/ Active(r) /\ Complete(r)
         \/ Active(r) /\ Goes(r, "finish") /\ UNCHANGED snapshot
         \/ Fail(r, run[r], guard) /\ UNCHANGED snapshot
         \/ /\ Active(r) /\ Now(r, rec) /\ Show(run[r].thread, "interrupted")
            /\ UNCHANGED <<guard, conversations>>
  BY NotInterrupted DEF Executed, At, Working, TurnAwaits
<1>2. CASE TaskEnds(r, run[r], guard) /\ UNCHANGED snapshot
  BY <1>1, <1>2, SameFits, QuietUnchanged, TurnOnlyAside, TaskEndsKeeps
<1>3. CASE Active(r) /\ Complete(r)
  BY <1>1, <1>3, CompleteKeeps
<1>4. CASE Active(r) /\ Goes(r, "finish") /\ UNCHANGED snapshot
  BY <1>1, <1>4, TurnOnlyAside, GoesKeeps
<1>5. CASE Fail(r, run[r], guard) /\ UNCHANGED snapshot
  BY <1>1, <1>5, SameFits, QuietUnchanged, TurnOnlyAside, FailKeeps
<1>6. CASE /\ Active(r) /\ Now(r, rec) /\ Show(run[r].thread, "interrupted")
           /\ UNCHANGED <<guard, conversations>>
  <2>0. run[r] \in Turn /\ RecordFits(run[r])
    BY TurnFits
  <2>1. /\ rec \in Turn /\ rec.pc = "recover" /\ rec.mission = run[r].mission
        /\ rec.thread = run[r].thread /\ rec.lease = run[r].lease
        /\ rec.stopped = run[r].stopped /\ rec.loop = run[r].loop
        /\ rec.fromLoop = run[r].fromLoop /\ rec.pending = run[r].pending
        /\ rec.retry = run[r].retry
    BY <2>0 DEF Turn, TurnAwaits
  <2> HIDE DEF rec
  <2>2. Continues(r, rec) /\ MissionFits(rec) /\ rec.pc \in Working
    BY <2>0, <2>1 DEF Continues, MissionFits, RecordFits, Working, TurnAwaits
  <2>3. "interrupted" \in Phases
    BY DEF Phases
  <2>4. Aside
    BY <1>1, <1>6, <2>3, ShowFits DEF Aside
  <2> QED BY <1>1, <1>6, <2>1, <2>2, <2>4, QuietUnchanged, GoesOnKeeps
<1> QED BY <1>1, <1>2, <1>3, <1>4, <1>5, <1>6

LEMMA FinishedKeeps ==
    ASSUME LanesInv, NEW r \in Runs, Finished(r)
    PROVE  LanesInv'
<1>1. /\ run[r].pc = "finish" /\ run[r].pc \in Working
      /\ entry' = entry /\ UNCHANGED <<mutation, stopping>>
      /\ \/ TaskEnds(r, run[r], guard) /\ UNCHANGED snapshot
         \/ Active(r) /\ Complete(r)
         \/ Fail(r, run[r], guard) /\ UNCHANGED snapshot
  BY NotInterrupted DEF Finished, At, Working, TurnAwaits
<1>2. CASE TaskEnds(r, run[r], guard) /\ UNCHANGED snapshot
  BY <1>1, <1>2, SameFits, QuietUnchanged, TurnOnlyAside, TaskEndsKeeps
<1>3. CASE Active(r) /\ Complete(r)
  BY <1>1, <1>3, CompleteKeeps
<1>4. CASE Fail(r, run[r], guard) /\ UNCHANGED snapshot
  BY <1>1, <1>4, SameFits, QuietUnchanged, TurnOnlyAside, FailKeeps
<1> QED BY <1>1, <1>2, <1>3, <1>4

LEMMA DraftConvergedKeeps ==
    ASSUME LanesInv, NEW r \in Runs, DraftConverged(r)
    PROVE  LanesInv'
<1> DEFINE tl == [run[r] EXCEPT !.pc = "tail"]
           s == Saved(tl)
<1>1. /\ run[r].pc = "failing" /\ run[r].pc \in Working \ {"recover"}
      /\ entry' = entry /\ Aside /\ Retire(r, s, guard)
  BY TurnOnlyAside DEF DraftConverged, At, TurnOnly, Working, TurnAwaits
<1>2. Continues(r, tl) /\ tl.pc = "tail" /\ tl.mission = run[r].mission
  BY GoesFits DEF TurnAwaits
<1> HIDE DEF tl
<1>3. Continues(r, s) /\ s.pc = "tail" /\ s.mission = run[r].mission
  BY <1>2, SavedFields DEF Continues
<1> HIDE DEF s
<1> QED BY <1>1, <1>3, WorkingActive, QuietUnchanged, RetireKeeps

LEMMA FailureShownKeeps ==
    ASSUME LanesInv, NEW r \in Runs, FailureShown(r)
    PROVE  LanesInv'
<1> DEFINE d == [run[r] EXCEPT !.pc = "done"]
<1>1. /\ run[r].pc = "tail" /\ entry' = entry /\ UNCHANGED <<mutation, stopping>>
      /\ Now(r, d) /\ UNCHANGED <<guard, conversations>> /\ Show(run[r].thread, "failed")
  BY DEF FailureShown, At, Goes
<1>2. run[r] \in Turn /\ RecordFits(run[r]) /\ run[r].lease = NoLease /\ run[r].thread \in Threads
  BY <1>1, TurnFits DEF TurnOK, LeaseFits
<1>3. d = Ended(run[r], "done")
  BY <1>2 DEF Ended, Turn
<1>4. /\ d \in Turn /\ TurnOK(d) /\ d.pc = "done" /\ d.lease = NoLease
      /\ d.thread = run[r].thread /\ d.stopped = run[r].stopped
      /\ d.mission = run[r].mission /\ ~Registered(d)
  BY <1>2, <1>3, EndedFits
<1> HIDE DEF d
<1>5. Follows(r, d) /\ ~Registered(run[r])
  BY <1>1, <1>2, <1>4 DEF Follows, Registered
<1>6. Aside
  BY <1>1, ShowFits DEF Aside, Phases
<1> QED BY <1>1, <1>2, <1>4, <1>5, <1>6, QuietUnchanged, TurnMoves

LEMMA RecoveryEndsKeeps ==
    ASSUME LanesInv, NEW r \in Runs, RecoveryEnds(r)
    PROVE  LanesInv'
<1>1. /\ run[r].pc = "recover" /\ run[r].pc \in Working
      /\ entry' = entry /\ Aside /\ TaskEnds(r, run[r], guard)
  BY TurnOnlyAside DEF RecoveryEnds, At, TurnOnly, Working, TurnAwaits
<1> QED BY <1>1, SameFits, QuietUnchanged, TaskEndsKeeps

\* A change of a registered turn's flags that its lane does not look at.
LEMMA FlagKeeps ==
    ASSUME LanesInv, NEW r \in Runs, run[r].pc \in {"attached", "recover"}, Active(r),
           NEW rec \in Turn, rec.pc = run[r].pc, rec.thread = run[r].thread,
           rec.lease = run[r].lease, rec.stopped = run[r].stopped, rec.loop = run[r].loop,
           rec.fromLoop = run[r].fromLoop, rec.mission = run[r].mission,
           rec.pending = run[r].pending, rec.retry = run[r].retry,
           Now(r, rec), UNCHANGED <<guard, conversations>>, TurnOnly
    PROVE  LanesInv'
<1>1. Aside /\ entry' = entry /\ run[r].pc \in Working
  BY TurnOnlyAside DEF TurnOnly, Working, TurnAwaits
<1>2. Continues(r, rec) /\ MissionFits(rec)
  BY TurnFits DEF Continues, TurnOK, RecordFits, MissionFits
<1> QED BY <1>1, <1>2, QuietUnchanged, GoesOnKeeps

LEMMA BootstrapKeeps ==
    ASSUME LanesInv, NEW r \in Runs, Bootstrap(r)
    PROVE  LanesInv'
<1> DEFINE rec == [run[r] EXCEPT !.settlement = TRUE]
<1>1. /\ run[r].pc \in {"attached", "recover"} /\ Active(r) /\ Now(r, rec)
      /\ UNCHANGED <<guard, conversations>> /\ TurnOnly
  BY DEF Bootstrap, At
<1>2. /\ rec \in Turn /\ rec.pc = run[r].pc /\ rec.thread = run[r].thread
      /\ rec.lease = run[r].lease /\ rec.stopped = run[r].stopped /\ rec.loop = run[r].loop
      /\ rec.fromLoop = run[r].fromLoop /\ rec.mission = run[r].mission
      /\ rec.pending = run[r].pending /\ rec.retry = run[r].retry
  BY TurnFits DEF Turn
<1> QED BY <1>1, <1>2, FlagKeeps

LEMMA HostConnectsKeeps ==
    ASSUME LanesInv, NEW r \in Runs, HostConnects(r)
    PROVE  LanesInv'
<1> DEFINE rec == [run[r] EXCEPT !.connected = TRUE]
<1>1. /\ run[r].pc \in {"attached", "recover"} /\ Active(r) /\ Now(r, rec)
      /\ UNCHANGED <<guard, conversations>> /\ TurnOnly
  BY DEF HostConnects, Candidate
<1>2. /\ rec \in Turn /\ rec.pc = run[r].pc /\ rec.thread = run[r].thread
      /\ rec.lease = run[r].lease /\ rec.stopped = run[r].stopped /\ rec.loop = run[r].loop
      /\ rec.fromLoop = run[r].fromLoop /\ rec.mission = run[r].mission
      /\ rec.pending = run[r].pending /\ rec.retry = run[r].retry
  BY TurnFits DEF Turn
<1> QED BY <1>1, <1>2, FlagKeeps

LEMMA WithoutTaskFits ==
    ASSUME LanesInv, NEW r \in Runs, run[r].pc \in {"attached", "recover"}
    PROVE  /\ Continues(r, WithoutTask(r)) /\ WithoutTask(r).pc \in {"done", "recover"}
           /\ WithoutTask(r).mission = run[r].mission
<1> DEFINE pc == IF run[r].pc = "attached" THEN "done" ELSE run[r].pc
           w == [run[r] EXCEPT !.pc = pc, !.settlement = FALSE]
<1>1. run[r] \in Turn /\ RecordFits(run[r])
  BY TurnFits
<1>2. /\ WithoutTask(r) = w
      /\ pc \in {"done", "recover"}
      /\ pc \in TurnAwaits \union {"absent", "done"}
  BY <1>1 DEF WithoutTask, Turn, TurnAwaits
<1> HIDE DEF pc
<1>3. /\ w \in Turn /\ w.pc = pc /\ w.mission = run[r].mission
      /\ w.thread = run[r].thread /\ w.lease = run[r].lease
      /\ w.stopped = run[r].stopped /\ w.loop = run[r].loop
      /\ w.fromLoop = run[r].fromLoop /\ w.pending = run[r].pending
      /\ w.retry = run[r].retry
  BY <1>1, <1>2 DEF Turn
<1> HIDE DEF w
<1> QED BY <1>1, <1>2, <1>3 DEF Continues, RecordFits

LEMMA HostMissingKeeps ==
    ASSUME LanesInv, NEW r \in Runs, HostMissing(r)
    PROVE  LanesInv'
<1>1. /\ run[r].pc \in {"attached", "recover"} /\ Active(r) /\ run[r].pc \in Working
      /\ entry' = entry /\ Aside /\ Retire(r, WithoutTask(r), guard)
  BY TurnOnlyAside DEF HostMissing, Candidate, TurnOnly, Working, TurnAwaits
<1> QED BY <1>1, WithoutTaskFits, QuietUnchanged, RetireKeeps

LEMMA TerminalArrivesKeeps ==
    ASSUME LanesInv, NEW r \in Runs, TerminalArrives(r)
    PROVE  LanesInv'
<1> DEFINE w == WithoutTask(r)
<1>1. /\ run[r].pc \in {"attached", "recover"} /\ Active(r) /\ run[r].pc \in Working
      /\ entry' = entry /\ Aside
      /\ Retire(r, w, guard) \/ Retire(r, Saved(w), guard)
  <2>1. /\ run[r].pc \in {"attached", "recover"} /\ Active(r) /\ run[r].pc \in Working
        /\ entry' = entry /\ UNCHANGED <<mutation, stopping>>
    BY DEF TerminalArrives, Working, TurnAwaits
  <2>2. CASE Retire(r, w, guard) /\ UNCHANGED snapshot
    BY <2>1, <2>2, TurnOnlyAside
  <2>3. CASE \E phase \in {"completed", "failed", "interrupted"} :
                /\ Retire(r, IF phase = "completed" THEN w ELSE Saved(w), guard)
                /\ Show(run[r].thread, phase)
    <3> PICK phase \in {"completed", "failed", "interrupted"} :
                /\ Retire(r, IF phase = "completed" THEN w ELSE Saved(w), guard)
                /\ Show(run[r].thread, phase)
      BY <2>3
    <3>1. phase \in Phases
      BY DEF Phases
    <3>2. Aside
      BY <2>1, <3>1, ShowFits DEF Aside
    <3> HIDE DEF w
    <3>3. Retire(r, w, guard) \/ Retire(r, Saved(w), guard)
      BY Zenon
    <3> QED BY <2>1, <3>2, <3>3
  <2> QED BY <2>2, <2>3 DEF TerminalArrives
<1>2. Continues(r, w) /\ w.pc \in {"done", "recover"} /\ w.mission = run[r].mission
  BY <1>1, WithoutTaskFits
<1> HIDE DEF w
<1>3. /\ Continues(r, Saved(w)) /\ Saved(w).pc \in {"done", "recover"}
      /\ Saved(w).mission = run[r].mission
  BY <1>2, SavedFields DEF Continues
<1> QED BY <1>1, <1>2, <1>3, QuietUnchanged, RetireKeeps

-----------------------------------------------------------------------------
(* A turn that is registered on its thread after a reload. *)

\* The thread of a turn in hydration has no registered turn.
LEMMA HydratingUnregistered ==
    ASSUME LanesInv, NEW r \in Runs, run[r].pc = "hydrate"
    PROVE  /\ run[r].thread \in Threads /\ run[r].lease # NoLease /\ run[r].lease[2] = 0
           /\ conversations[run[r].thread] = None
<1> DEFINE t == run[r].thread
<1>1. t \in Threads /\ run[r].lease # NoLease /\ run[r].lease[2] = 0
  BY TurnFits DEF TurnOK, LeaseFits, TurnAwaits
<1>2. ASSUME conversations[t] # None PROVE FALSE
  <2> DEFINE q == conversations[t]
  <2>1. /\ q \in Runs /\ run[q].thread = t /\ run[q].pc # "hydrate" /\ Registered(run[q])
        /\ run[q].pc = "starting" => \E m \in Missions : entry[m].lease # NoLease
                                                         /\ entry[m].thread = t
    BY <1>1, <1>2, RegisteredBusy
  <2> HIDE DEF q
  <2>2. run[q].lease = NoLease
    BY <1>1, <2>1, HoldersDiffer
  <2>3. run[q].pc = "starting"
    BY <2>1, <2>2 DEF Registered
  <2> QED BY <1>1, <2>1, <2>3, HoldersDiffer
<1> QED BY <1>1, <1>2

LEMMA HydrationFailsKeeps ==
    ASSUME LanesInv, NEW r \in Runs, HydrationFails(r)
    PROVE  LanesInv'
<1> DEFINE d == [run[r] EXCEPT !.pc = "done", !.lease = NoLease]
<1>1. /\ run[r].pc = "hydrate" /\ entry' = entry /\ Aside
      /\ guard' = Released(guard, run[r].lease) /\ Now(r, d) /\ UNCHANGED conversations
  BY TurnOnlyAside DEF HydrationFails, At, Now
<1>2. run[r] \in Turn /\ RecordFits(run[r]) /\ run[r].lease # NoLease /\ run[r].thread \in Threads
  BY <1>1, HydratingUnregistered, TurnFits
<1>3. d = Ended(run[r], "done")
  BY DEF Ended
<1>4. /\ d \in Turn /\ TurnOK(d) /\ d.pc = "done" /\ d.lease = NoLease
      /\ d.thread = run[r].thread /\ d.stopped = run[r].stopped
      /\ d.mission = run[r].mission
  BY <1>2, <1>3, EndedFits
<1> HIDE DEF d
<1>5. Follows(r, d)
  BY <1>1, <1>4 DEF Follows
<1> QED BY <1>1, <1>2, <1>4, <1>5, QuietUnchanged, TurnLeaves

LEMMA HydratedKeeps ==
    ASSUME LanesInv, NEW r \in Runs, Hydrated(r)
    PROVE  LanesInv'
<1> DEFINE t == run[r].thread
           a == [run[r] EXCEPT !.pc = "attached", !.reattached = TRUE, !.settlement = TRUE]
           x == [run[r] EXCEPT !.pc = "execute"]
<1>0. /\ run \in [Runs -> Turn] /\ conversations \in [Threads -> Runs \union {None}]
      /\ ConversationsAgree /\ None \notin Runs
  BY Types, LanesAssumption DEF LanesInv
<1>1. /\ run[r].pc = "hydrate" /\ guard' = guard /\ entry' = entry
      /\ UNCHANGED <<mutation, stopping>>
      /\ conversations' = [conversations EXCEPT ![t] = r]
      /\ \/ Now(r, a) /\ Show(t, "running")
         \/ Now(r, x) /\ Show(t, "preparing")
  BY DEF Hydrated, At
<1>2. /\ run[r] \in Turn /\ TurnOK(run[r]) /\ RecordFits(run[r])
      /\ run[r].lease # NoLease /\ run[r].lease[2] = 0
      /\ t \in Threads /\ conversations[t] = None /\ t # None
  BY <1>1, HydratingUnregistered, TurnFits, GuardAssumption
<1>3. PICK new : /\ new \in {a, x} /\ Now(r, new)
  BY <1>1
<1>4. Aside
  <2>1. Show(t, "running") \/ Show(t, "preparing")
    BY <1>1
  <2>2. "running" \in Phases /\ "preparing" \in Phases
    BY DEF Phases
  <2> QED BY <1>1, <2>1, <2>2, ShowFits DEF Aside
<1>5. /\ new \in Turn /\ new.pc \in {"attached", "execute"} /\ new.thread = t
      /\ new.lease = run[r].lease /\ new.stopped = run[r].stopped
      /\ new.mission = run[r].mission /\ new.loop = run[r].loop
      /\ new.fromLoop = run[r].fromLoop /\ new.pending = run[r].pending
      /\ new.retry = run[r].retry
  BY ZenonT(60), <1>2, <1>3 DEF Turn, TurnAwaits
<1> HIDE DEF a, x
<1>6. TurnOK(new) /\ Registered(new)
  <2>1. LeaseFits(new) /\ Registered(new)
    BY <1>2, <1>5 DEF LeaseFits, Registered
  <2>2. MissionFits(new)
    BY <1>2, <1>5 DEF MissionFits, RecordFits
  <2> QED BY <1>2, <1>5, <2>1, <2>2 DEF TurnOK
<1>7. Follows(r, new)
  BY <1>1, <1>3, <1>5, <1>6 DEF Follows
<1>8. entry' \in [Missions -> Entry] /\ MissionHolders' = MissionHolders /\ MissionsAgree'
  BY <1>1, <1>5, <1>7, QuietUnchanged, MissionsStay
<1>9. /\ run' \in [Runs -> Turn]
      /\ run'[r] = new /\ \A q \in Runs : q # r => run'[q] = run[q]
  BY <1>0, <1>3, <1>5 DEF Now
<1>10. OwnershipTypeOK'
  <2>1. conversations' \in [Threads -> Runs \union {None}]
    BY <1>0, <1>1
  <2> QED BY <1>1, <1>4, <1>8, <1>9, <2>1, Types
          DEF OwnershipTypeOK, Turn, Entry, LanesInv, Aside
<1>11. TurnsOK'
  BY <1>6, <1>9 DEF TurnsOK, LanesInv
<1>12. SlotsAgree(guard, Holders)'
  <2>1. TurnHolders' = TurnHolders
    BY <1>0, <1>3, <1>5, SameTurnHolders
  <2>2. Holders' = Holders
    BY <1>8, <2>1 DEF Holders
  <2> QED BY <1>1, <2>2 DEF LanesInv
<1>13. LocksAgree(guard, mutation)'
  BY <1>1 DEF LanesInv
<1>14. ConversationsAgree'
  <2>1. conversations'[t] = r /\ \A u \in Threads : u # t => conversations'[u] = conversations[u]
    BY <1>0, <1>1, <1>2
  <2>2. \A u \in Threads : conversations'[u] # None => run'[conversations'[u]].thread = u
    <3> TAKE u \in Threads
    <3> HAVE conversations'[u] # None
    <3>1. CASE u = t
      BY <3>1, <1>5, <1>9, <2>1
    <3>2. CASE u # t
      <4>1. conversations[u] \in Runs /\ run[conversations[u]].thread = u
            /\ conversations'[u] = conversations[u]
        BY <3>2, <1>0, <2>1 DEF ConversationsAgree
      <4>2. conversations[u] # r
        BY <3>2, <4>1
      <4> QED BY <4>1, <4>2, <1>9
    <3> QED BY <3>1, <3>2
  <2>3. \A q \in Runs : run'[q].pc # "absent" =>
           (conversations'[run'[q].thread] = q <=> Registered(run'[q]))
    <3> TAKE q \in Runs
    <3> HAVE run'[q].pc # "absent"
    <3>1. CASE q = r
      BY <3>1, <1>5, <1>6, <1>9, <2>1
    <3>2. CASE q # r
      <4>1. run'[q] = run[q] /\ run[q].thread \in Threads
        BY <3>2, <1>9 DEF LanesInv, TurnsOK, TurnOK
      <4>2. conversations'[run[q].thread] = q <=> conversations[run[q].thread] = q
        BY <3>2, <4>1, <1>0, <1>2, <2>1
      <4>3. conversations[run[q].thread] = q <=> Registered(run[q])
        BY <1>0, <4>1 DEF ConversationsAgree, Active
      <4> QED BY <4>1, <4>2, <4>3
    <3> QED BY <3>1, <3>2
  <2> QED BY <2>2, <2>3 DEF ConversationsAgree, Active
<1>15. StopsAgree'
  BY <1>3, <1>4, <1>5, StopsStay DEF Aside
<1> QED BY <1>8, <1>10, <1>11, <1>12, <1>13, <1>14, <1>15 DEF LanesInv

-----------------------------------------------------------------------------
(* A new turn. *)

LEMMA NewTurn ==
    ASSUME LanesInv, NewRuns # {}, NewStates # {}
    PROVE  /\ NewRun \in Runs /\ NewRun # None
           /\ run[NewRun].pc = "absent" /\ run[NewRun].lease = NoLease
           /\ run[NewRun].thread = None /\ run[NewRun].mission = None
           /\ \A t \in Threads : conversations[t] # NewRun
           /\ \A m \in Missions : entry[m].pc \in MissionAwaits => entry[m].caller # NewRun
           /\ NewState \in RunStates /\ NewState # None
           /\ guard.states[NewState].threadId = None
           /\ <<NewState, 0>> \in Leases /\ <<NewState, 0>> # NoLease
<1>1. NewRun \in NewRuns /\ NewState \in NewStates
  BY DEF NewRun, NewState
<1>2. NewRun \in Runs /\ run[NewRun].pc = "absent" /\ NewRun # None
  BY <1>1, LanesAssumption DEF NewRuns
<1>3. run[NewRun].lease = NoLease /\ run[NewRun].thread = None /\ run[NewRun].mission = None
  BY <1>2, TurnFits DEF TurnOK, LeaseFits
<1>4. \A t \in Threads : conversations[t] # NewRun
  BY <1>2, <1>3, GuardAssumption DEF LanesInv, ConversationsAgree
<1>5. \A m \in Missions : entry[m].pc \in MissionAwaits => entry[m].caller # NewRun
  BY <1>2 DEF LanesInv, MissionsAgree, Launched
<1>6. NewState \in RunStates /\ guard.states[NewState].threadId = None /\ NewState # None
  BY <1>1, GuardAssumption DEF NewStates
<1>7. <<NewState, 0>> \in Leases /\ <<NewState, 0>> # NoLease
  BY <1>6, GuardAssumption DEF Leases, NoLease
<1> QED BY <1>2, <1>3, <1>4, <1>5, <1>6, <1>7

\* beginRun on a free thread, for the lane's guard or one that has just given up
\* a mutation.
LEMMA TurnEnters ==
    ASSUME LanesInv, NewRuns # {}, NewStates # {}, NEW t \in Threads,
           NEW g \in Guards, SlotsAgree(g, Holders), Free(g, t), g.states = guard.states,
           g.activeRuns = guard.activeRuns, LocksAgree(g, mutation'),
           mutation' \in [Locks -> [pc : {"absent", "archive", "fresh", "done"},
                                    source : Runs \union {None}]],
           NEW new \in Turn, TurnOK(new), new.thread = t, new.lease = <<NewState, 0>>,
           new.pc \notin {"absent", "starting"},
           new.mission = None \/ \E old \in Runs : run[old].thread = t
                                                   /\ run[old].mission = new.mission,
           Now(NewRun, new), guard' = Begun(g, t, NewState),
           \/ /\ new.pc # "hydrate"
              /\ conversations' = [conversations EXCEPT ![t] = NewRun]
           \/ /\ new.pc = "hydrate"
              /\ UNCHANGED conversations,
           UNCHANGED <<entry, stopping>>, snapshot' \in [Threads -> Phases]
    PROVE  LanesInv'
<1> DEFINE r == NewRun
           h == TurnHolder(r, new)
<1>0. /\ run \in [Runs -> Turn] /\ entry \in [Missions -> Entry]
      /\ conversations \in [Threads -> Runs \union {None}]
      /\ ConversationsAgree /\ MissionsAgree /\ TurnsOK
      /\ entry' = entry /\ stopping' = stopping
  BY Types DEF LanesInv
<1>1. /\ r \in Runs /\ r # None /\ run[r].pc = "absent" /\ run[r].lease = NoLease
      /\ run[r].thread = None /\ run[r].mission = None
      /\ \A u \in Threads : conversations[u] # r
      /\ \A m \in Missions : entry[m].pc \in MissionAwaits => entry[m].caller # r
      /\ NewState \in RunStates /\ guard.states[NewState].threadId = None
      /\ new.lease # NoLease /\ new.lease[2] = 0
  BY NewTurn
<1> HIDE DEF r
<1>2. /\ run' \in [Runs -> Turn]
      /\ run'[r] = new /\ \A q \in Runs : q # r => run'[q] = run[q]
  BY <1>0, <1>1 DEF Now, r
<1>3. h.thread = t /\ h.lease = <<NewState, 0>>
  BY DEF TurnHolder
<1>4. /\ guard' \in Guards /\ guard'.mutations = g.mutations /\ guard'.closures = g.closures
      /\ SlotsAgree(guard', Holders \union {h})
  <2>1. g.states[NewState].threadId = None
    BY <1>1
  <2>2. /\ Begun(g, t, NewState) \in Guards
        /\ Begun(g, t, NewState).mutations = g.mutations
        /\ Begun(g, t, NewState).closures = g.closures
        /\ SlotsAgree(Begun(g, t, NewState), Holders \union {h})
    <3> HIDE DEF h
    <3> QED BY <1>1, <1>3, <2>1, SlotsBegun
  <2> QED BY <2>2
<1>5. Holders' = Holders \union {h}
  <2>1. TurnHolders' = TurnHolders \union {h}
    BY <1>0, <1>1, TurnHolderJoins DEF r
  <2>2. MissionHolders' = MissionHolders
    BY <1>0 DEF MissionHolders
  <2> QED BY <2>1, <2>2 DEF Holders
<1>6. OwnershipTypeOK'
  <2>1. conversations' \in [Threads -> Runs \union {None}]
    BY <1>0, <1>1 DEF r
  <2> QED BY <1>0, <1>2, <1>4, <2>1, Types DEF OwnershipTypeOK, Turn, Entry, LanesInv
<1>7. TurnsOK'
  BY <1>0, <1>2 DEF TurnsOK
<1>8. SlotsAgree(guard, Holders)'
  BY <1>4, <1>5
<1>9. LocksAgree(guard, mutation)'
  BY <1>4, LocksStay
<1>10. ConversationsAgree'
  <2>1. conversations[t] = None
    BY RegisteredBusy DEF Free
  <2>2. \A q \in Runs : run[q].pc # "absent" => run[q].thread \in Threads
    BY <1>0 DEF TurnsOK, TurnOK
  <2>3. CASE new.pc # "hydrate" /\ conversations' = [conversations EXCEPT ![t] = NewRun]
    <3>1. conversations'[t] = r
          /\ \A u \in Threads : u # t => conversations'[u] = conversations[u]
      BY <1>0, <2>3 DEF r
    <3>2. Registered(new)
      BY <1>1, <2>3 DEF Registered
    <3>3. \A u \in Threads : conversations'[u] # None => run'[conversations'[u]].thread = u
      <4> TAKE u \in Threads
      <4>1. CASE u = t
        BY <4>1, <1>2, <3>1, <1>1
      <4>2. CASE u # t
        BY <4>2, <1>0, <1>1, <1>2, <3>1 DEF ConversationsAgree
      <4> QED BY <4>1, <4>2
    <3>4. \A q \in Runs : run'[q].pc # "absent" =>
             (conversations'[run'[q].thread] = q <=> Registered(run'[q]))
      <4> TAKE q \in Runs
      <4> HAVE run'[q].pc # "absent"
      <4>1. CASE q = r
        BY <4>1, <1>2, <3>1, <3>2
      <4>2. CASE q # r
        <5>1. run'[q] = run[q] /\ run[q].thread \in Threads
          BY <4>2, <1>2, <2>2
        <5>2. conversations[run[q].thread] = q <=> Registered(run[q])
          BY <1>0, <5>1 DEF ConversationsAgree, Active
        <5>3. conversations'[run[q].thread] = q <=> conversations[run[q].thread] = q
          BY <4>2, <5>1, <2>1, <3>1, LanesAssumption
        <5> QED BY <5>1, <5>2, <5>3
      <4> QED BY <4>1, <4>2
    <3> QED BY <3>3, <3>4 DEF ConversationsAgree, Active
  <2>4. CASE new.pc = "hydrate" /\ UNCHANGED conversations
    <3>1. ~Registered(new)
      BY <2>4 DEF Registered
    <3>2. \A u \in Threads : conversations[u] # None => run'[conversations[u]].thread = u
      BY <1>0, <1>1, <1>2 DEF ConversationsAgree
    <3>3. \A q \in Runs : run'[q].pc # "absent" =>
             (conversations[run'[q].thread] = q <=> Registered(run'[q]))
      <4> TAKE q \in Runs
      <4> HAVE run'[q].pc # "absent"
      <4>1. CASE q = r
        BY <4>1, <1>1, <1>2, <3>1
      <4>2. CASE q # r
        BY <4>2, <1>0, <1>2 DEF ConversationsAgree, Active
      <4> QED BY <4>1, <4>2
    <3> QED BY <2>4, <3>2, <3>3 DEF ConversationsAgree, Active
  <2> QED BY <2>3, <2>4
<1>11. MissionsAgree'
  <2>1. \A m \in Missions : EntryOK(entry'[m])
    BY <1>0 DEF MissionsAgree
  <2>2. \A m \in Missions : entry'[m].pc \in MissionAwaits /\ entry'[m].caller # None
                              => Launched(entry'[m], m, run'[entry'[m].caller])
    <3> TAKE m \in Missions
    <3> HAVE entry'[m].pc \in MissionAwaits /\ entry'[m].caller # None
    <3>1. entry[m].caller \in Runs /\ entry[m].caller # r
      BY <1>0, <1>1 DEF Entry
    <3> QED BY <3>1, <1>0, <1>2 DEF MissionsAgree
  <2>3. \A q \in Runs : run'[q].pc = "starting" =>
          /\ entry'[run'[q].mission].pc \in {"load", "runtime", "status"}
          /\ entry'[run'[q].mission].caller = q
    BY <1>0, <1>2 DEF MissionsAgree
  <2>4. \A q \in Runs : run'[q].mission # None =>
          \E p \in Runs : run[p].mission = run'[q].mission /\ run[p].thread = run'[q].thread
    <3> TAKE q \in Runs
    <3> HAVE run'[q].mission # None
    <3>1. CASE q = r
      BY <3>1, <1>2
    <3>2. CASE q # r
      BY <3>2, <1>2
    <3> QED BY <3>1, <3>2
  <2>5. \A q \in Runs : run'[q].mission # None =>
          /\ entry'[run'[q].mission].pc # "none"
          /\ entry'[run'[q].mission].pc \in MissionAwaits
             => entry'[run'[q].mission].caller # None
    <3> TAKE q \in Runs
    <3> HAVE run'[q].mission # None
    <3>1. PICK p \in Runs : run[p].mission = run'[q].mission
      BY <2>4
    <3> QED BY <3>1, <1>0 DEF MissionsAgree
  <2>6. \A p, q \in Runs : run'[p].mission # None /\ run'[p].mission = run'[q].mission
                             => run'[p].thread = run'[q].thread
    <3> TAKE p, q \in Runs
    <3> HAVE run'[p].mission # None /\ run'[p].mission = run'[q].mission
    <3>1. PICK i \in Runs : run[i].mission = run'[p].mission /\ run[i].thread = run'[p].thread
      BY <2>4
    <3>2. PICK j \in Runs : run[j].mission = run'[q].mission /\ run[j].thread = run'[q].thread
      BY <2>4
    <3>3. run[i].thread = run[j].thread
      BY <3>1, <3>2, <1>0 DEF MissionsAgree
    <3> QED BY <3>1, <3>2, <3>3
  <2> QED BY <2>1, <2>2, <2>3, <2>5, <2>6 DEF MissionsAgree
<1>12. StopsAgree'
  BY <1>0, <1>1, StopsStay DEF r
<1> QED BY <1>6, <1>7, <1>8, <1>9, <1>10, <1>11, <1>12 DEF LanesInv

LEMMA BeginTurnKeeps ==
    ASSUME LanesInv, NEW t \in Threads,
           NEW g \in Guards, SlotsAgree(g, Holders), g.states = guard.states,
           g.activeRuns = guard.activeRuns, LocksAgree(g, mutation'),
           mutation' \in [Locks -> [pc : {"absent", "archive", "fresh", "done"},
                                    source : Runs \union {None}]],
           NEW rec \in Turn, rec.pc \in {"preflight", "repersist", "assemble"}, MissionFits(rec),
           rec.mission = None \/ \E old \in Runs : run[old].thread = t
                                                   /\ run[old].mission = rec.mission,
           BeginTurn(t, rec, g), UNCHANGED <<entry, stopping>>
    PROVE  LanesInv'
<1> DEFINE new == [rec EXCEPT !.thread = t, !.lease = <<NewState, 0>>]
<1>1. /\ NewRuns # {} /\ NewStates # {} /\ Free(g, t) /\ guard' = Begun(g, t, NewState)
      /\ conversations' = [conversations EXCEPT ![t] = NewRun]
      /\ Now(NewRun, new) /\ Show(t, "preparing")
  BY DEF BeginTurn
<1>2. <<NewState, 0>> \in Leases /\ <<NewState, 0>> # NoLease
  BY <1>1, NewTurn
<1>3. /\ new \in Turn /\ new.pc = rec.pc /\ new.thread = t /\ new.lease = <<NewState, 0>>
      /\ new.mission = rec.mission /\ new.pending = rec.pending /\ new.retry = rec.retry
      /\ new.loop = rec.loop /\ new.fromLoop = rec.fromLoop
  BY <1>2 DEF Turn
<1>4. snapshot' \in [Threads -> Phases]
  BY <1>1, ShowFits DEF Phases
<1> HIDE DEF new
<1>5. TurnOK(new)
  <2>1. LeaseFits(new)
    BY <1>2, <1>3 DEF LeaseFits
  <2>2. MissionFits(new)
    BY <1>3 DEF MissionFits
  <2> QED BY <1>3, <2>1, <2>2 DEF TurnOK
<1>6. \/ /\ new.pc # "hydrate"
         /\ conversations' = [conversations EXCEPT ![t] = NewRun]
      \/ /\ new.pc = "hydrate"
         /\ UNCHANGED conversations
  BY <1>1, <1>3
<1>7. new.mission = None \/ \E old \in Runs : run[old].thread = t /\ run[old].mission = new.mission
  BY <1>3
<1>8. new.pc \notin {"absent", "starting"}
  BY <1>3
<1> QED BY <1>1, <1>3, <1>4, <1>5, <1>6, <1>7, <1>8, TurnEnters

LEMMA GuardFits ==
    ASSUME LanesInv, UNCHANGED mutation
    PROVE  /\ guard \in Guards /\ SlotsAgree(guard, Holders) /\ LocksAgree(guard, mutation')
           /\ mutation' \in [Locks -> [pc : {"absent", "archive", "fresh", "done"},
                                       source : Runs \union {None}]]
  BY Types DEF LanesInv

LEMMA AbsentFields ==
    /\ Absent \in Turn /\ Absent.loop = FALSE /\ Absent.fromLoop = FALSE
    /\ Absent.stopped = FALSE /\ Absent.mission = None /\ Absent.pending = FALSE
    /\ Absent.retry = "none" /\ Absent.lease = NoLease
  BY DEF Absent, Turn, RetryKinds

LEMMA SubmitKeeps ==
    ASSUME LanesInv, NEW t \in Threads, Submit(t)
    PROVE  LanesInv'
<1>1. PICK kind \in Kinds :
          BeginTurn(t, [Absent EXCEPT !.pc = "preflight", !.loop = (kind = "loop"),
                                      !.fromLoop = (kind = "loop")], guard)
  BY DEF Submit
<1> DEFINE l == (kind = "loop")
           rec == [Absent EXCEPT !.pc = "preflight", !.loop = l, !.fromLoop = l]
<1>2. UNCHANGED <<entry, mutation, stopping>>
  BY DEF Submit
<1>3. l \in BOOLEAN
  OBVIOUS
<1>4. BeginTurn(t, rec, guard)
  BY <1>1
<1> HIDE DEF l
<1>5. /\ rec \in Turn /\ rec.pc = "preflight" /\ rec.loop = l /\ rec.fromLoop = l
      /\ rec.mission = None /\ rec.pending = FALSE /\ rec.retry = "none"
  BY ZenonT(60), <1>3, AbsentFields DEF Turn, TurnAwaits
<1> HIDE DEF rec
<1>6. MissionFits(rec)
  BY <1>3, <1>5 DEF MissionFits
<1>7. rec.mission = None \/ \E old \in Runs : run[old].thread = t /\ run[old].mission = rec.mission
  BY <1>5
<1> QED BY <1>2, <1>4, <1>5, <1>6, <1>7, GuardFits, BeginTurnKeeps

LEMMA HydrateKeeps ==
    ASSUME LanesInv, NEW t \in Threads, Hydrate(t)
    PROVE  LanesInv'
<1> DEFINE new == [Absent EXCEPT !.pc = "hydrate", !.thread = t,
                                 !.lease = <<NewState, 0>>, !.persisted = TRUE,
                                 !.executed = TRUE]
<1>1. /\ NewRuns # {} /\ NewStates # {} /\ Free(guard, t) /\ guard' = Begun(guard, t, NewState)
      /\ Now(NewRun, new)
      /\ UNCHANGED <<conversations, entry, mutation, stopping, snapshot>>
  BY DEF Hydrate
<1>2. <<NewState, 0>> \in Leases /\ <<NewState, 0>> # NoLease
  BY <1>1, NewTurn
<1>3. /\ new \in Turn /\ new.pc = "hydrate" /\ new.thread = t /\ new.lease = <<NewState, 0>>
      /\ new.mission = None /\ new.pending = FALSE /\ new.retry = "none"
      /\ new.loop = FALSE /\ new.stopped = FALSE
  BY <1>2, AbsentFields DEF Turn, TurnAwaits
<1> HIDE DEF new
<1>4. TurnOK(new)
  <2>1. LeaseFits(new)
    BY <1>2, <1>3 DEF LeaseFits
  <2>2. MissionFits(new)
    BY <1>3 DEF MissionFits
  <2> QED BY <1>3, <2>1, <2>2 DEF TurnOK
<1>5. \/ /\ new.pc # "hydrate"
         /\ conversations' = [conversations EXCEPT ![t] = NewRun]
      \/ /\ new.pc = "hydrate"
         /\ UNCHANGED conversations
  BY <1>1, <1>3
<1>6. new.mission = None \/ \E old \in Runs : run[old].thread = t /\ run[old].mission = new.mission
  BY <1>3
<1>7. new.pc \notin {"absent", "starting"} /\ UNCHANGED <<entry, stopping>>
  BY <1>1, <1>3
<1> QED BY <1>1, <1>3, <1>4, <1>5, <1>6, <1>7, GuardFits, UnshownFits, TurnEnters

\* The record of a retry, but for the await it starts at.
LEMMA RetryOfFields ==
    ASSUME LanesInv, NEW old \in Runs, run[old].retry # "none"
    PROVE  LET rec == RetryOf(old)
           IN  /\ [rec EXCEPT !.pc = "repersist"] \in Turn
               /\ run[old].retry # "handoff" => rec \in Turn
               /\ rec.pc = run[old].retry /\ rec.pc \in {"preflight", "assemble", "handoff"}
               /\ rec.stopped = FALSE /\ rec.lease = NoLease /\ rec.retry = "none"
               /\ rec.mission = IF run[old].retry = "handoff" THEN run[old].mission ELSE None
               /\ rec.pending = (run[old].retry = "handoff")
               /\ run[old].retry = "handoff" => run[old].mission # None
               /\ rec.loop \/ rec.mission # None => rec.fromLoop
<1> DEFINE handoff == run[old].retry = "handoff"
           l == run[old].loop /\ run[old].retry # "handoff"
           m == IF handoff THEN run[old].mission ELSE None
           f == run[old].fromLoop
           p == run[old].persisted
           c == run[old].retry
           rec == RetryOf(old)
<1>1. /\ run[old] \in Turn /\ RecordFits(run[old])
      /\ handoff \in BOOLEAN /\ l \in BOOLEAN /\ f \in BOOLEAN /\ p \in BOOLEAN
      /\ m \in Missions \union {None} /\ c \in {"preflight", "assemble", "handoff"}
  BY TurnFits DEF Turn, RetryKinds
<1>2. /\ l \/ m # None => f
      /\ handoff => run[old].mission # None
  BY <1>1 DEF RecordFits
<1>3. rec = [Absent EXCEPT !.pc = c, !.fromLoop = f, !.loop = l, !.mission = m,
                           !.pending = handoff, !.persisted = p]
  BY DEF RetryOf
<1> HIDE DEF rec, handoff, l, m, f, p, c
<1>4. /\ rec.pc = c /\ rec.fromLoop = f /\ rec.loop = l /\ rec.mission = m
      /\ rec.pending = handoff /\ rec.stopped = FALSE /\ rec.lease = NoLease
      /\ rec.retry = "none"
  BY <1>3, AbsentFields DEF Absent
<1> DEFINE a == [Absent EXCEPT !.fromLoop = f, !.loop = l, !.mission = m,
                               !.pending = handoff, !.persisted = p]
<1>a. a \in Turn
  <2>1. a = [[[[[Absent EXCEPT !.fromLoop = f] EXCEPT !.loop = l] EXCEPT !.mission = m]
                EXCEPT !.pending = handoff] EXCEPT !.persisted = p]
    BY DEF Absent
  <2>2. \A r \in Turn : \A b \in BOOLEAN :
          /\ [r EXCEPT !.fromLoop = b] \in Turn
          /\ [r EXCEPT !.loop = b] \in Turn
          /\ [r EXCEPT !.pending = b] \in Turn
          /\ [r EXCEPT !.persisted = b] \in Turn
    BY DEF Turn
  <2>3. \A r \in Turn : [r EXCEPT !.mission = m] \in Turn
    BY <1>1 DEF Turn
  <2> HIDE DEF a
  <2> QED BY <1>1, <2>1, <2>2, <2>3, AbsentFields
<1>5. [rec EXCEPT !.pc = "repersist"] \in Turn
  <2>1. [rec EXCEPT !.pc = "repersist"] = [a EXCEPT !.pc = "repersist"]
    BY <1>3 DEF Absent
  <2> HIDE DEF a
  <2> QED BY <1>a, <2>1 DEF Turn, TurnAwaits
<1>6. c # "handoff" => rec \in Turn
  <2>1. rec = [a EXCEPT !.pc = c]
    BY <1>3 DEF Absent
  <2> HIDE DEF a
  <2> QED BY <1>1, <1>a, <2>1 DEF Turn, TurnAwaits
<1> QED BY <1>1, <1>2, <1>4, <1>5, <1>6 DEF rec, handoff, l, m, f, p, c

LEMMA RetryTurnKeeps ==
    ASSUME LanesInv, NEW t \in Threads, NEW old \in Runs,
           run[old].thread = t, run[old].retry # "none",
           BeginTurn(t, IF run[old].retry = "handoff"
                        THEN [RetryOf(old) EXCEPT !.pc = "repersist"]
                        ELSE RetryOf(old), guard),
           UNCHANGED <<entry, mutation, stopping>>
    PROVE  LanesInv'
<1> DEFINE ro == RetryOf(old)
           rec == IF run[old].retry = "handoff" THEN [ro EXCEPT !.pc = "repersist"] ELSE ro
<1>1. /\ [ro EXCEPT !.pc = "repersist"] \in Turn
      /\ run[old].retry # "handoff" => ro \in Turn
      /\ ro.pc = run[old].retry /\ ro.pc \in {"preflight", "assemble", "handoff"}
      /\ ro.stopped = FALSE /\ ro.lease = NoLease /\ ro.retry = "none"
      /\ ro.mission = IF run[old].retry = "handoff" THEN run[old].mission ELSE None
      /\ ro.pending = (run[old].retry = "handoff")
      /\ run[old].retry = "handoff" => run[old].mission # None
      /\ ro.loop \/ ro.mission # None => ro.fromLoop
  BY RetryOfFields
<1> HIDE DEF ro
<1>2. CASE run[old].retry = "handoff"
  <2> DEFINE x == [ro EXCEPT !.pc = "repersist"]
  <2>1. /\ x \in Turn /\ x.mission = run[old].mission /\ x.mission # None
        /\ x.pc = "repersist" /\ x.loop = ro.loop /\ x.fromLoop = ro.fromLoop
        /\ x.mission = ro.mission
    BY <1>1, <1>2 DEF Turn
  <2>2. BeginTurn(t, x, guard)
    BY <1>2 DEF ro
  <2> HIDE DEF x
  <2>3. MissionFits(x)
    BY <1>1, <2>1 DEF MissionFits
  <2>4. x.mission = None \/ \E o \in Runs : run[o].thread = t /\ run[o].mission = x.mission
    BY <2>1
  <2> QED BY <2>1, <2>2, <2>3, <2>4, GuardFits, BeginTurnKeeps
<1>3. CASE run[old].retry # "handoff"
  <2>1. BeginTurn(t, ro, guard)
    BY <1>3 DEF ro
  <2>2. MissionFits(ro) /\ ro.mission = None /\ ro \in Turn /\ ro.pc \in {"preflight", "assemble"}
    BY <1>1, <1>3 DEF MissionFits
  <2>3. ro.mission = None \/ \E o \in Runs : run[o].thread = t /\ run[o].mission = ro.mission
    BY <2>2
  <2> QED BY <2>1, <2>2, <2>3, GuardFits, BeginTurnKeeps
<1> QED BY <1>2, <1>3

-----------------------------------------------------------------------------
(* Mutations. *)

LEMMA LockKeeps ==
    ASSUME LanesInv, NEW t \in Threads, NEW k \in Locks, NEW pc, NEW source,
           \/ pc = "archive" /\ source = None
           \/ pc = "fresh" /\ source \in Runs,
           Lock(t, k, pc, source)
    PROVE  LanesInv'
<1>0. /\ guard \in Guards /\ SlotsAgree(guard, Holders) /\ LocksAgree(guard, mutation)
      /\ mutation \in [Locks -> [pc : {"absent", "archive", "fresh", "done"},
                                 source : Runs \union {None}]]
  BY Types DEF LanesInv
<1>1. /\ mutation[k].pc = "absent" /\ Free(guard, t) /\ guard' = Locked(guard, t, k)
      /\ mutation' = [mutation EXCEPT ![k] = [pc |-> pc, source |-> source]]
      /\ UNCHANGED <<conversations, run, entry, stopping, snapshot>>
  BY DEF Lock
<1>2. /\ guard' \in Guards /\ SlotsAgree(guard', Holders)
      /\ guard'.mutations = guard.mutations \union {t}
      /\ guard'.closures = [guard.closures EXCEPT ![k] = [threadId |-> t, released |-> FALSE]]
  <2> DEFINE g == Locked(guard, t, k)
  <2>1. /\ g \in Guards /\ g.mutations = guard.mutations \union {t}
        /\ g.closures = [guard.closures EXCEPT ![k] = [threadId |-> t, released |-> FALSE]]
    BY <1>0, LockedFields
  <2>2. SlotsAgree(g, Holders)
    BY <1>0, <1>1, SlotsLocked
  <2> QED BY <1>1, <2>1, <2>2
<1>3. Holders' = Holders
  BY <1>1 DEF Holders, TurnHolders, MissionHolders
<1>4. /\ guard'.closures[k].threadId = t /\ ~guard'.closures[k].released
      /\ \A j \in Locks : j # k => guard'.closures[j] = guard.closures[j]
  BY <1>0, <1>2 DEF Guards
<1>5. /\ mutation'[k].pc = pc /\ mutation'[k].source = source
      /\ \A j \in Locks : j # k => mutation'[j] = mutation[j]
  BY <1>0, <1>1
<1>6. LocksAgree(guard, mutation)'
  <2>1. \A j \in Locks :
          /\ mutation'[j].pc = "absent" => guard'.closures[j].threadId = None
          /\ mutation'[j].pc \in {"archive", "fresh"} =>
                ~guard'.closures[j].released /\ guard'.closures[j].threadId \in guard'.mutations
          /\ mutation'[j].pc = "fresh" => mutation'[j].source \in Runs
    BY <1>0, <1>2, <1>4, <1>5 DEF LocksAgree
  <2>2. \A u \in guard'.mutations : \E j \in Locks :
          mutation'[j].pc \in {"archive", "fresh"} /\ guard'.closures[j].threadId = u
    <3> TAKE u \in guard'.mutations
    <3>1. CASE u = t
      BY <3>1, <1>4, <1>5
    <3>2. CASE u # t
      <4>1. PICK j \in Locks :
               mutation[j].pc \in {"archive", "fresh"} /\ guard.closures[j].threadId = u
        BY <3>2, <1>0, <1>2 DEF LocksAgree
      <4>2. j # k
        BY <4>1, <1>1
      <4> QED BY <4>1, <4>2, <1>4, <1>5
    <3> QED BY <3>1, <3>2
  <2>3. \A i, j \in Locks :
          /\ mutation'[i].pc \in {"archive", "fresh"} /\ mutation'[j].pc \in {"archive", "fresh"}
          /\ guard'.closures[i].threadId = guard'.closures[j].threadId
          => i = j
    BY <1>0, <1>1, <1>4, <1>5 DEF LocksAgree, Free
  <2> QED BY <2>1, <2>2, <2>3 DEF LocksAgree
<1>7. OwnershipTypeOK'
  <2>1. mutation' \in [Locks -> [pc : {"absent", "archive", "fresh", "done"},
                                 source : Runs \union {None}]]
    BY <1>0, <1>1
  <2> QED BY <1>1, <1>2, <2>1, Types DEF OwnershipTypeOK, Turn, Entry, LanesInv
<1>8. TurnsOK' /\ StopsAgree'
  BY <1>1 DEF LanesInv, TurnsOK, StopsAgree
<1>9. MissionsAgree'
  BY <1>1 DEF LanesInv, MissionsAgree
<1>10. ConversationsAgree'
  BY <1>1 DEF LanesInv, ConversationsAgree, Active
<1>11. SlotsAgree(guard, Holders)'
  BY <1>2, <1>3
<1> QED BY <1>6, <1>7, <1>8, <1>9, <1>10, <1>11 DEF LanesInv

\* What giving up a mutation makes of the guard and the locks.
LEMMA UnlockDoes ==
    ASSUME LanesInv, NEW k \in Locks, mutation[k].pc \in {"archive", "fresh"},
           mutation' = [mutation EXCEPT ![k].pc = "done"]
    PROVE  LET g == Unlocked(guard, k)
           IN  /\ g \in Guards /\ SlotsAgree(g, Holders) /\ LocksAgree(g, mutation')
               /\ g.states = guard.states /\ g.activeRuns = guard.activeRuns
               /\ mutation' \in [Locks -> [pc : {"absent", "archive", "fresh", "done"},
                                           source : Runs \union {None}]]
               /\ guard.closures[k].threadId \in Threads
<1> DEFINE g == Unlocked(guard, k)
           t == guard.closures[k].threadId
<1>0. /\ guard \in Guards /\ SlotsAgree(guard, Holders) /\ LocksAgree(guard, mutation)
      /\ mutation \in [Locks -> [pc : {"absent", "archive", "fresh", "done"},
                                 source : Runs \union {None}]]
  BY Types DEF LanesInv
<1>1. ~guard.closures[k].released /\ t \in guard.mutations
  BY <1>0 DEF LocksAgree
<1>2. /\ g \in Guards /\ SlotsAgree(g, Holders)
      /\ g.activeRuns = guard.activeRuns /\ g.states = guard.states
      /\ g.mutations = guard.mutations \ {t}
      /\ g.closures = [guard.closures EXCEPT ![k].released = TRUE]
  BY <1>0, <1>1, UnlockedFields, SlotsUnlocked
<1> HIDE DEF g
<1>3. /\ g.closures[k].threadId = t
      /\ \A j \in Locks : j # k => g.closures[j] = guard.closures[j]
  BY <1>0, <1>2 DEF Guards
<1>4. /\ mutation'[k].pc = "done"
      /\ \A j \in Locks : j # k => mutation'[j] = mutation[j]
      /\ mutation' \in [Locks -> [pc : {"absent", "archive", "fresh", "done"},
                                  source : Runs \union {None}]]
  BY <1>0
<1>5. LocksAgree(g, mutation')
  <2>1. \A j \in Locks :
          /\ mutation'[j].pc = "absent" => g.closures[j].threadId = None
          /\ mutation'[j].pc \in {"archive", "fresh"} =>
                ~g.closures[j].released /\ g.closures[j].threadId \in g.mutations
          /\ mutation'[j].pc = "fresh" => mutation'[j].source \in Runs
    <3> TAKE j \in Locks
    <3>1. CASE j = k
      BY <3>1, <1>4
    <3>2. CASE j # k
      <4>1. mutation[j].pc \in {"archive", "fresh"} => guard.closures[j].threadId # t
        BY <3>2, <1>0 DEF LocksAgree
      <4> QED BY <3>2, <4>1, <1>0, <1>2, <1>3, <1>4 DEF LocksAgree
    <3> QED BY <3>1, <3>2
  <2>2. \A u \in g.mutations : \E j \in Locks :
          mutation'[j].pc \in {"archive", "fresh"} /\ g.closures[j].threadId = u
    <3> TAKE u \in g.mutations
    <3>1. PICK j \in Locks :
             mutation[j].pc \in {"archive", "fresh"} /\ guard.closures[j].threadId = u
      BY <1>0, <1>2 DEF LocksAgree
    <3>2. j # k
      BY <3>1, <1>2
    <3> QED BY <3>1, <3>2, <1>3, <1>4
  <2>3. \A i, j \in Locks :
          /\ mutation'[i].pc \in {"archive", "fresh"} /\ mutation'[j].pc \in {"archive", "fresh"}
          /\ g.closures[i].threadId = g.closures[j].threadId
          => i = j
    BY <1>0, <1>3, <1>4 DEF LocksAgree
  <2> QED BY <2>1, <2>2, <2>3 DEF LocksAgree
<1>6. t \in Threads
  BY <1>0, <1>1 DEF Guards
<1> QED BY <1>2, <1>4, <1>5, <1>6 DEF g

LEMMA UnlockKeeps ==
    ASSUME LanesInv, NEW k \in Locks, Unlock(k)
    PROVE  LanesInv'
<1>1. /\ mutation[k].pc \in {"archive", "fresh"} /\ guard' = Unlocked(guard, k)
      /\ mutation' = [mutation EXCEPT ![k].pc = "done"]
      /\ UNCHANGED <<conversations, run, entry, stopping, snapshot>>
  BY DEF Unlock
<1>2. /\ guard' \in Guards /\ SlotsAgree(guard', Holders) /\ LocksAgree(guard', mutation')
      /\ mutation' \in [Locks -> [pc : {"absent", "archive", "fresh", "done"},
                                  source : Runs \union {None}]]
  BY <1>1, UnlockDoes
<1>3. Holders' = Holders
  BY <1>1 DEF Holders, TurnHolders, MissionHolders
<1>4. OwnershipTypeOK'
  BY <1>1, <1>2, Types DEF OwnershipTypeOK, Turn, Entry, LanesInv
<1>5. TurnsOK' /\ StopsAgree'
  BY <1>1 DEF LanesInv, TurnsOK, StopsAgree
<1>6. MissionsAgree'
  BY <1>1 DEF LanesInv, MissionsAgree
<1>7. ConversationsAgree'
  BY <1>1 DEF LanesInv, ConversationsAgree, Active
<1>8. SlotsAgree(guard, Holders)' /\ LocksAgree(guard, mutation)'
  BY <1>2, <1>3
<1> QED BY <1>4, <1>5, <1>6, <1>7, <1>8 DEF LanesInv

LEMMA FreshTurnKeeps ==
    ASSUME LanesInv, NEW k \in Locks, FreshTurn(k)
    PROVE  LanesInv'
<1> DEFINE t == guard.closures[k].threadId
           g == Unlocked(guard, k)
           source == run[mutation[k].source]
           p == source.persisted
           f == source.fromLoop
           rec == [Absent EXCEPT !.pc = "assemble", !.persisted = p, !.fromLoop = f]
<1>1. /\ mutation[k].pc = "fresh" /\ BeginTurn(t, rec, g)
      /\ mutation' = [mutation EXCEPT ![k].pc = "done"]
      /\ UNCHANGED <<entry, stopping>>
  BY DEF FreshTurn
<1>2. source \in Turn
  BY <1>1, Types DEF LanesInv, LocksAgree
<1>3. p \in BOOLEAN /\ f \in BOOLEAN
  BY <1>2 DEF Turn
<1>4. /\ g \in Guards /\ SlotsAgree(g, Holders) /\ LocksAgree(g, mutation')
      /\ g.states = guard.states /\ g.activeRuns = guard.activeRuns
      /\ mutation' \in [Locks -> [pc : {"absent", "archive", "fresh", "done"},
                                  source : Runs \union {None}]]
      /\ t \in Threads
  BY <1>1, UnlockDoes
<1> HIDE DEF p, f, g, t
<1>5. /\ rec \in Turn /\ rec.pc = "assemble" /\ rec.mission = None /\ rec.pending = FALSE
      /\ rec.retry = "none" /\ rec.loop = FALSE
  BY ZenonT(60), <1>3, AbsentFields DEF Turn, TurnAwaits
<1> HIDE DEF rec
<1>6. MissionFits(rec)
  BY <1>5 DEF MissionFits
<1>7. rec.mission = None \/ \E old \in Runs : run[old].thread = t /\ run[old].mission = rec.mission
  BY <1>5
<1> QED BY <1>1, <1>4, <1>5, <1>6, <1>7, BeginTurnKeeps

-----------------------------------------------------------------------------
(* A turn launches its Mission. *)

\* The entry that MissionRunManager.start makes for the turn r.
StartedEntry(t, l, r) ==
    [pc |-> "load", thread |-> t, lease |-> l, aborted |-> FALSE, caller |-> r]

LEMMA LaunchEntry ==
    ASSUME LanesInv, NEW r \in Runs, NEW new \in Turn, Now(r, new),
           new.pc = "starting", ~new.stopped, run[r].pc \notin {"starting", "done"},
           new.mission \in Missions, entry[new.mission].pc \in {"ready", "over"},
           NEW old \in Runs, run[old].mission = new.mission, run[old].thread = new.thread,
           new.thread \in Threads, NEW l \in Leases, l # NoLease,
           entry' = [entry EXCEPT ![new.mission] = StartedEntry(new.thread, l, r)]
    PROVE  /\ entry' \in [Missions -> Entry]
           /\ MissionHolders' = MissionHolders
                 \union {MissionHolder(new.mission, StartedEntry(new.thread, l, r))}
           /\ MissionsAgree'
<1> DEFINE m0 == new.mission
           t == new.thread
           e0 == StartedEntry(t, l, r)
<1>0. /\ run \in [Runs -> Turn] /\ entry \in [Missions -> Entry] /\ None \notin Runs
      /\ None \notin Missions /\ MissionsAgree /\ r # None
  BY Types, LanesAssumption DEF LanesInv
<1>1. /\ e0 \in Entry /\ e0.pc = "load" /\ e0.thread = t /\ e0.lease = l /\ e0.caller = r
  BY DEF StartedEntry, Entry, MissionAwaits
<1> HIDE DEF e0
<1>2. /\ entry'[m0] = e0 /\ \A m \in Missions : m # m0 => entry'[m] = entry[m]
      /\ entry' \in [Missions -> Entry]
  BY <1>0, <1>1 DEF e0
<1>3. run'[r] = new /\ \A q \in Runs : q # r => run'[q] = run[q]
  BY <1>0 DEF Now
<1>4. entry[m0].lease = NoLease
  BY <1>0 DEF MissionsAgree, EntryOK, MissionAwaits
<1>5. MissionHolders' = MissionHolders \union {MissionHolder(m0, e0)}
  BY <1>0, <1>1, <1>4, MissionHolderJoins DEF e0
<1>6. \A m \in Missions : entry[m].pc \in MissionAwaits => entry[m].caller # r
  BY <1>0 DEF MissionsAgree, Launched
<1>7. \A q \in Runs : run[q].mission # None => run[q].mission \in Missions
  BY <1>0 DEF Turn
<1>8. \A q \in Runs : run[q].pc = "starting" =>
         run[q].mission \in Missions /\ run[q].mission # m0
  <2>1. \A q \in Runs : run[q].pc = "starting" => run[q].mission # None
    BY DEF LanesInv, TurnsOK, TurnOK, MissionFits
  <2> QED BY <2>1, <1>0, <1>7 DEF MissionsAgree
<1>9. \A m \in Missions : EntryOK(entry'[m])
  <2>1. EntryOK(e0)
    BY <1>1 DEF EntryOK, MissionAwaits
  <2> QED BY <2>1, <1>0, <1>2 DEF MissionsAgree
<1>10. \A m \in Missions : entry'[m].pc \in MissionAwaits /\ entry'[m].caller # None
                             => Launched(entry'[m], m, run'[entry'[m].caller])
  <2> TAKE m \in Missions
  <2> HAVE entry'[m].pc \in MissionAwaits /\ entry'[m].caller # None
  <2>1. CASE m = m0
    BY <2>1, <1>1, <1>2, <1>3 DEF Launched
  <2>2. CASE m # m0
    <3>1. entry'[m] = entry[m] /\ entry[m].caller \in Runs /\ entry[m].caller # r
      BY <2>2, <1>0, <1>2, <1>6 DEF Entry
    <3> QED BY <3>1, <1>0, <1>3 DEF MissionsAgree
  <2> QED BY <2>1, <2>2
<1>11. \A q \in Runs : run'[q].pc = "starting" =>
          /\ entry'[run'[q].mission].pc \in {"load", "runtime", "status"}
          /\ entry'[run'[q].mission].caller = q
  <2> TAKE q \in Runs
  <2> HAVE run'[q].pc = "starting"
  <2>1. CASE q = r
    BY <2>1, <1>1, <1>2, <1>3
  <2>2. CASE q # r
    BY <2>2, <1>0, <1>2, <1>3, <1>8 DEF MissionsAgree
  <2> QED BY <2>1, <2>2
<1>12. \A q \in Runs : run'[q].mission # None =>
          \E p \in Runs : run[p].mission = run'[q].mission /\ run[p].thread = run'[q].thread
  <2> TAKE q \in Runs
  <2> HAVE run'[q].mission # None
  <2>1. CASE q = r
    BY <2>1, <1>3
  <2>2. CASE q # r
    BY <2>2, <1>3
  <2> QED BY <2>1, <2>2
<1>13. \A q \in Runs : run'[q].mission # None =>
          /\ entry'[run'[q].mission].pc # "none"
          /\ entry'[run'[q].mission].pc \in MissionAwaits
             => entry'[run'[q].mission].caller # None
  <2> TAKE q \in Runs
  <2> HAVE run'[q].mission # None
  <2>1. PICK p \in Runs : run[p].mission = run'[q].mission
    BY <1>12
  <2>2. CASE run'[q].mission = m0
    BY <2>2, <1>0, <1>1, <1>2
  <2>3. CASE run'[q].mission # m0
    BY <2>1, <2>3, <1>0, <1>2, <1>7 DEF MissionsAgree
  <2> QED BY <2>2, <2>3
<1>14. \A p, q \in Runs : run'[p].mission # None /\ run'[p].mission = run'[q].mission
                            => run'[p].thread = run'[q].thread
  <2> TAKE p, q \in Runs
  <2> HAVE run'[p].mission # None /\ run'[p].mission = run'[q].mission
  <2>1. PICK i \in Runs : run[i].mission = run'[p].mission /\ run[i].thread = run'[p].thread
    BY <1>12
  <2>2. PICK j \in Runs : run[j].mission = run'[q].mission /\ run[j].thread = run'[q].thread
    BY <1>12
  <2>3. run[i].thread = run[j].thread
    BY <2>1, <2>2, <1>0 DEF MissionsAgree
  <2> QED BY <2>1, <2>2, <2>3
<1> QED BY <1>2, <1>5, <1>9, <1>10, <1>11, <1>13, <1>14 DEF MissionsAgree, e0

\* The record of the turn that launches its Mission.
LEMMA LaunchingFits ==
    ASSUME NEW rec \in Turn, RecordFits(rec), rec.mission # None, rec.thread \in Threads,
           NEW new, new = [rec EXCEPT !.pc = "starting", !.lease = NoLease, !.pending = TRUE]
    PROVE  /\ new \in Turn /\ TurnOK(new) /\ new.pc = "starting" /\ new.lease = NoLease
           /\ new.thread = rec.thread /\ new.mission = rec.mission
           /\ new.stopped = rec.stopped /\ Registered(new)
<1>1. /\ new \in Turn /\ new.pc = "starting" /\ new.lease = NoLease /\ new.pending = TRUE
      /\ new.thread = rec.thread /\ new.mission = rec.mission /\ new.stopped = rec.stopped
      /\ new.loop = rec.loop /\ new.fromLoop = rec.fromLoop
  BY DEF Turn, TurnAwaits
<1>2. LeaseFits(new) /\ Registered(new)
  BY <1>1 DEF LeaseFits, Registered
<1>3. MissionFits(new)
  BY <1>1 DEF MissionFits, RecordFits
<1> QED BY <1>1, <1>2, <1>3 DEF TurnOK

\* A launched Mission's lease is the next one of the lease its turn held.
LEMMA LaunchLease ==
    ASSUME NEW s \in RunStates
    PROVE  /\ NextLease(<<s, 0>>) \in Leases /\ NextLease(<<s, 0>>) # NoLease
           /\ 0 < MaxGeneration
  BY GuardAssumption, LanesAssumption DEF NextLease, Leases, NoLease

LEMMA LaunchKeeps ==
    ASSUME LanesInv, NEW r \in Runs, run[r].pc \in Working \ {"recover"},
           NEW rec, Continues(r, rec), rec.mission = run[r].mission, run[r].mission # None,
           ~rec.stopped, Launch(r, rec, guard), UNCHANGED conversations, Aside
    PROVE  LanesInv'
<1> DEFINE t == run[r].thread
           m == run[r].mission
           n == NextLease(run[r].lease)
           new == [rec EXCEPT !.pc = "starting", !.lease = NoLease, !.pending = TRUE]
           h == TurnHolder(r, run[r])
           x == MissionHolder(m, StartedEntry(t, n, r))
<1>0. /\ run \in [Runs -> Turn] /\ entry \in [Missions -> Entry] /\ guard \in Guards
      /\ SlotsAgree(guard, Holders) /\ LocksAgree(guard, mutation) /\ ConversationsAgree
  BY Types DEF LanesInv
<1>1. /\ rec \in Turn /\ RecordFits(rec) /\ rec.thread = t /\ rec.lease = run[r].lease
      /\ rec.stopped = run[r].stopped /\ rec.mission = m
      /\ guard' = Transferred(guard, run[r].lease) /\ Now(r, new)
      /\ entry' = [entry EXCEPT ![m] = StartedEntry(t, n, r)]
  BY DEF Continues, Launch, StartedEntry
<1>2. /\ Active(r) /\ run[r].lease # NoLease /\ Registered(run[r])
      /\ run[r].pc \notin {"absent", "done", "starting"} /\ t \in Threads
  BY WorkingActive, WorkingHolds
<1>3. m \in Missions /\ entry[m].pc \in {"ready", "over"}
  BY <1>2, MissionIdle
<1>4. h \in Holders /\ run[r].lease \in Leases /\ run[r].lease[2] = 0
  BY <1>2, HoldingTurn
<1>5. run[r].lease[1] \in RunStates /\ run[r].lease = <<run[r].lease[1], 0>>
  BY <1>4 DEF Leases
<1>6. n \in Leases /\ n # NoLease /\ run[r].lease[2] < MaxGeneration
  BY <1>4, <1>5, LaunchLease
<1>7. /\ new \in Turn /\ TurnOK(new) /\ new.pc = "starting" /\ new.lease = NoLease
      /\ new.thread = t /\ new.mission = m /\ ~new.stopped /\ Registered(new)
  BY <1>1, <1>2, LaunchingFits
<1> HIDE DEF new, n
<1>8. /\ entry' \in [Missions -> Entry] /\ MissionHolders' = MissionHolders \union {x}
      /\ MissionsAgree'
  BY <1>1, <1>2, <1>3, <1>6, <1>7, LaunchEntry
<1>9. /\ run' \in [Runs -> Turn]
      /\ run'[r] = new /\ \A q \in Runs : q # r => run'[q] = run[q]
  BY <1>0, <1>1, <1>7 DEF Now
<1>10. /\ guard' \in Guards /\ guard'.mutations = guard.mutations
       /\ guard'.closures = guard.closures
       /\ SlotsAgree(guard', (Holders \ {h}) \union {x})
  <2>1. h.thread = t /\ h.lease = run[r].lease
    BY DEF TurnHolder
  <2>2. x.thread = t /\ x.lease = n
    BY DEF MissionHolder, StartedEntry
  <2>3. x.lease = NextLease(h.lease)
    BY <2>1, <2>2 DEF n
  <2> HIDE DEF h, x
  <2>4. /\ Transferred(guard, h.lease) \in Guards
        /\ Transferred(guard, h.lease).mutations = guard.mutations
        /\ Transferred(guard, h.lease).closures = guard.closures
        /\ SlotsAgree(Transferred(guard, h.lease), (Holders \ {h}) \union {x})
    BY <1>0, <1>4, <1>6, <2>1, <2>2, <2>3, SlotsTransferred
  <2> QED BY <1>1, <2>1, <2>4
<1>11. Holders' = (Holders \ {h}) \union {x}
  <2>1. TurnHolders' = TurnHolders \ {h}
    BY <1>0, <1>1, <1>7, TurnHolderLeaves
  <2>2. h \notin MissionHolders
    BY LanesApart DEF MissionHolders
  <2> QED BY <1>8, <2>1, <2>2 DEF Holders
<1>12. OwnershipTypeOK'
  BY <1>8, <1>9, <1>10, Types DEF OwnershipTypeOK, Turn, Entry, LanesInv, Aside
<1>13. TurnsOK'
  BY <1>7, <1>9 DEF TurnsOK, LanesInv
<1>14. SlotsAgree(guard, Holders)'
  BY <1>10, <1>11
<1>15. LocksAgree(guard, mutation)'
  BY <1>0, <1>10, LocksStay DEF Aside
<1>16. ConversationsAgree'
  <2>1. \A q \in Runs : run'[q].thread = run[q].thread
                        /\ (Registered(run'[q]) <=> Registered(run[q]))
                        /\ (run'[q].pc # "absent" <=> run[q].pc # "absent")
    BY <1>2, <1>7, <1>9
  <2> QED BY <1>0, <2>1, Types DEF LanesInv, ConversationsAgree, Active
<1>17. StopsAgree'
  BY <1>1, <1>7, StopsStay DEF Aside
<1> QED BY <1>8, <1>12, <1>13, <1>14, <1>15, <1>16, <1>17 DEF LanesInv

LEMMA PersistedKeeps ==
    ASSUME LanesInv, NEW r \in Runs, Persisted(r)
    PROVE  LanesInv'
<1> DEFINE l == run[r].loop
           rec == [run[r] EXCEPT !.persisted = TRUE, !.pending = l]
<1>1. /\ run[r].pc = "persist" /\ run[r].pc \in Working \ {"recover"}
      /\ UNCHANGED <<mutation, stopping>>
      /\ \/ Fail(r, run[r], guard) /\ UNCHANGED <<entry, snapshot>>
         \/ run[r].loop /\ Goes(r, "compensateFailed") /\ UNCHANGED <<entry, snapshot>>
         \/ TaskEnds(r, Saved(rec), guard) /\ UNCHANGED <<entry, snapshot>>
         \/ /\ ~Interrupted(r) /\ rec.loop /\ Launch(r, rec, guard)
            /\ UNCHANGED <<conversations, snapshot>>
         \/ /\ Now(r, [Saved(rec) EXCEPT !.pc = "assemble"]) /\ ~rec.loop
            /\ Show(rec.thread, "running") /\ UNCHANGED <<guard, conversations, entry>>
  BY DEF Persisted, At, Working, TurnAwaits
<1>2. run[r] \in Turn /\ RecordFits(run[r]) /\ MissionFits(run[r]) /\ Active(r) /\ l \in BOOLEAN
  BY <1>1, TurnFits, WorkingActive DEF TurnOK, Turn
<1>3. /\ rec \in Turn /\ rec.pc = "persist" /\ rec.mission = run[r].mission
      /\ rec.thread = run[r].thread /\ rec.lease = run[r].lease
      /\ rec.stopped = run[r].stopped /\ rec.loop = l
      /\ rec.fromLoop = run[r].fromLoop /\ rec.pending = l /\ rec.retry = run[r].retry
      /\ l => run[r].mission # None
  <2>1. /\ rec \in Turn /\ rec.pc = run[r].pc /\ rec.mission = run[r].mission
        /\ rec.thread = run[r].thread /\ rec.lease = run[r].lease
        /\ rec.stopped = run[r].stopped /\ rec.loop = run[r].loop
        /\ rec.fromLoop = run[r].fromLoop /\ rec.pending = l /\ rec.retry = run[r].retry
    <3> HIDE DEF l
    <3> QED BY <1>2 DEF Turn
  <2>2. l => run[r].mission # None
    BY <1>1, <1>2 DEF MissionFits
  <2> QED BY <1>1, <2>1, <2>2
<1> HIDE DEF rec
<1>4. Continues(r, rec)
  BY <1>2, <1>3 DEF Continues, RecordFits
<1>5. /\ Continues(r, Saved(rec)) /\ Saved(rec).mission = run[r].mission
      /\ Saved(rec).pending = l /\ Saved(rec).loop = l /\ Saved(rec) \in Turn
      /\ RecordFits(Saved(rec)) /\ Saved(rec).thread = run[r].thread
      /\ Saved(rec).lease = run[r].lease /\ Saved(rec).stopped = run[r].stopped
      /\ Saved(rec).fromLoop = run[r].fromLoop
  BY <1>3, <1>4, SavedFields DEF Continues
<1>6. CASE Fail(r, run[r], guard) /\ UNCHANGED <<entry, snapshot>>
  BY <1>1, <1>6, SameFits, QuietUnchanged, TurnOnlyAside, FailKeeps
<1>7. CASE run[r].loop /\ Goes(r, "compensateFailed") /\ UNCHANGED <<entry, snapshot>>
  BY <1>1, <1>2, <1>7, TurnOnlyAside, GoesKeeps
<1>8. CASE TaskEnds(r, Saved(rec), guard) /\ UNCHANGED <<entry, snapshot>>
  BY <1>1, <1>5, <1>8, QuietUnchanged, TurnOnlyAside, TaskEndsKeeps
<1>9. CASE /\ ~Interrupted(r) /\ rec.loop /\ Launch(r, rec, guard)
           /\ UNCHANGED <<conversations, snapshot>>
  <2>1. ~rec.stopped /\ run[r].mission # None
    BY <1>3, <1>9, NotInterrupted
  <2>2. Aside
    BY <1>1, <1>9, TurnOnlyAside
  <2> QED BY <1>1, <1>3, <1>4, <1>9, <2>1, <2>2, LaunchKeeps
<1>10. CASE /\ Now(r, [Saved(rec) EXCEPT !.pc = "assemble"]) /\ ~rec.loop
            /\ Show(rec.thread, "running") /\ UNCHANGED <<guard, conversations, entry>>
  <2> DEFINE s == Saved(rec)
             a == [s EXCEPT !.pc = "assemble"]
  <2>0. Now(r, a)
    BY <1>10
  <2> HIDE DEF s
  <2>1. /\ a \in Turn /\ a.pc = "assemble" /\ a.mission = run[r].mission
        /\ a.thread = run[r].thread /\ a.lease = run[r].lease
        /\ a.stopped = run[r].stopped /\ a.loop = s.loop
        /\ a.fromLoop = s.fromLoop /\ a.pending = s.pending /\ a.retry = s.retry
        /\ s.mission = run[r].mission
    <3>1. s \in Turn /\ s.mission = run[r].mission /\ s.thread = run[r].thread
          /\ s.lease = run[r].lease /\ s.stopped = run[r].stopped
      BY <1>5 DEF s
    <3> QED BY <3>1 DEF Turn, TurnAwaits
  <2>2. RecordFits(s)
    BY <1>5 DEF s
  <2> HIDE DEF a
  <2>3. Continues(r, a) /\ MissionFits(a) /\ a.pc \in Working
    BY <2>1, <2>2 DEF Continues, MissionFits, RecordFits, Working, TurnAwaits
  <2>4. Aside
    BY <1>1, <1>10, ShowFits DEF Aside, Phases
  <2> QED BY <1>1, <1>2, <1>10, <2>0, <2>1, <2>3, <2>4, QuietUnchanged, GoesOnKeeps
<1> QED BY <1>1, <1>6, <1>7, <1>8, <1>9, <1>10

LEMMA RepersistedKeeps ==
    ASSUME LanesInv, NEW r \in Runs, Repersisted(r)
    PROVE  LanesInv'
<1> DEFINE rec == [run[r] EXCEPT !.persisted = TRUE]
<1>1. /\ run[r].pc = "repersist" /\ run[r].pc \in Working \ {"recover"} /\ Aside
      /\ \/ Fail(r, run[r], guard) /\ entry' = entry
         \/ TaskEnds(r, Saved(rec), guard) /\ entry' = entry
         \/ ~Interrupted(r) /\ Launch(r, rec, guard) /\ UNCHANGED conversations
  BY TurnOnlyAside DEF Repersisted, At, Working, TurnAwaits
<1>2. run[r] \in Turn /\ RecordFits(run[r]) /\ run[r].mission # None
  BY <1>1, TurnFits DEF TurnOK, MissionFits
<1>3. /\ rec \in Turn /\ rec.mission = run[r].mission
      /\ rec.thread = run[r].thread /\ rec.lease = run[r].lease
      /\ rec.stopped = run[r].stopped /\ rec.loop = run[r].loop
      /\ rec.fromLoop = run[r].fromLoop /\ rec.pending = run[r].pending
      /\ rec.retry = run[r].retry
  BY <1>2 DEF Turn
<1> HIDE DEF rec
<1>4. Continues(r, rec)
  BY <1>2, <1>3 DEF Continues, RecordFits
<1>5. Continues(r, Saved(rec)) /\ Saved(rec).mission = run[r].mission
  BY <1>3, <1>4, SavedFields DEF Continues
<1>6. CASE Fail(r, run[r], guard) /\ entry' = entry
  BY <1>1, <1>6, SameFits, QuietUnchanged, FailKeeps
<1>7. CASE TaskEnds(r, Saved(rec), guard) /\ entry' = entry
  BY <1>1, <1>5, <1>7, QuietUnchanged, TaskEndsKeeps
<1>8. CASE ~Interrupted(r) /\ Launch(r, rec, guard) /\ UNCHANGED conversations
  <2>1. ~rec.stopped
    BY <1>3, <1>8, NotInterrupted
  <2> QED BY <1>1, <1>2, <1>3, <1>4, <1>8, <2>1, LaunchKeeps
<1> QED BY <1>1, <1>6, <1>7, <1>8

\* The retried record launches as one that was to be persisted again would.
LEMMA LaunchedRecord ==
    ASSUME NEW pc, NEW fromLoop, NEW loop, NEW m, NEW pending, NEW persisted, NEW t, NEW l,
           NEW ro, ro = [Absent EXCEPT !.pc = pc, !.fromLoop = fromLoop, !.loop = loop,
                                       !.mission = m, !.pending = pending,
                                       !.persisted = persisted]
    PROVE  [[ro EXCEPT !.thread = t, !.lease = l]
               EXCEPT !.pc = "starting", !.lease = NoLease, !.pending = TRUE]
           = [[[ro EXCEPT !.pc = "repersist"] EXCEPT !.thread = t, !.lease = l]
               EXCEPT !.pc = "starting", !.lease = NoLease, !.pending = TRUE]
  BY ZenonT(60) DEF Absent

\* The retry of a turn whose message is there launches at once.
LEMMA RetryLaunchKeeps ==
    ASSUME LanesInv, NEW t \in Threads, NEW old \in Runs,
           run[old].thread = t, run[old].retry = "handoff",
           NewRuns # {}, NewStates # {}, Free(guard, t),
           Launch(NewRun, [RetryOf(old) EXCEPT !.thread = t, !.lease = <<NewState, 0>>],
                  Begun(guard, t, NewState)),
           conversations' = [conversations EXCEPT ![t] = NewRun],
           Show(t, "preparing"), UNCHANGED <<mutation, stopping>>
    PROVE  LanesInv'
<1> DEFINE r == NewRun
           l == <<NewState, 0>>
           n == NextLease(l)
           m == run[old].mission
           b == Begun(guard, t, NewState)
           ro == RetryOf(old)
           rec == [ro EXCEPT !.thread = t, !.lease = l]
           base == [[ro EXCEPT !.pc = "repersist"] EXCEPT !.thread = t, !.lease = l]
           new == [rec EXCEPT !.pc = "starting", !.lease = NoLease, !.pending = TRUE]
           h == TurnHolder(r, rec)
           x == MissionHolder(m, StartedEntry(t, n, r))
<1>0. /\ run \in [Runs -> Turn] /\ entry \in [Missions -> Entry] /\ guard \in Guards
      /\ conversations \in [Threads -> Runs \union {None}]
      /\ SlotsAgree(guard, Holders) /\ LocksAgree(guard, mutation) /\ ConversationsAgree
      /\ TurnsOK
  BY Types DEF LanesInv
<1>1. /\ r \in Runs /\ r # None /\ run[r].pc = "absent" /\ run[r].lease = NoLease
      /\ run[r].thread = None
      /\ \A u \in Threads : conversations[u] # r
      /\ NewState \in RunStates /\ guard.states[NewState].threadId = None
      /\ l \in Leases /\ l # NoLease
  BY NewTurn
<1>2. /\ [ro EXCEPT !.pc = "repersist"] \in Turn /\ ro.mission = m /\ m # None
      /\ ro.stopped = FALSE /\ (ro.loop \/ ro.mission # None => ro.fromLoop)
      /\ ro.retry = "none" /\ ro.pending = TRUE
  BY RetryOfFields
<1>a. /\ ro = [Absent EXCEPT !.pc = run[old].retry, !.fromLoop = run[old].fromLoop,
                   !.loop = run[old].loop /\ run[old].retry # "handoff",
                   !.mission = IF run[old].retry = "handoff" THEN run[old].mission ELSE None,
                   !.pending = (run[old].retry = "handoff"),
                   !.persisted = run[old].persisted]
  BY DEF RetryOf
<1> HIDE DEF r, ro
<1>3. /\ base \in Turn /\ base.thread = t /\ base.mission = m /\ base.stopped = FALSE
      /\ base.loop = ro.loop /\ base.fromLoop = ro.fromLoop /\ base.retry = "none"
      /\ new = [base EXCEPT !.pc = "starting", !.lease = NoLease, !.pending = TRUE]
      /\ rec.thread = t /\ rec.lease = l /\ rec.mission = m
  <2>1. base \in Turn
    BY <1>1, <1>2 DEF Turn
  <2>2. /\ base.thread = t /\ base.mission = m /\ base.stopped = FALSE
        /\ base.loop = ro.loop /\ base.fromLoop = ro.fromLoop /\ base.retry = "none"
    BY <1>2, <1>a DEF Absent
  <2>3. new = [base EXCEPT !.pc = "starting", !.lease = NoLease, !.pending = TRUE]
    BY <1>a, LaunchedRecord
  <2>4. rec.thread = t /\ rec.lease = l /\ rec.mission = m
    BY <1>2, <1>a DEF Absent
  <2> QED BY <2>1, <2>2, <2>3, <2>4
<1>4. /\ guard' = Transferred(b, l) /\ Now(r, new)
      /\ entry' = [entry EXCEPT ![m] = StartedEntry(t, n, r)]
  <2>1. Launch(r, rec, b)
    BY DEF r, ro
  <2> HIDE DEF b
  <2>2. guard' = Transferred(b, l) /\ Now(r, new)
    BY <1>3, <2>1 DEF Launch
  <2>3. entry' = [entry EXCEPT ![m] = StartedEntry(t, n, r)]
    <3> HIDE DEF rec
    <3> QED BY <1>3, <2>1 DEF Launch, StartedEntry
  <2> QED BY <2>2, <2>3
<1> HIDE DEF rec, base, new
<1>5. RecordFits(base)
  BY <1>2, <1>3 DEF RecordFits
<1>6. /\ new \in Turn /\ TurnOK(new) /\ new.pc = "starting" /\ new.lease = NoLease
      /\ new.thread = t /\ new.mission = m /\ ~new.stopped /\ Registered(new)
  BY ZenonT(60), <1>2, <1>3, <1>5, LaunchingFits
<1>7. m \in Missions /\ entry[m].pc \in {"ready", "over"}
  BY <1>2, MissionIdle
<1>8. n \in Leases /\ n # NoLease /\ 0 < MaxGeneration
  BY <1>1, LaunchLease
<1> HIDE DEF n
<1>9. /\ entry' \in [Missions -> Entry] /\ MissionHolders' = MissionHolders \union {x}
      /\ MissionsAgree'
  BY ZenonT(60), <1>1, <1>4, <1>6, <1>7, <1>8, LaunchEntry
<1>10. /\ run' \in [Runs -> Turn]
       /\ run'[r] = new /\ \A q \in Runs : q # r => run'[q] = run[q]
  BY <1>0, <1>1, <1>4, <1>6 DEF Now
<1>11. h.thread = t /\ h.lease = l /\ x.thread = t /\ x.lease = n /\ h.who = r
  BY <1>3 DEF TurnHolder, MissionHolder, StartedEntry
<1>12. h \notin Holders
  <2>1. h \notin TurnHolders
    BY <1>1, <1>11 DEF TurnHolders, TurnHolder
  <2>2. h \notin MissionHolders
    BY LanesApart DEF MissionHolders
  <2> QED BY <2>1, <2>2 DEF Holders
<1> HIDE DEF h, x
<1>13. /\ guard' \in Guards /\ guard'.mutations = guard.mutations
       /\ guard'.closures = guard.closures
       /\ SlotsAgree(guard', Holders \union {x})
  <2> DEFINE J == Holders \union {h}
  <2>1. /\ b \in Guards /\ b.mutations = guard.mutations /\ b.closures = guard.closures
        /\ SlotsAgree(b, J)
    BY SMTT(30), <1>0, <1>1, <1>11, SlotsBegun
  <2>2. h \in J /\ (J \ {h}) \union {x} = Holders \union {x}
    BY <1>12
  <2> HIDE DEF J, b
  <2>3. x.lease = NextLease(h.lease) /\ x.thread = h.thread /\ h.lease[2] < MaxGeneration
    BY <1>8, <1>11 DEF n
  <2>4. /\ Transferred(b, h.lease) \in Guards
        /\ Transferred(b, h.lease).mutations = b.mutations
        /\ Transferred(b, h.lease).closures = b.closures
        /\ SlotsAgree(Transferred(b, h.lease), (J \ {h}) \union {x})
    BY <2>1, <2>2, <2>3, SlotsTransferred
  <2> QED BY <1>4, <1>11, <2>1, <2>2, <2>4
<1>14. Holders' = Holders \union {x}
  <2>1. TurnHolders' = TurnHolders \ {TurnHolder(r, run[r])}
    BY <1>0, <1>1, <1>4, <1>6, TurnHolderLeaves
  <2>2. TurnHolder(r, run[r]) \notin TurnHolders
    BY <1>1 DEF TurnHolders, TurnHolder
  <2> QED BY <1>9, <2>1, <2>2 DEF Holders
<1>15. OwnershipTypeOK'
  <2>1. conversations' \in [Threads -> Runs \union {None}]
    BY <1>0, <1>1 DEF r
  <2>2. snapshot' \in [Threads -> Phases]
    BY ShowFits DEF Phases
  <2> QED BY <1>9, <1>10, <1>13, <2>1, <2>2, Types DEF OwnershipTypeOK, Turn, Entry, LanesInv
<1>16. TurnsOK'
  BY <1>0, <1>6, <1>10 DEF TurnsOK
<1>17. SlotsAgree(guard, Holders)'
  BY <1>13, <1>14
<1>18. LocksAgree(guard, mutation)'
  BY <1>0, <1>13, LocksStay
<1>19. ConversationsAgree'
  <2>1. conversations[t] = None
    BY RegisteredBusy DEF Free
  <2>2. conversations'[t] = r /\ \A u \in Threads : u # t => conversations'[u] = conversations[u]
    BY <1>0 DEF r
  <2>3. \A u \in Threads : conversations'[u] # None => run'[conversations'[u]].thread = u
    <3> TAKE u \in Threads
    <3>1. CASE u = t
      BY <3>1, <1>6, <1>10, <2>2
    <3>2. CASE u # t
      BY <3>2, <1>0, <1>1, <1>10, <2>2 DEF ConversationsAgree
    <3> QED BY <3>1, <3>2
  <2>4. \A q \in Runs : run'[q].pc # "absent" =>
           (conversations'[run'[q].thread] = q <=> Registered(run'[q]))
    <3> TAKE q \in Runs
    <3> HAVE run'[q].pc # "absent"
    <3>1. CASE q = r
      BY <3>1, <1>6, <1>10, <2>2
    <3>2. CASE q # r
      <4>1. run'[q] = run[q] /\ run[q].thread \in Threads
        BY <3>2, <1>0, <1>10 DEF TurnsOK, TurnOK
      <4>2. conversations[run[q].thread] = q <=> Registered(run[q])
        BY <1>0, <4>1 DEF ConversationsAgree, Active
      <4>3. conversations'[run[q].thread] = q <=> conversations[run[q].thread] = q
        BY <3>2, <4>1, <2>1, <2>2, LanesAssumption
      <4> QED BY <4>1, <4>2, <4>3
    <3> QED BY <3>1, <3>2
  <2> QED BY <2>3, <2>4 DEF ConversationsAgree, Active
<1>20. StopsAgree'
  BY <1>1, <1>4, <1>6, StopsStay
<1> QED BY <1>9, <1>15, <1>16, <1>17, <1>18, <1>19, <1>20 DEF LanesInv

LEMMA RetryKeeps ==
    ASSUME LanesInv, NEW t \in Threads, Retry(t)
    PROVE  LanesInv'
<1>1. UNCHANGED <<mutation, stopping>>
  BY DEF Retry
<1>2. PICK old \in Runs :
          /\ run[old].pc = "done" /\ run[old].thread = t /\ run[old].retry # "none"
          /\ IF run[old].retry = "handoff" /\ run[old].persisted
             THEN /\ NewRuns # {} /\ NewStates # {} /\ Free(guard, t)
                  /\ Launch(NewRun, [RetryOf(old) EXCEPT !.thread = t, !.lease = <<NewState, 0>>],
                            Begun(guard, t, NewState))
                  /\ conversations' = [conversations EXCEPT ![t] = NewRun]
                  /\ Show(t, "preparing")
             ELSE /\ BeginTurn(t, IF run[old].retry = "handoff"
                                  THEN [RetryOf(old) EXCEPT !.pc = "repersist"]
                                  ELSE RetryOf(old), guard)
                  /\ UNCHANGED entry
  BY DEF Retry
<1>3. CASE run[old].retry = "handoff" /\ run[old].persisted
  BY <1>1, <1>2, <1>3, RetryLaunchKeeps
<1>4. CASE ~(run[old].retry = "handoff" /\ run[old].persisted)
  BY <1>1, <1>2, <1>4, RetryTurnKeeps
<1> QED BY <1>3, <1>4

-----------------------------------------------------------------------------
(* The steps of a Mission. *)

LaunchAwaits == {"load", "runtime", "status"}

\* A Mission that was launched by a turn, before it loops.
LEMMA Launching ==
    ASSUME LanesInv, NEW m \in Missions, entry[m].pc \in LaunchAwaits, entry[m].caller # None,
           NEW r, r = entry[m].caller
    PROVE  /\ r \in Runs /\ run[r] \in Turn /\ RecordFits(run[r])
           /\ run[r].pc = "starting" /\ run[r].lease = NoLease
           /\ run[r].mission = m /\ run[r].fromLoop
           /\ run[r].thread = entry[m].thread /\ run[r].thread \in Threads
           /\ run[r].stopped => entry[m].aborted
           /\ Active(r) /\ entry[m].lease # NoLease
<1>0. /\ run \in [Runs -> Turn] /\ entry \in [Missions -> Entry]
      /\ MissionsAgree /\ ConversationsAgree /\ m # None
  BY Types, LanesAssumption DEF LanesInv
<1>1. r \in Runs /\ entry[m].pc \in MissionAwaits /\ entry[m].pc # "looping"
  BY <1>0 DEF Entry, LaunchAwaits, MissionAwaits
<1>2. EntryOK(entry[m]) /\ Launched(entry[m], m, run[r])
  BY <1>0, <1>1 DEF MissionsAgree
<1>3. /\ run[r].pc = "starting" /\ run[r].mission = m /\ run[r].thread = entry[m].thread
      /\ run[r].stopped => entry[m].aborted
      /\ entry[m].thread \in Threads /\ entry[m].lease # NoLease
  BY <1>1, <1>2 DEF Launched, EntryOK
<1>4. run[r] \in Turn /\ RecordFits(run[r]) /\ run[r].lease = NoLease
  BY <1>1, <1>3, TurnFits DEF TurnOK, LeaseFits
<1>5. run[r].fromLoop
  BY <1>0, <1>3, <1>4 DEF RecordFits
<1>6. Active(r)
  BY <1>0, <1>1, <1>3 DEF ConversationsAgree, Registered
<1> QED BY <1>1, <1>3, <1>4, <1>5, <1>6

\* A Mission's record changes and no turn's does.
MissionFitsTurns(m, e) ==
    /\ e \in Entry /\ EntryOK(e)
    /\ e.pc \in MissionAwaits /\ e.caller # None => Launched(e, m, run[e.caller])
    /\ \A r \in Runs : run[r].mission = m =>
          /\ e.pc # "none"
          /\ e.pc \in MissionAwaits => e.caller # None
          /\ run[r].pc = "starting" => e.pc \in LaunchAwaits /\ e.caller = r

LEMMA MissionAlone ==
    ASSUME LanesInv, NEW m \in Missions, NEW e, MissionFitsTurns(m, e),
           entry' = [entry EXCEPT ![m] = e], UNCHANGED run
    PROVE  entry' \in [Missions -> Entry] /\ MissionsAgree'
<1>0. /\ run \in [Runs -> Turn] /\ entry \in [Missions -> Entry] /\ e \in Entry
      /\ MissionsAgree /\ None \notin Missions /\ run' = run
  BY Types, LanesAssumption DEF LanesInv, MissionFitsTurns
<1>1. entry'[m] = e /\ \A n \in Missions : n # m => entry'[n] = entry[n]
  BY <1>0
<1>2. \A q \in Runs : run[q].mission # None => run[q].mission \in Missions
  BY <1>0 DEF Turn
<1>3. \A q \in Runs : run[q].pc = "starting" => run[q].mission # None
  BY DEF LanesInv, TurnsOK, TurnOK, MissionFits
<1>4. \A n \in Missions : EntryOK(entry'[n])
  BY <1>0, <1>1 DEF MissionsAgree, MissionFitsTurns
<1>5. \A n \in Missions : entry'[n].pc \in MissionAwaits /\ entry'[n].caller # None
                            => Launched(entry'[n], n, run'[entry'[n].caller])
  <2> TAKE n \in Missions
  <2>1. CASE n = m
    BY <2>1, <1>0, <1>1 DEF MissionFitsTurns
  <2>2. CASE n # m
    BY <2>2, <1>0, <1>1 DEF MissionsAgree
  <2> QED BY <2>1, <2>2
<1>6. \A q \in Runs : run'[q].pc = "starting" =>
        /\ entry'[run'[q].mission].pc \in {"load", "runtime", "status"}
        /\ entry'[run'[q].mission].caller = q
  <2> TAKE q \in Runs
  <2>1. CASE run[q].mission = m
    BY <2>1, <1>0, <1>1 DEF MissionFitsTurns, LaunchAwaits
  <2>2. CASE run[q].mission # m
    BY <2>2, <1>0, <1>1, <1>2, <1>3 DEF MissionsAgree
  <2> QED BY <2>1, <2>2
<1>7. \A q \in Runs : run'[q].mission # None =>
        /\ entry'[run'[q].mission].pc # "none"
        /\ entry'[run'[q].mission].pc \in MissionAwaits
           => entry'[run'[q].mission].caller # None
  <2> TAKE q \in Runs
  <2>1. CASE run[q].mission = m
    BY <2>1, <1>0, <1>1 DEF MissionFitsTurns
  <2>2. CASE run[q].mission # m
    BY <2>2, <1>0, <1>1, <1>2 DEF MissionsAgree
  <2> QED BY <2>1, <2>2
<1>8. \A p, q \in Runs : run'[p].mission # None /\ run'[p].mission = run'[q].mission
                           => run'[p].thread = run'[q].thread
  BY <1>0 DEF MissionsAgree
<1>9. entry' \in [Missions -> Entry]
  BY <1>0
<1> QED BY <1>4, <1>5, <1>6, <1>7, <1>8, <1>9 DEF MissionsAgree

\* What is left of LanesInv after a step of a Mission alone.
LEMMA MissionStepKeeps ==
    ASSUME LanesInv, entry' \in [Missions -> Entry], MissionsAgree',
           guard' \in Guards, guard'.mutations = guard.mutations,
           guard'.closures = guard.closures, SlotsAgree(guard, Holders)',
           UNCHANGED <<conversations, run, mutation, stopping, snapshot>>
    PROVE  LanesInv'
<1>1. OwnershipTypeOK'
  BY Types DEF LanesInv, OwnershipTypeOK, Entry, Turn
<1>2. TurnsOK' /\ ConversationsAgree' /\ StopsAgree'
  BY DEF LanesInv, TurnsOK, ConversationsAgree, Active, StopsAgree
<1>3. LocksAgree(guard, mutation)'
  BY LocksStay DEF LanesInv
<1> QED BY <1>1, <1>2, <1>3 DEF LanesInv

LEMMA SameSlots ==
    ASSUME LanesInv, NEW m \in Missions, NEW e, entry' = [entry EXCEPT ![m] = e],
           e.lease = entry[m].lease, e.lease = NoLease \/ e.thread = entry[m].thread,
           MissionFitsTurns(m, e),
           UNCHANGED <<guard, conversations, run, mutation, stopping, snapshot>>
    PROVE  LanesInv'
<1>0. /\ entry \in [Missions -> Entry] /\ guard \in Guards /\ SlotsAgree(guard, Holders)
      /\ guard' = guard /\ run' = run
  BY Types DEF LanesInv
<1>1. entry' \in [Missions -> Entry] /\ MissionsAgree'
  BY MissionAlone
<1>2. MissionHolders' = MissionHolders
  BY <1>0, SameMissionHolders
<1>3. TurnHolders' = TurnHolders
  BY <1>0 DEF TurnHolders
<1>4. SlotsAgree(guard, Holders)'
  BY <1>0, <1>2, <1>3 DEF Holders
<1> QED BY <1>0, <1>1, <1>4, MissionStepKeeps

LEMMA SlotTaken ==
    ASSUME LanesInv, NEW m \in Missions, NEW e, entry' = [entry EXCEPT ![m] = e],
           entry[m].lease = NoLease, e.lease = <<NewState, 0>>, e.thread \in Threads,
           NewStates # {}, Free(guard, e.thread), guard' = Begun(guard, e.thread, NewState),
           MissionFitsTurns(m, e), UNCHANGED <<conversations, run, mutation, stopping, snapshot>>
    PROVE  LanesInv'
<1> DEFINE x == MissionHolder(m, e)
<1>0. /\ entry \in [Missions -> Entry] /\ guard \in Guards /\ SlotsAgree(guard, Holders)
      /\ run' = run
  BY Types DEF LanesInv
<1>1. entry' \in [Missions -> Entry] /\ MissionsAgree'
  BY MissionAlone
<1>2. NewState \in RunStates /\ guard.states[NewState].threadId = None /\ NewState # None
  BY GuardAssumption DEF NewStates, NewState
<1>3. e.lease # NoLease
  BY <1>2 DEF NoLease
<1>4. MissionHolders' = MissionHolders \union {x}
  BY <1>0, <1>3, MissionHolderJoins
<1>5. TurnHolders' = TurnHolders
  BY <1>0 DEF TurnHolders
<1>6. Holders' = Holders \union {x}
  BY <1>4, <1>5 DEF Holders
<1>7. x.thread = e.thread /\ x.lease = <<NewState, 0>>
  BY DEF MissionHolder
<1> HIDE DEF x
<1>8. /\ guard' \in Guards /\ guard'.mutations = guard.mutations
      /\ guard'.closures = guard.closures /\ SlotsAgree(guard', Holders \union {x})
  <2> DEFINE t == e.thread
             s == NewState
             b == Begun(guard, t, s)
  <2>1. t \in Threads /\ s \in RunStates /\ Free(guard, t) /\ guard.states[s].threadId = None
        /\ x.thread = t /\ x.lease = <<s, 0>> /\ guard' = b
    BY <1>2, <1>7
  <2> HIDE DEF t, s
  <2>2. /\ b \in Guards /\ b.mutations = guard.mutations
        /\ b.closures = guard.closures /\ SlotsAgree(b, Holders \union {x})
    BY <1>0, <2>1, SlotsBegun
  <2> QED BY <2>1, <2>2
<1>9. SlotsAgree(guard, Holders)'
  BY <1>6, <1>8
<1> QED BY <1>1, <1>8, <1>9, MissionStepKeeps

\* A Mission that holds a lease.
LEMMA SlotGiven ==
    ASSUME LanesInv, NEW m \in Missions, entry[m].lease # NoLease,
           NEW e, e.lease = NoLease, entry' = [entry EXCEPT ![m] = e],
           TurnHolders' = TurnHolders, guard' = Released(guard, entry[m].lease)
    PROVE  /\ guard' \in Guards /\ guard'.mutations = guard.mutations
           /\ guard'.closures = guard.closures /\ SlotsAgree(guard, Holders)'
<1> DEFINE x == MissionHolder(m, entry[m])
<1>0. entry \in [Missions -> Entry] /\ guard \in Guards /\ SlotsAgree(guard, Holders)
  BY Types DEF LanesInv
<1>1. x \in Holders /\ x.lease = entry[m].lease
  BY DEF Holders, MissionHolders, MissionHolder
<1>2. MissionHolders' = MissionHolders \ {x}
  BY <1>0, MissionHolderLeaves
<1>3. x \notin TurnHolders
  BY LanesApart DEF TurnHolders
<1>4. Holders' = Holders \ {x}
  BY <1>2, <1>3 DEF Holders
<1> HIDE DEF x
<1>5. /\ Released(guard, x.lease) \in Guards
      /\ Released(guard, x.lease).mutations = guard.mutations
      /\ Released(guard, x.lease).closures = guard.closures
      /\ SlotsAgree(Released(guard, x.lease), Holders \ {x})
  BY <1>0, <1>1, SlotsReleased
<1>6. guard' = Released(guard, x.lease)
  BY <1>1
<1> QED BY <1>4, <1>5, <1>6

\* The turn that launched a Mission is over: the Mission loops, or the launch
\* was rejected.
LEMMA LaunchOver ==
    ASSUME LanesInv, NEW m \in Missions, entry[m].pc \in LaunchAwaits, entry[m].caller # None,
           NEW r, r = entry[m].caller, NEW new \in Turn, TurnOK(new), Now(r, new),
           new.pc \in {"done", "tail"}, new.lease = NoLease, new.thread = run[r].thread,
           new.stopped = run[r].stopped, new.mission = run[r].mission,
           conversations' = [conversations EXCEPT ![run[r].thread] = None], Aside,
           NEW e, entry' = [entry EXCEPT ![m] = e],
           \/ /\ e = [entry[m] EXCEPT !.pc = "looping"] /\ new.pc = "done"
              /\ guard' = guard
           \/ /\ e = [NoMission EXCEPT !.pc = "ready"]
              /\ guard' = Released(guard, entry[m].lease)
    PROVE  LanesInv'
<1> DEFINE t == run[r].thread
<1>0. /\ run \in [Runs -> Turn] /\ entry \in [Missions -> Entry] /\ guard \in Guards
      /\ conversations \in [Threads -> Runs \union {None}] /\ SlotsAgree(guard, Holders)
      /\ LocksAgree(guard, mutation) /\ ConversationsAgree /\ MissionsAgree
      /\ None \notin Runs /\ None \notin Missions
  BY Types, LanesAssumption DEF LanesInv
<1>1. /\ r \in Runs /\ run[r].pc = "starting" /\ run[r].lease = NoLease
      /\ run[r].mission = m /\ t = entry[m].thread /\ t \in Threads
      /\ run[r].stopped => entry[m].aborted
      /\ Active(r) /\ entry[m].lease # NoLease
  BY Launching
<1>2. /\ run' \in [Runs -> Turn] /\ run'[r] = new
      /\ \A q \in Runs : q # r => run'[q] = run[q]
  BY <1>0, <1>1 DEF Now
<1>3. /\ e \in Entry /\ EntryOK(e) /\ e.pc \in {"looping", "ready"}
      /\ e.pc = "looping" => new.pc = "done" /\ e.caller = r /\ Launched(e, m, new)
  <2>1. CASE e = [entry[m] EXCEPT !.pc = "looping"] /\ new.pc = "done"
    <3>1. /\ e \in Entry /\ e.pc = "looping" /\ e.thread = entry[m].thread
          /\ e.lease = entry[m].lease /\ e.aborted = entry[m].aborted /\ e.caller = r
      BY <1>0, <2>1 DEF Entry, MissionAwaits
    <3>2. EntryOK(e)
      BY <1>1, <3>1 DEF EntryOK, MissionAwaits
    <3> QED BY <1>1, <2>1, <3>1, <3>2 DEF Launched
  <2>2. CASE e = [NoMission EXCEPT !.pc = "ready"]
    BY <2>2 DEF NoMission, Entry, EntryOK, MissionAwaits
  <2> QED BY <2>1, <2>2
<1>4. TurnHolders' = TurnHolders
  BY <1>0, <1>1, SameTurnHolders
<1>5. /\ guard' \in Guards /\ guard'.mutations = guard.mutations
      /\ guard'.closures = guard.closures /\ SlotsAgree(guard, Holders)'
  <2>1. CASE e = [entry[m] EXCEPT !.pc = "looping"] /\ guard' = guard
    <3>1. e.lease = entry[m].lease /\ e.thread = entry[m].thread
      BY <1>0, <2>1 DEF Entry
    <3>2. MissionHolders' = MissionHolders
      BY <1>0, <3>1, SameMissionHolders
    <3>3. Holders' = Holders
      BY <1>4, <3>2 DEF Holders
    <3> QED BY <1>0, <2>1, <3>3
  <2>2. CASE e = [NoMission EXCEPT !.pc = "ready"] /\ guard' = Released(guard, entry[m].lease)
    <3>1. e.lease = NoLease
      BY <2>2 DEF NoMission
    <3> QED BY <1>1, <1>4, <2>2, <3>1, SlotGiven
  <2> QED BY <2>1, <2>2
<1>6. entry'[m] = e /\ \A n \in Missions : n # m => entry'[n] = entry[n]
  BY <1>0
<1>7. entry' \in [Missions -> Entry]
  BY <1>0, <1>3
<1> HIDE DEF t
<1>8. MissionsAgree'
  <2>1. \A n \in Missions : EntryOK(entry'[n])
    BY <1>0, <1>3, <1>6 DEF MissionsAgree
  <2>2. \A n \in Missions : entry'[n].pc \in MissionAwaits /\ entry'[n].caller # None
                              => Launched(entry'[n], n, run'[entry'[n].caller])
    <3> TAKE n \in Missions
    <3> HAVE entry'[n].pc \in MissionAwaits /\ entry'[n].caller # None
    <3>1. CASE n = m
      BY <3>1, <1>2, <1>3, <1>6 DEF MissionAwaits
    <3>2. CASE n # m
      <4>1. entry'[n] = entry[n] /\ entry[n].caller \in Runs
            /\ Launched(entry[n], n, run[entry[n].caller])
        BY <3>2, <1>0, <1>6 DEF MissionsAgree, Entry
      <4>2. entry[n].caller # r
        BY <3>2, <4>1, <1>1 DEF Launched
      <4> QED BY <1>2, <4>1, <4>2
    <3> QED BY <3>1, <3>2
  <2>3. \A q \in Runs : run[q].mission # None => run[q].mission \in Missions
    BY <1>0 DEF Turn
  <2>4. \A q \in Runs : run'[q].pc = "starting" =>
          /\ entry'[run'[q].mission].pc \in {"load", "runtime", "status"}
          /\ entry'[run'[q].mission].caller = q
    <3> TAKE q \in Runs
    <3> HAVE run'[q].pc = "starting"
    <3>1. q # r /\ run'[q] = run[q] /\ run[q].pc = "starting"
      BY <1>2
    <3>2. /\ entry[run[q].mission].pc \in {"load", "runtime", "status"}
          /\ entry[run[q].mission].caller = q
      BY <1>0, <3>1 DEF MissionsAgree
    <3>3. run[q].mission # m
      BY <3>1, <3>2
    <3>4. run[q].mission # None
      BY <3>1 DEF LanesInv, TurnsOK, TurnOK, MissionFits
    <3> QED BY <1>6, <2>3, <3>1, <3>2, <3>3, <3>4
  <2>5. \A q \in Runs : run'[q].mission = run[q].mission /\ run'[q].thread = run[q].thread
    BY <1>2
  <2>6. \A q \in Runs : run'[q].mission # None =>
          /\ entry'[run'[q].mission].pc # "none"
          /\ entry'[run'[q].mission].pc \in MissionAwaits
             => entry'[run'[q].mission].caller # None
    <3> TAKE q \in Runs
    <3>1. CASE run[q].mission = m
      BY <3>1, <1>0, <1>1, <1>3, <1>6, <2>5 DEF MissionAwaits
    <3>2. CASE run[q].mission # m
      BY <3>2, <1>0, <1>6, <2>3, <2>5 DEF MissionsAgree
    <3> QED BY <3>1, <3>2
  <2>7. \A p, q \in Runs : run'[p].mission # None /\ run'[p].mission = run'[q].mission
                             => run'[p].thread = run'[q].thread
    BY <1>0, <2>5 DEF MissionsAgree
  <2> QED BY <2>1, <2>2, <2>4, <2>6, <2>7 DEF MissionsAgree
<1>9. conversations' \in [Threads -> Runs \union {None}]
  BY <1>0
<1>10. OwnershipTypeOK'
  BY <1>2, <1>5, <1>7, <1>9, Types DEF OwnershipTypeOK, Turn, Entry, LanesInv, Aside
<1>11. TurnsOK'
  BY <1>2 DEF TurnsOK, LanesInv
<1>12. LocksAgree(guard, mutation)'
  BY <1>0, <1>5, LocksStay DEF Aside
<1>13. ConversationsAgree'
  <2>1. conversations'[t] = None /\ \A u \in Threads : u # t => conversations'[u] = conversations[u]
    BY <1>0, <1>1 DEF t
  <2>2. conversations[t] = r /\ t = run[r].thread /\ ~Registered(new) /\ new.thread = t
    BY <1>1 DEF Active, Registered, t
  <2>3. \A q \in Runs : run[q].pc # "absent" => run[q].thread \in Threads
    BY DEF LanesInv, TurnsOK, TurnOK
  <2>4. \A u \in Threads : conversations'[u] # None => run'[conversations'[u]].thread = u
    <3> TAKE u \in Threads
    <3> HAVE conversations'[u] # None
    <3>1. u # t /\ conversations'[u] = conversations[u] /\ conversations[u] \in Runs
      BY <1>0, <2>1
    <3>2. run[conversations[u]].thread = u
      BY <1>0, <3>1 DEF ConversationsAgree
    <3> QED BY <3>1, <3>2, <1>2, <2>2
  <2>5. \A q \in Runs : run'[q].pc # "absent" =>
           (conversations'[run'[q].thread] = q <=> Registered(run'[q]))
    <3> TAKE q \in Runs
    <3> HAVE run'[q].pc # "absent"
    <3>1. CASE q = r
      BY <3>1, <1>0, <1>2, <2>1, <2>2
    <3>2. CASE q # r
      <4>1. run'[q] = run[q] /\ run[q].thread \in Threads
        BY <3>2, <1>2, <2>3
      <4>2. conversations[run[q].thread] = q <=> Registered(run[q])
        BY <1>0, <4>1 DEF ConversationsAgree, Active
      <4>3. conversations'[run[q].thread] = q <=> conversations[run[q].thread] = q
        BY <3>2, <1>0, <4>1, <2>1, <2>2
      <4> QED BY <4>1, <4>2, <4>3
    <3> QED BY <3>1, <3>2
  <2> QED BY <2>4, <2>5 DEF ConversationsAgree, Active
<1>14. StopsAgree'
  BY <1>1, StopsStay DEF Aside
<1> QED BY <1>5, <1>8, <1>10, <1>11, <1>12, <1>13, <1>14 DEF LanesInv

\* What becomes of the Mission m when the turn that launched it ends at pc.
LaunchSettled(m, e, pc, g) ==
    \/ e = [entry[m] EXCEPT !.pc = "looping"] /\ pc = "done" /\ g = guard
    \/ e = [NoMission EXCEPT !.pc = "ready"] /\ g = Released(guard, entry[m].lease)

\* rec is the record of the turn r after some bookkeeping, at pc.
ContinuesAt(r, rec, pc) ==
    Continues(r, rec) /\ rec.pc = pc /\ rec.mission = run[r].mission

\* How the turn that waits for a launch ends: retired, with the lease it has
\* handed over already gone.
LEMMA LaunchRetires ==
    ASSUME LanesInv, NEW m \in Missions, entry[m].pc \in LaunchAwaits, entry[m].caller # None,
           NEW r, r = entry[m].caller, Aside,
           NEW rec, NEW pc \in {"done", "tail"}, ContinuesAt(r, rec, pc),
           NEW g, Retire(r, rec, g),
           NEW e, entry' = [entry EXCEPT ![m] = e], LaunchSettled(m, e, pc, g)
    PROVE  LanesInv'
<1> DEFINE d == [rec EXCEPT !.lease = NoLease]
<1>1. /\ r \in Runs /\ run[r].lease = NoLease /\ run[r].thread \in Threads
  BY Launching
<1>2. /\ rec \in Turn /\ RecordFits(rec) /\ rec.thread = run[r].thread
      /\ rec.lease = NoLease /\ rec.stopped = run[r].stopped
      /\ rec.pc = pc /\ rec.mission = run[r].mission
  BY <1>1 DEF Continues, ContinuesAt
<1>3. /\ d = Ended(rec, rec.pc)
  BY <1>2 DEF Ended, Turn
<1>4. /\ d \in Turn /\ TurnOK(d) /\ d.pc = rec.pc /\ d.lease = NoLease
      /\ d.thread = rec.thread /\ d.stopped = rec.stopped /\ d.mission = rec.mission
  BY <1>1, <1>2, <1>3, EndedFits
<1>5. /\ Now(r, d) /\ guard' = g
      /\ conversations' = [conversations EXCEPT ![run[r].thread] = None]
  BY <1>2 DEF Retire
<1> HIDE DEF d
<1> QED BY <1>2, <1>4, <1>5, LaunchOver DEF LaunchSettled

\* The record of a launching turn, with the hand-over pending or not.
Awaiting(r, p, pc) == [[run[r] EXCEPT !.pending = p] EXCEPT !.pc = pc]

LEMMA PendingFits ==
    ASSUME LanesInv, NEW m \in Missions, entry[m].pc \in LaunchAwaits, entry[m].caller # None,
           NEW r, r = entry[m].caller, NEW pc \in {"starting", "done", "tail"},
           NEW rec, rec = Awaiting(r, TRUE, pc) \/ rec = Awaiting(r, FALSE, pc)
    PROVE  ContinuesAt(r, rec, pc) /\ ContinuesAt(r, Saved(rec), pc)
<1>1. /\ run[r] \in Turn /\ RecordFits(run[r]) /\ run[r].mission = m /\ m # None
      /\ run[r].fromLoop
  BY Launching, LanesAssumption
<1>2. PICK a \in Turn :
      /\ a.thread = run[r].thread /\ a.lease = run[r].lease
      /\ a.stopped = run[r].stopped /\ a.mission = m /\ a.fromLoop
      /\ rec = [a EXCEPT !.pc = pc]
  <2>1. ASSUME NEW p \in BOOLEAN, rec = Awaiting(r, p, pc)
        PROVE  \E a \in Turn :
                  /\ a.thread = run[r].thread /\ a.lease = run[r].lease
                  /\ a.stopped = run[r].stopped /\ a.mission = m /\ a.fromLoop
                  /\ rec = [a EXCEPT !.pc = pc]
    <3> DEFINE a == [run[r] EXCEPT !.pending = p]
    <3>1. /\ a \in Turn /\ a.thread = run[r].thread /\ a.lease = run[r].lease
          /\ a.stopped = run[r].stopped /\ a.mission = m /\ a.fromLoop
          /\ rec = [a EXCEPT !.pc = pc]
      BY <1>1, <2>1 DEF Turn, Awaiting
    <3> HIDE DEF a
    <3> QED BY <3>1
  <2> QED BY <2>1
<1>3. /\ rec \in Turn /\ rec.pc = pc /\ rec.thread = run[r].thread
      /\ rec.lease = run[r].lease /\ rec.stopped = run[r].stopped
      /\ rec.mission = m /\ rec.fromLoop
  BY <1>2 DEF Turn, TurnAwaits
<1>4. RecordFits(rec)
  BY <1>1, <1>3 DEF RecordFits
<1>5. /\ Saved(rec) \in Turn /\ RecordFits(Saved(rec)) /\ Saved(rec).pc = pc
      /\ Saved(rec).thread = run[r].thread /\ Saved(rec).lease = run[r].lease
      /\ Saved(rec).stopped = run[r].stopped /\ Saved(rec).mission = m
  BY <1>3, <1>4, SavedFields
<1> QED BY <1>1, <1>3, <1>4, <1>5 DEF Continues, ContinuesAt

LEMMA RejectedKeeps ==
    ASSUME LanesInv, NEW m \in Missions, entry[m].pc \in LaunchAwaits, Rejected(m)
    PROVE  LanesInv'
<1> DEFINE r == entry[m].caller
           g == IF entry[m].lease = NoLease THEN guard ELSE Released(guard, entry[m].lease)
           over == [NoMission EXCEPT !.pc = "over"]
           ready == [NoMission EXCEPT !.pc = "ready"]
<1>0. entry \in [Missions -> Entry] /\ guard \in Guards /\ SlotsAgree(guard, Holders)
      /\ UNCHANGED <<mutation, stopping, snapshot>>
  BY Types DEF LanesInv, Rejected
<1>1. CASE r = None
  <2>1. /\ entry' = [entry EXCEPT ![m] = over] /\ guard' = g /\ UNCHANGED <<conversations, run>>
    BY <1>1 DEF Rejected
  <2>2. over \in Entry /\ over.pc = "over" /\ over.lease = NoLease /\ over.caller = None
    BY DEF NoMission, Entry
  <2>3. EntryOK(over)
    BY <2>2 DEF EntryOK, MissionAwaits
  <2>4. \A q \in Runs : run[q].mission = m => run[q].pc # "starting"
    <3>1. \A q \in Runs : run[q].pc = "starting" => entry[run[q].mission].caller = q
      BY DEF LanesInv, MissionsAgree
    <3> QED BY <1>1, <3>1, LanesAssumption
  <2>5. MissionFitsTurns(m, over)
    BY <2>2, <2>3, <2>4 DEF MissionFitsTurns, MissionAwaits
  <2> HIDE DEF over
  <2>6. CASE entry[m].lease = NoLease
    <3>1. UNCHANGED <<guard, conversations, run, mutation, stopping, snapshot>>
      BY <1>0, <2>1, <2>6
    <3> QED BY <2>1, <2>2, <2>5, <2>6, <3>1, SameSlots
  <2>7. CASE entry[m].lease # NoLease
    <3>1. TurnHolders' = TurnHolders
      BY <2>1 DEF TurnHolders
    <3>2. /\ guard' \in Guards /\ guard'.mutations = guard.mutations
          /\ guard'.closures = guard.closures /\ SlotsAgree(guard, Holders)'
      BY <2>1, <2>2, <2>7, <3>1, SlotGiven
    <3>3. entry' \in [Missions -> Entry] /\ MissionsAgree'
      BY <2>1, <2>5, MissionAlone
    <3> QED BY <1>0, <2>1, <3>2, <3>3, MissionStepKeeps
  <2> QED BY <2>6, <2>7
<1>2. CASE r # None
  <2> DEFINE a == [run[r] EXCEPT !.pending = TRUE]
             d == [a EXCEPT !.pc = "done"]
             tl == [a EXCEPT !.pc = "tail"]
  <2>1. /\ entry' = [entry EXCEPT ![m] = ready] /\ Fail(r, a, g)
        /\ Active(r) /\ entry[m].lease # NoLease
    BY <1>2, Launching DEF Rejected
  <2>2. run[r].fromLoop /\ run[r] \in Turn
    BY <1>2, Launching
  <2>3. a.fromLoop
    BY <2>2 DEF Turn
  <2>4. Retire(r, d, g) \/ Retire(r, Saved(tl), g)
    BY <2>1, <2>3 DEF Fail, TaskEnds
  <2>5. g = Released(guard, entry[m].lease) /\ Aside
    BY <1>0, <2>1, TurnOnlyAside
  <2>a. /\ d = Awaiting(r, TRUE, "done") /\ tl = Awaiting(r, TRUE, "tail")
        /\ r = entry[m].caller
        /\ LaunchSettled(m, ready, "done", g) /\ LaunchSettled(m, ready, "tail", g)
    BY <2>5 DEF Awaiting, LaunchSettled
  <2> HIDE DEF r, a, d, tl, g, ready
  <2>6. ContinuesAt(r, d, "done")
    BY <1>2, <2>a, PendingFits
  <2>7. ContinuesAt(r, Saved(tl), "tail")
    BY <1>2, <2>a, PendingFits
  <2>8. CASE Retire(r, d, g)
    BY <1>2, <2>1, <2>5, <2>6, <2>8, <2>a, LaunchRetires
  <2>9. CASE Retire(r, Saved(tl), g)
    <3> DEFINE s == Saved(tl)
    <3>1. ContinuesAt(r, s, "tail") /\ Retire(r, s, g)
      BY <2>7, <2>9
    <3> HIDE DEF s
    <3> QED BY <1>2, <2>1, <2>5, <2>a, <3>1, LaunchRetires
  <2> QED BY <2>4, <2>8, <2>9
<1> QED BY <1>1, <1>2

\* A Mission goes on from one await to the next.
Onward(m, l, pc) == [[entry[m] EXCEPT !.lease = l] EXCEPT !.pc = pc]

LEMMA GoesOnFits ==
    ASSUME LanesInv, NEW m \in Missions, entry[m].pc \in LaunchAwaits,
           NEW pc \in LaunchAwaits, NEW l \in Leases \union {NoLease}, l # NoLease,
           NEW e, e = Onward(m, l, pc)
    PROVE  /\ MissionFitsTurns(m, e) /\ e.lease = l /\ e.thread = entry[m].thread
           /\ e.thread \in Threads
<1> DEFINE f == [entry[m] EXCEPT !.lease = l]
<1>0. /\ entry \in [Missions -> Entry] /\ run \in [Runs -> Turn] /\ MissionsAgree
      /\ m # None
  BY Types, LanesAssumption DEF LanesInv
<1>1. f \in Entry
  BY <1>0 DEF Entry
<1>2. /\ e \in Entry /\ e.pc = pc /\ e.lease = l /\ e.thread = entry[m].thread
      /\ e.aborted = entry[m].aborted /\ e.caller = entry[m].caller
  <2>1. pc \in MissionAwaits
    BY DEF LaunchAwaits, MissionAwaits
  <2> QED BY <1>0, <1>1, <2>1 DEF Entry, Onward
<1>3. entry[m].thread \in Threads /\ entry[m].pc \in MissionAwaits /\ pc \in MissionAwaits
      /\ pc # "looping" /\ entry[m].pc # "looping" /\ pc # "none"
  BY <1>0 DEF MissionsAgree, EntryOK, LaunchAwaits, MissionAwaits
<1>4. EntryOK(e)
  BY <1>2, <1>3 DEF EntryOK
<1>5. e.caller # None => Launched(e, m, run[e.caller])
  BY <1>0, <1>2, <1>3 DEF MissionsAgree, Launched
<1>6. ASSUME NEW q \in Runs, run[q].mission = m
      PROVE  /\ e.caller # None
             /\ run[q].pc = "starting" => e.caller = q
  BY <1>0, <1>2, <1>3, <1>6 DEF MissionsAgree
<1> QED BY <1>2, <1>3, <1>4, <1>5, <1>6 DEF MissionFitsTurns

LEMMA LoadMissionKeeps ==
    ASSUME LanesInv, NEW m \in Missions, LoadMission(m)
    PROVE  LanesInv'
<1>0. entry \in [Missions -> Entry] /\ entry[m].pc = "load" /\ entry[m].pc \in LaunchAwaits
      /\ "runtime" \in LaunchAwaits
  BY Types DEF LanesInv, LoadMission, LaunchAwaits
<1>1. CASE Rejected(m)
  BY <1>0, <1>1, RejectedKeeps
<1>2. CASE /\ entry[m].lease # NoLease
           /\ entry' = [entry EXCEPT ![m].pc = "runtime"]
           /\ UNCHANGED guard
           /\ UNCHANGED <<conversations, run, mutation, stopping, snapshot>>
  <2> DEFINE l == entry[m].lease
             e == [[entry[m] EXCEPT !.lease = l] EXCEPT !.pc = "runtime"]
  <2>1. l \in Leases \union {NoLease} /\ l # NoLease
    BY <1>0, <1>2 DEF Entry
  <2>2. entry' = [entry EXCEPT ![m] = e]
    BY <1>0, <1>2 DEF Entry
  <2>a. e = Onward(m, l, "runtime") /\ l = entry[m].lease
    BY DEF Onward
  <2> HIDE DEF e, l
  <2>3. MissionFitsTurns(m, e) /\ e.lease = l /\ e.thread = entry[m].thread
    BY <1>0, <2>1, <2>a, GoesOnFits
  <2> QED BY <1>2, <2>2, <2>3, <2>a, SameSlots
<1>3. CASE /\ entry[m].lease = NoLease
           /\ NewStates # {} /\ Free(guard, entry[m].thread)
           /\ guard' = Begun(guard, entry[m].thread, NewState)
           /\ entry' = [entry EXCEPT ![m].pc = "runtime", ![m].lease = <<NewState, 0>>]
           /\ UNCHANGED <<conversations, run, mutation, stopping, snapshot>>
  <2> DEFINE l == <<NewState, 0>>
             e == [[entry[m] EXCEPT !.lease = l] EXCEPT !.pc = "runtime"]
  <2>1. l \in Leases \union {NoLease} /\ l # NoLease
    <3>1. NewState \in RunStates /\ NewState # None
      BY <1>3, GuardAssumption DEF NewStates, NewState
    <3>2. l # NoLease
      BY <3>1 DEF NoLease
    <3> QED BY <3>1, <3>2, GuardAssumption DEF Leases
  <2>2. entry' = [entry EXCEPT ![m] = e]
    <3> HIDE DEF l
    <3>1. entry' = [entry EXCEPT ![m].pc = "runtime", ![m].lease = l]
      BY <1>3 DEF l
    <3> QED BY <1>0, <3>1 DEF Entry
  <2>3. MissionFitsTurns(m, e) /\ e.lease = l /\ e.thread = entry[m].thread
        /\ e.thread \in Threads
    BY <1>0, <2>1, GoesOnFits DEF Onward
  <2> HIDE DEF e
  <2> QED BY <1>3, <2>2, <2>3, SlotTaken
<1> QED BY <1>1, <1>2, <1>3 DEF LoadMission

LEMMA RuntimeReadyKeeps ==
    ASSUME LanesInv, NEW m \in Missions, RuntimeReady(m)
    PROVE  LanesInv'
<1>0. entry \in [Missions -> Entry] /\ entry[m].pc = "runtime" /\ entry[m].pc \in LaunchAwaits
      /\ "status" \in LaunchAwaits
  BY Types DEF LanesInv, RuntimeReady, LaunchAwaits
<1>1. CASE Rejected(m)
  BY <1>0, <1>1, RejectedKeeps
<1>2. CASE /\ entry' = [entry EXCEPT ![m].pc = "status"]
           /\ UNCHANGED <<guard, conversations, run, mutation, stopping, snapshot>>
  <2> DEFINE l == entry[m].lease
             e == [[entry[m] EXCEPT !.lease = l] EXCEPT !.pc = "status"]
  <2>1. l \in Leases \union {NoLease} /\ l # NoLease
    BY <1>0 DEF Entry, LanesInv, MissionsAgree, EntryOK
  <2>2. entry' = [entry EXCEPT ![m] = e]
    BY <1>0, <1>2 DEF Entry
  <2>a. e = Onward(m, l, "status") /\ l = entry[m].lease
    BY DEF Onward
  <2> HIDE DEF e, l
  <2>3. MissionFitsTurns(m, e) /\ e.lease = l /\ e.thread = entry[m].thread
    BY <1>0, <2>1, <2>a, GoesOnFits
  <2> QED BY <1>2, <2>2, <2>3, <2>a, SameSlots
<1> QED BY <1>1, <1>2 DEF RuntimeReady

LEMMA StatusPersistedKeeps ==
    ASSUME LanesInv, NEW m \in Missions, StatusPersisted(m)
    PROVE  LanesInv'
<1> DEFINE r == entry[m].caller
           rec == [run[r] EXCEPT !.pending = FALSE]
           e == [entry[m] EXCEPT !.pc = "looping"]
<1>0. entry \in [Missions -> Entry] /\ entry[m].pc = "status" /\ entry[m].pc \in LaunchAwaits
  BY Types DEF LanesInv, StatusPersisted, LaunchAwaits
<1>1. CASE Rejected(m)
  BY <1>0, <1>1, RejectedKeeps
<1>2. CASE /\ entry' = [entry EXCEPT ![m].pc = "looping"]
           /\ r = None /\ UNCHANGED <<guard, conversations, run, snapshot>>
           /\ UNCHANGED <<mutation, stopping>>
  <2>1. entry' = [entry EXCEPT ![m] = e]
    BY <1>0, <1>2
  <2>2. /\ e \in Entry /\ e.pc = "looping" /\ e.thread = entry[m].thread
        /\ e.lease = entry[m].lease /\ e.caller = None
    BY <1>0, <1>2 DEF Entry, MissionAwaits
  <2> HIDE DEF e
  <2>3. EntryOK(e)
    BY <1>0, <2>2 DEF EntryOK, LanesInv, MissionsAgree, MissionAwaits
  <2>4. \A q \in Runs : run[q].mission # m
    BY <1>0, <1>2, LanesAssumption DEF LanesInv, MissionsAgree, MissionAwaits
  <2>5. MissionFitsTurns(m, e)
    BY <2>2, <2>3, <2>4 DEF MissionFitsTurns
  <2> QED BY <1>2, <2>1, <2>2, <2>5, SameSlots
<1>3. CASE /\ entry' = [entry EXCEPT ![m].pc = "looping"] /\ r # None
           /\ \/ Interrupted(r) /\ TaskEnds(r, Saved(rec), guard) /\ UNCHANGED snapshot
              \/ /\ Retire(r, [rec EXCEPT !.pc = "done"], guard)
                 /\ Show(rec.thread, "completed")
           /\ UNCHANGED <<mutation, stopping>>
  <2>0. entry' = [entry EXCEPT ![m] = e] /\ Active(r) /\ run[r] \in Turn
    BY <1>0, <1>3, Launching
  <2>1. Aside
    BY <1>3, ShowFits DEF Aside, Phases, LanesInv, OwnershipTypeOK
  <2>a. /\ r = entry[m].caller /\ rec = [run[r] EXCEPT !.pending = FALSE]
        /\ LaunchSettled(m, e, "done", guard)
    BY DEF LaunchSettled
  <2> HIDE DEF r, e, rec
  <2>2. CASE Retire(r, [rec EXCEPT !.pc = "done"], guard)
    <3> DEFINE d == [rec EXCEPT !.pc = "done"]
    <3>1. d = Awaiting(r, FALSE, "done") /\ Retire(r, d, guard)
      BY <2>2, <2>a DEF Awaiting
    <3> HIDE DEF d
    <3>2. ContinuesAt(r, d, "done")
      BY <1>0, <1>3, <2>a, <3>1, PendingFits
    <3> QED BY <1>0, <1>3, <2>0, <2>1, <2>a, <3>1, <3>2, LaunchRetires
  <2>3. CASE TaskEnds(r, Saved(rec), guard)
    <3> DEFINE d == [Saved(rec) EXCEPT !.pc = "done"]
               s == [rec EXCEPT !.pc = "starting"]
    <3>0. s = Awaiting(r, FALSE, "starting")
      BY <2>a DEF Awaiting
    <3>2. s = rec
      <4>1. run[r].pc = "starting" /\ run[r] \in Turn
        BY <1>0, <1>3, <2>a, Launching
      <4> QED BY <2>a, <4>1 DEF Turn
    <3> HIDE DEF s
    <3>1. ContinuesAt(r, Saved(s), "starting")
      BY <1>0, <1>3, <2>a, <3>0, PendingFits
    <3>3. Continues(r, Saved(rec)) /\ Saved(rec).mission = run[r].mission
      BY <3>1, <3>2 DEF ContinuesAt
    <3>4. ContinuesAt(r, d, "done")
      <4> DEFINE z == Saved(rec)
      <4>1. z \in Turn /\ RecordFits(z) /\ z.thread = run[r].thread /\ z.lease = run[r].lease
            /\ z.stopped = run[r].stopped /\ z.mission = run[r].mission
        BY <3>3 DEF Continues
      <4> HIDE DEF z
      <4>2. [z EXCEPT !.pc = "done"] \in Turn
        BY <4>1 DEF Turn
      <4>3. /\ Continues(r, [z EXCEPT !.pc = "done"]) /\ [z EXCEPT !.pc = "done"].pc = "done"
            /\ [z EXCEPT !.pc = "done"].mission = run[r].mission
        BY <4>1, <4>2 DEF Continues, Turn, RecordFits
      <4> QED BY <4>3 DEF z, ContinuesAt
    <3>5. Retire(r, d, guard)
      BY <2>0, <2>3 DEF TaskEnds
    <3> HIDE DEF d
    <3> QED BY <1>0, <1>3, <2>0, <2>1, <2>a, <3>4, <3>5, LaunchRetires
  <2> QED BY <1>3, <2>2, <2>3
<1> QED BY <1>1, <1>2, <1>3 DEF StatusPersisted

LEMMA MissionEndsKeeps ==
    ASSUME LanesInv, NEW m \in Missions, MissionEnds(m)
    PROVE  LanesInv'
<1> DEFINE e == [[entry[m] EXCEPT !.pc = "over"] EXCEPT !.lease = NoLease]
<1>0. /\ entry \in [Missions -> Entry] /\ entry[m].pc = "looping" /\ m # None
      /\ guard' = Released(guard, entry[m].lease)
      /\ entry' = [entry EXCEPT ![m].pc = "over", ![m].lease = NoLease]
      /\ UNCHANGED <<conversations, run, mutation, stopping, snapshot>>
  BY Types, LanesAssumption DEF LanesInv, MissionEnds
<1>1. entry' = [entry EXCEPT ![m] = e]
  BY <1>0 DEF Entry
<1>2. e \in Entry /\ e.pc = "over" /\ e.lease = NoLease
  <2>1. [entry[m] EXCEPT !.pc = "over"] \in Entry
    BY <1>0 DEF Entry
  <2> QED BY <2>1 DEF Entry
<1> HIDE DEF e
<1>3. EntryOK(e)
  BY <1>2 DEF EntryOK, MissionAwaits
<1>4. entry[m].lease # NoLease
  BY <1>0 DEF LanesInv, MissionsAgree, EntryOK
<1>5. \A q \in Runs : run[q].mission = m => run[q].pc # "starting"
  BY <1>0 DEF LanesInv, MissionsAgree
<1>6. MissionFitsTurns(m, e)
  BY <1>2, <1>3, <1>5 DEF MissionFitsTurns, MissionAwaits
<1>7. TurnHolders' = TurnHolders
  BY <1>0 DEF TurnHolders
<1>8. /\ guard' \in Guards /\ guard'.mutations = guard.mutations
      /\ guard'.closures = guard.closures /\ SlotsAgree(guard, Holders)'
  BY <1>0, <1>1, <1>2, <1>4, <1>7, SlotGiven
<1>9. entry' \in [Missions -> Entry] /\ MissionsAgree'
  BY <1>0, <1>1, <1>6, MissionAlone
<1> QED BY <1>0, <1>8, <1>9, MissionStepKeeps

LEMMA StartMissionKeeps ==
    ASSUME LanesInv, NEW t \in Threads, StartMission(t)
    PROVE  LanesInv'
<1> DEFINE m == NewMission
           e == [NoMission EXCEPT !.pc = "load", !.thread = t]
<1>0. /\ NewMissions # {} /\ entry \in [Missions -> Entry]
      /\ entry' = [entry EXCEPT ![m] = e]
      /\ UNCHANGED <<guard, conversations, run, mutation, stopping, snapshot>>
  BY Types DEF LanesInv, StartMission
<1>1. m \in Missions /\ m # None /\ entry[m].pc = "none" /\ \A r \in Runs : run[r].mission # m
  BY <1>0, FreshMission
<1>2. e \in Entry /\ e.pc = "load" /\ e.thread = t /\ e.lease = NoLease /\ e.caller = None
  BY DEF NoMission, Entry, MissionAwaits
<1> HIDE DEF e, m
<1>3. EntryOK(e)
  BY <1>2 DEF EntryOK
<1>4. entry[m].lease = NoLease
  BY <1>1 DEF LanesInv, MissionsAgree, EntryOK, MissionAwaits
<1>5. MissionFitsTurns(m, e)
  BY <1>1, <1>2, <1>3 DEF MissionFitsTurns
<1> QED BY <1>0, <1>1, <1>2, <1>4, <1>5, SameSlots

-----------------------------------------------------------------------------
(* The steps of a Stop. *)

LEMMA StopEndsKeeps ==
    ASSUME LanesInv, stopping' \in [Threads -> Runs \union {None}],
           \A t \in Threads : stopping'[t] # None => run[stopping'[t]].pc # "absent",
           UNCHANGED <<guard, conversations, run, entry, mutation, snapshot>>
    PROVE  LanesInv'
<1>1. OwnershipTypeOK'
  BY DEF LanesInv, OwnershipTypeOK
<1>2. TurnsOK' /\ ConversationsAgree' /\ MissionsAgree' /\ LocksAgree(guard, mutation)'
  BY DEF LanesInv, TurnsOK, ConversationsAgree, Active, MissionsAgree
<1>3. SlotsAgree(guard, Holders)'
  BY DEF LanesInv, Holders, TurnHolders, MissionHolders
<1>4. StopsAgree'
  BY DEF StopsAgree
<1> QED BY <1>1, <1>2, <1>3, <1>4 DEF LanesInv

LEMMA StopRequestedKeeps ==
    ASSUME LanesInv, NEW t \in Threads, StopRequested(t)
    PROVE  LanesInv'
<1>1. /\ conversations[t] # None /\ stopping' = [stopping EXCEPT ![t] = conversations[t]]
      /\ UNCHANGED <<guard, conversations, run, entry, mutation, snapshot>>
      /\ stopping \in [Threads -> Runs \union {None}]
  BY Types DEF LanesInv, StopRequested
<1>2. conversations[t] \in Runs /\ run[conversations[t]].pc # "absent"
  BY <1>1, RegisteredBusy
<1>3. stopping' \in [Threads -> Runs \union {None}]
  BY <1>1, <1>2
<1>4. \A u \in Threads : stopping'[u] # None => run[stopping'[u]].pc # "absent"
  BY <1>1, <1>2 DEF LanesInv, StopsAgree
<1> QED BY <1>1, <1>3, <1>4, StopEndsKeeps

\* A Stop that is over without a trace.
LEMMA StopForgotten ==
    ASSUME LanesInv, NEW t \in Threads, stopping' = [stopping EXCEPT ![t] = None],
           UNCHANGED <<guard, conversations, run, entry, mutation, snapshot>>
    PROVE  LanesInv'
<1>1. stopping \in [Threads -> Runs \union {None}]
  BY Types DEF LanesInv
<1>2. \A u \in Threads : stopping'[u] # None => run[stopping'[u]].pc # "absent"
  BY <1>1 DEF LanesInv, StopsAgree
<1> QED BY <1>1, <1>2, StopEndsKeeps

\* The turn that is marked, and the Mission it is launching.
StopMark(r, new) ==
    /\ Now(r, new)
    /\ entry' = IF run[r].pc = "starting"
                THEN [entry EXCEPT ![run[r].mission].aborted = TRUE]
                ELSE entry

LEMMA StopMarkMissions ==
    ASSUME LanesInv, NEW r \in Runs, NEW new \in Turn, StopMark(r, new),
           new.pc = run[r].pc, new.thread = run[r].thread, new.mission = run[r].mission,
           run[r].pc # "done"
    PROVE  entry' \in [Missions -> Entry] /\ MissionHolders' = MissionHolders /\ MissionsAgree'
<1>0. /\ run \in [Runs -> Turn] /\ entry \in [Missions -> Entry] /\ MissionsAgree
      /\ None \notin Missions
  BY Types, LanesAssumption DEF LanesInv
<1>1. /\ run'[r] = new /\ \A q \in Runs : q # r => run'[q] = run[q]
      /\ \A q \in Runs : run[q].mission # None => run[q].mission \in Missions
      /\ \A q \in Runs : run[q].pc = "starting" => run[q].mission # None
  <2>1. run'[r] = new /\ \A q \in Runs : q # r => run'[q] = run[q]
    BY <1>0 DEF StopMark, Now
  <2>2. \A q \in Runs : run[q].mission # None => run[q].mission \in Missions
    BY <1>0 DEF Turn
  <2>3. \A q \in Runs : run[q].pc = "starting" => run[q].mission # None
    BY DEF LanesInv, TurnsOK, TurnOK, MissionFits
  <2> QED BY <2>1, <2>2, <2>3
<1>2. /\ entry' \in [Missions -> Entry] /\ MissionHolders' = MissionHolders
      /\ \A m \in Missions : /\ entry'[m].pc = entry[m].pc /\ entry'[m].thread = entry[m].thread
                             /\ entry'[m].lease = entry[m].lease
                             /\ entry'[m].caller = entry[m].caller
                             /\ entry[m].aborted => entry'[m].aborted
      /\ run[r].pc = "starting" => entry'[run[r].mission].aborted
  <2>1. CASE run[r].pc = "starting"
    <3> DEFINE m == run[r].mission
               e == [entry[m] EXCEPT !.aborted = TRUE]
    <3>1. m \in Missions /\ entry' = [entry EXCEPT ![m] = e]
      BY <1>0, <1>1, <2>1 DEF StopMark
    <3>2. /\ e \in Entry /\ e.pc = entry[m].pc /\ e.thread = entry[m].thread
          /\ e.lease = entry[m].lease /\ e.caller = entry[m].caller /\ e.aborted = TRUE
      BY <1>0, <3>1 DEF Entry
    <3> HIDE DEF m, e
    <3>3. MissionHolders' = MissionHolders
      BY <1>0, <3>1, <3>2, SameMissionHolders
    <3>4. entry'[m] = e /\ \A n \in Missions : n # m => entry'[n] = entry[n]
      BY <1>0, <3>1
    <3>5. entry' \in [Missions -> Entry]
      BY <1>0, <3>1, <3>2
    <3> QED BY <3>2, <3>3, <3>4, <3>5 DEF m
  <2>2. CASE run[r].pc # "starting"
    <3>1. entry' = entry
      BY <2>2 DEF StopMark
    <3> QED BY <1>0, <2>2, <3>1 DEF MissionHolders
  <2> QED BY <2>1, <2>2
<1>3. \A q \in Runs : /\ run'[q].pc = run[q].pc /\ run'[q].thread = run[q].thread
                      /\ run'[q].mission = run[q].mission
  BY <1>1
<1>4. \A m \in Missions : EntryOK(entry'[m])
  BY <1>0, <1>2 DEF MissionsAgree, EntryOK
<1>5. \A m \in Missions : entry'[m].pc \in MissionAwaits /\ entry'[m].caller # None
                            => Launched(entry'[m], m, run'[entry'[m].caller])
  <2> TAKE m \in Missions
  <2> HAVE entry'[m].pc \in MissionAwaits /\ entry'[m].caller # None
  <2> DEFINE q == entry[m].caller
  <2>1. q \in Runs /\ Launched(entry[m], m, run[q]) /\ entry'[m].caller = q
    BY <1>0, <1>2 DEF MissionsAgree, Entry
  <2> HIDE DEF q
  <2>2. run'[q].stopped => entry'[m].aborted
    <3>1. CASE q # r
      BY <3>1, <1>1, <1>2, <2>1 DEF Launched
    <3>2. CASE q = r
      BY <3>2, <1>2, <2>1 DEF Launched
    <3> QED BY <3>1, <3>2
  <2> QED BY <1>2, <1>3, <2>1, <2>2 DEF Launched
<1>6. \A q \in Runs : run'[q].pc = "starting" =>
        /\ entry'[run'[q].mission].pc \in {"load", "runtime", "status"}
        /\ entry'[run'[q].mission].caller = q
  BY <1>0, <1>1, <1>2, <1>3 DEF MissionsAgree
<1>7. \A q \in Runs : run'[q].mission # None =>
        /\ entry'[run'[q].mission].pc # "none"
        /\ entry'[run'[q].mission].pc \in MissionAwaits
           => entry'[run'[q].mission].caller # None
  BY <1>0, <1>1, <1>2, <1>3 DEF MissionsAgree
<1>8. \A p, q \in Runs : run'[p].mission # None /\ run'[p].mission = run'[q].mission
                           => run'[p].thread = run'[q].thread
  BY <1>0, <1>3 DEF MissionsAgree
<1> QED BY <1>2, <1>4, <1>5, <1>6, <1>7, <1>8 DEF MissionsAgree

LEMMA StopConfirmedKeeps ==
    ASSUME LanesInv, NEW t \in Threads, StopConfirmed(t)
    PROVE  LanesInv'
<1> DEFINE r == stopping[t]
           a == [run[r] EXCEPT !.stopped = TRUE]
           new == Saved(a)
<1>0. /\ run \in [Runs -> Turn] /\ entry \in [Missions -> Entry] /\ guard \in Guards
      /\ conversations \in [Threads -> Runs \union {None}]
      /\ stopping \in [Threads -> Runs \union {None}]
      /\ SlotsAgree(guard, Holders) /\ LocksAgree(guard, mutation) /\ ConversationsAgree
  BY Types DEF LanesInv
<1>1. /\ r \in Runs /\ run[r].pc # "absent"
      /\ stopping' = [stopping EXCEPT ![t] = None]
      /\ UNCHANGED <<guard, conversations, mutation>>
  BY <1>0 DEF StopConfirmed, LanesInv, StopsAgree
<1>2. CASE ~Active(r)
  BY <1>1, <1>2, StopForgotten DEF StopConfirmed
<1>3. CASE Active(r)
  <2>1. StopMark(r, new) /\ Show(t, "interrupted")
    BY <1>3 DEF StopConfirmed, StopMark, At
  <2>2. run[r] \in Turn /\ TurnOK(run[r]) /\ RecordFits(run[r]) /\ Registered(run[r])
        /\ run[r].pc # "hydrate"
    BY <1>0, <1>1, <1>3, TurnFits DEF ConversationsAgree, Registered
  <2>3. run[r].pc # "done"
    BY <2>2 DEF Registered, TurnOK, LeaseFits
  <2>4. /\ a \in Turn /\ a.pc = run[r].pc /\ a.thread = run[r].thread
        /\ a.lease = run[r].lease /\ a.mission = run[r].mission /\ a.loop = run[r].loop
        /\ a.fromLoop = run[r].fromLoop /\ a.pending = run[r].pending
        /\ a.retry = run[r].retry
    BY <2>2 DEF Turn
  <2> HIDE DEF a
  <2>5. /\ new \in Turn /\ new.pc = run[r].pc /\ new.thread = run[r].thread
        /\ new.lease = run[r].lease /\ new.mission = run[r].mission /\ new.loop = run[r].loop
        /\ new.fromLoop = run[r].fromLoop /\ new.pending = run[r].pending
        /\ new.retry = "handoff" => run[r].pending
    BY <2>4, SavedFields
  <2> HIDE DEF new
  <2>6. TurnOK(new) /\ Registered(new)
    <3>1. LeaseFits(new) /\ Registered(new)
      BY <2>2, <2>5 DEF TurnOK, LeaseFits, Registered
    <3>2. MissionFits(new)
      BY <2>2, <2>5 DEF TurnOK, MissionFits
    <3> QED BY <1>1, <2>2, <2>5, <3>1, <3>2 DEF TurnOK
  <2> HIDE DEF r
  <2>7. entry' \in [Missions -> Entry] /\ MissionHolders' = MissionHolders /\ MissionsAgree'
    BY <1>1, <2>1, <2>3, <2>5, StopMarkMissions
  <2>8. /\ run' \in [Runs -> Turn]
        /\ run'[r] = new /\ \A q \in Runs : q # r => run'[q] = run[q]
    BY <1>0, <1>1, <2>1, <2>5 DEF StopMark, Now
  <2>9. TurnHolders' = TurnHolders
    BY <1>0, <1>1, <2>1, <2>5, SameTurnHolders DEF StopMark
  <2>10. SlotsAgree(guard, Holders)'
    <3>1. Holders' = Holders
      BY <2>7, <2>9 DEF Holders
    <3> QED BY <1>0, <1>1, <3>1
  <2>11. OwnershipTypeOK'
    <3>1. snapshot' \in [Threads -> Phases]
      BY <2>1, ShowFits DEF Phases
    <3>2. stopping' \in [Threads -> Runs \union {None}]
      BY <1>0, <1>1
    <3> QED BY <1>1, <2>7, <2>8, <3>1, <3>2, Types DEF OwnershipTypeOK, Turn, Entry, LanesInv
  <2>12. TurnsOK'
    BY <2>6, <2>8 DEF TurnsOK, LanesInv
  <2>13. LocksAgree(guard, mutation)'
    BY <1>0, <1>1
  <2>14. ConversationsAgree'
    <3>1. \A q \in Runs : run'[q].thread = run[q].thread
                          /\ (Registered(run'[q]) <=> Registered(run[q]))
                          /\ (run'[q].pc # "absent" <=> run[q].pc # "absent")
      BY <2>2, <2>5, <2>6, <2>8
    <3> QED BY <1>0, <1>1, <3>1 DEF ConversationsAgree, Active
  <2>15. StopsAgree'
    <3>1. \A q \in Runs : run[q].pc # "absent" => run'[q].pc # "absent"
      BY <2>5, <2>8
    <3>2. \A u \in Threads : stopping'[u] # None =>
             stopping'[u] \in Runs /\ run[stopping'[u]].pc # "absent"
      BY <1>0, <1>1 DEF LanesInv, StopsAgree
    <3> QED BY <3>1, <3>2 DEF StopsAgree
  <2> QED BY <2>7, <2>10, <2>11, <2>12, <2>13, <2>14, <2>15 DEF LanesInv
<1> QED BY <1>2, <1>3

LEMMA StopRefusedKeeps ==
    ASSUME LanesInv, NEW t \in Threads, StopRefused(t)
    PROVE  LanesInv'
  BY StopForgotten DEF StopRefused

-----------------------------------------------------------------------------
LEMMA FreshSessionKeeps ==
    ASSUME LanesInv, NEW t \in Threads, NEW k \in Locks, FreshSession(t, k)
    PROVE  LanesInv'
<1>1. PICK r \in Runs : Lock(t, k, "fresh", r)
  BY DEF FreshSession
<1> QED BY <1>1, LockKeeps

LEMMA ArchiveOrDeleteKeeps ==
    ASSUME LanesInv, NEW t \in Threads, NEW k \in Locks, ArchiveOrDelete(t, k)
    PROVE  LanesInv'
  BY LockKeeps DEF ArchiveOrDelete

LEMMA TurnStepKeeps ==
    ASSUME LanesInv, NEW r \in Runs, TurnStep(r) \/ HostStep(r)
    PROVE  LanesInv'
<1>1. ASSUME Hydrated(r) PROVE LanesInv'
  BY <1>1, HydratedKeeps
<1>2. ASSUME HydrationFails(r) PROVE LanesInv'
  BY <1>2, HydrationFailsKeeps
<1>3. ASSUME PreflightDone(r) PROVE LanesInv'
  BY <1>3, PreflightDoneKeeps
<1>4. ASSUME Materialized(r) PROVE LanesInv'
  BY <1>4, MaterializedKeeps
<1>5. ASSUME Compensated(r) PROVE LanesInv'
  BY <1>5, CompensatedKeeps
<1>6. ASSUME Persisted(r) PROVE LanesInv'
  BY <1>6, PersistedKeeps
<1>7. ASSUME Repersisted(r) PROVE LanesInv'
  BY <1>7, RepersistedKeeps
<1>8. ASSUME Assembled(r) PROVE LanesInv'
  BY <1>8, AssembledKeeps
<1>9. ASSUME Executed(r) PROVE LanesInv'
  BY <1>9, ExecutedKeeps
<1>10. ASSUME Finished(r) PROVE LanesInv'
  BY <1>10, FinishedKeeps
<1>11. ASSUME DraftConverged(r) PROVE LanesInv'
  BY <1>11, DraftConvergedKeeps
<1>12. ASSUME FailureShown(r) PROVE LanesInv'
  BY <1>12, FailureShownKeeps
<1>13. ASSUME RecoveryEnds(r) PROVE LanesInv'
  BY <1>13, RecoveryEndsKeeps
<1>14. ASSUME TerminalArrives(r) PROVE LanesInv'
  BY <1>14, TerminalArrivesKeeps
<1>15. ASSUME Bootstrap(r) PROVE LanesInv'
  BY <1>15, BootstrapKeeps
<1>16. ASSUME HostConnects(r) PROVE LanesInv'
  BY <1>16, HostConnectsKeeps
<1>17. ASSUME HostMissing(r) PROVE LanesInv'
  BY <1>17, HostMissingKeeps
<1> QED BY <1>1, <1>2, <1>3, <1>4, <1>5, <1>6, <1>7, <1>8, <1>9, <1>10, <1>11, <1>12,
           <1>13, <1>14, <1>15, <1>16, <1>17 DEF TurnStep, HostStep

LEMMA RequestKeeps ==
    ASSUME LanesInv, NEW t \in Threads, Request(t)
    PROVE  LanesInv'
<1>1. ASSUME Submit(t) PROVE LanesInv'
  BY <1>1, SubmitKeeps
<1>2. ASSUME Retry(t) PROVE LanesInv'
  BY <1>2, RetryKeeps
<1>3. ASSUME Hydrate(t) PROVE LanesInv'
  BY <1>3, HydrateKeeps
<1>4. ASSUME StopRequested(t) PROVE LanesInv'
  BY <1>4, StopRequestedKeeps
<1>5. ASSUME StopConfirmed(t) PROVE LanesInv'
  BY <1>5, StopConfirmedKeeps
<1>6. ASSUME StopRefused(t) PROVE LanesInv'
  BY <1>6, StopRefusedKeeps
<1>7. ASSUME StartMission(t) PROVE LanesInv'
  BY <1>7, StartMissionKeeps
<1>8. ASSUME NEW k \in Locks, ArchiveOrDelete(t, k) \/ FreshSession(t, k) PROVE LanesInv'
  BY <1>8, ArchiveOrDeleteKeeps, FreshSessionKeeps
<1> QED BY <1>1, <1>2, <1>3, <1>4, <1>5, <1>6, <1>7, <1>8 DEF Request

LEMMA LanesInvNext == LanesInv /\ [Next]_vars => LanesInv'
<1> SUFFICES ASSUME LanesInv, [Next]_vars PROVE LanesInv'
  OBVIOUS
<1>1. ASSUME NEW t \in Threads, Request(t) PROVE LanesInv'
  BY <1>1, RequestKeeps
<1>2. ASSUME NEW r \in Runs, TurnStep(r) \/ HostStep(r) PROVE LanesInv'
  BY <1>2, TurnStepKeeps
<1>3. ASSUME NEW m \in Missions, LaunchStep(m) \/ MissionEnds(m) PROVE LanesInv'
  BY <1>3, LoadMissionKeeps, RuntimeReadyKeeps, StatusPersistedKeeps, MissionEndsKeeps
     DEF LaunchStep
<1>4. ASSUME NEW k \in Locks, MutationStep(k) PROVE LanesInv'
  BY <1>4, UnlockKeeps, FreshTurnKeeps DEF MutationStep
<1>5. ASSUME UNCHANGED vars PROVE LanesInv'
  <2>1. stopping' = stopping /\ UNCHANGED <<guard, conversations, run, entry, mutation, snapshot>>
    BY <1>5 DEF vars
  <2>2. stopping' \in [Threads -> Runs \union {None}]
    BY <2>1, Types DEF LanesInv
  <2>3. \A t \in Threads : stopping'[t] # None => run[stopping'[t]].pc # "absent"
    BY <2>1 DEF LanesInv, StopsAgree
  <2> QED BY <2>1, <2>2, <2>3, StopEndsKeeps
<1> QED BY <1>1, <1>2, <1>3, <1>4, <1>5 DEF Next

\* What holds the lanes together: the records of the turns, the Missions, the
\* Stops and the mutations fit one another and the guard in every state.
THEOREM LanesHoldTogether == Spec => []LanesInv
<1> QED BY LanesInvInit, LanesInvNext, PTL DEF Spec

\* OwnershipTypeOK, for any threads, turns and Missions: in particular the map
\* of a thread is never set to anything but a turn.
THEOREM OwnershipTypes == Spec => []OwnershipTypeOK
<1>1. LanesInv => OwnershipTypeOK
  BY DEF LanesInv
<1> QED BY <1>1, LanesHoldTogether, PTL

-----------------------------------------------------------------------------
(* What LanesInv says of the threads. *)

LEMMA HoldingLease ==
    ASSUME LanesInv, NEW r \in Runs, Holds(r)
    PROVE  run[r].lease # NoLease
<1>1. TurnOK(run[r]) /\ run[r] \in Turn
  BY TurnFits
<1>2. CASE run[r].pc = "hydrate"
  BY <1>1, <1>2 DEF TurnOK, LeaseFits, TurnAwaits
<1>3. CASE run[r].pc \notin {"absent", "starting", "tail", "done"} /\ Active(r)
  BY <1>3 DEF LanesInv, ConversationsAgree, Registered
<1> QED BY <1>2, <1>3 DEF Holds

LEMMA HoldersOfThread ==
    ASSUME LanesInv, NEW t \in Threads, NEW h \in HoldsFor(t)
    PROVE  /\ \/ \E r \in Runs : h = <<r, run[r].lease>> /\ run[r].thread = t
                                 /\ run[r].lease # NoLease
              \/ \E m \in Missions : h = <<m, entry[m].lease>> /\ entry[m].thread = t
                                     /\ entry[m].lease # NoLease
           /\ h[2] # NoLease /\ Current(guard, h[2]) /\ guard.activeRuns[t] = h[2][1]
           /\ ~Free(guard, t) /\ guard.activeRuns[t] # None
<1>1. \/ \E r \in Runs : h = <<r, run[r].lease>> /\ run[r].thread = t
                         /\ run[r].lease # NoLease
      \/ \E m \in Missions : h = <<m, entry[m].lease>> /\ entry[m].thread = t
                             /\ entry[m].lease # NoLease
  BY HoldingLease DEF HoldsFor
<1>2. ASSUME NEW r \in Runs, h = <<r, run[r].lease>>, run[r].thread = t,
             run[r].lease # NoLease
      PROVE  h[2] # NoLease /\ Current(guard, h[2]) /\ guard.activeRuns[t] = h[2][1]
             /\ ~Free(guard, t) /\ h[2] \in Leases
  BY <1>2, HoldingTurn
<1>3. ASSUME NEW m \in Missions, h = <<m, entry[m].lease>>, entry[m].thread = t,
             entry[m].lease # NoLease
      PROVE  h[2] # NoLease /\ Current(guard, h[2]) /\ guard.activeRuns[t] = h[2][1]
             /\ ~Free(guard, t) /\ h[2] \in Leases
  BY <1>3, HoldingMission
<1>4. h[2] # NoLease /\ Current(guard, h[2]) /\ guard.activeRuns[t] = h[2][1]
      /\ ~Free(guard, t) /\ h[2] \in Leases
  BY <1>1, <1>2, <1>3
<1>5. h[2][1] \in RunStates
  BY <1>4 DEF Leases
<1> QED BY <1>1, <1>4, <1>5, GuardAssumption

LEMMA LanesHaveOneRoot == LanesInv => OneRootPerThread
<1> SUFFICES ASSUME LanesInv, NEW t \in Threads
             PROVE  /\ Cardinality(HoldsFor(t)) + (IF t \in guard.mutations THEN 1 ELSE 0) <= 1
                    /\ \A h \in HoldsFor(t) : /\ h[2] # NoLease
                                              /\ Current(guard, h[2])
                                              /\ guard.activeRuns[t] = h[2][1]
  BY DEF OneRootPerThread
<1>1. \A h \in HoldsFor(t) : /\ h[2] # NoLease
                             /\ Current(guard, h[2])
                             /\ guard.activeRuns[t] = h[2][1]
                             /\ guard.activeRuns[t] # None
  BY HoldersOfThread
<1>2. ASSUME NEW h \in HoldsFor(t), NEW i \in HoldsFor(t) PROVE h = i
  <2>1. /\ \A r, q \in Runs : run[r].lease # NoLease /\ run[q].lease # NoLease
                              /\ run[r].thread = run[q].thread => r = q
        /\ \A r \in Runs, m \in Missions :
              run[r].lease # NoLease /\ entry[m].lease # NoLease
              => run[r].thread # entry[m].thread
        /\ \A m, n \in Missions : entry[m].lease # NoLease /\ entry[n].lease # NoLease
                                  /\ entry[m].thread = entry[n].thread => m = n
    BY HoldersDiffer
  <2>2. \A j \in HoldsFor(t) :
           \/ \E r \in Runs : j = <<r, run[r].lease>> /\ run[r].thread = t
                              /\ run[r].lease # NoLease
           \/ \E m \in Missions : j = <<m, entry[m].lease>> /\ entry[m].thread = t
                                  /\ entry[m].lease # NoLease
    BY HoldersOfThread
  <2> QED BY <2>1, <2>2
<1>3. t \in guard.mutations => HoldsFor(t) = {}
  BY <1>1 DEF LanesInv, SlotsAgree, MapsAgree
<1>4. CASE HoldsFor(t) = {}
  <2>1. Cardinality(HoldsFor(t)) = 0
    BY <1>4, FS_EmptySet
  <2> QED BY <1>1, <2>1
<1>5. CASE HoldsFor(t) # {}
  <2>1. PICK h : HoldsFor(t) = {h}
    BY <1>2, <1>5
  <2>2. Cardinality(HoldsFor(t)) = 1
    BY <2>1, FS_Singleton
  <2>3. t \notin guard.mutations
    BY <1>3, <1>5
  <2> QED BY <1>1, <2>2, <2>3
<1> QED BY <1>4, <1>5

LEMMA LanesStrandNoSlot == LanesInv => NoStrandedSlot
<1> SUFFICES ASSUME LanesInv, NEW t \in Threads, ~Free(guard, t)
             PROVE  \/ HoldsFor(t) # {}
                    \/ \E k \in Locks : mutation[k].pc \in {"archive", "fresh"}
                                        /\ guard.closures[k].threadId = t
  BY DEF NoStrandedSlot
<1>1. CASE t \in guard.mutations
  BY <1>1 DEF LanesInv, LocksAgree
<1>2. CASE guard.activeRuns[t] # None
  <2> DEFINE s == guard.activeRuns[t]
  <2>1. s \in RunStates /\ guard.states[s].active /\ guard.states[s].threadId = t
    BY <1>2, Types DEF LanesInv, SlotsAgree, MapsAgree, Guards
  <2>2. PICK h \in Holders : h.lease = <<s, guard.states[s].generation>>
    BY <2>1 DEF LanesInv, SlotsAgree, ActiveHeld
  <2>3. h.thread = t
    BY <2>1, <2>2 DEF LanesInv, SlotsAgree, HoldersGood
  <2>4. CASE h \in TurnHolders
    <3>1. PICK r \in Runs : h = TurnHolder(r, run[r]) /\ run[r].lease # NoLease
      BY <2>4 DEF TurnHolders
    <3>2. run[r].thread = t
      BY <2>3, <3>1 DEF TurnHolder
    <3>3. run[r].pc \notin {"absent", "starting", "tail", "done"}
      BY <3>1, TurnFits DEF TurnOK, LeaseFits
    <3>4. Holds(r)
      BY <3>1, <3>3 DEF Holds, LanesInv, ConversationsAgree, Registered
    <3> QED BY <3>2, <3>4 DEF HoldsFor
  <2>5. CASE h \in MissionHolders
    <3>1. PICK m \in Missions : h = MissionHolder(m, entry[m]) /\ entry[m].lease # NoLease
      BY <2>5 DEF MissionHolders
    <3>2. entry[m].thread = t /\ entry[m].pc \in MissionAwaits
      BY <2>3, <3>1, HoldingMission DEF MissionHolder
    <3> QED BY <3>1, <3>2 DEF HoldsFor
  <2> QED BY <2>4, <2>5 DEF Holders
<1> QED BY <1>1, <1>2 DEF Free

LEMMA LanesRegister == LanesInv => WorkingTurnRegistered
<1> SUFFICES ASSUME LanesInv, NEW r \in Runs,
                    run[r].pc \in TurnAwaits \ {"hydrate", "tail", "recover"}
             PROVE  Active(r)
  BY DEF WorkingTurnRegistered
<1>1. CASE run[r].pc = "starting"
  BY <1>1 DEF LanesInv, ConversationsAgree, Registered
<1>2. CASE run[r].pc # "starting"
  BY <1>2, WorkingActive DEF Working
<1> QED BY <1>1, <1>2

LEMMA LanesPassStopsOn == LanesInv => StopReachesMission
  BY DEF LanesInv, StopReachesMission, MissionsAgree, Launched, MissionAwaits

\* "A thread has at most one active root", whatever the lanes do and however
\* many turns, Missions and mutations there are: OneRootPerThread.
THEOREM OneRoot == Spec => []OneRootPerThread
<1> QED BY LanesHaveOneRoot, LanesHoldTogether, PTL

\* No path of any lane loses a slot: NoStrandedSlot.
THEOREM NoSlotStranded == Spec => []NoStrandedSlot
<1> QED BY LanesStrandNoSlot, LanesHoldTogether, PTL

\* A turn that can still do work is the one its thread is mapped to, so that
\* Stop and the events of the thread reach it: WorkingTurnRegistered.
THEOREM WorkersRegistered == Spec => []WorkingTurnRegistered
<1> QED BY LanesRegister, LanesHoldTogether, PTL

\* A Stop that lands while a Loop's Mission is being launched is not lost:
\* StopReachesMission.
THEOREM StopsReachMissions == Spec => []StopReachesMission
<1> QED BY LanesPassStopsOn, LanesHoldTogether, PTL

-----------------------------------------------------------------------------
(* What a step does to a stopped turn. *)

Paid == {"starting", "execute", "finish"}

NoPaidStep ==
    \A r \in Runs : run[r].stopped /\ run'[r].pc # run[r].pc => run'[r].pc \notin Paid

\* The turn r goes to an await that is not paid work, or is not a stopped one.
Unpaid(r) ==
    \E new : Now(r, new) /\ (new.pc \notin Paid \/ new.pc = run[r].pc \/ ~run[r].stopped)

LEMMA UnpaidStep ==
    ASSUME LanesInv, NEW r \in Runs, Unpaid(r)
    PROVE  NoPaidStep
<1>1. PICK new : Now(r, new) /\ (new.pc \notin Paid \/ new.pc = run[r].pc \/ ~run[r].stopped)
  BY DEF Unpaid
<1>2. run \in [Runs -> Turn]
  BY Types DEF LanesInv
<1>3. run'[r] = new /\ \A q \in Runs : q # r => run'[q] = run[q]
  BY <1>1, <1>2 DEF Now
<1> QED BY <1>1, <1>3 DEF NoPaidStep

LEMMA NoTurnStep == ASSUME UNCHANGED run PROVE NoPaidStep
  BY DEF NoPaidStep

LEMMA RetireUnpaid ==
    ASSUME NEW r, NEW g, NEW rec \in Turn, rec.pc \notin Paid, Retire(r, rec, g)
    PROVE  Unpaid(r)
<1>1. Now(r, [rec EXCEPT !.lease = NoLease]) /\ [rec EXCEPT !.lease = NoLease].pc \notin Paid
  BY DEF Retire, Turn
<1> QED BY <1>1 DEF Unpaid

LEMMA TaskEndsUnpaid ==
    ASSUME NEW r, NEW g, NEW rec \in Turn, TaskEnds(r, rec, g)
    PROVE  Unpaid(r)
<1> DEFINE d == [rec EXCEPT !.pc = "done"]
<1>1. d \in Turn /\ d.pc = "done" /\ "done" \notin Paid
  BY DEF Turn, Paid
<1>2. Retire(r, d, g) \/ Now(r, d)
  BY DEF TaskEnds
<1> HIDE DEF d
<1>3. Now(r, d) => Unpaid(r)
  BY <1>1 DEF Unpaid
<1> QED BY <1>1, <1>2, <1>3, RetireUnpaid

LEMMA FailUnpaid ==
    ASSUME NEW r, NEW g, NEW rec \in Turn, Fail(r, rec, g)
    PROVE  Unpaid(r)
<1> DEFINE tl == [rec EXCEPT !.pc = "tail"]
           f == [rec EXCEPT !.pc = "failing"]
<1>1. /\ tl \in Turn /\ tl.pc = "tail" /\ f.pc = "failing"
      /\ "tail" \notin Paid /\ "failing" \notin Paid
  BY DEF Turn, TurnAwaits, Paid
<1>2. TaskEnds(r, rec, g) \/ Retire(r, Saved(tl), g) \/ Now(r, f)
  BY DEF Fail
<1> HIDE DEF tl, f
<1>3. Saved(tl) \in Turn /\ Saved(tl).pc \notin Paid
  BY <1>1, SavedFields
<1>4. Now(r, f) => Unpaid(r)
  BY <1>1 DEF Unpaid
<1> QED BY <1>2, <1>3, <1>4, TaskEndsUnpaid, RetireUnpaid

LEMMA GoesUnpaid ==
    ASSUME LanesInv, NEW r \in Runs, NEW pc, Goes(r, pc), pc \notin Paid \/ ~run[r].stopped
    PROVE  Unpaid(r)
<1>1. Now(r, [run[r] EXCEPT !.pc = pc]) /\ [run[r] EXCEPT !.pc = pc].pc = pc
  BY TurnFits DEF Goes, Turn
<1> QED BY <1>1 DEF Unpaid

LEMMA NotStoppedUnpaid ==
    ASSUME NEW r, NEW new, Now(r, new), ~run[r].stopped
    PROVE  Unpaid(r)
  BY DEF Unpaid

\* A turn that is new was not stopped.
LEMMA NewTurnUnpaid ==
    ASSUME LanesInv, NewRuns # {}, NewStates # {}, NEW new, Now(NewRun, new)
    PROVE  NoPaidStep
<1>1. NewRun \in Runs /\ ~run[NewRun].stopped
  BY NewTurn, TurnFits DEF TurnOK
<1> QED BY <1>1, NotStoppedUnpaid, UnpaidStep

LEMMA LaunchUnpaid ==
    ASSUME NEW r, NEW rec, NEW g, Launch(r, rec, g), ~Interrupted(r)
    PROVE  Unpaid(r)
<1>1. Now(r, [rec EXCEPT !.pc = "starting", !.lease = NoLease, !.pending = TRUE])
  BY DEF Launch
<1> QED BY <1>1, NotInterrupted, NotStoppedUnpaid

LEMMA SavedRecUnpaid ==
    ASSUME NEW r, NEW rec \in Turn, NEW pc, pc \notin Paid, Now(r, [Saved(rec) EXCEPT !.pc = pc])
    PROVE  Unpaid(r)
<1>1. [Saved(rec) EXCEPT !.pc = pc].pc = pc
  BY SavedFields DEF Turn
<1> QED BY <1>1 DEF Unpaid

LEMMA TurnStepUnpaid ==
    ASSUME LanesInv, NEW r \in Runs, TurnStep(r)
    PROVE  Unpaid(r)
<1>0. run[r] \in Turn /\ TurnOK(run[r])
  BY TurnFits
<1>1. ASSUME Hydrated(r) PROVE Unpaid(r)
  <2>1. ~run[r].stopped
    BY <1>0, <1>1 DEF Hydrated, At, TurnOK
  <2>2. \E new : Now(r, new)
    BY <1>1 DEF Hydrated
  <2> QED BY <2>1, <2>2, NotStoppedUnpaid
<1>2. ASSUME HydrationFails(r) PROVE Unpaid(r)
  <2>1. ~run[r].stopped
    BY <1>0, <1>2 DEF HydrationFails, At, TurnOK
  <2> QED BY <1>2, <2>1, NotStoppedUnpaid DEF HydrationFails
<1>3. ASSUME PreflightDone(r) PROVE Unpaid(r)
  <2>1. CASE Fail(r, run[r], guard)
    BY <1>0, <2>1, FailUnpaid
  <2>2. CASE Goes(r, IF run[r].loop THEN "materialize" ELSE "persist")
    <3>1. (IF run[r].loop THEN "materialize" ELSE "persist") \notin Paid
      BY DEF Paid
    <3> QED BY <2>2, <3>1, GoesUnpaid
  <2> QED BY <1>3, <2>1, <2>2 DEF PreflightDone
<1>4. ASSUME Materialized(r) PROVE Unpaid(r)
  <2>1. CASE Fail(r, run[r], guard)
    BY <1>0, <2>1, FailUnpaid
  <2>2. CASE Now(r, [run[r] EXCEPT !.mission = NewMission,
                                   !.pc = IF Interrupted(r) THEN "compensateStopped"
                                                            ELSE "persist"])
    <3> DEFINE pc == IF Interrupted(r) THEN "compensateStopped" ELSE "persist"
    <3>1. pc \notin Paid
      BY DEF Paid
    <3>2. Now(r, [run[r] EXCEPT !.mission = NewMission, !.pc = pc])
      BY <2>2
    <3> HIDE DEF pc
    <3>3. [run[r] EXCEPT !.mission = NewMission, !.pc = pc].pc = pc
      BY <1>0 DEF Turn
    <3> QED BY <3>1, <3>2, <3>3 DEF Unpaid
  <2> QED BY <1>4, <2>1, <2>2 DEF Materialized
<1>5. ASSUME Compensated(r) PROVE Unpaid(r)
  <2> DEFINE gone == [run[r] EXCEPT !.mission = None]
             kept == [run[r] EXCEPT !.pending = TRUE]
  <2>1. gone \in Turn /\ kept \in Turn
    BY <1>0 DEF Turn
  <2>2. Saved(kept) \in Turn
    BY <2>1, SavedFields
  <2>3. PICK deleted \in BOOLEAN :
           LET rec == IF deleted THEN gone ELSE kept
           IN  IF At(r, "compensateFailed") THEN Fail(r, rec, guard)
               ELSE TaskEnds(r, IF deleted THEN rec ELSE Saved(rec), guard)
    BY <1>5 DEF Compensated
  <2>4. \/ Fail(r, gone, guard) \/ Fail(r, kept, guard)
        \/ TaskEnds(r, gone, guard) \/ TaskEnds(r, Saved(kept), guard)
    BY <2>3
  <2> HIDE DEF gone, kept
  <2> QED BY <2>1, <2>2, <2>4, FailUnpaid, TaskEndsUnpaid
<1>6. ASSUME Persisted(r) PROVE Unpaid(r)
  <2> DEFINE rec == [run[r] EXCEPT !.persisted = TRUE, !.pending = run[r].loop]
  <2>1. rec \in Turn
    <3>1. run[r].loop \in BOOLEAN
      BY <1>0 DEF Turn
    <3> DEFINE l == run[r].loop
    <3> HIDE DEF l
    <3>2. [run[r] EXCEPT !.persisted = TRUE, !.pending = l] \in Turn
      BY <1>0, <3>1 DEF Turn, l
    <3> QED BY <3>2 DEF l
  <2>2. Saved(rec) \in Turn
    BY <2>1, SavedFields
  <2>3. \/ Fail(r, run[r], guard)
        \/ Goes(r, "compensateFailed")
        \/ TaskEnds(r, Saved(rec), guard)
        \/ ~Interrupted(r) /\ Launch(r, rec, guard)
        \/ Now(r, [Saved(rec) EXCEPT !.pc = "assemble"])
    BY <1>6 DEF Persisted
  <2> HIDE DEF rec
  <2>4. "compensateFailed" \notin Paid /\ "assemble" \notin Paid
    BY DEF Paid
  <2> QED BY <1>0, <2>1, <2>2, <2>3, <2>4, FailUnpaid, GoesUnpaid, TaskEndsUnpaid,
             LaunchUnpaid, SavedRecUnpaid
<1>7. ASSUME Repersisted(r) PROVE Unpaid(r)
  <2> DEFINE rec == [run[r] EXCEPT !.persisted = TRUE]
  <2>1. rec \in Turn
    BY <1>0 DEF Turn
  <2>2. Saved(rec) \in Turn
    BY <2>1, SavedFields
  <2>3. \/ Fail(r, run[r], guard)
        \/ TaskEnds(r, Saved(rec), guard)
        \/ ~Interrupted(r) /\ Launch(r, rec, guard)
    BY <1>7 DEF Repersisted
  <2> HIDE DEF rec
  <2> QED BY <1>0, <2>1, <2>2, <2>3, FailUnpaid, TaskEndsUnpaid, LaunchUnpaid
<1>8. ASSUME Assembled(r) PROVE Unpaid(r)
  <2>1. CASE Fail(r, run[r], guard)
    BY <1>0, <2>1, FailUnpaid
  <2>2. CASE TaskEnds(r, run[r], guard)
    BY <1>0, <2>2, TaskEndsUnpaid
  <2>3. CASE ~Interrupted(r) /\ Now(r, [run[r] EXCEPT !.pc = "execute", !.executed = TRUE])
    BY <2>3, NotInterrupted, NotStoppedUnpaid
  <2> QED BY <1>8, <2>1, <2>2, <2>3 DEF Assembled
<1>9. ASSUME Complete(r) PROVE Unpaid(r)
  <2>1. [run[r] EXCEPT !.pc = "done"] \in Turn /\ [run[r] EXCEPT !.pc = "done"].pc \notin Paid
    BY <1>0 DEF Turn, Paid
  <2> QED BY <1>9, <2>1, RetireUnpaid DEF Complete
<1>10. ASSUME Executed(r) PROVE Unpaid(r)
  <2>1. \/ TaskEnds(r, run[r], guard)
        \/ Complete(r)
        \/ Fail(r, run[r], guard)
        \/ ~Interrupted(r) /\ \E new : Now(r, new)
    BY <1>10 DEF Executed, Goes
  <2> QED BY <1>0, <1>9, <2>1, TaskEndsUnpaid, FailUnpaid, NotInterrupted, NotStoppedUnpaid
<1>11. ASSUME Finished(r) PROVE Unpaid(r)
  <2>1. TaskEnds(r, run[r], guard) \/ Complete(r) \/ Fail(r, run[r], guard)
    BY <1>11 DEF Finished
  <2> QED BY <1>0, <1>9, <2>1, TaskEndsUnpaid, FailUnpaid
<1>12. ASSUME DraftConverged(r) PROVE Unpaid(r)
  <2> DEFINE tl == [run[r] EXCEPT !.pc = "tail"]
  <2>1. tl \in Turn /\ tl.pc = "tail" /\ "tail" \notin Paid
    BY <1>0 DEF Turn, TurnAwaits, Paid
  <2>2. Retire(r, Saved(tl), guard)
    BY <1>12 DEF DraftConverged
  <2> HIDE DEF tl
  <2>3. Saved(tl) \in Turn /\ Saved(tl).pc \notin Paid
    BY <2>1, SavedFields
  <2> QED BY <2>2, <2>3, RetireUnpaid
<1>13. ASSUME FailureShown(r) PROVE Unpaid(r)
  <2>1. Goes(r, "done") /\ "done" \notin Paid
    BY <1>13 DEF FailureShown, Paid
  <2> QED BY <2>1, GoesUnpaid
<1>14. ASSUME RecoveryEnds(r) PROVE Unpaid(r)
  BY <1>0, <1>14, TaskEndsUnpaid DEF RecoveryEnds
<1>15. ASSUME TerminalArrives(r) PROVE Unpaid(r)
  <2> DEFINE w == WithoutTask(r)
  <2>1. w \in Turn /\ w.pc \in {"done", "recover"} /\ Saved(w) \in Turn /\ Saved(w).pc = w.pc
    <3>1. w \in Turn /\ w.pc \in {"done", "recover"}
      BY <1>15, WithoutTaskFits DEF TerminalArrives, Continues
    <3> HIDE DEF w
    <3> QED BY <3>1, SavedFields
  <2>2. Retire(r, w, guard) \/ Retire(r, Saved(w), guard)
    BY <1>15 DEF TerminalArrives
  <2> HIDE DEF w
  <2>3. w.pc \notin Paid /\ Saved(w).pc \notin Paid
    BY <2>1 DEF Paid
  <2> QED BY <2>1, <2>2, <2>3, RetireUnpaid
<1> QED BY <1>1, <1>2, <1>3, <1>4, <1>5, <1>6, <1>7, <1>8, <1>10, <1>11, <1>12, <1>13,
           <1>14, <1>15 DEF TurnStep

LEMMA HostStepUnpaid ==
    ASSUME LanesInv, NEW r \in Runs, HostStep(r)
    PROVE  Unpaid(r)
<1>0. run[r] \in Turn
  BY TurnFits
<1>1. ASSUME Bootstrap(r) PROVE Unpaid(r)
  <2>1. [run[r] EXCEPT !.settlement = TRUE].pc = run[r].pc
    BY <1>0 DEF Turn
  <2> QED BY <1>1, <2>1 DEF Bootstrap, Unpaid
<1>2. ASSUME HostConnects(r) PROVE Unpaid(r)
  <2>1. [run[r] EXCEPT !.connected = TRUE].pc = run[r].pc
    BY <1>0 DEF Turn
  <2> QED BY <1>2, <2>1 DEF HostConnects, Unpaid
<1>3. ASSUME HostMissing(r) PROVE Unpaid(r)
  <2> DEFINE w == WithoutTask(r)
  <2>1. w \in Turn /\ w.pc \in {"done", "recover"} /\ Retire(r, w, guard)
    BY <1>3, WithoutTaskFits DEF HostMissing, Candidate, Continues
  <2> HIDE DEF w
  <2>2. w.pc \notin Paid
    BY <2>1 DEF Paid
  <2> QED BY <2>1, <2>2, RetireUnpaid
<1> QED BY <1>1, <1>2, <1>3 DEF HostStep

LEMMA BeginTurnUnpaid ==
    ASSUME LanesInv, NEW t, NEW rec, NEW g, BeginTurn(t, rec, g)
    PROVE  NoPaidStep
<1>1. /\ NewRuns # {} /\ NewStates # {}
      /\ Now(NewRun, [rec EXCEPT !.thread = t, !.lease = <<NewState, 0>>])
  BY DEF BeginTurn
<1> QED BY <1>1, NewTurnUnpaid

LEMMA RequestUnpaid ==
    ASSUME LanesInv, NEW t \in Threads, Request(t)
    PROVE  NoPaidStep
<1>1. ASSUME Submit(t) PROVE NoPaidStep
  <2>1. PICK kind \in Kinds :
           BeginTurn(t, [Absent EXCEPT !.pc = "preflight", !.loop = (kind = "loop"),
                                       !.fromLoop = (kind = "loop")], guard)
    BY <1>1 DEF Submit
  <2> QED BY <2>1, BeginTurnUnpaid
<1>2. ASSUME Retry(t) PROVE NoPaidStep
  <2>1. PICK old \in Runs :
           \/ /\ NewRuns # {} /\ NewStates # {}
              /\ Launch(NewRun, [RetryOf(old) EXCEPT !.thread = t, !.lease = <<NewState, 0>>],
                        Begun(guard, t, NewState))
           \/ BeginTurn(t, IF run[old].retry = "handoff"
                           THEN [RetryOf(old) EXCEPT !.pc = "repersist"]
                           ELSE RetryOf(old), guard)
    BY <1>2 DEF Retry
  <2>2. CASE /\ NewRuns # {} /\ NewStates # {}
             /\ Launch(NewRun, [RetryOf(old) EXCEPT !.thread = t, !.lease = <<NewState, 0>>],
                       Begun(guard, t, NewState))
    <3>1. \E new : Now(NewRun, new)
      BY <2>2 DEF Launch
    <3> QED BY <2>2, <3>1, NewTurnUnpaid
  <2> QED BY <2>1, <2>2, BeginTurnUnpaid
<1>3. ASSUME Hydrate(t) PROVE NoPaidStep
  BY <1>3, NewTurnUnpaid DEF Hydrate
<1>4. ASSUME StopConfirmed(t) PROVE NoPaidStep
  <2> DEFINE r == stopping[t]
             a == [run[r] EXCEPT !.stopped = TRUE]
  <2>0. r \in Runs /\ run[r] \in Turn
    <3>1. r \in Runs
      BY <1>4, Types DEF LanesInv, StopConfirmed
    <3> QED BY <3>1, TurnFits
  <2>1. UNCHANGED run \/ Now(r, Saved(a))
    BY <1>4 DEF StopConfirmed
  <2>2. a \in Turn /\ a.pc = run[r].pc
    BY <2>0 DEF Turn
  <2> HIDE DEF a
  <2>3. Saved(a).pc = run[r].pc
    BY <2>2, SavedFields
  <2>4. Now(r, Saved(a)) => Unpaid(r)
    BY <2>3 DEF Unpaid
  <2> HIDE DEF r
  <2> QED BY <2>0, <2>1, <2>4, NoTurnStep, UnpaidStep
<1>5. ASSUME StopRequested(t) \/ StopRefused(t) \/ StartMission(t) PROVE NoPaidStep
  <2>1. UNCHANGED run
    BY <1>5 DEF StopRequested, StopRefused, StartMission
  <2> QED BY <2>1, NoTurnStep
<1>6. ASSUME NEW k \in Locks, ArchiveOrDelete(t, k) \/ FreshSession(t, k) PROVE NoPaidStep
  <2>1. UNCHANGED run
    BY <1>6 DEF ArchiveOrDelete, FreshSession, Lock
  <2> QED BY <2>1, NoTurnStep
<1> QED BY <1>1, <1>2, <1>3, <1>4, <1>5, <1>6 DEF Request

LEMMA MissionStepUnpaid ==
    ASSUME LanesInv, NEW m \in Missions, LaunchStep(m) \/ MissionEnds(m)
    PROVE  NoPaidStep
<1> DEFINE r == entry[m].caller
<1>1. ASSUME entry[m].pc \in LaunchAwaits, r # None
      PROVE  r \in Runs /\ run[r] \in Turn
  BY <1>1, Launching
<1>2. ASSUME entry[m].pc \in LaunchAwaits, Rejected(m) PROVE NoPaidStep
  <2>1. CASE r = None
    <3>1. UNCHANGED run
      BY <1>2, <2>1 DEF Rejected
    <3> QED BY <3>1, NoTurnStep
  <2>2. CASE r # None
    <3> DEFINE a == [run[r] EXCEPT !.pending = TRUE]
               g == IF entry[m].lease = NoLease THEN guard ELSE Released(guard, entry[m].lease)
    <3>1. r \in Runs /\ a \in Turn
      BY <1>1, <1>2, <2>2 DEF Turn
    <3>2. Fail(r, a, g)
      BY <1>2, <2>2 DEF Rejected
    <3> HIDE DEF r, a, g
    <3> QED BY <3>1, <3>2, FailUnpaid, UnpaidStep
  <2> QED BY <2>1, <2>2
<1>3. ASSUME StatusPersisted(m), ~Rejected(m) PROVE NoPaidStep
  <2> DEFINE rec == [run[r] EXCEPT !.pending = FALSE]
             d == [rec EXCEPT !.pc = "done"]
  <2>1. entry[m].pc \in LaunchAwaits
    BY <1>3 DEF StatusPersisted, LaunchAwaits
  <2>2. CASE r = None
    <3>1. UNCHANGED run
      BY <1>3, <2>2 DEF StatusPersisted
    <3> QED BY <3>1, NoTurnStep
  <2>3. CASE r # None
    <3>1. r \in Runs /\ rec \in Turn
      BY <1>1, <2>1, <2>3 DEF Turn
    <3>2. TaskEnds(r, Saved(rec), guard) \/ Retire(r, d, guard)
      BY <1>3, <2>3 DEF StatusPersisted
    <3> HIDE DEF r, rec
    <3>3. Saved(rec) \in Turn
      BY <3>1, SavedFields
    <3>4. d \in Turn /\ d.pc \notin Paid
      BY <3>1 DEF Turn, Paid
    <3> HIDE DEF d
    <3> QED BY <3>1, <3>2, <3>3, <3>4, TaskEndsUnpaid, RetireUnpaid, UnpaidStep
  <2> QED BY <2>2, <2>3
<1>4. \/ entry[m].pc \in LaunchAwaits /\ Rejected(m)
      \/ StatusPersisted(m) /\ ~Rejected(m)
      \/ UNCHANGED run
  BY DEF LaunchStep, LoadMission, RuntimeReady, StatusPersisted, MissionEnds, LaunchAwaits
<1> QED BY <1>2, <1>3, <1>4, NoTurnStep

\* A stopped turn starts no paid work any more, in any step of any lane:
\* NoWorkAfterStop.
THEOREM StoppedDoNoWork == Spec => NoWorkAfterStop
<1>1. LanesInv /\ [Next]_vars =>
         [\A r \in Runs : run[r].stopped /\ run'[r].pc # run[r].pc =>
             run'[r].pc \notin {"starting", "execute", "finish"}]_vars
  <2> SUFFICES ASSUME LanesInv, Next PROVE NoPaidStep
    BY DEF NoPaidStep, Paid
  <2>1. ASSUME NEW t \in Threads, Request(t) PROVE NoPaidStep
    BY <2>1, RequestUnpaid
  <2>2. ASSUME NEW r \in Runs, TurnStep(r) \/ HostStep(r) PROVE NoPaidStep
    BY <2>2, TurnStepUnpaid, HostStepUnpaid, UnpaidStep
  <2>3. ASSUME NEW m \in Missions, LaunchStep(m) \/ MissionEnds(m) PROVE NoPaidStep
    BY <2>3, MissionStepUnpaid
  <2>4. ASSUME NEW k \in Locks, MutationStep(k) PROVE NoPaidStep
    <3>1. CASE Unlock(k)
      BY <3>1, NoTurnStep DEF Unlock
    <3>2. CASE FreshTurn(k)
      BY <3>2, BeginTurnUnpaid DEF FreshTurn
    <3> QED BY <2>4, <3>1, <3>2 DEF MutationStep
  <2> QED BY <2>1, <2>2, <2>3, <2>4 DEF Next
<1> QED BY <1>1, LanesHoldTogether, PTL DEF Spec, NoWorkAfterStop

=============================================================================
