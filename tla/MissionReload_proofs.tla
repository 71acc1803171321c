------------------------ MODULE MissionReload_proofs ------------------------
(***************************************************************************)
(* Proofs about MissionReload, for any Missions, companies and rows that a *)
(* former renderer may leave, and any number of faults and crashes.        *)
(*                                                                         *)
(* A pass moves through its phases with nothing but a list of Missions and *)
(* the writes for the one in hand.  That the gate opens on settled         *)
(* Missions rests on what each phase has established for every Mission of  *)
(* its company, except for those still on its list, and except for the one *)
(* in hand, for which the writes that are due say what is missing.         *)
(* PassInv says so; RowsInv is what survives the pass.                     *)
(***************************************************************************)
EXTENDS MissionReload, SequenceTheorems, TLAPS

Undiscovered == {"discover", "failed"}
AfterSettle == {"mark", "reconcile", "converged"} \union Finishes \union Finalizes
AfterMark   == AfterSettle \ {"mark"}
Answered    == {"gone"} \union HostEnd

Writes == {<<"attempt", "interrupted">>, <<"child", "cancelled">>, <<"link", "parked">>}
          \union ({"root"} \X HostEnd)
          \union ({"marker"} \X RELOAD_DISCOVERY_STATUSES)
          \union ({"status"} \X {"running", "interrupted", "ready_to_resume"})
          \union ({"event"} \X Events)

Repairs == {<<"attempt", "interrupted">>, <<"link", "parked">>} \union ({"event"} \X Events)

\* What a phase may write.
WritesIn(phase) ==
    CASE phase = "terminalize" -> {<<"child", "cancelled">>} \union ({"root"} \X HostEnd)
      [] phase = "mark"        -> {"marker"} \X RELOAD_DISCOVERY_STATUSES
      [] phase = "reconcile"   -> Repairs \union
                                  ({"status"} \X {"running", "interrupted", "ready_to_resume"})
      [] phase \in Finishes    -> {<<"status", "ready_to_resume">>,
                                   <<"event", "ready_to_resume">>}
      [] phase \in Finalizes   -> Repairs
      [] OTHER                 -> {}

Elems(s) == {s[i] : i \in DOMAIN s}

\* A status that is written before the Mission is parked.
Passing == {"status"} \X {"running", "interrupted"}

\* The last status in a sequence of writes is ready_to_resume.
EndsReady(s) ==
    \A i \in DOMAIN s : s[i] \in Passing =>
        \E j \in DOMAIN s : i < j /\ s[j] = <<"status", "ready_to_resume">>

Passes == [phase : Phases, found : SUBSET Missions, probe : [Missions -> Probes],
           todo : SUBSET Missions, at : Missions \union {NoMission},
           work : Seq(Writes), inspected : SUBSET Missions]

-----------------------------------------------------------------------------
\* What a row says of itself, whatever pass is at work.  l is the status the
\* Mission was left in.
RowOK(r, l) ==
    /\ HostRuns(r) => r.root = "running"
    /\ l \notin RELOAD_DISCOVERY_STATUSES => r.status = l /\ r.marker = "none"
    /\ l \in RELOAD_DISCOVERY_STATUSES =>
          /\ r.status = "ready_to_resume" => Stopped(r)
          /\ r.status \in RELOAD_DISCOVERY_STATUSES \union {"ready_to_resume"}
          /\ r.marker \in {"none", l}
          /\ r.marker = "none" => r.status = l

Settled(r, l) ==
    /\ r.attempt = "interrupted"
    /\ r.link # "active"
    /\ Trail(l) \subseteq r.events

\* The writes that are left for the Mission in hand: all that it still lacks.
InHand(phase, w, r, l) ==
    /\ Elems(w) \subseteq WritesIn(phase)
    /\ phase = "terminalize" =>
          /\ r.child = "running" => <<"child", "cancelled">> \in Elems(w)
          /\ r.root = "running" => \E end \in HostEnd : <<"root", end>> \in Elems(w)
    /\ phase = "mark" =>
          /\ Elems(w) \subseteq {<<"marker", l>>}
          /\ r.marker = "none" => <<"marker", l>> \in Elems(w)
    /\ phase \in Finishes \union {"reconcile"} =>
          /\ EndsReady(w)
          /\ r.status # "ready_to_resume" => <<"status", "ready_to_resume">> \in Elems(w)
    /\ phase \in Finalizes /\ l \in RELOAD_DISCOVERY_STATUSES =>
          /\ r.attempt # "interrupted" => <<"attempt", "interrupted">> \in Elems(w)
          /\ r.link = "active" => <<"link", "parked">> \in Elems(w)
          /\ \A e \in Trail(l) \ r.events : <<"event", e>> \in Elems(w)

\* The list of a pass and the Mission in hand.
ListOK(p) ==
    /\ p.at \in p.todo \union {NoMission}
    /\ p.at = NoMission <=> p.work = <<>>
    /\ p.phase \in {"settle", "converged"} \union Undiscovered => p.todo = {}
    /\ p.phase \in {"settle", "terminalize", "mark"} => p.inspected = {}
    /\ p.phase = "terminalize" =>
          \A m \in Missions : p.probe[m] \in {"none"} \union Answered

\* What a pass has established for a Mission m of its company that was in flight:
\* that it stopped ...
StoppedOK(p, m, r) ==
    /\ p.phase = "settle" =>
          /\ p.probe[m] = "none" => Stopped(r)
          /\ p.probe[m] \in Answered => ~HostRuns(r)
    /\ p.phase = "terminalize" =>
          /\ ~HostRuns(r)
          /\ m \in p.todo => p.probe[m] # "none"
          /\ m \notin p.todo => Stopped(r)
    /\ p.phase \in AfterSettle => Stopped(r)

\* ... that it is marked (and no other is on a list to be) ...
MarkedOK(p, m, r, l) ==
    /\ m \in p.found => l \in RELOAD_DISCOVERY_STATUSES
    /\ p.phase \in {"settle", "terminalize"} /\ p.probe[m] # "none" =>
          l \in RELOAD_DISCOVERY_STATUSES
    /\ p.phase \in {"terminalize", "mark", "reconcile"} \union Finishes /\ m \in p.todo =>
          l \in RELOAD_DISCOVERY_STATUSES
    /\ l \in RELOAD_DISCOVERY_STATUSES /\ r.marker = "none" =>
          /\ p.phase \in {"settle", "terminalize"} => m \in p.found
          /\ p.phase = "mark" => m \in p.todo
          /\ p.phase \notin AfterMark

\* ... that it is parked ...
ParkedOK(p, m, r) ==
    /\ p.phase \in Finishes /\ r.status = "interrupted" => m \in p.todo
    /\ p.phase = "finalize" => r.status # "interrupted"
    /\ p.phase = "reconcile" /\ r.status \in RELOAD_DISCOVERY_STATUSES => m \in p.todo
    /\ p.phase \in {"finishAfter", "finalizeAfter", "converged"} =>
          r.status \notin RELOAD_DISCOVERY_STATUSES
    /\ p.phase = "finishAfter" => m \notin p.todo

\* ... and that nothing of its parking is missing.
RepairedOK(p, m, r, l) ==
    /\ m \in p.inspected =>
          /\ m \notin p.todo
          /\ r.status = "ready_to_resume"
          /\ l \in RELOAD_DISCOVERY_STATUSES => Settled(r, l)
    /\ p.phase \in Finalizes /\ m \in p.todo => r.status = "ready_to_resume"
    /\ p.phase = "finalizeAfter" /\ l \in RELOAD_DISCOVERY_STATUSES =>
          m \in p.todo \union p.inspected
    /\ p.phase = "converged" /\ l \in RELOAD_DISCOVERY_STATUSES => m \in p.inspected

MissionOK(p, m, r, l) ==
    /\ l \in RELOAD_DISCOVERY_STATUSES => StoppedOK(p, m, r)
    /\ MarkedOK(p, m, r, l)
    /\ ParkedOK(p, m, r)
    /\ RepairedOK(p, m, r, l)
    /\ m = p.at => InHand(p.phase, p.work, r, l)

\* A Mission of another company.
Outside(p, m) ==
    m \notin p.found /\ m \notin p.todo /\ m \notin p.inspected /\ p.probe[m] = "none"

PassOK(c) ==
    /\ ListOK(pass[c])
    /\ \A m \in Missions : companyOf[m] = c => MissionOK(pass[c], m, row[m], left[m])
    /\ \A m \in Missions : companyOf[m] # c => Outside(pass[c], m)

PassTypes ==
    /\ companyOf \in [Missions -> AnyCompany]
    /\ row \in [Missions -> Rows]
    /\ left \in [Missions -> MissionStatus]
    /\ pass \in [AnyCompany -> Passes]
    /\ gate \in {"closed", "open"}
    /\ mishaps \in 0 .. MaxMishaps

RowsInv == \A m \in Missions : RowOK(row[m], left[m])
PassInv == \A c \in AnyCompany : PassOK(c)
GateInv == gate = "open" => \A c \in Companies : pass[c].phase = "converged"

ReloadInv == PassTypes /\ RowsInv /\ PassInv /\ GateInv


-----------------------------------------------------------------------------
(***************************************************************************)
(* Sequences of writes.                                                    *)
(***************************************************************************)
LEMMA ElemsEmpty == Elems(<<>>) = {}
  BY DEF Elems

LEMMA ElemsOne ==
  ASSUME NEW S, NEW x \in S
  PROVE  <<x>> \in Seq(S) /\ Elems(<<x>>) = {x}
<1>1. DOMAIN <<x>> = {1} /\ <<x>>[1] = x
  OBVIOUS
<1> QED
  BY <1>1 DEF Elems

LEMMA ElemsTwo ==
  ASSUME NEW S, NEW x \in S, NEW y \in S
  PROVE  <<x, y>> \in Seq(S) /\ Elems(<<x, y>>) = {x, y}
<1>1. DOMAIN <<x, y>> = {1, 2} /\ <<x, y>>[1] = x /\ <<x, y>>[2] = y
  OBVIOUS
<1> QED
  BY <1>1 DEF Elems

LEMMA ElemsNone ==
  ASSUME NEW S, NEW s \in Seq(S), s # <<>>
  PROVE  Elems(s) # {}
<1>1. Len(s) \in Nat \ {0} /\ DOMAIN s = 1 .. Len(s)
  BY EmptySeq, LenProperties
<1>2. s[1] \in Elems(s)
  BY <1>1 DEF Elems
<1> QED
  BY <1>2

LEMMA ElemsConcat ==
  ASSUME NEW S, NEW s \in Seq(S), NEW t \in Seq(S)
  PROVE  s \o t \in Seq(S) /\ Elems(s \o t) = Elems(s) \union Elems(t)
<1>1. /\ DOMAIN s = 1 .. Len(s) /\ Len(s) \in Nat
      /\ DOMAIN t = 1 .. Len(t) /\ Len(t) \in Nat
  BY LenProperties
<1>2. /\ s \o t \in Seq(S)
      /\ Len(s \o t) = Len(s) + Len(t)
      /\ \A i \in 1 .. Len(s) + Len(t) :
            (s \o t)[i] = IF i <= Len(s) THEN s[i] ELSE t[i - Len(s)]
  BY ConcatProperties
<1>3. DOMAIN (s \o t) = 1 .. Len(s) + Len(t)
  BY <1>2, LenProperties
<1>4. Elems(s \o t) \subseteq Elems(s) \union Elems(t)
  BY <1>1, <1>2, <1>3 DEF Elems
<1>5. Elems(s) \subseteq Elems(s \o t)
  BY <1>1, <1>2, <1>3 DEF Elems
<1>6. ASSUME NEW j \in 1 .. Len(t)
      PROVE  t[j] = (s \o t)[j + Len(s)] /\ j + Len(s) \in DOMAIN (s \o t)
  BY <1>1, <1>2, <1>3
<1>7. Elems(t) \subseteq Elems(s \o t)
  BY <1>1, <1>6 DEF Elems
<1> QED
  BY <1>2, <1>4, <1>5, <1>7

LEMMA ElemsTail ==
  ASSUME NEW S, NEW s \in Seq(S), s # <<>>
  PROVE  /\ Head(s) \in S
         /\ Tail(s) \in Seq(S)
         /\ Elems(s) = {Head(s)} \union Elems(Tail(s))
<1>1. /\ Head(s) \in S /\ Tail(s) \in Seq(S)
      /\ Len(Tail(s)) = Len(s) - 1
      /\ \A i \in 1 .. Len(Tail(s)) : Tail(s)[i] = s[i + 1]
  BY HeadTailProperties
<1>2. /\ DOMAIN s = 1 .. Len(s) /\ Len(s) \in Nat \ {0}
      /\ DOMAIN Tail(s) = 1 .. Len(Tail(s))
  BY <1>1, EmptySeq, LenProperties
<1>3. Head(s) = s[1]
  BY <1>2
<1>4. Elems(Tail(s)) \subseteq Elems(s)
  BY <1>1, <1>2 DEF Elems
<1>5. ASSUME NEW i \in 1 .. Len(s), i # 1
      PROVE  i - 1 \in 1 .. Len(Tail(s)) /\ Tail(s)[i - 1] = s[i]
  <2>1. i - 1 \in 1 .. Len(Tail(s)) /\ (i - 1) + 1 = i
    BY <1>1, <1>2, <1>5
  <2>2. Tail(s)[i - 1] = s[(i - 1) + 1]
    BY <1>1, <2>1, Zenon
  <2> QED
    BY <2>1, <2>2, Zenon
<1>6. Elems(s) \subseteq {Head(s)} \union Elems(Tail(s))
  BY ZenonT(60), <1>2, <1>3, <1>5 DEF Elems
<1>7. Head(s) \in Elems(s)
  BY <1>2, <1>3 DEF Elems
<1> QED
  BY <1>1, <1>4, <1>6, <1>7

LEMMA EndsReadyTail ==
  ASSUME NEW S, NEW s \in Seq(S), s # <<>>, EndsReady(s)
  PROVE  /\ EndsReady(Tail(s))
         /\ Head(s) \in Passing => <<"status", "ready_to_resume">> \in Elems(Tail(s))
<1>1. /\ Tail(s) \in Seq(S)
      /\ Len(Tail(s)) = Len(s) - 1
      /\ \A i \in 1 .. Len(Tail(s)) : Tail(s)[i] = s[i + 1]
  BY HeadTailProperties
<1>2. /\ DOMAIN s = 1 .. Len(s) /\ Len(s) \in Nat \ {0}
      /\ DOMAIN Tail(s) = 1 .. Len(Tail(s))
  BY <1>1, EmptySeq, LenProperties
<1>3. Head(s) = s[1]
  BY <1>2
<1>4. ASSUME NEW i \in 1 .. Len(s), i # 1
      PROVE  i - 1 \in 1 .. Len(Tail(s)) /\ Tail(s)[i - 1] = s[i]
  <2>1. i - 1 \in 1 .. Len(Tail(s)) /\ (i - 1) + 1 = i
    BY <1>1, <1>2, <1>4
  <2>2. Tail(s)[i - 1] = s[(i - 1) + 1]
    BY <1>1, <2>1, Zenon
  <2> QED
    BY <2>1, <2>2, Zenon
<1>5. ASSUME NEW i \in DOMAIN Tail(s), Tail(s)[i] \in Passing
      PROVE  \E j \in DOMAIN Tail(s) : i < j /\ Tail(s)[j] = <<"status", "ready_to_resume">>
  <2>1. i + 1 \in DOMAIN s /\ s[i + 1] \in Passing
    BY <1>1, <1>2, <1>5
  <2>2. PICK j \in DOMAIN s : i + 1 < j /\ s[j] = <<"status", "ready_to_resume">>
    BY <2>1 DEF EndsReady
  <2>3. j - 1 \in DOMAIN Tail(s) /\ i < j - 1 /\ Tail(s)[j - 1] = s[j]
    BY <1>2, <1>4, <2>2
  <2> QED
    BY <2>2, <2>3
<1>6. ASSUME Head(s) \in Passing
      PROVE  <<"status", "ready_to_resume">> \in Elems(Tail(s))
  <2>0. 1 \in DOMAIN s /\ s[1] \in Passing
    BY <1>2, <1>3, <1>6
  <2>1. PICK j \in DOMAIN s : 1 < j /\ s[j] = <<"status", "ready_to_resume">>
    BY <2>0 DEF EndsReady
  <2>2. j \in 1 .. Len(s) /\ j # 1
    BY <1>2, <2>1
  <2>3. j - 1 \in DOMAIN Tail(s) /\ Tail(s)[j - 1] = <<"status", "ready_to_resume">>
    BY <1>2, <1>4, <2>1, <2>2
  <2> QED
    BY <2>3 DEF Elems
<1> QED
  BY <1>5, <1>6 DEF EndsReady

\* What follows the last status, and what leads to it, changes nothing about it.
LEMMA EndsReadyConcat ==
  ASSUME NEW S, NEW s \in Seq(S), NEW t \in Seq(S), Elems(t) \cap Passing = {},
         EndsReady(s) \/ <<"status", "ready_to_resume">> \in Elems(t)
  PROVE  EndsReady(s \o t)
<1>1. /\ DOMAIN s = 1 .. Len(s) /\ Len(s) \in Nat
      /\ DOMAIN t = 1 .. Len(t) /\ Len(t) \in Nat
  BY LenProperties
<1>2. /\ s \o t \in Seq(S)
      /\ Len(s \o t) = Len(s) + Len(t)
      /\ \A i \in 1 .. Len(s) + Len(t) :
            (s \o t)[i] = IF i <= Len(s) THEN s[i] ELSE t[i - Len(s)]
  BY ConcatProperties
<1>3. DOMAIN (s \o t) = 1 .. Len(s) + Len(t)
  BY <1>2, LenProperties
<1>4. ASSUME NEW i \in DOMAIN (s \o t), (s \o t)[i] \in Passing
      PROVE  \E j \in DOMAIN (s \o t) :
                i < j /\ (s \o t)[j] = <<"status", "ready_to_resume">>
  <2>1. i <= Len(s)
    <3>1. SUFFICES ASSUME ~(i <= Len(s))
                   PROVE  FALSE
      OBVIOUS
    <3>2. i - Len(s) \in DOMAIN t /\ t[i - Len(s)] \in Passing
      BY <1>1, <1>2, <1>3, <1>4, <3>1
    <3> QED
      BY <3>2 DEF Elems
  <2>2. i \in DOMAIN s /\ s[i] \in Passing
    BY <1>1, <1>2, <1>3, <1>4, <2>1
  <2>3. CASE EndsReady(s)
    <3>1. PICK j \in DOMAIN s : i < j /\ s[j] = <<"status", "ready_to_resume">>
      BY <2>2, <2>3 DEF EndsReady
    <3> QED
      BY <1>1, <1>2, <1>3, <3>1
  <2>4. CASE <<"status", "ready_to_resume">> \in Elems(t)
    <3>1. PICK j \in DOMAIN t : t[j] = <<"status", "ready_to_resume">>
      BY <2>4 DEF Elems
    <3>2. j + Len(s) \in DOMAIN (s \o t) /\ (s \o t)[j + Len(s)] = t[j] /\ i < j + Len(s)
      BY <1>1, <1>2, <1>3, <2>1, <3>1
    <3> QED
      BY <3>1, <3>2
  <2> QED
    BY <2>3, <2>4
<1> QED
  BY <1>4 DEF EndsReady

-----------------------------------------------------------------------------
(***************************************************************************)
(* The writes of a phase.                                                  *)
(***************************************************************************)
LEMMA PhasesDiffer ==
  /\ "terminalize" \notin Finishes \union Finalizes
  /\ "mark" \notin Finishes \union Finalizes
  /\ "reconcile" \notin Finishes \union Finalizes
  /\ Finishes \cap Finalizes = {}
  BY DEF Finishes, Finalizes

LEMMA PhaseWrites ==
  /\ WritesIn("terminalize") = {<<"child", "cancelled">>} \union ({"root"} \X HostEnd)
  /\ WritesIn("mark") = {"marker"} \X RELOAD_DISCOVERY_STATUSES
  /\ WritesIn("reconcile") = Repairs \union
                             ({"status"} \X {"running", "interrupted", "ready_to_resume"})
  /\ \A ph \in Finishes :
        WritesIn(ph) = {<<"status", "ready_to_resume">>, <<"event", "ready_to_resume">>}
  /\ \A ph \in Finalizes : WritesIn(ph) = Repairs
  BY DEF WritesIn, Finishes, Finalizes

LEMMA DiscoveryStatuses ==
  RELOAD_DISCOVERY_STATUSES = {"running", "verifying", "repairing", "interrupted"}
  BY DEF RELOAD_DISCOVERY_STATUSES, RECOVERABLE_MISSION_STATUSES

LEMMA WhenWrites ==
  ASSUME NEW S, NEW b \in BOOLEAN, NEW s \in Seq(S)
  PROVE  When(b, s) \in Seq(S) /\ Elems(When(b, s)) = IF b THEN Elems(s) ELSE {}
  BY ElemsEmpty, EmptySeq DEF When

LEMMA TransitionWrites ==
  ASSUME NEW to \in {"running", "interrupted", "ready_to_resume"}, NEW event \in Events
  PROVE  /\ transition(to, event) \in Seq(Writes)
         /\ Elems(transition(to, event)) = {<<"status", to>>, <<"event", event>>}
<1>1. <<"status", to>> \in Writes /\ <<"event", event>> \in Writes
  BY DEF Writes
<1> QED
  BY <1>1, ElemsTwo DEF transition

LEMMA ParkWrites == park \in Seq(Writes) /\ Elems(park) = {<<"link", "parked">>}
<1>1. <<"link", "parked">> \in Writes
  BY DEF Writes
<1> QED
  BY <1>1, ElemsOne DEF park

LEMMA AttemptWrites ==
  /\ << <<"attempt", "interrupted">> >> \in Seq(Writes)
  /\ Elems(<< <<"attempt", "interrupted">> >>) = {<<"attempt", "interrupted">>}
<1>1. <<"attempt", "interrupted">> \in Writes
  BY DEF Writes
<1> QED
  BY <1>1, ElemsOne

LEMMA TerminalizeWrites ==
  ASSUME NEW r \in Rows, NEW seen \in Answered
  PROVE  LET w == terminalizeAgentSubtree(r, seen)
         IN  /\ w \in Seq(Writes)
             /\ Elems(w) \subseteq WritesIn("terminalize")
             /\ r.child = "running" => <<"child", "cancelled">> \in Elems(w)
             /\ r.root = "running" => \E end \in HostEnd : <<"root", end>> \in Elems(w)
<1> DEFINE a == << <<"child", "cancelled">> >>
           b == << <<"root", terminalStatus(seen)>> >>
           wa == When(r.child = "running", a)
           wb == When(r.root = "running", b)
<1>1. terminalStatus(seen) \in HostEnd
  BY DEF terminalStatus, Answered, HostEnd
<1>2. <<"child", "cancelled">> \in Writes /\ <<"root", terminalStatus(seen)>> \in Writes
  BY <1>1 DEF Writes
<1>3. a \in Seq(Writes) /\ Elems(a) = {<<"child", "cancelled">>}
  BY <1>2, ElemsOne
<1>4. b \in Seq(Writes) /\ Elems(b) = {<<"root", terminalStatus(seen)>>}
  BY <1>2, ElemsOne
<1> HIDE DEF a, b
<1>5. wa \in Seq(Writes) /\ Elems(wa) = IF r.child = "running" THEN Elems(a) ELSE {}
  BY <1>3, WhenWrites
<1>6. wb \in Seq(Writes) /\ Elems(wb) = IF r.root = "running" THEN Elems(b) ELSE {}
  BY <1>4, WhenWrites
<1> HIDE DEF wa, wb
<1>7. wa \o wb \in Seq(Writes) /\ Elems(wa \o wb) = Elems(wa) \union Elems(wb)
  BY <1>5, <1>6, ElemsConcat
<1>8. terminalizeAgentSubtree(r, seen) = wa \o wb
  BY DEF terminalizeAgentSubtree, wa, wb, a, b
<1> QED
  BY <1>1, <1>3, <1>4, <1>5, <1>6, <1>7, <1>8, PhaseWrites

LEMMA MarkWrites ==
  ASSUME NEW r \in Rows, r.status \in RELOAD_DISCOVERY_STATUSES \/ r.marker # "none"
  PROVE  LET w == insertReloadRecoveryMarker(r)
         IN  /\ w \in Seq(Writes)
             /\ Elems(w) \subseteq WritesIn("mark")
             /\ Elems(w) = IF r.marker = "none" THEN {<<"marker", r.status>>} ELSE {}
<1>1. CASE r.marker # "none"
  <2>1. insertReloadRecoveryMarker(r) = <<>>
    BY <1>1 DEF insertReloadRecoveryMarker, When
  <2> QED
    BY <1>1, <2>1, ElemsEmpty, EmptySeq
<1>2. CASE r.marker = "none"
  <2>1. insertReloadRecoveryMarker(r) = << <<"marker", r.status>> >>
    BY <1>2 DEF insertReloadRecoveryMarker, When
  <2>2. <<"marker", r.status>> \in Writes /\ <<"marker", r.status>> \in WritesIn("mark")
    BY <1>2, PhaseWrites DEF Writes
  <2> QED
    BY <1>2, <2>1, <2>2, ElemsOne
<1> QED
  BY <1>1, <1>2

LEMMA FinishWrites ==
  /\ toReadyToResume \in Seq(Writes)
  /\ \A ph \in Finishes : Elems(toReadyToResume) \subseteq WritesIn(ph)
  /\ <<"status", "ready_to_resume">> \in Elems(toReadyToResume)
  /\ EndsReady(toReadyToResume)
<1>1. /\ toReadyToResume \in Seq(Writes)
      /\ Elems(toReadyToResume) = {<<"status", "ready_to_resume">>, <<"event", "ready_to_resume">>}
  BY TransitionWrites DEF toReadyToResume, Events
<1>2. \A i \in DOMAIN toReadyToResume : toReadyToResume[i] \notin Passing
  BY <1>1 DEF Elems, Passing
<1> QED
  BY <1>1, <1>2, PhaseWrites DEF EndsReady

LEMMA WritesConcatFive ==
  ASSUME NEW a \in Seq(Writes), NEW b \in Seq(Writes), NEW c \in Seq(Writes),
         NEW d \in Seq(Writes), NEW e \in Seq(Writes)
  PROVE  /\ (a \o b) \o c \in Seq(Writes)
         /\ ((a \o b) \o c) \o d \in Seq(Writes)
         /\ (((a \o b) \o c) \o d) \o e \in Seq(Writes)
         /\ Elems((((a \o b) \o c) \o d) \o e) =
               (((Elems(a) \union Elems(b)) \union Elems(c)) \union Elems(d)) \union Elems(e)
<1>1. PICK ab \in Seq(Writes) : ab = a \o b /\ Elems(ab) = Elems(a) \union Elems(b)
  BY ZenonT(60), ElemsConcat
<1>2. PICK abc \in Seq(Writes) : abc = ab \o c /\ Elems(abc) = Elems(ab) \union Elems(c)
  BY ZenonT(60), ElemsConcat
<1>3. PICK abcd \in Seq(Writes) : abcd = abc \o d /\ Elems(abcd) = Elems(abc) \union Elems(d)
  BY ZenonT(60), ElemsConcat
<1>4. PICK all \in Seq(Writes) : all = abcd \o e /\ Elems(all) = Elems(abcd) \union Elems(e)
  BY ZenonT(60), ElemsConcat
<1> QED
  BY <1>1, <1>2, <1>3, <1>4

LEMMA ReconcileWrites ==
  ASSUME NEW r \in Rows
  PROVE  /\ reconcileOne(r) \in Seq(Writes)
         /\ Elems(reconcileOne(r)) \subseteq WritesIn("reconcile")
         /\ <<"status", "ready_to_resume">> \in Elems(reconcileOne(r))
         /\ EndsReady(reconcileOne(r))
<1> DEFINE a == << <<"attempt", "interrupted">> >>
           b == When(r.status = "repairing", transition("running", "resumed"))
           c == toInterrupted
           d == toReadyToResume
           e == When(r.link # "none", park)
<1>a. a \in Seq(Writes) /\ Elems(a) = {<<"attempt", "interrupted">>}
  BY AttemptWrites
<1>b. /\ b \in Seq(Writes)
      /\ Elems(b) \subseteq {<<"status", "running">>, <<"event", "resumed">>}
  <2>1. /\ transition("running", "resumed") \in Seq(Writes)
        /\ Elems(transition("running", "resumed")) =
              {<<"status", "running">>, <<"event", "resumed">>}
    BY TransitionWrites DEF Events
  <2> QED
    BY <2>1, WhenWrites
<1>c. /\ c \in Seq(Writes)
      /\ Elems(c) = {<<"status", "interrupted">>, <<"event", "interrupted">>}
  BY TransitionWrites DEF toInterrupted, Events
<1>d. /\ d \in Seq(Writes)
      /\ Elems(d) = {<<"status", "ready_to_resume">>, <<"event", "ready_to_resume">>}
  BY TransitionWrites DEF toReadyToResume, Events
<1>e. e \in Seq(Writes) /\ Elems(e) \subseteq {<<"link", "parked">>}
  BY ParkWrites, WhenWrites
<1>0. reconcileOne(r) = (((a \o b) \o c) \o d) \o e
  BY DEF reconcileOne
<1> HIDE DEF a, b, c, d, e
<1>s. /\ a \in Seq(Writes) /\ b \in Seq(Writes) /\ c \in Seq(Writes)
      /\ d \in Seq(Writes) /\ e \in Seq(Writes)
  BY <1>a, <1>b, <1>c, <1>d, <1>e
<1>3. /\ (a \o b) \o c \in Seq(Writes)
      /\ ((a \o b) \o c) \o d \in Seq(Writes)
      /\ reconcileOne(r) \in Seq(Writes)
      /\ Elems(reconcileOne(r)) =
            (((Elems(a) \union Elems(b)) \union Elems(c)) \union Elems(d)) \union Elems(e)
  BY <1>0, <1>s, WritesConcatFive
<1>4. \A x \in Elems(reconcileOne(r)) :
         x \in Elems(a) \/ x \in Elems(b) \/ x \in Elems(c) \/ x \in Elems(d) \/ x \in Elems(e)
  BY <1>3
<1>5. EndsReady(((a \o b) \o c) \o d)
  <2>1. Elems(d) \cap Passing = {}
    BY <1>d DEF Passing
  <2> QED
    BY <1>3, <1>d, <2>1, EndsReadyConcat
<1>6. EndsReady(reconcileOne(r))
  <2>1. Elems(e) \cap Passing = {}
    BY <1>e DEF Passing
  <2> QED
    BY <1>0, <1>3, <1>5, <1>e, <2>1, EndsReadyConcat
<1>7. Elems(reconcileOne(r)) \subseteq WritesIn("reconcile")
  BY <1>4, <1>a, <1>b, <1>c, <1>d, <1>e, PhaseWrites DEF Repairs, Events
<1>8. <<"status", "ready_to_resume">> \in Elems(reconcileOne(r))
  BY <1>3, <1>d
<1> QED
  BY <1>3, <1>6, <1>7, <1>8

LEMMA EnsureWrites ==
  ASSUME NEW r \in Rows, NEW event \in Events
  PROVE  /\ ensureReloadTransitionEvent(r, event) \in Seq(Writes)
         /\ Elems(ensureReloadTransitionEvent(r, event)) =
               IF event \in r.events THEN {} ELSE {<<"event", event>>}
<1>1. <<"event", event>> \in Writes
  BY DEF Writes
<1>2. /\ << <<"event", event>> >> \in Seq(Writes)
      /\ Elems(<< <<"event", event>> >>) = {<<"event", event>>}
  BY <1>1, ElemsOne
<1> QED
  BY <1>2, WhenWrites DEF ensureReloadTransitionEvent

LEMMA FinalizeWrites ==
  ASSUME NEW r \in Rows, r.marker \in RELOAD_DISCOVERY_STATUSES
  PROVE  LET w == finalizeMarkedReadyMission(r)
         IN  /\ w \in Seq(Writes)
             /\ Elems(w) \subseteq Repairs
             /\ r.attempt # "interrupted" => <<"attempt", "interrupted">> \in Elems(w)
             /\ r.link = "active" => <<"link", "parked">> \in Elems(w)
             /\ \A e \in Trail(r.marker) \ r.events : <<"event", e>> \in Elems(w)
<1> DEFINE at == << <<"attempt", "interrupted">> >>
           er == ensureReloadTransitionEvent(r, "resumed")
           ei == ensureReloadTransitionEvent(r, "interrupted")
           a == When(r.attempt # "interrupted", at)
           b == When(r.marker = "repairing", er)
           c == When(r.marker # "interrupted", ei)
           d == ensureReloadTransitionEvent(r, "ready_to_resume")
           e == When(r.link = "active", park)
<1>a. /\ a \in Seq(Writes)
      /\ Elems(a) = IF r.attempt # "interrupted" THEN {<<"attempt", "interrupted">>} ELSE {}
  BY AttemptWrites, WhenWrites
<1>b. /\ b \in Seq(Writes)
      /\ Elems(b) = IF r.marker = "repairing" /\ "resumed" \notin r.events
                    THEN {<<"event", "resumed">>} ELSE {}
  <2>1. /\ er \in Seq(Writes)
        /\ Elems(er) = IF "resumed" \in r.events THEN {} ELSE {<<"event", "resumed">>}
    BY EnsureWrites DEF Events
  <2> HIDE DEF er
  <2> QED
    BY <2>1, WhenWrites
<1>c. /\ c \in Seq(Writes)
      /\ Elems(c) = IF r.marker # "interrupted" /\ "interrupted" \notin r.events
                    THEN {<<"event", "interrupted">>} ELSE {}
  <2>1. /\ ei \in Seq(Writes)
        /\ Elems(ei) = IF "interrupted" \in r.events THEN {} ELSE {<<"event", "interrupted">>}
    BY EnsureWrites DEF Events
  <2> HIDE DEF ei
  <2> QED
    BY <2>1, WhenWrites
<1>d. /\ d \in Seq(Writes)
      /\ Elems(d) = IF "ready_to_resume" \in r.events THEN {}
                    ELSE {<<"event", "ready_to_resume">>}
  BY EnsureWrites DEF Events
<1>e. /\ e \in Seq(Writes)
      /\ Elems(e) = IF r.link = "active" THEN {<<"link", "parked">>} ELSE {}
  BY ParkWrites, WhenWrites
<1>0. finalizeMarkedReadyMission(r) = (((a \o b) \o c) \o d) \o e
  BY DEF finalizeMarkedReadyMission
<1> HIDE DEF a, b, c, d, e, at, er, ei
<1>s. /\ a \in Seq(Writes) /\ b \in Seq(Writes) /\ c \in Seq(Writes)
      /\ d \in Seq(Writes) /\ e \in Seq(Writes)
  BY <1>a, <1>b, <1>c, <1>d, <1>e
<1> DEFINE w == finalizeMarkedReadyMission(r)
<1>4. /\ w \in Seq(Writes)
      /\ Elems(w) =
            (((Elems(a) \union Elems(b)) \union Elems(c)) \union Elems(d)) \union Elems(e)
  BY <1>0, <1>s, WritesConcatFive
<1> HIDE DEF w
<1>5. Elems(w) \subseteq Repairs
  BY <1>4, <1>a, <1>b, <1>c, <1>d, <1>e DEF Repairs, Events
<1>6. \A ev \in Trail(r.marker) \ r.events : <<"event", ev>> \in Elems(w)
  BY <1>4, <1>b, <1>c, <1>d, DiscoveryStatuses DEF Trail, Events
<1> QED
  BY <1>4, <1>5, <1>6, <1>a, <1>e DEF w

-----------------------------------------------------------------------------
(***************************************************************************)
(* One write.                                                              *)
(***************************************************************************)
LEMMA WrittenFields ==
  ASSUME NEW r \in Rows, NEW h \in Writes
  PROVE  LET s == Written(r, h[1], h[2])
         IN  /\ s \in Rows
             /\ s.host = r.host
             /\ s.status = IF h[1] = "status" THEN h[2] ELSE r.status
             /\ s.attempt = IF h[1] = "attempt" THEN h[2] ELSE r.attempt
             /\ s.root = IF h[1] = "root" THEN h[2] ELSE r.root
             /\ s.child = IF h[1] = "child" THEN h[2] ELSE r.child
             /\ s.marker = IF h[1] = "marker" THEN h[2] ELSE r.marker
             /\ s.link = IF h[1] = "link" THEN h[2] ELSE r.link
             /\ s.events = IF h[1] = "event" THEN r.events \union {h[2]} ELSE r.events
<1> DEFINE s == Written(r, h[1], h[2])
<1>1. CASE h = <<"attempt", "interrupted">>
  BY <1>1 DEF Written, Rows
<1>2. CASE h = <<"child", "cancelled">>
  BY <1>2 DEF Written, Rows
<1>3. CASE h = <<"link", "parked">>
  BY <1>3 DEF Written, Rows
<1>4. CASE h \in {"root"} \X HostEnd
  <2>1. PICK v \in HostEnd : h = <<"root", v>>
    BY <1>4
  <2> QED
    BY <2>1 DEF Written, Rows
<1>5. CASE h \in {"marker"} \X RELOAD_DISCOVERY_STATUSES
  <2>1. PICK v \in RELOAD_DISCOVERY_STATUSES : h = <<"marker", v>>
    BY <1>5
  <2> QED
    BY <2>1 DEF Written, Rows
<1>6. CASE h \in {"status"} \X {"running", "interrupted", "ready_to_resume"}
  <2>1. PICK v \in {"running", "interrupted", "ready_to_resume"} : h = <<"status", v>>
    BY <1>6
  <2>2. v \in MissionStatus
    BY DEF MissionStatus
  <2> QED
    BY <2>1, <2>2 DEF Written, Rows
<1>7. CASE h \in {"event"} \X Events
  <2>1. PICK v \in Events : h = <<"event", v>>
    BY <1>7
  <2>2. r.events \union {v} \in SUBSET Events
    BY DEF Rows
  <2> QED
    BY <2>1, <2>2 DEF Written, Rows
<1> QED
  BY <1>1, <1>2, <1>3, <1>4, <1>5, <1>6, <1>7 DEF Writes

\* What a step on a row does not take back.
Kept(phase, r, s) ==
    /\ HostRuns(s) => HostRuns(r)
    /\ Stopped(r) => Stopped(s)
    /\ s.marker = "none" => r.marker = "none"
    /\ phase \in Finalizes => s.status = r.status

\* Where a phase that writes is with the Mission in hand.
AtHand(phase, r, l) ==
    /\ phase = "terminalize" => ~HostRuns(r)
    /\ phase \in AfterSettle /\ l \in RELOAD_DISCOVERY_STATUSES => Stopped(r)
    /\ phase \in {"terminalize", "mark", "reconcile"} \union Finishes => l \in RELOAD_DISCOVERY_STATUSES
    /\ phase \in AfterMark /\ l \in RELOAD_DISCOVERY_STATUSES => r.marker # "none"
    /\ phase \in Finalizes => r.status = "ready_to_resume"

LEMMA WriteEffect ==
  ASSUME NEW r \in Rows, NEW l \in MissionStatus, RowOK(r, l),
         NEW phase \in DOMAIN Following, AtHand(phase, r, l),
         NEW w \in Seq(Writes), w # <<>>, InHand(phase, w, r, l)
  PROVE  LET s == Written(r, Head(w)[1], Head(w)[2])
         IN  /\ s \in Rows
             /\ RowOK(s, l)
             /\ Kept(phase, r, s)
             /\ InHand(phase, Tail(w), s, l)
<1> DEFINE h == Head(w)
           t == Tail(w)
           s == Written(r, h[1], h[2])
<1>1. h \in Writes /\ t \in Seq(Writes) /\ Elems(w) = {h} \union Elems(t)
  BY ElemsTail
<1>2. h \in WritesIn(phase) /\ Elems(t) \subseteq WritesIn(phase)
  BY <1>1 DEF InHand
<1>w. DOMAIN Following = {"terminalize", "mark", "reconcile"} \union Finishes \union Finalizes
  BY DEF Following
<1> HIDE DEF h, t
<1>3. /\ s \in Rows
      /\ s.host = r.host
      /\ s.status = IF h[1] = "status" THEN h[2] ELSE r.status
      /\ s.attempt = IF h[1] = "attempt" THEN h[2] ELSE r.attempt
      /\ s.root = IF h[1] = "root" THEN h[2] ELSE r.root
      /\ s.child = IF h[1] = "child" THEN h[2] ELSE r.child
      /\ s.marker = IF h[1] = "marker" THEN h[2] ELSE r.marker
      /\ s.link = IF h[1] = "link" THEN h[2] ELSE r.link
      /\ s.events = IF h[1] = "event" THEN r.events \union {h[2]} ELSE r.events
  BY <1>1, WrittenFields
<1> HIDE DEF s
<1>4. CASE phase = "terminalize"
  <2>1. h = <<"child", "cancelled">> \/ \E v \in HostEnd : h = <<"root", v>>
    BY <1>2, <1>4, PhaseWrites
  <2>2. CASE h = <<"child", "cancelled">>
    <3>1. s.child = "cancelled" /\ s.root = r.root /\ s.status = r.status /\ s.marker = r.marker
      BY <1>3, <2>2
    <3>2. s.root = "running" => \E end \in HostEnd : <<"root", end>> \in Elems(t)
      BY <1>1, <1>4, <2>2, <3>1 DEF InHand
    <3>3. InHand(phase, t, s, l)
      BY <1>2, <1>4, <3>1, <3>2, PhasesDiffer DEF InHand
    <3>4. RowOK(s, l) /\ Kept(phase, r, s)
      BY <1>3, <1>4, <3>1 DEF RowOK, Kept, Stopped, Runs, HostRuns
    <3> QED
      BY <1>3, <3>3, <3>4 DEF s, h, t
  <2>3. CASE \E v \in HostEnd : h = <<"root", v>>
    <3>0. PICK v \in HostEnd : h = <<"root", v>>
      BY <2>3
    <3>1. s.root = v /\ s.child = r.child /\ s.status = r.status /\ s.marker = r.marker
      BY <1>3, <3>0
    <3>2. s.root # "running"
      BY <3>1 DEF HostEnd
    <3>3. s.child = "running" => <<"child", "cancelled">> \in Elems(t)
      BY <1>1, <1>4, <3>0, <3>1 DEF InHand
    <3>4. InHand(phase, t, s, l)
      BY <1>2, <1>4, <3>2, <3>3, PhasesDiffer DEF InHand
    <3>5. RowOK(s, l) /\ Kept(phase, r, s)
      BY <1>3, <1>4, <3>1, <3>2, PhasesDiffer DEF RowOK, Kept, Stopped, Runs, HostRuns, AtHand
    <3> QED
      BY <1>3, <3>4, <3>5 DEF s, h, t
  <2> QED
    BY <2>1, <2>2, <2>3
<1>5. CASE phase = "mark"
  <2>1. h = <<"marker", l>> /\ Elems(t) \subseteq {<<"marker", l>>}
    BY <1>1, <1>5 DEF InHand
  <2>2. /\ l \in RELOAD_DISCOVERY_STATUSES
        /\ Stopped(r)
    BY <1>5 DEF AtHand, AfterSettle
  <2>3. /\ s.marker = l /\ l # "none"
        /\ s.status = r.status /\ s.root = r.root /\ s.child = r.child /\ s.host = r.host
    BY <1>3, <2>1, <2>2, DiscoveryStatuses
  <2>4. InHand(phase, t, s, l)
    BY <1>2, <1>5, <2>1, <2>3, PhasesDiffer DEF InHand
  <2>5. RowOK(s, l) /\ Kept(phase, r, s)
    BY <1>5, <2>2, <2>3, PhasesDiffer DEF RowOK, Kept, Stopped, Runs, HostRuns
  <2> QED
    BY <1>3, <2>4, <2>5 DEF s, h, t
<1>6. CASE phase \in Finishes \union {"reconcile"}
  <2>1. /\ l \in RELOAD_DISCOVERY_STATUSES
        /\ Stopped(r)
        /\ r.marker # "none"
    BY <1>6, PhasesDiffer DEF AtHand, AfterSettle, AfterMark
  <2>2. h \in Repairs \/ h \in {"status"} \X {"running", "interrupted", "ready_to_resume"}
    BY <1>2, <1>6, PhaseWrites DEF Repairs, Events
  <2>3. /\ s.root = r.root /\ s.child = r.child /\ s.host = r.host /\ s.marker = r.marker
        /\ s.status = r.status \/ s.status \in {"running", "interrupted", "ready_to_resume"}
    BY <1>3, <2>2 DEF Repairs
  <2>4. EndsReady(w)
    BY <1>6 DEF InHand
  <2>5. EndsReady(t) /\ (h \in Passing => <<"status", "ready_to_resume">> \in Elems(t))
    BY <2>4, EndsReadyTail DEF h, t
  <2>6. s.status # "ready_to_resume" => <<"status", "ready_to_resume">> \in Elems(t)
    <3>1. CASE h \in {"status"} \X {"running", "interrupted", "ready_to_resume"}
      <4>1. PICK v \in {"running", "interrupted", "ready_to_resume"} : h = <<"status", v>>
        BY <3>1
      <4>2. s.status = v
        BY <1>3, <4>1
      <4>3. v # "ready_to_resume" => h \in Passing
        BY <4>1 DEF Passing
      <4> QED
        BY <2>5, <4>2, <4>3
    <3>2. CASE h \in Repairs
      <4>1. s.status = r.status /\ h # <<"status", "ready_to_resume">>
        BY <1>3, <3>2 DEF Repairs
      <4> QED
        BY <1>1, <1>6, <4>1 DEF InHand
    <3> QED
      BY <2>2, <3>1, <3>2
  <2>7. InHand(phase, t, s, l)
    BY <1>2, <1>6, <2>5, <2>6, PhasesDiffer DEF InHand
  <2>8. Stopped(s) /\ Kept(phase, r, s)
    BY <1>6, <2>1, <2>3, PhasesDiffer DEF Kept, Stopped, Runs, HostRuns
  <2>9. RowOK(s, l)
    BY <2>1, <2>3, <2>8, DiscoveryStatuses DEF RowOK, Stopped, HostRuns, Runs
  <2> QED
    BY <1>3, <2>7, <2>8, <2>9 DEF s, h, t
<1>7. CASE phase \in Finalizes
  <2>1. h \in Repairs
    BY <1>2, <1>7, PhaseWrites
  <2>2. /\ s.root = r.root /\ s.child = r.child /\ s.host = r.host /\ s.marker = r.marker
        /\ s.status = r.status
    BY <1>3, <2>1 DEF Repairs
  <2>3. RowOK(s, l) /\ Kept(phase, r, s)
    BY <2>2 DEF RowOK, Kept, Stopped, Runs, HostRuns
  <2>4. ASSUME l \in RELOAD_DISCOVERY_STATUSES
        PROVE  /\ s.attempt # "interrupted" => <<"attempt", "interrupted">> \in Elems(t)
               /\ s.link = "active" => <<"link", "parked">> \in Elems(t)
               /\ \A e \in Trail(l) \ s.events : <<"event", e>> \in Elems(t)
    <3>0. /\ r.attempt # "interrupted" => <<"attempt", "interrupted">> \in Elems(w)
          /\ r.link = "active" => <<"link", "parked">> \in Elems(w)
          /\ \A e \in Trail(l) \ r.events : <<"event", e>> \in Elems(w)
      BY <1>7, <2>4 DEF InHand
    <3>1. CASE h = <<"attempt", "interrupted">>
      <4>1. s.attempt = "interrupted" /\ s.link = r.link /\ s.events = r.events
        BY <1>3, <3>1
      <4> QED
        BY <1>1, <3>0, <3>1, <4>1
    <3>2. CASE h = <<"link", "parked">>
      <4>1. s.attempt = r.attempt /\ s.link = "parked" /\ s.events = r.events
        BY <1>3, <3>2
      <4> QED
        BY <1>1, <3>0, <3>2, <4>1
    <3>3. CASE h \in {"event"} \X Events
      <4>1. PICK v \in Events : h = <<"event", v>>
        BY <3>3
      <4>2. s.attempt = r.attempt /\ s.link = r.link /\ s.events = r.events \union {v}
        BY <1>3, <4>1
      <4> QED
        BY <1>1, <3>0, <4>1, <4>2
    <3> QED
      BY <2>1, <3>1, <3>2, <3>3 DEF Repairs
  <2>5. InHand(phase, t, s, l)
    BY <1>2, <1>7, <2>4, PhasesDiffer DEF InHand
  <2> QED
    BY <1>3, <2>3, <2>5 DEF s, h, t
<1> QED
  BY <1>4, <1>5, <1>6, <1>7, <1>w

-----------------------------------------------------------------------------
(***************************************************************************)
(* A pass takes a Mission in hand, writes for it and goes on to the next.  *)
(***************************************************************************)
LEMMA PhaseSets ==
  /\ DOMAIN Following = {"terminalize", "mark", "reconcile"} \union Finishes \union Finalizes
  /\ AfterSettle = {"mark", "reconcile", "converged", "finish", "finishAfter",
                    "finishClosing", "finalize", "finalizeAfter", "finalizeClosing"}
  /\ AfterMark = {"reconcile", "converged", "finish", "finishAfter",
                  "finishClosing", "finalize", "finalizeAfter", "finalizeClosing"}
  /\ Finishes = {"finish", "finishAfter", "finishClosing"}
  /\ Finalizes = {"finalize", "finalizeAfter", "finalizeClosing"}
  BY DEF Following, AfterSettle, AfterMark, Finishes, Finalizes

LEMMA ReachesHand ==
  ASSUME NEW p \in Passes, NEW m \in p.todo, NEW r \in Rows, NEW l \in MissionStatus,
         RowOK(r, l), ListOK(p), MissionOK(p, m, r, l)
  PROVE  AtHand(p.phase, r, l)
<1>1. p.phase \in {"terminalize", "mark", "reconcile"} \union Finishes =>
         l \in RELOAD_DISCOVERY_STATUSES
  BY DEF MissionOK, MarkedOK
<1>2. p.phase = "terminalize" => ~HostRuns(r)
  BY <1>1 DEF MissionOK, StoppedOK
<1>3. p.phase \in AfterSettle /\ l \in RELOAD_DISCOVERY_STATUSES => Stopped(r)
  BY DEF MissionOK, StoppedOK
<1>4. p.phase \in AfterMark /\ l \in RELOAD_DISCOVERY_STATUSES => r.marker # "none"
  BY DEF MissionOK, MarkedOK
<1>5. p.phase \in Finalizes => r.status = "ready_to_resume"
  BY DEF MissionOK, RepairedOK
<1> QED
  BY <1>1, <1>2, <1>3, <1>4, <1>5 DEF AtHand

LEMMA FreshWrites ==
  ASSUME NEW r \in Rows, NEW l \in MissionStatus, RowOK(r, l),
         NEW phase \in DOMAIN Following, AtHand(phase, r, l),
         NEW seen, phase = "terminalize" => seen \in Answered
  PROVE  /\ WritesOf(phase, r, seen) \in Seq(Writes)
         /\ InHand(phase, WritesOf(phase, r, seen), r, l)
<1> DEFINE w == WritesOf(phase, r, seen)
<1>1. CASE phase = "terminalize"
  <2>1. w = terminalizeAgentSubtree(r, seen)
    BY <1>1, PhaseSets DEF WritesOf
  <2> QED
    BY <1>1, <2>1, TerminalizeWrites, PhasesDiffer DEF InHand
<1>2. CASE phase = "mark"
  <2>1. w = insertReloadRecoveryMarker(r)
    BY <1>2, PhaseSets DEF WritesOf
  <2>2. /\ l \in RELOAD_DISCOVERY_STATUSES
        /\ r.marker = "none" => r.status = l
    BY <1>2 DEF AtHand, RowOK
  <2>3. /\ w \in Seq(Writes) /\ Elems(w) \subseteq WritesIn("mark")
        /\ Elems(w) = IF r.marker = "none" THEN {<<"marker", r.status>>} ELSE {}
    BY <2>1, <2>2, MarkWrites
  <2> HIDE DEF w
  <2>4. InHand(phase, w, r, l)
    BY <1>2, <2>2, <2>3, PhasesDiffer DEF InHand
  <2> QED
    BY <2>3, <2>4 DEF w
<1>3. CASE phase = "reconcile"
  <2>1. w = reconcileOne(r)
    BY <1>3, PhaseSets DEF WritesOf
  <2> QED
    BY <1>3, <2>1, ReconcileWrites, PhasesDiffer DEF InHand
<1>4. CASE phase \in Finishes
  <2>1. w = toReadyToResume
    BY <1>4, PhaseSets DEF WritesOf
  <2> QED
    BY <1>4, <2>1, FinishWrites, PhaseSets DEF InHand
<1>5. CASE phase \in Finalizes
  <2>1. w = When(r.marker # "none", finalizeMarkedReadyMission(r))
    BY <1>5, PhaseSets DEF WritesOf
  <2>2. CASE r.marker = "none"
    <3>1. w = <<>>
      BY <2>1, <2>2 DEF When
    <3>2. l \notin RELOAD_DISCOVERY_STATUSES
      BY <1>5, <2>2, PhaseSets DEF AtHand
    <3> HIDE DEF w
    <3>3. w \in Seq(Writes) /\ Elems(w) = {}
      BY <3>1, ElemsEmpty, EmptySeq
    <3>4. InHand(phase, w, r, l)
      BY <1>5, <3>2, <3>3, PhasesDiffer DEF InHand
    <3> QED
      BY <3>3, <3>4 DEF w
  <2>3. CASE r.marker # "none"
    <3>1. w = finalizeMarkedReadyMission(r)
      BY <2>1, <2>3 DEF When
    <3>2. l \in RELOAD_DISCOVERY_STATUSES /\ r.marker = l
      BY <2>3 DEF RowOK
    <3>3. /\ w \in Seq(Writes)
          /\ Elems(w) \subseteq Repairs
          /\ r.attempt # "interrupted" => <<"attempt", "interrupted">> \in Elems(w)
          /\ r.link = "active" => <<"link", "parked">> \in Elems(w)
          /\ \A e \in Trail(r.marker) \ r.events : <<"event", e>> \in Elems(w)
      BY <3>1, <3>2, FinalizeWrites
    <3> HIDE DEF w
    <3>4. InHand(phase, w, r, l)
      BY <1>5, <3>2, <3>3, PhasesDiffer, PhaseWrites DEF InHand
    <3> QED
      BY <3>3, <3>4 DEF w
  <2> QED
    BY <2>2, <2>3
<1> QED
  BY <1>1, <1>2, <1>3, <1>4, <1>5, PhaseSets

\* The pass p with the writes w left for m.
Having(p, m, w) ==
    [p EXCEPT !.at        = IF w = <<>> THEN NoMission ELSE m,
              !.work      = w,
              !.todo      = IF w = <<>> THEN @ \ {m} ELSE @,
              !.inspected = IF w = <<>> /\ p.phase \in Finalizes THEN @ \union {m} ELSE @]

LEMMA HavingType ==
  ASSUME NEW p \in Passes, NEW m \in Missions, NEW w \in Seq(Writes)
  PROVE  Having(p, m, w) \in Passes
  BY DEF Having, Passes

LEMMA HavingList ==
  ASSUME NEW p \in Passes, NEW m \in p.todo, NEW w \in Seq(Writes), ListOK(p),
         p.phase \in DOMAIN Following
  PROVE  ListOK(Having(p, m, w))
<1>0. m \in Missions /\ m # NoMission
  BY ReloadAssumption DEF Passes
<1> DEFINE q == Having(p, m, w)
<1>1. /\ q.phase = p.phase /\ q.probe = p.probe
      /\ q.work = w
      /\ q.at = IF w = <<>> THEN NoMission ELSE m
      /\ q.todo = IF w = <<>> THEN p.todo \ {m} ELSE p.todo
      /\ q.inspected = IF w = <<>> /\ p.phase \in Finalizes
                       THEN p.inspected \union {m} ELSE p.inspected
  BY <1>0 DEF Having, Passes
<1> HIDE DEF q
<1>2. /\ q.at \in q.todo \union {NoMission}
      /\ q.at = NoMission <=> q.work = <<>>
  BY <1>0, <1>1
<1>3. q.phase \notin {"settle", "converged"} \union Undiscovered
  BY <1>1, PhaseSets DEF Undiscovered
<1>4. q.phase \in {"terminalize", "mark"} => q.inspected = {}
  BY <1>1, PhaseSets DEF ListOK
<1>5. q.phase = "terminalize" =>
         \A n \in Missions : q.probe[n] \in {"none"} \union Answered
  BY <1>1 DEF ListOK
<1>6. ListOK(q)
  BY <1>2, <1>3, <1>4, <1>5 DEF ListOK
<1> QED
  BY <1>6 DEF q

LEMMA HavingOthers ==
  ASSUME NEW p \in Passes, NEW m \in p.todo, NEW w \in Seq(Writes),
         p.at \in {m, NoMission},
         NEW n \in Missions, n # m, NEW r \in Rows, NEW l \in MissionStatus,
         MissionOK(p, n, r, l)
  PROVE  MissionOK(Having(p, m, w), n, r, l)
<1>0. m \in Missions /\ n # NoMission
  BY ReloadAssumption DEF Passes
<1> DEFINE q == Having(p, m, w)
<1>1. /\ q.phase = p.phase /\ q.probe = p.probe /\ q.found = p.found
      /\ n \in q.todo <=> n \in p.todo
      /\ n \in q.inspected <=> n \in p.inspected
      /\ n # q.at
  <2>1. /\ q.phase = p.phase /\ q.probe = p.probe /\ q.found = p.found
        /\ q.at = IF w = <<>> THEN NoMission ELSE m
        /\ q.todo = IF w = <<>> THEN p.todo \ {m} ELSE p.todo
        /\ q.inspected = IF w = <<>> /\ p.phase \in Finalizes
                         THEN p.inspected \union {m} ELSE p.inspected
    BY <1>0 DEF Having, Passes
  <2> HIDE DEF q
  <2> QED
    BY <1>0, <2>1
<1> HIDE DEF q
<1>2. l \in RELOAD_DISCOVERY_STATUSES => StoppedOK(q, n, r)
  BY <1>1 DEF MissionOK, StoppedOK
<1>3. MarkedOK(q, n, r, l)
  BY <1>1 DEF MissionOK, MarkedOK
<1>4. ParkedOK(q, n, r)
  BY <1>1 DEF MissionOK, ParkedOK
<1>5. RepairedOK(q, n, r, l)
  BY <1>1 DEF MissionOK, RepairedOK
<1>6. MissionOK(q, n, r, l)
  BY <1>1, <1>2, <1>3, <1>4, <1>5 DEF MissionOK
<1> QED
  BY <1>6 DEF q

LEMMA HavingMission ==
  ASSUME NEW p \in Passes, NEW m \in p.todo, NEW w \in Seq(Writes), ListOK(p),
         p.phase \in DOMAIN Following,
         NEW r \in Rows, NEW s \in Rows, NEW l \in MissionStatus,
         MissionOK(p, m, r, l), Kept(p.phase, r, s), InHand(p.phase, w, s, l), RowOK(s, l)
  PROVE  MissionOK(Having(p, m, w), m, s, l)
<1>0. m \in Missions /\ m # NoMission
  BY ReloadAssumption DEF Passes
<1> DEFINE q == Having(p, m, w)
<1>1. /\ q.phase = p.phase /\ q.probe = p.probe /\ q.found = p.found
      /\ q.work = w
      /\ m \in q.todo <=> w # <<>>
      /\ m \in q.inspected <=> (w = <<>> /\ p.phase \in Finalizes)
      /\ m = q.at => w # <<>>
  <2>1. /\ q.phase = p.phase /\ q.probe = p.probe /\ q.found = p.found
        /\ q.work = w
        /\ q.at = IF w = <<>> THEN NoMission ELSE m
        /\ q.todo = IF w = <<>> THEN p.todo \ {m} ELSE p.todo
        /\ q.inspected = IF w = <<>> /\ p.phase \in Finalizes
                         THEN p.inspected \union {m} ELSE p.inspected
    BY <1>0 DEF Having, Passes
  <2>2. m \notin p.inspected
    BY DEF MissionOK, RepairedOK
  <2> HIDE DEF q
  <2> QED
    BY <1>0, <2>1, <2>2
<1> HIDE DEF q
<1>w. w = <<>> => Elems(w) = {}
  BY ElemsEmpty
<1>2. ASSUME l \in RELOAD_DISCOVERY_STATUSES
      PROVE  StoppedOK(q, m, s)
  <2>0. StoppedOK(p, m, r)
    BY <1>2 DEF MissionOK
  <2>1. p.phase = "terminalize" =>
           /\ ~HostRuns(s)
           /\ m \in q.todo => q.probe[m] # "none"
           /\ m \notin q.todo => Stopped(s)
    BY <1>1, <1>w, <2>0 DEF StoppedOK, Kept, InHand, Stopped, Runs
  <2>2. p.phase \in AfterSettle => Stopped(s)
    BY <2>0 DEF StoppedOK, Kept
  <2>3. p.phase # "settle"
    BY PhaseSets
  <2> QED
    BY <1>1, <2>1, <2>2, <2>3 DEF StoppedOK
<1>3. MarkedOK(q, m, s, l)
  <2>1. ASSUME p.phase = "mark", s.marker = "none"
        PROVE  m \in q.todo
    BY <1>1, <1>w, <2>1 DEF InHand
  <2>2. l \in RELOAD_DISCOVERY_STATUSES /\ s.marker = "none" =>
           /\ p.phase = "terminalize" => m \in p.found
           /\ p.phase \notin AfterMark
    BY DEF MissionOK, MarkedOK, Kept
  <2>3. p.phase # "settle"
    BY PhaseSets
  <2>4. /\ m \in p.found => l \in RELOAD_DISCOVERY_STATUSES
        /\ p.phase \in {"terminalize", "mark", "reconcile"} \union Finishes =>
              l \in RELOAD_DISCOVERY_STATUSES
    BY DEF MissionOK, MarkedOK
  <2> QED
    BY <1>1, <2>1, <2>2, <2>3, <2>4 DEF MarkedOK
<1>4. ParkedOK(q, m, s)
  <2>1. ASSUME p.phase \in Finishes \union {"reconcile"}, m \notin q.todo
        PROVE  s.status = "ready_to_resume"
    BY <1>1, <1>w, <2>1 DEF InHand
  <2>2. "ready_to_resume" \notin RELOAD_DISCOVERY_STATUSES
    BY DiscoveryStatuses
  <2>3. p.phase \notin {"finishAfter", "converged"}
    BY PhaseSets DEF MissionOK, ParkedOK
  <2>4. p.phase \in {"finalize", "finalizeAfter"} => s.status = "ready_to_resume"
    BY PhaseSets DEF MissionOK, RepairedOK, Kept
  <2> QED
    BY <1>1, <2>1, <2>2, <2>3, <2>4 DEF ParkedOK
<1>5. RepairedOK(q, m, s, l)
  <2>1. p.phase \in Finalizes => s.status = "ready_to_resume"
    BY DEF MissionOK, RepairedOK, Kept
  <2>2. ASSUME w = <<>>, p.phase \in Finalizes, l \in RELOAD_DISCOVERY_STATUSES
        PROVE  Settled(s, l)
    BY <1>w, <2>2 DEF InHand, Settled
  <2>3. p.phase # "converged"
    BY PhaseSets
  <2>4. p.phase = "finalizeAfter" => p.phase \in Finalizes
    BY PhaseSets
  <2> QED
    BY <1>1, <2>1, <2>2, <2>3, <2>4 DEF RepairedOK
<1>6. MissionOK(q, m, s, l)
  BY <1>1, <1>2, <1>3, <1>4, <1>5 DEF MissionOK
<1> QED
  BY <1>6 DEF q

-----------------------------------------------------------------------------
(***************************************************************************)
(* A host stops, a probe is answered, a pass enters a phase.               *)
(***************************************************************************)
\* The host may have stopped; nothing else of the row has changed.
HostOnly(r, s) ==
    /\ s.status = r.status /\ s.attempt = r.attempt /\ s.root = r.root /\ s.child = r.child
    /\ s.events = r.events /\ s.marker = r.marker /\ s.link = r.link
    /\ HostRuns(s) => HostRuns(r)

LEMMA HostOnlyMission ==
  ASSUME NEW p \in Passes, NEW m \in Missions, NEW r \in Rows, NEW s \in Rows,
         NEW l \in MissionStatus, HostOnly(r, s), RowOK(r, l)
  PROVE  /\ RowOK(s, l)
         /\ Stopped(r) => Stopped(s)
         /\ MissionOK(p, m, r, l) => MissionOK(p, m, s, l)
<1>1. Stopped(r) => Stopped(s)
  BY DEF HostOnly, Stopped, Runs
<1>2. RowOK(s, l)
  BY <1>1 DEF HostOnly, RowOK
<1>3. ASSUME MissionOK(p, m, r, l)
      PROVE  MissionOK(p, m, s, l)
  <2>1. l \in RELOAD_DISCOVERY_STATUSES => StoppedOK(p, m, s)
    BY <1>1, <1>3 DEF MissionOK, StoppedOK, HostOnly
  <2>2. MarkedOK(p, m, s, l)
    BY <1>3 DEF MissionOK, MarkedOK, HostOnly
  <2>3. ParkedOK(p, m, s)
    BY <1>3 DEF MissionOK, ParkedOK, HostOnly
  <2>4. RepairedOK(p, m, s, l)
    BY <1>3 DEF MissionOK, RepairedOK, HostOnly, Settled
  <2>5. m = p.at => InHand(p.phase, p.work, s, l)
    BY <1>3 DEF MissionOK, InHand, HostOnly
  <2> QED
    BY <2>1, <2>2, <2>3, <2>4, <2>5 DEF MissionOK
<1> QED
  BY <1>1, <1>2, <1>3

LEMMA ProbeMission ==
  ASSUME NEW p \in Passes, NEW n \in Missions, NEW a \in Answered \union {"asked", "late"},
         p.phase = "settle", p.probe[n] # "none", ListOK(p)
  PROVE  LET q == [p EXCEPT !.probe[n] = a]
         IN  /\ q \in Passes
             /\ ListOK(q)
             /\ \A m \in Missions, r \in Rows, l \in MissionStatus :
                   /\ MissionOK(p, m, r, l)
                   /\ m = n /\ a \in Answered => ~HostRuns(r)
                   => MissionOK(q, m, r, l)
<1> DEFINE q == [p EXCEPT !.probe[n] = a]
<1>0. a \in Probes /\ a # "none"
  BY DEF Probes, Answered, HostEnd
<1>1. /\ q \in Passes
      /\ q.phase = p.phase /\ q.found = p.found /\ q.todo = p.todo /\ q.at = p.at
      /\ q.work = p.work /\ q.inspected = p.inspected
      /\ \A m \in Missions : q.probe[m] = IF m = n THEN a ELSE p.probe[m]
  BY <1>0 DEF Passes
<1> HIDE DEF q
<1>2. ListOK(q)
  BY <1>1 DEF ListOK
<1>3. ASSUME NEW m \in Missions, NEW r \in Rows, NEW l \in MissionStatus,
             MissionOK(p, m, r, l), m = n /\ a \in Answered => ~HostRuns(r)
      PROVE  MissionOK(q, m, r, l)
  <2>1. l \in RELOAD_DISCOVERY_STATUSES => StoppedOK(q, m, r)
    BY <1>0, <1>1, <1>3, PhaseSets DEF MissionOK, StoppedOK
  <2>2. MarkedOK(q, m, r, l)
    BY <1>1, <1>3 DEF MissionOK, MarkedOK
  <2>3. ParkedOK(q, m, r)
    BY <1>1, <1>3 DEF MissionOK, ParkedOK
  <2>4. RepairedOK(q, m, r, l)
    BY <1>1, <1>3 DEF MissionOK, RepairedOK
  <2>5. m = q.at => InHand(q.phase, q.work, r, l)
    BY <1>1, <1>3 DEF MissionOK
  <2> QED
    BY <2>1, <2>2, <2>3, <2>4, <2>5 DEF MissionOK
<1>4. /\ q \in Passes
      /\ ListOK(q)
      /\ \A m \in Missions, r \in Rows, l \in MissionStatus :
            /\ MissionOK(p, m, r, l)
            /\ m = n /\ a \in Answered => ~HostRuns(r)
            => MissionOK(q, m, r, l)
  BY <1>1, <1>2, <1>3
<1> QED
  BY <1>4 DEF q

\* The phases a pass may go to.
Leads(p, f) ==
    \/ p.phase = "settle" /\ f = "terminalize"
       /\ \A m \in Missions : p.probe[m] \in {"none"} \union Answered
    \/ p.phase \in DOMAIN Following /\ p.todo = {} /\ f = Following[p.phase]
    \/ f = "failed"
    \/ p.phase \in {"reconcile", "finishAfter", "finalizeAfter"} /\ f = "finishClosing"

\* What a phase finds to do for a Mission of its company.
Finds(f, p, m, r) ==
    \/ f = "terminalize" /\ p.probe[m] # "none"
    \/ f = "mark" /\ m \in p.found
    \/ f \in Finishes /\ r.status = "interrupted"
    \/ f \in Finalizes /\ r.status = "ready_to_resume" /\ m \notin p.inspected
    \/ f = "reconcile" /\ r.status \in RECOVERABLE_MISSION_STATUSES

\* The pass p when it enters phase f with the list todo.
Entered(p, f, todo) ==
    [p EXCEPT !.phase = f, !.todo = todo, !.at = NoMission, !.work = <<>>]

LEMMA FollowingPhases ==
  /\ Following["terminalize"] = "mark" /\ Following["mark"] = "finish"
  /\ Following["finish"] = "finalize" /\ Following["finalize"] = "reconcile"
  /\ Following["reconcile"] = "finishAfter" /\ Following["finishAfter"] = "finalizeAfter"
  /\ Following["finalizeAfter"] = "converged"
  /\ Following["finishClosing"] = "finalizeClosing"
  /\ Following["finalizeClosing"] = "failed"
  BY DEF Following, Finishes, Finalizes

LEMMA EnteredType ==
  ASSUME NEW p \in Passes, NEW f \in Phases, NEW todo \in SUBSET Missions
  PROVE  LET q == Entered(p, f, todo)
         IN  /\ q \in Passes
             /\ q.phase = f /\ q.todo = todo /\ q.at = NoMission /\ q.work = <<>>
             /\ q.found = p.found /\ q.probe = p.probe /\ q.inspected = p.inspected
<1>1. <<>> \in Seq(Writes)
  BY EmptySeq
<1> QED
  BY <1>1 DEF Entered, Passes

LEMMA EnteredList ==
  ASSUME NEW p \in Passes, NEW f \in Phases, NEW todo \in SUBSET Missions,
         ListOK(p), Leads(p, f), f \in {"failed", "converged"} => todo = {}
  PROVE  ListOK(Entered(p, f, todo))
<1> DEFINE q == Entered(p, f, todo)
<1>1. /\ q.phase = f /\ q.todo = todo /\ q.at = NoMission /\ q.work = <<>>
      /\ q.probe = p.probe /\ q.inspected = p.inspected
  BY DEF Entered, Passes
<1>2. f \notin {"settle", "discover"}
  BY PhaseSets, FollowingPhases DEF Leads
<1>3. f = "terminalize" =>
         /\ p.phase = "settle"
         /\ \A m \in Missions : p.probe[m] \in {"none"} \union Answered
  BY PhaseSets, FollowingPhases DEF Leads
<1>4. f = "mark" => p.phase = "terminalize"
  BY PhaseSets, FollowingPhases DEF Leads
<1> HIDE DEF q
<1>5. ListOK(q)
  BY <1>1, <1>2, <1>3, <1>4 DEF ListOK, Undiscovered
<1> QED
  BY <1>5 DEF q

LEMMA EnteredMission ==
  ASSUME NEW p \in Passes, NEW f \in Phases, NEW todo \in SUBSET Missions,
         ListOK(p), Leads(p, f),
         NEW m \in Missions, NEW r \in Rows, NEW l \in MissionStatus,
         RowOK(r, l), MissionOK(p, m, r, l),
         m \in todo <=> Finds(f, p, m, r)
  PROVE  MissionOK(Entered(p, f, todo), m, r, l)
<1> DEFINE q == Entered(p, f, todo)
<1>1. /\ q.phase = f /\ q.todo = todo /\ q.at = NoMission
      /\ q.found = p.found /\ q.probe = p.probe /\ q.inspected = p.inspected
  BY DEF Entered, Passes
<1>2. m # NoMission
  BY ReloadAssumption
<1> HIDE DEF q
<1>s. /\ RELOAD_DISCOVERY_STATUSES = {"running", "verifying", "repairing", "interrupted"}
      /\ RECOVERABLE_MISSION_STATUSES = {"running", "verifying", "repairing"}
  BY DiscoveryStatuses DEF RECOVERABLE_MISSION_STATUSES
<1>3. ASSUME p.phase = "settle", f = "terminalize",
             \A n \in Missions : p.probe[n] \in {"none"} \union Answered
      PROVE  MissionOK(q, m, r, l)
  <2>1. m \in todo <=> p.probe[m] # "none"
    BY <1>3, PhaseSets DEF Finds
  <2>2. l \in RELOAD_DISCOVERY_STATUSES => StoppedOK(q, m, r)
    BY <1>1, <1>3, <2>1, PhaseSets DEF StoppedOK, MissionOK, Stopped
  <2>3. MarkedOK(q, m, r, l)
    BY <1>1, <1>3, <2>1, PhaseSets DEF MarkedOK, MissionOK
  <2>4. ParkedOK(q, m, r)
    BY <1>1, <1>3, PhaseSets DEF ParkedOK
  <2>5. RepairedOK(q, m, r, l)
    BY <1>1, <1>3, PhaseSets DEF RepairedOK, ListOK
  <2> QED
    BY <1>1, <1>2, <2>2, <2>3, <2>4, <2>5 DEF MissionOK
<1>4. ASSUME f = "failed"
      PROVE  MissionOK(q, m, r, l)
  <2>1. m \notin todo
    BY <1>4, PhaseSets DEF Finds
  <2>2. l \in RELOAD_DISCOVERY_STATUSES => StoppedOK(q, m, r)
    BY <1>1, <1>4, PhaseSets DEF StoppedOK
  <2>3. MarkedOK(q, m, r, l)
    BY <1>1, <1>4, PhaseSets DEF MarkedOK, MissionOK
  <2>4. ParkedOK(q, m, r)
    BY <1>1, <1>4, PhaseSets DEF ParkedOK
  <2>5. RepairedOK(q, m, r, l)
    BY <1>1, <1>4, <2>1, PhaseSets DEF RepairedOK, MissionOK
  <2> QED
    BY <1>1, <1>2, <2>2, <2>3, <2>4, <2>5 DEF MissionOK
<1>5. ASSUME p.phase \in {"reconcile", "finishAfter", "finalizeAfter"}, f = "finishClosing"
      PROVE  MissionOK(q, m, r, l)
  <2>1. m \in todo <=> r.status = "interrupted"
    BY <1>5, PhaseSets DEF Finds
  <2>2. l \in RELOAD_DISCOVERY_STATUSES => StoppedOK(q, m, r)
    BY <1>1, <1>5, PhaseSets DEF StoppedOK, MissionOK
  <2>3. MarkedOK(q, m, r, l)
    BY <1>1, <1>5, <1>s, <2>1, PhaseSets DEF MarkedOK, MissionOK, RowOK
  <2>4. ParkedOK(q, m, r)
    BY <1>1, <1>5, <2>1, PhaseSets DEF ParkedOK
  <2>5. RepairedOK(q, m, r, l)
    BY <1>1, <1>5, <2>1, PhaseSets DEF RepairedOK, MissionOK
  <2> QED
    BY <1>1, <1>2, <2>2, <2>3, <2>4, <2>5 DEF MissionOK
<1>6. ASSUME p.phase = "terminalize", p.todo = {}, f = "mark"
      PROVE  MissionOK(q, m, r, l)
  <2>1. m \in todo <=> m \in p.found
    BY <1>6, PhaseSets DEF Finds
  <2>2. l \in RELOAD_DISCOVERY_STATUSES => StoppedOK(q, m, r)
    BY <1>1, <1>6, PhaseSets DEF StoppedOK, MissionOK
  <2>3. MarkedOK(q, m, r, l)
    BY <1>1, <1>6, <2>1, PhaseSets DEF MarkedOK, MissionOK
  <2>4. ParkedOK(q, m, r)
    BY <1>1, <1>6, PhaseSets DEF ParkedOK
  <2>5. RepairedOK(q, m, r, l)
    BY <1>1, <1>6, PhaseSets DEF RepairedOK, ListOK
  <2> QED
    BY <1>1, <1>2, <2>2, <2>3, <2>4, <2>5 DEF MissionOK
<1>7. ASSUME p.phase = "mark", p.todo = {}, f = "finish"
      PROVE  MissionOK(q, m, r, l)
  <2>1. m \in todo <=> r.status = "interrupted"
    BY <1>7, PhaseSets DEF Finds
  <2>2. l \in RELOAD_DISCOVERY_STATUSES => StoppedOK(q, m, r)
    BY <1>1, <1>7, PhaseSets DEF StoppedOK, MissionOK
  <2>3. MarkedOK(q, m, r, l)
    BY <1>1, <1>7, <1>s, <2>1, PhaseSets DEF MarkedOK, MissionOK, RowOK
  <2>4. ParkedOK(q, m, r)
    BY <1>1, <1>7, <2>1, PhaseSets DEF ParkedOK
  <2>5. RepairedOK(q, m, r, l)
    BY <1>1, <1>7, PhaseSets DEF RepairedOK, ListOK
  <2> QED
    BY <1>1, <1>2, <2>2, <2>3, <2>4, <2>5 DEF MissionOK
<1>8. ASSUME p.phase \in {"finish", "finishAfter", "finishClosing"}, p.todo = {},
             f \in {"finalize", "finalizeAfter", "finalizeClosing"},
             f = "finalizeAfter" <=> p.phase = "finishAfter",
             f = "finalize" <=> p.phase = "finish"
      PROVE  MissionOK(q, m, r, l)
  <2>1. m \in todo <=> (r.status = "ready_to_resume" /\ m \notin p.inspected)
    BY <1>8, PhaseSets DEF Finds
  <2>2. l \in RELOAD_DISCOVERY_STATUSES => StoppedOK(q, m, r)
    BY <1>1, <1>8, PhaseSets DEF StoppedOK, MissionOK
  <2>3. MarkedOK(q, m, r, l)
    BY <1>1, <1>8, PhaseSets DEF MarkedOK, MissionOK
  <2>4. ParkedOK(q, m, r)
    BY <1>1, <1>8, PhaseSets DEF ParkedOK, MissionOK
  <2>5. f = "finalizeAfter" /\ l \in RELOAD_DISCOVERY_STATUSES => r.status = "ready_to_resume"
    BY <1>8, PhaseSets DEF ParkedOK, MissionOK, RowOK
  <2>6. RepairedOK(q, m, r, l)
    BY <1>1, <1>8, <2>1, <2>5, PhaseSets DEF RepairedOK, MissionOK
  <2> QED
    BY <1>1, <1>2, <2>2, <2>3, <2>4, <2>6 DEF MissionOK
<1>9. ASSUME p.phase = "finalize", p.todo = {}, f = "reconcile"
      PROVE  MissionOK(q, m, r, l)
  <2>1. m \in todo <=> r.status \in RECOVERABLE_MISSION_STATUSES
    BY <1>9, PhaseSets DEF Finds
  <2>2. l \in RELOAD_DISCOVERY_STATUSES => StoppedOK(q, m, r)
    BY <1>1, <1>9, PhaseSets DEF StoppedOK, MissionOK
  <2>3. MarkedOK(q, m, r, l)
    BY <1>1, <1>9, <1>s, <2>1, PhaseSets DEF MarkedOK, MissionOK, RowOK
  <2>4. ParkedOK(q, m, r)
    BY <1>1, <1>9, <1>s, <2>1, PhaseSets DEF ParkedOK, MissionOK
  <2>5. RepairedOK(q, m, r, l)
    BY <1>1, <1>9, <1>s, <2>1, PhaseSets DEF RepairedOK, MissionOK
  <2> QED
    BY <1>1, <1>2, <2>2, <2>3, <2>4, <2>5 DEF MissionOK
<1>10. ASSUME p.phase = "reconcile", p.todo = {}, f = "finishAfter"
       PROVE  MissionOK(q, m, r, l)
  <2>1. m \in todo <=> r.status = "interrupted"
    BY <1>10, PhaseSets DEF Finds
  <2>0. r.status \notin RELOAD_DISCOVERY_STATUSES
    BY <1>10 DEF MissionOK, ParkedOK
  <2>2. l \in RELOAD_DISCOVERY_STATUSES => StoppedOK(q, m, r)
    BY <1>1, <1>10, PhaseSets DEF StoppedOK, MissionOK
  <2>3. MarkedOK(q, m, r, l)
    BY <1>1, <1>10, <1>s, <2>0, <2>1, PhaseSets DEF MarkedOK, MissionOK
  <2>4. ParkedOK(q, m, r)
    BY <1>1, <1>10, <1>s, <2>0, <2>1, PhaseSets DEF ParkedOK
  <2>5. RepairedOK(q, m, r, l)
    BY <1>1, <1>10, <1>s, <2>0, <2>1, PhaseSets DEF RepairedOK, MissionOK
  <2> QED
    BY <1>1, <1>2, <2>2, <2>3, <2>4, <2>5 DEF MissionOK
<1>11. ASSUME p.phase = "finalizeAfter", p.todo = {}, f = "converged"
       PROVE  MissionOK(q, m, r, l)
  <2>1. m \notin todo
    BY <1>11, PhaseSets DEF Finds
  <2>2. l \in RELOAD_DISCOVERY_STATUSES => StoppedOK(q, m, r)
    BY <1>1, <1>11, PhaseSets DEF StoppedOK, MissionOK
  <2>3. MarkedOK(q, m, r, l)
    BY <1>1, <1>11, PhaseSets DEF MarkedOK, MissionOK
  <2>4. ParkedOK(q, m, r)
    BY <1>1, <1>11, PhaseSets DEF ParkedOK, MissionOK
  <2>5. RepairedOK(q, m, r, l)
    BY <1>1, <1>11, <2>1, PhaseSets DEF RepairedOK, MissionOK
  <2> QED
    BY <1>1, <1>2, <2>2, <2>3, <2>4, <2>5 DEF MissionOK
<1>12. ASSUME p.phase \in DOMAIN Following, p.todo = {}, f = Following[p.phase]
       PROVE  MissionOK(q, m, r, l)
  <2>1. p.phase \in {"terminalize", "mark", "reconcile", "finish", "finishAfter",
                     "finishClosing", "finalize", "finalizeAfter", "finalizeClosing"}
    BY <1>12, PhaseSets
  <2> QED
    BY <1>4, <1>6, <1>7, <1>8, <1>9, <1>10, <1>11, <1>12, <2>1, FollowingPhases
<1>13. MissionOK(q, m, r, l)
  BY <1>3, <1>4, <1>5, <1>12 DEF Leads
<1> QED
  BY <1>13 DEF q

-----------------------------------------------------------------------------
(***************************************************************************)
(* The steps.                                                              *)
(***************************************************************************)
LEMMA CompaniesKnown ==
  ASSUME PassTypes
  PROVE  /\ Companies \subseteq AnyCompany
         /\ \A m \in Missions : companyOf[m] \in Companies
  BY DEF PassTypes, Companies

\* The pass of company c becomes q; rows of other companies stay as they are.
PassStep(c, q) ==
    /\ pass' = [pass EXCEPT ![c] = q]
    /\ UNCHANGED <<companyOf, left>>
    /\ row' \in [Missions -> Rows]
    /\ \A m \in Missions : companyOf[m] # c => row'[m] = row[m]

LEMMA OnePass ==
  ASSUME PassTypes, RowsInv, PassInv, NEW c \in Companies, NEW q \in Passes,
         PassStep(c, q), ListOK(q),
         \A m \in Missions : companyOf[m] = c =>
            RowOK(row'[m], left[m]) /\ MissionOK(q, m, row'[m], left[m]),
         \A m \in Missions : companyOf[m] # c => Outside(q, m)
  PROVE  RowsInv' /\ PassInv'
<1>1. c \in AnyCompany
  BY CompaniesKnown
<1>2. ASSUME NEW m \in Missions
      PROVE  RowOK(row'[m], left'[m])
  BY <1>2 DEF PassStep, RowsInv
<1>3. ASSUME NEW d \in AnyCompany
      PROVE  PassOK(d)'
  <2>1. CASE d = c
    <3>1. pass'[d] = q
      BY <1>1, <2>1 DEF PassStep, PassTypes
    <3> QED
      BY <2>1, <3>1 DEF PassStep, PassOK
  <2>2. CASE d # c
    <3>1. pass'[d] = pass[d]
      BY <1>1, <2>2 DEF PassStep, PassTypes
    <3>2. ListOK(pass'[d])
      BY <3>1 DEF PassInv, PassOK
    <3>3. ASSUME NEW m \in Missions, companyOf[m] = d
          PROVE  MissionOK(pass'[d], m, row'[m], left'[m])
      BY <2>2, <3>1, <3>3 DEF PassStep, PassInv, PassOK
    <3>4. ASSUME NEW m \in Missions, companyOf[m] # d
          PROVE  Outside(pass'[d], m)
      BY <3>1, <3>4 DEF PassInv, PassOK
    <3> QED
      BY <3>2, <3>3, <3>4 DEF PassStep, PassOK
  <2> QED
    BY <2>1, <2>2
<1>4. AnyCompany' = AnyCompany
  BY DEF AnyCompany
<1> QED
  BY <1>2, <1>3, <1>4 DEF RowsInv, PassInv

LEMMA OnePassTypes ==
  ASSUME PassTypes, GateInv, NEW c \in Companies, NEW q \in Passes, PassStep(c, q),
         pass[c].phase # "converged", UNCHANGED gate, mishaps' \in 0 .. MaxMishaps
  PROVE  PassTypes' /\ GateInv'
<1>1. gate = "closed"
  BY DEF GateInv, PassTypes
<1>2. AnyCompany' = AnyCompany
  BY DEF AnyCompany
<1>3. pass' \in [AnyCompany -> Passes]
  BY DEF PassStep, PassTypes
<1>4. PassTypes'
  BY <1>2, <1>3 DEF PassStep, PassTypes
<1>5. GateInv'
  BY <1>1 DEF GateInv
<1> QED
  BY <1>4, <1>5

LEMMA Ownership ==
  ASSUME PassTypes, PassInv, NEW c \in Companies
  PROVE  /\ pass[c] \in Passes
         /\ ListOK(pass[c])
         /\ \A m \in Missions :
               m \in pass[c].todo \/ m \in pass[c].found \/ m \in pass[c].inspected
                  \/ pass[c].probe[m] # "none" => companyOf[m] = c
         /\ \A m \in Missions : companyOf[m] = c =>
               MissionOK(pass[c], m, row[m], left[m])
         /\ \A m \in Missions : companyOf[m] # c => Outside(pass[c], m)
<1>1. c \in AnyCompany
  BY CompaniesKnown
<1> QED
  BY <1>1 DEF PassTypes, PassInv, PassOK, Outside

LEMMA NewPassOK ==
  /\ NewPass \in Passes
  /\ ListOK(NewPass)
  /\ \A m \in Missions, r \in Rows, l \in MissionStatus : MissionOK(NewPass, m, r, l)
  /\ \A m \in Missions : Outside(NewPass, m)
<1>1. /\ NewPass \in Passes
      /\ NewPass.phase = "discover" /\ NewPass.found = {} /\ NewPass.todo = {}
      /\ NewPass.at = NoMission /\ NewPass.work = <<>> /\ NewPass.inspected = {}
      /\ \A m \in Missions : NewPass.probe[m] = "none"
  <2>1. <<>> \in Seq(Writes)
    BY EmptySeq
  <2> QED
    BY <2>1 DEF NewPass, Passes, Phases, Probes
<1>2. ListOK(NewPass)
  BY <1>1 DEF ListOK
<1>3. \A m \in Missions : Outside(NewPass, m)
  BY <1>1 DEF Outside
<1>4. ASSUME NEW m \in Missions, NEW r \in Rows, NEW l \in MissionStatus
      PROVE  MissionOK(NewPass, m, r, l)
  <2>0. m # NoMission
    BY ReloadAssumption
  <2>1. StoppedOK(NewPass, m, r)
    BY <1>1, PhaseSets DEF StoppedOK
  <2>2. MarkedOK(NewPass, m, r, l)
    BY <1>1, PhaseSets DEF MarkedOK
  <2>3. ParkedOK(NewPass, m, r)
    BY <1>1, PhaseSets DEF ParkedOK
  <2>4. RepairedOK(NewPass, m, r, l)
    BY <1>1, PhaseSets DEF RepairedOK
  <2> QED
    BY <1>1, <2>0, <2>1, <2>2, <2>3, <2>4 DEF MissionOK
<1> QED
  BY <1>1, <1>2, <1>3, <1>4

LEMMA RowTypes ==
  ASSUME PassTypes, NEW m \in Missions
  PROVE  row[m] \in Rows /\ left[m] \in MissionStatus
  BY DEF PassTypes

\* Discovery lists what is in flight, and asks after what it runs.
LEMMA DiscoverStep ==
  ASSUME ReloadInv, NEW c \in Companies, Discover(c)
  PROVE  ReloadInv'
<1> USE DEF ReloadInv
<1> DEFINE found == InStatus(c, RELOAD_DISCOVERY_STATUSES)
           probe == [m \in Missions |->
                        CASE m \notin found \/ ~Runs(row[m]) -> "none"
                          [] m \in found /\ row[m].root = "running" -> "unasked"
                          [] OTHER -> "gone"]
           q == [NewPass EXCEPT !.phase = "settle", !.found = found, !.probe = probe]
<1>1. pass[c].phase = "discover" /\ pass' = [pass EXCEPT ![c] = q]
      /\ UNCHANGED <<companyOf, row, left, gate, mishaps>>
  BY DEF Discover
<1>2. found \subseteq Missions /\ \A m \in found : companyOf[m] = c
  BY DEF InStatus, Owned
<1>3. \A m \in Missions : companyOf[m] = c =>
         (m \in found <=> row[m].status \in RELOAD_DISCOVERY_STATUSES)
  BY DEF InStatus, Owned
<1> HIDE DEF found
<1>4. /\ probe \in [Missions -> {"none", "unasked", "gone"}]
      /\ \A m \in Missions : probe[m] = IF m \notin found \/ ~Runs(row[m]) THEN "none"
                                        ELSE IF row[m].root = "running" THEN "unasked"
                                        ELSE "gone"
  BY DEF Runs
<1> HIDE DEF probe
<1>5. /\ q \in Passes
      /\ q.phase = "settle" /\ q.found = found /\ q.probe = probe
      /\ q.todo = {} /\ q.at = NoMission /\ q.work = <<>> /\ q.inspected = {}
  <2>1. <<>> \in Seq(Writes)
    BY EmptySeq
  <2> QED
    BY <1>2, <1>4, <2>1 DEF NewPass, Passes, Phases, Probes
<1> HIDE DEF q
<1>6. ListOK(q)
  BY <1>5 DEF ListOK
<1>7. ASSUME NEW m \in Missions, companyOf[m] # c
      PROVE  Outside(q, m)
  BY <1>2, <1>4, <1>5, <1>7 DEF Outside
<1>8. ASSUME NEW m \in Missions, companyOf[m] = c
      PROVE  MissionOK(q, m, row[m], left[m])
  <2> DEFINE r == row[m]
             l == left[m]
  <2>0. m # NoMission /\ r \in Rows /\ l \in MissionStatus /\ RowOK(r, l)
    BY ReloadAssumption, RowTypes DEF RowsInv
  <2>1. m \in found <=> r.status \in RELOAD_DISCOVERY_STATUSES
    BY <1>3, <1>8
  <2>2. q.probe[m] = IF m \notin found \/ ~Runs(r) THEN "none"
                     ELSE IF r.root = "running" THEN "unasked" ELSE "gone"
    BY <1>4, <1>5
  <2> HIDE DEF r, l
  <2>3. ASSUME l \in RELOAD_DISCOVERY_STATUSES
        PROVE  StoppedOK(q, m, r)
    <3>1. q.probe[m] = "none" => Stopped(r)
      BY <2>0, <2>1, <2>2, <2>3 DEF RowOK, Stopped, Runs
    <3>2. q.probe[m] \in Answered => ~HostRuns(r)
      BY <2>0, <2>2 DEF RowOK, Answered, HostEnd
    <3> QED
      BY <1>5, <3>1, <3>2, PhaseSets DEF StoppedOK
  <2>4. MarkedOK(q, m, r, l)
    <3>1. m \in found \/ q.probe[m] # "none" => l \in RELOAD_DISCOVERY_STATUSES
      BY <2>0, <2>1, <2>2 DEF RowOK
    <3>2. l \in RELOAD_DISCOVERY_STATUSES /\ r.marker = "none" => m \in found
      BY <2>0, <2>1 DEF RowOK
    <3> QED
      BY <1>5, <3>1, <3>2, PhaseSets DEF MarkedOK
  <2>5. ParkedOK(q, m, r)
    BY <1>5, PhaseSets DEF ParkedOK
  <2>6. RepairedOK(q, m, r, l)
    BY <1>5, PhaseSets DEF RepairedOK
  <2>7. MissionOK(q, m, r, l)
    BY <1>5, <2>0, <2>3, <2>4, <2>5, <2>6 DEF MissionOK
  <2> QED
    BY <2>7 DEF r, l
<1>9. PassStep(c, q)
  BY <1>1 DEF PassStep, PassTypes
<1>10. RowsInv' /\ PassInv'
  BY <1>1, <1>5, <1>6, <1>7, <1>8, <1>9, OnePass DEF RowsInv
<1>11. PassTypes' /\ GateInv'
  BY <1>1, <1>5, <1>9, OnePassTypes DEF PassTypes
<1> QED
  BY <1>10, <1>11

LEMMA ProbedStep ==
  ASSUME ReloadInv, NEW c \in Companies, NEW n \in Missions,
         NEW a \in Answered \union {"asked", "late"},
         pass[c].phase = "settle", pass[c].probe[n] # "none", Probed(c, n, a),
         row' \in [Missions -> Rows],
         \A m \in Missions : HostOnly(row[m], row'[m]),
         \A m \in Missions : m # n => row'[m] = row[m],
         a \in Answered => ~HostRuns(row'[n]),
         UNCHANGED <<companyOf, left, gate>>, mishaps' \in 0 .. MaxMishaps
  PROVE  ReloadInv'
<1> USE DEF ReloadInv
<1> DEFINE p == pass[c]
           q == [p EXCEPT !.probe[n] = a]
<1>1. /\ p \in Passes /\ ListOK(p)
      /\ companyOf[n] = c
      /\ \A m \in Missions : companyOf[m] = c => MissionOK(p, m, row[m], left[m])
      /\ \A m \in Missions : companyOf[m] # c => Outside(p, m)
  BY Ownership
<1>2. /\ q \in Passes
      /\ ListOK(q)
      /\ \A m \in Missions, r \in Rows, l \in MissionStatus :
            /\ MissionOK(p, m, r, l)
            /\ m = n /\ a \in Answered => ~HostRuns(r)
            => MissionOK(q, m, r, l)
  BY <1>1, ProbeMission
<1>3. pass' = [pass EXCEPT ![c] = q]
  <2>1. c \in AnyCompany /\ pass \in [AnyCompany -> Passes]
    BY CompaniesKnown DEF PassTypes
  <2> QED
    BY <2>1 DEF Probed, Passes
<1>4. ASSUME NEW m \in Missions, companyOf[m] # c
      PROVE  Outside(q, m)
  <2>1. m # n /\ Outside(p, m)
    BY <1>1, <1>4
  <2>2. q.probe[m] = p.probe[m] /\ q.found = p.found /\ q.todo = p.todo
        /\ q.inspected = p.inspected
    BY <1>1, <2>1 DEF Passes
  <2> QED
    BY <2>1, <2>2 DEF Outside
<1> HIDE DEF q, p
<1>5. PassStep(c, q)
  BY <1>1, <1>3 DEF PassStep
<1>6. ASSUME NEW m \in Missions, companyOf[m] = c
      PROVE  RowOK(row'[m], left[m]) /\ MissionOK(q, m, row'[m], left[m])
  <2>1. /\ row[m] \in Rows /\ row'[m] \in Rows /\ left[m] \in MissionStatus
        /\ HostOnly(row[m], row'[m]) /\ RowOK(row[m], left[m])
    BY RowTypes DEF RowsInv
  <2>2. RowOK(row'[m], left[m]) /\ MissionOK(p, m, row'[m], left[m])
    BY <1>1, <1>6, <2>1, HostOnlyMission
  <2> QED
    BY <1>2, <2>1, <2>2
<1>7. RowsInv' /\ PassInv'
  BY <1>2, <1>4, <1>5, <1>6, OnePass
<1>8. PassTypes' /\ GateInv'
  BY <1>2, <1>5, OnePassTypes
<1> QED
  BY <1>7, <1>8

LEMMA HostAnswers ==
  ASSUME NEW r \in Rows, ~HostRuns(r)
  PROVE  r.host \in Answered
  BY DEF Rows, HostRuns, Answered

LEMMA HostOnlySame ==
  ASSUME NEW r
  PROVE  HostOnly(r, r)
  BY DEF HostOnly

LEMMA HostChange ==
  ASSUME NEW r \in Rows, NEW h \in {"running", "aborting", "gone"} \union HostEnd,
         h = "aborting" => HostRuns(r), h # "running"
  PROVE  [r EXCEPT !.host = h] \in Rows /\ HostOnly(r, [r EXCEPT !.host = h])
  BY DEF Rows, HostOnly, HostRuns, HostEnd

LEMMA AskStep ==
  ASSUME ReloadInv, NEW c \in Companies, NEW n \in Missions, Ask(c, n)
  PROVE  ReloadInv'
<1>1. PassTypes
  BY DEF ReloadInv
<1>2. /\ pass[c].phase = "settle" /\ pass[c].probe[n] = "unasked"
      /\ UNCHANGED <<companyOf, left, gate, mishaps>>
  BY DEF Ask
<1>3. mishaps' \in 0 .. MaxMishaps
  BY <1>1, <1>2 DEF PassTypes
<1>4. CASE HostRuns(row[n])
  <2>1. Probed(c, n, "asked") /\ row' = [row EXCEPT ![n].host = "aborting"]
    BY <1>4 DEF Ask
  <2>2. [row[n] EXCEPT !.host = "aborting"] \in Rows
        /\ HostOnly(row[n], [row[n] EXCEPT !.host = "aborting"])
    BY <1>1, <1>4, RowTypes, HostChange
  <2>3. /\ row' \in [Missions -> Rows]
        /\ \A m \in Missions : m # n => row'[m] = row[m]
        /\ row'[n] = [row[n] EXCEPT !.host = "aborting"]
    BY <1>1, <2>1, <2>2 DEF PassTypes
  <2>4. \A m \in Missions : HostOnly(row[m], row'[m])
    BY <2>2, <2>3, HostOnlySame
  <2>5. "asked" \notin Answered
    BY DEF Answered, HostEnd
  <2> QED
    BY <1>2, <1>3, <2>1, <2>3, <2>4, <2>5, ProbedStep
<1>5. CASE ~HostRuns(row[n])
  <2>1. Probed(c, n, row[n].host) /\ row' = row
    BY <1>5 DEF Ask
  <2>2. row[n].host \in Answered
    BY <1>1, <1>5, RowTypes, HostAnswers
  <2>3. row' \in [Missions -> Rows] /\ \A m \in Missions : HostOnly(row[m], row'[m])
    BY <1>1, <2>1, HostOnlySame DEF PassTypes
  <2> QED
    BY <1>2, <1>3, <1>5, <2>1, <2>2, <2>3, ProbedStep
<1> QED
  BY <1>4, <1>5

LEMMA ProbeStep ==
  ASSUME ReloadInv, NEW c \in Companies, NEW n \in Missions, Probe(c, n)
  PROVE  ReloadInv'
<1>1. PassTypes
  BY DEF ReloadInv
<1>2. /\ pass[c].phase = "settle" /\ pass[c].probe[n] = "asked"
      /\ ~HostRuns(row[n]) /\ Probed(c, n, row[n].host) /\ row' = row
      /\ UNCHANGED <<companyOf, left, gate, mishaps>>
  BY DEF Probe
<1>3. row[n].host \in Answered /\ mishaps' \in 0 .. MaxMishaps
  BY <1>1, <1>2, RowTypes, HostAnswers DEF PassTypes
<1>4. row' \in [Missions -> Rows] /\ \A m \in Missions : HostOnly(row[m], row'[m])
  BY <1>1, <1>2, HostOnlySame DEF PassTypes
<1> QED
  BY <1>2, <1>3, <1>4, ProbedStep

LEMMA LateStep ==
  ASSUME ReloadInv, NEW c \in Companies, NEW n \in Missions, Late(c, n)
  PROVE  ReloadInv'
<1>1. PassTypes
  BY DEF ReloadInv
<1>2. /\ pass[c].phase = "settle" /\ pass[c].probe[n] # "none"
      /\ Probed(c, n, "late") /\ row' = row
      /\ UNCHANGED <<companyOf, left, gate>>
  BY DEF Late
<1>3. mishaps' \in 0 .. MaxMishaps
  BY <1>1, ReloadAssumption DEF Late, PassTypes
<1>4. row' \in [Missions -> Rows] /\ \A m \in Missions : HostOnly(row[m], row'[m])
  BY <1>1, <1>2, HostOnlySame DEF PassTypes
<1>5. "late" \notin Answered
  BY DEF Answered, HostEnd
<1> QED
  BY <1>2, <1>3, <1>4, <1>5, ProbedStep

\* Hosts end on their own: no pass takes notice.
LEMMA HostEndsStep ==
  ASSUME ReloadInv, NEW n \in Missions, HostEnds(n)
  PROVE  ReloadInv'
<1>1. PassTypes /\ RowsInv /\ PassInv /\ GateInv
  BY DEF ReloadInv
<1>2. /\ HostRuns(row[n])
      /\ UNCHANGED <<companyOf, left, pass, gate, mishaps>>
  BY DEF HostEnds
<1>3. PICK end \in HostEnd : row' = [row EXCEPT ![n].host = end]
  BY DEF HostEnds
<1>4. [row[n] EXCEPT !.host = end] \in Rows /\ HostOnly(row[n], [row[n] EXCEPT !.host = end])
  <2>1. end # "aborting" /\ end # "running"
    BY DEF HostEnd
  <2> QED
    BY <1>1, <2>1, RowTypes, HostChange
<1>5. /\ row' \in [Missions -> Rows]
      /\ \A m \in Missions : m # n => row'[m] = row[m]
      /\ row'[n] = [row[n] EXCEPT !.host = end]
  BY <1>1, <1>3, <1>4 DEF PassTypes
<1>6. \A m \in Missions : HostOnly(row[m], row'[m])
  BY <1>4, <1>5, HostOnlySame
<1>7. AnyCompany' = AnyCompany /\ Companies' = Companies
  BY <1>2 DEF AnyCompany, Companies
<1>8. PassTypes' /\ GateInv'
  BY <1>1, <1>2, <1>5, <1>7 DEF PassTypes, GateInv
<1>9. ASSUME NEW m \in Missions
      PROVE  /\ RowOK(row'[m], left[m])
             /\ \A c \in AnyCompany : companyOf[m] = c =>
                   MissionOK(pass[c], m, row'[m], left[m])
  <2>1. row[m] \in Rows /\ row'[m] \in Rows /\ left[m] \in MissionStatus
        /\ RowOK(row[m], left[m]) /\ HostOnly(row[m], row'[m])
    BY <1>1, <1>5, <1>6, RowTypes DEF RowsInv
  <2>2. ASSUME NEW c \in AnyCompany, companyOf[m] = c
        PROVE  MissionOK(pass[c], m, row'[m], left[m])
    <3>1. pass[c] \in Passes /\ MissionOK(pass[c], m, row[m], left[m])
      BY <1>1, <2>2 DEF PassTypes, PassInv, PassOK
    <3> QED
      BY <2>1, <3>1, HostOnlyMission
  <2>3. RowOK(row'[m], left[m])
    BY <1>1, <2>1, HostOnlyMission, NewPassOK
  <2> QED
    BY <2>2, <2>3
<1>10. RowsInv' /\ PassInv'
  BY <1>1, <1>2, <1>7, <1>9 DEF RowsInv, PassInv, PassOK
<1> QED
  BY <1>8, <1>10 DEF ReloadInv

LEMMA CrashStep ==
  ASSUME ReloadInv, NEW whole \in BOOLEAN, Crash(whole)
  PROVE  ReloadInv'
<1>1. PassTypes /\ RowsInv
  BY DEF ReloadInv
<1>2. /\ pass' = [c \in AnyCompany |-> NewPass] /\ gate' = "closed"
      /\ UNCHANGED <<companyOf, left>>
      /\ row' = [m \in Missions |->
                    IF whole /\ HostRuns(row[m]) THEN [row[m] EXCEPT !.host = "gone"]
                    ELSE row[m]]
  BY DEF Crash
<1>3. mishaps' \in 0 .. MaxMishaps
  BY <1>1, ReloadAssumption DEF Crash, PassTypes
<1>4. ASSUME NEW m \in Missions
      PROVE  row'[m] \in Rows /\ HostOnly(row[m], row'[m])
  <2>1. row[m] \in Rows
    BY <1>1, RowTypes
  <2>2. [row[m] EXCEPT !.host = "gone"] \in Rows
        /\ HostOnly(row[m], [row[m] EXCEPT !.host = "gone"])
    BY <2>1, HostChange
  <2>3. row'[m] = [row[m] EXCEPT !.host = "gone"] \/ row'[m] = row[m]
    BY <1>2
  <2> QED
    BY <2>1, <2>2, <2>3, HostOnlySame
<1>5. AnyCompany' = AnyCompany
  BY <1>2 DEF AnyCompany
<1>6. row' \in [Missions -> Rows] /\ pass' \in [AnyCompany -> Passes]
  BY <1>2, <1>4, NewPassOK
<1>7. PassTypes'
  BY <1>1, <1>2, <1>3, <1>5, <1>6 DEF PassTypes
<1>8. GateInv'
  BY <1>2 DEF GateInv
<1>9. ASSUME NEW m \in Missions
      PROVE  RowOK(row'[m], left[m])
  <2>1. row[m] \in Rows /\ left[m] \in MissionStatus /\ RowOK(row[m], left[m])
    BY <1>1, RowTypes DEF RowsInv
  <2> QED
    BY <1>4, <2>1, HostOnlyMission, NewPassOK
<1>10. RowsInv'
  BY <1>2, <1>9 DEF RowsInv
<1>11. ASSUME NEW c \in AnyCompany
       PROVE  PassOK(c)'
  <2>1. pass'[c] = NewPass
    BY <1>2
  <2>2. \A m \in Missions : row'[m] \in Rows /\ left'[m] \in MissionStatus
    BY <1>2, <1>4, <1>1, RowTypes
  <2> QED
    BY <2>1, <2>2, NewPassOK DEF PassOK
<1>12. PassInv'
  BY <1>5, <1>11 DEF PassInv
<1> QED
  BY <1>7, <1>8, <1>10, <1>12 DEF ReloadInv

LEMMA ListedFinds ==
  ASSUME PassTypes, PassInv, NEW c \in Companies, NEW f \in Phases
  PROVE  LET T == Listed(c, f, pass[c])
         IN  /\ T \in SUBSET Missions
             /\ \A m \in T : companyOf[m] = c
             /\ \A m \in Missions : companyOf[m] = c =>
                   (m \in T <=> Finds(f, pass[c], m, row[m]))
             /\ f \in {"failed", "converged"} => T = {}
<1> DEFINE T == Listed(c, f, pass[c])
<1>0. /\ pass[c].found \subseteq Missions
      /\ \A m \in Missions : m \in pass[c].found \/ pass[c].probe[m] # "none" =>
            companyOf[m] = c
  BY Ownership DEF Passes
<1>1. CASE f = "terminalize"
  <2>1. T = Candidates(pass[c])
    BY <1>1, PhaseSets DEF Listed
  <2> QED
    BY <1>0, <1>1, <2>1, PhaseSets DEF Candidates, Finds
<1>2. CASE f = "mark"
  <2>1. T = pass[c].found
    BY <1>2, PhaseSets DEF Listed
  <2> QED
    BY <1>0, <1>2, <2>1, PhaseSets DEF Finds
<1>3. CASE f \in Finishes
  <2>1. T = InStatus(c, {"interrupted"})
    BY <1>3, PhaseSets DEF Listed
  <2> QED
    BY <1>3, <2>1, PhaseSets DEF Finds, InStatus, Owned
<1>4. CASE f \in Finalizes
  <2>1. T = InStatus(c, {"ready_to_resume"}) \ pass[c].inspected
    BY <1>4, PhaseSets DEF Listed
  <2> QED
    BY <1>4, <2>1, PhaseSets DEF Finds, InStatus, Owned
<1>5. CASE f = "reconcile"
  <2>1. T = InStatus(c, RECOVERABLE_MISSION_STATUSES)
    BY <1>5, PhaseSets DEF Listed
  <2> QED
    BY <1>5, <2>1, PhaseSets DEF Finds, InStatus, Owned
<1>6. CASE f \notin {"terminalize", "mark", "reconcile"} \union Finishes \union Finalizes
  <2>1. T = {}
    BY <1>6 DEF Listed
  <2> QED
    BY <1>6, <2>1 DEF Finds
<1>7. f \in {"failed", "converged"} =>
         f \notin {"terminalize", "mark", "reconcile"} \union Finishes \union Finalizes
  BY PhaseSets
<1> QED
  BY <1>1, <1>2, <1>3, <1>4, <1>5, <1>6, <1>7

LEMMA EnterStep ==
  ASSUME ReloadInv, NEW c \in Companies, NEW f \in Phases, Leads(pass[c], f),
         Enter(c, f), pass[c].phase # "converged",
         UNCHANGED <<companyOf, row, left, gate>>, mishaps' \in 0 .. MaxMishaps
  PROVE  ReloadInv'
<1>0. PassTypes /\ RowsInv /\ PassInv /\ GateInv
  BY DEF ReloadInv
<1> DEFINE p == pass[c]
           T == Listed(c, f, p)
           q == Entered(p, f, T)
<1>1. /\ p \in Passes /\ ListOK(p)
      /\ \A m \in Missions : companyOf[m] = c => MissionOK(p, m, row[m], left[m])
      /\ \A m \in Missions : companyOf[m] # c => Outside(p, m)
  BY <1>0, Ownership
<1>2. /\ T \in SUBSET Missions
      /\ \A m \in T : companyOf[m] = c
      /\ \A m \in Missions : companyOf[m] = c => (m \in T <=> Finds(f, p, m, row[m]))
      /\ f \in {"failed", "converged"} => T = {}
  BY <1>0, ListedFinds
<1>3. pass' = [pass EXCEPT ![c] = q]
  BY DEF Enter, Entered
<1> HIDE DEF T
<1>4. /\ q \in Passes
      /\ q.found = p.found /\ q.probe = p.probe /\ q.inspected = p.inspected /\ q.todo = T
  BY <1>1, <1>2, EnteredType
<1>5. ListOK(q)
  BY <1>1, <1>2, EnteredList
<1>6. ASSUME NEW m \in Missions, companyOf[m] # c
      PROVE  Outside(q, m)
  BY <1>1, <1>2, <1>4, <1>6 DEF Outside
<1>7. ASSUME NEW m \in Missions, companyOf[m] = c
      PROVE  RowOK(row[m], left[m]) /\ MissionOK(q, m, row[m], left[m])
  <2>1. row[m] \in Rows /\ left[m] \in MissionStatus /\ RowOK(row[m], left[m])
    BY <1>0, RowTypes DEF RowsInv
  <2>2. MissionOK(p, m, row[m], left[m]) /\ (m \in T <=> Finds(f, p, m, row[m]))
    BY <1>1, <1>2, <1>7
  <2> HIDE DEF p
  <2> QED
    BY <1>1, <1>2, <2>1, <2>2, EnteredMission DEF p
<1> HIDE DEF q, p
<1>8. PassStep(c, q)
  BY <1>0, <1>3 DEF PassStep, PassTypes
<1>9. RowsInv' /\ PassInv'
  BY <1>0, <1>4, <1>5, <1>6, <1>7, <1>8, OnePass
<1>10. PassTypes' /\ GateInv'
  BY <1>0, <1>4, <1>8, OnePassTypes
<1> QED
  BY <1>9, <1>10 DEF ReloadInv

LEMMA SettleStep ==
  ASSUME ReloadInv, NEW c \in Companies, Settle(c)
  PROVE  ReloadInv'
<1>0. PassTypes /\ pass[c] \in Passes
  BY CompaniesKnown DEF ReloadInv, PassTypes
<1>1. /\ pass[c].phase = "settle" /\ AllAnswered(pass[c])
      /\ UNCHANGED <<companyOf, row, left, gate, mishaps>>
  BY DEF Settle
<1>2. mishaps' \in 0 .. MaxMishaps
  BY <1>0, <1>1 DEF PassTypes
<1>3. CASE \E m \in Missions : pass[c].probe[m] = "late"
  <2>1. Enter(c, "failed") /\ Leads(pass[c], "failed") /\ "failed" \in Phases
    BY <1>3 DEF Settle, Leads, Phases
  <2> QED
    BY <1>1, <1>2, <2>1, EnterStep
<1>4. CASE ~\E m \in Missions : pass[c].probe[m] = "late"
  <2>1. Enter(c, "terminalize") /\ "terminalize" \in Phases
    BY <1>4 DEF Settle, Phases
  <2>2. \A m \in Missions : pass[c].probe[m] \in {"none"} \union Answered
    BY <1>0, <1>1, <1>4 DEF AllAnswered, Passes, Probes, Answered
  <2>3. Leads(pass[c], "terminalize")
    BY <1>1, <2>2 DEF Leads
  <2> QED
    BY <1>1, <1>2, <2>1, <2>3, EnterStep
<1> QED
  BY <1>3, <1>4

LEMMA NextPhaseStep ==
  ASSUME ReloadInv, NEW c \in Companies, NextPhase(c)
  PROVE  ReloadInv'
<1>1. /\ pass[c].phase \in DOMAIN Following /\ pass[c].todo = {}
      /\ Enter(c, Following[pass[c].phase])
      /\ UNCHANGED <<companyOf, row, left, gate, mishaps>>
  BY DEF NextPhase, AtWork
<1>2. mishaps' \in 0 .. MaxMishaps
  BY <1>1 DEF ReloadInv, PassTypes
<1>3. Leads(pass[c], Following[pass[c].phase])
  BY <1>1 DEF Leads
<1>4. pass[c].phase # "converged"
  BY <1>1, PhaseSets
<1>5. Following[pass[c].phase] \in Phases
  <2>1. pass[c].phase \in {"terminalize", "mark", "reconcile", "finish", "finishAfter",
                           "finishClosing", "finalize", "finalizeAfter", "finalizeClosing"}
    BY <1>1, PhaseSets
  <2> QED
    BY <2>1, FollowingPhases, PhaseSets DEF Phases
<1> QED
  BY <1>1, <1>2, <1>3, <1>4, <1>5, EnterStep

LEMMA FailsStep ==
  ASSUME ReloadInv, NEW c \in Companies, Fails(c)
  PROVE  ReloadInv'
<1>1. /\ pass[c].phase \in DOMAIN Following \/ pass[c].phase = "discover"
      /\ Enter(c, OnError(pass[c].phase))
      /\ UNCHANGED <<companyOf, row, left, gate>>
  BY DEF Fails, AtWork
<1>2. mishaps' \in 0 .. MaxMishaps
  BY ReloadAssumption DEF ReloadInv, PassTypes, Fails
<1>3. /\ Leads(pass[c], OnError(pass[c].phase))
      /\ OnError(pass[c].phase) \in Phases
  BY PhaseSets DEF Leads, OnError, Phases
<1>4. pass[c].phase # "converged"
  BY <1>1, PhaseSets
<1> QED
  BY <1>1, <1>2, <1>3, <1>4, EnterStep

LEMMA RetryStep ==
  ASSUME ReloadInv, NEW c \in Companies, Retry(c)
  PROVE  ReloadInv'
<1>0. PassTypes /\ RowsInv /\ PassInv /\ GateInv
  BY DEF ReloadInv
<1>1. /\ pass[c].phase = "failed" /\ pass' = [pass EXCEPT ![c] = NewPass]
      /\ UNCHANGED <<companyOf, row, left, gate, mishaps>>
  BY DEF Retry
<1>2. PassStep(c, NewPass)
  BY <1>0, <1>1 DEF PassStep, PassTypes
<1>3. \A m \in Missions :
         RowOK(row'[m], left[m]) /\ MissionOK(NewPass, m, row'[m], left[m])
  BY <1>0, <1>1, RowTypes, NewPassOK DEF RowsInv
<1>4. RowsInv' /\ PassInv'
  BY <1>0, <1>2, <1>3, NewPassOK, OnePass
<1>5. mishaps' \in 0 .. MaxMishaps
  BY <1>0, <1>1 DEF PassTypes
<1>6. PassTypes' /\ GateInv'
  BY <1>0, <1>1, <1>2, <1>5, NewPassOK, OnePassTypes
<1> QED
  BY <1>4, <1>6 DEF ReloadInv

LEMMA OpenGateStep ==
  ASSUME ReloadInv, OpenGate
  PROVE  ReloadInv'
<1>1. AnyCompany' = AnyCompany /\ Companies' = Companies
  BY DEF OpenGate, AnyCompany, Companies
<1>2. PassTypes' /\ RowsInv' /\ GateInv'
  BY <1>1 DEF ReloadInv, OpenGate, PassTypes, RowsInv, GateInv
<1>3. PassInv'
  BY <1>1 DEF ReloadInv, OpenGate, PassInv, PassOK
<1> QED
  BY <1>2, <1>3 DEF ReloadInv

LEMMA HaveLeftIsHaving ==
  ASSUME PassTypes, NEW c \in Companies, NEW m \in Missions, NEW w \in Seq(Writes),
         HaveLeft(c, m, w)
  PROVE  pass' = [pass EXCEPT ![c] = Having(pass[c], m, w)]
<1>1. c \in AnyCompany /\ pass \in [AnyCompany -> Passes]
  BY CompaniesKnown DEF PassTypes
<1> QED
  BY <1>1 DEF HaveLeft, Having, Passes

\* The Mission in hand, m, has the row s and the writes w left.
LEMMA HandStep ==
  ASSUME ReloadInv, NEW c \in Companies, NEW m \in pass[c].todo, NEW w \in Seq(Writes),
         pass[c].phase \in DOMAIN Following, pass[c].at \in {m, NoMission},
         HaveLeft(c, m, w),
         NEW s \in Rows, row' = [row EXCEPT ![m] = s],
         RowOK(s, left[m]), Kept(pass[c].phase, row[m], s),
         InHand(pass[c].phase, w, s, left[m]),
         UNCHANGED <<companyOf, left, gate, mishaps>>
  PROVE  ReloadInv'
<1>0. PassTypes /\ RowsInv /\ PassInv /\ GateInv
  BY DEF ReloadInv
<1> DEFINE p == pass[c]
           q == Having(p, m, w)
<1>1. /\ p \in Passes /\ ListOK(p)
      /\ companyOf[m] = c
      /\ \A n \in Missions : companyOf[n] = c => MissionOK(p, n, row[n], left[n])
      /\ \A n \in Missions : companyOf[n] # c => Outside(p, n)
  <2>1. m \in Missions
    BY <1>0, Ownership DEF Passes
  <2> QED
    BY <1>0, <2>1, Ownership
<1>2. m \in Missions
  BY <1>1 DEF Passes
<1>3. pass' = [pass EXCEPT ![c] = q]
  BY <1>0, <1>2, HaveLeftIsHaving
<1>4. q \in Passes
  BY <1>1, <1>2, HavingType
<1>5. ListOK(q)
  BY <1>1, HavingList
<1>6. /\ row' \in [Missions -> Rows]
      /\ row'[m] = s
      /\ \A n \in Missions : n # m => row'[n] = row[n]
  BY <1>0, <1>2 DEF PassTypes
<1>7. ASSUME NEW n \in Missions, companyOf[n] # c
      PROVE  Outside(q, n)
  <2>1. n # m /\ Outside(p, n)
    BY <1>1, <1>7
  <2>2. /\ q.found = p.found /\ q.probe = p.probe
        /\ n \in q.todo <=> n \in p.todo
        /\ n \in q.inspected <=> n \in p.inspected
    BY <1>1, <2>1 DEF Having, Passes
  <2> QED
    BY <2>1, <2>2 DEF Outside
<1>8. ASSUME NEW n \in Missions, companyOf[n] = c
      PROVE  RowOK(row'[n], left[n]) /\ MissionOK(q, n, row'[n], left[n])
  <2>1. row[n] \in Rows /\ left[n] \in MissionStatus /\ RowOK(row[n], left[n])
    BY <1>0, RowTypes DEF RowsInv
  <2>2. MissionOK(p, n, row[n], left[n])
    BY <1>1, <1>8
  <2>3. CASE n = m
    <3>1. MissionOK(q, m, s, left[m])
      BY <1>1, <2>1, <2>2, <2>3, HavingMission
    <3> QED
      BY <1>6, <2>3, <3>1
  <2>4. CASE n # m
    <3>1. MissionOK(q, n, row[n], left[n])
      BY <1>1, <2>1, <2>2, <2>4, HavingOthers
    <3> QED
      BY <1>6, <2>1, <2>4, <3>1
  <2> QED
    BY <2>3, <2>4
<1> HIDE DEF q, p
<1>9. PassStep(c, q)
  BY <1>1, <1>3, <1>6 DEF PassStep
<1>10. RowsInv' /\ PassInv'
  BY <1>0, <1>4, <1>5, <1>7, <1>8, <1>9, OnePass
<1>11. pass[c].phase # "converged"
  BY PhaseSets
<1>12. mishaps' \in 0 .. MaxMishaps
  BY <1>0 DEF PassTypes
<1>13. PassTypes' /\ GateInv'
  BY <1>0, <1>4, <1>9, <1>11, <1>12, OnePassTypes
<1> QED
  BY <1>10, <1>13 DEF ReloadInv

LEMMA TakeMissionStep ==
  ASSUME ReloadInv, NEW c \in Companies, TakeMission(c)
  PROVE  ReloadInv'
<1>0. PassTypes /\ RowsInv /\ PassInv /\ GateInv
  BY DEF ReloadInv
<1>1. PICK m \in pass[c].todo :
         HaveLeft(c, m, WritesOf(pass[c].phase, row[m], pass[c].probe[m]))
  <2>1. pass[c].todo # {}
    BY DEF TakeMission
  <2>2. (CHOOSE n \in pass[c].todo : TRUE) \in pass[c].todo
    BY <2>1
  <2> QED
    BY <2>2 DEF TakeMission
<1>2. /\ pass[c].phase \in DOMAIN Following /\ pass[c].at = NoMission
      /\ UNCHANGED <<companyOf, row, left, gate, mishaps>>
  BY DEF TakeMission, AtWork
<1>3. pass[c] \in Passes /\ ListOK(pass[c]) /\ m \in Missions /\ companyOf[m] = c
  <2>1. pass[c] \in Passes /\ ListOK(pass[c])
    BY <1>0, Ownership
  <2>2. m \in Missions
    BY <2>1 DEF Passes
  <2> QED
    BY <1>0, <2>1, <2>2, Ownership
<1> DEFINE p == pass[c]
           w == WritesOf(p.phase, row[m], p.probe[m])
<1>4. /\ row[m] \in Rows /\ left[m] \in MissionStatus /\ RowOK(row[m], left[m])
      /\ MissionOK(p, m, row[m], left[m])
  BY <1>0, <1>3, RowTypes, Ownership DEF RowsInv
<1>5. AtHand(p.phase, row[m], left[m])
  BY <1>3, <1>4, ReachesHand
<1>6. p.phase = "terminalize" => p.probe[m] \in Answered
  BY <1>3, <1>4, <1>5 DEF AtHand, ListOK, MissionOK, StoppedOK
<1>7. w \in Seq(Writes) /\ InHand(p.phase, w, row[m], left[m])
  BY <1>2, <1>4, <1>5, <1>6, FreshWrites
<1>8. row' = [row EXCEPT ![m] = row[m]]
  BY <1>0, <1>2, <1>3 DEF PassTypes
<1>9. Kept(p.phase, row[m], row[m])
  BY DEF Kept
<1> HIDE DEF w
<1>10. HaveLeft(c, m, w)
  BY <1>1 DEF w
<1> QED
  BY <1>2, <1>4, <1>7, <1>8, <1>9, <1>10, HandStep

\* What DoWrite writes, and where.
LEMMA WriteContext ==
  ASSUME ReloadInv, NEW c \in Companies, pass[c].work # <<>>
  PROVE  /\ pass[c].at \in pass[c].todo /\ pass[c].at \in Missions
         /\ companyOf[pass[c].at] = c
         /\ pass[c].work \in Seq(Writes)
         /\ pass[c].phase \in DOMAIN Following
         /\ row[pass[c].at] \in Rows /\ left[pass[c].at] \in MissionStatus
         /\ RowOK(row[pass[c].at], left[pass[c].at])
         /\ AtHand(pass[c].phase, row[pass[c].at], left[pass[c].at])
         /\ InHand(pass[c].phase, pass[c].work, row[pass[c].at], left[pass[c].at])
<1>0. PassTypes /\ RowsInv /\ PassInv
  BY DEF ReloadInv
<1> DEFINE p == pass[c]
           m == p.at
<1>1. /\ p \in Passes /\ ListOK(p)
      /\ \A n \in Missions : n \in p.todo => companyOf[n] = c
      /\ \A n \in Missions : companyOf[n] = c => MissionOK(p, n, row[n], left[n])
  BY <1>0, Ownership
<1>2. m \in p.todo /\ m \in Missions /\ p.work \in Seq(Writes) /\ p.phase \in Phases
  BY <1>1 DEF ListOK, Passes
<1>3. companyOf[m] = c /\ MissionOK(p, m, row[m], left[m])
  BY <1>1, <1>2
<1>4. p.phase \in DOMAIN Following
  BY <1>1, <1>2, PhaseSets DEF ListOK, Undiscovered, Phases
<1>5. row[m] \in Rows /\ left[m] \in MissionStatus /\ RowOK(row[m], left[m])
  BY <1>0, <1>2, RowTypes DEF RowsInv
<1>6. AtHand(p.phase, row[m], left[m])
  BY <1>1, <1>2, <1>3, <1>5, ReachesHand
<1>7. InHand(p.phase, p.work, row[m], left[m])
  BY <1>3 DEF MissionOK
<1> QED
  BY <1>2, <1>3, <1>4, <1>5, <1>6, <1>7

LEMMA DoWriteStep ==
  ASSUME ReloadInv, NEW c \in Companies, DoWrite(c)
  PROVE  ReloadInv'
<1> DEFINE p == pass[c]
           m == p.at
           w == p.work
           s == Written(row[m], Head(w)[1], Head(w)[2])
<1>1. /\ w # <<>>
      /\ row' = [row EXCEPT ![m] = s]
      /\ HaveLeft(c, m, Tail(w))
      /\ UNCHANGED <<companyOf, left, gate, mishaps>>
  BY DEF DoWrite
<1>2. /\ m \in p.todo /\ m \in Missions
      /\ w \in Seq(Writes) /\ p.phase \in DOMAIN Following
      /\ row[m] \in Rows /\ left[m] \in MissionStatus
      /\ RowOK(row[m], left[m])
      /\ AtHand(p.phase, row[m], left[m])
      /\ InHand(p.phase, w, row[m], left[m])
  BY <1>1, WriteContext
<1>3. /\ s \in Rows /\ RowOK(s, left[m]) /\ Kept(p.phase, row[m], s)
      /\ InHand(p.phase, Tail(w), s, left[m])
  BY <1>1, <1>2, WriteEffect
<1>4. Tail(w) \in Seq(Writes)
  BY <1>1, <1>2, ElemsTail
<1> HIDE DEF s
<1> QED
  BY <1>1, <1>2, <1>3, <1>4, HandStep

-----------------------------------------------------------------------------
(***************************************************************************)
(* The theorems.                                                           *)
(***************************************************************************)
LEMMA InitReloadInv == ReloadInit => ReloadInv
<1> SUFFICES ASSUME ReloadInit
             PROVE  ReloadInv
  OBVIOUS
<1>1. PICK l \in Left : companyOf = l.companyOf /\ row = l.row
  BY DEF ReloadInit
<1>2. /\ companyOf \in [Missions -> AnyCompany] /\ row \in [Missions -> Rows]
      /\ \A m \in Missions : LeftBehind(row[m])
  BY <1>1, ReloadAssumption
<1>3. /\ left = [m \in Missions |-> row[m].status]
      /\ pass = [c \in AnyCompany |-> NewPass]
      /\ gate = "closed" /\ mishaps = 0
  BY DEF ReloadInit
<1>4. ASSUME NEW m \in Missions
      PROVE  left[m] \in MissionStatus /\ RowOK(row[m], left[m])
  <2>1. /\ row[m] \in Rows /\ LeftBehind(row[m]) /\ left[m] = row[m].status
    BY <1>2, <1>3
  <2> QED
    BY <2>1, DiscoveryStatuses DEF Rows, LeftBehind, RowOK, HostRuns, Runs, Stopped
<1>5. PassTypes
  BY <1>2, <1>3, <1>4, NewPassOK, ReloadAssumption DEF PassTypes
<1>6. PassInv
  BY <1>3, <1>4, <1>5, RowTypes, NewPassOK DEF PassInv, PassOK
<1> QED
  BY <1>3, <1>4, <1>5, <1>6 DEF ReloadInv, RowsInv, GateInv

LEMMA StepReloadInv == ReloadInv /\ [ReloadNext]_reloadVars => ReloadInv'
<1> SUFFICES ASSUME ReloadInv, [ReloadNext]_reloadVars
             PROVE  ReloadInv'
  OBVIOUS
<1>1. ASSUME NEW c \in Companies, Discover(c)
      PROVE  ReloadInv'
  BY <1>1, DiscoverStep
<1>2. ASSUME NEW c \in Companies, Settle(c)
      PROVE  ReloadInv'
  BY <1>2, SettleStep
<1>3. ASSUME NEW c \in Companies, TakeMission(c)
      PROVE  ReloadInv'
  BY <1>3, TakeMissionStep
<1>4. ASSUME NEW c \in Companies, DoWrite(c)
      PROVE  ReloadInv'
  BY <1>4, DoWriteStep
<1>5. ASSUME NEW c \in Companies, NextPhase(c)
      PROVE  ReloadInv'
  BY <1>5, NextPhaseStep
<1>6. ASSUME NEW c \in Companies, NEW m \in Missions, Ask(c, m) \/ Probe(c, m)
      PROVE  ReloadInv'
  BY <1>6, AskStep, ProbeStep
<1>7. ASSUME NEW c \in Companies, Fails(c)
      PROVE  ReloadInv'
  BY <1>7, FailsStep
<1>8. ASSUME NEW c \in Companies, Retry(c)
      PROVE  ReloadInv'
  BY <1>8, RetryStep
<1>9. ASSUME NEW c \in Companies, NEW m \in Missions, Late(c, m)
      PROVE  ReloadInv'
  BY <1>9, LateStep
<1>10. ASSUME NEW m \in Missions, HostEnds(m)
       PROVE  ReloadInv'
  BY <1>10, HostEndsStep
<1>11. CASE OpenGate
  BY <1>11, OpenGateStep
<1>12. ASSUME NEW whole \in BOOLEAN, Crash(whole)
       PROVE  ReloadInv'
  BY <1>12, CrashStep
<1>13. CASE UNCHANGED reloadVars
  <2>1. UNCHANGED <<companyOf, row, left, pass, gate, mishaps>>
    BY <1>13 DEF reloadVars
  <2>2. AnyCompany' = AnyCompany /\ Companies' = Companies
    BY <2>1 DEF AnyCompany, Companies
  <2> QED
    BY <2>1, <2>2 DEF ReloadInv, PassTypes, RowsInv, PassInv, PassOK, GateInv
<1> QED
  BY <1>1, <1>2, <1>3, <1>4, <1>5, <1>6, <1>7, <1>8, <1>9, <1>10, <1>11, <1>12, <1>13
  DEF ReloadNext, PassNext

\* What every phase of every pass has established for the Missions of its company
\* that were in flight, beside any other rows, with what is still on its list and what is still to be written: the invariant
\* behind the theorems below.
THEOREM PassesEstablish == ReloadSpec => []ReloadInv
  BY InitReloadInv, StepReloadInv, PTL DEF ReloadSpec

LEMMA InvTypes == ReloadInv => ReloadTypeOK
<1> SUFFICES ASSUME ReloadInv
             PROVE  ReloadTypeOK
  OBVIOUS
<1>1. Writes \subseteq Write
  BY DiscoveryStatuses DEF Writes, Write, MissionStatus, Events, HostEnd
<1>2. ASSUME NEW c \in AnyCompany
      PROVE  /\ pass[c].phase \in Phases
             /\ pass[c].found \subseteq Missions
             /\ pass[c].probe \in [Missions -> Probes]
             /\ pass[c].todo \subseteq Missions
             /\ pass[c].at \in pass[c].todo \union {NoMission}
             /\ \A i \in DOMAIN pass[c].work : pass[c].work[i] \in Write
             /\ pass[c].inspected \subseteq Missions
  <2>1. pass[c] \in Passes /\ ListOK(pass[c])
    BY DEF ReloadInv, PassTypes, PassInv, PassOK
  <2>2. pass[c].work \in Seq(Writes)
    BY <2>1 DEF Passes
  <2>3. \A i \in DOMAIN pass[c].work : pass[c].work[i] \in Write
    BY <1>1, <2>2, LenProperties
  <2> QED
    BY <2>1, <2>3 DEF Passes, ListOK
<1> QED
  BY <1>2 DEF ReloadInv, PassTypes, ReloadTypeOK

\* The recovery never leaves the rows and locals of its types, whatever fails or
\* dies (convergeMissionReload, mission-reload-recovery.ts).
THEOREM ReloadTypes == ReloadSpec => []ReloadTypeOK
  BY PassesEstablish, InvTypes, PTL

LEMMA InvGate == ReloadInv => GateMeansSettled
<1> SUFFICES ASSUME ReloadInv, gate = "open", NEW m \in Missions
             PROVE  InFlight(m) =>
                       /\ Stopped(row[m])
                       /\ row[m].status = "ready_to_resume"
                       /\ row[m].attempt = "interrupted"
                       /\ row[m].link # "active"
                       /\ Trail(left[m]) \subseteq row[m].events
  BY DEF GateMeansSettled
<1>1. PICK c \in Companies : c = companyOf[m]
  BY CompaniesKnown DEF ReloadInv
<1>2. pass[c].phase = "converged" /\ MissionOK(pass[c], m, row[m], left[m])
  BY <1>1, Ownership DEF ReloadInv, GateInv
<1>3. left[m] \in RELOAD_DISCOVERY_STATUSES => Stopped(row[m])
  BY <1>2, PhaseSets DEF MissionOK, StoppedOK
<1>4. left[m] \in RELOAD_DISCOVERY_STATUSES =>
         row[m].status = "ready_to_resume" /\ Settled(row[m], left[m])
  BY <1>2 DEF MissionOK, RepairedOK
<1> QED
  BY <1>3, <1>4 DEF Settled, InFlight

\* Whatever number of Missions and companies a former renderer left, and whatever
\* calls failed and renderers died in between: when the UI is opened, nothing that
\* belongs to a Mission in flight runs, and each is parked, its attempt, link and
\* trail of events included (mission-reload-recovery.ts:182-184, 442-448).  What
\* else was left, a failed Mission whose host runs among it, may run on.
THEOREM GateOpensOnSettled == ReloadSpec => []GateMeansSettled
  BY PassesEstablish, InvGate, PTL

LEMMA StepParks ==
  ReloadInv /\ [ReloadNext]_reloadVars =>
     [\A m \in Missions :
         (row'[m].status # row[m].status \/ row'[m].marker # row[m].marker)
            => \A n \in Missions :
                  companyOf[n] = companyOf[m] /\ InFlight(n) => Stopped(row[n])]_reloadVars
<1> SUFFICES ASSUME ReloadInv, ReloadNext, NEW m \in Missions,
                    row'[m].status # row[m].status \/ row'[m].marker # row[m].marker,
                    NEW n \in Missions, companyOf[n] = companyOf[m], InFlight(n)
             PROVE  Stopped(row[n])
  OBVIOUS
<1>0. PassTypes /\ PassInv
  BY DEF ReloadInv
<1>1. ASSUME NEW c \in Companies, DoWrite(c)
      PROVE  Stopped(row[n])
  <2> DEFINE p == pass[c]
             w == p.work
             h == Head(w)
  <2>1. /\ w # <<>>
        /\ row' = [row EXCEPT ![p.at] = Written(row[p.at], h[1], h[2])]
    BY <1>1 DEF DoWrite
  <2>2. /\ p.at \in Missions /\ companyOf[p.at] = c
        /\ w \in Seq(Writes) /\ p.phase \in DOMAIN Following
        /\ row[p.at] \in Rows
        /\ InHand(p.phase, w, row[p.at], left[p.at])
    BY <2>1, WriteContext
  <2>3. h \in Writes /\ h \in WritesIn(p.phase)
    BY SMTT(30), <2>1, <2>2, ElemsTail DEF InHand
  <2>4. m = p.at
    BY <1>0, <2>1 DEF PassTypes
  <2>5. row'[m] = Written(row[m], h[1], h[2])
    BY <1>0, <2>1, <2>4 DEF PassTypes
  <2> HIDE DEF h
  <2>r. row[m] \in Rows
    BY <1>0, RowTypes
  <2>f. LET s == Written(row[m], h[1], h[2])
        IN  /\ s.status = IF h[1] = "status" THEN h[2] ELSE row[m].status
            /\ s.marker = IF h[1] = "marker" THEN h[2] ELSE row[m].marker
    BY <2>r, <2>3, WrittenFields
  <2>6. h[1] = "status" \/ h[1] = "marker"
    BY <2>5, <2>f
  <2>7. p.phase # "terminalize"
    BY <2>3, <2>6, PhaseWrites
  <2>8. p.phase \in AfterSettle
    BY <2>2, <2>7, PhaseSets
  <2>9. MissionOK(p, n, row[n], left[n])
    BY <1>0, <2>2, <2>4, Ownership
  <2> QED
    BY <2>8, <2>9 DEF MissionOK, StoppedOK, InFlight
<1>2. ASSUME row' = row
      PROVE  FALSE
  BY <1>2
<1>3. ASSUME NEW k \in Missions, NEW h,
             row' = [row EXCEPT ![k] = [row[k] EXCEPT !.host = h]]
      PROVE  FALSE
  <2>1. row[m] \in Rows
    BY <1>0, RowTypes
  <2>2. row'[m] = row[m] \/ row'[m] = [row[m] EXCEPT !.host = h]
    BY <1>0, <1>3 DEF PassTypes
  <2> QED
    BY <2>1, <2>2 DEF Rows
<1>4. ASSUME NEW c \in Companies, NEW k \in Missions, Ask(c, k)
      PROVE  FALSE
  <2>1. CASE row' = row
    BY <1>2, <2>1
  <2>2. CASE row' = [row EXCEPT ![k].host = "aborting"]
    BY <1>3, <2>2
  <2> QED
    BY <1>4, <2>1, <2>2 DEF Ask
<1>5. ASSUME NEW k \in Missions, HostEnds(k)
      PROVE  FALSE
  <2>1. PICK end \in HostEnd : row' = [row EXCEPT ![k].host = end]
    BY <1>5 DEF HostEnds
  <2> QED
    BY <1>3, <2>1
<1>6. ASSUME NEW whole \in BOOLEAN, Crash(whole)
      PROVE  FALSE
  <2>1. row'[m] = row[m] \/ row'[m] = [row[m] EXCEPT !.host = "gone"]
    BY <1>6 DEF Crash
  <2>2. row[m] \in Rows
    BY <1>0, RowTypes
  <2> QED
    BY <2>1, <2>2 DEF Rows
<1>7. CASE OpenGate
  BY <1>2, <1>7 DEF OpenGate
<1>8. ASSUME NEW c \in Companies,
             Discover(c) \/ Settle(c) \/ TakeMission(c) \/ NextPhase(c) \/ Fails(c) \/ Retry(c)
      PROVE  FALSE
  BY <1>2, <1>8 DEF Discover, Settle, TakeMission, NextPhase, Fails, Retry
<1>9. ASSUME NEW c \in Companies, NEW k \in Missions, Probe(c, k) \/ Late(c, k)
      PROVE  FALSE
  BY <1>2, <1>9 DEF Probe, Late
<1> QED
  BY <1>1, <1>4, <1>5, <1>6, <1>7, <1>8, <1>9 DEF ReloadNext, PassNext

\* No Mission is marked or moved before all that its company had in flight has
\* stopped, in the host and in agent_run, in any number of passes and crashes
\* (mission-reload-recovery.ts:531-533).
THEOREM ParksAfterStop == ReloadSpec => StoppedBeforeParked
  BY PassesEstablish, StepParks, PTL DEF ReloadSpec, StoppedBeforeParked
=============================================================================
