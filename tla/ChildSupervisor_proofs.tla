----------------------- MODULE ChildSupervisor_proofs -----------------------
(***************************************************************************)
(* Proofs about ChildSupervisor, for any limits, any number of children    *)
(* and of delegate calls, overlapping or not.                              *)
(*                                                                         *)
(* That an abort reaches every child rests on the shape of the tree: a     *)
(* child that lives has its call open and its caller in turn, and carries  *)
(* the path from the root to that caller.  SupervisorInv says so, and what *)
(* a run whose turn was aborted still is.                                  *)
(*                                                                         *)
(* Permits are counted in two parts.  What a method of the pool gives and  *)
(* leaves is stated once, for any pool that is GoodPool.  QueueInv then    *)
(* says whom a permit or a place in the queue belongs to: a waiter is a    *)
(* child that has not started or a parent whose call resumes, and at most  *)
(* one call has lent its caller's permit.                                  *)
(***************************************************************************)
EXTENDS ChildSupervisor, FiniteSetTheorems, SequenceTheorems, TLAPS

RunShape == [pc : Pcs, caller : Callers, callId : CallIds \union {0},
             above : SUBSET Callers, attempts : Nat,
             aborted : BOOLEAN, timedOut : BOOLEAN, outcome : Outcomes]

CallShape == [pc : {"unmade", "tasks", "resuming", "back"},
              caller : Callers, suspended : BOOLEAN]

\* A pool has its two fields, whatever the waiters are.
Shaped(p) == p = [activeRuns |-> p.activeRuns, waiters |-> p.waiters]

Shapes ==
    /\ limits \in PolicyShape
    /\ Shaped(pool)
    /\ spawned \in 0 .. limits.maxTotalChildren
    /\ run \in [Runs -> RunShape]
    /\ call \in [CallIds -> CallShape]
    /\ cut \subseteq Callers

Alive(r) == run[r].pc \notin {"unused", "ended"}

\* Runs are admitted in order; one that lives is of an open call of a caller in
\* turn, with the path to it; an ended one is of no call.
Lineage ==
    /\ \A r \in Runs : r > spawned => run[r].pc = "unused"
    /\ \A r \in Runs : IF Alive(r)
                       THEN /\ run[r].callId \in CallIds
                            /\ call[run[r].callId].pc = "tasks"
                            /\ call[run[r].callId].caller = run[r].caller
                            /\ run[r].above = AboveOf(run[r].caller)
                       ELSE run[r].callId = 0
    /\ \A r \in Runs : run[r].above \intersect Runs \subseteq 1 .. r - 1
    /\ \A k \in CallIds : call[k].pc \in {"tasks", "resuming"} => InTurn(call[k].caller)

\* A run whose turn was aborted knows it, until its outcome is known.
CutAgrees ==
    \A r \in Runs :
        /\ run[r].outcome # "none" => run[r].pc = "closing"
        /\ r \in cut => \/ run[r].pc = "turn" /\ Interrupted(r)
                        \/ run[r].pc = "closing" /\ run[r].outcome # "completed"

\* Who works and has not been aborted holds a permit, or has lent it to a call.
PermitsAgree ==
    \A r \in Runs :
        /\ run[r].pc \in {"admitted", "building"} => r \in pool.activeRuns
        /\ run[r].pc \in {"turn", "verifying", "closing"} /\ r \notin cut =>
              \/ r \in pool.activeRuns
              \/ \E k \in OpenCalls(r) : call[k].suspended

SupervisorInv ==
    Shapes /\ Lineage /\ CutAgrees /\ PermitsAgree /\ AbortReachesChildren

-----------------------------------------------------------------------------
(* What the methods of the pool give and leave. *)

Elems(s) == {s[i] : i \in DOMAIN s}

\* A pool within its limit, whose waiters hold nothing and wait once, and only
\* while there is no permit left.
GoodPool(p, max) ==
    /\ p \in Pools
    /\ \A i \in DOMAIN p.waiters : p.waiters[i].runId \notin p.activeRuns
    /\ \A i, j \in DOMAIN p.waiters : p.waiters[i].runId = p.waiters[j].runId => i = j
    /\ Cardinality(p.activeRuns) <= max
    /\ p.waiters # <<>> => Cardinality(p.activeRuns) = max

LEMMA ActiveFinite ==
    ASSUME NEW S \in SUBSET Runs
    PROVE  IsFiniteSet(S) /\ Cardinality(S) \in Nat
<1>1. IsFiniteSet(Runs)
  BY LimitsAssumption, FS_Interval DEF Runs
<1> QED
  BY <1>1, FS_Subset, FS_CardinalityType

\* Runs that are pairwise different, and not in S, count one each.
LEMMA AdmittedCount ==
    ASSUME NEW S \in SUBSET Runs, NEW w \in Seq(Waiters), NEW n \in 0 .. Len(w),
           \A i \in 1 .. n : w[i].runId \notin S,
           \A i, j \in 1 .. n : w[i].runId = w[j].runId => i = j
    PROVE  LET new == {w[i].runId : i \in 1 .. n}
           IN  new \subseteq Runs /\ Cardinality(S \union new) = Cardinality(S) + n
<1> DEFINE new == {w[i].runId : i \in 1 .. n}
           f   == [i \in 1 .. n |-> w[i].runId]
<1>1. new \subseteq Runs
  <2>1. \A i \in 1 .. n : w[i] \in Waiters
    OBVIOUS
  <2> QED
    BY <2>1 DEF Waiters
<1>2. f \in Bijection(1 .. n, new)
  BY DEF Bijection, Injection, Surjection, IsInjective
<1>3. Cardinality(new) = n
  <2>1. IsFiniteSet(1 .. n) /\ Cardinality(1 .. n) = n
    BY FS_Interval
  <2>2. ExistsBijection(1 .. n, new)
    BY <1>2 DEF ExistsBijection
  <2> HIDE DEF new
  <2> QED
    BY <2>1, <2>2, FS_Bijection
<1>4. S \intersect new = {}
  OBVIOUS
<1> HIDE DEF new
<1>5. Cardinality(S \union new) = Cardinality(S) + n - 0
  BY <1>1, <1>3, <1>4, ActiveFinite, FS_Union, FS_EmptySet
<1>6. Cardinality(S) \in Nat
  BY ActiveFinite
<1> QED
  BY <1>1, <1>5, <1>6 DEF new

\* Draining in terms of places: the first n waiters are admitted, and place i of
\* the rest was place n + i.
LEMMA DrainIs ==
    ASSUME NEW p \in Pools, NEW max \in Nat, Cardinality(p.activeRuns) <= max
    PROVE  LET w == p.waiters
               n == LesserOf(Free(p, max), Len(w))
               q == drainConcurrencyQueue(p, max)
           IN  /\ n \in 0 .. Len(w) /\ n <= max - Cardinality(p.activeRuns)
               /\ q.activeRuns = p.activeRuns \union {w[i].runId : i \in 1 .. n}
               /\ q = [activeRuns |-> p.activeRuns \union {w[i].runId : i \in 1 .. n},
                       waiters |-> q.waiters]
               /\ q.waiters \in Seq(Waiters) /\ Len(q.waiters) = Len(w) - n
               /\ \A i \in 1 .. Len(w) - n : q.waiters[i] = w[n + i]
<1> DEFINE w == p.waiters
           n == LesserOf(Free(p, max), Len(w))
           rest == SubSeq(w, n + 1, Len(w))
           new  == {w[i].runId : i \in 1 .. n}
           q == drainConcurrencyQueue(p, max)
<1>1. /\ p.activeRuns \in SUBSET Runs /\ w \in Seq(Waiters)
      /\ DOMAIN w = 1 .. Len(w) /\ Len(w) \in Nat
      /\ Cardinality(p.activeRuns) \in Nat
  BY ActiveFinite DEF Pools
<1>2. n \in 0 .. Len(w) /\ n <= max - Cardinality(p.activeRuns)
  BY <1>1 DEF LesserOf, Free
<1>3. /\ Admitted(p, max) = SubSeq(w, 1, n)
      /\ Len(SubSeq(w, 1, n)) = n /\ DOMAIN SubSeq(w, 1, n) = 1 .. n
      /\ \A i \in 1 .. n : SubSeq(w, 1, n)[i] = w[i]
  <2>1. Admitted(p, max) = SubSeq(w, 1, n)
    BY DEF Admitted
  <2> HIDE DEF n, w
  <2>2. \A i \in 1 .. n : w[i] \in Waiters
    BY <1>1, <1>2
  <2>3. /\ SubSeq(w, 1, n) \in Seq(Waiters)
        /\ Len(SubSeq(w, 1, n)) = n
        /\ \A i \in 1 .. n - 1 + 1 : SubSeq(w, 1, n)[i] = w[1 + i - 1]
    BY <1>1, <1>2, <2>2, SubSeqProperties
  <2>4. \A i \in 1 .. n : SubSeq(w, 1, n)[i] = w[i]
    BY <1>1, <1>2, <2>3
  <2> QED
    BY <2>1, <2>3, <2>4
<1>4. /\ rest \in Seq(Waiters) /\ Len(rest) = Len(w) - n
      /\ DOMAIN rest = 1 .. Len(w) - n
      /\ \A i \in 1 .. Len(w) - n : rest[i] = w[n + i]
  <2> HIDE DEF n, w
  <2>1. \A i \in n + 1 .. Len(w) : w[i] \in Waiters
    BY <1>1, <1>2
  <2>2. /\ rest \in Seq(Waiters)
        /\ Len(rest) = IF n + 1 <= Len(w) THEN Len(w) - (n + 1) + 1 ELSE 0
        /\ \A i \in 1 .. Len(w) - (n + 1) + 1 : rest[i] = w[n + 1 + i - 1]
    BY <1>1, <1>2, <2>1, SubSeqProperties
  <2> HIDE DEF rest
  <2> DEFINE len == Len(w)
  <2>3. len \in Nat /\ n \in 0 .. len
    BY <1>1, <1>2
  <2>4. Len(rest) = IF n + 1 <= len THEN len - (n + 1) + 1 ELSE 0
    BY <2>2
  <2>5. \A i \in 1 .. len - (n + 1) + 1 : rest[i] = w[n + 1 + i - 1]
    BY <2>2
  <2> HIDE DEF len
  <2>6. Len(rest) = len - n
    BY <2>3, <2>4
  <2>7. len - (n + 1) + 1 = len - n /\ \A i \in 1 .. len - n : n + 1 + i - 1 = n + i
    BY <2>3
  <2>8. \A i \in 1 .. len - n : rest[i] = w[n + i]
    BY <2>5, <2>7
  <2> QED
    BY <2>2, <2>6, <2>8 DEF len
<1>5. /\ q.activeRuns = p.activeRuns \union new
      /\ q.waiters = rest
      /\ q = [activeRuns |-> p.activeRuns \union new, waiters |-> rest]
  <2>1. RunIdsOf(Admitted(p, max)) = new
    <3> HIDE DEF n, w
    <3>1. Admitted(p, max) = SubSeq(w, 1, n)
      BY <1>3
    <3> DEFINE a == SubSeq(w, 1, n)
    <3>2. DOMAIN a = 1 .. n /\ \A i \in 1 .. n : a[i] = w[i]
      BY <1>3
    <3> HIDE DEF a
    <3>3. RunIdsOf(a) = {w[i].runId : i \in 1 .. n}
      BY <3>2 DEF RunIdsOf
    <3> QED
      BY <3>1, <3>3 DEF a
  <2>2. Len(Admitted(p, max)) = n
    BY <1>3
  <2> HIDE DEF new, n
  <2> QED
    BY <2>1, <2>2 DEF drainConcurrencyQueue
<1> HIDE DEF n, new, rest, w, q
<1> QED
  BY <1>2, <1>4, <1>5 DEF new, q, w, n

\* Draining hands out every free permit, or serves every waiter, first come first.
LEMMA DrainGives ==
    ASSUME NEW p \in Pools, NEW max \in Nat,
           \A i \in DOMAIN p.waiters : p.waiters[i].runId \notin p.activeRuns,
           \A i, j \in DOMAIN p.waiters : p.waiters[i].runId = p.waiters[j].runId => i = j,
           Cardinality(p.activeRuns) <= max
    PROVE  /\ GoodPool(drainConcurrencyQueue(p, max), max)
           /\ Elems(drainConcurrencyQueue(p, max).waiters) \subseteq Elems(p.waiters)
           /\ p.activeRuns \subseteq drainConcurrencyQueue(p, max).activeRuns
           /\ drainConcurrencyQueue(p, max).activeRuns
                 \subseteq p.activeRuns \union {w.runId : w \in Elems(p.waiters)}
<1> DEFINE w == p.waiters
           n == LesserOf(Free(p, max), Len(w))
           new  == {w[i].runId : i \in 1 .. n}
           q == drainConcurrencyQueue(p, max)
           rest == q.waiters
<1>1. /\ p.activeRuns \in SUBSET Runs /\ w \in Seq(Waiters)
      /\ DOMAIN w = 1 .. Len(w) /\ Len(w) \in Nat
      /\ Cardinality(p.activeRuns) \in Nat
  BY ActiveFinite DEF Pools
<1>0. /\ n \in 0 .. Len(w) /\ n <= max - Cardinality(p.activeRuns)
      /\ q.activeRuns = p.activeRuns \union new
      /\ q = [activeRuns |-> p.activeRuns \union new, waiters |-> rest]
      /\ rest \in Seq(Waiters) /\ Len(rest) = Len(w) - n
      /\ \A i \in 1 .. Len(w) - n : rest[i] = w[n + i]
  BY DrainIs
<1>2. n \in 0 .. Len(w) /\ n <= max - Cardinality(p.activeRuns)
  BY <1>0
<1>4. /\ rest \in Seq(Waiters) /\ Len(rest) = Len(w) - n
      /\ DOMAIN rest = 1 .. Len(w) - n
      /\ \A i \in 1 .. Len(w) - n : rest[i] = w[n + i]
  <2> HIDE DEF n, w, rest
  <2> QED
    BY <1>0
<1>5. /\ q.activeRuns = p.activeRuns \union new
      /\ q.waiters = rest
      /\ q = [activeRuns |-> p.activeRuns \union new, waiters |-> rest]
  BY <1>0
<1>6. new \subseteq Runs /\ Cardinality(p.activeRuns \union new) = Cardinality(p.activeRuns) + n
  <2>1. \A i \in 1 .. n : w[i].runId \notin p.activeRuns
    BY <1>1, <1>2
  <2>2. \A i, j \in 1 .. n : w[i].runId = w[j].runId => i = j
    BY SMTT(30), <1>1, <1>2
  <2> HIDE DEF n, w
  <2> QED
    BY <1>1, <1>2, <2>1, <2>2, AdmittedCount
<1>7. new \subseteq {v.runId : v \in Elems(w)} /\ Elems(rest) \subseteq Elems(w)
  <2>1. \A i \in 1 .. n : i \in DOMAIN w
    BY <1>1, <1>2
  <2>2. \A i \in DOMAIN rest : n + i \in DOMAIN w /\ rest[i] = w[n + i]
    <3> HIDE DEF n, w, rest
    <3>1. DOMAIN rest = 1 .. Len(w) - n
      BY <1>4
    <3>2. \A i \in 1 .. Len(w) - n : n + i \in 1 .. Len(w)
      BY <1>1, <1>2
    <3> QED
      BY <1>1, <1>4, <3>1, <3>2
  <2> HIDE DEF n, w, rest
  <2> QED
    BY <2>1, <2>2 DEF Elems
<1>8. \A i \in DOMAIN rest : rest[i].runId \notin p.activeRuns \union new
  <2>1. ASSUME NEW i \in DOMAIN rest, NEW j \in 1 .. n
        PROVE  n + i \in DOMAIN w /\ j \in DOMAIN w /\ n + i # j /\ rest[i] = w[n + i]
    <3> HIDE DEF n, w, rest
    <3>1. i \in 1 .. Len(w) - n /\ rest[i] = w[n + i]
      BY <1>4
    <3>2. n + i \in 1 .. Len(w) /\ j \in 1 .. Len(w) /\ n + i # j
      BY <1>1, <1>2, <3>1
    <3> QED
      BY <1>1, <3>1, <3>2
  <2>2. ASSUME NEW i \in DOMAIN rest
        PROVE  n + i \in DOMAIN w /\ rest[i] = w[n + i]
    <3> HIDE DEF n, w, rest
    <3>1. i \in 1 .. Len(w) - n /\ rest[i] = w[n + i]
      BY <1>4
    <3>2. n + i \in 1 .. Len(w)
      BY <1>1, <1>2, <3>1
    <3> QED
      BY <1>1, <3>1, <3>2
  <2>3. ASSUME NEW i \in DOMAIN rest, NEW j \in 1 .. n
        PROVE  rest[i].runId # w[j].runId
    BY <2>1
  <2>4. ASSUME NEW i \in DOMAIN rest PROVE rest[i].runId \notin p.activeRuns
    BY <2>2
  <2> HIDE DEF rest, n, w
  <2> QED
    BY <2>3, <2>4
<1>9. \A i, j \in DOMAIN rest : rest[i].runId = rest[j].runId => i = j
  <2>1. \A i \in DOMAIN rest : n + i \in DOMAIN w /\ rest[i] = w[n + i] /\ i \in Int
    <3> HIDE DEF n, w, rest
    <3>1. \A i \in 1 .. Len(w) - n : n + i \in 1 .. Len(w) /\ i \in Int
      BY <1>1, <1>2
    <3> QED
      BY <1>1, <1>4, <3>1
  <2>2. \A i, j \in DOMAIN w : w[i].runId = w[j].runId => i = j
    OBVIOUS
  <2> HIDE DEF n, w, rest
  <2>3. \A i, j \in DOMAIN rest : rest[i].runId = rest[j].runId => n + i = n + j
    BY <2>1, <2>2
  <2> QED
    BY <1>2, <2>1, <2>3
<1>10. rest # <<>> => n = max - Cardinality(p.activeRuns)
  BY <1>1, <1>4 DEF LesserOf, Free
<1> HIDE DEF n, new, rest, w, q
<1>11. GoodPool(q, max)
  <2>1. q \in Pools
    BY <1>1, <1>4, <1>5, <1>6 DEF Pools
  <2>2. Cardinality(q.activeRuns) <= max
    BY <1>1, <1>2, <1>5, <1>6
  <2>3. q.waiters # <<>> => Cardinality(q.activeRuns) = max
    BY <1>1, <1>5, <1>6, <1>10
  <2> QED
    BY <1>5, <1>8, <1>9, <2>1, <2>2, <2>3 DEF GoodPool
<1> QED
  BY <1>5, <1>7, <1>11 DEF q, w

LEMMA ReleaseGives ==
    ASSUME NEW max \in Nat, NEW p, GoodPool(p, max), NEW r
    PROVE  LET q == releaseConcurrency(p, r, max)
           IN  /\ GoodPool(q, max)
               /\ r \notin q.activeRuns
               /\ p.activeRuns \ {r} \subseteq q.activeRuns
               /\ q.activeRuns \subseteq p.activeRuns \union {w.runId : w \in Elems(p.waiters)}
               /\ Elems(q.waiters) \subseteq Elems(p.waiters)
<1> DEFINE q == releaseConcurrency(p, r, max)
           less == [activeRuns |-> p.activeRuns \ {r}, waiters |-> p.waiters]
           d == drainConcurrencyQueue(less, max)
<1>0. p = [activeRuns |-> p.activeRuns, waiters |-> p.waiters]
  BY DEF GoodPool, Pools
<1>1. p \in Pools /\ p.activeRuns \subseteq Runs
  BY DEF GoodPool, Pools
<1>2. CASE r \in p.activeRuns
  <2>1. Without(p, r) = less
    BY <1>0 DEF Without
  <2>2. q = d
    BY <1>2, <2>1 DEF releaseConcurrency
  <2>3. /\ less \in Pools
        /\ less.waiters = p.waiters /\ less.activeRuns = p.activeRuns \ {r}
    BY <1>1 DEF Pools
  <2>4. Cardinality(less.activeRuns) <= max
    <3>1. IsFiniteSet(p.activeRuns) /\ Cardinality(p.activeRuns) \in Nat
      BY <1>1, ActiveFinite
    <3>2. Cardinality(p.activeRuns \ {r}) = Cardinality(p.activeRuns) - 1
      BY <1>2, <3>1, FS_RemoveElement
    <3> QED
      BY <2>3, <3>1, <3>2 DEF GoodPool
  <2> HIDE DEF less
  <2>5. /\ \A i \in DOMAIN less.waiters : less.waiters[i].runId \notin less.activeRuns
        /\ \A i, j \in DOMAIN less.waiters :
              less.waiters[i].runId = less.waiters[j].runId => i = j
    BY <2>3 DEF GoodPool
  <2>6. /\ GoodPool(d, max)
        /\ Elems(d.waiters) \subseteq Elems(less.waiters)
        /\ less.activeRuns \subseteq d.activeRuns
        /\ d.activeRuns \subseteq less.activeRuns \union {w.runId : w \in Elems(less.waiters)}
    BY <2>3, <2>4, <2>5, DrainGives
  <2>7. \A w \in Elems(p.waiters) : w.runId # r
    BY <1>2 DEF GoodPool, Elems
  <2> HIDE DEF d
  <2> QED
    BY <2>2, <2>3, <2>6, <2>7
<1>3. CASE r \notin p.activeRuns
  BY <1>3 DEF releaseConcurrency
<1> QED
  BY <1>2, <1>3

\* The two answers to a waiter, of a pool that was p and is q.
Granted(p, q, w) ==
    q.activeRuns = p.activeRuns \union {w.runId} /\ q.waiters = p.waiters

Deferred(p, q, w) ==
    q.activeRuns = p.activeRuns /\ Elems(q.waiters) = Elems(p.waiters) \union {w}

LEMMA AcquireGives ==
    ASSUME NEW max \in Nat, NEW p, GoodPool(p, max), NEW w \in Waiters,
           w.runId \notin p.activeRuns,
           \A v \in Elems(p.waiters) : v.runId # w.runId,
           NEW q, q = acquireConcurrency(p, w, max)
    PROVE  /\ GoodPool(q, max)
           /\ Granted(p, q, w) \/ Deferred(p, q, w)
<1>1. /\ p \in Pools /\ p.activeRuns \subseteq Runs /\ p.waiters \in Seq(Waiters)
      /\ p = [activeRuns |-> p.activeRuns, waiters |-> p.waiters]
      /\ IsFiniteSet(p.activeRuns) /\ Cardinality(p.activeRuns) \in Nat
      /\ Cardinality(p.activeRuns) <= max
      /\ w.runId \in Runs
  BY ActiveFinite DEF GoodPool, Pools, Waiters
<1>2. CASE Free(p, max) > 0
  <2>1. Cardinality(p.activeRuns) < max
    BY <1>1, <1>2 DEF Free
  <2>2. p.waiters = <<>>
    BY <1>1, <2>1 DEF GoodPool
  <2>3. /\ q.activeRuns = p.activeRuns \union {w.runId} /\ q.waiters = p.waiters
        /\ q \in Pools
    BY <1>1, <1>2 DEF acquireConcurrency, Pools
  <2>4. Cardinality(p.activeRuns \union {w.runId}) = Cardinality(p.activeRuns) + 1
    BY <1>1, FS_AddElement
  <2>5. Cardinality(q.activeRuns) <= max
    BY <1>1, <2>1, <2>3, <2>4
  <2>6. GoodPool(q, max)
    BY <2>2, <2>3, <2>5 DEF GoodPool
  <2> QED
    BY <2>3, <2>6 DEF Granted
<1>3. CASE ~(Free(p, max) > 0)
  <2> DEFINE more == Append(p.waiters, w)
  <2>1. Cardinality(p.activeRuns) = max
    BY <1>1, <1>3 DEF Free
  <2>2. /\ q.activeRuns = p.activeRuns /\ q.waiters = more
        /\ q = [activeRuns |-> p.activeRuns, waiters |-> more]
    BY <1>1, <1>3 DEF acquireConcurrency
  <2>3. /\ more \in Seq(Waiters) /\ DOMAIN more = 1 .. Len(p.waiters) + 1
        /\ \A i \in DOMAIN p.waiters : more[i] = p.waiters[i]
        /\ more[Len(p.waiters) + 1] = w
        /\ DOMAIN p.waiters = 1 .. Len(p.waiters) /\ Len(p.waiters) \in Nat
    BY <1>1
  <2> HIDE DEF more
  <2>4. \A i \in DOMAIN more : i \in DOMAIN p.waiters \/ i = Len(p.waiters) + 1
    BY <2>3
  <2>4a. \A i \in DOMAIN p.waiters : i \in DOMAIN more
    BY <2>3
  <2>4b. Len(p.waiters) + 1 \in DOMAIN more
    BY <2>3
  <2>5. Elems(more) = Elems(p.waiters) \union {w}
    BY <2>3, <2>4, <2>4a, <2>4b DEF Elems
  <2>6. \A i \in DOMAIN more : more[i].runId \notin p.activeRuns
    BY <2>3, <2>4 DEF GoodPool
  <2>7. \A i \in DOMAIN p.waiters : p.waiters[i].runId # w.runId
    BY DEF Elems
  <2>8. ASSUME NEW i \in DOMAIN more, NEW j \in DOMAIN more, more[i].runId = more[j].runId
        PROVE  i = j
    BY <2>3, <2>4, <2>7, <2>8 DEF GoodPool
  <2>9. q \in Pools
    BY <1>1, <2>2, <2>3 DEF Pools
  <2>10. GoodPool(q, max)
    BY <1>1, <2>1, <2>2, <2>6, <2>8, <2>9 DEF GoodPool
  <2> QED
    BY <2>2, <2>5, <2>10 DEF Deferred
<1> QED
  BY <1>2, <1>3

\* The waiters of the tasks of one call that find no permit.
LateOnes(first, last, n, caller) ==
    [i \in 1 .. last - first + 1 - n |-> [runId |-> first + n + i - 1, caller |-> caller]]

LEMMA AcquireInOrderGives ==
    ASSUME NEW max \in Nat, NEW p, GoodPool(p, max), NEW caller \in Callers,
           NEW first \in Nat \ {0}, NEW last \in Nat, first <= last + 1,
           first .. last \subseteq Runs,
           \A r \in first .. last :
              r \notin p.activeRuns /\ \A w \in Elems(p.waiters) : w.runId # r
    PROVE  LET q == acquireInOrder(p, caller, first, last, max)
           IN  /\ GoodPool(q, max)
               /\ p.activeRuns \subseteq q.activeRuns
               /\ q.activeRuns \subseteq p.activeRuns \union (first .. last)
               /\ \A w \in Elems(q.waiters) :
                     \/ w \in Elems(p.waiters)
                     \/ w.runId \in (first .. last) \ q.activeRuns /\ w.caller = caller
<1> DEFINE count == last - first + 1
           n == LesserOf(Free(p, max), count)
           new == first .. first + n - 1
           late == LateOnes(first, last, n, caller)
           all == p.waiters \o late
           q == acquireInOrder(p, caller, first, last, max)
<1>1. /\ p \in Pools /\ p.activeRuns \subseteq Runs /\ p.waiters \in Seq(Waiters)
      /\ IsFiniteSet(p.activeRuns) /\ Cardinality(p.activeRuns) \in Nat
      /\ Cardinality(p.activeRuns) <= max
      /\ p.waiters # <<>> => Cardinality(p.activeRuns) = max
  BY ActiveFinite DEF GoodPool, Pools
<1>2. count \in Nat
  OBVIOUS
<1>3. /\ n \in 0 .. count /\ n <= max - Cardinality(p.activeRuns)
      /\ n = count \/ n = max - Cardinality(p.activeRuns)
  <2> HIDE DEF count
  <2> QED
    BY <1>1, <1>2 DEF LesserOf, Free
<1>4. /\ q.activeRuns = p.activeRuns \union new /\ q.waiters = all
      /\ q = [activeRuns |-> p.activeRuns \union new, waiters |-> all]
  <2>1. q = [activeRuns |-> p.activeRuns \union new, waiters |-> all]
    <3>1. n = LesserOf(Free(p, max), last - first + 1)
      OBVIOUS
    <3> HIDE DEF n
    <3>2. acquireInOrder(p, caller, first, last, max)
             = [activeRuns |-> p.activeRuns \union (first .. first + n - 1),
                waiters |-> p.waiters \o LateOnes(first, last, n, caller)]
      BY <3>1 DEF acquireInOrder, LateOnes
    <3> QED
      BY <3>2
  <2> HIDE DEF q, new, all
  <2> QED
    BY <2>1
<1> HIDE DEF n
<1>4a. late = [i \in 1 .. count - n |-> [runId |-> first + n + i - 1, caller |-> caller]]
  <2>1. last - first + 1 - n = count - n
    BY <1>3
  <2> QED
    BY <2>1 DEF LateOnes
<1> HIDE DEF late
<1>5. /\ new \subseteq first .. last
      /\ \A i \in 1 .. count - n : first + n + i - 1 \in (first .. last) \ new
      /\ Cardinality(new) = n /\ IsFiniteSet(new)
  BY <1>2, <1>3, FS_Interval
<1>6. /\ late \in Seq(Waiters) /\ Len(late) = count - n
      /\ \A i \in 1 .. count - n :
            late[i].runId = first + n + i - 1 /\ late[i].caller = caller
  <2>1. count - n \in Nat
    BY <1>2, <1>3
  <2>2. late \in [1 .. count - n -> Waiters]
    <3> HIDE DEF count, late
    <3> QED
      BY <1>5, <1>4a DEF Waiters
  <2>3. \A i \in 1 .. count - n :
            late[i].runId = first + n + i - 1 /\ late[i].caller = caller
    <3> HIDE DEF count, late
    <3> QED
      BY <1>4a
  <2> HIDE DEF late, count
  <2> DEFINE size == count - n
  <2>4. late \in Seq(Waiters) /\ Len(late) = size
    <3>1. size \in Nat /\ late \in [1 .. size -> Waiters]
      BY <2>1, <2>2
    <3> HIDE DEF size
    <3> QED
      BY <3>1
  <2> QED
    BY <2>3, <2>4
<1>7. Cardinality(p.activeRuns \union new) = Cardinality(p.activeRuns) + n
  <2>1. p.activeRuns \intersect new = {}
    <3> HIDE DEF new
    <3> QED
      BY <1>5
  <2> HIDE DEF new
  <2>2. Cardinality(p.activeRuns \union new)
          = Cardinality(p.activeRuns) + Cardinality(new) - Cardinality(p.activeRuns \intersect new)
    BY <1>1, <1>5, FS_Union
  <2>3. Cardinality(p.activeRuns \union new) = Cardinality(p.activeRuns) + n - 0
    BY <1>5, <2>1, <2>2, FS_EmptySet
  <2> QED
    BY <1>1, <1>3, <2>3
<1> DEFINE m == Len(p.waiters)
<1> HIDE DEF new, late, q, count
<1>8. /\ all \in Seq(Waiters) /\ m \in Nat /\ DOMAIN all = 1 .. m + (count - n)
      /\ \A i \in 1 .. m : all[i] = p.waiters[i]
      /\ \A i \in m + 1 .. m + (count - n) : all[i] = late[i - m]
  <2> DEFINE size == count - n
  <2>1. /\ all \in Seq(Waiters) /\ Len(all) = m + Len(late)
        /\ \A i \in 1 .. m + Len(late) :
              all[i] = IF i <= m THEN p.waiters[i] ELSE late[i - m]
    <3>1. p.waiters \in Seq(Waiters) /\ late \in Seq(Waiters)
      BY <1>1, <1>6
    <3>2. /\ all \in Seq(Waiters) /\ Len(all) = Len(p.waiters) + Len(late)
          /\ \A i \in 1 .. Len(p.waiters) + Len(late) :
                all[i] = IF i <= Len(p.waiters) THEN p.waiters[i] ELSE late[i - Len(p.waiters)]
      BY <3>1, ConcatProperties
    <3> QED
      BY <3>2
  <2>2. m \in Nat /\ size \in Nat /\ Len(late) = size
    BY <1>1, <1>2, <1>3, <1>6
  <2> HIDE DEF all, size, m
  <2>3. \A i \in 1 .. m : all[i] = p.waiters[i]
    BY <2>1, <2>2
  <2>4. \A i \in m + 1 .. m + size : all[i] = late[i - m]
    BY <2>1, <2>2
  <2>5. DOMAIN all = 1 .. m + size
    BY <2>1, <2>2
  <2> QED
    BY <2>1, <2>2, <2>3, <2>4, <2>5 DEF size
<1>9. ASSUME NEW i \in DOMAIN all
      PROVE  \/ i \in DOMAIN p.waiters /\ all[i] = p.waiters[i]
             \/ /\ i - m \in 1 .. count - n /\ all[i] = late[i - m]
                /\ all[i].runId = first + n + (i - m) - 1
                /\ all[i].runId \in (first .. last) \ new
                /\ all[i].caller = caller
  <2>1. CASE i \in 1 .. m
    BY <1>1, <1>8, <2>1
  <2>0. i \in 1 .. m \/ i \in m + 1 .. m + (count - n)
    BY <1>2, <1>3, <1>8
  <2>2. CASE i \in m + 1 .. m + (count - n)
    <3>1. i - m \in 1 .. count - n
      BY <1>2, <1>3, <1>8, <2>2
    <3>2. all[i] = late[i - m]
      BY <1>8, <2>2
    <3> DEFINE j == i - m
    <3> HIDE DEF j
    <3>3. first + n + j - 1 \in (first .. last) \ new
      BY <1>5, <3>1 DEF j
    <3>4. late[j].runId = first + n + j - 1 /\ late[j].caller = caller
      BY <1>6, <3>1 DEF j
    <3> QED
      BY <3>1, <3>2, <3>3, <3>4 DEF j
  <2> QED
    BY <2>0, <2>1, <2>2
<1>10. \A i \in DOMAIN p.waiters : p.waiters[i] \in Elems(p.waiters)
  BY DEF Elems
<1> HIDE DEF all, m
<1>11. ASSUME NEW i \in DOMAIN all PROVE all[i].runId \notin p.activeRuns \union new
  <2>1. CASE i \in DOMAIN p.waiters /\ all[i] = p.waiters[i]
    BY <1>5, <1>10, <2>1 DEF GoodPool
  <2> QED
    BY <1>9, <2>1
<1>12. ASSUME NEW i \in DOMAIN all, NEW j \in DOMAIN all, all[i].runId = all[j].runId
       PROVE  i = j
  <2>1. \A x \in DOMAIN p.waiters : p.waiters[x].runId \notin first .. last
    BY <1>10
  <2>2. CASE /\ i \in DOMAIN p.waiters /\ all[i] = p.waiters[i]
             /\ j \in DOMAIN p.waiters /\ all[j] = p.waiters[j]
    BY <1>12, <2>2 DEF GoodPool
  <2>3. CASE /\ i - m \in 1 .. count - n /\ all[i].runId = first + n + (i - m) - 1
             /\ j - m \in 1 .. count - n /\ all[j].runId = first + n + (j - m) - 1
    <3>1. i \in Int /\ j \in Int /\ m \in Int /\ n \in Int
      BY <1>3, <1>8
    <3>2. first + n + (i - m) - 1 = first + n + (j - m) - 1
      BY <1>12, <2>3
    <3> QED
      BY <3>1, <3>2
  <2> QED
    BY <1>9, <1>12, <2>1, <2>2, <2>3
<1>13. all # <<>> => Cardinality(p.activeRuns) + n = max
  <2>1. CASE n = max - Cardinality(p.activeRuns)
    BY <1>1, <2>1
  <2>2. CASE n = count /\ n # max - Cardinality(p.activeRuns)
    <3>1. p.waiters = <<>>
      BY <1>1, <1>3, <2>2
    <3>2. m = 0
      BY <3>1 DEF m
    <3>3. DOMAIN all = {}
      BY <1>2, <1>8, <2>2, <3>2
    <3>4. all = <<>>
      BY <1>8, <3>3
    <3> QED
      BY <3>4
  <2> QED
    BY <1>3, <2>1, <2>2
<1>14. GoodPool(q, max)
  <2>1. q \in Pools
    <3>1. p.activeRuns \union new \subseteq Runs
      BY <1>1, <1>5
    <3> QED
      BY <1>4, <1>8, <3>1 DEF Pools
  <2>2. Cardinality(q.activeRuns) <= max
    BY <1>1, <1>3, <1>4, <1>7
  <2>3. q.waiters # <<>> => Cardinality(q.activeRuns) = max
    BY <1>4, <1>7, <1>13
  <2> QED
    BY <1>4, <1>11, <1>12, <2>1, <2>2, <2>3 DEF GoodPool
<1>15. ASSUME NEW w \in Elems(q.waiters)
       PROVE  \/ w \in Elems(p.waiters)
              \/ w.runId \in (first .. last) \ q.activeRuns /\ w.caller = caller
  <2>1. PICK i \in DOMAIN all : w = all[i]
    BY <1>4 DEF Elems
  <2>2. w.runId \notin q.activeRuns
    BY <1>4, <1>11, <2>1
  <2> QED
    BY <1>9, <1>10, <2>1, <2>2
<1> QED
  BY <1>4, <1>5, <1>14, <1>15 DEF q

\* A sequence without some of its places, in the same order.
Thinned(t, s) ==
    \E m \in 0 .. Len(s) : \E kept \in [1 .. m -> DOMAIN s] :
        /\ \A i, j \in 1 .. m : i < j => kept[i] < kept[j]
        /\ t = [n \in 1 .. m |-> s[kept[n]]]

\* Those who are not told stay in the queue, each once and in their order: the rank
\* of a place among those that stay is a bijection to their new places.
LEMMA AbortLeaves ==
    ASSUME NEW max \in Nat, NEW p, GoodPool(p, max), NEW callers
    PROVE  LET q == abortWaiters(p, callers)
           IN  /\ GoodPool(q, max)
               /\ q.activeRuns = p.activeRuns
               /\ Thinned(q.waiters, p.waiters)
               /\ \A w \in Elems(q.waiters) :
                     w \in Elems(p.waiters) /\ w.caller \notin callers
<1> DEFINE w == p.waiters
           staying == {i \in DOMAIN w : w[i].caller \notin callers}
           size == Cardinality(staying)
           Before(i) == {j \in staying : j < i}
           nth(n) == CHOOSE i \in staying : Cardinality(Before(i)) = n - 1
           left == [n \in 1 .. size |-> w[nth(n)]]
           q == abortWaiters(p, callers)
<1>1. /\ p \in Pools /\ p.activeRuns \subseteq Runs /\ w \in Seq(Waiters)
      /\ DOMAIN w = 1 .. Len(w) /\ Len(w) \in Nat
      /\ p = [activeRuns |-> p.activeRuns, waiters |-> w]
  BY DEF GoodPool, Pools
<1>2. /\ staying \subseteq DOMAIN w /\ \A i \in staying : i \in Int
      /\ \A i \in staying : w[i].caller \notin callers /\ w[i] \in Waiters
      /\ IsFiniteSet(staying) /\ size \in Nat
  <2>1. staying \in SUBSET (1 .. Len(w)) /\ IsFiniteSet(1 .. Len(w))
    BY <1>1, FS_Interval
  <2>2. IsFiniteSet(staying)
    BY <2>1, FS_Subset
  <2> QED
    BY <1>1, <2>2, FS_CardinalityType
<1>3. q.activeRuns = p.activeRuns /\ q.waiters = left
      /\ q = [activeRuns |-> p.activeRuns, waiters |-> left]
  <2>1. q = [p EXCEPT !.waiters = left]
    BY DEF abortWaiters
  <2>2. [[activeRuns |-> p.activeRuns, waiters |-> w] EXCEPT !.waiters = left]
            = [activeRuns |-> p.activeRuns, waiters |-> left]
    <3> HIDE DEF left
    <3> QED
      OBVIOUS
  <2>3. q = [activeRuns |-> p.activeRuns, waiters |-> left]
    <3> HIDE DEF left, q, w
    <3> QED
      BY <1>1, <2>1, <2>2
  <2> HIDE DEF left, q
  <2> QED
    BY <2>3
<1> HIDE DEF staying, q
\* The rank of a place.
<1>4. ASSUME NEW i \in staying
      PROVE  /\ Cardinality(Before(i)) \in 0 .. size - 1
             /\ Before(i) \subseteq staying /\ IsFiniteSet(Before(i))
  <2>1. Before(i) \in SUBSET (staying \ {i})
    BY <1>2
  <2>2. IsFiniteSet(staying \ {i}) /\ Cardinality(staying \ {i}) = size - 1
    BY <1>2, FS_RemoveElement
  <2> HIDE DEF Before, size
  <2>3. IsFiniteSet(Before(i)) /\ Cardinality(Before(i)) <= size - 1
    BY <2>1, <2>2, FS_Subset
  <2>4. Cardinality(Before(i)) \in Nat
    BY <2>3, FS_CardinalityType
  <2> QED
    BY <1>2, <2>1, <2>3, <2>4
<1>5. ASSUME NEW i \in staying, NEW j \in staying, i < j
      PROVE  Cardinality(Before(i)) < Cardinality(Before(j))
  <2>1. Before(i) \union {i} \in SUBSET Before(j) /\ i \notin Before(i)
    BY <1>2, <1>5
  <2>2. /\ IsFiniteSet(Before(i)) /\ IsFiniteSet(Before(j))
        /\ Cardinality(Before(i)) \in Int /\ Cardinality(Before(j)) \in Int
    BY <1>4
  <2> HIDE DEF Before
  <2>3. Cardinality(Before(i) \union {i}) = Cardinality(Before(i)) + 1
    BY <2>1, <2>2, FS_AddElement
  <2>4. Cardinality(Before(i) \union {i}) <= Cardinality(Before(j))
    BY <2>1, <2>2, FS_Subset
  <2> QED
    BY <2>2, <2>3, <2>4
<1> DEFINE rank == [i \in staying |-> Cardinality(Before(i))]
<1>6. rank \in Surjection(staying, 0 .. size - 1)
  <2>1. rank \in [staying -> 0 .. size - 1]
    BY <1>4
  <2>2. ASSUME NEW i \in staying, NEW j \in staying, rank[i] = rank[j] PROVE i = j
    <3>1. Cardinality(Before(i)) = Cardinality(Before(j))
      BY <2>2
    <3>2. Cardinality(Before(i)) \in Int
      BY <1>4
    <3> HIDE DEF Before
    <3> QED
      BY <1>2, <1>5, <3>1, <3>2
  <2>3. rank \in Injection(staying, 0 .. size - 1)
    BY <2>1, <2>2 DEF Injection, IsInjective
  <2>4. IsFiniteSet(0 .. size - 1) /\ Cardinality(0 .. size - 1) = size
    <3>1. size \in Nat
      BY <1>2
    <3> HIDE DEF size
    <3>2. /\ IsFiniteSet(0 .. size - 1)
          /\ Cardinality(0 .. size - 1) = IF 0 > size - 1 THEN 0 ELSE size - 1 - 0 + 1
      BY <3>1, FS_Interval
    <3> QED
      BY <3>1, <3>2
  <2> HIDE DEF rank, size
  <2>5. Cardinality(staying) = Cardinality(0 .. size - 1)
    BY <2>4 DEF size
  <2> QED
    BY <2>3, <2>4, <2>5, FS_Injection
<1>7. ASSUME NEW n \in 1 .. size
      PROVE  nth(n) \in staying /\ Cardinality(Before(nth(n))) = n - 1
  <2>1. n - 1 \in 0 .. size - 1
    BY <1>2
  <2>2. \E i \in staying : rank[i] = n - 1
    <3> HIDE DEF rank, size
    <3> QED
      BY <1>6, <2>1 DEF Surjection
  <2>3. \E i \in staying : Cardinality(Before(i)) = n - 1
    BY <2>2
  <2> HIDE DEF Before
  <2> QED
    BY <2>3
<1>8. ASSUME NEW m \in 1 .. size, NEW n \in 1 .. size, nth(m) = nth(n)
      PROVE  m = n
  <2>1. m - 1 = n - 1
    <3>1. Cardinality(Before(nth(m))) = m - 1 /\ Cardinality(Before(nth(n))) = n - 1
      BY <1>7
    <3> HIDE DEF nth, Before
    <3> QED
      BY <1>8, <3>1
  <2> QED
    BY <1>2, <2>1
<1>8a. ASSUME NEW m \in 1 .. size, NEW n \in 1 .. size, m < n
       PROVE  nth(m) < nth(n)
  <2>1. /\ Cardinality(Before(nth(m))) = m - 1 /\ Cardinality(Before(nth(n))) = n - 1
        /\ nth(m) \in staying /\ nth(n) \in staying
    BY <1>7
  <2> HIDE DEF nth, Before
  <2>2. ~(nth(n) < nth(m))
    <3>1. ASSUME nth(n) < nth(m) PROVE FALSE
      <4>1. Cardinality(Before(nth(n))) < Cardinality(Before(nth(m)))
        BY <1>5, <2>1, <3>1
      <4> QED
        BY <1>2, <1>8a, <2>1, <4>1
    <3> QED
      BY <3>1
  <2>3. nth(m) # nth(n)
    BY <1>2, <1>8a, <2>1
  <2> QED
    BY <1>2, <2>1, <2>2, <2>3
<1>8b. size \in 0 .. Len(w)
  <2>1. IsFiniteSet(1 .. Len(w)) /\ Cardinality(1 .. Len(w)) = Len(w)
    BY <1>1, FS_Interval
  <2>2. Cardinality(staying) <= Cardinality(1 .. Len(w))
    BY <1>1, <1>2, <2>1, FS_Subset
  <2> QED
    BY <1>1, <1>2, <2>1, <2>2
<1>8c. Thinned(left, w)
  <2> DEFINE kept == [n \in 1 .. size |-> nth(n)]
  <2>1. kept \in [1 .. size -> DOMAIN w]
    <3>1. \A n \in 1 .. size : nth(n) \in DOMAIN w
      BY <1>2, <1>7
    <3> HIDE DEF nth, size
    <3> QED
      BY <3>1
  <2> HIDE DEF nth, size
  <2>2. \A i, j \in 1 .. size : i < j => kept[i] < kept[j]
    BY <1>8a
  <2>3. left = [n \in 1 .. size |-> w[kept[n]]]
    OBVIOUS
  <2> HIDE DEF kept, left, w
  <2> QED
    BY <1>8b, <2>1, <2>2, <2>3 DEF Thinned
<1> HIDE DEF nth, size
<1>9. /\ left \in Seq(Waiters) /\ DOMAIN left = 1 .. size
      /\ \A n \in 1 .. size : left[n] = w[nth(n)]
  <2>1. left \in [1 .. size -> Waiters]
    BY <1>2, <1>7
  <2> QED
    BY <1>2, <2>1
<1> HIDE DEF left
<1>10. \A v \in Elems(left) : v \in Elems(w) /\ v.caller \notin callers
  BY <1>2, <1>7, <1>9 DEF Elems
<1>11. left # <<>> => w # <<>>
  <2>1. ASSUME w = <<>> PROVE left = <<>>
    <3>1. Elems(left) = {}
      BY <1>10, <2>1 DEF Elems
    <3>2. DOMAIN left = {}
      BY <3>1 DEF Elems
    <3> QED
      BY <1>9, <3>2
  <2> QED
    BY <2>1
<1>12. ASSUME NEW n \in DOMAIN left PROVE left[n].runId \notin p.activeRuns
  BY <1>2, <1>7, <1>9 DEF GoodPool
<1>13. ASSUME NEW m \in DOMAIN left, NEW n \in DOMAIN left, left[m].runId = left[n].runId
       PROVE  m = n
  <2>1. nth(m) \in DOMAIN w /\ nth(n) \in DOMAIN w
    BY <1>2, <1>7, <1>9
  <2>2. w[nth(m)].runId = w[nth(n)].runId
    BY <1>9, <1>13
  <2>3. nth(m) = nth(n)
    BY <2>1, <2>2 DEF GoodPool
  <2> QED
    BY <1>8, <1>9, <2>3
<1>14. GoodPool(q, max)
  <2>1. q \in Pools
    BY <1>1, <1>3, <1>9 DEF Pools
  <2> QED
    BY <1>3, <1>11, <1>12, <1>13, <2>1 DEF GoodPool
<1> QED
  BY <1>3, <1>8c, <1>10, <1>14 DEF q

-----------------------------------------------------------------------------
(* What the operators on pools, runs and calls keep. *)

LEMMA ReleaseKeeps ==
    ASSUME NEW p, Shaped(p), NEW r, NEW max
    PROVE  /\ Shaped(releaseConcurrency(p, r, max))
           /\ p.activeRuns \ {r} \subseteq releaseConcurrency(p, r, max).activeRuns
<1> DEFINE q == [activeRuns |-> p.activeRuns \ {r}, waiters |-> p.waiters]
<1>1. Without(p, r) = q
  BY DEF Without, Shaped
<1>2. /\ Shaped(drainConcurrencyQueue(q, max))
      /\ q.activeRuns \subseteq drainConcurrencyQueue(q, max).activeRuns
  BY DEF drainConcurrencyQueue, Shaped
<1> QED
  BY <1>1, <1>2 DEF releaseConcurrency

LEMMA StartKeeps ==
    ASSUME NEW runs \in [Runs -> RunShape], NEW p, NEW q
    PROVE  /\ Start(runs, p, q) \in [Runs -> RunShape]
           /\ \A r \in Runs :
                 /\ runs[r].pc # "queued" => Start(runs, p, q)[r] = runs[r]
                 /\ runs[r].pc = "queued" => Start(runs, p, q)[r].pc \in {"queued", "admitted"}
                 /\ runs[r].pc = "queued" /\ Start(runs, p, q)[r].pc = "admitted"
                       => r \in q.activeRuns
                 /\ Start(runs, p, q)[r].caller = runs[r].caller
                 /\ Start(runs, p, q)[r].callId = runs[r].callId
                 /\ Start(runs, p, q)[r].above = runs[r].above
                 /\ Start(runs, p, q)[r].outcome = runs[r].outcome
                 /\ Start(runs, p, q)[r].aborted = runs[r].aborted
                 /\ Start(runs, p, q)[r].timedOut = runs[r].timedOut
BY DEF Start, RunShape, Pcs

LEMMA ResumeKeeps ==
    ASSUME NEW calls \in [CallIds -> CallShape], NEW p, NEW q
    PROVE  /\ Resume(calls, p, q) \in [CallIds -> CallShape]
           /\ \A k \in CallIds :
                 \/ Resume(calls, p, q)[k] = calls[k]
                 \/ /\ calls[k].pc = "resuming" /\ calls[k].caller \in q.activeRuns
                    /\ Resume(calls, p, q)[k].pc = "back"
<1>1. Back \in CallShape /\ Back.pc = "back"
  BY DEF Back, Unmade, CallShape, Callers
<1> QED
  BY <1>1 DEF Resume

-----------------------------------------------------------------------------
(* The invariant holds at first. *)

LEMMA SupervisorInvInit == SupervisorInit => SupervisorInv
<1> SUFFICES ASSUME SupervisorInit PROVE SupervisorInv
  OBVIOUS
<1>1. /\ \A r \in Runs : run[r] = Unused
      /\ \A k \in CallIds : call[k] = Unmade
      /\ cut = {}
  BY DEF SupervisorInit
<1>2. Unused \in RunShape /\ Unmade \in CallShape
  BY DEF Unused, Unmade, RunShape, CallShape, Pcs, Outcomes, Callers
<1>3. Shapes
  BY <1>2, SupervisorAssumption DEF SupervisorInit, Shapes, NewPool, Shaped, PolicyShape
<1>4. Lineage
  BY <1>1 DEF Lineage, Alive, Unused, Unmade
<1>5. CutAgrees /\ PermitsAgree /\ AbortReachesChildren
  BY <1>1 DEF CutAgrees, PermitsAgree, AbortReachesChildren, HasController, Unused
<1> QED
  BY <1>3, <1>4, <1>5 DEF SupervisorInv

-----------------------------------------------------------------------------
(* Steps of one child. *)

\* Run r moves on, and stays what it is in the tree.
Moves(r) ==
    /\ Alive(r)
    /\ run' \in [Runs -> RunShape]
    /\ \A s \in Runs \ {r} : run'[s] = run[s]
    /\ run'[r].caller = run[r].caller
    /\ run'[r].callId = run[r].callId
    /\ run'[r].above = run[r].above
    /\ UNCHANGED <<limits, pool, spawned, call>>

\* Nobody hangs on a run that is not in turn.
LEMMA NoneHangOn ==
    ASSUME SupervisorInv, NEW r \in Runs, run[r].pc # "turn" \/ OpenCalls(r) = {}
    PROVE  /\ \A s \in Runs : Alive(s) => run[s].caller # r
           /\ OpenCalls(r) = {}
BY DEF SupervisorInv, Lineage, InTurn, OpenCalls, Alive

LEMMA MoveKeepsLineage ==
    ASSUME SupervisorInv, NEW r \in Runs, Moves(r),
           run'[r].pc \notin {"unused", "ended"},
           run[r].pc # "turn" \/ OpenCalls(r) = {}
    PROVE  Lineage'
<1>1. /\ \A s \in Runs : Alive(s) => run[s].caller # r
      /\ OpenCalls(r) = {}
  BY NoneHangOn
<1>2. Lineage
  BY DEF SupervisorInv
<1>3. \A s \in Runs : /\ Alive(s)' <=> Alive(s)
                      /\ run'[s].caller = run[s].caller
                      /\ run'[s].callId = run[s].callId
                      /\ run'[s].above = run[s].above
  BY DEF Moves, Alive
<1>4. call' = call /\ spawned' = spawned
  BY DEF Moves
<1>5. \A s \in Runs : s > spawned' => run'[s].pc = "unused"
  BY <1>2, <1>4 DEF Moves, Lineage, Alive
<1>6. \A k \in CallIds : call'[k].pc \in {"tasks", "resuming"} => InTurn(call[k].caller)'
  BY <1>1, <1>2, <1>4 DEF Moves, Lineage, InTurn, OpenCalls
<1>7. \A s \in Runs : Alive(s) => AboveOf(run[s].caller)' = AboveOf(run[s].caller)
  BY <1>3 DEF AboveOf, Moves, Shapes, SupervisorInv, RunShape, Callers
<1>8. ASSUME NEW s \in Runs
      PROVE  IF Alive(s)'
             THEN /\ run'[s].callId \in CallIds
                  /\ call'[run'[s].callId].pc = "tasks"
                  /\ call'[run'[s].callId].caller = run'[s].caller
                  /\ run'[s].above = AboveOf(run[s].caller)'
             ELSE run'[s].callId = 0
  BY <1>2, <1>3, <1>4, <1>7 DEF Lineage
<1>9. \A s \in Runs : run'[s].above \intersect Runs \subseteq 1 .. s - 1
  BY <1>2, <1>3 DEF Lineage
<1> QED
  BY <1>5, <1>6, <1>8, <1>9 DEF Lineage

LEMMA MoveKeeps ==
    ASSUME SupervisorInv, NEW r \in Runs,
           \/ TakeController(r) \/ StartSession(r)
           \/ TurnEnds(r) \/ VerificationEnds(r)
    PROVE  SupervisorInv'
<1>1. /\ run \in [Runs -> RunShape]
      /\ cut \subseteq Callers
      /\ Shapes /\ Lineage /\ CutAgrees /\ PermitsAgree /\ AbortReachesChildren
  BY DEF SupervisorInv, Shapes
<1>2. CASE TakeController(r)
  <2>1. /\ Moves(r) /\ cut' = cut /\ run[r].pc = "admitted"
        /\ run'[r].pc = "building"
        /\ run'[r].aborted = (run[r].caller \in cut)
        /\ run'[r].outcome = run[r].outcome
    <3> DEFINE told == run[r].caller \in cut
               next == [run[r] EXCEPT !.pc = "building", !.aborted = told]
    <3>1. run' = [run EXCEPT ![r] = next]
      BY <1>1, <1>2 DEF TakeController, RunShape
    <3>2. told \in BOOLEAN
      OBVIOUS
    <3> HIDE DEF told
    <3>3. /\ next \in RunShape /\ next.pc = "building" /\ next.aborted = told
          /\ next.outcome = run[r].outcome
          /\ next.caller = run[r].caller /\ next.callId = run[r].callId
          /\ next.above = run[r].above
      BY <1>1, <3>2 DEF RunShape, Pcs
    <3>4. UNCHANGED <<limits, pool, spawned, call, cut>> /\ run[r].pc = "admitted"
      BY <1>2 DEF TakeController
    <3> HIDE DEF next
    <3>5. run'[r] = next /\ run' \in [Runs -> RunShape] /\ \A s \in Runs \ {r} : run'[s] = run[s]
      BY <1>1, <3>1, <3>3
    <3> QED
      BY <3>3, <3>4, <3>5 DEF Moves, Alive, told
  <2>2. Lineage'
    BY <2>1, MoveKeepsLineage
  <2>3. Shapes'
    BY <1>1, <2>1 DEF Shapes, Moves
  <2>4. CutAgrees' /\ PermitsAgree'
    BY <1>1, <2>1 DEF CutAgrees, PermitsAgree, Moves, OpenCalls, Interrupted
  <2>5. AbortReachesChildren'
    BY <1>1, <2>1 DEF AbortReachesChildren, Moves, HasController
  <2> QED
    BY <2>2, <2>3, <2>4, <2>5 DEF SupervisorInv
<1>3. ASSUME NEW from \in {"building", "verifying"}, NEW interrupted \in BOOLEAN,
             Prompt(r, from, interrupted)
      PROVE  SupervisorInv'
  <2>1. /\ Moves(r) /\ run[r].pc = from
        /\ run'[r].pc = "turn"
        /\ run'[r].aborted = run[r].aborted /\ run'[r].timedOut = run[r].timedOut
        /\ run'[r].outcome = run[r].outcome
        /\ cut' = (IF interrupted THEN cut \union {r} ELSE cut \ {r})
        /\ interrupted => Interrupted(r)
    BY <1>1, <1>3 DEF Prompt, Moves, Alive, RunShape, Pcs, Interrupted
  <2>2. Lineage'
    BY <2>1, MoveKeepsLineage
  <2>3. Shapes'
    BY <1>1, <2>1 DEF Shapes, Moves, Callers
  <2>4. CutAgrees'
    BY <1>1, <2>1 DEF CutAgrees, Moves, Interrupted
  <2>5. PermitsAgree'
    BY <1>1, <2>1 DEF CutAgrees, PermitsAgree, Moves, OpenCalls
  <2>6. AbortReachesChildren'
    <3>1. \A s \in Runs : Alive(s) => run[s].caller # r
      BY <2>1, NoneHangOn
    <3>2. ASSUME NEW s \in Runs, run'[s].caller \in cut'
          PROVE  run'[s].pc # "queued" /\ (HasController(s)' => run'[s].aborted)
      <4>1. CASE s = r
        <5>1. run[r].caller # r
          BY <2>1, <3>1 DEF Moves
        <5> QED
          BY <1>1, <2>1, <3>2, <4>1, <5>1 DEF AbortReachesChildren, Moves, HasController
      <4>2. CASE s # r
        BY <1>1, <2>1, <3>1, <3>2, <4>2
        DEF AbortReachesChildren, Moves, HasController, Alive
      <4> QED
        BY <4>1, <4>2
    <3> QED
      BY <3>2 DEF AbortReachesChildren
  <2> QED
    BY <2>2, <2>3, <2>4, <2>5, <2>6 DEF SupervisorInv
\* The turn is over, or a verification.
<1>4. ASSUME NEW pc \in {"verifying", "closing"}, NEW outcome \in Outcomes,
             run[r].pc \in {"turn", "verifying"}, run[r].pc = "turn" => OpenCalls(r) = {},
             r \in cut => pc = "closing" /\ outcome # "completed",
             \/ pc = "verifying" /\ Goes(r, pc) /\ outcome = "none"
             \/ pc = "closing" /\ Terminal(r, outcome)
      PROVE  SupervisorInv'
  <2>1. /\ Moves(r) /\ cut' = cut
        /\ run'[r].pc = pc
        /\ run'[r].outcome = IF pc = "closing" THEN outcome ELSE run[r].outcome
        /\ pc = "verifying" => run'[r].aborted = run[r].aborted
    <3>1. CASE pc = "verifying" /\ Goes(r, pc) /\ outcome = "none"
      BY <1>1, <1>4, <3>1 DEF Goes, Moves, Alive, RunShape, Pcs
    <3>2. CASE pc = "closing" /\ Terminal(r, outcome)
      <4> DEFINE over == [run[r] EXCEPT !.pc = "closing", !.outcome = outcome,
                            !.attempts = 0, !.aborted = FALSE, !.timedOut = FALSE]
      <4>1. run' = [run EXCEPT ![r] = over]
        BY <1>1, <3>2 DEF Terminal, RunShape
      <4>2. /\ over \in RunShape /\ over.pc = "closing" /\ over.outcome = outcome
            /\ over.caller = run[r].caller /\ over.callId = run[r].callId
            /\ over.above = run[r].above
        BY <1>1 DEF RunShape, Pcs
      <4>3. UNCHANGED <<limits, pool, spawned, call, cut>> /\ pc = "closing"
        BY <3>2 DEF Terminal
      <4> HIDE DEF over
      <4>4. run'[r] = over /\ run' \in [Runs -> RunShape] /\ \A s \in Runs \ {r} : run'[s] = run[s]
        BY <1>1, <4>1, <4>2
      <4> QED
        BY <1>4, <4>2, <4>3, <4>4 DEF Moves, Alive
    <3> QED
      BY <1>4, <3>1, <3>2
  <2>2. Lineage'
    BY <1>4, <2>1, MoveKeepsLineage
  <2>3. Shapes'
    BY <1>1, <2>1 DEF Shapes, Moves
  <2>4. CutAgrees'
    BY <1>1, <1>4, <2>1 DEF CutAgrees, Moves, Interrupted
  <2>5. PermitsAgree'
    BY <1>1, <1>4, <2>1 DEF PermitsAgree, Moves, OpenCalls
  <2>6. AbortReachesChildren'
    BY <1>1, <1>4, <2>1 DEF AbortReachesChildren, Moves, HasController
  <2> QED
    BY <2>2, <2>3, <2>4, <2>5, <2>6 DEF SupervisorInv
<1>5. CASE StartSession(r)
  BY <1>3, <1>5 DEF StartSession
<1>6. CASE TurnEnds(r)
  <2>1. ~Interrupted(r) => r \notin cut
    BY <1>1, <1>6 DEF TurnEnds, CutAgrees
  <2> QED
    BY <1>4, <1>6, <2>1 DEF TurnEnds, Outcomes, Interrupted
<1>7. CASE VerificationEnds(r)
  <2>1. r \notin cut
    BY <1>1, <1>7 DEF VerificationEnds, CutAgrees
  <2> QED
    BY <1>3, <1>4, <1>7, <2>1 DEF VerificationEnds, Outcomes
<1> QED
  BY <1>2, <1>5, <1>6, <1>7

-----------------------------------------------------------------------------
(* Steps that pass permits on. *)

LEMMA LeaveKeeps ==
    ASSUME SupervisorInv, NEW r \in Runs, NEW spent \in BOOLEAN,
           run[r].pc \in {"building", "closing"}, Leave(r, spent)
    PROVE  SupervisorInv'
<1> DEFINE after == releaseConcurrency(pool, r, limits.maxParallel)
           gone  == [run EXCEPT ![r] = Ended]
<1>1. /\ run \in [Runs -> RunShape] /\ call \in [CallIds -> CallShape]
      /\ cut \subseteq Callers /\ Shaped(pool)
      /\ Shapes /\ Lineage /\ CutAgrees /\ PermitsAgree /\ AbortReachesChildren
  BY DEF SupervisorInv, Shapes
<1>2. /\ \A s \in Runs : Alive(s) => run[s].caller # r
      /\ OpenCalls(r) = {}
  BY NoneHangOn
<1>3. /\ Ended \in RunShape /\ Ended.pc = "ended" /\ Ended.callId = 0
      /\ Ended.outcome = "none" /\ Ended.above = {}
  BY DEF Ended, Unused, RunShape, Pcs, Outcomes, Callers
<1>4. /\ gone \in [Runs -> RunShape] /\ gone[r] = Ended
      /\ \A s \in Runs \ {r} : gone[s] = run[s]
  BY <1>1, <1>3
<1>5. /\ pool' = after /\ run' = Start(gone, pool, after)
      /\ call' = Resume(call, pool, after)
      /\ cut' = cut \ {r}
      /\ UNCHANGED <<limits, spawned>>
  BY DEF Leave
<1>6. Shaped(pool') /\ pool.activeRuns \ {r} \subseteq pool'.activeRuns
  BY <1>1, <1>5, ReleaseKeeps
<1> HIDE DEF after, gone
<1>7. /\ run' \in [Runs -> RunShape]
      /\ run'[r].pc = "ended" /\ run'[r].callId = 0 /\ run'[r].outcome = "none"
      /\ run'[r].above = {}
  BY <1>3, <1>4, <1>5, StartKeeps
<1>8. \A s \in Runs \ {r} :
        /\ run[s].pc # "queued" => run'[s] = run[s]
        /\ run[s].pc = "queued" => run'[s].pc \in {"queued", "admitted"}
        /\ run[s].pc = "queued" /\ run'[s].pc = "admitted" => s \in pool'.activeRuns
        /\ run'[s].caller = run[s].caller /\ run'[s].callId = run[s].callId
        /\ run'[s].above = run[s].above /\ run'[s].outcome = run[s].outcome
        /\ run'[s].aborted = run[s].aborted /\ run'[s].timedOut = run[s].timedOut
  BY <1>4, <1>5, StartKeeps
<1>9. /\ call' \in [CallIds -> CallShape]
      /\ \A k \in CallIds :
            \/ call'[k] = call[k]
            \/ /\ call[k].pc = "resuming" /\ call[k].caller \in pool'.activeRuns
               /\ call'[k].pc = "back"
  BY <1>1, <1>5, ResumeKeeps
<1>10. Shapes'
  BY <1>1, <1>5, <1>6, <1>7, <1>9 DEF Shapes
<1>11. Lineage'
  <2>1. \A s \in Runs : s > spawned' => run'[s].pc = "unused"
    BY <1>1, <1>5, <1>8 DEF Lineage
  <2>2. \A k \in CallIds : call'[k].pc \in {"tasks", "resuming"} => InTurn(call[k].caller)'
    BY <1>1, <1>2, <1>8, <1>9 DEF Lineage, InTurn, OpenCalls
  <2>3. ASSUME NEW s \in Runs, s # r
        PROVE  /\ Alive(s)' <=> Alive(s)
               /\ Alive(s) => AboveOf(run[s].caller)' = AboveOf(run[s].caller)
    <3>1. Alive(s)' <=> Alive(s)
      BY <1>8, <2>3 DEF Alive
    <3>2. run'[s].caller = run[s].caller /\ run[s].caller \in Callers
      BY <1>1, <1>8, <2>3 DEF RunShape
    <3>3. ASSUME Alive(s), run[s].caller # Root
          PROVE  run'[run[s].caller].above = run[run[s].caller].above
      BY <1>2, <1>8, <3>2, <3>3 DEF Callers
    <3> QED
      BY <3>1, <3>2, <3>3 DEF AboveOf
  <2>4. ASSUME NEW s \in Runs
        PROVE  IF Alive(s)'
               THEN /\ run'[s].callId \in CallIds
                    /\ call'[run'[s].callId].pc = "tasks"
                    /\ call'[run'[s].callId].caller = run'[s].caller
                    /\ run'[s].above = AboveOf(run[s].caller)'
               ELSE run'[s].callId = 0
    <3>1. CASE s = r
      BY <1>7, <3>1 DEF Alive
    <3>2. CASE s # r
      BY <1>1, <1>8, <1>9, <2>3, <3>2 DEF Lineage
    <3> QED
      BY <3>1, <3>2
  <2>5. \A s \in Runs : run'[s].above \intersect Runs \subseteq 1 .. s - 1
    BY <1>1, <1>7, <1>8 DEF Lineage
  <2> QED
    BY <2>1, <2>2, <2>4, <2>5 DEF Lineage
<1>12. CutAgrees'
  BY <1>1, <1>5, <1>7, <1>8 DEF CutAgrees, Interrupted
<1>13. PermitsAgree'
  <2>1. ASSUME NEW s \in Runs, s # r
        PROVE  \A k \in OpenCalls(s) :
                  call[k].suspended =>
                     s \in pool'.activeRuns \/ (k \in OpenCalls(s)' /\ call'[k].suspended)
    BY <1>9 DEF OpenCalls
  <2> QED
    BY <1>1, <1>5, <1>6, <1>7, <1>8, <2>1 DEF PermitsAgree
<1>14. AbortReachesChildren'
  <2>1. ASSUME NEW s \in Runs, run'[s].caller \in cut'
        PROVE  run'[s].pc # "queued" /\ (HasController(s)' => run'[s].aborted)
    <3>1. CASE s = r
      BY <1>7, <3>1 DEF HasController
    <3>2. CASE s # r
      BY <1>1, <1>5, <1>8, <2>1, <3>2 DEF AbortReachesChildren, HasController
    <3> QED
      BY <3>1, <3>2
  <2> QED
    BY <2>1 DEF AbortReachesChildren
<1> QED
  BY <1>10, <1>11, <1>12, <1>13, <1>14 DEF SupervisorInv

LEMMA FinishKeeps ==
    ASSUME SupervisorInv, NEW k \in CallIds, FinishTasks(k)
    PROVE  SupervisorInv'
<1> DEFINE p == call[k].caller
           taken == acquireConcurrency(pool, [runId |-> p, caller |-> p], limits.maxParallel)
<1>1. /\ run \in [Runs -> RunShape] /\ call \in [CallIds -> CallShape]
      /\ cut \subseteq Callers /\ Shaped(pool)
      /\ Shapes /\ Lineage /\ CutAgrees /\ PermitsAgree /\ AbortReachesChildren
  BY DEF SupervisorInv, Shapes
<1>2. /\ call[k].pc = "tasks" /\ TasksLeft(k) = {}
      /\ UNCHANGED <<limits, spawned, run, cut>>
  BY DEF FinishTasks
<1>3. Back \in CallShape /\ Back.pc = "back"
  BY DEF Back, Unmade, CallShape, Callers
<1>4. Shaped(taken) /\ pool.activeRuns \subseteq taken.activeRuns
  <2> DEFINE served == [activeRuns |-> pool.activeRuns \union {p}, waiters |-> pool.waiters]
             queued == [activeRuns |-> pool.activeRuns,
                        waiters |-> Append(pool.waiters, [runId |-> p, caller |-> p])]
  <2>1. taken \in {served, queued}
    BY <1>1 DEF acquireConcurrency, Shaped
  <2> QED
    BY <2>1 DEF Shaped
<1> HIDE DEF taken
<1>5. \/ /\ call[k].suspended /\ p \notin cut /\ pool' = taken
         /\ call' = IF p \in taken.activeRuns
                     THEN [call EXCEPT ![k] = Back]
                     ELSE [call EXCEPT ![k].pc = "resuming"]
      \/ ~(call[k].suspended /\ p \notin cut) /\ call' = [call EXCEPT ![k] = Back] /\ pool' = pool
  BY DEF FinishTasks, taken
<1>6. /\ Shaped(pool') /\ pool.activeRuns \subseteq pool'.activeRuns
  BY <1>1, <1>4, <1>5
<1>7. /\ call' \in [CallIds -> CallShape]
      /\ \A j \in CallIds \ {k} : call'[j] = call[j]
      /\ \/ call'[k].pc = "back" /\ (call[k].suspended /\ p \notin cut => p \in pool'.activeRuns)
         \/ call'[k].pc = "resuming" /\ call'[k].caller = p /\ call'[k].suspended = call[k].suspended
  BY <1>1, <1>3, <1>5 DEF CallShape
<1>8. Shapes'
  BY <1>1, <1>2, <1>6, <1>7 DEF Shapes
<1>9. Lineage'
  <2>1. \A s \in Runs : Alive(s) => run[s].callId # k
    BY <1>2 DEF TasksLeft
  <2>2. \A s \in Runs : /\ Alive(s)' <=> Alive(s)
                        /\ AboveOf(run[s].caller)' = AboveOf(run[s].caller)
    BY <1>2 DEF Alive, AboveOf
  <2>3. \A q : InTurn(q)' <=> InTurn(q)
    BY <1>2 DEF InTurn
  <2>4. \A j \in CallIds : call'[j].pc \in {"tasks", "resuming"} => InTurn(call[j].caller)'
    BY <1>1, <1>2, <1>7, <2>3 DEF Lineage
  <2> QED
    BY <1>1, <1>2, <1>7, <2>1, <2>2, <2>4 DEF Lineage
<1>10. CutAgrees' /\ AbortReachesChildren'
  BY <1>1, <1>2 DEF CutAgrees, AbortReachesChildren, HasController, Interrupted
<1>11. PermitsAgree'
  <2>1. ASSUME NEW s \in Runs, s \notin cut, NEW j \in OpenCalls(s), call[j].suspended
        PROVE  s \in pool'.activeRuns \/ (j \in OpenCalls(s)' /\ call'[j].suspended)
    BY <1>7, <2>1 DEF OpenCalls
  <2> QED
    BY <1>1, <1>2, <1>6, <2>1 DEF PermitsAgree
<1> QED
  BY <1>8, <1>9, <1>10, <1>11 DEF SupervisorInv

-----------------------------------------------------------------------------
(* Aborts. *)

\* An abort of a caller reaches every child of it that has a controller and has
\* not been told: the path of the child is that of its caller and the caller.
LEMMA ReachesChildren ==
    ASSUME SupervisorInv, NEW sessions \in SUBSET Callers,
           NEW r \in Runs, HasController(r), ~run[r].aborted,
           \/ run[r].caller \in sessions
           \/ run[r].caller \in Reached(sessions)
    PROVE  r \in Reached(sessions)
<1> DEFINE p == run[r].caller
<1>1. /\ run \in [Runs -> RunShape]
      /\ Lineage /\ Alive(r)
  BY DEF SupervisorInv, Shapes, HasController, Alive
<1>2. /\ p \in Callers /\ InTurn(p)
      /\ run[r].above = AboveOf(p)
      /\ Root \notin Runs
  BY <1>1, LimitsAssumption DEF Lineage, RunShape, Runs
<1>3. ASSUME p \in Runs
      PROVE  /\ run[r].above = run[p].above \union {p} /\ p # Root
             /\ run[p].above \intersect Runs \subseteq 1 .. p - 1
  BY <1>1, <1>2, <1>3 DEF AboveOf, Lineage, InTurn, Alive
<1>4. CASE p = Root
  <2>1. run[r].above = {Root} /\ Root \in sessions
    BY <1>2, <1>4 DEF AboveOf, Reached
  <2> QED
    BY <1>2, <2>1 DEF Reached
<1>5. CASE p \in Runs /\ p \in sessions
  <2>1. p \in sessions \intersect run[r].above
    BY <1>3, <1>5
  <2>2. ASSUME NEW m \in run[r].above \intersect Runs PROVE p \notin run[m].above
    <3>1. CASE m = p
      BY <1>3, <1>5, <3>1 DEF Runs
    <3>2. CASE m # p
      <4>1. m \in 1 .. p - 1
        BY <1>3, <1>5, <3>2
      <4>2. run[m].above \intersect Runs \subseteq 1 .. m - 1
        BY <1>1 DEF Lineage
      <4> QED
        BY <1>5, <4>1, <4>2 DEF Runs
    <3> QED
      BY <3>1, <3>2
  <2> QED
    BY <2>1, <2>2 DEF Reached
<1>6. CASE p \in Runs /\ p \in Reached(sessions)
  <2>1. PICK s \in sessions \intersect run[p].above :
              /\ ~run[p].aborted
              /\ \A m \in run[p].above \intersect Runs : s \in run[m].above => ~run[m].aborted
    BY <1>6 DEF Reached
  <2>2. /\ s \in sessions \intersect run[r].above
        /\ \A m \in run[r].above \intersect Runs : s \in run[m].above => ~run[m].aborted
    BY <1>3, <1>6, <2>1
  <2> QED
    BY <2>2 DEF Reached
<1> QED
  BY <1>2, <1>4, <1>5, <1>6 DEF Callers, Reached

\* The three ways to abort: every session that is aborted was told so by its own
\* controller, or by its timer.
LEMMA AbortKeeps ==
    ASSUME SupervisorInv, NEW sessions \in SUBSET Callers, NEW fired \in SUBSET sessions,
           NEW timedOut \in SUBSET Runs,
           sessions \intersect Runs \subseteq fired \union timedOut,
           \A r \in fired \union timedOut : r \in Runs /\ HasController(r),
           AbortSessions(sessions, fired, timedOut)
    PROVE  SupervisorInv'
<1> DEFINE reached == Reached(sessions) \union fired
           nowCut  == {p \in reached \union sessions : InTurn(p)}
           Refused(r) == run[r].pc = "queued" /\ run[r].caller \in nowCut
<1>1. /\ run \in [Runs -> RunShape] /\ call \in [CallIds -> CallShape]
      /\ cut \subseteq Callers /\ Shaped(pool)
      /\ Shapes /\ Lineage /\ CutAgrees /\ PermitsAgree /\ AbortReachesChildren
  BY DEF SupervisorInv, Shapes
<1>2. /\ cut' = cut \union nowCut
      /\ pool' = abortWaiters(pool, nowCut)
      /\ run' = [r \in Runs |->
                    IF Refused(r)
                    THEN Ended
                    ELSE [run[r] EXCEPT !.aborted = @ \/ r \in reached,
                                        !.timedOut = @ \/ r \in timedOut]]
      /\ call' = [k \in CallIds |->
                     IF call[k].pc = "resuming" /\ call[k].caller \in nowCut
                     THEN Back ELSE call[k]]
      /\ UNCHANGED <<limits, spawned>>
  BY DEF AbortSessions
<1>3. reached \subseteq Runs /\ nowCut \subseteq Callers
  BY DEF Reached, Callers
<1>4. \A r \in reached : HasController(r)
  BY DEF Reached
<1>5. /\ Ended \in RunShape /\ Ended.pc = "ended" /\ Ended.callId = 0
      /\ Ended.outcome = "none" /\ Ended.above = {} /\ Back \in CallShape /\ Back.pc = "back"
  BY DEF Ended, Unused, Back, Unmade, RunShape, CallShape, Pcs, Outcomes, Callers
<1>6. ASSUME NEW r \in nowCut \intersect Runs
      PROVE  run[r].pc = "turn" /\ r \in reached \union timedOut
  BY DEF InTurn
\* A child with a controller whose caller's turn is aborted is reached.
<1>7. ASSUME NEW r \in Runs, HasController(r), run[r].caller \in nowCut
      PROVE  run[r].aborted \/ r \in reached
  <2>1. run[r].aborted \/ r \in Reached(sessions)
    BY <1>7, ReachesChildren, Zenon
  <2> QED
    BY <2>1
<1>8. Shaped(pool') /\ pool'.activeRuns = pool.activeRuns
  <2>1. \A w : [[activeRuns |-> pool.activeRuns, waiters |-> pool.waiters] EXCEPT !.waiters = w]
                = [activeRuns |-> pool.activeRuns, waiters |-> w]
    OBVIOUS
  <2>2. \E w : pool' = [pool EXCEPT !.waiters = w]
    BY <1>2 DEF abortWaiters
  <2> QED
    BY <1>1, <2>1, <2>2 DEF Shaped
<1> HIDE DEF nowCut, reached
<1>9. ASSUME NEW r \in Runs
      PROVE  /\ run'[r] \in RunShape
             /\ Refused(r) => run'[r] = Ended
             /\ ~Refused(r) =>
                   /\ run'[r].pc = run[r].pc /\ run'[r].caller = run[r].caller
                   /\ run'[r].callId = run[r].callId /\ run'[r].above = run[r].above
                   /\ run'[r].outcome = run[r].outcome
                   /\ run'[r].aborted = (run[r].aborted \/ r \in reached)
                   /\ run'[r].timedOut = (run[r].timedOut \/ r \in timedOut)
  <2>1. CASE Refused(r)
    BY <1>2, <1>5, <2>1
  <2>2. CASE ~Refused(r)
    <3> DEFINE a == run[r].aborted \/ r \in reached
               t == run[r].timedOut \/ r \in timedOut
               next == [run[r] EXCEPT !.aborted = a, !.timedOut = t]
    <3>1. run[r] \in RunShape
      BY <1>1
    <3>2. run'[r] = next
      BY <1>2, <2>2, <3>1 DEF RunShape
    <3>3. a \in BOOLEAN /\ t \in BOOLEAN
      OBVIOUS
    <3> HIDE DEF a, t
    <3>4. /\ next \in RunShape /\ next.pc = run[r].pc /\ next.caller = run[r].caller
          /\ next.callId = run[r].callId /\ next.above = run[r].above
          /\ next.outcome = run[r].outcome /\ next.aborted = a /\ next.timedOut = t
      BY <3>1, <3>3 DEF RunShape
    <3> HIDE DEF next
    <3> QED
      BY <2>2, <3>2, <3>4 DEF a, t
  <2> QED
    BY <2>1, <2>2
<1>10. run' \in [Runs -> RunShape]
  BY <1>2, <1>9
<1>11. /\ call' \in [CallIds -> CallShape]
       /\ \A k \in CallIds :
             \/ call'[k] = call[k]
             \/ /\ call[k].pc = "resuming" /\ call[k].caller \in nowCut
                /\ call'[k].pc = "back"
  BY <1>1, <1>2, <1>5
<1>12. Shapes'
  BY <1>1, <1>2, <1>3, <1>8, <1>10, <1>11 DEF Shapes
<1>13. Lineage'
  <2>1. \A s \in Runs : s > spawned' => run'[s].pc = "unused"
    BY <1>1, <1>2, <1>9 DEF Lineage
  <2>2. \A p \in Runs : run[p].pc = "turn" => run'[p].pc = "turn" /\ run'[p].above = run[p].above
    BY <1>9
  <2>3. \A k \in CallIds : call'[k].pc \in {"tasks", "resuming"} => InTurn(call[k].caller)'
    BY <1>1, <1>11, <2>2 DEF Lineage, InTurn
  <2>4. ASSUME NEW s \in Runs
        PROVE  IF Alive(s)'
               THEN /\ run'[s].callId \in CallIds
                    /\ call'[run'[s].callId].pc = "tasks"
                    /\ call'[run'[s].callId].caller = run'[s].caller
                    /\ run'[s].above = AboveOf(run[s].caller)'
               ELSE run'[s].callId = 0
    <3>1. CASE ~Alive(s)'
      BY <1>1, <1>5, <1>9, <3>1 DEF Lineage, Alive
    <3>2. CASE Alive(s)'
      <4>1. ~Refused(s) /\ Alive(s)
        BY <1>5, <1>9, <3>2 DEF Alive
      <4>2. /\ run[s].callId \in CallIds /\ call[run[s].callId].pc = "tasks"
            /\ call[run[s].callId].caller = run[s].caller
            /\ run[s].above = AboveOf(run[s].caller)
            /\ InTurn(run[s].caller) /\ run[s].caller \in Callers
        BY <1>1, <4>1 DEF Lineage, RunShape
      <4>3. call'[run[s].callId] = call[run[s].callId]
        BY <1>11, <4>2
      <4>4. run'[s].caller = run[s].caller
        BY <1>9, <4>1
      <4>5. AboveOf(run[s].caller)' = AboveOf(run[s].caller)
        BY <2>2, <4>2, <4>4 DEF AboveOf, InTurn, Callers
      <4> QED
        BY <1>9, <3>2, <4>1, <4>2, <4>3, <4>5
    <3> QED
      BY <3>1, <3>2
  <2>5. \A s \in Runs : run'[s].above \intersect Runs \subseteq 1 .. s - 1
    BY <1>1, <1>5, <1>9 DEF Lineage
  <2> QED
    BY <2>1, <2>3, <2>4, <2>5 DEF Lineage
<1>14. CutAgrees'
  <2>1. ASSUME NEW r \in Runs, run'[r].outcome # "none" PROVE run'[r].pc = "closing"
    BY <1>1, <1>5, <1>9, <2>1 DEF CutAgrees
  <2>2. ASSUME NEW r \in Runs, r \in cut'
        PROVE  \/ run'[r].pc = "turn" /\ Interrupted(r)'
               \/ run'[r].pc = "closing" /\ run'[r].outcome # "completed"
    <3>1. CASE r \in nowCut
      BY <1>6, <1>9, <3>1 DEF Interrupted
    <3>2. CASE r \in cut
      BY <1>1, <1>9, <3>2 DEF Interrupted, CutAgrees
    <3> QED
      BY <1>2, <2>2, <3>1, <3>2
  <2> QED
    BY <2>1, <2>2 DEF CutAgrees
<1>15. PermitsAgree'
  <2>1. ASSUME NEW s \in Runs, s \notin cut', NEW k \in OpenCalls(s), call[k].suspended
        PROVE  k \in OpenCalls(s)' /\ call'[k].suspended
    BY <1>2, <1>11, <2>1 DEF OpenCalls
  <2> QED
    BY <1>1, <1>2, <1>5, <1>8, <1>9, <2>1 DEF PermitsAgree
<1>16. AbortReachesChildren'
  <2>1. ASSUME NEW s \in Runs, run'[s].caller \in cut'
        PROVE  run'[s].pc # "queued" /\ (HasController(s)' => run'[s].aborted)
    <3>1. CASE Refused(s)
      BY <1>5, <1>9, <3>1 DEF HasController
    <3>2. CASE ~Refused(s)
      <4>1. /\ run'[s].pc = run[s].pc /\ run'[s].caller = run[s].caller
            /\ run'[s].aborted = (run[s].aborted \/ s \in reached)
        BY <1>9, <3>2
      <4>a. run[s].caller \in cut \union nowCut
        <5>1. cut' = cut \union nowCut
          BY <1>2
        <5> QED
          BY <2>1, <4>1, <5>1
      <4>b. HasController(s)' <=> HasController(s)
        BY <4>1 DEF HasController
      <4>2. CASE run[s].caller \in nowCut
        BY <1>7, <3>2, <4>1, <4>b, <4>2
      <4>3. CASE run[s].caller \in cut
        BY <1>1, <4>1, <4>b, <4>3 DEF AbortReachesChildren
      <4> QED
        BY <4>a, <4>2, <4>3
    <3> QED
      BY <3>1, <3>2
  <2> QED
    BY <2>1 DEF AbortReachesChildren
<1> QED
  BY <1>12, <1>13, <1>14, <1>15, <1>16 DEF SupervisorInv

LEMMA AbortsKeep ==
    ASSUME SupervisorInv,
           AbortRoot \/ \E r \in Runs : StopChild(r) \/ TimerFires(r)
    PROVE  SupervisorInv'
<1>1. CASE AbortRoot
  <2> DEFINE controlled == {r \in Runs : HasController(r) /\ ~run[r].aborted}
  <2>1. AbortSessions({Root} \union controlled, controlled, {})
    BY <1>1 DEF AbortRoot
  <2>2. /\ {Root} \union controlled \subseteq Callers
        /\ ({Root} \union controlled) \intersect Runs \subseteq controlled
    BY LimitsAssumption DEF Callers, Runs
  <2> QED
    BY <2>1, <2>2, AbortKeeps
<1>2. ASSUME NEW r \in Runs, StopChild(r) PROVE SupervisorInv'
  BY <1>2, AbortKeeps DEF StopChild, Callers
<1>3. ASSUME NEW r \in Runs, TimerFires(r) PROVE SupervisorInv'
  BY <1>3, AbortKeeps DEF TimerFires, HasController, Callers
<1> QED
  BY <1>1, <1>2, <1>3

-----------------------------------------------------------------------------
(* Delegation. *)

NewTask(pc, p, k, above) ==
    [Unused EXCEPT !.pc = pc, !.caller = p, !.callId = k, !.above = above]

LEMMA TaskFields ==
    ASSUME NEW pc \in {"queued", "admitted"}, NEW p \in Callers, NEW k \in CallIds,
           NEW above \in SUBSET Callers
    PROVE  /\ NewTask(pc, p, k, above) \in RunShape
           /\ NewTask(pc, p, k, above).pc = pc
           /\ NewTask(pc, p, k, above).caller = p
           /\ NewTask(pc, p, k, above).callId = k
           /\ NewTask(pc, p, k, above).above = above
           /\ NewTask(pc, p, k, above).outcome = "none"
           /\ NewTask(pc, p, k, above).attempts = 0
<1> DEFINE a == [Unused EXCEPT !.pc = pc]
           b == [a EXCEPT !.caller = p]
           c == [b EXCEPT !.callId = k]
<1>1. Unused \in RunShape /\ Unused.outcome = "none" /\ Unused.attempts = 0
  BY DEF Unused, RunShape, Pcs, Outcomes, Callers
<1>2. NewTask(pc, p, k, above) = [c EXCEPT !.above = above]
  BY <1>1 DEF RunShape, NewTask
<1>3. a \in RunShape /\ a.pc = pc /\ a.outcome = "none" /\ a.attempts = 0
  BY <1>1 DEF RunShape, Pcs
<1> HIDE DEF a
<1>4. /\ b \in RunShape /\ b.pc = pc /\ b.outcome = "none" /\ b.attempts = 0
      /\ b.caller = p
  BY <1>3 DEF RunShape
<1> HIDE DEF b
<1>5. /\ c \in RunShape /\ c.pc = pc /\ c.outcome = "none" /\ c.attempts = 0
      /\ c.caller = p /\ c.callId = k
  BY <1>4 DEF RunShape
<1> HIDE DEF c
<1> QED
  BY <1>2, <1>5 DEF RunShape

LEMMA DelegateKeeps ==
    ASSUME SupervisorInv, NEW p \in Callers, NEW k \in CallIds, NEW tasks \in 1 .. MaxTasks,
           Delegate(p, k, tasks)
    PROVE  SupervisorInv'
<1> DEFINE given == Suspended(p)
           last  == spawned + Reserved(p, tasks)
           new   == spawned + 1 .. last
           after == acquireInOrder(given, p, spawned + 1, last, limits.maxParallel)
           Task(r) == [Unused EXCEPT
                          !.pc = IF r \in after.activeRuns THEN "admitted" ELSE "queued",
                          !.caller = p, !.callId = k, !.above = AboveOf(p)]
           runs == [r \in Runs |-> IF r \in new THEN Task(r) ELSE run[r]]
           made == [pc |-> "tasks", caller |-> p, suspended |-> p \in pool.activeRuns]
<1>1. /\ run \in [Runs -> RunShape] /\ call \in [CallIds -> CallShape]
      /\ cut \subseteq Callers /\ Shaped(pool)
      /\ limits \in PolicyShape /\ spawned \in 0 .. limits.maxTotalChildren
      /\ Shapes /\ Lineage /\ CutAgrees /\ PermitsAgree /\ AbortReachesChildren
  BY DEF SupervisorInv, Shapes
<1>2. /\ InTurn(p) /\ p \notin cut /\ call[k].pc = "unmade"
      /\ pool' = after /\ spawned' = last
      /\ run' = Start(runs, pool, given)
      /\ call' = [Resume(call, pool, given) EXCEPT ![k] = made]
      /\ UNCHANGED <<limits, exhausted, cut>>
  BY DEF Delegate
<1>3. last \in spawned .. limits.maxTotalChildren /\ limits.maxTotalChildren \in 1 .. MaxChildren
  BY <1>1, SupervisorAssumption, LimitsAssumption DEF Reserved, LesserOf, PolicyShape
<1>4. new \subseteq Runs
  BY <1>1, <1>3, LimitsAssumption DEF Runs
<1>5. Shaped(given) /\ pool.activeRuns \ {p} \subseteq given.activeRuns
  BY <1>1, ReleaseKeeps DEF Suspended
<1>6. Shaped(after) /\ given.activeRuns \subseteq after.activeRuns
  BY DEF acquireInOrder, Shaped
<1>7. /\ AboveOf(p) \subseteq Callers
      /\ \A r \in new : AboveOf(p) \intersect Runs \subseteq 1 .. r - 1
  <2>1. CASE p = Root
    BY <2>1, LimitsAssumption DEF AboveOf, Callers, Runs
  <2>2. CASE p \in Runs /\ p # Root
    <3>1. run[p].above \subseteq Callers /\ run[p].above \intersect Runs \subseteq 1 .. p - 1
      BY <1>1, <2>2 DEF RunShape, Lineage
    <3>2. p <= spawned
      <4>1. run[p].pc = "turn"
        BY <1>2, <2>2 DEF InTurn
      <4>2. ~(p > spawned)
        BY <1>1, <2>2, <4>1 DEF Lineage
      <4>3. p \in Int /\ spawned \in Int
        BY <1>1, <1>3, <2>2, LimitsAssumption DEF Runs
      <4> QED
        BY <4>2, <4>3
    <3> QED
      BY <1>1, <2>2, <3>1, <3>2 DEF AboveOf, Callers, Runs
  <2> QED
    BY <2>1, <2>2 DEF Callers
<1> HIDE DEF given, last, after
<1>8. ASSUME NEW r \in Runs
      PROVE  /\ runs[r] \in RunShape
             /\ r \notin new => runs[r] = run[r]
             /\ r \in new =>
                   /\ runs[r].pc \in {"queued", "admitted"}
                   /\ runs[r].pc = "admitted" => r \in after.activeRuns
                   /\ runs[r].caller = p /\ runs[r].callId = k
                   /\ runs[r].above = AboveOf(p) /\ runs[r].outcome = "none"
  <2>1. CASE r \notin new
    BY <1>1, <2>1
  <2>2. CASE r \in new
    <3> DEFINE pc == IF r \in after.activeRuns THEN "admitted" ELSE "queued"
    <3>1. pc \in {"queued", "admitted"} /\ (pc = "admitted" => r \in after.activeRuns)
      OBVIOUS
    <3>3. runs[r] = Task(r)
      BY <2>2
    <3>4. Task(r) = NewTask(pc, p, k, AboveOf(p))
      BY DEF NewTask
    <3> HIDE DEF runs, pc, Task
    <3>2. /\ Task(r) \in RunShape /\ Task(r).pc = pc /\ Task(r).caller = p
          /\ Task(r).callId = k /\ Task(r).above = AboveOf(p) /\ Task(r).outcome = "none"
      <4>1. AboveOf(p) \in SUBSET Callers /\ pc \in {"queued", "admitted"}
        BY <1>7, <3>1
      <4> QED
        BY <3>4, <4>1, TaskFields
    <3> QED
      BY <2>2, <3>1, <3>2, <3>3
  <2> QED
    BY <2>1, <2>2
<1>9. runs \in [Runs -> RunShape]
  BY <1>8
<1> HIDE DEF runs
<1>10. run' \in [Runs -> RunShape]
  BY <1>2, <1>9, StartKeeps
<1>11. ASSUME NEW r \in Runs
       PROVE  /\ run'[r].caller = runs[r].caller /\ run'[r].callId = runs[r].callId
              /\ run'[r].above = runs[r].above /\ run'[r].outcome = runs[r].outcome
              /\ run'[r].aborted = runs[r].aborted /\ run'[r].timedOut = runs[r].timedOut
              /\ runs[r].pc # "queued" => run'[r].pc = runs[r].pc
              /\ runs[r].pc = "queued" => run'[r].pc \in {"queued", "admitted"}
              /\ run'[r].pc = "admitted" => r \in pool'.activeRuns
  <2>1. run'[r].pc = "admitted" => \/ r \in given.activeRuns
                                   \/ runs[r].pc = "admitted"
    BY <1>2, <1>9, StartKeeps DEF given
  <2>2. runs[r].pc = "admitted" /\ r \notin new => r \in pool.activeRuns \ {p}
    BY <1>1, <1>2, <1>8 DEF PermitsAgree, InTurn
  <2>3. run'[r].pc = "admitted" => r \in pool'.activeRuns
    BY <1>2, <1>5, <1>6, <1>8, <2>1, <2>2
  <2> QED
    BY <1>2, <1>9, <2>3, StartKeeps
<1>12. Resume(call, pool, given) \in [CallIds -> CallShape] /\ made \in CallShape
  BY <1>1, ResumeKeeps DEF CallShape
<1>13. /\ call' \in [CallIds -> CallShape] /\ call'[k] = made
       /\ \A j \in CallIds \ {k} :
             \/ call'[j] = call[j]
             \/ /\ call[j].pc = "resuming" /\ call[j].caller \in given.activeRuns
                /\ call'[j].pc = "back"
  BY <1>1, <1>2, <1>12, ResumeKeeps
<1>20. /\ call'[k].pc = "tasks" /\ call'[k].caller = p
       /\ call'[k].suspended <=> p \in pool.activeRuns
  <2>1. made.pc = "tasks" /\ made.caller = p /\ made.suspended = (p \in pool.activeRuns)
    OBVIOUS
  <2> HIDE DEF made
  <2> QED
    BY <1>13, <2>1
<1> HIDE DEF made
<1>14. Shapes'
  BY <1>1, <1>2, <1>3, <1>6, <1>10, <1>13 DEF Shapes
<1>15. Lineage'
  <2>1. \A s \in Runs : s > spawned' => run'[s].pc = "unused"
    BY <1>1, <1>2, <1>3, <1>8, <1>11 DEF Lineage, Runs
  <2>2. \A s \in Runs : s \in new => ~Alive(s)
    BY <1>1 DEF Lineage, Alive
  <2>3. \A q \in Runs : run[q].pc = "turn" => run'[q].pc = "turn" /\ run'[q].above = run[q].above
    BY <1>8, <1>11, <2>2 DEF Alive
  <2>4. \A j \in CallIds : call'[j].pc \in {"tasks", "resuming"} => InTurn(call[j].caller)'
    BY <1>1, <1>2, <1>13, <1>20, <2>3 DEF Lineage, InTurn
  <2>5. ASSUME NEW s \in Runs
        PROVE  IF Alive(s)'
               THEN /\ run'[s].callId \in CallIds
                    /\ call'[run'[s].callId].pc = "tasks"
                    /\ call'[run'[s].callId].caller = run'[s].caller
                    /\ run'[s].above = AboveOf(run[s].caller)'
               ELSE run'[s].callId = 0
    <3>1. CASE s \in new
      <4>1. AboveOf(run[s].caller)' = AboveOf(p)
        <5>1. run'[s].caller = p
          BY <1>8, <1>11, <3>1
        <5>2. p # Root => run'[p].above = run[p].above
          BY <1>2, <2>3 DEF InTurn, Callers
        <5> QED
          BY <5>1, <5>2 DEF AboveOf
      <4>2. run'[s].pc \in {"queued", "admitted"}
        BY <1>8, <1>11, <3>1
      <4> QED
        BY <1>8, <1>11, <1>20, <3>1, <4>1, <4>2 DEF Alive
    <3>2. CASE s \notin new /\ Alive(s)
      <4>1. /\ run[s].callId \in CallIds /\ call[run[s].callId].pc = "tasks"
            /\ call[run[s].callId].caller = run[s].caller
            /\ run[s].above = AboveOf(run[s].caller)
            /\ InTurn(run[s].caller) /\ run[s].caller \in Callers
        BY <1>1, <3>2 DEF Lineage, RunShape
      <4>2. call'[run[s].callId] = call[run[s].callId]
        BY <1>2, <1>13, <4>1
      <4>3. run'[s].caller = run[s].caller /\ run'[s].callId = run[s].callId /\ run'[s].above = run[s].above
        BY <1>8, <1>11, <3>2
      <4>4. AboveOf(run[s].caller)' = AboveOf(run[s].caller)
        BY <2>3, <4>1, <4>3 DEF AboveOf, InTurn, Callers
      <4>5. Alive(s)'
        BY <1>8, <1>11, <3>2 DEF Alive
      <4> QED
        BY <4>1, <4>2, <4>3, <4>4, <4>5
    <3>3. CASE s \notin new /\ ~Alive(s)
      BY <1>1, <1>8, <1>11, <3>3 DEF Lineage, Alive
    <3> QED
      BY <3>1, <3>2, <3>3
  <2>6. \A s \in Runs : run'[s].above \intersect Runs \subseteq 1 .. s - 1
    BY <1>1, <1>7, <1>8, <1>11 DEF Lineage
  <2> QED
    BY <2>1, <2>4, <2>5, <2>6 DEF Lineage
<1>16. CutAgrees'
  <2>1. \A s \in Runs : s \in new => s \notin cut
    BY <1>1 DEF Lineage, CutAgrees
  <2>2. ASSUME NEW s \in Runs
        PROVE  /\ run'[s].outcome # "none" => run'[s].pc = "closing"
               /\ s \in cut' => \/ run'[s].pc = "turn" /\ Interrupted(s)'
                                \/ run'[s].pc = "closing" /\ run'[s].outcome # "completed"
    BY <1>1, <1>2, <1>8, <1>11, <2>1 DEF CutAgrees, Interrupted
  <2> QED
    BY <2>2 DEF CutAgrees
<1>17. PermitsAgree'
  <2>1. ASSUME NEW s \in Runs, run'[s].pc \in {"admitted", "building"}
        PROVE  s \in pool'.activeRuns
    <3>1. CASE run'[s].pc = "building"
      <4>1. s \notin new /\ run[s].pc = "building"
        BY <1>8, <1>11, <3>1
      <4>2. s # p
        BY <1>2, <4>1 DEF InTurn
      <4> QED
        BY <1>1, <1>2, <1>5, <1>6, <4>1, <4>2 DEF PermitsAgree
    <3> QED
      BY <1>11, <2>1, <3>1
  <2>2. ASSUME NEW s \in Runs, run'[s].pc \in {"turn", "verifying", "closing"}, s \notin cut'
        PROVE  s \in pool'.activeRuns \/ \E j \in OpenCalls(s)' : call'[j].suspended
    <3>1. s \notin new /\ run[s].pc = run'[s].pc /\ s \notin cut
      BY <1>2, <1>8, <1>11, <2>2
    <3>2. CASE s \in pool.activeRuns /\ s # p
      BY <1>2, <1>5, <1>6, <3>2
    <3>3. CASE s \in pool.activeRuns /\ s = p
      <4>1. k \in OpenCalls(s)' /\ call'[k].suspended
        BY <1>20, <3>3 DEF OpenCalls
      <4> QED
        BY <4>1
    <3>4. ASSUME NEW j \in OpenCalls(s), call[j].suspended
          PROVE  s \in pool'.activeRuns \/ (j \in OpenCalls(s)' /\ call'[j].suspended)
      BY <1>2, <1>6, <1>13, <3>4 DEF OpenCalls
    <3> QED
      BY <1>1, <2>2, <3>1, <3>2, <3>3, <3>4 DEF PermitsAgree
  <2> QED
    BY <2>1, <2>2 DEF PermitsAgree
<1>18. AbortReachesChildren'
  <2>1. ASSUME NEW s \in Runs, run'[s].caller \in cut'
        PROVE  run'[s].pc # "queued" /\ (HasController(s)' => run'[s].aborted)
    BY <1>1, <1>2, <1>8, <1>11, <2>1 DEF AbortReachesChildren, HasController
  <2> QED
    BY <2>1 DEF AbortReachesChildren
<1> QED
  BY <1>14, <1>15, <1>16, <1>17, <1>18 DEF SupervisorInv

-----------------------------------------------------------------------------
(* The queue: who holds a permit, who waits for one, and for what. *)

Works == {"admitted", "building", "turn", "verifying", "closing"}

HoldersLive == \A r \in pool.activeRuns : run[r].pc \in Works

\* A waiter is a child that has not started, under its caller's signal, or a
\* parent whose delegate call wants its permit back.
WaitersAgree ==
    \A w \in Elems(pool.waiters) :
        \/ run[w.runId].pc = "queued" /\ run[w.runId].caller = w.caller
        \/ w.runId = w.caller /\ \E k \in OpenCalls(w.caller) : call[k].pc = "resuming"

\* A call that has given its caller's permit up, and not got it back.
Lent(k) == call[k].pc \in {"tasks", "resuming"} /\ call[k].suspended

LentAgree ==
    /\ \A k \in CallIds : call[k].pc = "resuming" => call[k].suspended
    /\ \A k \in CallIds : Lent(k) => call[k].caller \in Runs \ pool.activeRuns
    /\ \A j, k \in CallIds :
          Lent(j) /\ Lent(k) /\ call[j].caller = call[k].caller => j = k

AttemptsAgree ==
    \A r \in Runs :
        /\ run[r].attempts <= limits.maxAttempts
        /\ run[r].pc \in {"queued", "admitted", "building"} => run[r].attempts = 0

QueueInv ==
    /\ limits \in Policies /\ exhausted \in BOOLEAN
    /\ GoodPool(pool, limits.maxParallel)
    /\ HoldersLive /\ WaitersAgree /\ LentAgree /\ AttemptsAgree

LEMMA QueueInvInit == SupervisorInit => QueueInv
<1> SUFFICES ASSUME SupervisorInit PROVE QueueInv
  OBVIOUS
<1>1. /\ \A r \in Runs : run[r] = Unused
      /\ \A k \in CallIds : call[k] = Unmade
      /\ limits \in Policies /\ limits \in PolicyShape /\ exhausted = FALSE
      /\ pool = [activeRuns |-> {}, waiters |-> <<>>]
  BY SupervisorAssumption DEF SupervisorInit, NewPool
<1>2. Elems(<<>>) = {} /\ <<>> \in Seq(Waiters) /\ DOMAIN <<>> = {}
  BY DEF Elems
<1>3. GoodPool(pool, limits.maxParallel)
  BY <1>1, <1>2, FS_EmptySet DEF GoodPool, Pools, PolicyShape
<1>4. HoldersLive /\ WaitersAgree
  BY <1>1, <1>2 DEF HoldersLive, WaitersAgree
<1>5. LentAgree /\ AttemptsAgree
  BY <1>1 DEF LentAgree, Lent, AttemptsAgree, Unmade, Unused, PolicyShape
<1> QED
  BY <1>1, <1>3, <1>4, <1>5 DEF QueueInv

\* What Start and Resume make of a run and of a call.
LEMMA StartIs ==
    ASSUME NEW runs \in [Runs -> RunShape], NEW p, NEW q, NEW r \in Runs
    PROVE  /\ Start(runs, p, q)[r].attempts = runs[r].attempts
           /\ Start(runs, p, q)[r].caller = runs[r].caller
           /\ IF runs[r].pc = "queued" /\ r \in q.activeRuns \ p.activeRuns
              THEN Start(runs, p, q)[r].pc = "admitted"
              ELSE Start(runs, p, q)[r] = runs[r]
BY DEF Start, RunShape

LEMMA ResumeIs ==
    ASSUME NEW calls \in [CallIds -> CallShape], NEW p, NEW q, NEW k \in CallIds
    PROVE  IF calls[k].pc = "resuming" /\ calls[k].caller \in q.activeRuns \ p.activeRuns
           THEN Resume(calls, p, q)[k].pc = "back"
           ELSE Resume(calls, p, q)[k] = calls[k]
BY DEF Resume, Back, Unmade

LEMMA WaitersTyped ==
    ASSUME NEW p, NEW max, GoodPool(p, max), NEW w \in Elems(p.waiters)
    PROVE  w \in Waiters /\ w.runId \in Runs /\ w.caller \in Callers
<1>1. p.waiters \in Seq(Waiters)
  BY DEF GoodPool, Pools
<1>2. w \in Waiters
  BY <1>1 DEF Elems
<1> QED
  BY <1>2 DEF Waiters

\* Run r moves on and keeps what it holds.
Continues(r) ==
    /\ UNCHANGED <<limits, pool, exhausted, call>>
    /\ \A s \in Runs \ {r} : run'[s] = run[s]
    /\ run[r].pc \in Works /\ run'[r].pc \in Works
    /\ run'[r].attempts <= limits.maxAttempts
    /\ run'[r].pc \in {"admitted", "building"} => run'[r].attempts = 0

LEMMA ContinuesKeepsQueue ==
    ASSUME QueueInv, NEW r \in Runs, Continues(r)
    PROVE  QueueInv'
<1>1. /\ GoodPool(pool, limits.maxParallel) /\ pool.activeRuns \subseteq Runs
      /\ HoldersLive /\ WaitersAgree /\ LentAgree /\ AttemptsAgree
  BY DEF QueueInv, GoodPool, Pools
<1>2. HoldersLive'
  BY <1>1 DEF HoldersLive, Continues
<1>3. WaitersAgree'
  <2>1. ASSUME NEW w \in Elems(pool.waiters)
        PROVE  \/ run'[w.runId].pc = "queued" /\ run'[w.runId].caller = w.caller
               \/ w.runId = w.caller /\ \E k \in OpenCalls(w.caller)' : call'[k].pc = "resuming"
    <3>1. w.runId \in Runs
      BY <1>1, WaitersTyped
    <3>2. CASE run[w.runId].pc = "queued" /\ run[w.runId].caller = w.caller
      BY <3>1, <3>2 DEF Continues, Works
    <3>3. CASE w.runId = w.caller /\ \E k \in OpenCalls(w.caller) : call[k].pc = "resuming"
      BY <3>3 DEF Continues, OpenCalls
    <3> QED
      BY <1>1, <3>2, <3>3 DEF WaitersAgree
  <2>2. pool' = pool
    BY DEF Continues
  <2> QED
    BY <2>1, <2>2 DEF WaitersAgree
<1>4. LentAgree'
  BY <1>1 DEF LentAgree, Lent, Continues
<1>5. AttemptsAgree'
  BY <1>1 DEF AttemptsAgree, Continues, Works
<1> QED
  BY <1>1, <1>2, <1>3, <1>4, <1>5 DEF QueueInv, Continues

\* Steps of one child that leave the pool alone.
LEMMA MoveKeepsQueue ==
    ASSUME SupervisorInv, QueueInv, NEW r \in Runs,
           \/ TakeController(r) \/ StartSession(r)
           \/ TurnEnds(r) \/ VerificationEnds(r)
    PROVE  QueueInv'
<1>1. /\ run \in [Runs -> RunShape]
      /\ limits.maxAttempts \in Nat \ {0}
      /\ run[r] \in RunShape /\ run[r].attempts \in Nat
      /\ AttemptsAgree
  BY DEF SupervisorInv, Shapes, QueueInv, PolicyShape, RunShape
<1>2. CASE TakeController(r)
  <2> DEFINE told == run[r].caller \in cut
             next == [run[r] EXCEPT !.pc = "building", !.aborted = told]
  <2>1. run' = [run EXCEPT ![r] = next]
    BY <1>1, <1>2 DEF TakeController, RunShape
  <2>2. next.pc = "building" /\ next.attempts = run[r].attempts
    <3> HIDE DEF told
    <3> QED
      BY <1>1 DEF RunShape
  <2>3. UNCHANGED <<limits, pool, spawned, exhausted, call>> /\ run[r].pc = "admitted"
    BY <1>2 DEF TakeController
  <2> HIDE DEF next
  <2>4. run'[r] = next /\ \A s \in Runs \ {r} : run'[s] = run[s]
    BY <1>1, <2>1
  <2>5. Continues(r)
    BY <1>1, <2>2, <2>3, <2>4 DEF Continues, Works, AttemptsAgree
  <2> QED
    BY <2>5, ContinuesKeepsQueue
<1>3. ASSUME NEW from, NEW interrupted, Prompt(r, from, interrupted),
             from \in Works, run[r].attempts < limits.maxAttempts
      PROVE  QueueInv'
  <2>1. Continues(r)
    BY <1>1, <1>3 DEF Prompt, Continues, Works, RunShape
  <2> QED
    BY <2>1, ContinuesKeepsQueue
<1>4. ASSUME NEW outcome, Terminal(r, outcome), run[r].pc \in Works
      PROVE  QueueInv'
  <2> DEFINE over == [run[r] EXCEPT !.pc = "closing", !.outcome = outcome,
                        !.attempts = 0, !.aborted = FALSE, !.timedOut = FALSE]
  <2>1. run' = [run EXCEPT ![r] = over]
    BY <1>1, <1>4 DEF Terminal, RunShape
  <2>2. over.pc = "closing" /\ over.attempts = 0
    BY <1>1 DEF RunShape
  <2>3. UNCHANGED <<limits, pool, spawned, exhausted, call>>
    BY <1>4 DEF Terminal
  <2> HIDE DEF over
  <2>4. run'[r] = over /\ \A s \in Runs \ {r} : run'[s] = run[s]
    BY <1>1, <2>1
  <2>5. Continues(r)
    BY <1>1, <1>4, <2>2, <2>3, <2>4 DEF Continues, Works
  <2> QED
    BY <2>5, ContinuesKeepsQueue
<1>5. ASSUME Goes(r, "verifying"), run[r].pc = "turn"
      PROVE  QueueInv'
  <2>1. Continues(r)
    BY <1>1, <1>5 DEF Goes, Continues, Works, RunShape, AttemptsAgree
  <2> QED
    BY <2>1, ContinuesKeepsQueue
<1>6. CASE StartSession(r)
  <2>1. PICK interrupted \in BOOLEAN : Prompt(r, "building", interrupted)
    BY <1>6 DEF StartSession
  <2>2. run[r].attempts < limits.maxAttempts
    BY <1>1, <2>1 DEF Prompt, AttemptsAgree
  <2> QED
    BY <1>3, <2>1, <2>2 DEF Works
<1>7. CASE TurnEnds(r)
  BY <1>4, <1>5, <1>7 DEF TurnEnds, Works
<1>8. CASE VerificationEnds(r)
  BY <1>3, <1>4, <1>8 DEF VerificationEnds, Works
<1> QED
  BY <1>2, <1>6, <1>7, <1>8

-----------------------------------------------------------------------------
(* A permit that is given back. *)

\* The pool after a release: who has been admitted waited before, either as a
\* child or for a call that resumes now.
LEMMA ReleaseServes ==
    ASSUME SupervisorInv, QueueInv, NEW r \in Callers, NEW q,
           q = releaseConcurrency(pool, r, limits.maxParallel)
    PROVE  /\ GoodPool(q, limits.maxParallel)
           /\ r \notin q.activeRuns /\ q.activeRuns \subseteq Runs
           /\ \A s \in q.activeRuns \ pool.activeRuns : run[s].pc \in {"queued", "turn"}
           /\ \A w \in Elems(q.waiters) :
                 w \in Elems(pool.waiters) /\ w.runId \notin q.activeRuns
           /\ \A k \in CallIds :
                 Lent(k) => \/ call[k].caller \notin q.activeRuns
                            \/ /\ call[k].pc = "resuming"
                               /\ call[k].caller \in q.activeRuns \ pool.activeRuns
<1>1. /\ limits.maxParallel \in Nat /\ GoodPool(pool, limits.maxParallel)
      /\ Lineage /\ WaitersAgree /\ LentAgree
      /\ call \in [CallIds -> CallShape]
  BY DEF SupervisorInv, Shapes, QueueInv, PolicyShape
<1>2. /\ GoodPool(q, limits.maxParallel) /\ r \notin q.activeRuns
      /\ q.activeRuns \subseteq pool.activeRuns \union {w.runId : w \in Elems(pool.waiters)}
      /\ Elems(q.waiters) \subseteq Elems(pool.waiters)
  BY <1>1, ReleaseGives
<1>3. /\ q.activeRuns \subseteq Runs
      /\ \A w \in Elems(q.waiters) : w.runId \notin q.activeRuns
  BY <1>2 DEF GoodPool, Pools, Elems
<1>4. ASSUME NEW w \in Elems(pool.waiters)
      PROVE  /\ w.runId \in Runs
             /\ \/ run[w.runId].pc = "queued"
                \/ /\ run[w.runId].pc = "turn"
                   /\ \E k \in CallIds : call[k].pc = "resuming" /\ call[k].caller = w.runId
  <2>1. w.runId \in Runs
    BY <1>1, WaitersTyped
  <2>2. CASE w.runId = w.caller /\ \E k \in OpenCalls(w.caller) : call[k].pc = "resuming"
    BY <1>1, <2>1, <2>2 DEF OpenCalls, Lineage, InTurn
  <2> QED
    BY <1>1, <2>1, <2>2 DEF WaitersAgree
<1>5. ASSUME NEW k \in CallIds, Lent(k), call[k].caller \in q.activeRuns
      PROVE  call[k].pc = "resuming" /\ call[k].caller \in q.activeRuns \ pool.activeRuns
  <2>1. call[k].caller \in Runs \ pool.activeRuns
    BY <1>1, <1>5 DEF LentAgree
  <2>2. PICK w \in Elems(pool.waiters) : w.runId = call[k].caller
    BY <1>2, <1>5, <2>1
  <2>3. run[w.runId].pc = "turn"
    BY <1>1, <1>5, <2>1, <2>2 DEF Lineage, InTurn, Lent
  <2>4. PICK j \in CallIds : call[j].pc = "resuming" /\ call[j].caller = w.runId
    BY <1>4, <2>3
  <2>5. j = k
    BY <1>1, <1>5, <2>2, <2>4 DEF LentAgree, Lent
  <2> QED
    BY <1>5, <2>1, <2>4, <2>5
<1> QED
  BY <1>2, <1>3, <1>4, <1>5

LEMMA LeaveKeepsQueue ==
    ASSUME SupervisorInv, QueueInv, NEW r \in Runs, NEW spent \in BOOLEAN,
           run[r].pc \in {"building", "closing"}, Leave(r, spent)
    PROVE  QueueInv'
<1> DEFINE gone == [run EXCEPT ![r] = Ended]
<1>1. /\ run \in [Runs -> RunShape] /\ call \in [CallIds -> CallShape]
      /\ Lineage /\ HoldersLive /\ WaitersAgree /\ LentAgree /\ AttemptsAgree
      /\ GoodPool(pool, limits.maxParallel)
      /\ limits \in Policies /\ exhausted \in BOOLEAN /\ limits.maxAttempts \in Nat
  BY DEF SupervisorInv, Shapes, QueueInv, PolicyShape
<1>3. /\ Ended \in RunShape /\ Ended.pc = "ended" /\ Ended.attempts = 0
  BY DEF Ended, Unused, RunShape, Pcs, Outcomes, Callers
<1>4. /\ gone \in [Runs -> RunShape] /\ gone[r] = Ended
      /\ \A s \in Runs \ {r} : gone[s] = run[s]
  BY <1>1, <1>3
<1>5. /\ pool' = releaseConcurrency(pool, r, limits.maxParallel)
      /\ run' = Start(gone, pool, pool')
      /\ call' = Resume(call, pool, pool')
      /\ exhausted' \in BOOLEAN /\ limits' = limits
  BY <1>1 DEF Leave
<1> HIDE DEF gone
<1>6. /\ GoodPool(pool', limits.maxParallel)
      /\ r \notin pool'.activeRuns /\ pool'.activeRuns \subseteq Runs
      /\ \A s \in pool'.activeRuns \ pool.activeRuns : run[s].pc \in {"queued", "turn"}
      /\ \A w \in Elems(pool'.waiters) :
            w \in Elems(pool.waiters) /\ w.runId \notin pool'.activeRuns
      /\ \A k \in CallIds :
            Lent(k) => \/ call[k].caller \notin pool'.activeRuns
                       \/ /\ call[k].pc = "resuming"
                          /\ call[k].caller \in pool'.activeRuns \ pool.activeRuns
  BY <1>5, ReleaseServes DEF Callers
<1>7. ASSUME NEW s \in Runs, s # r
      PROVE  /\ run'[s].attempts = run[s].attempts /\ run'[s].caller = run[s].caller
             /\ IF run[s].pc = "queued" /\ s \in pool'.activeRuns \ pool.activeRuns
                THEN run'[s].pc = "admitted"
                ELSE run'[s] = run[s]
  BY <1>4, <1>5, <1>7, StartIs
<1>8. run'[r] = Ended
  BY <1>3, <1>4, <1>5, StartIs
<1>9. ASSUME NEW k \in CallIds
      PROVE  IF call[k].pc = "resuming" /\ call[k].caller \in pool'.activeRuns \ pool.activeRuns
             THEN call'[k].pc = "back"
             ELSE call'[k] = call[k]
  BY <1>1, <1>5, ResumeIs
<1>10. HoldersLive'
  BY <1>1, <1>6, <1>7 DEF HoldersLive, Works
<1>11. WaitersAgree'
  <2>1. ASSUME NEW w \in Elems(pool'.waiters)
        PROVE  \/ run'[w.runId].pc = "queued" /\ run'[w.runId].caller = w.caller
               \/ w.runId = w.caller /\ \E k \in OpenCalls(w.caller)' : call'[k].pc = "resuming"
    <3>1. w \in Elems(pool.waiters) /\ w.runId \in Runs /\ w.runId \notin pool'.activeRuns
      BY <1>1, <1>6, WaitersTyped
    <3>2. CASE run[w.runId].pc = "queued" /\ run[w.runId].caller = w.caller
      BY <1>7, <3>1, <3>2
    <3>3. CASE w.runId = w.caller /\ \E k \in OpenCalls(w.caller) : call[k].pc = "resuming"
      BY <1>9, <3>1, <3>3 DEF OpenCalls
    <3> QED
      BY <1>1, <3>1, <3>2, <3>3 DEF WaitersAgree
  <2> QED
    BY <2>1 DEF WaitersAgree
<1>12. LentAgree'
  <2>1. ASSUME NEW k \in CallIds, call'[k].pc \in {"tasks", "resuming"}
        PROVE  call'[k] = call[k]
    BY <1>9, <2>1
  <2>2. ASSUME NEW k \in CallIds, Lent(k)'
        PROVE  Lent(k) /\ call'[k].caller \in Runs \ pool'.activeRuns
    BY <1>1, <1>6, <1>9, <2>1, <2>2 DEF LentAgree, Lent
  <2> QED
    BY <1>1, <2>1, <2>2 DEF LentAgree, Lent
<1>13. AttemptsAgree'
  <2>1. ASSUME NEW s \in Runs
        PROVE  /\ run'[s].attempts <= limits'.maxAttempts
               /\ run'[s].pc \in {"queued", "admitted", "building"} => run'[s].attempts = 0
    BY <1>1, <1>3, <1>5, <1>7, <1>8 DEF AttemptsAgree
  <2> QED
    BY <2>1 DEF AttemptsAgree
<1> QED
  BY <1>1, <1>5, <1>6, <1>10, <1>11, <1>12, <1>13 DEF QueueInv

LEMMA FinishKeepsQueue ==
    ASSUME SupervisorInv, QueueInv, NEW k \in CallIds, FinishTasks(k)
    PROVE  QueueInv'
<1> DEFINE p == call[k].caller
           parent == [runId |-> p, caller |-> p]
           taken == acquireConcurrency(pool, parent, limits.maxParallel)
<1>1. /\ call \in [CallIds -> CallShape] /\ limits.maxParallel \in Nat
      /\ Lineage /\ HoldersLive /\ WaitersAgree /\ LentAgree /\ AttemptsAgree
      /\ GoodPool(pool, limits.maxParallel)
      /\ limits \in Policies /\ exhausted \in BOOLEAN
  BY DEF SupervisorInv, Shapes, QueueInv, PolicyShape
<1>2. /\ call[k].pc = "tasks"
      /\ UNCHANGED <<limits, spawned, exhausted, run, cut>>
  BY DEF FinishTasks
<1>3. Back.pc = "back"
  BY DEF Back, Unmade
<1>4. AttemptsAgree'
  BY <1>1, <1>2 DEF AttemptsAgree
\* The call returns without the permit: it had none, or its turn was aborted.
<1>5. CASE call' = [call EXCEPT ![k] = Back] /\ pool' = pool
  <2>1. /\ call'[k].pc = "back" /\ \A j \in CallIds \ {k} : call'[j] = call[j]
    BY <1>1, <1>3, <1>5
  <2>2. HoldersLive'
    BY <1>1, <1>2, <1>5 DEF HoldersLive
  <2>3. WaitersAgree'
    <3>1. ASSUME NEW w \in Elems(pool.waiters)
          PROVE  \/ run'[w.runId].pc = "queued" /\ run'[w.runId].caller = w.caller
                 \/ w.runId = w.caller /\ \E j \in OpenCalls(w.caller)' : call'[j].pc = "resuming"
      BY <1>1, <1>2, <2>1 DEF WaitersAgree, OpenCalls
    <3> QED
      BY <1>5, <3>1 DEF WaitersAgree
  <2>4. LentAgree'
    BY <1>1, <1>5, <2>1 DEF LentAgree, Lent
  <2> QED
    BY <1>1, <1>2, <1>4, <1>5, <2>2, <2>3, <2>4 DEF QueueInv
\* It takes the permit back, or waits for it.
<1>6. CASE /\ call[k].suspended /\ pool' = taken
           /\ call' = IF p \in taken.activeRuns
                      THEN [call EXCEPT ![k] = Back]
                      ELSE [call EXCEPT ![k].pc = "resuming"]
  <2>1. p \in Runs \ pool.activeRuns /\ run[p].pc = "turn"
    BY <1>1, <1>2, <1>6 DEF LentAgree, Lent, Lineage, InTurn
  <2>2. \A j \in CallIds : Lent(j) /\ call[j].caller = p => j = k
    BY <1>1, <1>2, <1>6 DEF LentAgree, Lent
  <2>3. \A w \in Elems(pool.waiters) : w.runId # p
    BY <1>1, <1>2, <2>1, <2>2 DEF WaitersAgree, OpenCalls, LentAgree, Lent
  <2>4. parent \in Waiters /\ parent.runId = p /\ parent.caller = p
    BY <2>1 DEF Waiters, Callers
  <2> HIDE DEF p, parent, taken
  <2>5. /\ GoodPool(taken, limits.maxParallel)
        /\ \/ /\ taken.activeRuns = pool.activeRuns \union {p}
              /\ taken.waiters = pool.waiters
           \/ /\ taken.activeRuns = pool.activeRuns
              /\ Elems(taken.waiters) = Elems(pool.waiters) \union {parent}
    <3>1. parent.runId \notin pool.activeRuns /\ parent \in Waiters
      BY <2>1, <2>4
    <3>2. \A w \in Elems(pool.waiters) : w.runId # parent.runId
      BY <2>3, <2>4
    <3>3. GoodPool(pool, limits.maxParallel) /\ limits.maxParallel \in Nat
      BY <1>1
    <3>4. GoodPool(taken, limits.maxParallel)
          /\ (Granted(pool, taken, parent) \/ Deferred(pool, taken, parent))
      BY <3>1, <3>2, <3>3, AcquireGives DEF taken
    <3> QED
      BY <2>4, <3>4 DEF Granted, Deferred
  <2>6. /\ \A j \in CallIds \ {k} : call'[j] = call[j]
        /\ p \in taken.activeRuns => call'[k].pc = "back"
        /\ p \notin taken.activeRuns =>
              call'[k].pc = "resuming" /\ call'[k].caller = p /\ call'[k].suspended
    BY <1>1, <1>3, <1>6 DEF CallShape, p
  <2>7. HoldersLive'
    BY <1>1, <1>2, <1>6, <2>1, <2>5 DEF HoldersLive, Works
  <2>8. WaitersAgree'
    <3>1. ASSUME NEW w \in Elems(taken.waiters)
          PROVE  \/ run'[w.runId].pc = "queued" /\ run'[w.runId].caller = w.caller
                 \/ w.runId = w.caller /\ \E j \in OpenCalls(w.caller)' : call'[j].pc = "resuming"
      <4>1. CASE w \in Elems(pool.waiters)
        BY <1>1, <1>2, <2>6, <4>1 DEF WaitersAgree, OpenCalls
      <4>2. CASE w = parent /\ p \notin taken.activeRuns
        BY <2>4, <2>6, <4>2 DEF OpenCalls
      <4> QED
        BY <2>1, <2>5, <4>1, <4>2
    <3> QED
      BY <1>6, <3>1 DEF WaitersAgree
  <2>9. LentAgree'
    <3>1. ASSUME NEW j \in CallIds, Lent(j)'
          PROVE  /\ Lent(j) /\ call'[j].caller = call[j].caller
                 /\ call'[j].caller \in Runs \ pool'.activeRuns
      <4>1. CASE j # k
        <5>1. Lent(j) /\ call'[j] = call[j] /\ call[j].caller # p
          BY <2>2, <2>6, <3>1, <4>1 DEF Lent
        <5> QED
          BY <1>1, <1>6, <2>5, <5>1 DEF LentAgree
      <4>2. CASE j = k
        <5>1. p \notin taken.activeRuns
          BY <2>6, <3>1, <4>2 DEF Lent
        <5> QED
          BY <1>2, <1>6, <2>1, <2>6, <4>2, <5>1 DEF Lent, p
      <4> QED
        BY <4>1, <4>2
    <3>2. \A j \in CallIds : call'[j].pc = "resuming" => call'[j].suspended
      BY <1>1, <2>6 DEF LentAgree
    <3> QED
      BY <1>1, <3>1, <3>2 DEF LentAgree
  <2> QED
    BY <1>1, <1>2, <1>4, <1>6, <2>5, <2>7, <2>8, <2>9 DEF QueueInv
<1> QED
  BY <1>5, <1>6 DEF FinishTasks

LEMMA AbortKeepsQueue ==
    ASSUME SupervisorInv, QueueInv, NEW sessions, NEW fired, NEW timedOut,
           AbortSessions(sessions, fired, timedOut)
    PROVE  QueueInv'
<1> DEFINE reached == Reached(sessions) \union fired
           nowCut  == {p \in reached \union sessions : InTurn(p)}
           Refused(r) == run[r].pc = "queued" /\ run[r].caller \in nowCut
<1>1. /\ run \in [Runs -> RunShape] /\ call \in [CallIds -> CallShape]
      /\ limits.maxParallel \in Nat /\ limits.maxAttempts \in Nat
      /\ HoldersLive /\ WaitersAgree /\ LentAgree /\ AttemptsAgree
      /\ GoodPool(pool, limits.maxParallel)
      /\ limits \in Policies /\ exhausted \in BOOLEAN
  BY DEF SupervisorInv, Shapes, QueueInv, PolicyShape
<1>2. /\ pool' = abortWaiters(pool, nowCut)
      /\ run' = [r \in Runs |->
                    IF Refused(r)
                    THEN Ended
                    ELSE [run[r] EXCEPT !.aborted = @ \/ r \in reached,
                                        !.timedOut = @ \/ r \in timedOut]]
      /\ call' = [k \in CallIds |->
                     IF call[k].pc = "resuming" /\ call[k].caller \in nowCut
                     THEN Back ELSE call[k]]
      /\ UNCHANGED <<limits, exhausted>>
  BY DEF AbortSessions
<1> HIDE DEF nowCut, reached
<1>3. /\ GoodPool(pool', limits.maxParallel)
      /\ pool'.activeRuns = pool.activeRuns
      /\ \A w \in Elems(pool'.waiters) : w \in Elems(pool.waiters) /\ w.caller \notin nowCut
  <2>1. pool' = abortWaiters(pool, nowCut)
    BY <1>2
  <2>2. GoodPool(pool, limits.maxParallel) /\ limits.maxParallel \in Nat
    BY <1>1
  <2> QED
    BY <2>1, <2>2, AbortLeaves
<1>4. ASSUME NEW r \in Runs
      PROVE  IF Refused(r)
             THEN run'[r].pc = "ended" /\ run'[r].attempts = 0
             ELSE /\ run'[r].pc = run[r].pc /\ run'[r].caller = run[r].caller
                  /\ run'[r].attempts = run[r].attempts
  <2>1. CASE Refused(r)
    BY <1>2, <2>1 DEF Ended, Unused
  <2>2. CASE ~Refused(r)
    <3> DEFINE next == [run[r] EXCEPT !.aborted = @ \/ r \in reached,
                                      !.timedOut = @ \/ r \in timedOut]
    <3>1. run'[r] = next
      BY <1>2, <2>2
    <3>2. /\ next.pc = run[r].pc /\ next.caller = run[r].caller
          /\ next.attempts = run[r].attempts
      BY <1>1 DEF RunShape
    <3> HIDE DEF next
    <3> QED
      BY <2>2, <3>1, <3>2
  <2> QED
    BY <2>1, <2>2
<1>5. ASSUME NEW k \in CallIds
      PROVE  IF call[k].pc = "resuming" /\ call[k].caller \in nowCut
             THEN call'[k].pc = "back"
             ELSE call'[k] = call[k]
  BY <1>2 DEF Back, Unmade
<1>6. HoldersLive'
  <2>1. pool.activeRuns \subseteq Runs
    BY <1>1 DEF GoodPool, Pools
  <2> QED
    BY <1>1, <1>3, <1>4, <2>1 DEF HoldersLive, Works
<1>7. WaitersAgree'
  <2>1. ASSUME NEW w \in Elems(pool'.waiters)
        PROVE  \/ run'[w.runId].pc = "queued" /\ run'[w.runId].caller = w.caller
               \/ w.runId = w.caller /\ \E k \in OpenCalls(w.caller)' : call'[k].pc = "resuming"
    <3>1. w \in Elems(pool.waiters) /\ w.caller \notin nowCut /\ w.runId \in Runs
      BY <1>1, <1>3, WaitersTyped
    <3>2. CASE run[w.runId].pc = "queued" /\ run[w.runId].caller = w.caller
      BY <1>4, <3>1, <3>2
    <3>3. CASE w.runId = w.caller /\ \E k \in OpenCalls(w.caller) : call[k].pc = "resuming"
      BY <1>5, <3>1, <3>3 DEF OpenCalls
    <3> QED
      BY <1>1, <3>1, <3>2, <3>3 DEF WaitersAgree
  <2> QED
    BY <2>1 DEF WaitersAgree
<1>8. LentAgree'
  <2>1. ASSUME NEW k \in CallIds, call'[k].pc \in {"tasks", "resuming"}
        PROVE  call'[k] = call[k]
    BY <1>5, <2>1
  <2> QED
    BY <1>1, <1>3, <2>1 DEF LentAgree, Lent
<1>9. AttemptsAgree'
  <2>1. ASSUME NEW r \in Runs
        PROVE  /\ run'[r].attempts <= limits'.maxAttempts
               /\ run'[r].pc \in {"queued", "admitted", "building"} => run'[r].attempts = 0
    BY <1>1, <1>2, <1>4 DEF AttemptsAgree
  <2> QED
    BY <2>1 DEF AttemptsAgree
<1> QED
  BY <1>1, <1>2, <1>3, <1>6, <1>7, <1>8, <1>9 DEF QueueInv

LEMMA DelegateKeepsQueue ==
    ASSUME SupervisorInv, QueueInv, NEW p \in Callers, NEW k \in CallIds,
           NEW tasks \in 1 .. MaxTasks, Delegate(p, k, tasks)
    PROVE  QueueInv'
<1> DEFINE given == Suspended(p)
           last  == spawned + Reserved(p, tasks)
           new   == spawned + 1 .. last
           after == acquireInOrder(given, p, spawned + 1, last, limits.maxParallel)
           Pc(r) == IF r \in after.activeRuns THEN "admitted" ELSE "queued"
           Task(r) == [Unused EXCEPT
                          !.pc = IF r \in after.activeRuns THEN "admitted" ELSE "queued",
                          !.caller = p, !.callId = k, !.above = AboveOf(p)]
           runs == [r \in Runs |-> IF r \in new THEN Task(r) ELSE run[r]]
           made == [pc |-> "tasks", caller |-> p, suspended |-> p \in pool.activeRuns]
<1>1. /\ run \in [Runs -> RunShape] /\ call \in [CallIds -> CallShape]
      /\ limits \in PolicyShape /\ spawned \in 0 .. limits.maxTotalChildren
      /\ limits.maxParallel \in Nat /\ limits.maxAttempts \in Nat
      /\ Lineage /\ HoldersLive /\ WaitersAgree /\ LentAgree /\ AttemptsAgree
      /\ GoodPool(pool, limits.maxParallel) /\ pool.activeRuns \subseteq Runs
      /\ limits \in Policies /\ exhausted \in BOOLEAN
  BY DEF SupervisorInv, Shapes, QueueInv, PolicyShape, GoodPool, Pools
<1>2. /\ InTurn(p) /\ call[k].pc = "unmade"
      /\ pool' = after /\ run' = Start(runs, pool, given)
      /\ call' = [Resume(call, pool, given) EXCEPT ![k] = made]
      /\ UNCHANGED <<limits, exhausted, cut>>
  BY DEF Delegate
<1>3. last \in spawned .. limits.maxTotalChildren /\ limits.maxTotalChildren \in 1 .. MaxChildren
  BY <1>1, SupervisorAssumption, LimitsAssumption DEF Reserved, LesserOf, PolicyShape
<1>4. /\ new \subseteq Runs /\ \A r \in new : run[r].pc = "unused"
      /\ spawned + 1 \in Nat \ {0} /\ last \in Nat /\ spawned + 1 <= last + 1
  BY <1>1, <1>3, LimitsAssumption DEF Runs, Lineage
<1>5. /\ GoodPool(given, limits.maxParallel)
      /\ p \notin given.activeRuns /\ given.activeRuns \subseteq Runs
      /\ \A s \in given.activeRuns \ pool.activeRuns : run[s].pc \in {"queued", "turn"}
      /\ \A w \in Elems(given.waiters) :
            w \in Elems(pool.waiters) /\ w.runId \notin given.activeRuns
      /\ \A j \in CallIds :
            Lent(j) => \/ call[j].caller \notin given.activeRuns
                       \/ /\ call[j].pc = "resuming"
                          /\ call[j].caller \in given.activeRuns \ pool.activeRuns
  BY ReleaseServes DEF Suspended
<1> HIDE DEF given, last
\* A waiter is not one of the new runs.
<1>6. ASSUME NEW w \in Elems(pool.waiters)
      PROVE  w.runId \in Runs /\ w.runId \notin new
  <2>1. w.runId \in Runs
    BY <1>1, WaitersTyped
  <2>2. run[w.runId].pc # "unused"
    BY <1>1, <2>1 DEF WaitersAgree, OpenCalls, Lineage, InTurn
  <2> QED
    BY <1>4, <2>1, <2>2
<1>7. \A r \in new : /\ r \notin given.activeRuns
                     /\ \A w \in Elems(given.waiters) : w.runId # r
  BY <1>1, <1>4, <1>5, <1>6 DEF HoldersLive, Works
<1>8. /\ GoodPool(after, limits.maxParallel)
      /\ given.activeRuns \subseteq after.activeRuns
      /\ after.activeRuns \subseteq given.activeRuns \union new
      /\ \A w \in Elems(after.waiters) :
            \/ w \in Elems(given.waiters)
            \/ w.runId \in new \ after.activeRuns /\ w.caller = p
  BY <1>1, <1>4, <1>5, <1>7, AcquireInOrderGives
<1> HIDE DEF after, new
<1>9. AboveOf(p) \in SUBSET Callers
  BY <1>1 DEF AboveOf, RunShape, Callers
<1>10. ASSUME NEW r \in Runs
       PROVE  /\ runs[r] \in RunShape
              /\ r \notin new => runs[r] = run[r]
              /\ r \in new => /\ runs[r].pc = Pc(r) /\ runs[r].caller = p
                              /\ runs[r].attempts = 0
  <2>1. CASE r \notin new
    BY <1>1, <2>1
  <2>2. CASE r \in new
    <3>1. runs[r] = Task(r)
      BY <2>2
    <3>2. Task(r) = NewTask(Pc(r), p, k, AboveOf(p))
      BY DEF NewTask
    <3>3. Pc(r) \in {"queued", "admitted"}
      OBVIOUS
    <3> HIDE DEF runs, Pc, Task
    <3>4. /\ NewTask(Pc(r), p, k, AboveOf(p)) \in RunShape
          /\ NewTask(Pc(r), p, k, AboveOf(p)).pc = Pc(r)
          /\ NewTask(Pc(r), p, k, AboveOf(p)).caller = p
          /\ NewTask(Pc(r), p, k, AboveOf(p)).attempts = 0
      BY <1>9, <3>3, TaskFields
    <3> QED
      BY <2>2, <3>1, <3>2, <3>4
  <2> QED
    BY <2>1, <2>2
<1>11. runs \in [Runs -> RunShape]
  BY <1>10
<1> HIDE DEF runs, Task
<1>12. ASSUME NEW r \in Runs
       PROVE  /\ run'[r].attempts = runs[r].attempts /\ run'[r].caller = runs[r].caller
              /\ IF runs[r].pc = "queued" /\ r \in given.activeRuns \ pool.activeRuns
                 THEN run'[r].pc = "admitted"
                 ELSE run'[r] = runs[r]
  BY <1>2, <1>11, StartIs
<1>13. ASSUME NEW j \in CallIds
       PROVE  /\ j = k => call'[j] = made
              /\ j # k =>
                    IF call[j].pc = "resuming" /\ call[j].caller \in given.activeRuns \ pool.activeRuns
                    THEN call'[j].pc = "back"
                    ELSE call'[j] = call[j]
  <2>1. Resume(call, pool, given) \in [CallIds -> CallShape]
    BY <1>1, ResumeKeeps
  <2>2. /\ call'[k] = made
        /\ j # k => call'[j] = Resume(call, pool, given)[j]
    <3> HIDE DEF made
    <3> QED
      BY <1>2, <2>1
  <2> HIDE DEF made
  <2> QED
    BY <1>1, <2>2, ResumeIs
<1>14. HoldersLive'
  <2>1. ASSUME NEW s \in after.activeRuns PROVE run'[s].pc \in Works
    <3>1. CASE s \in new
      <4>1. s \in Runs /\ s \notin given.activeRuns /\ runs[s].pc = "admitted"
        BY <1>4, <1>7, <1>10, <2>1, <3>1
      <4> QED
        BY <1>12, <4>1 DEF Works
    <3>2. CASE s \notin new
      <4>1. s \in given.activeRuns /\ s \in Runs /\ runs[s] = run[s]
        BY <1>5, <1>8, <1>10, <2>1, <3>2
      <4> QED
        BY <1>1, <1>5, <1>12, <4>1 DEF HoldersLive, Works
    <3> QED
      BY <3>1, <3>2
  <2> QED
    BY <1>2, <2>1 DEF HoldersLive
<1>15. WaitersAgree'
  <2>1. ASSUME NEW w \in Elems(after.waiters)
        PROVE  \/ run'[w.runId].pc = "queued" /\ run'[w.runId].caller = w.caller
               \/ w.runId = w.caller /\ \E j \in OpenCalls(w.caller)' : call'[j].pc = "resuming"
    <3>1. CASE w.runId \in new \ after.activeRuns /\ w.caller = p
      <4>1. w.runId \in Runs /\ runs[w.runId].pc = "queued" /\ runs[w.runId].caller = p
        BY <1>4, <1>10, <3>1
      <4> QED
        BY <1>7, <1>12, <3>1, <4>1
    <3>2. CASE w \in Elems(given.waiters)
      <4>1. w \in Elems(pool.waiters) /\ w.runId \notin given.activeRuns
        BY <1>5, <3>2
      <4>2. run'[w.runId] = run[w.runId]
        BY <1>6, <1>10, <1>12, <4>1
      <4>3. ASSUME w.runId = w.caller, NEW j \in OpenCalls(w.caller), call[j].pc = "resuming"
            PROVE  j \in OpenCalls(w.caller)' /\ call'[j].pc = "resuming"
        BY <1>2, <1>13, <4>1, <4>3 DEF OpenCalls
      <4> QED
        BY <1>1, <4>1, <4>2, <4>3 DEF WaitersAgree
    <3> QED
      BY <1>8, <2>1, <3>1, <3>2
  <2> QED
    BY <1>2, <2>1 DEF WaitersAgree
<1>16. LentAgree'
  <2>1. ASSUME NEW j \in CallIds, j # k, call'[j].pc \in {"tasks", "resuming"}
        PROVE  call'[j] = call[j]
    BY <1>13, <2>1
  <2>2. /\ call'[k].pc = "tasks" /\ call'[k].caller = p
        /\ call'[k].suspended <=> p \in pool.activeRuns
    <3>1. /\ made.pc = "tasks" /\ made.caller = p
          /\ made.suspended = (p \in pool.activeRuns)
      OBVIOUS
    <3> HIDE DEF made
    <3> QED
      BY <1>13, <3>1
  <2>3. ASSUME NEW j \in CallIds, j # k, Lent(j)'
        PROVE  Lent(j) /\ call[j].caller \in Runs \ pool'.activeRuns
    <3>1. Lent(j) /\ call'[j] = call[j]
      BY <2>1, <2>3 DEF Lent
    <3>2. call[j].caller \in Runs /\ call[j].caller \notin given.activeRuns
      BY <1>1, <1>5, <1>13, <2>3, <3>1 DEF LentAgree, Lent
    <3>3. run[call[j].caller].pc = "turn"
      BY <1>1, <3>1, <3>2 DEF Lineage, InTurn, Lent
    <3> QED
      BY <1>2, <1>4, <1>8, <3>1, <3>2, <3>3
  <2>4. Lent(k)' => p \in pool.activeRuns /\ p \in Runs \ pool'.activeRuns
    BY <1>1, <1>2, <1>4, <1>5, <1>8, <2>2 DEF Lent, InTurn
  <2>5. ASSUME NEW j \in CallIds, Lent(j)'
        PROVE  call'[j].caller \in Runs \ pool'.activeRuns
    BY <2>1, <2>2, <2>3, <2>4, <2>5 DEF Lent
  <2>6. ASSUME NEW i \in CallIds, NEW j \in CallIds, Lent(i)', Lent(j)',
               call'[i].caller = call'[j].caller
        PROVE  i = j
    <3>1. CASE i # k /\ j # k
      BY <1>1, <2>1, <2>3, <2>6, <3>1 DEF LentAgree, Lent
    <3>2. ASSUME NEW n \in CallIds, n # k, Lent(n)', Lent(k)', call'[n].caller = p
          PROVE  FALSE
      <4>1. Lent(n) /\ call[n].caller = p
        BY <2>1, <2>3, <3>2 DEF Lent
      <4> QED
        BY <1>1, <2>4, <3>2, <4>1 DEF LentAgree
    <3> QED
      BY <2>2, <2>6, <3>1, <3>2
  <2>7. \A j \in CallIds : call'[j].pc = "resuming" => call'[j].suspended
    BY <1>1, <2>1, <2>2 DEF LentAgree
  <2> QED
    BY <2>5, <2>6, <2>7 DEF LentAgree
<1>17. AttemptsAgree'
  <2>1. ASSUME NEW r \in Runs
        PROVE  /\ run'[r].attempts <= limits'.maxAttempts
               /\ run'[r].pc \in {"queued", "admitted", "building"} => run'[r].attempts = 0
    <3>1. CASE r \in new
      BY <1>1, <1>2, <1>10, <1>12, <3>1
    <3>2. CASE r \notin new
      <4>1. runs[r] = run[r]
        BY <1>10, <3>2
      <4> QED
        BY <1>1, <1>2, <1>12, <4>1 DEF AttemptsAgree
    <3> QED
      BY <3>1, <3>2
  <2> QED
    BY <2>1 DEF AttemptsAgree
<1> QED
  BY <1>1, <1>2, <1>8, <1>14, <1>15, <1>16, <1>17 DEF QueueInv

LEMMA QueueInvStep == SupervisorInv /\ QueueInv /\ [SupervisorNext]_supervisorVars => QueueInv'
<1> SUFFICES ASSUME SupervisorInv, QueueInv, [SupervisorNext]_supervisorVars PROVE QueueInv'
  OBVIOUS
<1>1. CASE UNCHANGED supervisorVars \/ RootSpends
  <2>1. /\ UNCHANGED <<limits, pool, run, call>>
        /\ exhausted' \in BOOLEAN
    BY <1>1 DEF supervisorVars, RootSpends, QueueInv
  <2> QED
    BY <2>1 DEF QueueInv, HoldersLive, WaitersAgree, OpenCalls, LentAgree, Lent, AttemptsAgree
<1>2. ASSUME NEW p \in Callers, NEW k \in CallIds, NEW tasks \in 1 .. MaxTasks, Delegate(p, k, tasks)
      PROVE  QueueInv'
  BY <1>2, DelegateKeepsQueue
<1>3. ASSUME NEW k \in CallIds, FinishTasks(k) PROVE QueueInv'
  BY <1>3, FinishKeepsQueue
<1>4. ASSUME NEW r \in Runs, ChildNext(r) PROVE QueueInv'
  <2>1. CASE StartFails(r)
    BY <2>1, LeaveKeepsQueue DEF StartFails
  <2>2. CASE Close(r)
    BY <2>2, LeaveKeepsQueue DEF Close
  <2> QED
    BY <1>4, <2>1, <2>2, MoveKeepsQueue DEF ChildNext
<1>5. CASE AbortRoot \/ \E r \in Runs : StopChild(r) \/ TimerFires(r)
  BY <1>5, AbortKeepsQueue DEF AbortRoot, StopChild, TimerFires
<1> QED
  BY <1>1, <1>2, <1>3, <1>4, <1>5 DEF SupervisorNext

-----------------------------------------------------------------------------
(* The line: pools as PermitLine sees them.  The methods of the pool, one   *)
(* after the other, make one Pass; what follows says so in terms of places. *)

LineOf(w) == [i \in DOMAIN w |-> w[i].runId]

\* Out of a queue the first are served beside those who keep theirs: what
\* Pass makes of the holders and of the line.
Fits(kept, s, max) ==
    LET room == max - Cardinality(kept)
    IN  IF room < Len(s) THEN room ELSE Len(s)

Hands(kept, s, max, holders, line) ==
    /\ holders = kept \union {s[i] : i \in 1 .. Fits(kept, s, max)}
    /\ line = [i \in 1 .. Len(s) - Fits(kept, s, max) |-> s[Fits(kept, s, max) + i]]

LEMMA LineIs ==
    ASSUME NEW w \in Seq(Waiters)
    PROVE  /\ LineOf(w) \in Seq(Runs)
           /\ Len(LineOf(w)) = Len(w) /\ DOMAIN LineOf(w) = 1 .. Len(w)
           /\ \A i \in 1 .. Len(w) : LineOf(w)[i] = w[i].runId
<1>1. DOMAIN w = 1 .. Len(w) /\ Len(w) \in Nat /\ \A i \in 1 .. Len(w) : w[i] \in Waiters
  OBVIOUS
<1>2. LineOf(w) \in [1 .. Len(w) -> Runs]
  BY <1>1 DEF LineOf, Waiters
<1>3. \A i \in 1 .. Len(w) : LineOf(w)[i] = w[i].runId
  BY <1>1 DEF LineOf
<1> QED
  BY <1>1, <1>2, <1>3

\* Places of two sequences in a row.
LEMMA Behind ==
    ASSUME NEW s \in Seq(Runs), NEW u \in Seq(Runs)
    PROVE  /\ s \o u \in Seq(Runs) /\ Len(s \o u) = Len(s) + Len(u)
           /\ DOMAIN (s \o u) = 1 .. Len(s) + Len(u)
           /\ Len(s) \in Nat /\ Len(u) \in Nat
           /\ \A i \in 1 .. Len(s) : (s \o u)[i] = s[i]
           /\ \A i \in 1 .. Len(u) : (s \o u)[Len(s) + i] = u[i]
<1>1. /\ s \o u \in Seq(Runs) /\ Len(s \o u) = Len(s) + Len(u)
      /\ \A i \in 1 .. Len(s) + Len(u) :
            (s \o u)[i] = IF i <= Len(s) THEN s[i] ELSE u[i - Len(s)]
  BY ConcatProperties
<1> DEFINE m == Len(s)
           n == Len(u)
           x == s \o u
<1>2. m \in Nat /\ n \in Nat
  OBVIOUS
<1>3. DOMAIN x = 1 .. m + n
  BY <1>1
<1> HIDE DEF m, n, x
<1>4. \A i \in 1 .. m + n : x[i] = IF i <= m THEN s[i] ELSE u[i - m]
  BY <1>1 DEF m, n, x
<1>5. \A i \in 1 .. m : x[i] = s[i]
  BY <1>2, <1>4
<1>6. ASSUME NEW i \in 1 .. n PROVE x[m + i] = u[i]
  <2>1. ASSUME NEW j, j = m + i PROVE x[j] = u[i]
    <3>1. j \in 1 .. m + n /\ ~(j <= m) /\ j - m = i
      BY <1>2, <2>1
    <3> QED
      BY <1>4, <3>1
  <2> QED
    BY <2>1
<1> QED
  BY <1>1, <1>2, <1>3, <1>5, <1>6 DEF m, n, x

LEMMA DrainHands ==
    ASSUME NEW p \in Pools, NEW max \in Nat, Cardinality(p.activeRuns) <= max
    PROVE  LET q == drainConcurrencyQueue(p, max)
           IN  Hands(p.activeRuns, LineOf(p.waiters), max, q.activeRuns, LineOf(q.waiters))
<1> DEFINE w == p.waiters
           s == LineOf(w)
           n == LesserOf(Free(p, max), Len(w))
           q == drainConcurrencyQueue(p, max)
<1>1. w \in Seq(Waiters) /\ Len(w) \in Nat
  BY DEF Pools
<1>2. /\ n \in 0 .. Len(w)
      /\ q.activeRuns = p.activeRuns \union {w[i].runId : i \in 1 .. n}
      /\ q.waiters \in Seq(Waiters) /\ Len(q.waiters) = Len(w) - n
      /\ \A i \in 1 .. Len(w) - n : q.waiters[i] = w[n + i]
  BY DrainIs
<1> HIDE DEF q
<1>3. Len(s) = Len(w) /\ \A i \in 1 .. Len(w) : s[i] = w[i].runId
  BY <1>1, LineIs
<1> HIDE DEF s
<1>4. n = Fits(p.activeRuns, s, max)
  BY <1>3 DEF Fits, LesserOf, Free
<1> HIDE DEF n, w
<1>5. q.activeRuns = p.activeRuns \union {s[i] : i \in 1 .. n}
  <2>1. \A i \in 1 .. n : i \in 1 .. Len(w)
    BY <1>1, <1>2
  <2>2. {w[i].runId : i \in 1 .. n} = {s[i] : i \in 1 .. n}
    BY <1>3, <2>1
  <2> QED
    BY <1>2, <2>2
<1>6. \A i \in 1 .. Len(w) - n : q.waiters[i].runId = s[n + i]
  <2>1. \A i \in 1 .. Len(w) - n : n + i \in 1 .. Len(w)
    BY <1>1, <1>2
  <2> QED
    BY <1>2, <1>3, <2>1
<1>7. LineOf(q.waiters) = [i \in 1 .. Len(w) - n |-> s[n + i]]
  <2>1. DOMAIN q.waiters = 1 .. Len(w) - n
    BY <1>2
  <2> QED
    BY <1>6, <2>1 DEF LineOf
<1> QED
  BY <1>3, <1>4, <1>5, <1>7 DEF Hands, s, w, q

\* A pool that is GoodPool has nobody to serve.
LEMMA NothingToHand ==
    ASSUME NEW max \in Nat, NEW p, GoodPool(p, max)
    PROVE  Hands(p.activeRuns, LineOf(p.waiters), max, p.activeRuns, LineOf(p.waiters))
<1> DEFINE s == LineOf(p.waiters)
<1>1. /\ p.waiters \in Seq(Waiters) /\ Cardinality(p.activeRuns) \in Nat
      /\ Cardinality(p.activeRuns) <= max
      /\ p.waiters # <<>> => Cardinality(p.activeRuns) = max
  BY ActiveFinite DEF GoodPool, Pools
<1>2. s \in Seq(Runs) /\ Len(s) = Len(p.waiters)
  BY <1>1, LineIs
<1> HIDE DEF s
<1>3. Fits(p.activeRuns, s, max) = 0
  <2>1. CASE p.waiters = <<>>
    BY <1>1, <1>2, <2>1 DEF Fits
  <2>2. CASE p.waiters # <<>>
    <3>1. Len(s) > 0
      BY <1>1, <1>2, <2>2
    <3> QED
      BY <1>1, <2>2, <3>1 DEF Fits
  <2> QED
    BY <2>1, <2>2
<1>4. s = [i \in 1 .. Len(s) - 0 |-> s[0 + i]]
  <2>1. \A i \in 1 .. Len(s) : 0 + i = i
    OBVIOUS
  <2>2. Len(s) - 0 = Len(s) /\ DOMAIN s = 1 .. Len(s)
    BY <1>2
  <2>3. s = [i \in 1 .. Len(s) |-> s[i]]
    BY <1>2
  <2> QED
    BY <2>1, <2>2, <2>3
<1>5. p.activeRuns = p.activeRuns \union {s[i] : i \in 1 .. 0}
  OBVIOUS
<1> QED
  BY <1>3, <1>4, <1>5 DEF Hands, s

\* What a release hands on.
LEMMA ReleaseHands ==
    ASSUME NEW max \in Nat, NEW p, GoodPool(p, max), NEW r
    PROVE  LET q == releaseConcurrency(p, r, max)
           IN  Hands(p.activeRuns \ {r}, LineOf(p.waiters), max, q.activeRuns, LineOf(q.waiters))
<1> DEFINE less == [activeRuns |-> p.activeRuns \ {r}, waiters |-> p.waiters]
<1>1. /\ p \in Pools /\ p.activeRuns \subseteq Runs
      /\ p = [activeRuns |-> p.activeRuns, waiters |-> p.waiters]
      /\ IsFiniteSet(p.activeRuns) /\ Cardinality(p.activeRuns) \in Nat
      /\ Cardinality(p.activeRuns) <= max
  BY ActiveFinite DEF GoodPool, Pools
<1>2. CASE r \in p.activeRuns
  <2>1. releaseConcurrency(p, r, max) = drainConcurrencyQueue(less, max)
    BY <1>1, <1>2 DEF releaseConcurrency, Without
  <2>2. /\ less \in Pools
        /\ less.waiters = p.waiters /\ less.activeRuns = p.activeRuns \ {r}
    BY <1>1 DEF Pools
  <2>3. Cardinality(less.activeRuns) <= max
    <3>1. Cardinality(p.activeRuns \ {r}) = Cardinality(p.activeRuns) - 1
      BY <1>1, <1>2, FS_RemoveElement
    <3> QED
      BY <1>1, <2>2, <3>1
  <2> HIDE DEF less
  <2> QED
    BY <2>1, <2>2, <2>3, DrainHands
<1>3. CASE r \notin p.activeRuns
  <2>1. releaseConcurrency(p, r, max) = p /\ p.activeRuns \ {r} = p.activeRuns
    BY <1>3 DEF releaseConcurrency
  <2> QED
    BY <2>1, NothingToHand
<1> QED
  BY <1>2, <1>3

\* Serving a queue and then newcomers is serving the queue with them behind it.
LEMMA HandsInTurn ==
    ASSUME NEW kept \in SUBSET Runs, NEW s \in Seq(Runs), NEW u \in Seq(Runs),
           NEW max \in Nat, Cardinality(kept) <= max,
           NEW A \in SUBSET Runs, NEW t \in Seq(Runs), Hands(kept, s, max, A, t),
           Cardinality(A) = Cardinality(kept) + Fits(kept, s, max),
           NEW B, NEW v, Hands(A, t \o u, max, B, v)
    PROVE  Hands(kept, s \o u, max, B, v)
<1> DEFINE room == max - Cardinality(kept)
           n == Fits(kept, s, max)
           len == Len(s)
           more == Len(u)
           x == s \o u
           y == t \o u
           m == Fits(A, y, max)
<1>1. /\ Cardinality(kept) \in Nat /\ room \in Nat /\ len \in Nat /\ more \in Nat
      /\ n = IF room < len THEN room ELSE len
      /\ Cardinality(A) = Cardinality(kept) + n
  BY ActiveFinite DEF Fits
<1>2. /\ A = kept \union {s[i] : i \in 1 .. n}
      /\ t = [i \in 1 .. len - n |-> s[n + i]]
      /\ B = A \union {y[i] : i \in 1 .. m}
      /\ v = [i \in 1 .. Len(y) - m |-> y[m + i]]
  BY DEF Hands
<1>4. /\ x \in Seq(Runs) /\ Len(x) = len + more
      /\ \A i \in 1 .. len : x[i] = s[i]
      /\ \A i \in 1 .. more : x[len + i] = u[i]
  BY Behind
<1>0. /\ y \in Seq(Runs) /\ Len(y) = Len(t) + more
      /\ \A i \in 1 .. Len(t) : y[i] = t[i]
      /\ \A i \in 1 .. more : y[Len(t) + i] = u[i]
  BY Behind
<1> HIDE DEF n, len, more, x, y, m
<1>3. /\ n \in 0 .. len /\ Len(t) = len - n
      /\ Len(y) = len - n + more /\ Len(x) = len + more
  <2> HIDE DEF room
  <2>1. n \in 0 .. len
    <3>1. room \in Nat /\ len \in Nat /\ n = IF room < len THEN room ELSE len
      BY <1>1
    <3> QED
      BY <3>1
  <2>2. len - n \in Nat
    BY <1>1, <2>1
  <2>3. DOMAIN t = 1 .. len - n
    BY <1>2
  <2>4. Len(t) = len - n
    BY <2>2, <2>3
  <2> QED
    BY <1>0, <1>4, <2>1, <2>4
<1>5. /\ \A i \in 1 .. len - n : y[i] = t[i]
      /\ \A i \in 1 .. more : y[len - n + i] = u[i]
  BY <1>0, <1>3
<1>6. m = IF room - n < Len(y) THEN room - n ELSE Len(y)
  <2>1. max - Cardinality(A) = room - n
    BY <1>1
  <2> HIDE DEF room
  <2> QED
    BY <2>1 DEF Fits, m
<1> HIDE DEF room
\* Place i of what is left of both is place n + i of both.
<1>7. ASSUME NEW i \in 1 .. Len(y) PROVE y[i] = x[n + i]
  <2>1. CASE i \in 1 .. len - n
    <3>1. n + i \in 1 .. len
      BY <1>1, <1>3, <2>1
    <3> QED
      BY <1>2, <1>4, <1>5, <2>1, <3>1
  <2>2. CASE i \notin 1 .. len - n
    <3> DEFINE j == i - (len - n)
    <3>1. j \in 1 .. more /\ i = len - n + j /\ n + i = len + j
      <4>1. len \in Nat /\ more \in Nat /\ n \in 0 .. len /\ i \in 1 .. len - n + more
        BY <1>1, <1>3
      <4> QED
        BY <2>2, <4>1
    <3> HIDE DEF j
    <3>2. y[len - n + j] = u[j] /\ x[len + j] = u[j]
      BY <1>4, <1>5, <3>1
    <3> QED
      BY <3>1, <3>2
  <2> QED
    BY <2>1, <2>2
<1>8. /\ m \in 0 .. Len(y) /\ Len(y) \in Nat
      /\ n + m = IF room < len + more THEN room ELSE len + more
  <2>1. /\ room \in Nat /\ len \in Nat /\ more \in Nat /\ n \in 0 .. len
        /\ n = IF room < len THEN room ELSE len
        /\ Len(y) = len - n + more
    BY <1>1, <1>3
  <2> QED
    BY <1>6, <2>1
<1>9. n + m = Fits(kept, x, max)
  BY <1>4, <1>8 DEF Fits, room
<1>10. B = kept \union {x[i] : i \in 1 .. n + m}
  <2>1. \A i \in 1 .. n : s[i] = x[i]
    BY <1>1, <1>3, <1>4
  <2>2. ASSUME NEW i \in 1 .. m PROVE y[i] = x[n + i] /\ n + i \in 1 .. n + m
    <3>1. i \in 1 .. Len(y) /\ n + i \in 1 .. n + m
      BY <1>1, <1>3, <1>8
    <3> QED
      BY <1>7, <3>1
  <2>3. ASSUME NEW i \in 1 .. n + m PROVE i \in 1 .. n \/ \E j \in 1 .. m : i = n + j
    <3>1. CASE ~(i \in 1 .. n)
      <4>1. i - n \in 1 .. m /\ i = n + (i - n)
        BY <1>1, <1>3, <1>8, <3>1
      <4> QED
        BY <4>1
    <3> QED
      BY <3>1
  <2>4. {x[i] : i \in 1 .. n + m} = {s[i] : i \in 1 .. n} \union {y[i] : i \in 1 .. m}
    <3>1. ASSUME NEW i \in 1 .. n + m
          PROVE  x[i] \in {s[j] : j \in 1 .. n} \union {y[j] : j \in 1 .. m}
      BY <2>1, <2>2, <2>3
    <3>2. ASSUME NEW i \in 1 .. n PROVE s[i] \in {x[j] : j \in 1 .. n + m}
      <4>1. i \in 1 .. n + m
        BY <1>1, <1>3, <1>8
      <4> QED
        BY <2>1, <4>1
    <3>3. ASSUME NEW i \in 1 .. m PROVE y[i] \in {x[j] : j \in 1 .. n + m}
      BY <2>2
    <3> QED
      BY <3>1, <3>2, <3>3
  <2> QED
    BY <1>2, <2>4
<1>11. v = [i \in 1 .. Len(x) - (n + m) |-> x[n + m + i]]
  <2>1. Len(x) - (n + m) = Len(y) - m
    <3>1. /\ len \in Nat /\ more \in Nat /\ n \in 0 .. len /\ m \in Nat
          /\ Len(y) = len - n + more /\ Len(x) = len + more
      BY <1>1, <1>3, <1>8
    <3> QED
      BY <3>1
  <2>2. ASSUME NEW i \in 1 .. Len(y) - m PROVE y[m + i] = x[n + m + i]
    <3>1. m + i \in 1 .. Len(y) /\ n + (m + i) = n + m + i
      <4>1. /\ n \in Nat /\ m \in Nat /\ Len(y) \in Nat /\ i \in 1 .. Len(y) - m
        BY <1>1, <1>3, <1>8
      <4> QED
        BY <4>1
    <3>2. y[m + i] = x[n + (m + i)]
      BY <1>7, <3>1
    <3> QED
      BY <3>1, <3>2
  <2> QED
    BY <1>2, <2>1, <2>2
<1> QED
  BY <1>9, <1>10, <1>11 DEF Hands, x

\* The tasks of one call, in their order.
Newcomers(first, count) == [i \in 1 .. count |-> first + i - 1]

LEMMA AcquireInOrderHands ==
    ASSUME NEW max \in Nat, NEW p, GoodPool(p, max), NEW caller \in Callers,
           NEW first \in Nat \ {0}, NEW last \in Nat, first <= last + 1,
           first .. last \subseteq Runs
    PROVE  LET q == acquireInOrder(p, caller, first, last, max)
               s == LineOf(p.waiters) \o Newcomers(first, last - first + 1)
           IN  Hands(p.activeRuns, s, max, q.activeRuns, LineOf(q.waiters))
<1> DEFINE count == last - first + 1
           n == LesserOf(Free(p, max), count)
           new == first .. first + n - 1
           w == p.waiters
           behind == LateOnes(first, last, n, caller)
           q == acquireInOrder(p, caller, first, last, max)
           late == Newcomers(first, count)
           len == Len(w)
           s == LineOf(w) \o late
<1>1. /\ w \in Seq(Waiters) /\ len \in Nat /\ Cardinality(p.activeRuns) \in Nat
      /\ Cardinality(p.activeRuns) <= max
      /\ len > 0 => Cardinality(p.activeRuns) = max
  <2>1. /\ w \in Seq(Waiters) /\ Cardinality(p.activeRuns) \in Nat
        /\ Cardinality(p.activeRuns) <= max
        /\ w # <<>> => Cardinality(p.activeRuns) = max
    BY ActiveFinite DEF GoodPool, Pools
  <2> QED
    BY <2>1
<1>2. count \in Nat
  OBVIOUS
<1>3. q.activeRuns = p.activeRuns \union new /\ q.waiters = w \o behind
  <2>1. n = LesserOf(Free(p, max), last - first + 1)
    OBVIOUS
  <2> HIDE DEF n
  <2>2. q = [activeRuns |-> p.activeRuns \union new, waiters |-> w \o behind]
    BY <2>1 DEF acquireInOrder, LateOnes
  <2> HIDE DEF q, new, behind, w
  <2> QED
    BY <2>2
<1>4. n = IF max - Cardinality(p.activeRuns) < count THEN max - Cardinality(p.activeRuns) ELSE count
  BY DEF LesserOf, Free
<1>5. late = [i \in 1 .. count |-> first + i - 1]
  BY DEF Newcomers
<1> HIDE DEF n, new, late, q, w
<1>7. n \in 0 .. count /\ (len > 0 => n = 0) /\ n <= max - Cardinality(p.activeRuns)
  <2> HIDE DEF count, len
  <2> QED
    BY <1>1, <1>2, <1>4
<1>6. behind = [i \in 1 .. count - n |-> [runId |-> first + n + i - 1, caller |-> caller]]
  <2>1. last - first + 1 - n = count - n
    BY <1>7
  <2> QED
    BY <2>1 DEF LateOnes
<1> HIDE DEF behind
<1>8. late \in Seq(Runs) /\ Len(late) = count
  <2>1. \A i \in 1 .. count : first + i - 1 \in first .. last
    OBVIOUS
  <2> HIDE DEF count
  <2>2. late \in [1 .. count -> Runs]
    BY <1>5, <2>1
  <2> QED
    BY <1>2, <2>2
<1>9. /\ behind \in Seq(Waiters) /\ Len(behind) = count - n
      /\ \A i \in 1 .. count - n : behind[i].runId = first + n + i - 1
  <2>1. \A i \in 1 .. count - n : first + n + i - 1 \in first .. last
    BY <1>7
  <2> HIDE DEF count
  <2>2. behind \in [1 .. count - n -> Waiters]
    BY <1>6, <2>1 DEF Waiters
  <2>3. count - n \in Nat
    BY <1>2, <1>7
  <2>4. \A i \in 1 .. count - n : behind[i].runId = first + n + i - 1
    BY <1>6
  <2> DEFINE size == count - n
  <2>5. behind \in [1 .. size -> Waiters] /\ size \in Nat
    BY <2>2, <2>3
  <2> HIDE DEF size
  <2>6. behind \in Seq(Waiters) /\ Len(behind) = size
    BY <2>5
  <2> QED
    BY <2>4, <2>6 DEF size
<1>10. /\ LineOf(w) \in Seq(Runs) /\ Len(LineOf(w)) = len
       /\ \A i \in 1 .. len : LineOf(w)[i] = w[i].runId
  BY <1>1, LineIs
<1>11. /\ s \in Seq(Runs) /\ Len(s) = len + count
       /\ \A i \in 1 .. len : s[i] = w[i].runId
       /\ \A i \in 1 .. count : s[len + i] = first + i - 1
  <2>1. /\ s \in Seq(Runs) /\ Len(s) = Len(LineOf(w)) + Len(late)
        /\ \A i \in 1 .. Len(LineOf(w)) : s[i] = LineOf(w)[i]
        /\ \A i \in 1 .. Len(late) : s[Len(LineOf(w)) + i] = late[i]
    BY <1>8, <1>10, Behind
  <2> HIDE DEF s, count, len
  <2>2. \A i \in 1 .. count : late[i] = first + i - 1
    BY <1>5
  <2> QED
    BY <1>8, <1>10, <2>1, <2>2
<1> HIDE DEF s, len, count
<1>12. n = Fits(p.activeRuns, s, max)
  BY <1>1, <1>2, <1>4, <1>7, <1>11 DEF Fits
<1>13. new = {s[i] : i \in 1 .. n}
  <2>1. CASE n = 0
    BY <2>1 DEF new
  <2>2. CASE n # 0
    <3>1. len = 0
      BY <1>1, <1>7, <2>2
    <3>2. ASSUME NEW i \in 1 .. n PROVE s[i] = first + i - 1
      <4>1. i \in 1 .. count /\ len + i = i
        BY <1>2, <1>7, <3>1
      <4> QED
        BY <1>11, <4>1
    <3>3. ASSUME NEW r \in new PROVE r - first + 1 \in 1 .. n /\ r = first + (r - first + 1) - 1
      BY <1>2, <1>7 DEF new
    <3>4. ASSUME NEW i \in 1 .. n PROVE first + i - 1 \in new
      BY <1>2, <1>7 DEF new
    <3> HIDE DEF new
    <3> QED
      BY <3>2, <3>3, <3>4
  <2> QED
    BY <2>1, <2>2
<1>14. LineOf(q.waiters) = [i \in 1 .. Len(s) - n |-> s[n + i]]
  <2>1. /\ DOMAIN (w \o behind) = 1 .. len + (count - n)
        /\ \A i \in 1 .. len + (count - n) :
              (w \o behind)[i] = IF i <= len THEN w[i] ELSE behind[i - len]
    <3>1. /\ w \o behind \in Seq(Waiters) /\ Len(w \o behind) = Len(w) + Len(behind)
          /\ \A i \in 1 .. Len(w) + Len(behind) :
                (w \o behind)[i] = IF i <= Len(w) THEN w[i] ELSE behind[i - Len(w)]
      BY <1>1, <1>9, ConcatProperties
    <3> QED
      BY <1>9, <3>1 DEF len
  <2>2. Len(s) - n = len + (count - n)
    BY <1>1, <1>2, <1>7, <1>11
  <2>3. ASSUME NEW i \in 1 .. len + (count - n)
        PROVE  (w \o behind)[i].runId = s[n + i]
    <3>1. CASE i <= len
      <4>1. i \in 1 .. len /\ n + i = i
        BY <1>1, <1>2, <1>7, <3>1
      <4>2. s[i] = w[i].runId
        BY <1>11, <4>1
      <4>3. (w \o behind)[i] = w[i]
        BY <2>1, <3>1
      <4> QED
        BY <4>1, <4>2, <4>3
    <3>2. CASE ~(i <= len)
      <4> DEFINE j == i - len
      <4>1. j \in 1 .. count - n /\ n + j \in 1 .. count /\ n + i = len + (n + j)
        BY <1>1, <1>2, <1>7, <3>2
      <4>2. (w \o behind)[i] = behind[j]
        BY <2>1, <3>2
      <4> HIDE DEF j
      <4>3. behind[j].runId = first + n + j - 1
        BY <1>9, <4>1
      <4>4. s[len + (n + j)] = first + (n + j) - 1
        BY <1>11, <4>1
      <4>5. first + (n + j) - 1 = first + n + j - 1
        BY <1>2, <1>7, <4>1
      <4> QED
        BY <4>1, <4>2, <4>3, <4>4, <4>5
    <3> QED
      BY <3>1, <3>2
  <2> DEFINE x == w \o behind
  <2>4. q.waiters = x
    BY <1>3
  <2>5. DOMAIN x = 1 .. len + (count - n)
    BY <2>1
  <2>6. \A i \in 1 .. len + (count - n) : x[i].runId = s[n + i]
    BY <2>3
  <2> HIDE DEF x
  <2> QED
    BY <2>2, <2>4, <2>5, <2>6 DEF LineOf
<1> QED
  BY <1>3, <1>12, <1>13, <1>14 DEF Hands, s, q, w, late, count

\* One who comes alone.
LEMMA AcquireHands ==
    ASSUME NEW max \in Nat, NEW p, GoodPool(p, max), NEW w \in Waiters,
           w.runId \notin p.activeRuns
    PROVE  LET q == acquireConcurrency(p, w, max)
           IN  Hands(p.activeRuns, LineOf(p.waiters) \o <<w.runId>>, max,
                     q.activeRuns, LineOf(q.waiters))
<1> DEFINE s == LineOf(p.waiters) \o <<w.runId>>
           len == Len(p.waiters)
           q == acquireConcurrency(p, w, max)
<1>1. /\ p.waiters \in Seq(Waiters) /\ len \in Nat /\ Cardinality(p.activeRuns) \in Nat
      /\ DOMAIN p.waiters = 1 .. len
      /\ Cardinality(p.activeRuns) <= max /\ w.runId \in Runs
      /\ p.waiters # <<>> => Cardinality(p.activeRuns) = max
      /\ p = [activeRuns |-> p.activeRuns, waiters |-> p.waiters]
  BY ActiveFinite DEF GoodPool, Pools, Waiters
<1>2. /\ s \in Seq(Runs) /\ Len(s) = len + 1
      /\ \A i \in 1 .. len : s[i] = p.waiters[i].runId
      /\ s[len + 1] = w.runId
  <2>1. <<w.runId>> \in Seq(Runs) /\ Len(<<w.runId>>) = 1 /\ <<w.runId>>[1] = w.runId
    BY <1>1
  <2>2. /\ LineOf(p.waiters) \in Seq(Runs) /\ Len(LineOf(p.waiters)) = len
        /\ \A i \in 1 .. len : LineOf(p.waiters)[i] = p.waiters[i].runId
    BY <1>1, LineIs
  <2> DEFINE u == <<w.runId>>
             l == LineOf(p.waiters)
  <2> HIDE DEF u, l
  <2>3. /\ l \o u \in Seq(Runs) /\ Len(l \o u) = Len(l) + Len(u)
        /\ \A i \in 1 .. Len(l) : (l \o u)[i] = l[i]
        /\ \A i \in 1 .. Len(u) : (l \o u)[Len(l) + i] = u[i]
    BY <2>1, <2>2, Behind DEF u, l
  <2>4. Len(l) = len /\ Len(u) = 1 /\ u[1] = w.runId /\ 1 \in 1 .. Len(u)
    BY <2>1, <2>2 DEF u, l
  <2>5. s = l \o u
    BY DEF u, l
  <2> HIDE DEF s, len
  <2> QED
    BY <2>2, <2>3, <2>4, <2>5 DEF l
<1> HIDE DEF s, q
<1>3. CASE Free(p, max) > 0
  <2>1. Cardinality(p.activeRuns) < max
    BY <1>1, <1>3 DEF Free
  <2>2. p.waiters = <<>> /\ len = 0
    BY <1>1, <2>1
  <2>3. q.activeRuns = p.activeRuns \union {w.runId} /\ q.waiters = <<>>
    BY <1>1, <1>3, <2>2 DEF acquireConcurrency, q
  <2>4. Fits(p.activeRuns, s, max) = 1 /\ Len(s) = 1 /\ s[1] = w.runId
    BY <1>1, <1>2, <2>1, <2>2 DEF Fits
  <2>5. {s[i] : i \in 1 .. 1} = {w.runId}
    BY <2>4
  <2>6. LineOf(<<>>) = [i \in 1 .. 1 - 1 |-> s[1 + i]]
    <3>1. DOMAIN <<>> = 1 .. 1 - 1 /\ 1 .. 1 - 1 = {}
      OBVIOUS
    <3> QED
      BY <3>1 DEF LineOf
  <2> QED
    BY <2>3, <2>4, <2>5, <2>6 DEF Hands, s, q
<1>4. CASE ~(Free(p, max) > 0)
  <2> DEFINE more == Append(p.waiters, w)
  <2>1. Cardinality(p.activeRuns) = max
    BY <1>1, <1>4 DEF Free
  <2>2. q.activeRuns = p.activeRuns /\ q.waiters = more
    <3>1. q = [activeRuns |-> p.activeRuns, waiters |-> more]
      BY <1>1, <1>4 DEF acquireConcurrency, q
    <3> HIDE DEF more
    <3> QED
      BY <3>1
  <2>3. /\ DOMAIN more = 1 .. len + 1
        /\ \A i \in 1 .. len : more[i] = p.waiters[i]
        /\ more[len + 1] = w
    BY <1>1
  <2>4. Fits(p.activeRuns, s, max) = 0
    BY <1>1, <1>2, <2>1 DEF Fits
  <2> HIDE DEF more, len
  <2>5. ASSUME NEW i \in 1 .. len + 1 PROVE more[i].runId = s[0 + i]
    <3>1. 0 + i = i /\ (i \in 1 .. len \/ i = len + 1)
      BY <1>1
    <3> QED
      BY <1>2, <2>3, <3>1
  <2>6. LineOf(more) = [i \in 1 .. Len(s) - 0 |-> s[0 + i]]
    <3>1. Len(s) - 0 = len + 1
      BY <1>1, <1>2
    <3> QED
      BY <2>3, <2>5, <3>1 DEF LineOf
  <2> QED
    BY <2>2, <2>4, <2>6 DEF Hands, s, q
<1> QED
  BY <1>3, <1>4

\* Those who leave the queue leave the line.
LEMMA ThinnedLine ==
    ASSUME NEW w \in Seq(Waiters), NEW v, Thinned(v, w)
    PROVE  Thinned(LineOf(v), LineOf(w))
<1>0. PICK m \in 0 .. Len(w) : \E kept \in [1 .. m -> DOMAIN w] :
          /\ \A i, j \in 1 .. m : i < j => kept[i] < kept[j]
          /\ v = [n \in 1 .. m |-> w[kept[n]]]
  BY DEF Thinned
<1>1. PICK kept \in [1 .. m -> DOMAIN w] :
          /\ \A i, j \in 1 .. m : i < j => kept[i] < kept[j]
          /\ v = [n \in 1 .. m |-> w[kept[n]]]
  BY <1>0
<1>2. /\ DOMAIN LineOf(w) = DOMAIN w /\ Len(LineOf(w)) = Len(w)
      /\ \A i \in DOMAIN w : LineOf(w)[i] = w[i].runId
  BY LineIs DEF LineOf
<1> DEFINE s == LineOf(w)
           t == LineOf(v)
<1>3. t = [n \in 1 .. m |-> s[kept[n]]]
  BY <1>1, <1>2 DEF LineOf
<1> HIDE DEF s, t
<1>4. kept \in [1 .. m -> DOMAIN s] /\ m \in 0 .. Len(s)
  BY <1>2 DEF s
<1>5. Thinned(t, s)
  BY <1>1, <1>3, <1>4 DEF Thinned
<1> QED
  BY <1>5 DEF s, t

-----------------------------------------------------------------------------
(* Every step of the supervisors is a step of the line. *)

\* The instance counts as this module does.
LEMMA SameCount == \A S : Leases!Cardinality(S) = Cardinality(S)
BY DEF Cardinality, Leases!Cardinality

LEMMA LineInit == SupervisorInit => Leases!Init
<1> SUFFICES ASSUME SupervisorInit PROVE Leases!Init
  OBVIOUS
<1>1. /\ pool.activeRuns = {} /\ pool.waiters = <<>>
      /\ limits.maxParallel \in Nat \ {0}
  BY SupervisorAssumption DEF SupervisorInit, NewPool, PolicyShape
<1>2. Line = <<>>
  BY <1>1 DEF Line
<1> QED
  BY <1>1, <1>2 DEF Leases!Init

\* Newcomers that hold nothing and do not wait, behind one who may give a lease back.
LEMMA PassIs ==
    ASSUME NEW back \in SUBSET pool.activeRuns, back = {} \/ \E r : back = {r},
           NEW late \in Seq(Runs), Len(late) <= MaxChildren,
           \A i, j \in DOMAIN late : late[i] = late[j] => i = j,
           \A i \in DOMAIN late :
              /\ late[i] \notin pool.activeRuns \ back
              /\ \A w \in Elems(pool.waiters) : w.runId # late[i],
           limits' = limits,
           Hands(pool.activeRuns \ back, Line \o late, limits.maxParallel, pool'.activeRuns, Line')
    PROVE  Leases!Next
<1>1. Cardinality(back) <= 1
  <2>1. Cardinality({}) = 0 /\ \A r : Cardinality({r}) = 1
    BY FS_EmptySet, FS_Singleton
  <2>2. Cardinality(back) = 0 \/ Cardinality(back) = 1
    BY <2>1
  <2> QED
    BY <2>2
<1>2. Leases!Ids(late) \intersect ((pool.activeRuns \ back) \union Leases!Ids(Line)) = {}
  <2>1. \A r \in Leases!Ids(Line) : \E w \in Elems(pool.waiters) : w.runId = r
    BY DEF Leases!Ids, Line, Elems
  <2> QED
    BY <2>1 DEF Leases!Ids
<1>3. Leases!Pass(back, late)
  <2> DEFINE kept == pool.activeRuns \ back
             queue == Line \o late
             n == Fits(kept, queue, limits.maxParallel)
  <2>1. n = Leases!Served(kept, queue)
    BY SameCount DEF Fits, Leases!Served
  <2>2. /\ pool'.activeRuns = kept \union {queue[i] : i \in 1 .. n}
        /\ Line' = [i \in 1 .. Len(queue) - n |-> queue[n + i]]
    BY DEF Hands
  <2>3. /\ Leases!Cardinality(back) <= 1
        /\ limits'.maxParallel = limits.maxParallel
        /\ \A i, j \in DOMAIN late : late[i] = late[j] => i = j
    BY <1>1, SameCount
  <2>4. /\ pool'.activeRuns = kept \union {queue[i] : i \in 1 .. Leases!Served(kept, queue)}
        /\ Line' = [i \in 1 .. Len(queue) - Leases!Served(kept, queue) |->
                       queue[Leases!Served(kept, queue) + i]]
    <3> HIDE DEF n
    <3> QED
      BY <2>1, <2>2
  <2> QED
    BY ONLY <1>2, <2>3, <2>4 DEF Leases!Pass
<1>4. late \in Leases!Arrivals
  <2>1. Cardinality(Runs) = MaxChildren /\ MaxChildren \in Nat
    BY LimitsAssumption, FS_Interval DEF Runs
  <2>2. Len(late) \in 0 .. Cardinality(Runs) /\ late \in [1 .. Len(late) -> Runs]
    BY <2>1
  <2> QED
    BY <2>2, SameCount DEF Leases!Arrivals
<1> QED
  BY <1>3, <1>4 DEF Leases!Next

\* Those who are served were not among those who keep theirs, and count one each.
LEMMA HandsCount ==
    ASSUME NEW kept \in SUBSET Runs, NEW w \in Seq(Waiters), NEW max \in Nat,
           Cardinality(kept) <= max,
           \A i \in DOMAIN w : w[i].runId \notin kept,
           \A i, j \in DOMAIN w : w[i].runId = w[j].runId => i = j,
           NEW A, NEW t, Hands(kept, LineOf(w), max, A, t)
    PROVE  Cardinality(A) = Cardinality(kept) + Fits(kept, LineOf(w), max)
<1> DEFINE s == LineOf(w)
           n == Fits(kept, s, max)
<1>1. /\ Cardinality(kept) \in Nat /\ Len(w) \in Nat /\ DOMAIN w = 1 .. Len(w)
      /\ Len(s) = Len(w) /\ \A i \in 1 .. Len(w) : s[i] = w[i].runId
  BY ActiveFinite, LineIs
<1>2. A = kept \union {s[i] : i \in 1 .. n}
  BY DEF Hands
<1> HIDE DEF s
<1>3. n \in 0 .. Len(w)
  BY <1>1 DEF Fits
<1> HIDE DEF n
<1>4. \A i \in 1 .. n : i \in DOMAIN w /\ s[i] = w[i].runId
  BY <1>1, <1>3
<1>5. {s[i] : i \in 1 .. n} = {w[i].runId : i \in 1 .. n}
  BY <1>4
<1>6. Cardinality(kept \union {w[i].runId : i \in 1 .. n}) = Cardinality(kept) + n
  BY <1>3, <1>4, AdmittedCount
<1> QED
  BY <1>2, <1>5, <1>6 DEF n, s

LEMMA LineTyped ==
    ASSUME QueueInv, SupervisorInv
    PROVE  /\ GoodPool(pool, limits.maxParallel) /\ limits.maxParallel \in Nat
           /\ pool.activeRuns \subseteq Runs /\ pool.waiters \in Seq(Waiters)
           /\ Line = LineOf(pool.waiters) /\ Line' = LineOf(pool'.waiters)
           /\ Line \in Seq(Runs)
<1>1. /\ GoodPool(pool, limits.maxParallel) /\ limits.maxParallel \in Nat
      /\ pool.activeRuns \subseteq Runs /\ pool.waiters \in Seq(Waiters)
  BY DEF SupervisorInv, Shapes, QueueInv, PolicyShape, GoodPool, Pools
<1>2. Line = LineOf(pool.waiters) /\ Line' = LineOf(pool'.waiters)
  BY DEF Line, LineOf
<1> QED
  BY <1>1, <1>2, LineIs

\* An abort takes waiters out of the line.
LEMMA AbortIsLine ==
    ASSUME SupervisorInv, QueueInv, NEW sessions, NEW fired, NEW timedOut,
           AbortSessions(sessions, fired, timedOut)
    PROVE  Leases!Cancel
<1> DEFINE reached == Reached(sessions) \union fired
           nowCut  == {p \in reached \union sessions : InTurn(p)}
<1>1. /\ pool' = abortWaiters(pool, nowCut)
      /\ UNCHANGED <<limits, spawned, exhausted>>
  BY ZenonT(60) DEF AbortSessions
<1> HIDE DEF nowCut
<1>2. pool'.activeRuns = pool.activeRuns /\ Thinned(pool'.waiters, pool.waiters)
  BY <1>1, LineTyped, AbortLeaves
<1>3. Thinned(Line', Line)
  BY <1>2, LineTyped, ThinnedLine
<1> QED
  BY <1>1, <1>2, <1>3 DEF Thinned, Leases!Cancel

\* A child that leaves gives its permit, if it has one, to the front of the line.
LEMMA LeaveIsLine ==
    ASSUME SupervisorInv, QueueInv, NEW r \in Runs, NEW spent, Leave(r, spent)
    PROVE  Leases!Next
<1> DEFINE back == {r} \intersect pool.activeRuns
           late == <<>>
           max == limits.maxParallel
<1>1. pool' = releaseConcurrency(pool, r, max) /\ limits' = limits
  BY DEF Leave
<1>2. Hands(pool.activeRuns \ {r}, Line, max, pool'.activeRuns, Line')
  BY <1>1, LineTyped, ReleaseHands
<1>3. pool.activeRuns \ {r} = pool.activeRuns \ back /\ Line \o late = Line
  BY LineTyped
<1>4. /\ back \in SUBSET pool.activeRuns /\ (back = {} \/ \E x : back = {x})
      /\ late \in Seq(Runs) /\ DOMAIN late = {} /\ Len(late) <= MaxChildren
  BY LimitsAssumption
<1> HIDE DEF back, late
<1>5. Hands(pool.activeRuns \ back, Line \o late, limits.maxParallel, pool'.activeRuns, Line')
  BY <1>2, <1>3
<1> QED
  BY <1>1, <1>4, <1>5, PassIs

\* A parent whose call is over gets its permit back, or joins the line.
LEMMA FinishIsLine ==
    ASSUME SupervisorInv, QueueInv, NEW k \in CallIds, FinishTasks(k)
    PROVE  Leases!Next \/ UNCHANGED <<limits, pool>>
<1> DEFINE p == call[k].caller
           parent == [runId |-> p, caller |-> p]
           late == <<p>>
           back == {}
           max == limits.maxParallel
<1>1. /\ Lineage /\ WaitersAgree /\ LentAgree
      /\ limits' = limits /\ call[k].pc = "tasks"
      /\ \/ pool' = pool
         \/ call[k].suspended /\ pool' = acquireConcurrency(pool, parent, max)
  <2>1. \/ pool' = pool
        \/ call[k].suspended /\ pool' = acquireConcurrency(pool, parent, max)
    <3> HIDE DEF max
    <3> QED
      BY DEF FinishTasks, max
  <2>2. limits' = limits /\ call[k].pc = "tasks"
    BY DEF FinishTasks
  <2>3. Lineage /\ WaitersAgree /\ LentAgree
    BY DEF SupervisorInv, QueueInv
  <2> HIDE DEF max
  <2> QED
    BY <2>1, <2>2, <2>3
<1>2. CASE call[k].suspended /\ pool' = acquireConcurrency(pool, parent, max)
  <2>1. p \in Runs \ pool.activeRuns /\ run[p].pc = "turn"
    BY <1>1, <1>2 DEF LentAgree, Lent, Lineage, InTurn
  <2>2. \A j \in CallIds : Lent(j) /\ call[j].caller = p => j = k
    BY <1>1, <1>2 DEF LentAgree, Lent
  <2>3. \A w \in Elems(pool.waiters) : w.runId # p
    BY <1>1, <2>1, <2>2 DEF WaitersAgree, OpenCalls, LentAgree, Lent
  <2>4. parent \in Waiters /\ parent.runId = p
    BY <2>1 DEF Waiters, Callers
  <2> HIDE DEF p, parent
  <2>5. Hands(pool.activeRuns, Line \o <<parent.runId>>, max, pool'.activeRuns, Line')
    BY <1>2, <2>1, <2>4, LineTyped, AcquireHands
  <2>6. /\ late \in Seq(Runs) /\ DOMAIN late = {1} /\ Len(late) = 1 /\ late[1] = p
    BY <2>1
  <2>7. Len(late) <= MaxChildren
    BY <2>1, <2>6, LimitsAssumption DEF Runs
  <2>8. late = <<parent.runId>> /\ pool.activeRuns = pool.activeRuns \ back
    BY <2>4
  <2>9. back \in SUBSET pool.activeRuns /\ back = {}
    OBVIOUS
  <2> HIDE DEF late, back, max
  <2>10. Hands(pool.activeRuns \ back, Line \o late, limits.maxParallel, pool'.activeRuns, Line')
    BY <2>5, <2>8 DEF max
  <2>11. /\ \A i, j \in DOMAIN late : late[i] = late[j] => i = j
         /\ \A i \in DOMAIN late :
               /\ late[i] \notin pool.activeRuns \ back
               /\ \A w \in Elems(pool.waiters) : w.runId # late[i]
    BY <2>1, <2>3, <2>6
  <2> QED
    BY <1>1, <2>6, <2>7, <2>9, <2>10, <2>11, PassIs
<1> QED
  BY <1>1, <1>2

\* A delegate call: the permit of the caller goes to the front of the line, and the
\* tasks of the call come behind it.
LEMMA DelegateIsLine ==
    ASSUME SupervisorInv, QueueInv, NEW p \in Callers, NEW k \in CallIds,
           NEW tasks \in 1 .. MaxTasks, Delegate(p, k, tasks)
    PROVE  Leases!Next
<1> DEFINE max   == limits.maxParallel
           given == Suspended(p)
           last  == spawned + Reserved(p, tasks)
           first == spawned + 1
           count == last - first + 1
           after == acquireInOrder(given, p, spawned + 1, last, limits.maxParallel)
           late  == Newcomers(first, count)
           back  == {p} \intersect pool.activeRuns
           kept  == pool.activeRuns \ {p}
<1>1. /\ limits \in PolicyShape /\ spawned \in 0 .. limits.maxTotalChildren
      /\ max \in Nat
      /\ Lineage /\ HoldersLive /\ WaitersAgree
      /\ GoodPool(pool, max) /\ pool.activeRuns \subseteq Runs
  BY DEF SupervisorInv, Shapes, QueueInv, PolicyShape, GoodPool, Pools
<1>2. pool' = after /\ UNCHANGED <<limits, exhausted, cut>>
  BY ZenonT(60) DEF Delegate
<1>3. last \in spawned .. limits.maxTotalChildren /\ limits.maxTotalChildren \in 1 .. MaxChildren
  BY <1>1, SupervisorAssumption, LimitsAssumption DEF Reserved, LesserOf, PolicyShape
<1> HIDE DEF max, given, last, after
<1>4. /\ first .. last \subseteq Runs /\ \A r \in first .. last : run[r].pc = "unused"
      /\ first \in Nat \ {0} /\ last \in Nat /\ first <= last + 1 /\ count \in 0 .. MaxChildren
  BY <1>1, <1>3, LimitsAssumption DEF Runs, Lineage
<1>5. late \in Seq(Runs) /\ Len(late) = count /\ \A i \in 1 .. count : late[i] = first + i - 1
  <2>1. \A i \in 1 .. count : first + i - 1 \in first .. last
    BY <1>4
  <2> HIDE DEF first, count
  <2>2. late \in [1 .. count -> Runs] /\ \A i \in 1 .. count : late[i] = first + i - 1
    BY <1>4, <2>1 DEF Newcomers
  <2> QED
    BY <1>4, <2>2
<1>6. /\ GoodPool(given, max) /\ given.activeRuns \subseteq Runs /\ given.waiters \in Seq(Waiters)
      /\ Hands(kept, Line, max, given.activeRuns, LineOf(given.waiters))
  <2>1. GoodPool(given, max)
    BY <1>1, ReleaseGives DEF given, Suspended, max
  <2>2. Hands(kept, LineOf(pool.waiters), max, given.activeRuns, LineOf(given.waiters))
    BY <1>1, ReleaseHands DEF given, Suspended, max
  <2> QED
    BY <2>1, <2>2, LineTyped DEF GoodPool, Pools
<1>7. Hands(given.activeRuns, LineOf(given.waiters) \o late, max, pool'.activeRuns, Line')
  <2>1. Hands(given.activeRuns, LineOf(given.waiters) \o late, max,
              after.activeRuns, LineOf(after.waiters))
    BY <1>1, <1>4, <1>6, AcquireInOrderHands DEF after, max
  <2> QED
    BY <1>2, <2>1, LineTyped
<1>8. /\ kept \in SUBSET Runs /\ Cardinality(kept) <= max
      /\ \A i \in DOMAIN pool.waiters : pool.waiters[i].runId \notin kept
      /\ \A i, j \in DOMAIN pool.waiters :
            pool.waiters[i].runId = pool.waiters[j].runId => i = j
  <2>1. /\ IsFiniteSet(pool.activeRuns) /\ Cardinality(pool.activeRuns) \in Nat
        /\ Cardinality(pool.activeRuns) <= max
    BY <1>1, ActiveFinite DEF GoodPool
  <2>2. kept \subseteq pool.activeRuns
    OBVIOUS
  <2>3. Cardinality(kept) <= Cardinality(pool.activeRuns) /\ Cardinality(kept) \in Nat
    BY <1>1, <2>1, <2>2, ActiveFinite, FS_Subset
  <2> QED
    BY <1>1, <2>1, <2>2, <2>3 DEF GoodPool
<1>9. Cardinality(given.activeRuns) = Cardinality(kept) + Fits(kept, Line, max)
  BY <1>1, <1>6, <1>8, LineTyped, HandsCount
<1>10. LineOf(given.waiters) \in Seq(Runs)
  BY <1>6, LineIs
<1> HIDE DEF late, kept, first, count, back
<1>11. Hands(kept, Line \o late, max, pool'.activeRuns, Line')
  <2>1. Line \in Seq(Runs) /\ given.activeRuns \in SUBSET Runs
    BY <1>6, LineTyped
  <2>2. /\ Hands(kept, Line, max, given.activeRuns, LineOf(given.waiters))
        /\ Hands(given.activeRuns, LineOf(given.waiters) \o late, max, pool'.activeRuns, Line')
    BY <1>6, <1>7
  <2>3. kept \in SUBSET Runs /\ Cardinality(kept) <= max /\ late \in Seq(Runs) /\ max \in Nat
    BY <1>1, <1>5, <1>8
  <2> QED
    BY <1>9, <1>10, <2>1, <2>2, <2>3, HandsInTurn
<1>12. /\ back \in SUBSET pool.activeRuns /\ (back = {} \/ \E x : back = {x})
       /\ kept = pool.activeRuns \ back
  BY DEF back, kept
<1>13. Hands(pool.activeRuns \ back, Line \o late, limits.maxParallel, pool'.activeRuns, Line')
  BY <1>11, <1>12 DEF max
\* The tasks are new: none of them holds a permit or waits.
<1>14. ASSUME NEW i \in DOMAIN late
       PROVE  /\ late[i] \notin pool.activeRuns \ back
              /\ \A w \in Elems(pool.waiters) : w.runId # late[i]
  <2>1. late[i] \in Runs /\ run[late[i]].pc = "unused"
    <3>1. i \in 1 .. count /\ late[i] = first + i - 1
      BY <1>5
    <3>2. first + i - 1 \in first .. last
      BY <1>4, <3>1 DEF count
    <3> QED
      BY <1>4, <3>1, <3>2
  <2>2. late[i] \notin pool.activeRuns
    BY <1>1, <2>1 DEF HoldersLive, Works
  <2>3. ASSUME NEW w \in Elems(pool.waiters) PROVE run[w.runId].pc # "unused"
    <3>1. w.runId \in Runs
      BY <1>1, WaitersTyped
    <3> QED
      BY <1>1, <3>1 DEF WaitersAgree, OpenCalls, Lineage, InTurn
  <2> QED
    BY <2>1, <2>2, <2>3
<1>15. ASSUME NEW i \in DOMAIN late, NEW j \in DOMAIN late, late[i] = late[j]
       PROVE  i = j
  <2>1. DOMAIN late = 1 .. count /\ first \in Int
    BY <1>4, <1>5
  <2>2. first + i - 1 = first + j - 1
    BY <1>5, <1>15, <2>1
  <2> QED
    BY <1>4, <2>1, <2>2
<1>16. Len(late) <= MaxChildren
  BY <1>4, <1>5, LimitsAssumption
<1> QED
  BY <1>2, <1>5, <1>12, <1>13, <1>14, <1>15, <1>16, PassIs

LEMMA StepIsLine ==
    ASSUME SupervisorInv, QueueInv, [SupervisorNext]_supervisorVars
    PROVE  Leases!Next \/ UNCHANGED <<limits, pool>>
<1>1. CASE UNCHANGED supervisorVars \/ RootSpends
  BY <1>1 DEF supervisorVars, RootSpends
<1>2. ASSUME NEW p \in Callers, NEW k \in CallIds, NEW tasks \in 1 .. MaxTasks, Delegate(p, k, tasks)
      PROVE  Leases!Next
  BY <1>2, DelegateIsLine
<1>3. ASSUME NEW k \in CallIds, FinishTasks(k)
      PROVE  Leases!Next \/ UNCHANGED <<limits, pool>>
  BY <1>3, FinishIsLine
<1>4. ASSUME NEW r \in Runs, ChildNext(r)
      PROVE  Leases!Next \/ UNCHANGED <<limits, pool>>
  <2>1. CASE StartFails(r) \/ Close(r)
    BY <2>1, LeaveIsLine DEF StartFails, Close
  <2>2. CASE TakeController(r) \/ StartSession(r) \/ TurnEnds(r) \/ VerificationEnds(r)
    BY <2>2 DEF TakeController, StartSession, TurnEnds, VerificationEnds, Prompt, Goes, Terminal
  <2> QED
    BY <1>4, <2>1, <2>2 DEF ChildNext
<1>5. CASE AbortRoot \/ \E r \in Runs : StopChild(r) \/ TimerFires(r)
  <2>1. Leases!Cancel
    BY <1>5, AbortIsLine DEF AbortRoot, StopChild, TimerFires
  <2> QED
    BY <2>1 DEF Leases!Next
<1> QED
  BY <1>1, <1>2, <1>3, <1>4, <1>5 DEF SupervisorNext

-----------------------------------------------------------------------------
(* Results. *)

LEMMA SupervisorInvStep == SupervisorInv /\ [SupervisorNext]_supervisorVars => SupervisorInv'
<1> SUFFICES ASSUME SupervisorInv, [SupervisorNext]_supervisorVars PROVE SupervisorInv'
  OBVIOUS
<1>1. CASE UNCHANGED supervisorVars \/ RootSpends
  <2>1. UNCHANGED <<limits, pool, spawned, run, call, cut>>
    BY <1>1 DEF supervisorVars, RootSpends
  <2> QED
    BY <2>1 DEF SupervisorInv, Shapes, Shaped, Lineage, Alive, AboveOf, InTurn, CutAgrees,
       Interrupted, PermitsAgree, OpenCalls, AbortReachesChildren, HasController
<1>2. ASSUME NEW p \in Callers, NEW k \in CallIds, NEW tasks \in 1 .. MaxTasks, Delegate(p, k, tasks)
      PROVE  SupervisorInv'
  BY <1>2, DelegateKeeps
<1>3. ASSUME NEW k \in CallIds, FinishTasks(k) PROVE SupervisorInv'
  BY <1>3, FinishKeeps
<1>4. ASSUME NEW r \in Runs, ChildNext(r) PROVE SupervisorInv'
  <2>1. CASE StartFails(r)
    BY <2>1, LeaveKeeps DEF StartFails
  <2>2. CASE Close(r)
    BY <2>2, LeaveKeeps DEF Close
  <2> QED
    BY <1>4, <2>1, <2>2, MoveKeeps DEF ChildNext
<1>5. CASE AbortRoot \/ \E r \in Runs : StopChild(r) \/ TimerFires(r)
  BY <1>5, AbortsKeep
<1> QED
  BY <1>1, <1>2, <1>3, <1>4, <1>5 DEF SupervisorNext

LEMMA SupervisorInvAlways == SupervisorSpec => [](SupervisorInv /\ QueueInv)
BY SupervisorInvInit, SupervisorInvStep, QueueInvInit, QueueInvStep, PTL DEF SupervisorSpec

\* A root run never counts more children than its policy allows, and no child is
\* prompted more often than verification allows (reserveTotal, decideBoundedLoop).
THEOREM SupervisorTypes == SupervisorSpec => []SupervisorTypeOK
<1>1. SupervisorInv /\ QueueInv => SupervisorTypeOK
  <2> SUFFICES ASSUME SupervisorInv, QueueInv PROVE SupervisorTypeOK
    OBVIOUS
  <2>1. /\ limits.maxAttempts \in Nat
        /\ run \in [Runs -> RunShape]
        /\ \A r \in Runs : run[r].attempts <= limits.maxAttempts
    BY DEF SupervisorInv, Shapes, QueueInv, PolicyShape, AttemptsAgree
  <2>2. run \in [Runs -> [pc : Pcs, caller : Callers, callId : CallIds \union {0},
                          above : SUBSET Callers, attempts : 0 .. limits.maxAttempts,
                          aborted : BOOLEAN, timedOut : BOOLEAN, outcome : Outcomes]]
    BY <2>1 DEF RunShape
  <2> QED
    BY <2>2 DEF SupervisorInv, Shapes, QueueInv, GoodPool, CallShape, SupervisorTypeOK
<1> QED
  BY <1>1, SupervisorInvAlways, PTL

\* However deep the tree and however its calls overlap, an abort of a turn leaves
\* none of its children waiting for a permit and none with a controller that has
\* not been told, also those that are admitted while the abort goes round.
THEOREM AbortReachesChildrenAlways == SupervisorSpec => []AbortReachesChildren
<1>1. SupervisorInv => AbortReachesChildren
  BY DEF SupervisorInv
<1> QED
  BY <1>1, SupervisorInvAlways, PTL

\* A child whose turn was aborted by a stop, a timer or a caller never ends up
\* as completed, whatever its session answers.
THEOREM InterruptedNotCompletedAlways == SupervisorSpec => []InterruptedNotCompleted
<1>1. SupervisorInv => InterruptedNotCompleted
  BY DEF SupervisorInv, CutAgrees, InterruptedNotCompleted
<1> QED
  BY <1>1, SupervisorInvAlways, PTL

\* In the whole tree no more agents work than the root run allows at a time, each
\* of them holds a permit and nobody else does: no order of suspensions, resumptions,
\* refusals and aborts counts one twice or leaves one behind (activeRuns against
\* maxParallelPerDelegation).
THEOREM WorksUnderPermit == SupervisorSpec => []WorkUnderPermit
<1>1. SupervisorInv /\ QueueInv => WorkUnderPermit
  BY DEF SupervisorInv, PermitsAgree, WorkersHoldPermit, QueueInv, GoodPool, WorkUnderPermit,
     HoldersLive, Works, HasController
<1> QED
  BY <1>1, SupervisorInvAlways, PTL

\* The permits of a root run are a line: whatever suspensions, refusals and aborts
\* come together in a step, leases go out in order of arrival, the newcomers of the
\* step last, none is kept back while somebody waits, and an abort disturbs nobody's
\* order ("FIFO and abort-aware": acquireConcurrency, drainConcurrencyQueue).
THEOREM SupervisorImplementsPermitLine == SupervisorSpec => ImplementsPermitLine
<1>1. SupervisorInv /\ QueueInv /\ [SupervisorNext]_supervisorVars
         => [Leases!Next]_(Leases!lineVars)
  <2> SUFFICES ASSUME SupervisorInv, QueueInv, [SupervisorNext]_supervisorVars
               PROVE  [Leases!Next]_(Leases!lineVars)
    OBVIOUS
  <2>1. CASE UNCHANGED <<limits, pool>>
    BY <2>1 DEF Leases!lineVars, Line
  <2> QED
    BY <2>1, StepIsLine
<1> QED
  BY <1>1, LineInit, SupervisorInvAlways, PTL DEF SupervisorSpec, ImplementsPermitLine, Leases!Spec

=============================================================================
