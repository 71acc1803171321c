----------------------------- MODULE PermitLine -----------------------------
(***************************************************************************)
(* What the concurrency leases of a delegation tree promise ("FIFO and     *)
(* abort-aware"): at most `limit' runs hold one, whoever comes waits       *)
(* behind those who came before, a lease that is free goes to the front of *)
(* the line in the same step, and a waiter that is told to abort leaves    *)
(* without disturbing the order of the others.  Nobody overtakes, nobody   *)
(* waits while a lease is free, and nobody loses a lease but by giving it  *)
(* back.  ChildSupervisor is checked, and proved, to implement it.         *)
(***************************************************************************)
EXTENDS Integers, Sequences, FiniteSets

CONSTANT Runs

VARIABLES
    limit,      \* how many may hold a lease
    holders,    \* who holds one
    line        \* who waits for one, in order of arrival

lineVars == <<limit, holders, line>>

Ids(s) == {s[i] : i \in DOMAIN s}

\* Those who come in one step, in their order.
Arrivals == UNION {[1 .. n -> Runs] : n \in 0 .. Cardinality(Runs)}

Init == limit \in Nat \ {0} /\ holders = {} /\ line = <<>>

\* How many of a queue there is room for beside those who keep theirs.
Served(kept, queue) ==
    LET room == limit - Cardinality(kept)
    IN  IF room < Len(queue) THEN room ELSE Len(queue)

\* A lease comes back, or none does; newcomers join the line, or none do; and the
\* first in the line are served.
Pass(back, late) ==
    /\ Cardinality(back) <= 1
    /\ \A i, j \in DOMAIN late : late[i] = late[j] => i = j
    /\ Ids(late) \intersect ((holders \ back) \union Ids(line)) = {}
    /\ LET kept  == holders \ back
           queue == line \o late
           n     == Served(kept, queue)
       IN  /\ holders' = kept \union {queue[i] : i \in 1 .. n}
           /\ line' = [i \in 1 .. Len(queue) - n |-> queue[n + i]]
    /\ UNCHANGED limit

\* Some who wait leave the line: place n of what is left was place kept[n].
Cancel ==
    \E m \in 0 .. Len(line) : \E kept \in [1 .. m -> DOMAIN line] :
        /\ \A i, j \in 1 .. m : i < j => kept[i] < kept[j]
        /\ line' = [n \in 1 .. m |-> line[kept[n]]]
        /\ UNCHANGED <<limit, holders>>

Next == (\E back \in SUBSET holders, late \in Arrivals : Pass(back, late)) \/ Cancel

Spec == Init /\ [][Next]_lineVars

=============================================================================
