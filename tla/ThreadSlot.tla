----------------------------- MODULE ThreadSlot -----------------------------
(***************************************************************************)
(* What the thread lifecycle guard promises the lanes that use it ("a      *)
(* thread has at most one active root"): each thread has one slot, a       *)
(* holding of it is given out only while nobody holds it, and it becomes   *)
(* free, or somebody else's, only when its holder gives it up.  Who is     *)
(* acting is part of the promise, so the state has the set of holdings     *)
(* their holders have given up.                                            *)
(***************************************************************************)
CONSTANTS
    Threads,
    Holdings    \* run leases and mutation locks that can be given out

VARIABLES
    holding,    \* per thread, the holdings out and not given up: at most one
    givenUp     \* holdings whose holder has let go of them

slotVars == <<holding, givenUp>>

Init == holding = [t \in Threads |-> {}] /\ givenUp = {}

Take(t, h) ==
    /\ holding[t] = {}
    /\ h \notin givenUp
    /\ holding' = [holding EXCEPT ![t] = {h}]
    /\ UNCHANGED givenUp

GiveUp(t, h) ==
    /\ holding[t] = {h}
    /\ holding' = [holding EXCEPT ![t] = {}]
    /\ givenUp' = givenUp \union {h}

\* The slot passes to another lane without ever being free.
HandOver(t, h, next) ==
    /\ holding[t] = {h}
    /\ next \notin givenUp \union {h}
    /\ holding' = [holding EXCEPT ![t] = {next}]
    /\ givenUp' = givenUp \union {h}

Next == \E t \in Threads, h \in Holdings :
            \/ Take(t, h)
            \/ GiveUp(t, h)
            \/ \E next \in Holdings : HandOver(t, h, next)

Spec == Init /\ [][Next]_slotVars

=============================================================================
