----------------------- MODULE InstallService_proofs ------------------------
(***************************************************************************)
(* Proofs about InstallService, for any keys, packages, skills and         *)
(* archives, and any number of imports, confirmations, restarts and calls  *)
(* that reject.                                                            *)
(*                                                                         *)
(* A transaction row is written by its id, whatever it says by now, so     *)
(* that nothing overwrites an end rests on who can be at work on a row:    *)
(* its import until it has been reviewed, then one confirmation at a time, *)
(* and besides them only who overrules them.  InstallInv says so.          *)
(*                                                                         *)
(* What an install leaves in the database and the vault rests on who holds *)
(* the row of a package: only the call that inserted it takes anything of  *)
(* it away again, the package last.  PackagesAgree says so.                *)
(***************************************************************************)
EXTENDS InstallService, TLAPS

\* An import that has done with its row.
Through == {"reviewed", "refused", "over"}

\* Until then the row is its own, and says how far it is.
ImportAgrees(i) ==
    /\ imp[i].pc \in {"idle", "lookup", "markStale", "insert"} => txn[i] = NoRow
    /\ imp[i].pc \in {"plan", "failStage", "pipeline", "failing"} => txn[i] \in Pipeline
    /\ imp[i].pc \in {"idle", "lookup"} => imp[i].stale = Nobody
    /\ imp[i].pc = "markStale" => imp[i].stale \in Imports

ImportsAgree ==
    \A i \in Imports : ImportAgrees(i) /\ (Overruled(i) => imp[i].pc \in Through)

\* Only a reviewed import is pending or being confirmed.
OnlyReviewed ==
    /\ pending # Nobody => imp[pending].pc = "reviewed"
    /\ \A c \in Confirms : confirm[c].pc \notin Ended => imp[confirm[c].imp].pc = "reviewed"

Working(c) == confirm[c].pc \notin Ended \union {"waiting"}

\* One confirmation of an import at a time is past the lock.
OneWorks ==
    \A b, c \in Confirms : b < c =>
        /\ confirm[b].pc = "idle" => confirm[c].pc = "idle"
        /\ confirm[b].imp = confirm[c].imp /\ Working(c) => confirm[b].pc \in Ended

\* What it goes by: the state it has loaded, and that of the row unless it is
\* overruled.
Reviewable == Awaiting \union {"ready_to_install"}
AtMaterializing == {"materialize", "flush", "undoSkills", "undoFiles", "undoPackage",
                    "mark", "failing", "settle"}

ConfirmAgrees(c) ==
    /\ confirm[c].pc = "advance" => confirm[c].seen \in Reviewable
    /\ ~Overruled(confirm[c].imp) =>
          /\ confirm[c].pc \in {"find", "advance"} => txn[confirm[c].imp] = confirm[c].seen
          /\ confirm[c].pc \in AtMaterializing => txn[confirm[c].imp] = "materializing"
          /\ confirm[c].pc = "finish" => txn[confirm[c].imp] = "installed"

ConfirmsAgree == \A c \in Confirms : ConfirmAgrees(c)

InstallInv == InstallTypeOK /\ ImportsAgree /\ OnlyReviewed /\ OneWorks /\ ConfirmsAgree

-----------------------------------------------------------------------------
(* Types of the records. *)

Call == [pc : ConfirmPcs, imp : Imports, seen : States, unwritten : SUBSET Slugs,
         result : BOOLEAN, errors : {"none", "some", "unrecorded"}]

\* A call of confirmBindings that moves on keeps its import and what it has seen.
LEMMA LeftKeeps ==
    ASSUME NEW call \in Call, NEW pc \in ConfirmPcs
    PROVE  /\ Left(call, pc) \in Call
           /\ Left(call, pc).pc = pc
           /\ Left(call, pc).imp = call.imp
           /\ Left(call, pc).result = call.result /\ Left(call, pc).errors = call.errors
           /\ pc \notin Ended => /\ Left(call, pc).seen = call.seen
                               /\ Left(call, pc).unwritten = call.unwritten
<1>1. CASE pc \notin Ended
  BY <1>1 DEF Left, Call
<1>2. CASE pc \in Ended
  <2> DEFINE moved  == [call EXCEPT !.pc = pc]
             unseen == [moved EXCEPT !.seen = NoRow]
  <2>1. /\ moved \in Call /\ moved.pc = pc /\ moved.imp = call.imp
        /\ moved.result = call.result /\ moved.errors = call.errors
    BY DEF Call
  <2> HIDE DEF moved
  <2>2. /\ unseen \in Call /\ unseen.pc = pc /\ unseen.imp = call.imp
        /\ unseen.result = call.result /\ unseen.errors = call.errors
    BY <2>1 DEF Call, States
  <2> HIDE DEF unseen
  <2>3. /\ [unseen EXCEPT !.unwritten = {}] \in Call
        /\ [unseen EXCEPT !.unwritten = {}].pc = pc
        /\ [unseen EXCEPT !.unwritten = {}].imp = call.imp
        /\ [unseen EXCEPT !.unwritten = {}].result = call.result
        /\ [unseen EXCEPT !.unwritten = {}].errors = call.errors
    BY <2>2 DEF Call
  <2>4. Left(call, pc) = [unseen EXCEPT !.unwritten = {}]
    BY <1>2 DEF Left, moved, unseen
  <2> QED
    BY <1>2, <2>3, <2>4
<1> QED
  BY <1>1, <1>2

\* ConfirmAt moves one call and nothing else.
LEMMA ConfirmAtMoves ==
    ASSUME confirm \in [Confirms -> Call], NEW c \in Confirms, NEW pc \in ConfirmPcs,
           ConfirmAt(c, pc)
    PROVE  /\ confirm' \in [Confirms -> Call]
           /\ \A d \in Confirms \ {c} : confirm'[d] = confirm[d]
           /\ confirm'[c].pc = pc
           /\ confirm'[c].imp = confirm[c].imp
           /\ confirm'[c].result = confirm[c].result
           /\ confirm'[c].errors = confirm[c].errors
           /\ pc \notin Ended => /\ confirm'[c].seen = confirm[c].seen
                               /\ confirm'[c].unwritten = confirm[c].unwritten
<1>1. confirm' = [confirm EXCEPT ![c] = Left(confirm[c], pc)]
  BY DEF ConfirmAt
<1>2. Left(confirm[c], pc) \in Call
  BY LeftKeeps
<1> QED
  BY <1>1, <1>2, LeftKeeps

\* A call that rejects leaves the bound on mishaps.
LEMMA FaultBound ==
    ASSUME InstallTypeOK, Fault, crashes' = crashes
    PROVE  faults' \in 0 .. MaxMishaps - crashes'
BY InstallAssumption, SMT DEF InstallTypeOK, Fault

\* What updateState and its rejection do to the row, and to no other.
LEMMA RowWritten ==
    ASSUME InstallTypeOK, NEW i \in Imports, NEW state \in States,
           crashes' = crashes,
           updateState(i, state) \/ Rejected(i, state)
    PROVE  /\ txn' \in [Imports -> States]
           /\ \A j \in Imports \ {i} : txn'[j] = txn[j]
           /\ updateState(i, state) => txn'[i] = state
           /\ Rejected(i, state) => txn' = txn
           /\ txn'[i] \in {txn[i], state}
           /\ faults' \in 0 .. MaxMishaps - crashes'
<1>1. CASE updateState(i, state)
  BY <1>1, SMT DEF updateState, Rejected, InstallTypeOK
<1>2. CASE Rejected(i, state)
  <2>1. faults' \in 0 .. MaxMishaps - crashes'
    BY <1>2, FaultBound DEF Rejected, InstallTypeOK
  <2>2. txn' = txn
    BY <1>2 DEF Rejected
  <2>3. updateState(i, state) => txn'[i] = state
    BY DEF updateState, InstallTypeOK
  <2> QED
    BY <2>1, <2>2, <2>3 DEF InstallTypeOK
<1> QED
  BY <1>1, <1>2

-----------------------------------------------------------------------------
(* What a step of an import does. *)

Import == [pc : ImportPcs, stale : Imports \union {Nobody}]

LEMMA ImportAtMoves ==
    ASSUME imp \in [Imports -> Import], NEW i \in Imports, NEW pc \in ImportPcs,
           ImportAt(i, pc)
    PROVE  /\ imp' \in [Imports -> Import]
           /\ imp'[i].pc = pc /\ imp'[i].stale = imp[i].stale
           /\ \A j \in Imports \ {i} : imp'[j] = imp[j]
BY DEF ImportAt, Import

\* A step of import i writes its own row before it ends, or that of the import
\* it took for stale, and leaves its claim to having overruled that one.
ImportEffect(i) ==
    /\ imp[i].pc \notin Through
    /\ imp' \in [Imports -> Import]
    /\ \A j \in Imports \ {i} : imp'[j] = imp[j]
    /\ txn' \in [Imports -> States]
    /\ \A j \in Imports : txn'[j] # txn[j] =>
          (j = i /\ txn[i] \in Pipeline \union {NoRow}) \/ imp[i].stale = j
    /\ ImportAgrees(i)'
    /\ \/ imp'[i].stale = imp[i].stale
       \/ /\ imp[i].stale = Nobody
          /\ imp'[i].stale \in Imports \ {i}
          /\ txn[imp'[i].stale] = "materializing"
    /\ pending' # pending => pending' = i /\ imp'[i].pc = "reviewed"
    /\ faults' \in 0 .. MaxMishaps - crashes'
    /\ UNCHANGED <<archive, packages, skills, files, markers, confirm, cancelling, crashes>>

LEMMA ImportDoes ==
    ASSUME InstallInv, NEW i \in Imports, StartImport(i) \/ ImportStep(i)
    PROVE  ImportEffect(i)
<1> USE DEF ImportEffect, OnlyImport, vault, Through
<1>1. /\ imp \in [Imports -> Import] /\ txn \in [Imports -> States]
      /\ faults \in 0 .. MaxMishaps - crashes
      /\ ImportAgrees(i)
      /\ imp[i].pc \notin Through => ~Overruled(i)
  BY DEF InstallInv, InstallTypeOK, ImportsAgree, Import
<1>2. CASE StartImport(i)
  BY <1>1, <1>2, ImportAtMoves DEF StartImport, ImportAgrees, ImportPcs
<1>3. CASE Lookup(i)
  <2>1. CASE \E pc \in {"insert", "refused"} : ImportAt(i, pc) /\ UNCHANGED <<txn, faults>>
    BY <1>1, <1>3, <2>1, ImportAtMoves DEF Lookup, ImportAgrees, ImportPcs
  <2>2. CASE Fault /\ ImportAt(i, "over")
    <3>1. faults' \in 0 .. MaxMishaps - crashes'
      BY <1>3, <2>2, FaultBound DEF Lookup, InstallInv
    <3> QED
      BY <1>1, <1>3, <2>2, <3>1, ImportAtMoves DEF Lookup, ImportAgrees, ImportPcs
  <2>3. CASE \E j \in Imports \ {i} :
                /\ txn[j] = "materializing" /\ UNCHANGED faults
                /\ imp' = [imp EXCEPT ![i].pc = "markStale", ![i].stale = j]
    <3>1. PICK j \in Imports \ {i} :
                /\ txn[j] = "materializing" /\ UNCHANGED faults
                /\ imp' = [imp EXCEPT ![i].pc = "markStale", ![i].stale = j]
      BY <2>3
    <3>2. /\ imp' \in [Imports -> Import]
          /\ imp'[i].pc = "markStale" /\ imp'[i].stale = j
          /\ \A k \in Imports \ {i} : imp'[k] = imp[k]
      BY <1>1, <3>1 DEF Import, ImportPcs
    <3> QED
      BY <1>1, <1>3, <3>1, <3>2 DEF Lookup, ImportAgrees
  <2> QED
    BY <1>3, <2>1, <2>2, <2>3 DEF Lookup
<1>4. CASE MarkStale(i)
  <2> DEFINE k == imp[i].stale
  <2>1. k \in Imports \ {i} /\ "failed" \in States
    BY <1>1, <1>4 DEF MarkStale, ImportAgrees, Overruled, States, Terminal
  <2>2. updateState(k, "failed") \/ Rejected(k, "failed")
    BY <1>4 DEF MarkStale
  <2>3. /\ txn' \in [Imports -> States]
        /\ \A j \in Imports \ {k} : txn'[j] = txn[j]
        /\ faults' \in 0 .. MaxMishaps - crashes'
    BY <1>4, <2>1, <2>2, RowWritten DEF MarkStale, InstallInv
  <2>4. \E pc \in {"insert", "over"} : ImportAt(i, pc)
    BY <1>4 DEF MarkStale
  <2> QED
    BY <1>1, <1>4, <2>1, <2>3, <2>4, ImportAtMoves DEF MarkStale, ImportAgrees, ImportPcs
<1>5. CASE Insert(i)
  <2>1. /\ txn' \in [Imports -> States]
        /\ \A j \in Imports \ {i} : txn'[j] = txn[j]
        /\ updateState(i, "created") => txn'[i] = "created"
        /\ faults' \in 0 .. MaxMishaps - crashes'
    BY <1>5, RowWritten DEF Insert, InstallInv, States, Pipeline
  <2> QED
    BY <1>1, <1>5, <2>1, ImportAtMoves
    DEF Insert, ImportAgrees, ImportPcs, Pipeline
<1>6. CASE Plan(i)
  BY <1>1, <1>6, ImportAtMoves DEF Plan, ImportAgrees, ImportPcs
<1>7. CASE FailPlan(i)
  <2>1. PICK state \in {"manifest_loaded", "failed"} :
            /\ updateState(i, state) \/ Rejected(i, state)
            /\ \/ updateState(i, state) /\ ImportAt(i, "failing") /\ state = "manifest_loaded"
               \/ ImportAt(i, "over")
    BY <1>7 DEF FailPlan
  <2>2. /\ txn' \in [Imports -> States]
        /\ \A j \in Imports \ {i} : txn'[j] = txn[j]
        /\ updateState(i, state) => txn'[i] = state
        /\ faults' \in 0 .. MaxMishaps - crashes'
    BY <1>7, <2>1, RowWritten DEF FailPlan, InstallInv, States, Pipeline, Terminal
  <2> QED
    BY <1>1, <1>7, <2>1, <2>2, ImportAtMoves
    DEF FailPlan, ImportAgrees, ImportPcs, Pipeline
<1>8. CASE AdvancePipeline(i)
  <2>1. PICK state \in AfterStage(txn[i]) :
            \/ /\ updateState(i, state)
               /\ IF state \in Pipeline
                  THEN UNCHANGED <<imp, pending>>
                  ELSE ImportAt(i, "reviewed") /\ pending' = i
            \/ /\ Rejected(i, state)
               /\ ImportAt(i, "over")
               /\ UNCHANGED pending
    BY <1>8 DEF AdvancePipeline
  <2>2. txn[i] \in Pipeline
    BY <1>1, <1>8 DEF AdvancePipeline, ImportAgrees
  <2>3. state \in States
    BY <2>1, <2>2 DEF AfterStage, Pipeline, States, Awaiting
  <2>4. /\ txn' \in [Imports -> States]
        /\ \A j \in Imports \ {i} : txn'[j] = txn[j]
        /\ updateState(i, state) => txn'[i] = state
        /\ faults' \in 0 .. MaxMishaps - crashes'
    BY <1>8, <2>1, <2>3, RowWritten DEF AdvancePipeline, InstallInv
  <2> QED
    BY <1>1, <1>8, <2>1, <2>2, <2>4, ImportAtMoves
    DEF AdvancePipeline, ImportAgrees, ImportPcs
<1> QED
  BY <1>2, <1>3, <1>4, <1>5, <1>6, <1>7, <1>8 DEF ImportStep

-----------------------------------------------------------------------------
(* What a step of a confirmation does. *)

\* It writes the row of its import, past the lock only, and unless it has been
\* overruled never one that has ended.
ConfirmEffect(c) ==
    /\ confirm[c].pc \notin Ended
    /\ confirm' \in [Confirms -> Call]
    /\ \A d \in Confirms \ {c} : confirm'[d] = confirm[d]
    /\ confirm'[c].imp = confirm[c].imp
    /\ confirm'[c].pc # "idle"
    /\ Working(c)' => Working(c) \/ \A b \in Confirms : ~Before(b, c)
    /\ txn' \in [Imports -> States]
    /\ \A j \in Imports : txn'[j] # txn[j] =>
          /\ j = confirm[c].imp /\ Working(c)
          /\ Overruled(j) \/ txn[j] \notin Terminal
    /\ ConfirmAgrees(c)'
    /\ pending' \in {pending, Nobody}
    /\ packages' \in [Packages -> Imports \union {Nobody}]
    /\ skills' \in [Slugs -> Imports \union {Nobody}]
    /\ files' \in [Slugs -> Imports \union {Nobody}]
    /\ markers' \subseteq Imports
    /\ faults' \in 0 .. MaxMishaps - crashes'
    /\ UNCHANGED <<archive, imp, cancelling, crashes>>

LEMMA ConfirmDoes ==
    ASSUME InstallInv, NEW c \in Confirms, ConfirmStep(c)
    PROVE  ConfirmEffect(c)
<1> DEFINE k == confirm[c].imp
<1> USE DEF ConfirmEffect, OnlyConfirm, vault, db, Working, Ended, AtMaterializing
<1>1. /\ confirm \in [Confirms -> Call] /\ txn \in [Imports -> States]
      /\ packages \in [Packages -> Imports \union {Nobody}]
      /\ skills \in [Slugs -> Imports \union {Nobody}]
      /\ files \in [Slugs -> Imports \union {Nobody}]
      /\ markers \subseteq Imports
      /\ faults \in 0 .. MaxMishaps - crashes
      /\ ConfirmAgrees(c)
      /\ k \in Imports
      /\ confirm[c].seen \in States
  BY DEF InstallInv, InstallTypeOK, ConfirmsAgree, Call
<1>2. UNCHANGED <<imp, cancelling>> => (confirm'[c].imp = k => (Overruled(k)' <=> Overruled(k)))
  BY DEF Overruled
<1>3. Fault /\ UNCHANGED crashes => faults' \in 0 .. MaxMishaps - crashes'
  BY FaultBound DEF InstallInv
<1>4. CASE TakeLock(c)
  <2>1. CASE confirm' = [confirm EXCEPT ![c].pc = "find", ![c].seen = txn[k]] /\ UNCHANGED faults
    <3>1. /\ confirm' \in [Confirms -> Call]
          /\ \A d \in Confirms \ {c} : confirm'[d] = confirm[d]
          /\ confirm'[c].pc = "find" /\ confirm'[c].seen = txn[k] /\ confirm'[c].imp = k
      <4> DEFINE call == [confirm[c] EXCEPT !.pc = "find", !.seen = txn[k]]
      <4>1. confirm' = [confirm EXCEPT ![c] = call]
        BY <1>1, <2>1 DEF Call
      <4>2. call \in Call /\ call.pc = "find" /\ call.seen = txn[k] /\ call.imp = k
        BY <1>1 DEF Call, ConfirmPcs
      <4> HIDE DEF call
      <4> QED
        BY <1>1, <4>1, <4>2
    <3> QED
      BY <1>1, <1>2, <1>4, <2>1, <3>1 DEF TakeLock, ConfirmAgrees
  <2>2. CASE Fault /\ ConfirmAt(c, "threw")
    BY <1>1, <1>2, <1>3, <1>4, <2>2, ConfirmAtMoves DEF TakeLock, ConfirmAgrees, ConfirmPcs
  <2> QED
    BY <1>4, <2>1, <2>2 DEF TakeLock
<1>5. CASE FindInstalled(c)
  <2>1. /\ UNCHANGED faults \/ Fault
        /\ \E pc \in {"settle", "threw", "materialize", "advance"} :
              /\ ConfirmAt(c, pc)
              /\ pc \in {"settle", "materialize"} => confirm[c].seen = "materializing"
              /\ pc = "advance" => confirm[c].seen \in Reviewable
    BY <1>5 DEF FindInstalled, Reviewable
  <2> QED
    BY <1>1, <1>2, <1>3, <1>5, <2>1, ConfirmAtMoves DEF FindInstalled, ConfirmAgrees, ConfirmPcs
<1>6. CASE AdvanceConfirm(c)
  <2>1. confirm[c].seen \in Reviewable
    BY <1>1, <1>6 DEF AdvanceConfirm, ConfirmAgrees
  <2>2. PICK state \in AfterReview(confirm[c].seen) :
          \/ /\ updateState(k, state)
             /\ confirm' = [confirm EXCEPT
                               ![c].seen = state,
                               ![c].pc = IF state = "materializing" THEN "materialize" ELSE @]
          \/ Rejected(k, state) /\ ConfirmAt(c, "threw")
    BY <1>6 DEF AdvanceConfirm
  <2>3. state \in States /\ (state # "materializing" => state \in Reviewable)
    BY <2>1, <2>2 DEF AfterReview, Reviewable, Awaiting, States
  <2>4. /\ txn' \in [Imports -> States]
        /\ \A j \in Imports \ {k} : txn'[j] = txn[j]
        /\ updateState(k, state) => txn'[k] = state
        /\ Rejected(k, state) => txn' = txn
        /\ faults' \in 0 .. MaxMishaps - crashes'
    BY <1>1, <1>6, <2>2, <2>3, RowWritten DEF AdvanceConfirm, InstallInv
  <2>5. Overruled(k) \/ txn[k] \notin Terminal
    BY <1>1, <1>6, <2>1
    DEF AdvanceConfirm, ConfirmAgrees, Reviewable, Awaiting, Terminal
  <2>6. CASE Rejected(k, state) /\ ConfirmAt(c, "threw")
    BY <1>1, <1>2, <1>6, <2>4, <2>5, <2>6, ConfirmAtMoves
    DEF AdvanceConfirm, ConfirmAgrees, ConfirmPcs
  <2>7. CASE /\ updateState(k, state)
             /\ confirm' = [confirm EXCEPT
                               ![c].seen = state,
                               ![c].pc = IF state = "materializing" THEN "materialize" ELSE @]
    <3>1. /\ confirm' \in [Confirms -> Call]
          /\ \A d \in Confirms \ {c} : confirm'[d] = confirm[d]
          /\ confirm'[c].pc = IF state = "materializing" THEN "materialize" ELSE "advance"
          /\ confirm'[c].seen = state /\ confirm'[c].imp = k
      BY <1>1, <1>6, <2>3, <2>7 DEF AdvanceConfirm, Call, ConfirmPcs
    <3> QED
      BY <1>1, <1>2, <1>6, <2>3, <2>4, <2>5, <2>7, <3>1 DEF AdvanceConfirm, ConfirmAgrees
  <2> QED
    BY <2>2, <2>6, <2>7
<1>7. CASE Materialize(c)
  <2>1. CASE /\ ConfirmAt(c, "failing") /\ UNCHANGED <<packages, skills>>
             /\ UNCHANGED faults \/ Fault
    BY <1>1, <1>2, <1>3, <1>7, <2>1, ConfirmAtMoves DEF Materialize, ConfirmAgrees, ConfirmPcs
  <2>2. CASE /\ packages' = [packages EXCEPT ![ArchiveOf(c).pkg] = k]
             /\ skills' = [s \in Slugs |-> IF s \in ArchiveOf(c).slugs THEN k ELSE skills[s]]
             /\ confirm' = [confirm EXCEPT ![c].pc = "flush", ![c].unwritten = ArchiveOf(c).slugs,
                                               ![c].result = TRUE]
             /\ UNCHANGED faults
    <3>1. ArchiveOf(c).slugs \subseteq Slugs
      BY <1>1, InstallAssumption DEF ArchiveOf, Archives, InstallInv, InstallTypeOK
    <3>2. /\ confirm' \in [Confirms -> Call]
          /\ \A d \in Confirms \ {c} : confirm'[d] = confirm[d]
          /\ confirm'[c].pc = "flush" /\ confirm'[c].imp = k
      <4> DEFINE call == [confirm[c] EXCEPT !.pc = "flush", !.unwritten = ArchiveOf(c).slugs,
                                           !.result = TRUE]
      <4>1. confirm' = [confirm EXCEPT ![c] = call]
        BY <1>1, <2>2 DEF Call
      <4>2. call \in Call /\ call.pc = "flush" /\ call.imp = k
        BY ZenonT(60), <1>1, <3>1 DEF Call, ConfirmPcs
      <4> HIDE DEF call
      <4> QED
        BY <1>1, <4>1, <4>2
    <3>3. /\ packages' \in [Packages -> Imports \union {Nobody}]
          /\ skills' \in [Slugs -> Imports \union {Nobody}]
      BY <1>1, <2>2
    <3> QED
      BY <1>1, <1>2, <1>7, <2>2, <3>2, <3>3 DEF Materialize, ConfirmAgrees
  <2> QED
    BY <1>7, <2>1, <2>2 DEF Materialize
<1>8. CASE Flush(c)
  <2>1. /\ files' \in [Slugs -> Imports \union {Nobody}]
        /\ UNCHANGED faults \/ Fault
    BY <1>1, <1>8 DEF Flush
  <2>2. CASE \E pc \in {"settle", "undoSkills"} : ConfirmAt(c, pc)
    BY <1>1, <1>2, <1>3, <1>8, <2>1, <2>2, ConfirmAtMoves DEF Flush, ConfirmAgrees, ConfirmPcs
  <2>3. CASE \E s \in confirm[c].unwritten : confirm' = [confirm EXCEPT ![c].unwritten = @ \ {s}]
    <3>1. /\ confirm' \in [Confirms -> Call]
          /\ \A d \in Confirms \ {c} : confirm'[d] = confirm[d]
          /\ confirm'[c].pc = "flush" /\ confirm'[c].imp = k
      BY <1>1, <1>8, <2>3 DEF Flush, Call, ConfirmPcs
    <3> QED
      BY <1>1, <1>2, <1>3, <1>8, <2>1, <3>1 DEF Flush, ConfirmAgrees
  <2> QED
    BY <1>8, <2>2, <2>3 DEF Flush
<1>9. CASE UndoSkills(c) \/ UndoFiles(c) \/ UndoPackage(c) \/ Mark(c)
  <2>1. /\ packages' \in [Packages -> Imports \union {Nobody}]
        /\ skills' \in [Slugs -> Imports \union {Nobody}]
        /\ files' \in [Slugs -> Imports \union {Nobody}]
        /\ markers' \subseteq Imports
        /\ UNCHANGED <<txn, pending>>
        /\ UNCHANGED faults \/ Fault
        /\ UNCHANGED <<archive, imp, cancelling, crashes>>
        /\ confirm[c].pc \in {"undoSkills", "undoFiles", "undoPackage", "mark"}
    BY <1>1, <1>9 DEF UndoSkills, UndoFiles, UndoPackage, Mark, Undone
  <2>2. /\ confirm' \in [Confirms -> Call]
        /\ \A d \in Confirms \ {c} : confirm'[d] = confirm[d]
        /\ confirm'[c].pc \in AtMaterializing /\ confirm'[c].imp = k
    <3>1. CASE \E pc \in AtMaterializing : ConfirmAt(c, pc)
      BY <1>1, <3>1, ConfirmAtMoves DEF ConfirmPcs
    <3>2. CASE \E pc \in AtMaterializing, e \in {"some", "unrecorded"} :
                  confirm' = [confirm EXCEPT ![c].pc = pc, ![c].errors = e]
      <4>1. PICK pc \in AtMaterializing, e \in {"some", "unrecorded"} :
                  confirm' = [confirm EXCEPT ![c].pc = pc, ![c].errors = e]
        BY <3>2
      <4> DEFINE call == [confirm[c] EXCEPT !.pc = pc, !.errors = e]
      <4>2. confirm' = [confirm EXCEPT ![c] = call]
        BY <1>1, <4>1 DEF Call
      <4>3. call \in Call /\ call.pc = pc /\ call.imp = k
        BY ZenonT(60), <1>1 DEF Call, ConfirmPcs
      <4> HIDE DEF call
      <4> QED
        BY <1>1, <4>2, <4>3
    <3> QED
      BY <1>9, <3>1, <3>2 DEF UndoSkills, UndoFiles, UndoPackage, Mark, Undone
  <2> QED
    BY <1>1, <1>2, <1>3, <2>1, <2>2 DEF ConfirmAgrees
<1>10. CASE FailConfirm(c)
  <2>1. /\ txn' \in [Imports -> States]
        /\ \A j \in Imports \ {k} : txn'[j] = txn[j]
        /\ faults' \in 0 .. MaxMishaps - crashes'
    BY <1>1, <1>10, RowWritten DEF FailConfirm, InstallInv, States, Terminal
  <2>2. Overruled(k) \/ txn[k] \notin Terminal
    BY <1>1, <1>10 DEF FailConfirm, ConfirmAgrees, Terminal
  <2> QED
    BY <1>1, <1>2, <1>10, <2>1, <2>2, ConfirmAtMoves DEF FailConfirm, ConfirmAgrees, ConfirmPcs
<1>11. CASE Settle(c)
  <2>1. /\ txn' \in [Imports -> States]
        /\ \A j \in Imports \ {k} : txn'[j] = txn[j]
        /\ updateState(k, "installed") => txn'[k] = "installed"
        /\ Rejected(k, "installed") => txn' = txn
        /\ txn'[k] \in {txn[k], "installed"}
        /\ faults' \in 0 .. MaxMishaps - crashes'
    BY <1>1, <1>11, RowWritten DEF Settle, InstallInv, States, Terminal
  <2>2. \E pc \in {"finish", "ok", "threw"} :
            /\ ConfirmAt(c, pc)
            /\ pc = "finish" => updateState(k, "installed")
    BY <1>11 DEF Settle
  <2>3. txn'[k] # txn[k] => Overruled(k) \/ txn[k] \notin Terminal
    BY <1>1, <1>11, <2>1 DEF Settle, ConfirmAgrees, Terminal
  <2>4. pending' \in {pending, Nobody}
    BY <1>11 DEF Settle
  <2> QED
    BY <1>1, <1>2, <1>11, <2>1, <2>2, <2>3, <2>4, ConfirmAtMoves
    DEF Settle, ConfirmAgrees, ConfirmPcs
<1> QED
  BY <1>4, <1>5, <1>6, <1>7, <1>8, <1>9, <1>10, <1>11 DEF ConfirmStep

-----------------------------------------------------------------------------
(* What the other steps do. *)

\* A confirmation starts waiting, for the install that is pending.
StartEffect(c) ==
    /\ pending # Nobody
    /\ confirm[c].pc = "idle"
    /\ \A b \in Confirms : b < c => confirm[b].pc # "idle"
    /\ confirm' \in [Confirms -> Call]
    /\ \A d \in Confirms \ {c} : confirm'[d] = confirm[d]
    /\ confirm'[c].imp = pending /\ confirm'[c].pc = "waiting"
    /\ UNCHANGED <<archive, db, vault, imp, cancelling, pending, faults, crashes>>

LEMMA StartDoes ==
    ASSUME InstallInv, NEW c \in Confirms, StartConfirm(c)
    PROVE  StartEffect(c)
<1>1. confirm \in [Confirms -> Call] /\ pending \in Imports
  BY DEF InstallInv, InstallTypeOK, Call, StartConfirm
<1>2. /\ confirm' \in [Confirms -> Call]
      /\ \A d \in Confirms \ {c} : confirm'[d] = confirm[d]
      /\ confirm'[c].imp = pending /\ confirm'[c].pc = "waiting"
  <2> DEFINE call == [confirm[c] EXCEPT !.pc = "waiting", !.imp = pending]
  <2>1. confirm' = [confirm EXCEPT ![c] = call]
    BY <1>1 DEF StartConfirm, Call
  <2>2. call \in Call /\ call.pc = "waiting" /\ call.imp = pending
    BY <1>1 DEF Call, ConfirmPcs
  <2> HIDE DEF call
  <2> QED
    BY <1>1, <2>1, <2>2
<1> QED
  BY <1>2 DEF StartEffect, StartConfirm, OnlyConfirm

\* A cancel of import i writes a row it has overruled, and is never forgotten.
CancelEffect(i) ==
    /\ cancelling' \in [Imports -> [pc : CancelPcs, seen : States]]
    /\ cancelling'[i].pc # "idle"
    /\ \A j \in Imports \ {i} : cancelling'[j] = cancelling[j]
    /\ txn' \in [Imports -> States]
    /\ \A j \in Imports : txn'[j] # txn[j] => j = i /\ cancelling[i].pc # "idle"
    /\ cancelling[i].pc = "idle" => pending = i
    /\ pending' \in {pending, Nobody}
    /\ faults' \in 0 .. MaxMishaps - crashes'
    /\ UNCHANGED <<archive, packages, skills, vault, imp, confirm, crashes>>

LEMMA CancelDoes ==
    ASSUME InstallInv,
           NEW i \in Imports,
           (CloseDialog /\ i = pending) \/ LoadForCancel(i) \/ WriteCancel(i)
    PROVE  CancelEffect(i)
<1> USE DEF CancelEffect, OnlyCancel, CancelAt
<1>1. /\ cancelling \in [Imports -> [pc : CancelPcs, seen : States]]
      /\ txn \in [Imports -> States]
      /\ faults \in 0 .. MaxMishaps - crashes
      /\ NoRow \in States
  BY DEF InstallInv, InstallTypeOK, States
<1>2. Fault /\ UNCHANGED crashes => faults' \in 0 .. MaxMishaps - crashes'
  BY FaultBound DEF InstallInv
<1>3. CASE CloseDialog /\ i = pending
  BY <1>1, <1>3 DEF CloseDialog, CancelPcs
<1>4. CASE LoadForCancel(i)
  BY <1>1, <1>2, <1>4 DEF LoadForCancel, CancelPcs
<1>5. CASE WriteCancel(i)
  <2> DEFINE state == CancelState(cancelling[i].seen)
  <2>1. state \in States
    BY DEF CancelState, States, Terminal
  <2>2. updateState(i, state) \/ Rejected(i, state)
    BY <1>5 DEF WriteCancel
  <2>3. /\ txn' \in [Imports -> States]
        /\ \A j \in Imports \ {i} : txn'[j] = txn[j]
        /\ faults' \in 0 .. MaxMishaps - crashes'
    BY <1>5, <2>1, <2>2, RowWritten DEF WriteCancel, InstallInv
  <2>4. \E pc \in {"finish", "over"} : CancelAt(i, pc)
    BY <1>5 DEF WriteCancel
  <2> QED
    BY <1>1, <1>5, <2>3, <2>4 DEF WriteCancel, CancelPcs
<1> QED
  BY <1>3, <1>4, <1>5

\* After a restart every call has ended, and what was overruled still is.
CrashEffect ==
    /\ imp' \in [Imports -> Import]
    /\ \A i \in Imports : /\ imp'[i].stale = imp[i].stale
                          /\ imp[i].pc = "idle" => imp'[i].pc = "idle"
                          /\ imp[i].pc # "idle" => imp'[i].pc \in Through
    /\ confirm' \in [Confirms -> Call]
    /\ \A c \in Confirms : /\ confirm'[c].imp = confirm[c].imp
                           /\ confirm'[c].pc \in Ended
                           /\ confirm[c].pc = "idle" <=> confirm'[c].pc = "idle"
    /\ cancelling' \in [Imports -> [pc : CancelPcs, seen : States]]
    /\ \A i \in Imports : cancelling'[i].pc = "idle" <=> cancelling[i].pc = "idle"
    /\ pending' = Nobody
    /\ crashes' \in 0 .. MaxCrashes /\ faults' \in 0 .. MaxMishaps - crashes'
    /\ UNCHANGED <<archive, db, vault>>

LEMMA CrashDoes ==
    ASSUME InstallInv, Crash
    PROVE  CrashEffect
<1>1. /\ imp \in [Imports -> Import]
      /\ confirm \in [Confirms -> Call]
      /\ cancelling \in [Imports -> [pc : CancelPcs, seen : States]]
      /\ crashes \in 0 .. MaxCrashes /\ faults \in 0 .. MaxMishaps - crashes
      /\ NoRow \in States
  BY DEF InstallInv, InstallTypeOK, Import, Call, States
<1>2. /\ imp' \in [Imports -> Import]
      /\ \A i \in Imports : /\ imp'[i].stale = imp[i].stale
                            /\ imp[i].pc = "idle" => imp'[i].pc = "idle"
                            /\ imp[i].pc # "idle" => imp'[i].pc \in Through
  BY <1>1 DEF Crash, Import, ImportPcs, Through
<1>3. \A c \in Confirms :
        /\ Left(confirm[c], "gone") \in Call
        /\ Left(confirm[c], "gone").pc = "gone"
        /\ Left(confirm[c], "gone").imp = confirm[c].imp
  BY <1>1, LeftKeeps DEF ConfirmPcs
<1>4. /\ confirm' \in [Confirms -> Call]
      /\ \A c \in Confirms : /\ confirm'[c].imp = confirm[c].imp
                             /\ confirm'[c].pc \in Ended
                             /\ confirm[c].pc = "idle" <=> confirm'[c].pc = "idle"
  BY <1>1, <1>3 DEF Crash, Ended
<1>5. /\ cancelling' \in [Imports -> [pc : CancelPcs, seen : States]]
      /\ \A i \in Imports : cancelling'[i].pc = "idle" <=> cancelling[i].pc = "idle"
  BY <1>1 DEF Crash, CancelPcs
<1>6. crashes' \in 0 .. MaxCrashes /\ faults' \in 0 .. MaxMishaps - crashes'
  BY <1>1, InstallAssumption DEF Crash
<1> QED
  BY <1>2, <1>4, <1>5, <1>6 DEF Crash, CrashEffect

-----------------------------------------------------------------------------
(* InstallInv is inductive. *)

\* The steps by what they do.
LEMMA StepEffect ==
    ASSUME InstallInv, InstallNext
    PROVE  \/ \E i \in Imports : ImportEffect(i)
           \/ \E c \in Confirms : ConfirmEffect(c)
           \/ \E c \in Confirms : StartEffect(c)
           \/ \E i \in Imports : CancelEffect(i)
           \/ CrashEffect
<1>1. CloseDialog => pending \in Imports
  BY DEF CloseDialog, InstallInv, InstallTypeOK
<1>2. CASE \E i \in Imports : StartImport(i) \/ ImportStep(i)
  BY <1>2, ImportDoes
<1>3. CASE \E c \in Confirms : ConfirmStep(c)
  BY <1>3, ConfirmDoes
<1>4. CASE \E c \in Confirms : StartConfirm(c)
  BY <1>4, StartDoes
<1>5. CASE CloseDialog \/ \E i \in Imports : LoadForCancel(i) \/ WriteCancel(i)
  BY <1>1, <1>5, CancelDoes
<1>6. CASE Crash
  BY <1>6, CrashDoes
<1> QED
  BY <1>2, <1>3, <1>4, <1>5, <1>6 DEF InstallNext

\* Who has been overruled stays so.
LEMMA OverruledStays ==
    ASSUME InstallInv, InstallNext, NEW i \in Imports, Overruled(i)
    PROVE  Overruled(i)'
<1>1. i # Nobody
  BY DEF Imports, Nobody
<1>2. ASSUME NEW j \in Imports, ImportEffect(j) PROVE Overruled(i)'
  BY <1>1, <1>2 DEF ImportEffect, Overruled
<1>3. ASSUME NEW c \in Confirms, ConfirmEffect(c) \/ StartEffect(c) PROVE Overruled(i)'
  BY <1>3 DEF ConfirmEffect, StartEffect, Overruled
<1>4. ASSUME NEW j \in Imports, CancelEffect(j) PROVE Overruled(i)'
  BY <1>4 DEF CancelEffect, Overruled
<1>5. CASE CrashEffect
  BY <1>5 DEF CrashEffect, Overruled
<1> QED
  BY <1>2, <1>3, <1>4, <1>5, StepEffect

LEMMA TypeStep ==
    ASSUME InstallInv, InstallNext
    PROVE  InstallTypeOK'
<1> USE DEF Import, Call, db, vault
<1>1. InstallTypeOK
  BY DEF InstallInv
<1>2. ASSUME NEW i \in Imports, ImportEffect(i) PROVE InstallTypeOK'
  BY <1>1, <1>2 DEF ImportEffect, InstallTypeOK
<1>3. ASSUME NEW c \in Confirms, ConfirmEffect(c) PROVE InstallTypeOK'
  BY <1>1, <1>3 DEF ConfirmEffect, InstallTypeOK
<1>4. ASSUME NEW c \in Confirms, StartEffect(c) PROVE InstallTypeOK'
  BY <1>1, <1>4 DEF StartEffect, InstallTypeOK
<1>5. ASSUME NEW i \in Imports, CancelEffect(i) PROVE InstallTypeOK'
  BY <1>1, <1>5 DEF CancelEffect, InstallTypeOK
<1>6. CASE CrashEffect
  BY <1>1, <1>6 DEF CrashEffect, InstallTypeOK
<1> QED
  BY <1>2, <1>3, <1>4, <1>5, <1>6, StepEffect

LEMMA ImportsAgreeStep ==
    ASSUME InstallInv, InstallNext
    PROVE  ImportsAgree'
<1>1. InstallTypeOK /\ ImportsAgree /\ OnlyReviewed
  BY DEF InstallInv
<1> SUFFICES ASSUME NEW k \in Imports
             PROVE  ImportAgrees(k)' /\ (Overruled(k)' => imp'[k].pc \in Through)
  BY DEF ImportsAgree
<1>2. /\ ImportAgrees(k) /\ (Overruled(k) => imp[k].pc \in Through)
      /\ imp[k].pc \in ImportPcs /\ k # Nobody
  BY <1>1 DEF ImportsAgree, InstallTypeOK, Imports, Nobody
\* The row of an import that is not through is written by itself alone.
<1>3. txn[k] = "materializing" => imp[k].pc \in Through
  BY <1>2 DEF ImportAgrees, ImportPcs, Through, Pipeline, NoRow
<1>4. ASSUME NEW i \in Imports, ImportEffect(i)
      PROVE  ImportAgrees(k)' /\ (Overruled(k)' => imp'[k].pc \in Through)
  <2>1. CASE i = k
    <3>1. Overruled(k)' => Overruled(k)
      BY <1>1, <1>2, <1>4, <2>1 DEF ImportEffect, Overruled
    <3> QED
      BY <1>2, <1>4, <2>1, <3>1 DEF ImportEffect
  <2>2. CASE i # k
    <3>1. imp'[k] = imp[k]
      BY <1>4, <2>2 DEF ImportEffect
    <3>2. Overruled(k)' => Overruled(k) \/ txn[k] = "materializing"
      BY <1>4 DEF ImportEffect, Overruled
    <3>3. txn'[k] # txn[k] => Overruled(k)
      BY <1>4, <2>2 DEF ImportEffect, Overruled
    <3> QED
      BY <1>2, <1>3, <3>1, <3>2, <3>3 DEF ImportAgrees, Through
  <2> QED
    BY <2>1, <2>2
<1>5. ASSUME NEW c \in Confirms, ConfirmEffect(c)
      PROVE  ImportAgrees(k)' /\ (Overruled(k)' => imp'[k].pc \in Through)
  <2>1. Overruled(k)' => Overruled(k)
    BY <1>5 DEF ConfirmEffect, Overruled
  <2>2. txn'[k] # txn[k] => imp[k].pc = "reviewed"
    BY <1>1, <1>5 DEF ConfirmEffect, OnlyReviewed
  <2>3. imp' = imp
    BY <1>5 DEF ConfirmEffect
  <2> QED
    BY <1>2, <2>1, <2>2, <2>3 DEF ImportAgrees
<1>6. ASSUME NEW c \in Confirms, StartEffect(c)
      PROVE  ImportAgrees(k)' /\ (Overruled(k)' => imp'[k].pc \in Through)
  BY <1>2, <1>6 DEF StartEffect, db, ImportAgrees, Overruled
<1>7. ASSUME NEW i \in Imports, CancelEffect(i)
      PROVE  ImportAgrees(k)' /\ (Overruled(k)' => imp'[k].pc \in Through)
  <2>1. Overruled(k)' => Overruled(k) \/ pending = k
    BY <1>7 DEF CancelEffect, Overruled
  <2>2. pending = k => imp[k].pc = "reviewed"
    BY <1>1, <1>2 DEF OnlyReviewed
  <2>3. txn'[k] # txn[k] => Overruled(k)
    BY <1>7 DEF CancelEffect, Overruled
  <2>4. imp' = imp
    BY <1>7 DEF CancelEffect
  <2> QED
    BY <1>2, <2>1, <2>2, <2>3, <2>4 DEF ImportAgrees, Through
<1>8. CASE CrashEffect
  BY <1>2, <1>8 DEF CrashEffect, db, ImportAgrees, Overruled, Through
<1> QED
  BY <1>4, <1>5, <1>6, <1>7, <1>8, StepEffect

LEMMA OnlyReviewedStep ==
    ASSUME InstallInv, InstallNext
    PROVE  OnlyReviewed'
<1>1. /\ OnlyReviewed /\ Nobody \notin Imports
      /\ pending \in Imports \union {Nobody}
      /\ \A c \in Confirms : confirm[c].imp \in Imports
  BY DEF InstallInv, InstallTypeOK, Imports, Nobody
<1>2. ASSUME NEW i \in Imports, ImportEffect(i) PROVE OnlyReviewed'
  <2>1. imp[i].pc # "reviewed"
    BY <1>2 DEF ImportEffect, Through
  <2>2. \A j \in Imports : imp[j].pc = "reviewed" => imp'[j].pc = "reviewed"
    BY <1>2, <2>1 DEF ImportEffect
  <2> QED
    BY <1>1, <1>2, <2>2 DEF ImportEffect, OnlyReviewed
<1>3. ASSUME NEW c \in Confirms, ConfirmEffect(c) PROVE OnlyReviewed'
  BY <1>1, <1>3 DEF ConfirmEffect, OnlyReviewed
<1>4. ASSUME NEW c \in Confirms, StartEffect(c) PROVE OnlyReviewed'
  BY <1>1, <1>4 DEF StartEffect, OnlyReviewed
<1>5. ASSUME NEW i \in Imports, CancelEffect(i) PROVE OnlyReviewed'
  BY <1>1, <1>5 DEF CancelEffect, OnlyReviewed
<1>6. CASE CrashEffect
  BY <1>6 DEF CrashEffect, OnlyReviewed
<1> QED
  BY <1>2, <1>3, <1>4, <1>5, <1>6, StepEffect

LEMMA OneWorksStep ==
    ASSUME InstallInv, InstallNext
    PROVE  OneWorks'
<1>1. OneWorks
  BY DEF InstallInv
<1> USE DEF Working
<1>2. ASSUME NEW i \in Imports, ImportEffect(i) \/ CancelEffect(i) PROVE OneWorks'
  BY <1>1, <1>2 DEF ImportEffect, CancelEffect, OneWorks
<1>3. ASSUME NEW c \in Confirms, ConfirmEffect(c) PROVE OneWorks'
  <2> SUFFICES ASSUME NEW a \in Confirms, NEW b \in Confirms, a < b
               PROVE  /\ confirm'[a].pc = "idle" => confirm'[b].pc = "idle"
                      /\ confirm'[a].imp = confirm'[b].imp /\ Working(b)' => confirm'[a].pc \in Ended
    BY DEF OneWorks
  <2>1. /\ confirm[a].pc = "idle" => confirm[b].pc = "idle"
        /\ confirm[a].imp = confirm[b].imp /\ Working(b) => confirm[a].pc \in Ended
    BY <1>1 DEF OneWorks
  <2>2. CASE c = a
    BY <1>3, <2>1, <2>2 DEF ConfirmEffect, Ended, Confirms
  <2>3. CASE c = b
    <3>1. confirm'[a] = confirm[a] /\ confirm'[b].imp = confirm[b].imp /\ confirm[b].pc # "idle"
      BY <1>3, <2>3 DEF ConfirmEffect, Ended, Confirms
    <3>2. Working(b)' => Working(b) \/ ~Before(a, b)
      BY <1>3, <2>3 DEF ConfirmEffect
    <3> QED
      BY <2>1, <3>1, <3>2 DEF Before
  <2>4. CASE c # a /\ c # b
    BY <1>3, <2>1, <2>4 DEF ConfirmEffect
  <2> QED
    BY <2>2, <2>3, <2>4
<1>4. ASSUME NEW c \in Confirms, StartEffect(c) PROVE OneWorks'
  BY <1>1, <1>4 DEF StartEffect, OneWorks, Ended, Confirms
<1>5. CASE CrashEffect
  BY <1>1, <1>5 DEF CrashEffect, OneWorks
<1> QED
  BY <1>2, <1>3, <1>4, <1>5, StepEffect

LEMMA ConfirmsAgreeStep ==
    ASSUME InstallInv, InstallNext
    PROVE  ConfirmsAgree'
<1> SUFFICES ASSUME NEW c \in Confirms PROVE ConfirmAgrees(c)'
  BY DEF ConfirmsAgree
<1> DEFINE k == confirm[c].imp
<1>1. /\ ConfirmAgrees(c) /\ OneWorks /\ OnlyReviewed
      /\ k \in Imports
  BY DEF InstallInv, InstallTypeOK, ConfirmsAgree
<1>2. \A i \in Imports : Overruled(i) => Overruled(i)'
  BY OverruledStays
<1> USE DEF AtMaterializing
\* A step that leaves this call alone leaves it its row.
<1>3. ASSUME confirm'[c] = confirm[c], txn'[k] = txn[k] PROVE ConfirmAgrees(c)'
  BY <1>1, <1>2, <1>3 DEF ConfirmAgrees
<1>4. ASSUME confirm'[c] = confirm[c], Overruled(k) PROVE ConfirmAgrees(c)'
  BY <1>1, <1>2, <1>4 DEF ConfirmAgrees
<1>5. ASSUME confirm'[c].pc \in Ended \union {"waiting"} PROVE ConfirmAgrees(c)'
  BY <1>5 DEF ConfirmAgrees, Ended
<1>6. ASSUME NEW i \in Imports, ImportEffect(i) PROVE ConfirmAgrees(c)'
  <2>1. CASE confirm[c].pc \in Ended
    BY <1>5, <1>6, <2>1 DEF ImportEffect
  <2>2. CASE confirm[c].pc \notin Ended
    <3>1. i # k
      BY <1>1, <1>6, <2>2 DEF ImportEffect, OnlyReviewed, Through
    <3>2. txn'[k] # txn[k] => Overruled(k)
      BY <1>1, <1>6, <3>1 DEF ImportEffect, Overruled
    <3> QED
      BY <1>3, <1>4, <1>6, <3>2 DEF ImportEffect
  <2> QED
    BY <2>1, <2>2
<1>7. ASSUME NEW d \in Confirms, ConfirmEffect(d) PROVE ConfirmAgrees(c)'
  <2>1. CASE d = c
    BY <1>7, <2>1 DEF ConfirmEffect
  <2>2. CASE d # c /\ txn'[k] = txn[k]
    BY <1>3, <1>7, <2>2 DEF ConfirmEffect
  <2>3. CASE d # c /\ txn'[k] # txn[k]
    <3>1. Working(d) /\ confirm[d].imp = k /\ confirm'[c] = confirm[c]
      BY <1>1, <1>7, <2>3 DEF ConfirmEffect
    <3>2. ~Working(c)
      BY <1>1, <2>3, <3>1 DEF OneWorks, Working, Confirms
    <3> QED
      BY <1>5, <3>1, <3>2 DEF Working, ConfirmAgrees, Ended
  <2> QED
    BY <2>1, <2>2, <2>3
<1>8. ASSUME NEW d \in Confirms, StartEffect(d) PROVE ConfirmAgrees(c)'
  <2>1. CASE d = c
    BY <1>5, <1>8, <2>1 DEF StartEffect
  <2>2. CASE d # c
    BY <1>3, <1>8, <2>2 DEF StartEffect, db
  <2> QED
    BY <2>1, <2>2
<1>9. ASSUME NEW i \in Imports, CancelEffect(i) PROVE ConfirmAgrees(c)'
  <2>1. txn'[k] # txn[k] => Overruled(k)
    BY <1>1, <1>9 DEF CancelEffect, Overruled
  <2> QED
    BY <1>3, <1>4, <1>9, <2>1 DEF CancelEffect
<1>10. CASE CrashEffect
  BY <1>5, <1>10 DEF CrashEffect
<1> QED
  BY <1>6, <1>7, <1>8, <1>9, <1>10, StepEffect

LEMMA InstallInvInit == InstallInit => InstallInv
<1> SUFFICES ASSUME InstallInit PROVE InstallInv
  OBVIOUS
<1>1. InstallTypeOK
  BY InstallAssumption
  DEF InstallInit, InstallTypeOK, States, ImportPcs, ConfirmPcs, CancelPcs, Imports, Nobody
<1>2. /\ \A i \in Imports : imp[i].pc = "idle" /\ imp[i].stale = Nobody
                          /\ cancelling[i].pc = "idle" /\ txn[i] = NoRow
      /\ \A c \in Confirms : confirm[c].pc = "idle"
      /\ pending = Nobody /\ Nobody \notin Imports
  BY DEF InstallInit, Imports, Nobody
<1>3. ImportsAgree
  BY <1>2 DEF ImportsAgree, ImportAgrees, Overruled
<1>4. OnlyReviewed /\ OneWorks /\ ConfirmsAgree
  BY <1>2 DEF OnlyReviewed, OneWorks, ConfirmsAgree, ConfirmAgrees, Working, Ended, AtMaterializing
<1> QED
  BY <1>1, <1>3, <1>4 DEF InstallInv

LEMMA InstallInvStep == InstallInv /\ [InstallNext]_installVars => InstallInv'
<1>1. CASE UNCHANGED installVars
  BY <1>1 DEF installVars, db, vault, calls, InstallInv, InstallTypeOK, ImportsAgree, ImportAgrees,
     OnlyReviewed, OneWorks, Working, ConfirmsAgree, ConfirmAgrees, Overruled
<1>2. CASE InstallNext
  BY <1>2, TypeStep, ImportsAgreeStep, OnlyReviewedStep, OneWorksStep, ConfirmsAgreeStep
  DEF InstallInv
<1> QED
  BY <1>1, <1>2

LEMMA InstallInvAlways == InstallSpec => []InstallInv
BY InstallInvInit, InstallInvStep, PTL DEF InstallSpec

-----------------------------------------------------------------------------
(* Results. *)

\* In every reachable state the rows, the calls and the pending install are what
\* InstallService says they are: an archive, a state, a position, an import.
THEOREM InstallTypeAlways == InstallSpec => []InstallTypeOK
<1>1. InstallInv => InstallTypeOK
  BY DEF InstallInv
<1> QED
  BY <1>1, InstallInvAlways, PTL

\* A row that has ended (installed, failed, rolled back or cancelled) is written
\* over only where the user's cancel or an import that took it for stuck meddles
\* with it; the confirmations of one import, however many and however they fail,
\* and the restarts of the renderer never do.
THEOREM TerminalStaysAlways == InstallSpec => TerminalStays
<1>1. InstallInv /\ [InstallNext]_installVars =>
        [\A i \in Imports : txn[i] \in Terminal /\ txn'[i] # txn[i] => Overruled(i)]_installVars
  <2> SUFFICES ASSUME InstallInv, InstallNext, NEW i \in Imports,
                      txn[i] \in Terminal, txn'[i] # txn[i]
               PROVE  Overruled(i)
    OBVIOUS
  <2>1. ASSUME NEW j \in Imports, ImportEffect(j) PROVE Overruled(i)
    BY <2>1 DEF ImportEffect, Overruled, Terminal, Pipeline, NoRow
  <2>2. ASSUME NEW c \in Confirms, ConfirmEffect(c) PROVE Overruled(i)
    BY <2>2 DEF ConfirmEffect
  <2>3. ASSUME NEW j \in Imports, CancelEffect(j) PROVE Overruled(i)
    BY <2>3 DEF CancelEffect, Overruled
  <2> QED
    BY <2>1, <2>2, <2>3, StepEffect DEF StartEffect, CrashEffect, db
<1> QED
  BY <1>1, InstallInvAlways, PTL DEF InstallSpec, TerminalStays

-----------------------------------------------------------------------------
(* Whose the rows and the files are. *)

\* The traces of import i in the database and the vault, and the record that
\* some could not be deleted.
Traced(i) ==
    (\E p \in Packages : packages[p] = i) \/ \E s \in Slugs : i \in {skills[s], files[s]}

Marked(i) ==
    i \in markers \/ \E c \in Confirms : confirm[c].imp = i /\ confirm[c].errors = "unrecorded"

\* An import has traces of its own archive only, and not before it is confirmed;
\* its package goes last, unless a marker is to follow or a restart intervenes.
TracesAgree(i) ==
    /\ \A p \in Packages : packages[p] = i => p = archive[i].pkg
    /\ \A s \in Slugs : i \in {skills[s], files[s]} => s \in archive[i].slugs
    /\ Traced(i) =>
          /\ imp[i].pc \in Through
          /\ \/ packages[archive[i].pkg] = i
             \/ Marked(i)
             \/ \E c \in Confirms : confirm[c].imp = i /\ confirm[c].pc \in {"mark", "gone"}

\* FailedOwnsNothing, of one import.
LeavesNothing(i) == txn[i] \in allowsNewAttempt /\ ~Overruled(i) => ~Traced(i) \/ Marked(i)

Early   == {"idle", "waiting", "find", "advance", "materialize"}
Undoing == {"undoSkills", "undoFiles", "undoPackage"}
Settled == {"settle", "finish", "ok"}

\* The calls that have materialized, and as long as they hold what they inserted.
Owning(c)      == confirm[c].result /\ confirm[c].pc \in {"flush"} \union Undoing \union Settled
HoldsSkills(c) == confirm[c].result /\ confirm[c].pc \in {"flush", "undoSkills"} \union Settled
HoldsFiles(c)  == confirm[c].result /\ confirm[c].pc \in {"flush"} \union Settled

Written(c) == IF confirm[c].pc = "flush" THEN ArchiveOf(c).slugs \ confirm[c].unwritten
                                         ELSE ArchiveOf(c).slugs

\* What a call holds, and what it has left behind by the time it reports failure.
Holdings(c) ==
    /\ Owning(c) => packages[ArchiveOf(c).pkg] = confirm[c].imp
    /\ HoldsSkills(c) => \A s \in ArchiveOf(c).slugs : skills[s] = confirm[c].imp
    /\ HoldsFiles(c) => \A s \in Written(c) : files[s] = confirm[c].imp \/ Contested(c, s)

Leavings(c) ==
    /\ confirm[c].pc \in {"advance", "materialize", "failing"} =>
          packages[ArchiveOf(c).pkg] # confirm[c].imp \/ Marked(confirm[c].imp)
    /\ confirm[c].errors = "none" =>
          /\ confirm[c].pc \in {"undoFiles", "undoPackage"} =>
                \A s \in Slugs : skills[s] # confirm[c].imp
          /\ confirm[c].pc = "undoPackage" => \A s \in Slugs : files[s] # confirm[c].imp

\* What the record of a call says of itself.
CallFits(c) ==
    /\ confirm[c].pc \in Early => ~confirm[c].result
    /\ confirm[c].pc \in {"flush"} \union Undoing => confirm[c].result
    /\ confirm[c].pc \in Early \union {"flush", "mark"} \union Undoing =>
          confirm[c].errors # "unrecorded"
    /\ confirm[c].pc = "flush" => confirm[c].unwritten \subseteq ArchiveOf(c).slugs
    /\ confirm[c].pc \in Undoing => faults > 0
    /\ confirm[c].pc = "gone" => imp[confirm[c].imp].pc \in {"refused", "over"}

\* No two calls hold the row of one package.
OwnersDiffer ==
    \A b, c \in Confirms :
        b # c /\ Owning(b) /\ Owning(c) => ArchiveOf(b).pkg # ArchiveOf(c).pkg

PackagesAgree ==
    /\ \A i \in Imports : TracesAgree(i) /\ LeavesNothing(i)
    /\ \A c \in Confirms : CallFits(c) /\ Holdings(c) /\ Leavings(c)
    /\ OwnersDiffer
    /\ FileHasRow

-----------------------------------------------------------------------------
(* What a step of a confirmation does to the rows and the files. *)

\* The step of call c leaves what it has to answer for.
Same == UNCHANGED <<packages, skills, files, markers>>
Kept(c) == confirm'[c].result = confirm[c].result /\ confirm'[c].errors = confirm[c].errors

\* A step that touches neither rows of the package nor files.
Moves(c) ==
    LET pc == confirm[c].pc
        to == confirm'[c].pc
    IN  \/ pc = "waiting" /\ to \in {"find", "threw"}
        \/ pc = "find" /\ to \in {"settle", "threw"}
        \/ /\ pc = "find" /\ to \in {"advance", "materialize"}
           /\ packages[ArchiveOf(c).pkg] = Nobody
        \/ pc = "advance" /\ to \in {"advance", "materialize", "threw"}
        \/ pc = "materialize" /\ to = "failing"
        \/ pc = "flush" /\ to = "settle" /\ confirm[c].unwritten = {}
        \/ pc = "flush" /\ to = "undoSkills" /\ faults' > 0
        \/ pc = "failing" /\ to = "threw"
        \/ pc = "settle" /\ to \in {"finish", "threw"}
        \/ pc = "finish" /\ to \in {"ok", "threw"}

QuietEffect(c) == Same /\ Kept(c) /\ Moves(c)

MaterializeEffect(c) ==
    /\ confirm[c].pc = "materialize" /\ confirm'[c].pc = "flush"
    /\ packages[ArchiveOf(c).pkg] = Nobody
    /\ \A s \in ArchiveOf(c).slugs : skills[s] = Nobody
    /\ packages' = [packages EXCEPT ![ArchiveOf(c).pkg] = confirm[c].imp]
    /\ skills' = [s \in Slugs |-> IF s \in ArchiveOf(c).slugs THEN confirm[c].imp ELSE skills[s]]
    /\ confirm'[c].result /\ confirm'[c].errors = confirm[c].errors
    /\ confirm'[c].unwritten = ArchiveOf(c).slugs
    /\ UNCHANGED <<files, markers, txn>>

WriteEffect(c) ==
    /\ confirm[c].pc = "flush" /\ confirm'[c].pc = "flush"
    /\ \E s \in confirm[c].unwritten :
          /\ files' = [files EXCEPT ![s] = confirm[c].imp]
          /\ confirm'[c].unwritten = confirm[c].unwritten \ {s}
    /\ Kept(c)
    /\ UNCHANGED <<packages, skills, markers, txn>>

UndoSkillsEffect(c) ==
    /\ confirm[c].pc = "undoSkills" /\ confirm'[c].pc = "undoFiles"
    /\ confirm'[c].result = confirm[c].result
    /\ \E kept \in SUBSET ArchiveOf(c).slugs :
          /\ \/ kept = {} /\ confirm'[c].errors = confirm[c].errors
             \/ confirm'[c].errors = "some"
          /\ skills' = [s \in Slugs |-> IF s \in ArchiveOf(c).slugs \ kept
                                        THEN Nobody ELSE skills[s]]
    /\ UNCHANGED <<packages, files, markers, txn>>

UndoFilesEffect(c) ==
    /\ confirm[c].pc = "undoFiles" /\ confirm'[c].pc = "undoPackage"
    /\ confirm'[c].result = confirm[c].result
    /\ \E kept \in SUBSET ArchiveOf(c).slugs :
          /\ \/ kept = {} /\ confirm'[c].errors = confirm[c].errors
             \/ confirm'[c].errors = "some"
          /\ files' = [s \in Slugs |-> IF s \in ArchiveOf(c).slugs \ kept
                                       THEN Nobody ELSE files[s]]
    /\ UNCHANGED <<packages, skills, markers, txn>>

UndoPackageEffect(c) ==
    /\ confirm[c].pc = "undoPackage"
    /\ \/ /\ packages' = [packages EXCEPT ![ArchiveOf(c).pkg] = Nobody]
          /\ confirm'[c].pc = IF confirm[c].errors = "some" THEN "mark" ELSE "failing"
       \/ UNCHANGED packages /\ confirm'[c].pc = "mark"
    /\ Kept(c)
    /\ UNCHANGED <<skills, files, markers, txn>>

MarkEffect(c) ==
    /\ confirm[c].pc = "mark" /\ confirm'[c].pc = "failing"
    /\ confirm'[c].result = confirm[c].result
    /\ \/ markers' = markers \union {confirm[c].imp} /\ confirm'[c].errors = confirm[c].errors
       \/ confirm'[c].errors = "unrecorded" /\ UNCHANGED markers
    /\ UNCHANGED <<packages, skills, files, txn>>

PackageEffect(c) ==
    \/ QuietEffect(c) \/ MaterializeEffect(c) \/ WriteEffect(c) \/ UndoSkillsEffect(c)
    \/ UndoFilesEffect(c) \/ UndoPackageEffect(c) \/ MarkEffect(c)

\* Only a call that has failed writes a state that allows a new attempt.
EndsFailed(c) ==
    \A i \in Imports : txn'[i] # txn[i] /\ txn'[i] \in allowsNewAttempt =>
        i = confirm[c].imp /\ confirm[c].pc = "failing"

LEMMA PackageDoes ==
    ASSUME InstallInv, NEW c \in Confirms, ConfirmStep(c)
    PROVE  PackageEffect(c) /\ EndsFailed(c) /\ faults' >= faults
<1> DEFINE k == confirm[c].imp
<1>1. /\ confirm \in [Confirms -> Call] /\ txn \in [Imports -> States]
      /\ k \in Imports /\ confirm[c].seen \in States
      /\ faults \in Nat
      /\ ConfirmAgrees(c)
  BY InstallAssumption DEF InstallInv, InstallTypeOK, ConfirmsAgree, Call
<1>a. /\ UNCHANGED faults => faults' >= faults
      /\ Fault => faults' >= faults /\ faults' > 0
  BY <1>1 DEF Fault
<1>b. \A i \in Imports, state \in States :
         updateState(i, state) \/ Rejected(i, state) =>
            /\ \A j \in Imports : txn'[j] # txn[j] => j = i /\ txn'[j] = state
            /\ UNCHANGED faults \/ Fault
  BY <1>1 DEF updateState, Rejected
<1> USE DEF OnlyConfirm, vault, db, Same, Kept
<1>2. CASE TakeLock(c)
  <2>1. CASE confirm' = [confirm EXCEPT ![c].pc = "find", ![c].seen = txn[k]] /\ UNCHANGED faults
    <3>1. /\ confirm'[c].pc = "find" /\ Kept(c)
      BY <1>1, <2>1 DEF Call
    <3> QED
      BY <1>2, <1>a, <2>1, <3>1 DEF TakeLock, PackageEffect, QuietEffect, Moves, EndsFailed
  <2>2. CASE Fault /\ ConfirmAt(c, "threw")
    <3>1. confirm'[c].pc = "threw" /\ Kept(c)
      BY <1>1, <2>2, ConfirmAtMoves DEF ConfirmPcs
    <3> QED
      BY <1>2, <1>a, <2>2, <3>1 DEF TakeLock, PackageEffect, QuietEffect, Moves, EndsFailed
  <2> QED
    BY <1>2, <2>1, <2>2 DEF TakeLock
<1>3. CASE FindInstalled(c)
  <2>1. PICK pc \in {"settle", "threw", "advance", "materialize"} :
           /\ ConfirmAt(c, pc)
           /\ pc \in {"advance", "materialize"} => packages[ArchiveOf(c).pkg] = Nobody
           /\ UNCHANGED faults \/ Fault
    BY <1>3 DEF FindInstalled
  <2>2. confirm'[c].pc = pc /\ Kept(c)
    BY <1>1, <2>1, ConfirmAtMoves DEF ConfirmPcs
  <2> QED
    BY <1>3, <1>a, <2>1, <2>2 DEF FindInstalled, PackageEffect, QuietEffect, Moves, EndsFailed
<1>4. CASE AdvanceConfirm(c)
  <2>1. confirm[c].seen \in Reviewable
    BY <1>1, <1>4 DEF AdvanceConfirm, ConfirmAgrees
  <2>2. PICK state \in AfterReview(confirm[c].seen) :
          \/ /\ updateState(k, state)
             /\ confirm' = [confirm EXCEPT
                               ![c].seen = state,
                               ![c].pc = IF state = "materializing" THEN "materialize" ELSE @]
          \/ Rejected(k, state) /\ ConfirmAt(c, "threw")
    BY <1>4 DEF AdvanceConfirm
  <2>3. state \in States /\ state \notin allowsNewAttempt
    BY <2>1, <2>2 DEF AfterReview, Reviewable, Awaiting, States, allowsNewAttempt
  <2>4. EndsFailed(c) /\ (UNCHANGED faults \/ Fault)
    BY <1>1, <1>b, <2>2, <2>3 DEF EndsFailed
  <2>5. confirm'[c].pc \in {"advance", "materialize", "threw"} /\ Kept(c)
    <3>1. CASE ConfirmAt(c, "threw")
      BY <1>1, <3>1, ConfirmAtMoves DEF ConfirmPcs
    <3>2. CASE confirm' = [confirm EXCEPT
                               ![c].seen = state,
                               ![c].pc = IF state = "materializing" THEN "materialize" ELSE @]
      <4> DEFINE to == IF state = "materializing" THEN "materialize" ELSE confirm[c].pc
      <4>1. to \in {"advance", "materialize"}
        BY <1>4 DEF AdvanceConfirm
      <4>2. confirm' = [confirm EXCEPT ![c] = [confirm[c] EXCEPT !.seen = state, !.pc = to]]
        BY <1>1, <3>2 DEF Call
      <4> HIDE DEF to
      <4> QED
        BY <1>1, <4>1, <4>2 DEF Call
    <3> QED
      BY <2>2, <3>1, <3>2
  <2> QED
    BY <1>4, <1>a, <2>4, <2>5 DEF AdvanceConfirm, PackageEffect, QuietEffect, Moves
<1>5. CASE Materialize(c)
  <2>1. CASE /\ ConfirmAt(c, "failing") /\ UNCHANGED <<packages, skills>>
             /\ UNCHANGED faults \/ Fault
    <3>1. confirm'[c].pc = "failing" /\ Kept(c)
      BY <1>1, <2>1, ConfirmAtMoves DEF ConfirmPcs
    <3> QED
      BY <1>5, <1>a, <2>1, <3>1 DEF Materialize, PackageEffect, QuietEffect, Moves, EndsFailed
  <2>2. CASE /\ packages[ArchiveOf(c).pkg] = Nobody
             /\ \A s \in ArchiveOf(c).slugs : skills[s] = Nobody
             /\ packages' = [packages EXCEPT ![ArchiveOf(c).pkg] = k]
             /\ skills' = [s \in Slugs |-> IF s \in ArchiveOf(c).slugs THEN k ELSE skills[s]]
             /\ confirm' = [confirm EXCEPT ![c].pc = "flush", ![c].unwritten = ArchiveOf(c).slugs,
                                              ![c].result = TRUE]
             /\ UNCHANGED faults
    <3>1. /\ confirm'[c].pc = "flush" /\ confirm'[c].result
          /\ confirm'[c].errors = confirm[c].errors
          /\ confirm'[c].unwritten = ArchiveOf(c).slugs
      BY <1>1, <2>2 DEF Call
    <3>2. MaterializeEffect(c)
      BY <1>5, <2>2, <3>1 DEF Materialize, MaterializeEffect
    <3> QED
      BY <1>5, <1>a, <2>2, <3>2 DEF Materialize, PackageEffect, EndsFailed
  <2> QED
    BY <1>5, <2>1, <2>2 DEF Materialize
<1>6. CASE Flush(c)
  <2>1. CASE confirm[c].unwritten = {} /\ ConfirmAt(c, "settle") /\ UNCHANGED <<files, faults>>
    <3>1. confirm'[c].pc = "settle" /\ Kept(c)
      BY <1>1, <2>1, ConfirmAtMoves DEF ConfirmPcs
    <3> QED
      BY <1>6, <1>a, <2>1, <3>1 DEF Flush, PackageEffect, QuietEffect, Moves, EndsFailed
  <2>2. CASE Fault /\ ConfirmAt(c, "undoSkills") /\ UNCHANGED files
    <3>1. confirm'[c].pc = "undoSkills" /\ Kept(c)
      BY <1>1, <2>2, ConfirmAtMoves DEF ConfirmPcs
    <3> QED
      BY <1>6, <1>a, <2>2, <3>1 DEF Flush, PackageEffect, QuietEffect, Moves, EndsFailed
  <2>3. CASE \E s \in confirm[c].unwritten :
                /\ files' = [files EXCEPT ![s] = k]
                /\ confirm' = [confirm EXCEPT ![c].unwritten = @ \ {s}]
                /\ UNCHANGED faults
    <3>1. PICK s \in confirm[c].unwritten :
                /\ files' = [files EXCEPT ![s] = k]
                /\ confirm' = [confirm EXCEPT ![c].unwritten = @ \ {s}]
                /\ UNCHANGED faults
      BY <2>3
    <3>2. /\ confirm'[c].pc = confirm[c].pc /\ Kept(c)
          /\ confirm'[c].unwritten = confirm[c].unwritten \ {s}
      BY <1>1, <3>1 DEF Call
    <3>3. WriteEffect(c)
      BY <1>6, <3>1, <3>2 DEF Flush, WriteEffect
    <3> QED
      BY <1>6, <1>a, <3>1, <3>3 DEF Flush, PackageEffect, EndsFailed
  <2> QED
    BY <1>6, <2>1, <2>2, <2>3 DEF Flush
\* A delete of the rollback, and the error it may leave.
<1>7. ASSUME NEW pc \in {"undoFiles", "undoPackage"}, NEW kept, Undone(c, pc, kept)
      PROVE  /\ confirm'[c].pc = pc /\ confirm'[c].result = confirm[c].result
             /\ \/ kept = {} /\ confirm'[c].errors = confirm[c].errors
                \/ confirm'[c].errors = "some"
             /\ faults' >= faults
  <2>1. CASE kept = {} /\ ConfirmAt(c, pc) /\ UNCHANGED faults
    BY <1>1, <1>a, <2>1, ConfirmAtMoves DEF ConfirmPcs
  <2>2. CASE Fault /\ confirm' = [confirm EXCEPT ![c].pc = pc, ![c].errors = "some"]
    <3>1. confirm' = [confirm EXCEPT ![c] = [confirm[c] EXCEPT !.pc = pc, !.errors = "some"]]
      BY <1>1, <2>2 DEF Call
    <3> QED
      BY <1>1, <1>a, <2>2, <3>1 DEF Call
  <2> QED
    BY <1>7, <2>1, <2>2 DEF Undone
<1>8. CASE UndoSkills(c)
  <2>1. UndoSkillsEffect(c) /\ faults' >= faults
    BY <1>7, <1>8 DEF UndoSkills, UndoSkillsEffect
  <2> QED
    BY <1>8, <2>1 DEF UndoSkills, PackageEffect, EndsFailed
<1>9. CASE UndoFiles(c)
  <2>1. UndoFilesEffect(c) /\ faults' >= faults
    BY <1>7, <1>9 DEF UndoFiles, UndoFilesEffect
  <2> QED
    BY <1>9, <2>1 DEF UndoFiles, PackageEffect, EndsFailed
<1>10. CASE UndoPackage(c)
  <2>1. \E pc \in {"mark", "failing"} :
           /\ ConfirmAt(c, pc)
           /\ \/ /\ packages' = [packages EXCEPT ![ArchiveOf(c).pkg] = Nobody]
                 /\ pc = IF confirm[c].errors = "some" THEN "mark" ELSE "failing"
              \/ UNCHANGED packages /\ pc = "mark"
           /\ UNCHANGED faults \/ Fault
    BY <1>10 DEF UndoPackage
  <2>2. PICK pc \in {"mark", "failing"} :
           /\ ConfirmAt(c, pc)
           /\ \/ /\ packages' = [packages EXCEPT ![ArchiveOf(c).pkg] = Nobody]
                 /\ pc = IF confirm[c].errors = "some" THEN "mark" ELSE "failing"
              \/ UNCHANGED packages /\ pc = "mark"
           /\ UNCHANGED faults \/ Fault
    BY <2>1
  <2>3. confirm'[c].pc = pc /\ Kept(c)
    BY <1>1, <2>2, ConfirmAtMoves DEF ConfirmPcs
  <2>4. UndoPackageEffect(c)
    BY <1>10, <2>2, <2>3 DEF UndoPackage, UndoPackageEffect
  <2> QED
    BY <1>10, <1>a, <2>2, <2>4 DEF UndoPackage, PackageEffect, EndsFailed
<1>11. CASE Mark(c)
  <2>1. CASE markers' = markers \union {k} /\ ConfirmAt(c, "failing") /\ UNCHANGED faults
    <3>1. confirm'[c].pc = "failing" /\ Kept(c)
      BY <1>1, <2>1, ConfirmAtMoves DEF ConfirmPcs
    <3>2. MarkEffect(c)
      BY <1>11, <2>1, <3>1 DEF Mark, MarkEffect
    <3> QED
      BY <1>11, <1>a, <2>1, <3>2 DEF Mark, PackageEffect, EndsFailed
  <2>2. CASE /\ Fault /\ UNCHANGED markers
             /\ confirm' = [confirm EXCEPT ![c].pc = "failing", ![c].errors = "unrecorded"]
    <3>1. confirm' = [confirm EXCEPT
                         ![c] = [confirm[c] EXCEPT !.pc = "failing", !.errors = "unrecorded"]]
      BY <1>1, <2>2 DEF Call
    <3>2. /\ confirm'[c].pc = "failing" /\ confirm'[c].errors = "unrecorded"
          /\ confirm'[c].result = confirm[c].result
      BY <1>1, <3>1 DEF Call
    <3>3. MarkEffect(c)
      BY <1>11, <2>2, <3>2 DEF Mark, MarkEffect
    <3> QED
      BY <1>11, <1>a, <2>2, <3>3 DEF Mark, PackageEffect, EndsFailed
  <2> QED
    BY <1>11, <2>1, <2>2 DEF Mark
<1>12. CASE FailConfirm(c)
  <2>1. updateState(k, "failed") \/ Rejected(k, "failed")
    BY <1>12 DEF FailConfirm
  <2>2. EndsFailed(c) /\ (UNCHANGED faults \/ Fault)
    BY <1>1, <1>12, <1>b, <2>1 DEF FailConfirm, EndsFailed, States, Terminal
  <2>3. confirm'[c].pc = "threw" /\ Kept(c)
    BY <1>1, <1>12, ConfirmAtMoves DEF FailConfirm, ConfirmPcs
  <2> QED
    BY <1>12, <1>a, <2>2, <2>3 DEF FailConfirm, PackageEffect, QuietEffect, Moves
<1>13. CASE Settle(c)
  <2>1. updateState(k, "installed") \/ Rejected(k, "installed")
    BY <1>13 DEF Settle
  <2>2. EndsFailed(c) /\ (UNCHANGED faults \/ Fault)
    BY <1>1, <1>b, <2>1 DEF EndsFailed, States, Terminal, allowsNewAttempt
  <2>3. PICK pc \in {"finish", "ok", "threw"} :
           /\ ConfirmAt(c, pc)
           /\ pc = "finish" => confirm[c].pc = "settle"
           /\ pc = "ok" => confirm[c].pc = "finish"
    BY <1>13 DEF Settle
  <2>4. confirm'[c].pc = pc /\ Kept(c)
    BY <1>1, <2>3, ConfirmAtMoves DEF ConfirmPcs
  <2> QED
    BY <1>13, <1>a, <2>2, <2>3, <2>4 DEF Settle, PackageEffect, QuietEffect, Moves
<1> QED
  BY <1>2, <1>3, <1>4, <1>5, <1>6, <1>8, <1>9, <1>10, <1>11, <1>12, <1>13 DEF ConfirmStep

-----------------------------------------------------------------------------
(* The steps of a confirmation keep PackagesAgree. *)

\* What the lemmas below share.  The types of an import's archive and of a call.
LEMMA CallTypes ==
    ASSUME InstallInv, NEW c \in Confirms
    PROVE  /\ confirm[c] \in Call /\ confirm[c].imp \in Imports /\ confirm[c].pc \in ConfirmPcs
           /\ confirm[c].errors \in {"none", "some", "unrecorded"}
           /\ ArchiveOf(c).pkg \in Packages /\ ArchiveOf(c).slugs \subseteq Slugs
           /\ Nobody \notin Imports
<1>1. archive[confirm[c].imp] \in Archives
  BY InstallAssumption DEF InstallInv, InstallTypeOK
<1> QED
  BY <1>1 DEF InstallInv, InstallTypeOK, Call, ArchiveOf, Archives, Imports, Nobody

\* Two calls of one import are not both past the lock.
LEMMA WorksAlone ==
    ASSUME InstallInv, NEW b \in Confirms, NEW c \in Confirms,
           Working(b), Working(c), confirm[b].imp = confirm[c].imp
    PROVE  b = c
<1>1. b < c \/ c < b \/ b = c
  BY InstallAssumption DEF Confirms
<1> QED
  BY <1>1 DEF InstallInv, OneWorks, Working

\* A step of call c, with what InstallInv says of it.
Stepping(c) ==
    /\ InstallInv /\ PackagesAgree
    /\ ConfirmEffect(c) /\ PackageEffect(c) /\ EndsFailed(c)
    /\ faults' >= faults

LEMMA OthersStay ==
    ASSUME NEW c \in Confirms, Stepping(c), NEW d \in Confirms
    PROVE  /\ confirm'[d].imp = confirm[d].imp /\ ArchiveOf(d)' = ArchiveOf(d)
           /\ d # c => confirm'[d] = confirm[d]
BY DEF Stepping, ConfirmEffect, ArchiveOf

LEMMA RollbackStays ==
    ASSUME NEW c \in Confirms, Stepping(c), NEW d \in Confirms
    PROVE  /\ RolledBack(d) => RolledBack(d)'
           /\ \A s \in Slugs : Contested(d, s) => Contested(d, s)'
<1>1. \A e \in Confirms : RolledBack(e) => RolledBack(e)'
  <2> SUFFICES ASSUME NEW e \in Confirms, RolledBack(e) PROVE RolledBack(e)'
    OBVIOUS
  <2>1. CASE e # c
    BY <2>1, OthersStay DEF RolledBack
  <2>2. CASE e = c
    BY <2>2 DEF Stepping, RolledBack, PackageEffect, ConfirmEffect, Ended, QuietEffect, Kept,
       Moves, MaterializeEffect, WriteEffect, UndoSkillsEffect, UndoFilesEffect,
       UndoPackageEffect, MarkEffect
  <2> QED
    BY <2>1, <2>2
<1> QED
  BY <1>1, OthersStay DEF Contested

LEMMA MarkedStays ==
    ASSUME NEW c \in Confirms, Stepping(c), NEW i \in Imports, Marked(i)
    PROVE  Marked(i)'
<1>1. CASE i \in markers
  BY <1>1 DEF Marked, Stepping, PackageEffect, QuietEffect, Same, MaterializeEffect, WriteEffect,
     UndoSkillsEffect, UndoFilesEffect, UndoPackageEffect, MarkEffect
<1>2. ASSUME NEW d \in Confirms, confirm[d].imp = i, confirm[d].errors = "unrecorded"
      PROVE  Marked(i)'
  <2>1. confirm'[d].errors = "unrecorded"
    <3>1. CASE d # c
      BY <1>2, <3>1, OthersStay
    <3>2. CASE d = c
      <4>1. CallFits(c)
        BY DEF Stepping, PackagesAgree
      <4> QED
        BY <1>2, <3>2, <4>1
        DEF Stepping, CallFits, Early, Undoing, PackageEffect, QuietEffect, Kept,
            MaterializeEffect, WriteEffect, UndoSkillsEffect, UndoFilesEffect,
            UndoPackageEffect, MarkEffect
    <3> QED
      BY <3>1, <3>2
  <2> QED
    BY <1>2, <2>1, OthersStay DEF Marked
<1> QED
  BY <1>1, <1>2 DEF Marked

LEMMA ConfirmKeepsFits ==
    ASSUME NEW c \in Confirms, Stepping(c), NEW d \in Confirms
    PROVE  CallFits(d)'
<1>1. CallFits(d) /\ CallFits(c) /\ faults \in Nat /\ faults' \in Nat /\ faults' >= faults
  BY InstallAssumption
  DEF Stepping, PackagesAgree, InstallInv, InstallTypeOK, ConfirmEffect
<1>2. imp' = imp
  BY DEF Stepping, ConfirmEffect
<1>3. CASE d # c
  BY <1>1, <1>2, <1>3, OthersStay DEF CallFits
<1>4. CASE d = c
  <2> USE DEF CallFits, Early, Undoing
  <2>1. CASE QuietEffect(c)
    BY <1>1, <1>2, <1>4, <2>1 DEF QuietEffect, Kept, Moves
  <2>2. CASE MaterializeEffect(c)
    BY <1>1, <1>2, <1>4, <2>2, OthersStay DEF MaterializeEffect
  <2>3. CASE WriteEffect(c)
    BY <1>1, <1>2, <1>4, <2>3, OthersStay DEF WriteEffect, Kept
  <2>4. CASE UndoSkillsEffect(c)
    BY <1>1, <1>2, <1>4, <2>4 DEF UndoSkillsEffect
  <2>5. CASE UndoFilesEffect(c)
    BY <1>1, <1>2, <1>4, <2>5 DEF UndoFilesEffect
  <2>6. CASE UndoPackageEffect(c) \/ MarkEffect(c)
    BY <1>1, <1>2, <1>4, <2>6 DEF UndoPackageEffect, MarkEffect, Kept
  <2> QED
    BY <2>1, <2>2, <2>3, <2>4, <2>5, <2>6 DEF Stepping, PackageEffect
<1> QED
  BY <1>3, <1>4

\* A call holds more after its step only if it has just materialized.
LEMMA HoldsNoMore ==
    ASSUME NEW c \in Confirms, Stepping(c), ~MaterializeEffect(c)
    PROVE  /\ Owning(c)' => Owning(c)
           /\ HoldsSkills(c)' => HoldsSkills(c)
           /\ HoldsFiles(c)' => HoldsFiles(c)
<1>1. CallFits(c)
  BY DEF Stepping, PackagesAgree
<1> USE DEF Owning, HoldsSkills, HoldsFiles, CallFits, Early, Undoing, Settled
<1>2. CASE QuietEffect(c)
  BY <1>1, <1>2 DEF QuietEffect, Kept, Moves
<1>3. CASE WriteEffect(c)
  BY <1>1, <1>3 DEF WriteEffect, Kept
<1>4. CASE UndoSkillsEffect(c) \/ UndoFilesEffect(c)
  BY <1>1, <1>4 DEF UndoSkillsEffect, UndoFilesEffect
<1>5. CASE UndoPackageEffect(c) \/ MarkEffect(c)
  BY <1>1, <1>5 DEF UndoPackageEffect, MarkEffect, Kept
<1> QED
  BY <1>2, <1>3, <1>4, <1>5 DEF Stepping, PackageEffect

LEMMA ConfirmKeepsOwners ==
    ASSUME NEW c \in Confirms, Stepping(c)
    PROVE  OwnersDiffer'
<1> SUFFICES ASSUME NEW a \in Confirms, NEW b \in Confirms, a # b, Owning(a)', Owning(b)'
             PROVE  ArchiveOf(a)'.pkg # ArchiveOf(b)'.pkg
  BY DEF OwnersDiffer
<1>1. /\ OwnersDiffer /\ Holdings(a) /\ Holdings(b)
  BY DEF Stepping, PackagesAgree
<1>2. \A d \in Confirms \ {c} : Owning(d)' => Owning(d)
  BY OthersStay DEF Owning
<1>3. ArchiveOf(a)' = ArchiveOf(a) /\ ArchiveOf(b)' = ArchiveOf(b)
  BY OthersStay
<1>4. CASE MaterializeEffect(c)
  <2>1. \A d \in Confirms \ {c} : Owning(d) => packages[ArchiveOf(d).pkg] \in Imports
    BY CallTypes DEF Stepping, PackagesAgree, Holdings
  <2>2. packages[ArchiveOf(c).pkg] \notin Imports
    BY <1>4, CallTypes DEF MaterializeEffect, Stepping
  <2> QED
    BY <1>1, <1>2, <1>3, <2>1, <2>2 DEF OwnersDiffer
<1>5. CASE ~MaterializeEffect(c)
  BY <1>1, <1>2, <1>3, <1>5, HoldsNoMore DEF OwnersDiffer
<1> QED
  BY <1>4, <1>5

\* What call c does to what another call holds.
LEMMA ConfirmSparesOthers ==
    ASSUME NEW c \in Confirms, Stepping(c), NEW d \in Confirms \ {c}
    PROVE  Holdings(d)'
<1>1. /\ Holdings(c) /\ Holdings(d) /\ OwnersDiffer /\ CallFits(c) /\ CallFits(d)
      /\ InstallInv
  BY DEF Stepping, PackagesAgree
<1>2. /\ packages \in [Packages -> Imports \union {Nobody}]
      /\ skills \in [Slugs -> Imports \union {Nobody}]
      /\ files \in [Slugs -> Imports \union {Nobody}]
  BY <1>1 DEF InstallInv, InstallTypeOK
<1>3. /\ ArchiveOf(d)' = ArchiveOf(d) /\ confirm'[d] = confirm[d]
      /\ Owning(d)' <=> Owning(d)
      /\ HoldsSkills(d)' <=> HoldsSkills(d)
      /\ HoldsFiles(d)' <=> HoldsFiles(d)
      /\ Written(d)' = Written(d)
      /\ HoldsFiles(d) => HoldsSkills(d)
      /\ HoldsSkills(d) => Owning(d)
  BY OthersStay DEF Owning, HoldsSkills, HoldsFiles, Written, Undoing
<1>4. /\ ArchiveOf(d).pkg \in Packages /\ ArchiveOf(d).slugs \subseteq Slugs
      /\ Written(d) \subseteq ArchiveOf(d).slugs
      /\ confirm[d].imp \in Imports /\ confirm[c].imp \in Imports /\ Nobody \notin Imports
  BY <1>1, CallTypes DEF Written
\* The package and, while it holds them, the skills of d are not those of c.
<1>5. Owning(c) /\ Owning(d) => /\ ArchiveOf(d).pkg # ArchiveOf(c).pkg
                                /\ confirm[d].imp # confirm[c].imp
  BY <1>1 DEF OwnersDiffer, ArchiveOf
<1>6. Owning(d)' => packages'[ArchiveOf(d).pkg] = confirm[d].imp
  <2> SUFFICES ASSUME Owning(d) PROVE packages'[ArchiveOf(d).pkg] = confirm[d].imp
    BY <1>3
  <2>1. packages[ArchiveOf(d).pkg] = confirm[d].imp
    BY <1>1 DEF Holdings
  <2>2. CASE MaterializeEffect(c)
    BY <1>2, <1>4, <2>1, <2>2 DEF MaterializeEffect
  <2>3. CASE UndoPackageEffect(c)
    <3>1. Owning(c)
      BY <1>1, <2>3 DEF UndoPackageEffect, Owning, CallFits, Undoing
    <3> QED
      BY <1>2, <1>4, <1>5, <2>1, <2>3, <3>1 DEF UndoPackageEffect
  <2>4. CASE ~MaterializeEffect(c) /\ ~UndoPackageEffect(c)
    BY <2>1, <2>4 DEF Stepping, PackageEffect, QuietEffect, Same, WriteEffect, UndoSkillsEffect,
       UndoFilesEffect, MarkEffect
  <2> QED
    BY <2>2, <2>3, <2>4
<1>7. HoldsSkills(d)' => \A s \in ArchiveOf(d).slugs : skills'[s] = confirm[d].imp
  <2> SUFFICES ASSUME HoldsSkills(d), NEW s \in ArchiveOf(d).slugs
               PROVE  skills'[s] = confirm[d].imp
    BY <1>3
  <2>1. skills[s] = confirm[d].imp /\ s \in Slugs
    BY <1>1, <1>4 DEF Holdings
  <2>2. CASE MaterializeEffect(c)
    BY <1>4, <2>1, <2>2 DEF MaterializeEffect
  <2>3. CASE UndoSkillsEffect(c)
    <3>1. Owning(c) /\ HoldsSkills(c)
      BY <1>1, <2>3 DEF UndoSkillsEffect, Owning, HoldsSkills, CallFits, Undoing
    <3>2. s \notin ArchiveOf(c).slugs
      BY <1>1, <1>3, <1>5, <2>1, <3>1 DEF Holdings
    <3> QED
      BY <2>1, <2>3, <3>2 DEF UndoSkillsEffect
  <2>4. CASE ~MaterializeEffect(c) /\ ~UndoSkillsEffect(c)
    BY <2>1, <2>4 DEF Stepping, PackageEffect, QuietEffect, Same, WriteEffect, UndoPackageEffect,
       UndoFilesEffect, MarkEffect
  <2> QED
    BY <2>2, <2>3, <2>4
<1>8. HoldsFiles(d)' =>
         \A s \in Written(d) : files'[s] = confirm[d].imp \/ Contested(d, s)'
  <2> SUFFICES ASSUME HoldsFiles(d), NEW s \in Written(d)
               PROVE  files'[s] = confirm[d].imp \/ Contested(d, s)'
    BY <1>3
  <2>1. /\ files[s] = confirm[d].imp \/ Contested(d, s)
        /\ s \in ArchiveOf(d).slugs /\ s \in Slugs
        /\ skills[s] = confirm[d].imp
    BY <1>1, <1>3, <1>4 DEF Holdings
  <2>2. Contested(d, s) => Contested(d, s)'
    BY <2>1, RollbackStays
  <2>3. CASE WriteEffect(c)
    <3>1. Owning(c) /\ HoldsSkills(c)
      BY <1>1, <2>3 DEF WriteEffect, Owning, HoldsSkills, CallFits
    <3>2. s \notin ArchiveOf(c).slugs
      BY <1>1, <1>3, <1>5, <2>1, <3>1 DEF Holdings
    <3>3. files'[s] = files[s]
      BY <1>1, <1>2, <2>1, <2>3, <3>2 DEF WriteEffect, CallFits
    <3> QED
      BY <2>1, <2>2, <3>3
  <2>4. CASE UndoFilesEffect(c)
    <3>1. Owning(c) /\ RolledBack(c)'
      BY <1>1, <2>4, RollbackStays
      DEF UndoFilesEffect, Owning, RolledBack, CallFits, Undoing
    <3>2. ArchiveOf(d).pkg # ArchiveOf(c).pkg /\ ArchiveOf(c)' = ArchiveOf(c)
      BY <1>3, <1>5, <3>1, OthersStay
    <3>3. s \in ArchiveOf(c).slugs => Contested(d, s)'
      BY <1>3, <3>1, <3>2 DEF Contested
    <3>4. s \notin ArchiveOf(c).slugs => files'[s] = files[s]
      BY <2>1, <2>4 DEF UndoFilesEffect
    <3> QED
      BY <2>1, <2>2, <3>3, <3>4
  <2>5. CASE ~WriteEffect(c) /\ ~UndoFilesEffect(c)
    BY <2>1, <2>2, <2>5
    DEF Stepping, PackageEffect, QuietEffect, Same, MaterializeEffect, UndoPackageEffect,
        UndoSkillsEffect, MarkEffect
  <2> QED
    BY <2>3, <2>4, <2>5
<1> QED
  BY <1>3, <1>6, <1>7, <1>8 DEF Holdings

\* And to what it holds itself.
LEMMA ConfirmKeepsHoldings ==
    ASSUME NEW c \in Confirms, Stepping(c)
    PROVE  Holdings(c)'
<1>1. Holdings(c) /\ CallFits(c) /\ InstallInv /\ CallFits(c)'
  BY ConfirmKeepsFits DEF Stepping, PackagesAgree
<1>2. /\ packages \in [Packages -> Imports \union {Nobody}]
      /\ skills \in [Slugs -> Imports \union {Nobody}]
      /\ files \in [Slugs -> Imports \union {Nobody}]
      /\ ArchiveOf(c)' = ArchiveOf(c) /\ confirm'[c].imp = confirm[c].imp
      /\ ArchiveOf(c).pkg \in Packages /\ ArchiveOf(c).slugs \subseteq Slugs
  BY <1>1, OthersStay, CallTypes DEF InstallInv, InstallTypeOK
<1>3. \A s \in Slugs : Contested(c, s) => Contested(c, s)'
  BY RollbackStays
<1>4. CASE MaterializeEffect(c)
  <2>1. packages'[ArchiveOf(c).pkg] = confirm[c].imp
    BY <1>2, <1>4 DEF MaterializeEffect
  <2>2. \A s \in ArchiveOf(c).slugs : skills'[s] = confirm[c].imp
    BY <1>2, <1>4 DEF MaterializeEffect
  <2>3. Written(c)' = {}
    BY <1>2, <1>4 DEF MaterializeEffect, Written
  <2> QED
    BY <1>2, <2>1, <2>2, <2>3 DEF Holdings
<1>5. CASE QuietEffect(c)
  <2>1. HoldsFiles(c)' => Written(c)' = Written(c)
    BY <1>1, <1>2, <1>5
    DEF QuietEffect, Moves, Written, HoldsFiles, CallFits, Early, Settled, Kept
  <2>2. ~MaterializeEffect(c)
    BY <1>5 DEF QuietEffect, MaterializeEffect, Moves
  <2>3. /\ Owning(c)' => Owning(c)
        /\ HoldsSkills(c)' => HoldsSkills(c)
        /\ HoldsFiles(c)' => HoldsFiles(c)
    BY <2>2, HoldsNoMore
  <2>4. Written(c) \subseteq Slugs
    BY <1>2 DEF Written
  <2> QED
    BY <1>1, <1>2, <1>3, <1>5, <2>1, <2>3, <2>4 DEF QuietEffect, Same, Holdings
<1>6. CASE WriteEffect(c)
  <2>1. Owning(c) /\ HoldsSkills(c) /\ HoldsFiles(c)
    BY <1>1, <1>6 DEF WriteEffect, Owning, HoldsSkills, HoldsFiles, CallFits
  <2>2. PICK s \in confirm[c].unwritten :
          /\ files' = [files EXCEPT ![s] = confirm[c].imp]
          /\ confirm'[c].unwritten = confirm[c].unwritten \ {s}
    BY <1>6 DEF WriteEffect
  <2>3. Written(c)' \subseteq Written(c) \union {s}
    BY <1>2, <1>6, <2>2 DEF WriteEffect, Written
  <2>4. s \in Slugs /\ Written(c) \subseteq Slugs
    BY <1>1, <1>2, <1>6 DEF WriteEffect, CallFits, Written
  <2>5. \A q \in Written(c)' : files'[q] = confirm[c].imp \/ Contested(c, q)'
    <3> SUFFICES ASSUME NEW q \in Written(c)', q # s
                 PROVE  files'[q] = confirm[c].imp \/ Contested(c, q)'
      BY <1>2, <2>2, <2>4
    <3>1. q \in Written(c) /\ files'[q] = files[q]
      BY <1>2, <2>2, <2>3, <2>4
    <3>2. files[q] = confirm[c].imp \/ Contested(c, q)
      BY <1>1, <2>1, <3>1 DEF Holdings
    <3> QED
      BY <1>3, <2>4, <3>1, <3>2
  <2> QED
    BY <1>1, <1>2, <1>6, <2>1, <2>5 DEF WriteEffect, Holdings
<1>7. CASE UndoSkillsEffect(c) \/ UndoFilesEffect(c) \/ UndoPackageEffect(c) \/ MarkEffect(c)
  <2>1. ~HoldsSkills(c)' /\ ~HoldsFiles(c)'
    BY <1>7 DEF UndoSkillsEffect, UndoFilesEffect, UndoPackageEffect, MarkEffect,
       HoldsSkills, HoldsFiles, Settled
  <2>2. Owning(c)' => Owning(c) /\ packages' = packages
    BY <1>1, <1>7 DEF UndoSkillsEffect, UndoFilesEffect, UndoPackageEffect, MarkEffect,
       Owning, Undoing, Settled, CallFits
  <2> QED
    BY <1>1, <1>2, <2>1, <2>2 DEF Holdings
<1> QED
  BY <1>4, <1>5, <1>6, <1>7 DEF Stepping, PackageEffect

LEMMA ConfirmKeepsLeavings ==
    ASSUME NEW c \in Confirms, Stepping(c), NEW d \in Confirms
    PROVE  Leavings(d)'
<1>0. PICK k \in Imports : k = confirm[d].imp
  BY CallTypes DEF Stepping
<1>1. /\ Leavings(d) /\ CallFits(c) /\ InstallInv /\ TracesAgree(k)
      /\ Nobody \notin Imports
      /\ confirm[c].imp \in Imports
  BY CallTypes DEF Stepping, PackagesAgree
<1>2. /\ packages \in [Packages -> Imports \union {Nobody}]
      /\ skills \in [Slugs -> Imports \union {Nobody}]
      /\ files \in [Slugs -> Imports \union {Nobody}]
      /\ confirm'[d].imp = k /\ ArchiveOf(d)' = ArchiveOf(d)
      /\ ArchiveOf(d).pkg \in Packages
      /\ d # c => confirm'[d] = confirm[d]
  BY <1>0, <1>1, OthersStay, CallTypes DEF InstallInv, InstallTypeOK
<1>3. Marked(k) => Marked(k)'
  BY <1>1, MarkedStays
\* What call d has to answer for is added to by its own import alone, past the lock.
<1>4. CASE d # c
  <2>1. Working(d) /\ Working(c) => confirm[c].imp # k
    BY <1>0, <1>1, <1>4, WorksAlone
  <2>2. /\ MaterializeEffect(c) \/ WriteEffect(c) => Working(c)
        /\ confirm[d].pc \in {"advance", "materialize", "failing", "undoFiles", "undoPackage"} =>
              Working(d)
    BY DEF MaterializeEffect, WriteEffect, Working, Ended
  <2>3. Working(d) => /\ packages'[ArchiveOf(d).pkg] = k => packages[ArchiveOf(d).pkg] = k
                      /\ \A s \in Slugs : /\ skills'[s] = k => skills[s] = k
                                          /\ files'[s] = k => files[s] = k
    <3> SUFFICES ASSUME Working(d)
                 PROVE  /\ packages'[ArchiveOf(d).pkg] = k => packages[ArchiveOf(d).pkg] = k
                        /\ \A s \in Slugs : /\ skills'[s] = k => skills[s] = k
                                            /\ files'[s] = k => files[s] = k
      OBVIOUS
    <3>1. CASE QuietEffect(c)
      BY <3>1 DEF QuietEffect, Same
    <3>2. CASE MaterializeEffect(c)
      BY <1>1, <1>2, <2>1, <2>2, <3>2 DEF MaterializeEffect
    <3>3. CASE WriteEffect(c)
      BY <1>1, <1>2, <2>1, <2>2, <3>3 DEF WriteEffect
    <3>4. CASE UndoSkillsEffect(c)
      BY <1>1, <3>4 DEF UndoSkillsEffect
    <3>5. CASE UndoFilesEffect(c)
      BY <1>1, <3>5 DEF UndoFilesEffect
    <3>6. CASE UndoPackageEffect(c) \/ MarkEffect(c)
      BY <1>1, <1>2, <3>6 DEF UndoPackageEffect, MarkEffect
    <3> QED
      BY <3>1, <3>2, <3>3, <3>4, <3>5, <3>6 DEF Stepping, PackageEffect
  <2> QED
    BY <1>0, <1>1, <1>2, <1>3, <1>4, <2>2, <2>3 DEF Leavings
<1>5. CASE d = c
  <2>1. CASE QuietEffect(c)
    BY <1>0, <1>1, <1>2, <1>3, <1>5, <2>1 DEF QuietEffect, Same, Kept, Moves, Leavings
  <2>2. CASE MaterializeEffect(c) \/ WriteEffect(c)
    BY <1>5, <2>2 DEF MaterializeEffect, WriteEffect, Leavings
  <2>3. CASE UndoSkillsEffect(c)
    <3>1. confirm'[c].errors = "none" => \A s \in Slugs : skills'[s] # k
      BY <1>0, <1>1, <1>2, <1>5, <2>3 DEF UndoSkillsEffect, TracesAgree, ArchiveOf
    <3> QED
      BY <1>0, <1>2, <1>5, <2>3, <3>1 DEF UndoSkillsEffect, Leavings
  <2>4. CASE UndoFilesEffect(c)
    <3>1. confirm'[c].errors = "none" =>
            \A s \in Slugs : skills'[s] # k /\ files'[s] # k
      BY <1>0, <1>1, <1>2, <1>5, <2>4 DEF UndoFilesEffect, TracesAgree, ArchiveOf, Leavings
    <3> QED
      BY <1>0, <1>2, <1>5, <2>4, <3>1 DEF UndoFilesEffect, Leavings
  <2>5. CASE UndoPackageEffect(c)
    BY <1>0, <1>1, <1>2, <1>5, <2>5 DEF UndoPackageEffect, Leavings
  <2>6. CASE MarkEffect(c)
    <3>1. Marked(k)'
      BY <1>0, <1>2, <1>5, <2>6 DEF MarkEffect, Marked
    <3> QED
      BY <1>0, <1>2, <1>5, <2>6, <3>1 DEF MarkEffect, Leavings
  <2> QED
    BY <2>1, <2>2, <2>3, <2>4, <2>5, <2>6 DEF Stepping, PackageEffect
<1> QED
  BY <1>4, <1>5

\* Only an install that materializes gains a trace, and it is at materializing.
LEMMA NewTraces ==
    ASSUME NEW c \in Confirms, Stepping(c), NEW i \in Imports, Traced(i)', ~Traced(i)
    PROVE  i = confirm[c].imp /\ (MaterializeEffect(c) \/ WriteEffect(c))
<1>1. /\ packages \in [Packages -> Imports \union {Nobody}]
      /\ skills \in [Slugs -> Imports \union {Nobody}]
      /\ files \in [Slugs -> Imports \union {Nobody}]
      /\ confirm[c].imp \in Imports /\ Nobody \notin Imports
  BY CallTypes DEF Stepping, InstallInv, InstallTypeOK
<1> USE DEF Traced
<1>2. CASE QuietEffect(c)
  BY <1>2 DEF QuietEffect, Same
<1>3. CASE MaterializeEffect(c)
  BY <1>1, <1>3 DEF MaterializeEffect
<1>4. CASE WriteEffect(c)
  BY <1>1, <1>4 DEF WriteEffect
<1>5. CASE UndoSkillsEffect(c)
  BY <1>1, <1>5 DEF UndoSkillsEffect
<1>6. CASE UndoFilesEffect(c)
  BY <1>1, <1>6 DEF UndoFilesEffect
<1>7. CASE UndoPackageEffect(c) \/ MarkEffect(c)
  BY <1>1, <1>7 DEF UndoPackageEffect, MarkEffect
<1> QED
  BY <1>2, <1>3, <1>4, <1>5, <1>6, <1>7 DEF Stepping, PackageEffect

LEMMA ConfirmKeepsTraces ==
    ASSUME NEW c \in Confirms, Stepping(c), NEW i \in Imports
    PROVE  TracesAgree(i)'
<1> DEFINE k == confirm[c].imp
<1>1. /\ TracesAgree(i) /\ CallFits(c) /\ Holdings(c) /\ Leavings(c) /\ InstallInv
      /\ k \in Imports /\ Nobody \notin Imports
      /\ confirm[c].errors \in {"none", "some", "unrecorded"}
  BY CallTypes DEF Stepping, PackagesAgree
<1>2. /\ packages \in [Packages -> Imports \union {Nobody}]
      /\ skills \in [Slugs -> Imports \union {Nobody}]
      /\ files \in [Slugs -> Imports \union {Nobody}]
      /\ archive' = archive /\ imp' = imp
      /\ ArchiveOf(c) = archive[k]
      /\ archive[k].pkg \in Packages /\ archive[k].slugs \subseteq Slugs
      /\ archive[i].pkg \in Packages
      /\ confirm'[c].imp = k
  BY <1>1, CallTypes, InstallAssumption
  DEF InstallInv, InstallTypeOK, Stepping, ConfirmEffect, ArchiveOf, Archives
<1>3. imp[k].pc \in Through
  BY <1>1 DEF Stepping, ConfirmEffect, InstallInv, OnlyReviewed, Through
<1>4. \A p \in Packages : packages'[p] = i => p = archive[i].pkg
  <2>1. CASE MaterializeEffect(c)
    BY <1>1, <1>2, <2>1 DEF MaterializeEffect, TracesAgree
  <2>2. CASE UndoPackageEffect(c)
    BY <1>1, <1>2, <2>2 DEF UndoPackageEffect, TracesAgree
  <2>3. CASE UNCHANGED packages
    BY <1>1, <2>3 DEF TracesAgree
  <2> QED
    BY <2>1, <2>2, <2>3 DEF Stepping, PackageEffect, QuietEffect, Same, WriteEffect,
       UndoSkillsEffect, UndoFilesEffect, MarkEffect
<1>5. \A s \in Slugs : i \in {skills'[s], files'[s]} => s \in archive[i].slugs
  <2>1. CASE MaterializeEffect(c)
    BY <1>1, <1>2, <2>1 DEF MaterializeEffect, TracesAgree
  <2>2. CASE WriteEffect(c)
    BY <1>1, <1>2, <2>2 DEF WriteEffect, TracesAgree, CallFits
  <2>3. CASE UndoSkillsEffect(c)
    BY <1>1, <2>3 DEF UndoSkillsEffect, TracesAgree
  <2>4. CASE UndoFilesEffect(c)
    BY <1>1, <2>4 DEF UndoFilesEffect, TracesAgree
  <2>5. CASE UNCHANGED <<skills, files>>
    BY <1>1, <2>5 DEF TracesAgree
  <2> QED
    BY <2>1, <2>2, <2>3, <2>4, <2>5 DEF Stepping, PackageEffect, QuietEffect, Same,
       UndoPackageEffect, MarkEffect
<1>6. Traced(i)' => imp[i].pc \in Through
  BY <1>1, <1>3, NewTraces DEF TracesAgree
<1>7. Traced(i)' => \/ packages'[archive[i].pkg] = i
                    \/ Marked(i)'
                    \/ \E d \in Confirms :
                          confirm'[d].imp = i /\ confirm'[d].pc \in {"mark", "gone"}
  <2> SUFFICES ASSUME Traced(i)', ~Marked(i)'
               PROVE  \/ packages'[archive[i].pkg] = i
                      \/ \E d \in Confirms :
                            confirm'[d].imp = i /\ confirm'[d].pc \in {"mark", "gone"}
    OBVIOUS
  <2>0. ~Marked(i)
    BY MarkedStays
  <2>1. CASE i = k /\ (MaterializeEffect(c) \/ WriteEffect(c))
    <3>1. CASE MaterializeEffect(c)
      BY <1>2, <2>1, <3>1 DEF MaterializeEffect
    <3>2. CASE WriteEffect(c)
      BY <1>1, <1>2, <2>1, <3>2 DEF WriteEffect, Holdings, Owning, CallFits
    <3> QED
      BY <2>1, <3>1, <3>2
  <2>2. CASE Traced(i) /\ packages[archive[i].pkg] = i
    <3>1. CASE UndoPackageEffect(c) /\ archive[i].pkg = archive[k].pkg
      <4>1. packages[archive[k].pkg] = k
        BY <1>1, <1>2, <3>1 DEF UndoPackageEffect, Holdings, Owning, CallFits, Undoing
      <4>2. i = k
        BY <2>2, <3>1, <4>1
      <4>3. CASE /\ confirm[c].errors = "none"
                 /\ packages' = [packages EXCEPT ![archive[k].pkg] = Nobody]
        <5>1. ~Traced(i)'
          BY <1>1, <1>2, <1>4, <3>1, <4>2, <4>3 DEF UndoPackageEffect, Leavings, Traced
        <5> QED
          BY <5>1
      <4>4. CASE confirm[c].errors # "none" \/ UNCHANGED packages
        BY <1>1, <1>2, <2>2, <3>1, <4>2, <4>4 DEF UndoPackageEffect, CallFits, Undoing
      <4> QED
        BY <1>2, <3>1, <4>3, <4>4 DEF UndoPackageEffect
    <3>2. CASE UndoPackageEffect(c) /\ archive[i].pkg # archive[k].pkg
      BY <1>2, <2>2, <3>2 DEF UndoPackageEffect
    <3>3. CASE MaterializeEffect(c)
      BY <1>1, <1>2, <2>2, <3>3 DEF MaterializeEffect
    <3>4. CASE UNCHANGED packages
      BY <2>2, <3>4
    <3> QED
      BY <3>1, <3>2, <3>3, <3>4 DEF Stepping, PackageEffect, QuietEffect, Same, WriteEffect,
         UndoSkillsEffect, UndoFilesEffect, MarkEffect
  <2>3. CASE \E d \in Confirms : confirm[d].imp = i /\ confirm[d].pc \in {"mark", "gone"}
    <3>1. PICK d \in Confirms : confirm[d].imp = i /\ confirm[d].pc \in {"mark", "gone"}
      BY <2>3
    <3>2. CASE d # c
      BY <3>1, <3>2, OthersStay
    <3>3. CASE d = c
      <4>1. MarkEffect(c)
        BY <3>1, <3>3 DEF Stepping, ConfirmEffect, Ended, PackageEffect, QuietEffect, Moves,
           MaterializeEffect, WriteEffect, UndoSkillsEffect, UndoFilesEffect, UndoPackageEffect
      <4>2. Marked(i)'
        BY <1>2, <3>1, <3>3, <4>1 DEF MarkEffect, Marked
      <4> QED
        BY <4>2
    <3> QED
      BY <3>2, <3>3
  <2> QED
    BY <1>1, <2>0, <2>1, <2>2, <2>3, NewTraces DEF TracesAgree
<1> QED
  BY <1>2, <1>4, <1>5, <1>6, <1>7 DEF TracesAgree

\* A row is recorded as failed when its call has given up all it held.
LEMMA ConfirmKeepsClean ==
    ASSUME NEW c \in Confirms, Stepping(c), NEW i \in Imports,
           Overruled(i) => Overruled(i)'
    PROVE  LeavesNothing(i)'
<1> SUFFICES ASSUME txn'[i] \in allowsNewAttempt, ~Overruled(i)', Traced(i)', ~Marked(i)'
             PROVE  FALSE
  BY DEF LeavesNothing
<1>1. /\ LeavesNothing(i) /\ TracesAgree(i) /\ Leavings(c) /\ InstallInv
      /\ ~Overruled(i) /\ ~Marked(i)
      /\ ConfirmAgrees(c) /\ OnlyReviewed
      /\ \A d \in Confirms : CallFits(d)
  BY MarkedStays DEF Stepping, PackagesAgree, InstallInv, ConfirmsAgree
<1>2. CASE ~Traced(i)
  <2>1. i = confirm[c].imp /\ (MaterializeEffect(c) \/ WriteEffect(c))
    BY <1>2, NewTraces
  <2>2. txn[i] = "materializing" /\ txn' = txn
    BY <1>1, <2>1 DEF MaterializeEffect, WriteEffect, ConfirmAgrees, AtMaterializing
  <2> QED
    BY <2>2 DEF allowsNewAttempt
<1>3. CASE Traced(i)
  <2>1. txn'[i] # txn[i]
    BY <1>1, <1>3 DEF LeavesNothing
  <2>2. i = confirm[c].imp /\ confirm[c].pc = "failing"
    BY <2>1 DEF Stepping, EndsFailed
  <2>3. packages[archive[i].pkg] # i
    BY <1>1, <2>2 DEF Leavings, ArchiveOf
  <2>4. PICK d \in Confirms : confirm[d].imp = i /\ confirm[d].pc \in {"mark", "gone"}
    BY <1>1, <1>3, <2>3 DEF TracesAgree
  <2>5. confirm[d].pc # "mark"
    BY <1>1, <2>2, <2>4, WorksAlone DEF Working, Ended
  <2>6. confirm[d].pc # "gone"
    BY <1>1, <2>2, <2>4 DEF CallFits, OnlyReviewed, Ended
  <2> QED
    BY <2>4, <2>5, <2>6
<1> QED
  BY <1>2, <1>3

LEMMA ConfirmKeepsFiles ==
    ASSUME NEW c \in Confirms, Stepping(c)
    PROVE  FileHasRow'
<1> SUFFICES ASSUME NEW s \in Slugs, files'[s] # Nobody, skills'[s] = Nobody
             PROVE  faults' > 0
  BY DEF FileHasRow
<1>1. /\ FileHasRow /\ CallFits(c) /\ Holdings(c) /\ InstallInv
      /\ confirm[c].imp \in Imports /\ Nobody \notin Imports
      /\ faults \in Nat /\ faults' \in Nat /\ faults' >= faults
      /\ files \in [Slugs -> Imports \union {Nobody}]
      /\ skills \in [Slugs -> Imports \union {Nobody}]
  BY CallTypes, InstallAssumption
  DEF Stepping, PackagesAgree, InstallInv, InstallTypeOK, ConfirmEffect
<1>2. CASE files[s] # Nobody /\ skills[s] = Nobody
  BY <1>1, <1>2 DEF FileHasRow
<1>3. CASE UndoSkillsEffect(c) \/ UndoFilesEffect(c)
  BY <1>1, <1>3 DEF UndoSkillsEffect, UndoFilesEffect, CallFits, Undoing
<1>4. CASE MaterializeEffect(c)
  BY <1>1, <1>2, <1>4 DEF MaterializeEffect
<1>5. CASE WriteEffect(c)
  <2>1. \A q \in confirm[c].unwritten : q \in Slugs /\ skills[q] = confirm[c].imp
    BY <1>1, <1>5, CallTypes DEF WriteEffect, CallFits, Holdings, HoldsSkills
  <2> QED
    BY <1>1, <1>2, <1>5, <2>1 DEF WriteEffect
<1>6. CASE UNCHANGED <<files, skills>>
  BY <1>2, <1>6
<1> QED
  BY <1>3, <1>4, <1>5, <1>6 DEF Stepping, PackageEffect, QuietEffect, Same, UndoPackageEffect,
     MarkEffect

LEMMA ConfirmKeepsPackages ==
    ASSUME InstallInv, PackagesAgree, InstallNext, NEW c \in Confirms, ConfirmStep(c)
    PROVE  PackagesAgree'
<1>1. Stepping(c)
  BY ConfirmDoes, PackageDoes DEF Stepping
<1>2. \A i \in Imports : TracesAgree(i)' /\ LeavesNothing(i)'
  BY <1>1, OverruledStays, ConfirmKeepsTraces, ConfirmKeepsClean
<1>3. \A d \in Confirms : CallFits(d)' /\ Holdings(d)' /\ Leavings(d)'
  BY <1>1, ConfirmKeepsFits, ConfirmSparesOthers, ConfirmKeepsHoldings, ConfirmKeepsLeavings
<1> QED
  BY <1>1, <1>2, <1>3, ConfirmKeepsOwners, ConfirmKeepsFiles DEF PackagesAgree

-----------------------------------------------------------------------------
(* The other steps touch neither the rows of a package nor a file. *)

\* What a step that leaves the calls of confirmBindings alone must answer for.
LEMMA CallsUntouched ==
    ASSUME InstallInv, PackagesAgree,
           UNCHANGED <<archive, packages, skills, files, markers, confirm>>,
           faults' \in Nat /\ faults' >= faults,
           \A c \in Confirms : imp[confirm[c].imp].pc \in {"refused", "over"} =>
                                   imp'[confirm[c].imp].pc \in {"refused", "over"},
           \A i \in Imports : (Traced(i) => imp'[i].pc \in Through) /\ LeavesNothing(i)'
    PROVE  PackagesAgree'
<1>1. /\ \A i \in Imports : TracesAgree(i) /\ LeavesNothing(i)
      /\ \A c \in Confirms : CallFits(c) /\ Holdings(c) /\ Leavings(c)
      /\ OwnersDiffer /\ FileHasRow
      /\ faults \in Nat
  BY InstallAssumption DEF PackagesAgree, InstallInv, InstallTypeOK
<1>2. \A c \in Confirms : ArchiveOf(c)' = ArchiveOf(c)
  BY DEF ArchiveOf
<1>3. \A i \in Imports : (Traced(i)' <=> Traced(i)) /\ (Marked(i)' <=> Marked(i))
  BY DEF Traced, Marked
<1>4. \A i \in Imports : TracesAgree(i)'
  BY <1>1, <1>3 DEF TracesAgree
<1>5. \A c \in Confirms : CallFits(c)'
  BY <1>1, <1>2 DEF CallFits
<1>6. \A c \in Confirms : Holdings(c)'
  BY <1>1, <1>2 DEF Holdings, Owning, HoldsSkills, HoldsFiles, Written, Contested, RolledBack
<1>7. \A c \in Confirms : Leavings(c)'
  BY <1>1, <1>2, <1>3, CallTypes DEF Leavings, Marked
<1>8. OwnersDiffer'
  BY <1>1, <1>2 DEF OwnersDiffer, Owning
<1>9. FileHasRow'
  BY <1>1 DEF FileHasRow
<1> QED
  BY <1>4, <1>5, <1>6, <1>7, <1>8, <1>9 DEF PackagesAgree

LEMMA ImportKeepsPackages ==
    ASSUME InstallInv, PackagesAgree, InstallNext,
           NEW i \in Imports, StartImport(i) \/ ImportStep(i)
    PROVE  PackagesAgree'
<1>1. ImportEffect(i)
  BY ImportDoes
<1>2. faults' \in Nat /\ faults' >= faults
  <2>1. UNCHANGED faults \/ Fault
    BY DEF StartImport, ImportStep, Lookup, MarkStale, Insert, Plan, FailPlan, AdvancePipeline,
       updateState, Rejected
  <2> QED
    BY <2>1, InstallAssumption DEF InstallInv, InstallTypeOK, Fault
<1>3. \A j \in Imports : TracesAgree(j) /\ LeavesNothing(j) /\ (Overruled(j) => Overruled(j)')
  BY OverruledStays DEF PackagesAgree
\* Its own row an import writes before it can leave anything.
<1>4. ASSUME NEW j \in Imports
      PROVE  (Traced(j) => imp'[j].pc \in Through) /\ LeavesNothing(j)'
  <2>1. Traced(j) => imp[j].pc \in Through /\ imp'[j] = imp[j]
    BY <1>1, <1>3 DEF TracesAgree, ImportEffect
  <2>2. txn'[j] # txn[j] => j = i \/ Overruled(j)
    BY <1>1 DEF ImportEffect, Overruled
  <2>3. Traced(j) => j # i
    BY <1>1, <2>1 DEF ImportEffect
  <2>4. (Traced(j)' <=> Traced(j)) /\ (Marked(j)' <=> Marked(j))
    BY <1>1 DEF ImportEffect, Traced, Marked
  <2> QED
    BY <1>3, <2>1, <2>2, <2>3, <2>4 DEF LeavesNothing
<1>5. \A j \in Imports : imp[j].pc \in {"refused", "over"} => imp'[j].pc \in {"refused", "over"}
  BY <1>1 DEF ImportEffect, Through
<1>6. \A c \in Confirms : confirm[c].imp \in Imports
  BY CallTypes
<1> QED
  BY <1>1, <1>2, <1>4, <1>5, <1>6, CallsUntouched DEF ImportEffect

LEMMA CancelKeepsPackages ==
    ASSUME InstallInv, PackagesAgree, InstallNext,
           CloseDialog \/ \E i \in Imports : LoadForCancel(i) \/ WriteCancel(i)
    PROVE  PackagesAgree'
<1>1. PICK i \in Imports : CancelEffect(i)
  BY CancelDoes DEF CloseDialog, InstallInv, InstallTypeOK
<1>2. faults' \in Nat /\ faults' >= faults
  <2>1. UNCHANGED faults \/ Fault
    BY DEF CloseDialog, LoadForCancel, WriteCancel, updateState, Rejected
  <2> QED
    BY <2>1, InstallAssumption DEF InstallInv, InstallTypeOK, Fault
<1>3. \A j \in Imports : TracesAgree(j) /\ LeavesNothing(j) /\ (Overruled(j) => Overruled(j)')
  BY OverruledStays DEF PackagesAgree
<1>4. ASSUME NEW j \in Imports
      PROVE  (Traced(j) => imp'[j].pc \in Through) /\ LeavesNothing(j)'
  <2>1. txn'[j] # txn[j] => Overruled(j)
    BY <1>1 DEF CancelEffect, Overruled
  <2>2. (Traced(j)' <=> Traced(j)) /\ (Marked(j)' <=> Marked(j))
    BY <1>1 DEF CancelEffect, vault, Traced, Marked
  <2> QED
    BY <1>1, <1>3, <2>1, <2>2 DEF LeavesNothing, TracesAgree, CancelEffect
<1> QED
  BY <1>1, <1>2, <1>4, CallsUntouched DEF CancelEffect, vault

LEMMA StartKeepsPackages ==
    ASSUME InstallInv, PackagesAgree, InstallNext, NEW c \in Confirms, StartConfirm(c)
    PROVE  PackagesAgree'
<1>1. StartEffect(c)
  BY StartDoes
<1>2. /\ \A i \in Imports : TracesAgree(i) /\ LeavesNothing(i)
      /\ \A d \in Confirms : CallFits(d) /\ Holdings(d) /\ Leavings(d)
      /\ OwnersDiffer /\ FileHasRow
      /\ \A i \in Imports : Overruled(i) => Overruled(i)'
  BY OverruledStays DEF PackagesAgree
<1>3. /\ confirm'[c].pc = "waiting" /\ confirm'[c].result = confirm[c].result
      /\ confirm'[c].errors = confirm[c].errors
  BY CallTypes DEF StartConfirm, InstallInv, InstallTypeOK
<1>4. /\ \A d \in Confirms : d # c => confirm'[d] = confirm[d] /\ ArchiveOf(d)' = ArchiveOf(d)
      /\ UNCHANGED <<archive, packages, skills, files, markers, imp, txn, faults>>
      /\ confirm[c].pc = "idle"
  BY <1>1 DEF StartEffect, db, vault, ArchiveOf
\* An idle call has recorded nothing.
<1>5. confirm[c].errors # "unrecorded" /\ ~confirm[c].result
  BY <1>2, <1>4 DEF CallFits, Early
<1>6. \A i \in Imports : Marked(i) => Marked(i)'
  <2> SUFFICES ASSUME NEW i \in Imports, Marked(i) PROVE Marked(i)'
    OBVIOUS
  <2>1. CASE i \in markers
    BY <1>4, <2>1 DEF Marked
  <2>2. CASE \E d \in Confirms : confirm[d].imp = i /\ confirm[d].errors = "unrecorded"
    BY <1>4, <1>5, <2>2 DEF Marked
  <2> QED
    BY <2>1, <2>2 DEF Marked
<1>7. ASSUME NEW i \in Imports PROVE TracesAgree(i)' /\ LeavesNothing(i)'
  <2>1. Traced(i)' <=> Traced(i)
    BY <1>4 DEF Traced
  <2>2. (\E d \in Confirms : confirm[d].imp = i /\ confirm[d].pc \in {"mark", "gone"}) =>
           \E d \in Confirms : confirm'[d].imp = i /\ confirm'[d].pc \in {"mark", "gone"}
    BY <1>4
  <2> QED
    BY <1>2, <1>4, <1>6, <2>1, <2>2 DEF TracesAgree, LeavesNothing
<1>8. ~Owning(c)' /\ ~HoldsSkills(c)' /\ ~HoldsFiles(c)' /\ ~RolledBack(c)
  BY <1>3, <1>5 DEF Owning, HoldsSkills, HoldsFiles, RolledBack
<1>9. ASSUME NEW d \in Confirms PROVE CallFits(d)' /\ Holdings(d)' /\ Leavings(d)'
  <2>1. CASE d = c
    BY <1>3, <1>5, <1>8, <2>1 DEF CallFits, Holdings, Leavings, Early, Undoing
  <2>2. CASE d # c
    <3>1. confirm'[d] = confirm[d] /\ ArchiveOf(d)' = ArchiveOf(d) /\ Written(d)' = Written(d)
      BY <1>4, <2>2 DEF Written
    <3>2. \A s \in Slugs : Contested(d, s) => Contested(d, s)'
      BY <1>4, <1>8, <3>1 DEF Contested, RolledBack
    <3>3. Written(d) \subseteq Slugs
      BY CallTypes DEF Written
    <3>4. CallFits(d)'
      BY <1>2, <1>4, <3>1 DEF CallFits
    <3>5. Holdings(d)'
      BY <1>2, <1>4, <3>1, <3>2, <3>3 DEF Holdings, Owning, HoldsSkills, HoldsFiles
    <3>6. Leavings(d)'
      <4>1. confirm[d].imp \in Imports
        BY CallTypes
      <4>2. Marked(confirm[d].imp) => Marked(confirm[d].imp)'
        BY <1>4, <1>6, <3>1, <4>1 DEF Marked
      <4> QED
        BY <1>2, <1>4, <3>1, <4>2 DEF Leavings
    <3> QED
      BY <3>4, <3>5, <3>6
  <2> QED
    BY <2>1, <2>2
<1>10. OwnersDiffer'
  BY <1>2, <1>4, <1>8 DEF OwnersDiffer, Owning
<1>11. FileHasRow'
  BY <1>2, <1>4 DEF FileHasRow
<1> QED
  BY <1>7, <1>9, <1>10, <1>11 DEF PackagesAgree

LEMMA CrashKeepsPackages ==
    ASSUME InstallInv, PackagesAgree, InstallNext, Crash
    PROVE  PackagesAgree'
<1>1. CrashEffect
  BY CrashDoes
<1>2. /\ \A i \in Imports : TracesAgree(i) /\ LeavesNothing(i)
      /\ \A d \in Confirms : CallFits(d) /\ Holdings(d) /\ Leavings(d)
      /\ OwnersDiffer /\ FileHasRow
      /\ \A i \in Imports : Overruled(i) => Overruled(i)'
  BY OverruledStays DEF PackagesAgree
<1>3. /\ UNCHANGED <<archive, packages, skills, files, markers, txn, faults>>
      /\ \A d \in Confirms : ArchiveOf(d)' = ArchiveOf(d)
  BY <1>1 DEF CrashEffect, Crash, db, vault, ArchiveOf
<1>4. \A d \in Confirms :
        /\ confirm'[d].imp = confirm[d].imp
        /\ confirm'[d].result = confirm[d].result /\ confirm'[d].errors = confirm[d].errors
        /\ confirm[d].pc \in Ended => confirm'[d] = confirm[d]
        /\ confirm[d].pc \notin Ended => confirm'[d].pc = "gone"
  <2> SUFFICES ASSUME NEW d \in Confirms
               PROVE  /\ confirm'[d].imp = confirm[d].imp
                      /\ confirm'[d].result = confirm[d].result
                      /\ confirm'[d].errors = confirm[d].errors
                      /\ confirm[d].pc \in Ended => confirm'[d] = confirm[d]
                      /\ confirm[d].pc \notin Ended => confirm'[d].pc = "gone"
    OBVIOUS
  <2>1. confirm[d] \in Call /\ "gone" \in ConfirmPcs
    BY CallTypes DEF ConfirmPcs
  <2>2. confirm'[d] = IF confirm[d].pc \in Ended THEN confirm[d] ELSE Left(confirm[d], "gone")
    BY DEF Crash
  <2> QED
    BY <2>1, <2>2, LeftKeeps
<1>5. \A d \in Confirms : confirm[d].pc \in Ended \/ confirm[d].pc = "gone" =>
                              confirm'[d].pc = confirm[d].pc
  BY <1>4 DEF Ended
\* The import of a call that is gone is over.
<1>6. \A i \in Imports :
        /\ imp[i].pc \in {"reviewed", "refused", "over"} => imp'[i].pc \in {"refused", "over"}
        /\ imp[i].pc \in Through => imp'[i].pc \in Through
  BY DEF Crash, InstallInv, InstallTypeOK, Through
<1>7. ASSUME NEW i \in Imports PROVE TracesAgree(i)' /\ LeavesNothing(i)'
  <2>1. (Traced(i)' <=> Traced(i)) /\ (Marked(i)' <=> Marked(i))
    BY <1>3, <1>4 DEF Traced, Marked
  <2>2. (\E d \in Confirms : confirm[d].imp = i /\ confirm[d].pc \in {"mark", "gone"}) =>
           \E d \in Confirms : confirm'[d].imp = i /\ confirm'[d].pc \in {"mark", "gone"}
    BY <1>4, <1>5 DEF Ended
  <2> QED
    BY <1>2, <1>3, <1>6, <2>1, <2>2 DEF TracesAgree, LeavesNothing
<1>8. \A d \in Confirms : RolledBack(d) => RolledBack(d)'
  BY <1>4, <1>5 DEF RolledBack, Ended
<1>9. ASSUME NEW d \in Confirms PROVE CallFits(d)' /\ Holdings(d)' /\ Leavings(d)'
  <2>1. CASE confirm[d].pc \in Ended
    <3>1. confirm'[d] = confirm[d] /\ ArchiveOf(d)' = ArchiveOf(d) /\ Written(d)' = Written(d)
      BY <1>3, <1>4, <2>1 DEF Written
    <3>2. \A s \in Slugs : Contested(d, s) => Contested(d, s)'
      BY <1>3, <1>8, <3>1 DEF Contested
    <3>3. Written(d) \subseteq Slugs /\ confirm[d].imp \in Imports
      BY CallTypes DEF Written
    <3>4. CallFits(d)'
      BY <1>2, <1>3, <1>6, <3>1, <3>3 DEF CallFits
    <3>5. Holdings(d)'
      BY <1>2, <1>3, <3>1, <3>2, <3>3 DEF Holdings, Owning, HoldsSkills, HoldsFiles
    <3>6. Leavings(d)'
      BY <2>1, <3>1 DEF Leavings, Ended
    <3> QED
      BY <3>4, <3>5, <3>6
  <2>2. CASE confirm[d].pc \notin Ended
    <3>1. confirm'[d].pc = "gone" /\ imp[confirm[d].imp].pc = "reviewed"
      BY <1>4, <2>2 DEF InstallInv, OnlyReviewed
    <3>2. confirm[d].imp \in Imports
      BY CallTypes
    <3> QED
      BY <1>4, <1>6, <3>1, <3>2
      DEF CallFits, Holdings, Leavings, Owning, HoldsSkills, HoldsFiles, Early, Undoing, Settled
  <2> QED
    BY <2>1, <2>2
<1>10. OwnersDiffer'
  <2>1. \A d \in Confirms : Owning(d)' => Owning(d)
    BY <1>4, <1>5 DEF Owning, Undoing, Settled, Ended
  <2> QED
    BY <1>2, <1>3, <2>1 DEF OwnersDiffer
<1>11. FileHasRow'
  BY <1>2, <1>3 DEF FileHasRow
<1> QED
  BY <1>7, <1>9, <1>10, <1>11 DEF PackagesAgree

-----------------------------------------------------------------------------
LEMMA PackagesAgreeInit == InstallInit => PackagesAgree
<1> SUFFICES ASSUME InstallInit PROVE PackagesAgree
  OBVIOUS
<1>1. /\ \A i \in Imports : i # Nobody /\ imp[i].pc = "idle" /\ txn[i] = NoRow
      /\ \A p \in Packages : packages[p] = Nobody
      /\ \A s \in Slugs : skills[s] = Nobody /\ files[s] = Nobody
      /\ \A c \in Confirms : /\ confirm[c].pc = "idle" /\ ~confirm[c].result
                             /\ confirm[c].errors = "none"
  BY DEF InstallInit, Imports, Nobody
<1>2. \A i \in Imports : ~Traced(i)
  BY <1>1 DEF Traced
<1>3. \A i \in Imports : TracesAgree(i) /\ LeavesNothing(i)
  BY <1>1, <1>2 DEF TracesAgree, LeavesNothing
<1>4. \A c \in Confirms : CallFits(c) /\ Holdings(c) /\ Leavings(c) /\ ~Owning(c)
  BY <1>1 DEF CallFits, Holdings, Leavings, Owning, HoldsSkills, HoldsFiles, Early, Undoing
<1>5. OwnersDiffer /\ FileHasRow
  BY <1>1, <1>4 DEF OwnersDiffer, FileHasRow
<1> QED
  BY <1>3, <1>4, <1>5 DEF PackagesAgree

LEMMA PackagesAgreeStep ==
    InstallInv /\ PackagesAgree /\ [InstallNext]_installVars => PackagesAgree'
<1>1. CASE UNCHANGED installVars
  BY <1>1 DEF installVars, db, vault, calls, PackagesAgree, TracesAgree, LeavesNothing, Traced,
     Marked, Overruled, CallFits, Holdings, Leavings, Owning, HoldsSkills, HoldsFiles, Written,
     Contested, RolledBack, ArchiveOf, OwnersDiffer, FileHasRow
<1>2. ASSUME InstallInv, PackagesAgree, InstallNext PROVE PackagesAgree'
  BY <1>2, ConfirmKeepsPackages, ImportKeepsPackages, CancelKeepsPackages, StartKeepsPackages,
     CrashKeepsPackages DEF InstallNext
<1> QED
  BY <1>1, <1>2

LEMMA PackagesAlwaysAgree == InstallSpec => []PackagesAgree
BY InstallInvAlways, PackagesAgreeInit, PackagesAgreeStep, PTL DEF InstallSpec

\* What a confirmation has reported stands, for any archives: its package row and
\* the rows of its skills stay its own, and so do their files unless a package
\* with a skill of the same slug is rolled back (OwnResultStands).
THEOREM OwnResultAlwaysStands == InstallSpec => []OwnResultStands
<1>1. PackagesAgree => OwnResultStands
  BY DEF PackagesAgree, OwnResultStands, Holdings, Owning, HoldsSkills, HoldsFiles, Written,
     Settled
<1> QED
  BY <1>1, PackagesAlwaysAgree, PTL

\* An install that recorded itself as failed - one that no cancel and no takeover
\* has overruled - has left no row and no file, or else the vault holds its repair
\* marker or refused that too (FailedOwnsNothing).
THEOREM FailedAlwaysOwnsNothing == InstallSpec => []FailedOwnsNothing
<1>1. PackagesAgree => FailedOwnsNothing
  BY DEF PackagesAgree, LeavesNothing, FailedOwnsNothing, Traced, Marked
<1> QED
  BY <1>1, PackagesAlwaysAgree, PTL

\* No order of commit, flush, rollback and restart leaves a file without its row
\* unless a call was refused (FileHasRow).
THEOREM FileAlwaysHasRow == InstallSpec => []FileHasRow
<1>1. PackagesAgree => FileHasRow
  BY DEF PackagesAgree
<1> QED
  BY <1>1, PackagesAlwaysAgree, PTL

=============================================================================
