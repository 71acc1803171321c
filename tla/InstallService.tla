--------------------------- MODULE InstallService ---------------------------
(***************************************************************************)
(* Installing a package into one company: the InstallService over the      *)
(* desktop repositories, driven by the Market surface.                     *)
(*                                                                         *)
(* Every import has an InstallService of its own (queries.ts), so the plan *)
(* cache and the materialize lock of one import are never seen by another: *)
(* what imports share is the database, the vault, and the one pending      *)
(* install the surface holds.  Each await is one action.  A transaction    *)
(* row is written by its id, whatever state it is in by then; the database *)
(* refuses a second active row of one idempotency key, a second row of one *)
(* package version and a second skill of one slug.                         *)
(*                                                                         *)
(* Not modelled: what a package holds besides its row and its skills, the  *)
(* events, the registry receipt, and the memory repositories of the tests. *)
(* The deletes of one kind in a rollback settle together here.             *)
(***************************************************************************)
EXTENDS Naturals, FiniteSets

CONSTANTS
    Keys,         \* idempotency keys
    Packages,     \* package versions
    Slugs,        \* skill slugs
    MaxImports,   \* bound: imports
    MaxConfirms,  \* bound: calls of confirmBindings
    Uploads,      \* the archives the imports may read, as functions of the import
    MaxCrashes,   \* bound: restarts of the renderer
    MaxMishaps    \* bound: restarts, and calls of a repository or the vault that reject

Imports  == 1 .. MaxImports
Confirms == 1 .. MaxConfirms
Nobody   == 0

\* The idempotency key, the package version and the skills in it.
Archives == [key : Keys, pkg : Packages, slugs : SUBSET Slugs]

ASSUME InstallAssumption ==
    /\ MaxImports \in Nat \ {0} /\ MaxConfirms \in Nat
    /\ Uploads \subseteq [Imports -> Archives]
    /\ MaxCrashes \in Nat /\ MaxMishaps \in Nat

VARIABLES
    archive,   \* the archive each import reads
    txn,       \* state of the install_transactions row of each import
    packages,  \* installed_packages: the import that inserted each row
    skills,    \* skills: the import that inserted the row of each slug
    files,     \* the SKILL.md of each slug in the vault: the import that wrote it
    markers,   \* imports with a repair marker in the vault
    imp,       \* the importFile calls, with the row each took for stale
    confirm,   \* the confirmBindings calls
    cancelling, \* the cancel calls, one per import
    pending,   \* pendingPackageInstall of the surface
    faults, crashes

db == <<txn, packages, skills>>
vault == <<files, markers>>
calls == <<imp, confirm, cancelling, pending>>
installVars == <<archive, db, vault, calls, faults, crashes>>

\* integrity_checked and compatibility_checked are passed through like
\* manifest_loaded, and nothing tells the three apart.
Pipeline == {"created", "manifest_loaded", "dependency_planned"}
Awaiting == {"awaiting_confirmation", "awaiting_bindings"}
Terminal == {"installed", "failed", "rolled_back", "cancelled"}
NoRow    == "none"
States   == Pipeline \union Awaiting \union Terminal
              \union {"ready_to_install", "materializing", NoRow}

\* Rows the partial unique index and findByIdempotencyKey leave out.
allowsNewAttempt == {"failed", "rolled_back", "cancelled"}
Active(i) == txn[i] \notin allowsNewAttempt \union {NoRow}

ImportPcs  == {"idle", "lookup", "markStale", "insert", "plan", "failStage",
               "failing", "pipeline", "reviewed", "refused", "over"}
ConfirmPcs == {"idle", "waiting", "find", "advance", "materialize", "flush",
               "undoSkills", "undoFiles", "undoPackage", "mark", "failing",
               "settle", "finish", "ok", "threw", "gone"}
CancelPcs  == {"idle", "load", "write", "finish", "over"}

InstallTypeOK ==
    /\ archive \in Uploads
    /\ txn \in [Imports -> States]
    /\ packages \in [Packages -> Imports \union {Nobody}]
    /\ skills \in [Slugs -> Imports \union {Nobody}]
    /\ files \in [Slugs -> Imports \union {Nobody}]
    /\ markers \subseteq Imports
    /\ imp \in [Imports -> [pc : ImportPcs, stale : Imports \union {Nobody}]]
    /\ confirm \in [Confirms -> [pc : ConfirmPcs, imp : Imports, seen : States,
                                 unwritten : SUBSET Slugs, result : BOOLEAN,
                                 errors : {"none", "some", "unrecorded"}]]
    /\ cancelling \in [Imports -> [pc : CancelPcs, seen : States]]
    /\ pending \in Imports \union {Nobody}
    /\ crashes \in 0 .. MaxCrashes /\ faults \in 0 .. MaxMishaps - crashes

InstallInit ==
    /\ archive \in Uploads
    /\ txn = [i \in Imports |-> NoRow]
    /\ packages = [p \in Packages |-> Nobody]
    /\ skills = [s \in Slugs |-> Nobody]
    /\ files = [s \in Slugs |-> Nobody]
    /\ markers = {}
    /\ imp = [i \in Imports |-> [pc |-> "idle", stale |-> Nobody]]
    /\ confirm = [c \in Confirms |-> [pc |-> "idle", imp |-> 1, seen |-> NoRow,
                                      unwritten |-> {}, result |-> FALSE,
                                      errors |-> "none"]]
    /\ cancelling = [i \in Imports |-> [pc |-> "idle", seen |-> NoRow]]
    /\ pending = Nobody
    /\ faults = 0 /\ crashes = 0

-----------------------------------------------------------------------------
\* The repositories.

\* A call that rejects for a reason outside the model.
Fault == faults + crashes < MaxMishaps /\ faults' = faults + 1

KeyOf(i) == archive[i].key

\* The unique index on (company, idempotency key), were row i active.
KeyTaken(i) == \E j \in Imports \ {i} : Active(j) /\ KeyOf(j) = KeyOf(i)

\* updateState and finish: the row of that id, whatever it says by now.
updateState(i, state) ==
    /\ state \in allowsNewAttempt \/ ~KeyTaken(i)
    /\ txn' = [txn EXCEPT ![i] = state]
    /\ UNCHANGED faults

Rejected(i, state) ==
    /\ \/ state \notin allowsNewAttempt /\ KeyTaken(i) /\ UNCHANGED faults
       \/ Fault
    /\ UNCHANGED txn

-----------------------------------------------------------------------------
\* importFile.
ImportAt(i, pc) == imp' = [imp EXCEPT ![i].pc = pc]
OnlyImport == UNCHANGED <<archive, packages, skills, vault, confirm, cancelling, crashes>>

StartImport(i) ==
    /\ imp[i].pc = "idle"
    /\ \A j \in Imports : j < i => imp[j].pc # "idle"
    /\ ImportAt(i, "lookup")
    /\ OnlyImport
    /\ UNCHANGED <<txn, pending, faults>>

\* The plan cache of this new service is empty: an active row is either stuck in
\* materializing, and taken over, or it refuses the import.
Lookup(i) ==
    /\ imp[i].pc = "lookup"
    /\ \/ ~KeyTaken(i) /\ ImportAt(i, "insert") /\ UNCHANGED faults
       \/ \E j \in Imports \ {i} :
             /\ Active(j) /\ KeyOf(j) = KeyOf(i)
             /\ IF txn[j] = "materializing"
                THEN imp' = [imp EXCEPT ![i].pc = "markStale", ![i].stale = j]
                ELSE ImportAt(i, "refused")
             /\ UNCHANGED faults
       \/ Fault /\ ImportAt(i, "over")
    /\ OnlyImport
    /\ UNCHANGED <<txn, pending>>

\* Mutant of MarkStale: the error code is written where the state belongs.
MarkStaleByCode(i) ==
    /\ imp[i].pc = "markStale"
    /\ updateState(imp[i].stale, "stale_materializing") /\ ImportAt(i, "insert")
    /\ OnlyImport
    /\ UNCHANGED pending

\* transitionToFailed(stale_materializing), on what the lookup saw.
MarkStale(i) ==
    /\ imp[i].pc = "markStale"
    /\ \/ updateState(imp[i].stale, "failed") /\ ImportAt(i, "insert")
       \/ Rejected(imp[i].stale, "failed") /\ ImportAt(i, "over")
    /\ OnlyImport
    /\ UNCHANGED pending

Insert(i) ==
    /\ imp[i].pc = "insert"
    /\ \/ updateState(i, "created") /\ ImportAt(i, "plan")
       \/ Rejected(i, "created") /\ ImportAt(i, "over")
    /\ OnlyImport
    /\ UNCHANGED pending

\* createInstallPlan.  tryTransitionAndFail passes through the stage only when
\* the manifest could not be loaded.
Plan(i) ==
    /\ imp[i].pc = "plan"
    /\ \E pc \in {"pipeline", "failStage", "failing"} : ImportAt(i, pc)
    /\ OnlyImport
    /\ UNCHANGED <<txn, pending, faults>>

FailPlan(i) ==
    /\ \/ /\ imp[i].pc = "failStage"
          /\ \/ updateState(i, "manifest_loaded") /\ ImportAt(i, "failing")
             \/ Rejected(i, "manifest_loaded") /\ ImportAt(i, "over")
       \/ /\ imp[i].pc = "failing"
          /\ \/ updateState(i, "failed") \/ Rejected(i, "failed")
          /\ ImportAt(i, "over")
    /\ OnlyImport
    /\ UNCHANGED pending

\* What the pipeline writes after each state; the plan decides the last one.
AfterStage(state) ==
    CASE state = "created"            -> {"manifest_loaded"}
      [] state = "manifest_loaded"    -> {"dependency_planned"}
      [] state = "dependency_planned" -> Awaiting \union {"ready_to_install"}

\* With its last write importFile resolves, and the surface makes it the pending
\* install: another one that was pending is forgotten, not cancelled.
AdvancePipeline(i) ==
    /\ imp[i].pc = "pipeline"
    /\ \E state \in AfterStage(txn[i]) :
          \/ /\ updateState(i, state)
             /\ IF state \in Pipeline
                THEN UNCHANGED <<imp, pending>>
                ELSE ImportAt(i, "reviewed") /\ pending' = i
          \/ /\ Rejected(i, state)
             /\ ImportAt(i, "over")
             /\ UNCHANGED pending
    /\ OnlyImport

-----------------------------------------------------------------------------
\* confirmBindings.
ArchiveOf(c) == archive[confirm[c].imp]
Ended == {"idle", "ok", "threw", "gone"}

\* The locals of a call that has ended are gone, but for its result.
Left(call, pc) ==
    IF pc \in Ended THEN [call EXCEPT !.pc = pc, !.seen = NoRow, !.unwritten = {}]
                    ELSE [call EXCEPT !.pc = pc]

ConfirmAt(c, pc) == confirm' = [confirm EXCEPT ![c] = Left(@, pc)]
OnlyConfirm == UNCHANGED <<archive, imp, cancelling, crashes>>

\* In the locked part of its import's service, or waiting for it.
Before(b, c) == b < c /\ confirm[b].imp = confirm[c].imp /\ confirm[b].pc \notin Ended

\* The dialog confirms the pending install when it opens, and at every retry.
StartConfirm(c) ==
    /\ confirm[c].pc = "idle"
    /\ \A b \in Confirms : b < c => confirm[b].pc # "idle"
    /\ pending # Nobody
    /\ confirm' = [confirm EXCEPT ![c].pc = "waiting", ![c].imp = pending]
    /\ OnlyConfirm
    /\ UNCHANGED <<db, vault, pending, faults>>

\* Mutant of TakeLock: the calls of one import are not serialised.
TakeLockAnyway(c) ==
    /\ confirm[c].pc = "waiting"
    /\ confirm' = [confirm EXCEPT ![c].pc = "find", ![c].seen = txn[confirm[c].imp]]
    /\ OnlyConfirm
    /\ UNCHANGED <<db, vault, pending, faults>>

\* withMaterializeLock, then loadTxn.
TakeLock(c) ==
    /\ confirm[c].pc = "waiting"
    /\ \A b \in Confirms : ~Before(b, c)
    /\ \/ /\ confirm' = [confirm EXCEPT ![c].pc = "find", ![c].seen = txn[confirm[c].imp]]
          /\ UNCHANGED faults
       \/ Fault /\ ConfirmAt(c, "threw")
    /\ OnlyConfirm
    /\ UNCHANGED <<db, vault, pending>>

\* findInstalledPackageExact, and what the state loaded before it allows.
FindInstalled(c) ==
    /\ confirm[c].pc = "find"
    /\ \/ /\ IF packages[ArchiveOf(c).pkg] # Nobody
             THEN ConfirmAt(c, IF confirm[c].seen = "materializing" THEN "settle" ELSE "threw")
             ELSE ConfirmAt(c, CASE confirm[c].seen = "materializing" -> "materialize"
                                 [] confirm[c].seen \in Awaiting \union {"ready_to_install"}
                                      -> "advance"
                                 [] OTHER -> "threw")
          /\ UNCHANGED faults
       \/ Fault /\ ConfirmAt(c, "threw")
    /\ OnlyConfirm
    /\ UNCHANGED <<db, vault, pending>>

\* The transitions towards materializing, from the state this call loaded.
AfterReview(state) ==
    CASE state = "awaiting_confirmation" -> {"awaiting_bindings", "ready_to_install"}
      [] state = "awaiting_bindings"     -> {"ready_to_install"}
      [] state = "ready_to_install"      -> {"materializing"}

AdvanceConfirm(c) ==
    /\ confirm[c].pc = "advance"
    /\ \E state \in AfterReview(confirm[c].seen) :
          \/ /\ updateState(confirm[c].imp, state)
             /\ confirm' = [confirm EXCEPT
                               ![c].seen = state,
                               ![c].pc = IF state = "materializing" THEN "materialize" ELSE @]
          \/ Rejected(confirm[c].imp, state) /\ ConfirmAt(c, "threw")
    /\ UNCHANGED <<packages, skills, vault, pending>>
    /\ OnlyConfirm

\* Mutant of Materialize: the files are written before the rows are committed.
FilesFirst(c) ==
    LET a == ArchiveOf(c)
    IN  /\ confirm[c].pc = "materialize"
        /\ \/ /\ \E s \in a.slugs : files[s] = Nobody
              /\ files' = [s \in Slugs |-> IF s \in a.slugs THEN confirm[c].imp ELSE files[s]]
              /\ UNCHANGED <<packages, skills, confirm>>
           \/ /\ packages[a.pkg] = Nobody
              /\ packages' = [packages EXCEPT ![a.pkg] = confirm[c].imp]
              /\ skills' = [s \in Slugs |-> IF s \in a.slugs THEN confirm[c].imp ELSE skills[s]]
              /\ ConfirmAt(c, "settle")
              /\ UNCHANGED files
        /\ OnlyConfirm
        /\ UNCHANGED <<txn, markers, pending, faults>>

\* The rows of the package, in one transaction of the desktop backend.
Materialize(c) ==
    LET a == ArchiveOf(c)
        free == packages[a.pkg] = Nobody /\ \A s \in a.slugs : skills[s] = Nobody
    IN  /\ confirm[c].pc = "materialize"
        /\ \/ /\ free
              /\ packages' = [packages EXCEPT ![a.pkg] = confirm[c].imp]
              /\ skills' = [s \in Slugs |-> IF s \in a.slugs THEN confirm[c].imp ELSE skills[s]]
              /\ confirm' = [confirm EXCEPT ![c].pc = "flush", ![c].unwritten = a.slugs,
                                               ![c].result = TRUE]
              /\ UNCHANGED faults
           \/ /\ \/ ~free /\ UNCHANGED faults
                 \/ Fault
              /\ ConfirmAt(c, "failing")
              /\ UNCHANGED <<packages, skills>>
        /\ OnlyConfirm
        /\ UNCHANGED <<txn, vault, pending>>

\* The vault files, after the commit.  A package without skills has none.
Flush(c) ==
    /\ confirm[c].pc = "flush"
    /\ \/ /\ confirm[c].unwritten = {}
          /\ ConfirmAt(c, "settle")
          /\ UNCHANGED <<files, faults>>
       \/ \E s \in confirm[c].unwritten :
             \/ /\ files' = [files EXCEPT ![s] = confirm[c].imp]
                /\ confirm' = [confirm EXCEPT ![c].unwritten = @ \ {s}]
                /\ UNCHANGED faults
             \/ Fault /\ ConfirmAt(c, "undoSkills") /\ UNCHANGED files
    /\ OnlyConfirm
    /\ UNCHANGED <<db, markers, pending>>

\* rollback, kind by kind: a delete that rejects is an error, and what it was to
\* delete may be kept.
Undone(c, pc, kept) ==
    \/ kept = {} /\ ConfirmAt(c, pc) /\ UNCHANGED faults
    \/ Fault /\ confirm' = [confirm EXCEPT ![c].pc = pc, ![c].errors = "some"]

\* Mutant of UndoSkills: the package row goes first, before the files.
UndoPackageFirst(c) ==
    /\ confirm[c].pc = "undoSkills"
    /\ packages' = [packages EXCEPT ![ArchiveOf(c).pkg] = Nobody]
    /\ skills' = [s \in Slugs |-> IF s \in ArchiveOf(c).slugs THEN Nobody ELSE skills[s]]
    /\ ConfirmAt(c, "undoFiles")
    /\ OnlyConfirm
    /\ UNCHANGED <<txn, vault, pending, faults>>

UndoSkills(c) ==
    /\ confirm[c].pc = "undoSkills"
    /\ \E kept \in SUBSET ArchiveOf(c).slugs :
          /\ Undone(c, "undoFiles", kept)
          /\ skills' = [s \in Slugs |-> IF s \in ArchiveOf(c).slugs \ kept
                                        THEN Nobody ELSE skills[s]]
    /\ OnlyConfirm
    /\ UNCHANGED <<txn, packages, vault, pending>>

\* The paths of all the skills, written or not; a path is the slug's.
UndoFiles(c) ==
    /\ confirm[c].pc = "undoFiles"
    /\ \E kept \in SUBSET ArchiveOf(c).slugs :
          /\ Undone(c, "undoPackage", kept)
          /\ files' = [s \in Slugs |-> IF s \in ArchiveOf(c).slugs \ kept
                                       THEN Nobody ELSE files[s]]
    /\ OnlyConfirm
    /\ UNCHANGED <<db, markers, pending>>

\* Mutant of UndoPackage: the package row of an install that failed is kept.
KeepPackage(c) ==
    /\ confirm[c].pc = "undoPackage"
    /\ ConfirmAt(c, IF confirm[c].errors = "some" THEN "mark" ELSE "failing")
    /\ OnlyConfirm
    /\ UNCHANGED <<db, vault, pending, faults>>

UndoPackage(c) ==
    /\ confirm[c].pc = "undoPackage"
    /\ \/ /\ packages' = [packages EXCEPT ![ArchiveOf(c).pkg] = Nobody]
          /\ ConfirmAt(c, IF confirm[c].errors = "some" THEN "mark" ELSE "failing")
          /\ UNCHANGED faults
       \/ Fault /\ ConfirmAt(c, "mark") /\ UNCHANGED packages
    /\ OnlyConfirm
    /\ UNCHANGED <<txn, skills, vault, pending>>

\* recordVaultRepairMarker; it swallows its own failure.
Mark(c) ==
    /\ confirm[c].pc = "mark"
    /\ \/ /\ markers' = markers \union {confirm[c].imp}
          /\ ConfirmAt(c, "failing")
          /\ UNCHANGED faults
       \/ /\ Fault
          /\ confirm' = [confirm EXCEPT ![c].pc = "failing", ![c].errors = "unrecorded"]
          /\ UNCHANGED markers
    /\ OnlyConfirm
    /\ UNCHANGED <<db, files, pending>>

\* The best-effort transitionToFailed before materialize_failed is thrown.
FailConfirm(c) ==
    /\ confirm[c].pc = "failing"
    /\ updateState(confirm[c].imp, "failed") \/ Rejected(confirm[c].imp, "failed")
    /\ ConfirmAt(c, "threw")
    /\ OnlyConfirm
    /\ UNCHANGED <<packages, skills, vault, pending>>

\* transition to installed, outside the try; then finish.  The surface clears the
\* pending install when the call resolves, whichever install is pending by then.
Settle(c) ==
    /\ confirm[c].pc \in {"settle", "finish"}
    /\ \/ /\ updateState(confirm[c].imp, "installed")
          /\ IF confirm[c].pc = "settle"
             THEN ConfirmAt(c, "finish") /\ UNCHANGED pending
             ELSE ConfirmAt(c, "ok") /\ pending' = Nobody
       \/ /\ Rejected(confirm[c].imp, "installed")
          /\ ConfirmAt(c, "threw")
          /\ UNCHANGED pending
    /\ OnlyConfirm
    /\ UNCHANGED <<packages, skills, vault>>

ConfirmStep(c) ==
    \/ TakeLock(c)
    \/ FindInstalled(c)
    \/ AdvanceConfirm(c)
    \/ Materialize(c)
    \/ Flush(c)
    \/ UndoSkills(c)
    \/ UndoFiles(c)
    \/ UndoPackage(c)
    \/ Mark(c)
    \/ FailConfirm(c)
    \/ Settle(c)

-----------------------------------------------------------------------------
\* cancel, when the dialog of the pending install is closed, at any time.
CancelAt(i, pc) ==
    cancelling' = [cancelling EXCEPT ![i] =
                      IF pc = "over" THEN [pc |-> "over", seen |-> NoRow]
                      ELSE [@ EXCEPT !.pc = pc]]
OnlyCancel == UNCHANGED <<archive, packages, skills, vault, imp, confirm, crashes>>

CloseDialog ==
    /\ pending # Nobody
    /\ CancelAt(pending, "load")
    /\ pending' = Nobody
    /\ OnlyCancel
    /\ UNCHANGED <<txn, faults>>

LoadForCancel(i) ==
    /\ cancelling[i].pc = "load"
    /\ \/ /\ txn[i] \in Terminal /\ CancelAt(i, "over") /\ UNCHANGED faults
       \/ /\ txn[i] \notin Terminal
          /\ cancelling' = [cancelling EXCEPT ![i] = [pc |-> "write", seen |-> txn[i]]]
          /\ UNCHANGED faults
       \/ Fault /\ CancelAt(i, "over")
    /\ OnlyCancel
    /\ UNCHANGED <<txn, pending>>

\* Only the states before materializing may be cancelled; materializing fails.
CancelState(seen) == IF seen = "materializing" THEN "failed" ELSE "cancelled"

WriteCancel(i) ==
    /\ cancelling[i].pc \in {"write", "finish"}
    /\ \/ /\ updateState(i, CancelState(cancelling[i].seen))
          /\ CancelAt(i, IF cancelling[i].pc = "write" THEN "finish" ELSE "over")
       \/ Rejected(i, CancelState(cancelling[i].seen)) /\ CancelAt(i, "over")
    /\ OnlyCancel
    /\ UNCHANGED pending

-----------------------------------------------------------------------------
\* The renderer restarts: the calls, the plans and the dialog are gone.
Crash ==
    /\ crashes < MaxCrashes /\ crashes + faults < MaxMishaps
    /\ crashes' = crashes + 1
    /\ imp' = [i \in Imports |-> IF imp[i].pc \in {"idle", "refused"} THEN imp[i]
                                 ELSE [imp[i] EXCEPT !.pc = "over"]]
    /\ confirm' = [c \in Confirms |-> IF confirm[c].pc \in Ended THEN confirm[c]
                                      ELSE Left(confirm[c], "gone")]
    /\ cancelling' = [i \in Imports |-> IF cancelling[i].pc = "idle" THEN cancelling[i]
                                        ELSE [pc |-> "over", seen |-> NoRow]]
    /\ pending' = Nobody
    /\ UNCHANGED <<archive, db, vault, faults>>

ImportStep(i) ==
    \/ Lookup(i)
    \/ MarkStale(i)
    \/ Insert(i)
    \/ Plan(i)
    \/ FailPlan(i)
    \/ AdvancePipeline(i)

InstallNext ==
    \/ \E i \in Imports : StartImport(i)
    \/ \E i \in Imports : ImportStep(i)
    \/ \E c \in Confirms : StartConfirm(c)
    \/ \E c \in Confirms : ConfirmStep(c)
    \/ CloseDialog
    \/ \E i \in Imports : LoadForCancel(i)
    \/ \E i \in Imports : WriteCancel(i)
    \/ Crash

InstallSpec == InstallInit /\ [][InstallNext]_installVars

-----------------------------------------------------------------------------
(* Properties. *)

\* Another writer has meddled with the row of import i: the user's cancel, or an
\* import of the same key that took it for stuck in materializing.
Overruled(i) == cancelling[i].pc # "idle" \/ \E j \in Imports : imp[j].stale = i

\* Call d has begun to delete what it had materialized, or has failed since.
RolledBack(d) ==
    /\ confirm[d].result
    /\ confirm[d].pc \in {"undoFiles", "undoPackage", "mark", "failing", "threw", "gone"}

\* A package with the same skill has been rolled back beside the confirmation: the
\* row of a skill goes before its file, and between the two the slug is free.
Contested(c, s) ==
    \E d \in Confirms : /\ RolledBack(d) /\ s \in ArchiveOf(d).slugs
                        /\ ArchiveOf(d).pkg # ArchiveOf(c).pkg

\* A confirmation that reports what it has materialized tells the truth for as
\* long as nothing is uninstalled: no rollback of another import, and no second
\* confirmation, takes its package or its skills away, or their files, but for the
\* rollback of another package with the same skill (RowHasFile).
OwnResultStands ==
    \A c \in Confirms :
        confirm[c].pc = "ok" /\ confirm[c].result =>
            /\ packages[ArchiveOf(c).pkg] = confirm[c].imp
            /\ \A s \in ArchiveOf(c).slugs :
                  /\ skills[s] = confirm[c].imp
                  /\ files[s] = confirm[c].imp \/ Contested(c, s)

\* "so we never leave a row pointing at a missing file" (materialize): the rows of
\* the skills that a confirmation has reported have their files in the vault.
RowHasFile ==
    \A c \in Confirms, s \in Slugs :
        confirm[c].pc = "ok" /\ confirm[c].result /\ skills[s] = confirm[c].imp =>
            files[s] = confirm[c].imp

\* "never leave a row pointing at a missing file": an install that recorded itself
\* as failed has left no row and no file behind, unless the vault holds a repair
\* marker for it or refused that too.  One that a cancel or a takeover recorded as
\* ended, over its own work, is left out (Overruled): after a restart between
\* commit and flush its rows stay without their files (README, 5).
FailedOwnsNothing ==
    \A i \in Imports :
        txn[i] \in allowsNewAttempt /\ ~Overruled(i) =>
            \/ \A p \in Packages, s \in Slugs : i \notin {packages[p], skills[s], files[s]}
            \/ i \in markers
            \/ \E c \in Confirms : confirm[c].imp = i /\ confirm[c].errors = "unrecorded"

\* A file has its row, except where a vault write or delete was refused: neither
\* the order of commit and flush nor a restart between them may orphan a file.
FileHasRow ==
    \A s \in Slugs : files[s] # Nobody /\ skills[s] = Nobody => faults > 0

\* Nothing but a cancel or a takeover that overlaps the confirmation changes a
\* terminal row: confirmations of one import never overwrite each other's end.
TerminalStays ==
    [][\A i \in Imports :
          txn[i] \in Terminal /\ txn'[i] # txn[i] => Overruled(i)]_installVars

\* "it can be cancelled cleanly from its awaiting_* state (see cancel()) and the
\* install re-initiated": an import is refused for a row that awaits the user only
\* while its dialog or a confirmation still holds that install, or once the user
\* has asked to cancel it.
Held(j) == \/ pending = j
           \/ cancelling[j].pc # "idle"
           \/ \E c \in Confirms : confirm[c].imp = j /\ confirm[c].pc \notin Ended

RefusedOnlyWhileHeld ==
    [][\A i \in Imports : imp[i].pc = "lookup" /\ imp'[i].pc = "refused" =>
          \E j \in Imports : /\ Active(j) /\ KeyOf(j) = KeyOf(i)
                             /\ txn[j] \in Awaiting => Held(j)]_installVars

=============================================================================
