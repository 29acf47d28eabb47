------------------------------ MODULE Savepoint ------------------------------
(***************************************************************************)
(* What a run does to the package.json files of the working copy: it saves *)
(* them, patches those of the packages to release, perhaps commits them,   *)
(* pulls the branch under them, and restores them in the end               *)
(* (packages/io/src/backupPackage.ts and patchPackageJsons.ts, called by   *)
(* packages/node/src/index.ts). Files are written concurrently: Promise.all*)
(* waits for all writes, but rejects at the first that fails.              *)
(***************************************************************************)
EXTENDS FiniteSets, Naturals

CONSTANTS
    Workspaces,     \* the workspaces with a package.json that is saved
    Targets,        \* those to publish
    Configs         \* the configurations a run may have

\* The options that decide what happens to the manifests.
Config == [dryRun : BOOLEAN, persistVersions : BOOLEAN, autoCommit : BOOLEAN, push : BOOLEAN]

ASSUME SavepointAssumption ==
    /\ IsFiniteSet(Workspaces)
    /\ Targets \subseteq Workspaces
    /\ Configs \subseteq Config

VARIABLES
    config,     \* the configuration of the run
    pc,         \* the step the run is at
    failed,     \* has a step thrown?
    disk,       \* disk[w]: the package.json of w in the working copy
    backup,     \* the saved files, a function on the workspaces saved so far
    patch,      \* patch[w]: the write of patchWorkspace
    restore,    \* restore[w]: the copy of restoreFile
    committed   \* what the publish commit holds of each target, nothing before

vars == <<config, pc, failed, disk, backup, patch, restore, committed>>

\* A file holds what the branch had when the run began, or what a pull brought;
\* the versions in it may be patched; a writer that is not done leaves it torn.
Content  == [pulled : BOOLEAN, patched : BOOLEAN, torn : BOOLEAN]
Original == [pulled |-> FALSE, patched |-> FALSE, torn |-> FALSE]
Patched  == [pulled |-> FALSE, patched |-> TRUE, torn |-> FALSE]
Torn     == [pulled |-> FALSE, patched |-> FALSE, torn |-> TRUE]

IoStates == {"idle", "queued", "open", "done", "failed"}
InFlight == {"queued", "open"}
Steps == {"saving", "patching", "committing", "pulling", "publishing",
          "restoring", "copying", "clearing", "ended", "crashed"}

NoBackup == [w \in {} |-> Original]
Saved    == DOMAIN backup

Init ==
    /\ config \in Configs
    /\ pc = "saving"
    /\ failed = FALSE
    /\ disk = [w \in Workspaces |-> Original]
    /\ backup = NoBackup
    /\ patch = [w \in Workspaces |-> "idle"]
    /\ restore = [w \in Workspaces |-> "idle"]
    /\ committed = NoBackup

-----------------------------------------------------------------------------
(* backupPackageJsons, awaited before the try block. *)

SaveFile(w) ==
    /\ pc = "saving"
    /\ ~config.dryRun
    /\ w \notin Saved
    /\ backup' = [v \in Saved \cup {w} |-> IF v = w THEN disk[w] ELSE backup[v]]
    /\ UNCHANGED <<config, pc, failed, disk, patch, restore, committed>>

\* Mutant: The backup is not awaited.
SaveDoneUnawaited ==
    /\ pc = "saving"
    /\ pc' = "patching"
    /\ patch' = [w \in Workspaces |-> IF w \in Targets THEN "queued" ELSE "idle"]
    /\ UNCHANGED <<config, failed, disk, backup, restore, committed>>

\* All files and map.json are saved; patchPackageJsons starts every write at once.
SaveDone ==
    /\ pc = "saving"
    /\ config.dryRun \/ Saved = Workspaces
    /\ pc' = "patching"
    /\ patch' = [w \in Workspaces |-> IF w \in Targets THEN "queued" ELSE "idle"]
    /\ UNCHANGED <<config, failed, disk, backup, restore, committed>>

\* A copy fails: the run ends without cleanup, the try block was not entered.
SaveThrows ==
    /\ pc = "saving"
    /\ ~config.dryRun
    /\ pc' = "ended"
    /\ failed' = TRUE
    /\ UNCHANGED <<config, disk, backup, patch, restore, committed>>

-----------------------------------------------------------------------------
(* patchPackageJsons. The writes are the run's, and outlive a rejection. *)

\* The manifest is patched in memory only.
PatchSkips(w) ==
    /\ config.dryRun
    /\ patch[w] = "queued"
    /\ patch' = [patch EXCEPT ![w] = "done"]
    /\ UNCHANGED <<config, pc, failed, disk, backup, restore, committed>>

PatchOpens(w) ==
    /\ pc # "crashed"
    /\ ~config.dryRun
    /\ patch[w] = "queued"
    /\ patch' = [patch EXCEPT ![w] = "open"]
    /\ disk' = [disk EXCEPT ![w] = Torn]
    /\ UNCHANGED <<config, pc, failed, backup, restore, committed>>

PatchWritten(w) ==
    /\ pc # "crashed"
    /\ patch[w] = "open"
    /\ patch' = [patch EXCEPT ![w] = "done"]
    /\ disk' = [disk EXCEPT ![w] = Patched]
    /\ UNCHANGED <<config, pc, failed, backup, restore, committed>>

PatchFails(w) ==
    /\ pc # "crashed"
    /\ ~config.dryRun
    /\ patch[w] \in InFlight
    /\ patch' = [patch EXCEPT ![w] = "failed"]
    /\ UNCHANGED <<config, pc, failed, disk, backup, restore, committed>>

\* Mutant: The writes are started but not awaited.
PatchDoneUnawaited ==
    /\ pc = "patching"
    /\ \A w \in Targets : patch[w] # "failed"
    /\ pc' = "committing"
    /\ UNCHANGED <<config, failed, disk, backup, patch, restore, committed>>

PatchDone ==
    /\ pc = "patching"
    /\ \A w \in Targets : patch[w] = "done"
    /\ pc' = "committing"
    /\ UNCHANGED <<config, failed, disk, backup, patch, restore, committed>>

\* Promise.all rejects at the first failure, whatever is still being written.
PatchThrows ==
    /\ pc = "patching"
    /\ \E w \in Targets : patch[w] = "failed"
    /\ pc' = "restoring"
    /\ failed' = TRUE
    /\ UNCHANGED <<config, disk, backup, patch, restore, committed>>

-----------------------------------------------------------------------------
(* The steps that follow, as far as they concern the manifests. *)

\* Mutant: Every manifest is committed, in a run without persistVersions, too.
CommitEverything ==
    /\ pc = "committing"
    /\ pc' = "pulling"
    /\ committed' = IF config.autoCommit /\ ~config.dryRun THEN disk ELSE committed
    /\ UNCHANGED <<config, failed, disk, backup, patch, restore>>

\* createPublishCommit does something, and adds the manifests to its commit.
Commits == Targets # {} /\ config.autoCommit /\ ~config.dryRun

Commit ==
    /\ pc = "committing"
    /\ pc' = "pulling"
    /\ committed' = IF Commits /\ config.persistVersions
                    THEN [w \in Targets |-> disk[w]] ELSE committed
    /\ UNCHANGED <<config, failed, disk, backup, patch, restore>>

\* git pull --rebase --autostash: upstream changes arrive under the patched
\* files; a stash that does not apply again is dropped for the branch's file.
Upstream(w, isPatched) == [pulled |-> TRUE, patched |-> isPatched, torn |-> disk[w].torn]

PulledOver(w) ==
    IF config.persistVersions
    THEN {Upstream(w, disk[w].patched)}
    ELSE {Upstream(w, disk[w].patched), Upstream(w, FALSE)}

Pull ==
    /\ pc = "pulling"
    /\ pc' = "publishing"
    /\ IF Commits /\ config.push
       THEN \E changed \in SUBSET Workspaces :
                disk' \in {f \in [Workspaces -> Content] :
                             \A w \in Workspaces :
                                 IF w \in changed THEN f[w] \in PulledOver(w) ELSE f[w] = disk[w]}
       ELSE UNCHANGED disk
    /\ UNCHANGED <<config, failed, backup, patch, restore, committed>>

\* The rest of the try block returns; the finally block starts.
Finish ==
    /\ pc = "publishing"
    /\ pc' = "restoring"
    /\ UNCHANGED <<config, failed, disk, backup, patch, restore, committed>>

StepThrows ==
    /\ pc \in {"committing", "pulling", "publishing"}
    /\ pc' = "restoring"
    /\ failed' = TRUE
    /\ UNCHANGED <<config, disk, backup, patch, restore, committed>>

-----------------------------------------------------------------------------
(* The finally block. *)

ToRestore == IF config.dryRun \/ config.persistVersions THEN {} ELSE Saved

\* map.json is read, and every copy is issued at once.
RestoreStarts ==
    /\ pc = "restoring"
    /\ pc' = "copying"
    /\ restore' = [w \in Workspaces |-> IF w \in ToRestore THEN "queued" ELSE restore[w]]
    /\ UNCHANGED <<config, failed, disk, backup, patch, committed>>

\* map.json cannot be read: nothing is restored, and the backup is kept.
MapUnreadable ==
    /\ pc = "restoring"
    /\ ~config.dryRun /\ ~config.persistVersions
    /\ pc' = "ended"
    /\ failed' = TRUE
    /\ UNCHANGED <<config, disk, backup, patch, restore, committed>>

\* restoreFile: fs.copyFile of the saved file. The copies outlive a rejection.
RestoreOpens(w) ==
    /\ pc # "crashed"
    /\ restore[w] = "queued"
    /\ restore' = [restore EXCEPT ![w] = "open"]
    /\ disk' = [disk EXCEPT ![w] = Torn]
    /\ UNCHANGED <<config, pc, failed, backup, patch, committed>>

RestoreWritten(w) ==
    /\ pc # "crashed"
    /\ restore[w] = "open"
    /\ restore' = [restore EXCEPT ![w] = "done"]
    /\ disk' = [disk EXCEPT ![w] = backup[w]]
    /\ UNCHANGED <<config, pc, failed, backup, patch, committed>>

RestoreFails(w) ==
    /\ pc # "crashed"
    /\ restore[w] \in InFlight
    /\ restore' = [restore EXCEPT ![w] = "failed"]
    /\ UNCHANGED <<config, pc, failed, disk, backup, patch, committed>>

\* Mutant: Promise.allSettled, so that a failed copy does not stop the cleanup.
RestoreDoneSettled ==
    /\ pc = "copying"
    /\ \A w \in ToRestore : restore[w] \in {"done", "failed"}
    /\ pc' = "clearing"
    /\ UNCHANGED <<config, failed, disk, backup, patch, restore, committed>>

RestoreDone ==
    /\ pc = "copying"
    /\ \A w \in ToRestore : restore[w] = "done"
    /\ pc' = "clearing"
    /\ UNCHANGED <<config, failed, disk, backup, patch, restore, committed>>

\* Mutant: A failed copy is tried again, without end.
RestoreRetries ==
    /\ pc = "copying"
    /\ \E w \in ToRestore : restore[w] = "failed"
    /\ restore' = [w \in Workspaces |-> IF restore[w] = "failed" THEN "queued" ELSE restore[w]]
    /\ UNCHANGED <<config, pc, failed, disk, backup, patch, committed>>

\* The backup is kept when a file could not be restored.
RestoreThrows ==
    /\ pc = "copying"
    /\ \E w \in ToRestore : restore[w] = "failed"
    /\ pc' = "ended"
    /\ failed' = TRUE
    /\ UNCHANGED <<config, disk, backup, patch, restore, committed>>

\* clearBackupCache.
Clear ==
    /\ pc = "clearing"
    /\ pc' = "ended"
    /\ backup' = NoBackup
    /\ UNCHANGED <<config, failed, disk, patch, restore, committed>>

\* The process is killed: nothing is in flight any more.
Crash ==
    /\ pc \notin {"ended", "crashed"}
    /\ pc' = "crashed"
    /\ UNCHANGED <<config, failed, disk, backup, patch, restore, committed>>

Quiet == \A w \in Workspaces : patch[w] \notin InFlight /\ restore[w] \notin InFlight
Terminated ==
    /\ pc \in {"ended", "crashed"}
    /\ pc = "ended" => Quiet
    /\ UNCHANGED vars

FileStep(w) ==
    \/ SaveFile(w)
    \/ PatchSkips(w) \/ PatchOpens(w) \/ PatchWritten(w) \/ PatchFails(w)
    \/ RestoreOpens(w) \/ RestoreWritten(w) \/ RestoreFails(w)

RunStep ==
    \/ SaveDone \/ SaveThrows
    \/ PatchDone \/ PatchThrows
    \/ Commit \/ Pull \/ Finish \/ StepThrows
    \/ RestoreStarts \/ MapUnreadable \/ RestoreDone \/ RestoreThrows \/ Clear

Next == (\E w \in Workspaces : FileStep(w)) \/ RunStep \/ Crash \/ Terminated

\* File operations end, and node runs the continuation of every await.
Fairness == WF_vars(RunStep) /\ \A w \in Workspaces : WF_vars(FileStep(w))

Spec == Init /\ [][Next]_vars /\ Fairness

-----------------------------------------------------------------------------
(***************************************************************************)
(* Properties.                                                             *)
(***************************************************************************)

TypeOK ==
    /\ config \in Configs
    /\ pc \in Steps
    /\ failed \in BOOLEAN
    /\ disk \in [Workspaces -> Content]
    /\ Saved \subseteq Workspaces /\ backup \in [Saved -> Content]
    /\ patch \in [Workspaces -> IoStates]
    /\ restore \in [Workspaces -> IoStates]
    /\ DOMAIN committed \subseteq Targets /\ committed \in [DOMAIN committed -> Content]

Damaged(w) == disk[w].patched \/ disk[w].torn

\* index.ts, lines 225-226: patching is "the main destructive action which
\* requires the backup". Whatever is not persisted can be undone: as long as a
\* package.json is patched or torn, its original is in the backup. It is not when
\* one write fails and another outlives the restore that follows.
DamageIsRecoverable ==
    ~config.persistVersions =>
        \A w \in Workspaces : Damaged(w) => w \in Saved /\ backup[w] = Original

\* No write of patchPackageJsons has failed.
WritesSucceed == \A w \in Workspaces : patch[w] # "failed"

\* Short of such a write, the damage can be undone at any moment: after a crash,
\* after a failed step, and when restoring fails.
DamageIsRecoverableIfWritten == WritesSucceed => DamageIsRecoverable

\* Once a run has ended and emptied its backup, a file is patched or torn only if
\* it was to be published and the write of another one failed: only then did its
\* own write outlive the restore. A failed write never spoils its own file, nor
\* that of a package that is not released.
NothingStaysPatched ==
    (pc = "ended" /\ Saved = {} /\ ~config.persistVersions)
        => \A w \in Workspaces : Damaged(w) =>
               /\ w \in Targets
               /\ \E v \in Targets \ {w} : patch[v] = "failed"

\* The publish commit holds complete manifests with the new versions.
CommitsWholeManifests ==
    \A w \in DOMAIN committed : committed[w].patched /\ ~committed[w].torn

\* A dry run neither writes nor saves a file.
DryRunWritesNothing ==
    config.dryRun => disk = [w \in Workspaces |-> Original] /\ Saved = {}

\* The run ends, or is killed, whatever fails.
RunEnds == <>(pc \in {"ended", "crashed"})
==============================================================================
