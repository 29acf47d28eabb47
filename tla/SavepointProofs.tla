--------------------------- MODULE SavepointProofs ---------------------------
(***************************************************************************)
(* Proofs about Savepoint, for every set of workspaces, every choice of    *)
(* packages to publish and every configuration: what the backup, the files *)
(* and the commit hold; a run neither gets stuck nor goes on for ever.     *)
(***************************************************************************)
EXTENDS Savepoint, FiniteSetTheorems, TLAPS

Trying == {"patching", "committing", "pulling", "publishing", "restoring", "copying",
           "clearing"}
Ending == {"copying", "clearing", "ended", "crashed"}

\* The backup holds originals, and all of them from the first write on.
BackupIsPristine ==
    /\ \A w \in Saved : backup[w] = Original
    /\ ~config.dryRun /\ pc \in Trying => Saved = Workspaces

\* Nothing is written before the backup is complete, nor in a dry run.
UntouchedFirst ==
    /\ pc = "saving" => \A w \in Workspaces : patch[w] = "idle" /\ disk[w] = Original
    /\ config.dryRun => Saved = {} /\ \A w \in Workspaces : patch[w] # "open" /\ disk[w] = Original

\* The write of another manifest failed, so the run did not wait for this one.
Outlived(w) == w \in Targets /\ \E v \in Targets \ {w} : patch[v] = "failed"

\* Unless a write failed, the run left patchPackageJsons with all files written.
PatchesAreAwaited ==
    pc \notin {"saving", "patching", "crashed"} =>
        \A w \in Workspaces : patch[w] \in InFlight => Outlived(w)

\* A file is copied back in the finally block, from the backup, and not when
\* versions are persisted.
RestoresInOrder ==
    \A w \in Workspaces :
        /\ restore[w] # "idle" => pc \in Ending /\ ~config.persistVersions
        /\ restore[w] \in InFlight => w \in Saved /\ pc # "clearing"

\* The backup is cleared only after every file was copied back.
RestoredFirst ==
    pc = "clearing" /\ ~config.dryRun /\ ~config.persistVersions =>
        \A w \in Workspaces : restore[w] = "done"

\* A restored file is neither patched nor torn.
RestoredIsWhole ==
    \A w \in Workspaces : restore[w] = "done" /\ Damaged(w) => Outlived(w)

\* What is damaged can be undone, file by file.
Recoverable ==
    ~config.persistVersions =>
        \A w \in Workspaces : Damaged(w) /\ ~Outlived(w) => w \in Saved /\ backup[w] = Original

\* What is committed, and about to be, is patched and complete.
PatchedForCommit ==
    /\ \A w \in Workspaces \ Targets : patch[w] = "idle"
    /\ pc = "committing" => \A w \in Targets : patch[w] = "done"
    /\ pc = "committing" /\ ~config.dryRun => \A w \in Targets : disk[w] = Patched
    /\ \A w \in Targets : ~config.dryRun /\ patch[w] = "done" /\ pc = "patching" => disk[w] = Patched
    /\ CommitsWholeManifests

\* The inductive invariant.
Guarded ==
    /\ TypeOK
    /\ BackupIsPristine
    /\ UntouchedFirst
    /\ PatchesAreAwaited
    /\ RestoresInOrder
    /\ RestoredFirst
    /\ RestoredIsWhole
    /\ PatchedForCommit
    /\ Recoverable

LEMMA InitGuarded ==
    ASSUME Init
    PROVE  Guarded
  BY SavepointAssumption
  DEF Init, Guarded, TypeOK, BackupIsPristine, UntouchedFirst, PatchesAreAwaited, RestoresInOrder,
      RestoredFirst, RestoredIsWhole, PatchedForCommit, CommitsWholeManifests,
      Recoverable, Damaged, Outlived, Saved, NoBackup,
      Original, Patched, Content, Steps, IoStates, InFlight, Trying, Ending

-----------------------------------------------------------------------------
(* Steps on one file. *)

LEMMA SaveFileGuarded ==
    ASSUME Guarded, NEW w \in Workspaces, SaveFile(w)
    PROVE  Guarded'
  BY DEF SaveFile, Guarded, TypeOK, BackupIsPristine, UntouchedFirst, PatchesAreAwaited,
         RestoresInOrder, RestoredFirst, RestoredIsWhole, PatchedForCommit, CommitsWholeManifests,
         Recoverable, Damaged, Outlived, Saved,
         Original, Content, Steps, Trying, Ending

LEMMA PatchGuarded ==
    ASSUME Guarded, NEW w \in Workspaces,
           PatchSkips(w) \/ PatchOpens(w) \/ PatchWritten(w) \/ PatchFails(w)
    PROVE  Guarded'
  <1>1. CASE PatchSkips(w)
    BY <1>1 DEF PatchSkips, Guarded, TypeOK, BackupIsPristine, UntouchedFirst, PatchesAreAwaited,
         RestoresInOrder, RestoredFirst, RestoredIsWhole, PatchedForCommit, CommitsWholeManifests,
         Recoverable, Damaged, Outlived, Saved,
         Original, Content, Steps, IoStates, InFlight, Trying, Ending
  <1>2. CASE PatchOpens(w)
    <2>1. w \in Workspaces /\ disk' \in [Workspaces -> Content] /\ patch' \in [Workspaces -> IoStates]
      BY <1>2 DEF PatchOpens, Guarded, TypeOK, Torn, Content, IoStates
    <2>2. TypeOK' /\ BackupIsPristine' /\ UntouchedFirst'
      BY <1>2, <2>1 DEF PatchOpens, Guarded, TypeOK, BackupIsPristine, UntouchedFirst, Saved, Trying
    <2>3. PatchesAreAwaited' /\ RestoresInOrder' /\ RestoredFirst'
      BY <1>2, <2>1 DEF PatchOpens, Guarded, TypeOK, PatchesAreAwaited, RestoresInOrder, RestoredFirst,
           Outlived, Saved, InFlight
    <2>4. RestoredIsWhole'
      BY <1>2, <2>1 DEF PatchOpens, Guarded, TypeOK, PatchesAreAwaited, RestoresInOrder,
           RestoredIsWhole, Damaged, Outlived, InFlight, Ending
    <2>5. PatchedForCommit'
      BY <1>2, <2>1 DEF PatchOpens, Guarded, TypeOK, PatchedForCommit, CommitsWholeManifests, Torn
    <2>6. Recoverable'
      BY <1>2, <2>1 DEF PatchOpens, Guarded, TypeOK, BackupIsPristine, UntouchedFirst,
           PatchesAreAwaited, Recoverable, Damaged,
           Outlived, Saved, InFlight, Steps, Trying
    <2> QED  BY <2>2, <2>3, <2>4, <2>5, <2>6 DEF Guarded
  <1>3. CASE PatchWritten(w)
    <2>1. w \in Workspaces /\ disk' \in [Workspaces -> Content] /\ patch' \in [Workspaces -> IoStates]
      BY <1>3 DEF PatchWritten, Guarded, TypeOK, Patched, Content, IoStates
    <2>2. TypeOK' /\ BackupIsPristine' /\ UntouchedFirst'
      BY <1>3, <2>1 DEF PatchWritten, Guarded, TypeOK, BackupIsPristine, UntouchedFirst, Saved, Trying
    <2>3. PatchesAreAwaited' /\ RestoresInOrder' /\ RestoredFirst'
      BY <1>3, <2>1 DEF PatchWritten, Guarded, TypeOK, PatchesAreAwaited, RestoresInOrder, RestoredFirst,
           Outlived, Saved, InFlight
    <2>4. RestoredIsWhole'
      BY <1>3, <2>1 DEF PatchWritten, Guarded, TypeOK, PatchesAreAwaited, RestoresInOrder,
           RestoredIsWhole, Damaged, Outlived, InFlight, Ending
    <2>5. PatchedForCommit'
      BY <1>3, <2>1 DEF PatchWritten, Guarded, TypeOK, PatchedForCommit, CommitsWholeManifests, Patched
    <2>6. Recoverable'
      BY <1>3, <2>1 DEF PatchWritten, Guarded, TypeOK, BackupIsPristine, UntouchedFirst,
           PatchesAreAwaited, Recoverable, Damaged,
           Outlived, Saved, InFlight, Steps, Trying
    <2> QED  BY <2>2, <2>3, <2>4, <2>5, <2>6 DEF Guarded
  <1>4. CASE PatchFails(w)
    BY <1>4 DEF PatchFails, Guarded, TypeOK, BackupIsPristine, UntouchedFirst, PatchesAreAwaited,
         RestoresInOrder, RestoredFirst, RestoredIsWhole, PatchedForCommit, CommitsWholeManifests,
         Recoverable, Damaged, Outlived, Saved,
         Original, Content, Steps, IoStates, InFlight, Trying, Ending
  <1> QED  BY <1>1, <1>2, <1>3, <1>4

LEMMA RestoreGuarded ==
    ASSUME Guarded, NEW w \in Workspaces,
           RestoreOpens(w) \/ RestoreWritten(w) \/ RestoreFails(w)
    PROVE  Guarded'
  <1>1. CASE RestoreOpens(w)
    <2>1. /\ w \in Saved /\ ~config.dryRun /\ ~config.persistVersions
          /\ backup[w] = Original /\ pc \in {"copying", "ended"}
      BY <1>1 DEF RestoreOpens, Guarded, TypeOK, BackupIsPristine, UntouchedFirst,
           RestoresInOrder, InFlight, Ending
    <2>2. disk' \in [Workspaces -> Content] /\ restore' \in [Workspaces -> IoStates]
      BY <1>1 DEF RestoreOpens, Guarded, TypeOK, Torn, Content, IoStates
    <2>3. TypeOK' /\ BackupIsPristine' /\ UntouchedFirst'
      BY <1>1, <2>1, <2>2 DEF RestoreOpens, Guarded, TypeOK, BackupIsPristine,
           UntouchedFirst, Saved, Trying
    <2>4. PatchesAreAwaited' /\ RestoresInOrder' /\ RestoredFirst'
      BY <1>1, <2>1, <2>2 DEF RestoreOpens, Guarded, TypeOK, PatchesAreAwaited,
           RestoresInOrder, RestoredFirst, Outlived, Saved, InFlight, Ending
    <2>5. RestoredIsWhole' /\ Recoverable'
      BY <1>1, <2>1, <2>2 DEF RestoreOpens, Guarded, TypeOK, RestoredIsWhole, Recoverable,
           Damaged, Outlived, Saved
    <2>6. PatchedForCommit'
      BY <1>1, <2>1, <2>2 DEF RestoreOpens, Guarded, PatchedForCommit, CommitsWholeManifests
    <2> QED  BY <2>3, <2>4, <2>5, <2>6 DEF Guarded
  <1>2. CASE RestoreWritten(w)
    BY <1>2 DEF RestoreWritten, Guarded, TypeOK, BackupIsPristine, UntouchedFirst,
         PatchesAreAwaited, RestoresInOrder, RestoredFirst, RestoredIsWhole, PatchedForCommit,
         CommitsWholeManifests, Recoverable, Damaged,
         Outlived, Saved, Original, Content, Steps, IoStates, InFlight, Trying, Ending
  <1>3. CASE RestoreFails(w)
    BY <1>3 DEF RestoreFails, Guarded, TypeOK, BackupIsPristine, UntouchedFirst,
         PatchesAreAwaited, RestoresInOrder, RestoredFirst, RestoredIsWhole, PatchedForCommit,
         CommitsWholeManifests, Recoverable, Damaged,
         Outlived, Saved, Original, Content, Steps, IoStates, InFlight, Trying, Ending
  <1> QED  BY <1>1, <1>2, <1>3

-----------------------------------------------------------------------------
(* Steps of the run. *)

LEMMA SavingStepGuarded ==
    ASSUME Guarded, SaveDone \/ SaveThrows
    PROVE  Guarded'
  <1>1. CASE SaveDone
    BY <1>1, SavepointAssumption DEF SaveDone, Guarded, TypeOK, BackupIsPristine, UntouchedFirst,
         PatchesAreAwaited, RestoresInOrder, RestoredFirst, RestoredIsWhole, PatchedForCommit,
         CommitsWholeManifests, Recoverable, Damaged,
         Outlived, Saved, Original, Content, Steps, IoStates, InFlight, Trying, Ending
  <1>2. CASE SaveThrows
    BY <1>2 DEF SaveThrows, Guarded, TypeOK, BackupIsPristine, UntouchedFirst,
         PatchesAreAwaited, RestoresInOrder, RestoredFirst, RestoredIsWhole, PatchedForCommit,
         CommitsWholeManifests, Recoverable, Damaged,
         Outlived, Saved, Original, Content, Steps, IoStates, InFlight, Trying, Ending
  <1> QED  BY <1>1, <1>2

LEMMA PatchingStepGuarded ==
    ASSUME Guarded, PatchDone \/ PatchThrows
    PROVE  Guarded'
  <1>1. CASE PatchDone
    BY <1>1, SavepointAssumption DEF PatchDone, Guarded, TypeOK, BackupIsPristine, UntouchedFirst,
         PatchesAreAwaited, RestoresInOrder, RestoredFirst, RestoredIsWhole, PatchedForCommit,
         CommitsWholeManifests, Recoverable, Damaged,
         Outlived, Saved, Original, Content, Steps, IoStates, InFlight, Trying, Ending
  <1>2. CASE PatchThrows
    BY <1>2, SavepointAssumption DEF PatchThrows, Guarded, TypeOK, BackupIsPristine, UntouchedFirst,
         PatchesAreAwaited, RestoresInOrder, RestoredFirst, RestoredIsWhole, PatchedForCommit,
         CommitsWholeManifests, Recoverable, Damaged,
         Outlived, Saved, Original, Content, Steps, IoStates, InFlight, Trying, Ending
  <1> QED  BY <1>1, <1>2
LEMMA PublishingStepGuarded ==
    ASSUME Guarded, Commit \/ Pull \/ Finish \/ StepThrows
    PROVE  Guarded'
  <1>1. CASE Commit
    BY <1>1, SavepointAssumption DEF Commit, Commits, Patched, Guarded, TypeOK, BackupIsPristine, UntouchedFirst,
         PatchesAreAwaited, RestoresInOrder, RestoredFirst, RestoredIsWhole, PatchedForCommit,
         CommitsWholeManifests, Recoverable, Damaged,
         Outlived, Saved, Original, Content, Steps, IoStates, InFlight, Trying, Ending
  <1>2. CASE Pull
    <2>1. \A w \in Workspaces : restore[w] = "idle"
      BY <1>2 DEF Pull, Guarded, TypeOK, RestoresInOrder, IoStates, Ending
    <2>2. disk' \in [Workspaces -> Content] /\ (config.dryRun => disk' = disk)
      BY <1>2 DEF Pull, Commits, Guarded, TypeOK
    <2>3. TypeOK' /\ BackupIsPristine' /\ UntouchedFirst'
      BY <1>2, <2>2 DEF Pull, Guarded, TypeOK, BackupIsPristine, UntouchedFirst, Saved, Trying, Steps
    <2>4. PatchesAreAwaited' /\ RestoresInOrder' /\ RestoredFirst' /\ RestoredIsWhole'
      BY <1>2, <2>1 DEF Pull, Guarded, PatchesAreAwaited, RestoresInOrder, RestoredFirst,
           RestoredIsWhole, Outlived, InFlight
    <2>5. PatchedForCommit'
      BY <1>2 DEF Pull, Guarded, PatchedForCommit, CommitsWholeManifests
    <2>6. Recoverable'
      <3>1. CASE config.dryRun
        BY <1>2, <2>2, <3>1 DEF Pull, Guarded, Recoverable,
             Damaged, Outlived, Saved
      <3>2. CASE ~config.dryRun
        BY <1>2, <3>2 DEF Pull, Guarded, BackupIsPristine, Recoverable, Saved, Trying
      <3> QED  BY <3>1, <3>2
    <2> QED  BY <2>3, <2>4, <2>5, <2>6 DEF Guarded
  <1>3. CASE Finish
    BY <1>3 DEF Finish, Guarded, TypeOK, BackupIsPristine, UntouchedFirst,
         PatchesAreAwaited, RestoresInOrder, RestoredFirst, RestoredIsWhole, PatchedForCommit,
         CommitsWholeManifests, Recoverable, Damaged,
         Outlived, Saved, Original, Content, Steps, IoStates, InFlight, Trying, Ending
  <1>4. CASE StepThrows
    BY <1>4 DEF StepThrows, Guarded, TypeOK, BackupIsPristine, UntouchedFirst,
         PatchesAreAwaited, RestoresInOrder, RestoredFirst, RestoredIsWhole, PatchedForCommit,
         CommitsWholeManifests, Recoverable, Damaged,
         Outlived, Saved, Original, Content, Steps, IoStates, InFlight, Trying, Ending
  <1> QED  BY <1>1, <1>2, <1>3, <1>4

LEMMA RestoringStepGuarded ==
    ASSUME Guarded, RestoreStarts \/ MapUnreadable \/ RestoreDone \/ RestoreThrows \/ Clear
    PROVE  Guarded'
  <1>4. CASE RestoreStarts
    BY <1>4 DEF RestoreStarts, ToRestore, Guarded, TypeOK, BackupIsPristine, UntouchedFirst,
         PatchesAreAwaited, RestoresInOrder, RestoredFirst, RestoredIsWhole, PatchedForCommit,
         CommitsWholeManifests, Recoverable, Damaged, Outlived, Saved, Original, Content,
         Steps, IoStates, InFlight, Trying, Ending
  <1>5. CASE MapUnreadable
    BY <1>5 DEF MapUnreadable, ToRestore, Guarded, TypeOK, BackupIsPristine, UntouchedFirst,
         PatchesAreAwaited, RestoresInOrder, RestoredFirst, RestoredIsWhole, PatchedForCommit,
         CommitsWholeManifests, Recoverable, Damaged, Outlived, Saved, Original, Content,
         Steps, IoStates, InFlight, Trying, Ending
  <1>1. CASE RestoreDone
    BY <1>1 DEF RestoreDone, ToRestore, Guarded, TypeOK, BackupIsPristine, UntouchedFirst,
         PatchesAreAwaited, RestoresInOrder, RestoredFirst, RestoredIsWhole, PatchedForCommit,
         CommitsWholeManifests, Recoverable, Damaged,
         Outlived, Saved, Original, Content, Steps, IoStates, InFlight, Trying, Ending
  <1>2. CASE RestoreThrows
    BY <1>2 DEF RestoreThrows, ToRestore, Guarded, TypeOK, BackupIsPristine, UntouchedFirst,
         PatchesAreAwaited, RestoresInOrder, RestoredFirst, RestoredIsWhole, PatchedForCommit,
         CommitsWholeManifests, Recoverable, Damaged,
         Outlived, Saved, Original, Content, Steps, IoStates, InFlight, Trying, Ending
  <1>3. CASE Clear
    <2>1. TypeOK' /\ Saved' = {}
      BY <1>3 DEF Clear, Guarded, TypeOK, Saved, NoBackup, Content, Steps
    <2>2. BackupIsPristine' /\ UntouchedFirst'
      BY <1>3, <2>1 DEF Clear, Guarded, BackupIsPristine, UntouchedFirst, Trying
    <2>3. PatchesAreAwaited' /\ RestoresInOrder' /\ RestoredFirst' /\ RestoredIsWhole'
      BY <1>3, <2>1 DEF Clear, Guarded, PatchesAreAwaited, RestoresInOrder, RestoredFirst,
           RestoredIsWhole, Damaged, Outlived, Ending
    <2>4. PatchedForCommit'
      BY <1>3 DEF Clear, Guarded, PatchedForCommit, CommitsWholeManifests
    <2>5. Recoverable'
      BY <1>3 DEF Clear, Guarded, UntouchedFirst, RestoredFirst, RestoredIsWhole,
           Recoverable, Damaged, Outlived, Original
    <2> QED  BY <2>1, <2>2, <2>3, <2>4, <2>5 DEF Guarded
  <1> QED  BY <1>1, <1>2, <1>3, <1>4, <1>5

LEMMA CrashGuarded ==
    ASSUME Guarded, Crash
    PROVE  Guarded'
  BY DEF Crash, Guarded, TypeOK, BackupIsPristine, UntouchedFirst,
         PatchesAreAwaited, RestoresInOrder, RestoredFirst, RestoredIsWhole, PatchedForCommit,
         CommitsWholeManifests, Recoverable, Damaged,
         Outlived, Saved, Original, Content, Steps, IoStates, InFlight, Trying, Ending

LEMMA StutterGuarded ==
    ASSUME Guarded, UNCHANGED vars
    PROVE  Guarded'
  BY DEF vars, Guarded, TypeOK, BackupIsPristine, UntouchedFirst,
         PatchesAreAwaited, RestoresInOrder, RestoredFirst, RestoredIsWhole, PatchedForCommit,
         CommitsWholeManifests, Recoverable, Damaged,
         Outlived, Saved, Original, Content, Steps, IoStates, InFlight, Trying, Ending

-----------------------------------------------------------------------------
(* Every step of the run, and what follows. *)

LEMMA StepGuarded ==
    ASSUME Guarded, [Next]_vars
    PROVE  Guarded'
  <1>1. ASSUME NEW w \in Workspaces, FileStep(w) PROVE Guarded'
    BY <1>1, SaveFileGuarded, PatchGuarded, RestoreGuarded DEF FileStep
  <1>2. CASE RunStep
    BY <1>2, SavingStepGuarded, PatchingStepGuarded, PublishingStepGuarded, RestoringStepGuarded
    DEF RunStep
  <1>3. CASE Crash
    BY <1>3, CrashGuarded
  <1>4. CASE Terminated \/ UNCHANGED vars
    BY <1>4, StutterGuarded DEF Terminated
  <1> QED  BY <1>1, <1>2, <1>3, <1>4 DEF Next

\* The inductive invariant holds in every run.
LEMMA GuardedHolds == Spec => []Guarded
  <1>1. Init => Guarded
    BY InitGuarded
  <1>2. Guarded /\ [Next]_vars => Guarded'
    BY StepGuarded
  <1> QED  BY <1>1, <1>2, PTL DEF Spec

\* Every variable keeps its type, through crashes and failed writes.
THEOREM SavepointTypeCorrect == Spec => []TypeOK
  <1>1. Guarded => TypeOK
    BY DEF Guarded
  <1> QED  BY <1>1, GuardedHolds, PTL

\* As long as no write of patchPackageJsons failed, each package.json that is
\* patched or torn has its original in the backup, at every moment of the run and
\* after a crash (backupPackageJsons before, restorePackageJsons after the try
\* block of node/src/index.ts).
THEOREM DamageCanBeUndone == Spec => []DamageIsRecoverableIfWritten
  <1>1. Guarded => DamageIsRecoverableIfWritten
    <2>1. WritesSucceed => \A w \in Workspaces : ~Outlived(w)
      BY SavepointAssumption DEF WritesSucceed, Outlived
    <2> QED  BY <2>1 DEF Guarded, Recoverable, DamageIsRecoverableIfWritten,
                         DamageIsRecoverable
  <1> QED  BY <1>1, GuardedHolds, PTL

\* A run whose backup is gone at the end, and which keeps no versions, leaves a
\* file patched or torn only if a write of another one failed, whichever other
\* steps failed; failed writes are not excluded.
THEOREM NothingIsLeftPatched == Spec => []NothingStaysPatched
  <1>1. Guarded => NothingStaysPatched
    BY DEF Guarded, NothingStaysPatched, Recoverable, Outlived
  <1> QED  BY <1>1, GuardedHolds, PTL

\* What createPublishCommit commits of a manifest is complete and has the new
\* version.
THEOREM WholeManifestsAreCommitted == Spec => []CommitsWholeManifests
  <1>1. Guarded => CommitsWholeManifests
    BY DEF Guarded, PatchedForCommit
  <1> QED  BY <1>1, GuardedHolds, PTL

\* A dry run leaves every package.json, and the backup folder, untouched.
THEOREM DryRunsWriteNothing == Spec => []DryRunWritesNothing
  <1>1. Guarded => DryRunWritesNothing
    BY DEF Guarded, TypeOK, UntouchedFirst, DryRunWritesNothing
  <1> QED  BY <1>1, GuardedHolds, PTL

-----------------------------------------------------------------------------
(* The run comes to an end: no state is stuck, and every step uses up work. *)

\* Every write of patchPackageJsons, and every copy back, is issued at once.
WritesAreStarted ==
    /\ pc = "patching" => \A w \in Targets : patch[w] # "idle"
    /\ pc = "copying" => \A w \in ToRestore : restore[w] # "idle"

\* A file operation can be started or can end.
FileCanMove ==
    \E w \in Workspaces :
        \/ pc = "saving" /\ ~config.dryRun /\ w \notin Saved
        \/ patch[w] \in InFlight
        \/ restore[w] \in InFlight

\* An await of the run has its result, or its next step awaits no file.
RunCanMove ==
    \/ pc = "saving" /\ (config.dryRun \/ Saved = Workspaces)
    \/ pc = "patching" /\ \/ \A w \in Targets : patch[w] = "done"
                          \/ \E w \in Targets : patch[w] = "failed"
    \/ pc \in {"committing", "pulling", "publishing", "restoring", "clearing"}
    \/ pc = "copying" /\ \/ \A w \in ToRestore : restore[w] = "done"
                         \/ \E w \in ToRestore : restore[w] = "failed"

\* A run that is neither killed nor over with all files closed has a next step.
SomebodyCanStep ==
    pc = "crashed" \/ (pc = "ended" /\ Quiet) \/ FileCanMove \/ RunCanMove

WritesLeft(state) ==
    CASE state = "idle"   -> 1..3
      [] state = "queued" -> 1..2
      [] state = "open"   -> {1}
      [] state \in {"done", "failed"} -> {}

AllWritesLeft(states) == {c \in Workspaces \X (1..3) : c[2] \in WritesLeft(states[c[1]])}

SavesLeft    == {w \in Workspaces : pc = "saving" /\ w \notin Saved}
PatchesLeft  == AllWritesLeft(patch)
RestoresLeft == AllWritesLeft(restore)

\* The steps of the run from here on, when it takes every one of them.
StepsToGo ==
    CASE pc = "saving"     -> 8
      [] pc = "patching"   -> 7
      [] pc = "committing" -> 6
      [] pc = "pulling"    -> 5
      [] pc = "publishing" -> 4
      [] pc = "restoring"  -> 3
      [] pc = "copying"    -> 2
      [] pc = "clearing"   -> 1
      [] pc \in {"ended", "crashed"} -> 0

WorkLeft ==
    StepsToGo + Cardinality(SavesLeft) + Cardinality(PatchesLeft) + Cardinality(RestoresLeft)

LEMMA WritesAreStartedHolds == Spec => []WritesAreStarted
  <1>1. Init => WritesAreStarted
    BY DEF Init, WritesAreStarted
  <1>2. TypeOK /\ WritesAreStarted /\ [Next]_vars => WritesAreStarted'
    <2> SUFFICES ASSUME TypeOK, WritesAreStarted, [Next]_vars
                 PROVE  WritesAreStarted'
      OBVIOUS
    <2> USE DEF WritesAreStarted, TypeOK
    <2>1. ASSUME NEW w \in Workspaces, SaveFile(w)
          PROVE  WritesAreStarted'
      BY <2>1 DEF SaveFile, ToRestore, Saved
    <2>2. ASSUME NEW w \in Workspaces,
                 PatchSkips(w) \/ PatchOpens(w) \/ PatchWritten(w) \/ PatchFails(w)
          PROVE  WritesAreStarted'
      <3>1. /\ \E state \in {"open", "done", "failed"} : patch' = [patch EXCEPT ![w] = state]
            /\ UNCHANGED <<pc, restore, config, backup>>
        BY <2>2 DEF PatchSkips, PatchOpens, PatchWritten, PatchFails
      <3> QED  BY <3>1, SavepointAssumption DEF ToRestore, Saved
    <2>3. ASSUME NEW w \in Workspaces,
                 RestoreOpens(w) \/ RestoreWritten(w) \/ RestoreFails(w)
          PROVE  WritesAreStarted'
      <3>1. /\ \E state \in {"open", "done", "failed"} : restore' = [restore EXCEPT ![w] = state]
            /\ UNCHANGED <<pc, patch, config, backup>>
        BY <2>3 DEF RestoreOpens, RestoreWritten, RestoreFails
      <3> QED  BY <3>1, SavepointAssumption DEF ToRestore, Saved
    <2>4. CASE SaveDone
      BY <2>4, SavepointAssumption DEF SaveDone
    <2>7. CASE RestoreStarts
      BY <2>7 DEF RestoreStarts, ToRestore, Saved
    <2>5. CASE RunStep /\ ~SaveDone /\ ~RestoreStarts
      BY <2>5 DEF RunStep, SaveThrows, PatchDone, PatchThrows, Commit, Pull, Finish, StepThrows,
                  MapUnreadable, RestoreDone, RestoreThrows, Clear
    <2>6. CASE Crash \/ Terminated \/ UNCHANGED vars
      BY <2>6 DEF Crash, Terminated, vars, ToRestore, Saved
    <2> QED  BY <2>1, <2>2, <2>3, <2>4, <2>5, <2>6, <2>7 DEF Next, FileStep
  <1> QED  BY <1>1, <1>2, SavepointTypeCorrect, PTL DEF Spec

\* No await of the run waits for a file operation that nobody started or that
\* cannot end, whichever of them failed before.
THEOREM RunIsNeverStuck == Spec => []SomebodyCanStep
  <1>1. Guarded /\ WritesAreStarted => SomebodyCanStep
    <2> SUFFICES ASSUME Guarded, WritesAreStarted, ~FileCanMove, ~RunCanMove, pc # "crashed"
                 PROVE  pc = "ended" /\ Quiet
      BY DEF SomebodyCanStep
    <2> USE DEF Guarded, TypeOK
    <2>1. pc # "saving"
      BY DEF FileCanMove, RunCanMove
    <2>2. pc # "patching"
      <3> SUFFICES ASSUME pc = "patching" PROVE FALSE
        OBVIOUS
      <3>1. PICK w \in Targets : patch[w] \notin {"done", "failed"}
        BY DEF RunCanMove
      <3>2. w \in Workspaces /\ patch[w] \in InFlight
        BY <3>1, SavepointAssumption DEF WritesAreStarted, IoStates, InFlight
      <3> QED  BY <3>2 DEF FileCanMove
    <2>3. pc # "copying"
      <3> SUFFICES ASSUME pc = "copying" PROVE FALSE
        OBVIOUS
      <3>1. PICK w \in ToRestore : restore[w] \notin {"done", "failed"}
        BY DEF RunCanMove
      <3>2. w \in Workspaces
        BY DEF ToRestore
      <3>3. restore[w] \in InFlight
        BY <3>1, <3>2 DEF WritesAreStarted, IoStates, InFlight
      <3> QED  BY <3>2, <3>3 DEF FileCanMove
    <2>4. pc = "ended"
      BY <2>1, <2>2, <2>3 DEF RunCanMove, Steps
    <2>5. Quiet
      BY DEF FileCanMove, Quiet, InFlight, WritesAreStarted
    <2> QED  BY <2>4, <2>5
  <1> QED  BY <1>1, GuardedHolds, WritesAreStartedHolds, PTL

LEMMA FewerLeft ==
    ASSUME NEW S, NEW T, IsFiniteSet(S), T \subseteq S
    PROVE  /\ Cardinality(T) \in Nat /\ Cardinality(S) \in Nat
           /\ Cardinality(T) <= Cardinality(S)
           /\ T # S => Cardinality(T) < Cardinality(S)
  <1>1. /\ IsFiniteSet(T) /\ Cardinality(T) <= Cardinality(S)
        /\ Cardinality(S) = Cardinality(T) => S = T
    BY FS_Subset
  <1> QED  BY <1>1, FS_CardinalityType

LEMMA WorkIsFinite ==
    IsFiniteSet(SavesLeft) /\ IsFiniteSet(PatchesLeft) /\ IsFiniteSet(RestoresLeft)
  <1>1. IsFiniteSet(1..3)
    <2>1. \A b \in Nat : IsFiniteSet(1..b)
      BY FS_Interval
    <2> QED  BY <2>1
  <1>2. IsFiniteSet(Workspaces \X (1..3))
    BY <1>1, SavepointAssumption, FS_Product
  <1> QED  BY <1>2, SavepointAssumption, FS_Subset
        DEF SavesLeft, PatchesLeft, RestoresLeft, AllWritesLeft

\* A step that leaves no part of the work larger, and one part smaller.
Uses == /\ StepsToGo' <= StepsToGo
        /\ SavesLeft' \subseteq SavesLeft
        /\ PatchesLeft' \subseteq PatchesLeft
        /\ RestoresLeft' \subseteq RestoresLeft
        /\ \/ StepsToGo' < StepsToGo
           \/ SavesLeft' # SavesLeft
           \/ PatchesLeft' # PatchesLeft
           \/ RestoresLeft' # RestoresLeft

LEMMA UsingCounts ==
    ASSUME Uses, StepsToGo \in Nat, StepsToGo' \in Nat
    PROVE  WorkLeft' < WorkLeft
  <1>1. IsFiniteSet(SavesLeft) /\ IsFiniteSet(PatchesLeft) /\ IsFiniteSet(RestoresLeft)
    BY WorkIsFinite
  <1>2. \A S, T : IsFiniteSet(S) /\ T \subseteq S =>
           /\ Cardinality(T) \in Nat /\ Cardinality(S) \in Nat
           /\ Cardinality(T) <= Cardinality(S)
           /\ T # S => Cardinality(T) < Cardinality(S)
    BY FewerLeft
  <1> QED  BY <1>1, <1>2 DEF Uses, WorkLeft

\* One file's operation moves on.
LEMMA WriteMovesOn ==
    ASSUME NEW w \in Workspaces, NEW f \in [Workspaces -> IoStates],
           NEW state \in IoStates,
           \/ f[w] = "idle" /\ state \in {"queued", "open"}
           \/ f[w] \in InFlight /\ state \in {"done", "failed"}
           \/ f[w] = "queued" /\ state = "open"
    PROVE  LET g == [f EXCEPT ![w] = state]
           IN  AllWritesLeft(g) \subseteq AllWritesLeft(f) /\ AllWritesLeft(g) # AllWritesLeft(f)
  <1> DEFINE g == [f EXCEPT ![w] = state]
  <1>1. PICK k \in 1..3 : /\ WritesLeft(state) \subseteq WritesLeft(f[w])
                          /\ k \in WritesLeft(f[w]) \ WritesLeft(state)
    BY DEF WritesLeft, InFlight, IoStates
  <1>2. \A v \in Workspaces : g[v] = IF v = w THEN state ELSE f[v]
    OBVIOUS
  <1> HIDE DEF g
  <1>3. \A v \in Workspaces : WritesLeft(g[v]) \subseteq WritesLeft(f[v])
    BY <1>1, <1>2
  <1>4. AllWritesLeft(g) \subseteq AllWritesLeft(f)
    BY <1>3 DEF AllWritesLeft
  <1>5. <<w, k>> \in AllWritesLeft(f) /\ <<w, k>> \notin AllWritesLeft(g)
    BY <1>1, <1>2 DEF AllWritesLeft
  <1> QED  BY <1>4, <1>5 DEF g

LEMMA FileStepUses ==
    ASSUME Guarded, NEW w \in Workspaces, FileStep(w)
    PROVE  Uses
  <1> USE DEF Guarded, TypeOK
  <1>1. pc' = pc /\ StepsToGo' = StepsToGo /\ StepsToGo \in Nat
    BY DEF FileStep, SaveFile, PatchSkips, PatchOpens, PatchWritten, PatchFails,
           RestoreOpens, RestoreWritten, RestoreFails, StepsToGo, Steps
  <1>2. CASE SaveFile(w)
    <2>1. Saved' = Saved \cup {w} /\ w \notin Saved /\ pc = "saving"
          /\ UNCHANGED <<patch, restore>>
      BY <1>2 DEF SaveFile, Saved
    <2>2. PatchesLeft' = PatchesLeft /\ RestoresLeft' = RestoresLeft
      BY <2>1 DEF PatchesLeft, RestoresLeft, AllWritesLeft, WritesLeft
    <2>3. SavesLeft' \subseteq SavesLeft /\ w \in SavesLeft /\ w \notin SavesLeft'
      BY <1>1, <2>1 DEF SavesLeft
    <2> QED  BY <1>1, <2>2, <2>3 DEF Uses
  <1>3. CASE PatchSkips(w) \/ PatchOpens(w) \/ PatchWritten(w) \/ PatchFails(w)
    <2>1. PICK state \in IoStates :
             /\ patch' = [patch EXCEPT ![w] = state]
             /\ \/ patch[w] \in InFlight /\ state \in {"done", "failed"}
                \/ patch[w] = "queued" /\ state = "open"
      BY <1>3 DEF PatchSkips, PatchOpens, PatchWritten, PatchFails, InFlight, IoStates
    <2>2. PatchesLeft' \subseteq PatchesLeft /\ PatchesLeft' # PatchesLeft
      <3>1. PatchesLeft' = AllWritesLeft(patch')
        BY DEF PatchesLeft, AllWritesLeft, WritesLeft
      <3> QED  BY <2>1, <3>1, WriteMovesOn DEF PatchesLeft
    <2>3. UNCHANGED <<backup, restore>>
      BY <1>3 DEF PatchSkips, PatchOpens, PatchWritten, PatchFails
    <2>4. SavesLeft' = SavesLeft /\ RestoresLeft' = RestoresLeft
      BY <1>1, <2>3 DEF SavesLeft, Saved, RestoresLeft, AllWritesLeft, WritesLeft
    <2> QED  BY <1>1, <2>2, <2>4 DEF Uses
  <1>4. CASE RestoreOpens(w) \/ RestoreWritten(w) \/ RestoreFails(w)
    <2>1. PICK state \in IoStates :
             /\ restore' = [restore EXCEPT ![w] = state]
             /\ \/ restore[w] = "queued" /\ state = "open"
                \/ restore[w] \in InFlight /\ state \in {"done", "failed"}
      BY <1>4 DEF RestoreOpens, RestoreWritten, RestoreFails, InFlight, IoStates
    <2>2. RestoresLeft' \subseteq RestoresLeft /\ RestoresLeft' # RestoresLeft
      <3>1. RestoresLeft' = AllWritesLeft(restore')
        BY DEF RestoresLeft, AllWritesLeft, WritesLeft
      <3> QED  BY <2>1, <3>1, WriteMovesOn DEF RestoresLeft
    <2>3. UNCHANGED <<backup, patch>>
      BY <1>4 DEF RestoreOpens, RestoreWritten, RestoreFails
    <2>4. SavesLeft' = SavesLeft /\ PatchesLeft' = PatchesLeft
      BY <1>1, <2>3 DEF SavesLeft, Saved, PatchesLeft, AllWritesLeft, WritesLeft
    <2> QED  BY <1>1, <2>2, <2>4 DEF Uses
  <1> QED  BY <1>2, <1>3, <1>4 DEF FileStep

LEMMA RunStepUses ==
    ASSUME Guarded, RunStep \/ Crash
    PROVE  Uses
  <1> USE DEF Guarded, TypeOK
  <1>1. StepsToGo' < StepsToGo
    BY DEF RunStep, SaveDone, SaveThrows, PatchDone, PatchThrows, Commit, Pull, Finish,
           StepThrows, RestoreStarts, MapUnreadable, RestoreDone, RestoreThrows, Clear, Crash, StepsToGo, Steps
  <1>2. pc' # "saving"
    BY DEF RunStep, SaveDone, SaveThrows, PatchDone, PatchThrows, Commit, Pull, Finish,
           StepThrows, RestoreStarts, MapUnreadable, RestoreDone, RestoreThrows, Clear, Crash
  <1>3. SavesLeft' \subseteq SavesLeft
    BY <1>2 DEF SavesLeft
  <1>6. RestoresLeft' \subseteq RestoresLeft
    <2>1. CASE RestoreStarts
      <3>1. \A v \in Workspaces : restore[v] = "idle" /\ restore'[v] \in {"idle", "queued"}
        BY <2>1 DEF RestoreStarts, RestoresInOrder, Ending
      <3>2. \A v \in Workspaces : WritesLeft(restore'[v]) \subseteq WritesLeft(restore[v])
        BY <3>1 DEF WritesLeft
      <3> QED  BY <3>2 DEF RestoresLeft, AllWritesLeft, WritesLeft
    <2>2. CASE ~RestoreStarts
      <3>1. UNCHANGED restore
        BY <2>2 DEF RunStep, SaveDone, SaveThrows, PatchDone, PatchThrows, Commit, Pull,
           Finish, StepThrows, MapUnreadable, RestoreDone, RestoreThrows, Clear, Crash
      <3> QED  BY <3>1 DEF RestoresLeft, AllWritesLeft, WritesLeft
    <2> QED  BY <2>1, <2>2
  <1>4. PatchesLeft' \subseteq PatchesLeft
    <2>1. CASE SaveDone
      <3>1. \A v \in Workspaces : patch[v] = "idle" /\ patch'[v] \in {"idle", "queued"}
        BY <2>1 DEF SaveDone, UntouchedFirst
      <3>2. \A v \in Workspaces : WritesLeft(patch'[v]) \subseteq WritesLeft(patch[v])
        BY <3>1 DEF WritesLeft
      <3> QED  BY <3>2 DEF PatchesLeft, AllWritesLeft, WritesLeft
    <2>2. CASE ~SaveDone
      <3>1. UNCHANGED patch
        BY <2>2 DEF RunStep, SaveThrows, PatchDone, PatchThrows, Commit, Pull, Finish,
           StepThrows, RestoreStarts, MapUnreadable, RestoreDone, RestoreThrows, Clear, Crash
      <3> QED  BY <3>1 DEF PatchesLeft, AllWritesLeft, WritesLeft
    <2> QED  BY <2>1, <2>2
  <1>5. StepsToGo \in Nat /\ StepsToGo' \in Nat
    BY DEF RunStep, SaveDone, SaveThrows, PatchDone, PatchThrows, Commit, Pull, Finish,
           StepThrows, RestoreStarts, MapUnreadable, RestoreDone, RestoreThrows, Clear, Crash, StepsToGo, Steps
  <1> QED  BY <1>1, <1>3, <1>4, <1>5, <1>6 DEF Uses

\* Every step of a run, of its file operations and of those that outlive it, uses
\* up some of a finite amount of work: nothing is written or tried again and again.
THEOREM RunUsesWork ==
    Spec => [](WorkLeft \in Nat) /\ [][WorkLeft' < WorkLeft]_vars
  <1>1. TypeOK => StepsToGo \in Nat
    BY DEF TypeOK, StepsToGo, Steps
  <1>2. TypeOK => WorkLeft \in Nat
    <2>1. /\ Cardinality(SavesLeft) \in Nat /\ Cardinality(PatchesLeft) \in Nat
          /\ Cardinality(RestoresLeft) \in Nat
      BY WorkIsFinite, FS_CardinalityType
    <2> QED  BY <1>1, <2>1 DEF WorkLeft
  <1>3. Guarded /\ Guarded' /\ [Next]_vars => [WorkLeft' < WorkLeft]_vars
    <2> SUFFICES ASSUME Guarded, Guarded', Next, vars' # vars
                 PROVE  WorkLeft' < WorkLeft
      OBVIOUS
    <2>1. Uses
      BY FileStepUses, RunStepUses DEF Next, Terminated
    <2>2. StepsToGo \in Nat /\ StepsToGo' \in Nat
      BY DEF Guarded, TypeOK, StepsToGo, Steps
    <2> QED  BY <2>1, <2>2, UsingCounts
  <1> QED  BY <1>2, <1>3, GuardedHolds, SavepointTypeCorrect, PTL DEF Spec
==============================================================================
