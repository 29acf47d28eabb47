# Formal models of monodeploy

monodeploy releases the packages of a Yarn-workspace monorepo from CI. One run
reads the npm dist-tags, derives a version for every changed package from the
commits since the last release tag, patches manifests and changelogs, tags,
commits, publishes to the registry and finally pushes. This directory holds
TLA+ models of that program, TLC runs over small instances, and TLAPS proofs.
Paths below are relative to `src/packages/`.

## 1. Inventory

| Component | Source | State it keeps | Operations |
|---|---|---|---|
| Release pipeline | `node/src/index.ts` | the `MonodeployContext`, the report (errors), what the `finally` block must undo | read tags, plan, prepare files, tag, commit, pull, validate, publish, push, hooks, cleanup |
| Publish stages | `publish/src/index.ts`, `lifecycleExecutor.ts`, `pack.ts`, `io/src/executeLifecycleScript.ts` | current stage and group, one promise per callback, two p-limit queues, the registry | seven stages over the groups, upload, rethrow of the first failure |
| Publish commit and tags | `publish/src/commitPublishChanges.ts`, `createReleaseGitTags.ts`, `determineGitTags.ts` | working copy: HEAD, tags | tag before or after the rebase, commit, `pull --rebase`, `push --dry-run`, `push`, `push --tags` |
| Git commands | `git/src/gitCommands.ts`, `getCommitMessages.ts` | none of its own (git's) | describe, log ranges, the commands above |
| Versions | `versions/src/*.ts` | none; reads the registry | dist-tags, explicit, implicit and merged strategies, next versions, groups, prereleases |
| Dependency graph | `dependencies/src/getDependents.ts`, `getTopologicalSort.ts` | none | dependents closure, topological groups |
| Savepoint | `io/src/backupPackage.ts`, `patchPackageJsons.ts` | manifests on disk and their backups | backup, patch, restore, clear |
| Changelogs, changeset | `changelog/src/*.ts`, `node/src/utils/*` | changelog and changeset files, git's index | refresh from the upstream, prepend an entry, commit |
| CLI and configuration | `cli/src/command/*.ts`, `node/src/utils/mergeDefaultConfig.ts` | none | read file and preset, validate, merge flags, defaults |
| GitHub plugin | `plugin-github/src/plugin.ts` | the releases on GitHub | create one release per tag in `onReleaseAvailable` |
| Process execution, logging | `io/src/exec.ts`, `logging/src/index.ts` | Yarn's report | spawn, report errors |

**How they interact.** The pipeline awaits each operation in turn; concurrency
inside a run is confined to `getLatestPackageTags` (one request per package),
the executor (one callback per workspace under p-limit), and the file writers.
Between runs, everything interacts through four shared objects: the remote
branch (which also carries the changelogs), the remote tags, the registry's
versions and its dist-tags. They are updated by separate commands, without a
transaction, and developers push to the branch at any time. A working copy that
CI keeps is a fifth, between the runs of one runner. Plugins are called back once
everything is pushed.

**What is hard.** Failures between two of those commands (killed job, refused
push, lost answer); the retry that follows and what it reads; a branch that
moves between reading, validating and pushing; the order of tagging and
rebasing, which differs with `persistVersions`; `git tag` failures that are only
remembered in the report; `git push --tags`, which pushes *all* tags of the
copy; `Promise.allSettled`, a promise chain and two `finally` blocks that must
neither lose a failure nor leave callbacks running; two nested p-limits; changelogs
that are refreshed from one commit, written, and rebased onto another; previews
whose announced version has to survive any order of commits; configuration values
that JavaScript takes for false.
`PROJECT.json` lists these as hazards with lines.

**What makes each component correct.**

* Pipeline: a pushed tag stands for published versions and marks a commit of the
  branch; everything behind it has shipped; success means complete; retries
  ship every change; a dry run touches nothing; `latest` never regresses.
* Stages: no upload before the last preparatory script; nothing runs outside
  the current stage and group; dependencies are in the registry before their
  dependents; every failure surfaces; cleanup scripts run; the call settles.
* Versions: new in the registry, equal within a group, dependents follow; a preview
  announces the version that is then released.
* Graph: groups respect dependencies, cycles are found, and only cycles;
  dependents are exact.
* Savepoint: whatever was patched, or torn by an interrupted write, can be
  restored until it is; after a run without `persistVersions` nothing is patched.
* Changelogs: no push loses an entry, no entry is of a failed run, a successful run
  is logged.
* GitHub plugin: a release is of a tag and of packages that are available.
* Configuration: a flag beats the file, which beats the preset and defaults,
  whatever the values are (the code makes exceptions of 0, see section 3).

## 2. Modules

| Module | Models | Kind |
|---|---|---|
| `PublishContract` | what `publishPackages` promises its caller | abstract specification |
| `PublishStages` | `publishPackages`, executor, `pack` | state machine, refines `PublishContract` |
| `ReleaseContract` | what release runs, taken together, promise to developers and users | abstract specification |
| `ReleasePlan` | strategies, groups, versions, tag names | pure operators |
| `ReleasePipeline` | runs, git remote, registry, developers | state machine, extends `ReleasePlan`, refines `ReleaseContract` |
| `PrereleaseVersions` | previews and releases of one branch | state machine, extends `ReleasePlan` |
| `DependencyGraph` | dependents of a set, the orders of a Set or Map | pure operators |
| `Dependents` | the worklist of `getDependents` | state machine, extends `DependencyGraph` |
| `TopologicalSort` | the worklist of `getTopologicalSort` | state machine, extends `DependencyGraph` |
| `Savepoint` | manifests on disk, their backup, patching and restoring | state machine |
| `Changelogs` | changelogs of the working copies and of the branch, GitHub releases | state machine |
| `ConfigMerge` | one option on its way from flag, file, preset and default | state machine |
| `MC...`, one for each state machine | instances for TLC | constants only |
| `PublishStagesProofs`, `ReleasePlanProofs`, `ReleasePipelineProofs`, `PrereleaseVersionsProofs`, `TopologicalSortProofs`, `SavepointProofs`, `ChangelogsProofs`, `ConfigMergeProofs` | TLAPS proofs | theorems; `ReleasePlanProofs` has the lemmas two of the others share |

### PublishStages

`stage` is the stage `publishPackages` awaits (1 to 7: prepublish, prepare,
prepublishOnly, prepack, pack, postpack, postpublish; 8 when settled), `group`
the topological group whose `Promise.allSettled` the executor awaits, and
`task[s][w]` the state of the callback of workspace `w` in stage `s`: `idle`
(not created, or waiting in p-limit), `running`, `queued` (in `pack`, waiting for
`limitPublish` while it holds a slot of `limit`), `uploading`, `fulfilled`,
`rejected`. `thrown` are the stages whose executor rejected, and `registry` what
the registry accepted. `StageAfter` is the control flow around the stages: a
rejected preparatory stage leaves the function, and `finally` runs postpack and
postpublish whatever happened before. `StageRejects` is the executor's rethrow
after the first group with a rejection: its later groups never start.
`JobSlots` and `WriteSlots` are the two limiters with their two readings of 0.
`UploadUnanswered` is the answer that got lost after the registry stored the
archive. `Init` starts at the first stage: an exception of `getTopologicalSort` leaves
the call before it, with nothing run, and is in `TopologicalSort`. p-limit is taken at
its word: the guards of `StartTask` and `StartUpload` are what it promises. How the
groups come about is `getTopologicalSort`'s business;
`StagesAssumption` states what is used of it (`Level[d] < Level[w]`).

`PublishContract` has two variables, `status` and `published`; the refinement
mapping `Contract` derives `status` from `stage` and `thrown`.

### ReleasePlan

A commit is a record with the level of its message and the packages it touches.
`ExplicitStrategies`, `DependentsOf`, `MergedStrategies`, `GroupBase` and
`NextVersions` follow the functions of `versions/src`; versions are triples.
`TagsOf` is `determineGitTags` followed by `git tag`: one `group@version` tag per
group, which remembers in `pkgs` the packages it stands for. `DependentsOf` is what
`getDependents` returns (`DependentsIn` of `DependencyGraph`); that its worklist returns
it is checked of `Dependents` and proved. Parsing of commit messages is abstracted to
the level.

### ReleasePipeline

Shared: `main` (commits of the remote branch), `remoteTags`, `registry` (package,
version, and how much of `main` the archive contains), `latest`. Per runner: the
working copy (`base`, `own`, `tags`: how much of `main` it has, the publish
commit on top, the tags) and the memory of a run (`config`, `commitSha`, `seen`,
`plan`, `attempted`, `pc`, `outcome`). `pc` names the step of `pipeline` the run
is at. Each step is one action: `ReadTag`/`ReadTagDenied`/`AllRead`, `Plan`,
`PrepareFiles`, `MakeTags` (once before and once after the rebase), `CommitFiles`,
`PullRebase`, `ValidatePush`, `Upload`/`UploadConflicts`/`UploadUnanswered`/
`UploadFails`/`PublishSettles`, `PushBranch`/`PushBranchUnanswered`,
`PushTags`/`PushTagsBreaks`, `Hooks`, `Cleanup`. Around them: `DeveloperPushes`,
`Start` (CI starts or repeats a run), `StepThrows`, `EndsThrowing` and `Crash`.
A read that is denied leaves the version of the manifest (`ManifestVersions`), which is
a constant, or, with `persistVersions`, one that an earlier run published.

A dry run goes through the same steps. What keeps it from acting are the checks of the
code, each where it is: `CreatesCommit` (`commitPublishChanges.ts`, line 24),
`MakeTags` (`createReleaseGitTags.ts`, line 19), `ValidatesPush` (`node/src/index.ts`,
line 300), `Puts` with `PackOnly` (`pack.ts`, line 64) and `PushesRelease` with
`SkipPush` (`node/src/index.ts`, line 340). A plan without packages takes the same way
past the steps that ask `workspaces.size` (`HasReleases`).
`outcome` is `errors` once `report.hasErrors()` would be true, `failed` once the
`try` block threw.

Uploads are one package at a time here; that this is a fair picture of
`publishPackages` is what `PublishStages` and its contract establish: packages
are accepted in some order between start and settlement, and the call resolves
only if all were.

git is modelled by its effect. A fetched, created or pushed tag never replaces
one of the same name; annotated tags of two runs are different objects, so
pushing one over the other fails while other tags of the same command arrive; a
branch push succeeds only as a fast-forward; `pull --rebase` fetches the tags of
the commits it receives.

`raced` is bookkeeping: ids of commits that a rebase pulled under an already
computed plan with `persistVersions`, the exception `commitPublishChanges.ts`
documents. `lastId`, `faults` and `runs` bound the model.

`ReleaseContract` is the same seen from outside, without runs and working copies: the
ids on the `branch`, those still `due` (a change that no published version contains
and that was not raced), the `versions` of the registry and the `tags` of the remote.
A commit may land, a version may be published, tags may be pushed, each on its own. It
forbids what none of the many steps in between may bring about together: a branch that
is rewritten, a version or a tag that goes away, two tags of one name, a tag whose
versions are not installable, whose commit is not on the branch, or behind whose
commit something is still due. Without `MayOverlook` (`persistVersions` together with
`git.tag` in some configuration) what is due is only ever settled by a publish.
`Contract` in `ReleasePipeline` is the refinement mapping.

### Dependents and TopologicalSort

`Dependents` follows `getDependents`: `waiting` is its `queue`, `allDependents` its
result, `packageNames` what it was asked about, `needs` the manifests with the two
fields it reads. `Follow` visits a package and unshifts its direct dependents, visited
or not, in the order of their Set (any, `ListingsOf`); `FollowedBefore` is the early
`continue`; `Answer` takes the packages asked about out of the result.

In `TopologicalSort`, `queue` and `ordered` are the variables of the function, `targets` its
`possibleWorkspaces`, `dev` its option, `manifest` the manifests it reads. One
`Visit` is one round of the loop; the order in which a Map lists dependencies is
left open (`ListingsOf`). `ThrowCycle` is the level bound, `Return` the end of
the loop, and `GroupIndex` the place of a workspace's group in the returned list
(deepest level first, levels that do not occur leave no gap). With
`dependencies` in place of `Children`, `SortIsTopological` is what
`StagesAssumption` of `PublishStages` demands of the groups.

### Savepoint

`disk` is the content of every `package.json` (as on the branch at the start or
after the pull; patched or not; torn while a writer has it open), `backup` the
saved files, `patch` and `restore` the concurrent file writes, `pc` the step of
`pipeline`, `committed` what the publish commit holds. A write passes from
`queued` to `open` to `done`, or fails in between and may leave the file torn.
`PatchThrows` is `Promise.all`: it needs one failure and stops no other write, so
`PatchOpens` and `PatchWritten` are possible while the `finally` block restores,
and after the run has ended. A failed copy in the `finally` block
(`RestoreThrows`), or a `map.json` that cannot be read (`MapUnreadable`), leaves the
backup in place; the copies are issued together (`RestoreStarts`) and go on after one
has failed. `Pull` may bring new content to any
file under its patch; without `persistVersions` the patches are unstaged changes
and travel through `--autostash`, which may drop them.

The steps between patching and cleanup are reduced to what they do to the
manifests; the same steps are modelled in full in `ReleasePipeline`, which in turn
leaves the manifests out.

### PrereleaseVersions

A branch (`log`), the newest tagged commit of either kind (`stableTag`, `anyTag`),
the dist-tags `latest` and `next`, and everything the registry has (`previews`,
`releases`). A run of either kind is `Start`, one publish per package, `Finish`;
`Crash` ends it after any of its uploads. A preview is `[core, n]`, for
`core-rc.n`. `IncrementPreview` follows `incrementVersion` of
`applyVersionStrategies.ts`, with `Raises` for its reading of zeros ("does the
preview announce a major, a minor?"); `NextPreviews` adds the maximum over the
group. `torn` is bookkeeping: a stable run stopped half-way and none has completed
since. Runs do not overlap here; overlapping runs are in `ReleasePipeline`.

### Changelogs

A changelog is the set of entries below its marker, a tree maps the changelogs
that exist to theirs. Per runner: the commit HEAD builds on, the one the
remote-tracking branch is at, the trees of HEAD and of the working directory.
`Refresh` is `forceRefreshChangelogs` (`git checkout @{u} -- <glob>`, whose failure
is ignored), `WriteEntry`/`WriteThrows` are `prependEntry` under `Promise.all`,
`Commit` adds what differs from the index, `Pull` rebases with
`--strategy-option=theirs` (`Rebased`), `PushBranch` appends the tree of the
publish commit to `history`. `Start` checks out any commit of the branch, fetches
the newest, and keeps what an earlier run left uncommitted unless clones are fresh.
What the runner does with an unpushed publish commit of a failed run is not up to
monodeploy: it stays behind, while its files and tags may be met again.

`MakeTags` is `createReleaseGitTags`: any `git tag` may fail, which is logged and
`swallowed`, and the run goes on. `PushTags` pushes what tags the copy has. `Announce`,
`MissingTag` and `Finish` are the hooks with the GitHub plugin: releases in the order of
the number of packages, an exception where the changeset has no tags. A release of a
tag that the remote does not have makes GitHub create the tag (`madeUp`). What a
changelog entry says, and which packages have one, is an input.

### ConfigMerge

An option is decided independently of the others, so a behaviour follows one
`option` through `readConfigFile` (`ReadFile`, `Reject`, `LoadThrows`,
`Unresolved`), `parseConfiguration` (`Parse`) and `mergeDefaultConfig`
(`ApplyDefaults`). A value is known by its source and by whether JavaScript takes
it for true, which is what `??`, `||` and `? :` can tell apart; `null` and absent
are values of their own. `Filled` is what the parser reports where a flag is not given:
0 for `--jobs`, true for `--git-tag`, nothing otherwise. `--preset ""` switches off the
file's preset (`PresetName`). The sets of options say which expression `base.ts` uses
for each; `Valid` is what the schema rejects.

## 3. Runs

| Run | Instance | What it shows |
|---|---|---|
| `stages_topological` | 4 workspaces, 2 levels, 1 without registry, `jobs` 2, one write at a time | types, order of stages and groups, no runaway, no dangling dependency, no swallowed failure, cleanup scripts missed only behind a failed one, refinement of the contract, settlement |
| `pipeline_serial` | 1 runner, fresh clones, 4 configurations (one a dry run), 4 packages in a chain (1 private, 2 in a group), 4 kinds of commits, 2 developer commits, 1 fault, 5 runs | every change ships, no tag hides one before, success is complete, releases have a cause, plans are new and equal within groups, dry runs are pure, `latest` never regresses |
| `pipeline_concurrent` | 2 runners, 2 auto-commit configurations, `minimumStrategy` patch, 2 developer commits, 1 fault, denied reads | tag safety with overlapping runs; a successful run leaves nothing of its checkout unreleased; the runs implement `ReleaseContract` |
| `pipeline_reused_clone` | 1 runner, working copy kept between runs | **divergence**: tags of a failed run are pushed later |
| `stages_cleanup` | as `stages_topological` | **divergence**: a failing cleanup script keeps later groups from theirs |
| `sort_all_graphs` | all graphs over 3 workspaces (cycles, self-dependencies), all subsets to sort, all queue orders | exactly the cyclic graphs throw; groups respect dependencies and are tight; `getDependents` returns the transitive dependents; both worklists end |
| `savepoint` | 3 manifests, 2 patched, 4 configurations, any file operation may fail, kill at any step | damage is recoverable unless a patching write failed; a cleaned-up run leaves a file patched only where the write of another one failed; commits are whole; the run ends |
| `savepoint_late_patch` | the same | **bug**: one manifest cannot be written, the others are restored and the backup deleted while their writes are still in flight |
| `changelogs` | 2 packages with a changelog each or one for both, 2 runners with kept copies, 5 configurations, 3 overlapping runs, 1 fault | no entry is lost or premature, a successful run is logged, GitHub releases are of what is available, but for tags git failed to make |
| `prerelease` | a group with different versions and a dependent, also below 1.0.0, 3 commits of any level, 4 runs of either kind, one of them stopped half-way | previews announce what is released; previews and releases are new |
| `config_nearest` | every forwarded option, every value of every source, presets that can be resolved | the nearest source decides, but for two flags with 0 |
| `config_ignored_file` | the same, with a preset that cannot be resolved | **bug**: the config file is ignored as a whole |

**Bounds and why they are enough.** Every property about tags and commits
relates at most: one run that fails half-way, one that retries, a developer
commit before and one in between. Two developer commits, one fault and five runs cover
that and leave runs for the retries that `EveryChangeShips` asks for; what two faults
may add to the safety properties is covered by their theorems, which hold for every
`MaxFaults` and `MaxRuns`. `EveryChangeShips` speaks of every position of the branch
(`MaxLength`), publish commits in between included. Two runners cover every pairwise
interleaving of steps (all conflicts of the code are pairwise: same tag name,
same version, branch moved). Two packages, one depending on the other, are
needed for "some but not all were published". The stages need two groups (an
earlier one to fail, a later one to be skipped), two members in a group (a
sibling still running), and a third workspace to fill a limit of two.
`MaxDevCommits`, `MaxFaults` and `MaxRuns` are the only bounds of the model
itself; each appears as a guard. Where the bound ends the behaviour, runs may
stop, hence `CHECK_DEADLOCK FALSE` for the pipeline; `PublishStages` checks
deadlock, with `Terminated` as the only stutter, as do `TopologicalSort` and
`Savepoint`. Three workspaces give the sort every kind of cycle and two paths of
unequal length; the queue starts in every order, so that a path is also
lengthened after its end was visited. Two patched manifests make one write that
fails and one that is late, and a third manifest is saved and restored without
being patched.

Three runs of two runners are what the changelogs need: one that fails or pushes
between the steps of another, and a third that finds what they left; one fault is
enough to leave something behind. Four preview or stable runs over three commits
contain every order of a patch, a minor and a major with a preview after each and
the release at the end. A configuration is decided option by option, and every
option is followed.

**What the runs do not cover.** `LatestNeverRegresses`, `VersionsAreNew` and
`ReleasesHaveACause` are checked with one runner. With two they do not hold: two
runs may plan from the same dist-tags, one is refused the version, or the older
version is published last. The code takes no lock and leaves exclusivity to CI.
`EveryChangeShips` is checked with one runner, too. That two runs of one moment may leave
the older version as `latest` is thus covered by no property. Nor is a GitHub release
that was never created: the code does not look for it.

**Fairness.** `PublishStages!Fairness`: the executor is weakly fair (node runs
continuations of settled promises) and so is every callback: scripts and HTTP
requests end, one way or the other. `FairSpec` of the pipeline: a run that is
going on takes its next step (`Advance`), and CI starts the run it owes (`Start`):
there is something new, or the last run failed. `TopologicalSort` is sequential:
weak fairness says the loop is executed. `Savepoint`: file operations end, in one
way or the other, and node runs the continuation of every `await`. No fairness is
given to developers, faults or crashes.

### Divergences and limits without a run of their own

Found while modelling; each is either plain from the text or the reason for a
constant that a run fixes.

* *Topological order and peers.* `types/src/types.ts`, lines 229-230, announce an
  order "based on dependencies and peerDependencies"; `getTopologicalSort.ts`, lines
  32-35, never reads `peerDependencies`, and `TopologicalSort` has no peers either.
* *Cleanup scripts* have a run, `stages_cleanup`: a failing postpack or postpublish in
  one group skips the same stage of the later groups (`lifecycleExecutor.ts`, lines
  30-34), where the documentation (`architecture.mdx`, line 61, "regardless of failure")
  and the comments in `publish/src/index.ts`, lines 85 and 92, promise it for all. The
  finally blocks save it from every other failure: `CleanupMissedOnlyBehindFailure`.
* *Versions of a group.* Only the members that are released together get one
  version (`mergeVersionStrategies.ts`, lines 60-62); `types.ts`, lines 212-213,
  read as if all members had. `VersionsAreNew` states the former.
* *A denied read* of a dist-tag is taken for "never published", and the version of the
  manifest counts (`getLatestPackageTags.ts`, lines 108-115): if the publish is authorised all the
  same, the run succeeds and moves `latest` back. `pipeline_concurrent` includes such
  reads; `VersionsAreNew` and `LatestNeverRegresses` need `ReadDeniable = FALSE`.
* *An untagged repository.* `getCommitMessages` then looks at HEAD only
  (`gitCommands.ts`, line 163). What came before is tagged without having been
  released, and a first stable release can be older than its previews: with
  `InitiallyTagged` or `Tagged` false, TLC finds `TaggedCommitsAreShipped`,
  `SuccessLeavesNothingDue`, `PreviewAnnouncesStable` and `ReleasesAreNew` violated. The
  runs and theorems about them start from a tagged commit.
* *A torn stable run* has moved `latest` for some members and left no tag; previews
  then announce one more bump. `PreviewAnnouncesStable` excepts this by `torn`.
* *A private package in a group with public ones* counts for the strategy of the group
  (`mergeVersionStrategies.ts`, lines 51-55), but a preview run in which only the
  private one is bumped publishes nothing of the group, and its tag hides the commits
  from later previews when another package was published. A stable run counts them:
  with such a group TLC finds `PreviewAnnouncesStable` violated, hence `PublicGroups`.
* *Overlapping runs lose changelog entries.* The rebase resolves conflicts in favour
  of the run (`-X theirs`), and `@{u}` is as fresh as CI's last fetch
  (`prependChangelogFile.ts`, line 89). `EntriesSurvive` speaks of what was on the
  branch when a run started.
* *A changelog that is missing upstream* makes the refreshing checkout fail, which
  is ignored; a kept working copy then contributes the entry of its failed run.
  `EntriesAreOfReleases` needs fresh clones or all changelogs on the branch.
* *A tag that git failed to make* is logged as an error and otherwise ignored
  (`createReleaseGitTags.ts`, lines 24-27). The release plugins are called all the same,
  although `plugins.mdx`, line 59, has the hook run "after pushing any artifacts such as
  git tags to the repository", and GitHub creates the missing tag at the head of its
  default branch. `AnnouncedIsAvailable` allows no other made-up tag.
* *GitHub plugin.* It throws where `git.tag` is false; releases it did not create are
  never made up for; with `includeImplicitUpdates` the entries of implicit updates
  replace real changelogs (`plugin.ts`, lines 60-63 against 17-19).
* *Zero flags.* `--max-concurrent-reads` and `--max-concurrent-writes` have no default
  (`base.ts`, lines 104-114) and are documented with "set to 0 for default" (lines 107
  and 113), but an explicit 0 loses to the config file (lines 175-182).
  `NearestSourceWins` states what a run is given instead (`ExplicitZero`), and
  `ZeroLosesToTheFile` proves that it is so for every file. `--jobs 0` and `--git-tag`
  cannot overrule a file either, as the parser does not tell them from no flag.
* *Configuration.* `--preset` without a config file is ignored in silence;
  `versionStrategy.coerceImplicitPeerDependency`
  passes the schema and is then dropped (`base.ts`, lines 193-199); `null` is rejected
  for options with an `enum` or `oneOf` although they are declared nullable.

## 4. Proofs

All theorems hold for every value of the constants allowed by the assumption each
module states (`StagesAssumption`, `PlanAssumption`, `PipelineAssumption`,
`PreviewAssumption`, `SortAssumption`, `SavepointAssumption`,
`ChangelogAssumption`, `ConfigAssumption`), and by the hypotheses a theorem names.

`PublishStagesProofs` rests on `Order`, an inductive invariant that says how far
the callbacks of every stage have come, given `stage` and `group`: started
callbacks belong to reached stages, left stages are quiet, in the current stage
earlier groups succeeded and later ones wait, a started callback has all lower
groups of its stage and all preparatory stages before it behind it, and the
registry agrees with the states of the pack callbacks. None of the properties is
inductive alone: whether an upload may start depends on what the executor awaited
before. From `Order` follow `TypeCorrect`, `UploadsComeLast`,
`NothingRunsAway`, `DependenciesFirst` and `NoFailureIsSwallowed`; `CleanupMissedJustly` adds an account
of the cleanup stages that were left, and `StagesImplementContract` shows that the stages
refine the contract, step by step.

`NeverStuck` and `EveryStepUsesWork` are what can be proved about the termination of
the call: until it has settled, the guard of some action holds, however the slots
of `limit` and `limitPublish` are taken (`OnlyPackUploads`: whoever waits for or holds a
slot of `limitPublish` is a callback of the stage pack, so slots are handed back), and
every step takes something away from the callbacks and groups that are left.

`ReleasePipelineProofs`: `PipelineTypeCorrect` needs that a run which has not
begun to publish has tried no upload (`Unattempted`). The lemma
`OthersUntouched` is the frame: a step of one run leaves another run's variables
alone, and registry and remote tags only grow. On it rest

* `PushedTagsReleased` (assuming `FreshClone`): a run starts from released tags,
  adds only tags of its own plan (`RunTagsSafe`), and reaches the push only when
  all of its plan is released (`UploadsTracked`). Without `FreshClone` the
  property fails, as `pipeline_reused_clone` shows.
* `PushedTagsMarkMain` (assuming `FreshClone`): the tags of a copy point at its
  publish commit or at a commit of the branch (`TagsOnMain`), and tags are pushed
  only after the branch accepted that commit.
* `DryRunsArePure`: no step of a dry run touches branch, tags, registry or copy. It
  takes all of the checks named in section 2: `DryIsQuiet` says which steps a dry run
  reaches at all, `Puts` that its uploads are none.
* `SuccessComplete`: what a run without errors has achieved at each step
  (`RunOnTrack`), for any number of concurrent runs.
* `RunsUseTheirWork`: between its start and its end a run has a finite amount of work
  (steps to go, dist-tags to read, uploads to try), each of its own steps lowers it,
  and the steps of others leave it and the working copy alone.

`ReleasePlanProofs` holds the lemmas about `ReleasePlan`: finite sets of versions have
a maximum (proved by minimal counterexample: among the sets without a maximum there is
none without a smaller one), `MaxVersion` and `MaxStrategy` return it, increments are
newer and grow with the strategy, `DependentsOf` is closed under dependents and
distributes over unions, and so does the strategy that a range of commits gives to a
group (`GroupStrategyUnion`), which is what all its bumped members get.

With them, the second half of `ReleasePipelineProofs` relates plan, registry and
history:

* `PlannedVersionsAreNew` and `LatestGoesForward` (assuming one runner and readable
  dist-tags): planning starts when all dist-tags were read (`EverythingRead`), `latest`
  bounds the registry, and until the run publishes, what it read
  is what the registry says (`PlansNew`). With two runners neither holds.
* `ReleasesAreCaused` (assuming one runner, fresh clones, and no minimum strategy,
  under which publish commits ask for a version themselves): up to the tagging, the
  tags of the copy are those of the remote and mark commits of the copy (`Caused`);
  commit ids are unique and the branch never changes behind its head (`Ids`,
  `HistoryIsKept`).
* `TaggedChangesShip` (assuming fresh clones and a tagged first commit), for any
  number of overlapping runs: `Ships` says that a plan covers every change of the copy
  that is not shipped (`CoveredIn`), that a tag of the copy marks either a commit with
  nothing behind it that the plan does not know of, or the publish commit, with
  nothing but raced commits in between (`MarksIn`), and that a run past its uploads
  has shipped the commit it began with. Where the run pushes its tags these three give
  the property for the new tags; all other steps only add commits behind which there
  is no tag.
* `SuccessShipsEverything` (same hypotheses): `NothingDue` follows the last run of each
  runner beyond its end. A run comes to succeed in two ways only (`HowRunsSucceed`):
  with nothing to release, and then its plan covers nothing because nothing was due; or
  past its uploads, where `Ships` says that the commit it began with has shipped.
* `RunsImplementContract` (same hypotheses): the conjunction `Sound` of types, unique
  ids, `Ships`, the truth of the tags on the remote (`TagsTruthful`, which combines the
  three properties of tags above) and `OneTagPerName` makes every step a step of the
  contract or a stutter. An upload never makes a change due, since archives contain
  whole prefixes of the branch; a push of tags is told from one that adds nothing; and
  the rebase settles changes only in a run that tags after it (`ChangesOverlooked`).

`PrereleaseVersionsProofs`, for every history of commits, preview runs, stable runs and
failures:

* `PreviewsStayNew`: the dist-tags are at the newest version of their kind and only go
  forward (`GoesForward`); every increment of a preview, counting up or raising, is
  newer than the preview and the release it starts from.
* `ReleasesStayNew` (assuming `Tagged`): `Announcing` says what the newest preview of
  each group announces: the increment of the last release by a strategy that the
  commits since that release ask for. A stable run increments the same version by the
  largest of these strategies, so it is never behind.
* `PreviewsAnnounceStable` (assuming `Tagged` and `PublicGroups`, that no group has both
  public and private packages): that strategy is also at least the one the completed
  preview runs saw, so raising it by what came after their tag gives exactly the
  strategy of all commits since the release (`RaisedOnce`, `GroupStrategyUnion`).
  The conjuncts need each other: what a crashed preview run left behind is bounded by
  all commits, what a completed one announced by those before its tag.

`TopologicalSortProofs`: a workspace that was reached and is not queued any more is
*settled*; `Worklist` says that settled workspaces are above all their
dependencies and passed the level bound. When the queue is empty all are settled,
which gives the order, and makes `ordered` itself a ranking: the graph is acyclic.
Conversely no level exceeds any ranking of the graph (`BelowRanks`), so the bound
is only passed where there is none (`CyclesFound`). `GroupsAreFit` counts the levels
that occur: the groups returned are numbered 1 to their number, none is empty, and
dependencies come earlier. That is what `StagesAssumption` asks of `Level` and `Depth`,
so the results about `PublishStages` hold for whatever the sort returns.
`EveryVisitCounts` is the argument for termination on any graph, cycles included: the
*headroom* of a workspace is how far its level is from the bound, and a round replaces
one queued workspace by any number of workspaces with less headroom. The row of the
numbers of queued workspaces, by headroom, gets lexicographically smaller. `NoSuperfluousGroups` has an
invariant of its own: whoever is below level 0 has a dependent at most one level
up (`PushedDown`), exactly one once the order is established.

`DependentsAreFound`, in the same module, is about the other worklist. `Following` says
of every moment that what was visited or waits is asked about or a transitive dependent
(`FollowsNoMore`), and that the direct dependents of what was visited were visited or
wait (`FollowsEnough`). With nothing waiting, what was visited is closed under
dependents, and what is in every closed set is in it.

`SavepointProofs`: `Guarded` adds to the property that the backup is complete and
pristine from the first write on, that writes are over when patching was left
without a failure, that a file is restored from the backup only and that the
backup is cleared only after all were restored. `DamageIsRecoverableIfWritten`
is not inductive without them: `Clear` would violate it. Its precondition, that no
patching write failed, is what `savepoint_late_patch` shows to be necessary.
`NothingIsLeftPatched` has no such precondition: it says of the case that is excluded
there which files it may damage, namely those to be published beside a failed one
(`Outlived`).
`RunIsNeverStuck` says that a run that has not ended, or has left writes behind, has a
guard that holds: whoever awaits files awaits some that were started
(`WritesAreStarted`). `RunUsesWork` counts the file operations and the steps that are
left; every step takes some of them.

`ChangelogsProofs`: `AnnouncementsAreAvailable` follows from what a run past its
uploads and past its tags has achieved (`Availability`): a tag it should have is in the
copy or was swallowed, and after the push on the remote or swallowed. `ChangelogsAreKept` needs
`Survival`: from the refresh on, the files of the run hold everything that was
upstream when it started, the commit changes no other file, and the rebase keeps its
version of what it changed. `EntriesHaveReleases` needs `Provenance`, that a working copy has no entry
besides those of releases and of the run itself by the time it is committed, and the
hypothesis `NothingLeftBehind`: clones are fresh, or every changelog exists upstream
and so replaces what a failed run left. `SuccessesAreLogged` follows the entries of one
run to the branch (`LoggedIn`). That the commit and the rebase do not skip them for
being in the index or upstream already needs `NumbersAreFresh`: the entries of a run
that has not pushed are in no other copy and not on the branch.

`ConfigMergeProofs`: by cases of the expression an option is merged with; the lemma
`FlagsOverFile` relates what is parsed to the nearest source that was kept.
`WhatARunIsGiven` has no hypotheses: it says exactly how far the code is from the
property: for the one option `base.ts` never forwards, for a file that is lost for its
preset (`FileLost`), and for flags that do not decide (`FlagDecides`), be it that the
parser fills in the same or that they are limits of 0. `TheNearestSourceWins` follows
where the first two do not occur; `ZeroLosesToTheFile` is about the last.

**Only model-checked:** liveness (`Settles`, `EveryChangeShips`, `Terminates`,
`DependentsEnd`, `RunEnds`). Fairness and ENABLED are out of the prover's reach. What they rest on is
proved, except of `DependentsEnd`: that somebody can go on, that everybody's work is finite, and, for
`EveryChangeShips`, that a run which succeeds leaves nothing due
(`SuccessShipsEverything`), while CI repeats one that does not. What TLC adds is the
step from there to "eventually", under the fairness of section 3.

## 5. Not modelled

* Commit-message parsing, changelog text, the changeset file, logging, HTTP details
  and the CLI's argument parser: pure conversions or I/O that no property here is
  about.
* The lock file, and what is written into a manifest: `Savepoint` tells patched
  from unpatched files only.
* A backup whose own clearing fails: it is a folder of the system's temporary
  directory, and no step depends on it any more.
* p-limit: that it keeps its limit is assumed of the library.
* More than one `prereleaseId`, `registryMode: manifest`, `baseBranch`, an explicit
  `commitSha`, `topologicalDev` beyond the dependency relation, plugins other than
  the GitHub one.
* Two publishes of the same run: `publishPackages` is called once.
* Test helpers, the website and the build configuration of the repository.

## 6. Plan

1. Done: `PublishContract`, `PublishStages`, `ReleasePlan`, `ReleasePipeline`,
   `TopologicalSort`, `Savepoint`, with proofs.
2. Done: `Changelogs` with the GitHub plugin, `ConfigMerge` and `PrereleaseVersions`,
   with proofs of all their properties.
3. Done: `TaggedCommitsAreShipped` and the versions of the plan, proved.
4. Done: `ReleaseContract`, refined by `ReleasePipeline`; the safety halves of the
   liveness properties; the link from the sort to the assumption of the stages.
5. Done: the worklist of `getDependents`, swallowed tags, dry runs step by step.
6. Open: a measure for the termination of `getDependents`.
7. Dropped: the uploads of `ReleasePipeline` as an implementation of `PublishContract`. That contract is about one call, while a
   run is repeated and shares the registry with others, so a mapping could not tell its
   own accepted upload from another run's; `ReleaseContract` states what is promised at
   that level, and the invariants `UploadsTracked` and `RunOnTrack` of the proofs say
   what a run knows of its own uploads.
