--------------------------- MODULE ReleasePipeline ---------------------------
(***************************************************************************)
(* Release runs (packages/node/src/index.ts) of one or several CI runners, *)
(* with the git remote, the npm registry and the developers they share.    *)
(* Every runner has a working copy; a run reads the dist-tags, plans the   *)
(* versions, commits and tags locally, validates the push, publishes, and  *)
(* only then pushes the commit and the tags.  A step may throw, a run may  *)
(* be killed between two steps, an answer of the registry or of the remote *)
(* may be lost, and developers push at any time.                           *)
(***************************************************************************)
EXTENDS ReleasePlan, Sequences

CONSTANTS
    Runners,          \* CI runners, each running monodeploy from time to time
    Configs,          \* the configurations a runner may be given
    FreshClone,       \* does the runner clone anew for every run?
    DevCommits,       \* the <<level, touches>> developers push, as a set
    FirstVersion,     \* what every public package has in the registry
    ManifestVersion,  \* what the manifests say where versions are not persisted
    InitiallyTagged,  \* is the first commit tagged as released?
    ReadDeniable,     \* may reading a dist-tag be denied while puts are not?
    MaxDevCommits,    \* bound: commits the developers push
    MaxFaults,        \* bound: faults of all kinds
    MaxRuns           \* bound: runs of one runner

\* The options of MonodeployConfiguration that decide what a run does.
Config == [dryRun : BOOLEAN, persistVersions : BOOLEAN, autoCommit : BOOLEAN,
           changelog : BOOLEAN, push : BOOLEAN, tag : BOOLEAN]

ASSUME PipelineAssumption ==
    /\ Configs \subseteq Config
    /\ FreshClone \in BOOLEAN
    /\ InitiallyTagged \in BOOLEAN
    /\ ReadDeniable \in BOOLEAN
    /\ DevCommits \subseteq Levels \X SUBSET Packages
    /\ FirstVersion \in Version
    /\ ManifestVersion \in Version
    /\ MaxDevCommits \in Nat
    /\ MaxFaults \in Nat
    /\ MaxRuns \in Nat

VARIABLES
    \* shared with every other run
    main,         \* the commits of the remote branch, oldest first
    remoteTags,   \* the release tags on the remote
    registry,     \* published versions: [pkg, version, contains]
    latest,       \* latest[p]: the registry's "latest" dist-tag
    \* the working copy of a runner
    base,         \* base[r]: how much of main it has
    own,          \* own[r]: id of the unpushed publish commit on top, 0 if none
    tags,         \* tags[r]: the release tags in the working copy
    \* the memory of a run
    config,       \* config[r]: its configuration
    commitSha,    \* commitSha[r]: config.git.commitSha, HEAD when the run began
    pc,           \* pc[r]: the step it is at
    seen,         \* seen[r]: the dist-tags read so far
    plan,         \* plan[r]: the version of each package to release
    attempted,    \* attempted[r]: packages whose upload was tried
    outcome,      \* outcome[r]: how the run stands, or ended
    \* bookkeeping of the model
    lastId,       \* the newest commit id
    faults,       \* faults so far
    runs,         \* runs[r]: runs started so far
    raced         \* ids of commits pulled under an already computed plan

shared   == <<main, remoteTags, registry, latest>>
copy     == <<base, own, tags>>
memory   == <<commitSha, seen, plan, attempted>>
counters == <<faults, runs>>
rest     == <<config, lastId, raced>>
vars == <<shared, copy, memory, pc, outcome, counters, rest>>

Steps == {"reading", "planning", "preparing", "tagging", "committing", "pulling",
          "retagging", "validating", "publishing", "pushing", "pushingTags",
          "hooks", "cleanup"}
StepsUnderTry == Steps \ {"reading", "planning"}
Outcomes == {"none", "running", "errors", "failed", "crashed", "success"}

-----------------------------------------------------------------------------
(* The remote, the registry and git. *)

DevCommit(id, level, touches) ==
    [id |-> id, dev |-> TRUE, level |-> level, touches |-> touches]

\* Mutant: the message of the publish commit is a "fix".
PublishFix(r) ==
    [id |-> own[r], dev |-> FALSE, level |-> "patch", touches |-> DOMAIN plan[r]]

\* autoCommitMessage is a "chore": it asks for no version.
PublishCommit(r) ==
    [id |-> own[r], dev |-> FALSE, level |-> "none", touches |-> DOMAIN plan[r]]

Released(p, v) == \E e \in registry : e.pkg = p /\ e.version = v

IdsOnMain == {main[i].id : i \in 1..Len(main)}

\* The commit id HEAD names in the working copy.
HeadOf(r) == IF own[r] # 0 THEN own[r] ELSE main[base[r]].id

\* git describe: the newest commit of the working copy that carries a tag.
LastTagged(r) ==
    LET tagged == {i \in 1..commitSha[r] : \E t \in tags[r] : t.at = main[i].id}
    IN  IF tagged = {} THEN 0 ELSE CHOOSE i \in tagged : \A j \in tagged : j <= i

\* Mutant: the range loses its oldest commit.
CommitsToReleaseOffByOne(r) ==
    {main[i] : i \in IF LastTagged(r) = 0 THEN {commitSha[r]}
                     ELSE (LastTagged(r) + 2)..commitSha[r]}

\* getCommitMessages: what came after the last tag; without any tag only HEAD.
CommitsToRelease(r) ==
    {main[i] : i \in IF LastTagged(r) = 0 THEN {commitSha[r]}
                     ELSE (LastTagged(r) + 1)..commitSha[r]}

\* Tags of `from` that a repository holding `into` takes over.
Adoptable(from, into) == {t \in from : ~\E u \in into : SameName(t, u)}

\* Two tag objects of one name: annotated tags differ unless they are the same.
Clashes(ours, theirs) == \E t \in ours, u \in theirs : SameName(t, u) /\ t # u

FirstTags ==
    {[group |-> GroupOf[p], version |-> FirstVersion, at |-> 1, by |-> <<>>,
      pkgs |-> {q \in Public : GroupOf[q] = GroupOf[p]}] : p \in Public}

Init ==
    /\ main = <<DevCommit(1, "none", Packages)>>
    /\ remoteTags = IF InitiallyTagged THEN FirstTags ELSE {}
    /\ registry = [pkg : Public, version : {FirstVersion}, contains : {1}]
    /\ latest = [p \in Public |-> FirstVersion]
    /\ base = [r \in Runners |-> 1]
    /\ own = [r \in Runners |-> 0]
    /\ tags = [r \in Runners |-> {}]
    /\ config \in [Runners -> Configs]
    /\ commitSha = [r \in Runners |-> 1]
    /\ pc = [r \in Runners |-> "idle"]
    /\ seen = [r \in Runners |-> <<>>]
    /\ plan = [r \in Runners |-> <<>>]
    /\ attempted = [r \in Runners |-> {}]
    /\ outcome = [r \in Runners |-> "none"]
    /\ lastId = 1
    /\ faults = 0
    /\ runs = [r \in Runners |-> 0]
    /\ raced = {}

GoTo(r, step) == pc' = [pc EXCEPT ![r] = step]

Report(r, result) == outcome' = [outcome EXCEPT ![r] = result]

\* The step throws (or its effect happened but the answer was lost) and the
\* finally block takes over.
Throws(r) == GoTo(r, "cleanup") /\ Report(r, "failed")

Fault == faults < MaxFaults /\ faults' = faults + 1 /\ UNCHANGED runs

-----------------------------------------------------------------------------
(* Developers. *)

DeveloperPushes ==
    /\ Cardinality({i \in 1..Len(main) : main[i].dev}) <= MaxDevCommits
    /\ lastId' = lastId + 1
    /\ \E c \in DevCommits : main' = Append(main, DevCommit(lastId', c[1], c[2]))
    /\ UNCHANGED <<remoteTags, registry, latest, copy, memory, config, pc, outcome,
                   counters, raced>>

-----------------------------------------------------------------------------
(* A run, step by step. *)

\* Mutant: the uploads of the runner's previous run are remembered.
ClearMemoryPartly(r) ==
    /\ commitSha' = [commitSha EXCEPT ![r] = Len(main)]
    /\ seen' = [seen EXCEPT ![r] = <<>>]
    /\ plan' = [plan EXCEPT ![r] = <<>>]
    /\ UNCHANGED attempted

\* Every run is a new process.
ClearMemory(r) ==
    /\ commitSha' = [commitSha EXCEPT ![r] = Len(main)]
    /\ seen' = [seen EXCEPT ![r] = <<>>]
    /\ plan' = [plan EXCEPT ![r] = <<>>]
    /\ attempted' = [attempted EXCEPT ![r] = {}]

\* CI starts a run when there is something new, or to retry one that failed.
Start(r) ==
    /\ pc[r] \in {"idle", "ended"}
    /\ runs[r] < MaxRuns
    /\ commitSha[r] < Len(main) \/ outcome[r] # "success"
    /\ runs' = [runs EXCEPT ![r] = @ + 1]
    /\ base' = [base EXCEPT ![r] = Len(main)]
    /\ own' = [own EXCEPT ![r] = 0]
    /\ tags' = [tags EXCEPT ![r] =
                    IF FreshClone THEN remoteTags ELSE @ \cup Adoptable(remoteTags, @)]
    /\ ClearMemory(r)
    /\ GoTo(r, "reading")
    /\ Report(r, "running")
    /\ UNCHANGED <<shared, faults, rest>>

Saw(r, p, v) ==
    seen' = [seen EXCEPT ![r] =
                [q \in DOMAIN seen[r] \cup {p} |-> IF q = p THEN v ELSE seen[r][q]]]

\* Mutant: the manifest's version overrides the answer, not the reverse.
DistTagOverridden(p) == ManifestVersion

\* The answer is spread over the manifest's version.
DistTag(p) == latest[p]

\* getLatestPackageTags: the answer for one package arrives.
ReadTag(r, p) ==
    /\ pc[r] = "reading"
    /\ p \in Public \ DOMAIN seen[r]
    /\ Saw(r, p, DistTag(p))
    /\ UNCHANGED <<shared, copy, commitSha, plan, attempted, pc, outcome, counters, rest>>

\* The version of a package in the checkout; where versions are persisted, one
\* that a publish commit brought.
ManifestVersions(r, p) ==
    {ManifestVersion} \cup
    {e.version : e \in {f \in registry : f.pkg = p /\ config[r].persistVersions}}

\* 404 or an authentication error: the package is assumed never published, and
\* the version of its manifest counts.
ReadTagDenied(r, p) ==
    /\ ReadDeniable
    /\ pc[r] = "reading"
    /\ p \in Public \ DOMAIN seen[r]
    /\ Fault
    /\ \E v \in ManifestVersions(r, p) : Saw(r, p, v)
    /\ UNCHANGED <<shared, copy, commitSha, plan, attempted, pc, outcome, rest>>

AllRead(r) ==
    /\ pc[r] = "reading"
    /\ Public \subseteq DOMAIN seen[r]
    /\ GoTo(r, "planning")
    /\ UNCHANGED <<shared, copy, memory, outcome, counters, rest>>

\* From the commit messages to the versions.
Plan(r) ==
    /\ pc[r] = "planning"
    /\ \E commits \in {CommitsToRelease(r)} : \E strategies \in {MergedStrategies(commits)} :
       \E versions \in {NextVersions(strategies, seen[r])} :
           plan' = [plan EXCEPT ![r] = versions]
    /\ GoTo(r, "preparing")
    /\ UNCHANGED <<shared, copy, commitSha, seen, attempted, outcome, counters, rest>>

\* "if (!workspaces.size) return" of several steps.
HasReleases(r) == DOMAIN plan[r] # {}

\* Mutant: a dry run creates the publish commit.
CreatesCommitInDryRun(r) == HasReleases(r)

\* Whether createPublishCommit does anything: nothing in a dry run.
CreatesCommit(r) == HasReleases(r) /\ ~config[r].dryRun

\* Backup, patched manifests, reinstall and changelogs: files of the copy only.
PrepareFiles(r) ==
    /\ pc[r] = "preparing"
    /\ GoTo(r, IF CreatesCommit(r) THEN "tagging" ELSE "validating")
    /\ UNCHANGED <<shared, copy, memory, outcome, counters, rest>>

\* createReleaseGitTags at HEAD: git refuses a name that exists, and a failure
\* of git tag is reported as an error without stopping the run.
CreateTags(r) ==
    LET wanted == TagsOf(plan[r], HeadOf(r), <<r, runs[r]>>)
        free   == Adoptable(wanted, tags[r])
    IN  \E made \in SUBSET free :
            /\ tags' = [tags EXCEPT ![r] = @ \cup made]
            /\ IF made = free THEN UNCHANGED counters ELSE Fault
            /\ IF made = wanted THEN UNCHANGED outcome ELSE Report(r, "errors")

\* Mutant: the tags always mark the commit that is pushed.
WhenTaggedLast(c) == "retagging"

\* Without persistVersions the tags mark the commit the run was started on; with
\* it, the publish commit as it is after the rebase.
WhenTagged(c) == IF c.persistVersions THEN "retagging" ELSE "tagging"

MakeTags(r) ==
    /\ pc[r] \in {"tagging", "retagging"}
    /\ IF config[r].tag /\ ~config[r].dryRun /\ pc[r] = WhenTagged(config[r])
       THEN CreateTags(r)
       ELSE UNCHANGED <<tags, outcome, counters>>
    /\ GoTo(r, IF pc[r] = "tagging" THEN "committing" ELSE "validating")
    /\ UNCHANGED <<shared, base, own, memory, rest>>

\* Mutant: only changelogs are worth a push.
PushesBranchForChangelog(r) ==
    config[r].push /\ config[r].autoCommit /\ config[r].changelog

PushesBranch(r) == config[r].push /\ config[r].autoCommit
PushesTags(r)   == config[r].push /\ config[r].tag

CommitFiles(r) ==
    /\ pc[r] = "committing"
    /\ IF config[r].autoCommit /\ (config[r].persistVersions \/ config[r].changelog)
       THEN /\ lastId' = lastId + 1
            /\ own' = [own EXCEPT ![r] = lastId']
       ELSE UNCHANGED <<lastId, own>>
    /\ GoTo(r, "pulling")
    /\ UNCHANGED <<shared, base, tags, memory, config, outcome, counters, raced>>

\* git pull --rebase: the publish commit moves on top of what was pushed since;
\* git also fetches the tags of the commits it receives.
PullRebase(r) ==
    /\ pc[r] = "pulling"
    /\ IF PushesBranch(r)
       THEN LET received == {main[i].id : i \in (base[r] + 1)..Len(main)}
            IN  /\ base' = [base EXCEPT ![r] = Len(main)]
                /\ tags' = [tags EXCEPT ![r] =
                       @ \cup Adoptable({t \in remoteTags : t.at \in received}, @)]
                /\ raced' = IF config[r].persistVersions /\ config[r].tag
                            THEN raced \cup received ELSE raced
       ELSE UNCHANGED <<base, tags, raced>>
    /\ GoTo(r, "retagging")
    /\ UNCHANGED <<shared, own, memory, config, outcome, lastId, counters>>

\* What git push and git push --tags would be refused for now.
BranchRefused(r) == PushesBranch(r) /\ base[r] # Len(main)
TagsRefused(r)   == PushesTags(r) /\ Clashes(tags[r], remoteTags)

\* A dry run skips the validation.
ValidatesPush(r) == ~config[r].dryRun /\ HasReleases(r)

\* git push --dry-run, before anything reaches the registry.
ValidatePush(r) ==
    /\ pc[r] = "validating"
    /\ IF ValidatesPush(r) /\ (BranchRefused(r) \/ TagsRefused(r))
       THEN Throws(r)
       ELSE GoTo(r, "publishing") /\ UNCHANGED outcome
    /\ UNCHANGED <<shared, copy, memory, counters, rest>>

Attempts(r, p) ==
    /\ pc[r] = "publishing"
    /\ p \in DOMAIN plan[r] \ attempted[r]
    /\ attempted' = [attempted EXCEPT ![r] = @ \cup {p}]

\* pack sends the archive to the registry, but not in a dry run.
Puts(r) == ~config[r].dryRun

\* The archive is built and not sent.
PackOnly(r, p) ==
    /\ Attempts(r, p)
    /\ ~Puts(r)
    /\ UNCHANGED <<shared, copy, commitSha, seen, plan, pc, outcome, counters, rest>>

\* The registry stores a version it does not have and moves "latest" to it.
Stores(r, p) ==
    /\ Puts(r)
    /\ ~Released(p, plan[r][p])
    /\ registry' = registry \cup
           {[pkg |-> p, version |-> plan[r][p], contains |-> base[r]]}
    /\ latest' = [latest EXCEPT ![p] = plan[r][p]]

Upload(r, p) ==
    /\ Attempts(r, p)
    /\ Stores(r, p)
    /\ UNCHANGED <<main, remoteTags, copy, commitSha, seen, plan, pc, outcome,
                   counters, rest>>

UploadUnanswered(r, p) ==
    /\ Attempts(r, p)
    /\ Stores(r, p)
    /\ Fault
    /\ Report(r, "failed")
    /\ UNCHANGED <<main, remoteTags, copy, commitSha, seen, plan, pc, rest>>

\* The version exists already.
UploadConflicts(r, p) ==
    /\ Attempts(r, p)
    /\ Puts(r)
    /\ Released(p, plan[r][p])
    /\ Report(r, "failed")
    /\ UNCHANGED <<shared, copy, commitSha, seen, plan, pc, counters, rest>>

\* A lifecycle script, the packing or the request fails.
UploadFails(r, p) ==
    /\ Attempts(r, p)
    /\ Fault
    /\ Report(r, "failed")
    /\ UNCHANGED <<shared, copy, commitSha, seen, plan, pc, rest>>

\* Mutant: a rejected publish does not stop the run.
PublishSettlesRegardless(r) ==
    /\ pc[r] = "publishing"
    /\ attempted[r] = DOMAIN plan[r]
    /\ GoTo(r, "pushing")
    /\ UNCHANGED <<shared, copy, memory, outcome, counters, rest>>

\* publishPackages settles (module PublishStages): it rejects once an upload
\* failed, possibly without trying the others, and resolves once all succeeded.
PublishSettles(r) ==
    /\ pc[r] = "publishing"
    /\ \/ outcome[r] = "failed" /\ GoTo(r, "cleanup")
       \/ outcome[r] # "failed" /\ attempted[r] = DOMAIN plan[r] /\ GoTo(r, "pushing")
    /\ UNCHANGED <<shared, copy, memory, outcome, counters, rest>>

\* Whether the "Pushing Commit" step comes to pushPublishCommit.
PushesRelease(r) == HasReleases(r) /\ ~config[r].dryRun

SkipPush(r) ==
    /\ pc[r] = "pushing"
    /\ ~PushesRelease(r)
    /\ GoTo(r, "hooks")
    /\ UNCHANGED <<shared, copy, memory, outcome, counters, rest>>

\* git push: only a fast-forward is accepted.
BranchPushed(r) ==
    /\ main' = IF own[r] = 0 THEN main ELSE Append(main, PublishCommit(r))
    /\ base' = [base EXCEPT ![r] = Len(main')]
    /\ own' = [own EXCEPT ![r] = 0]
    /\ UNCHANGED <<remoteTags, registry, latest, tags>>

PushBranch(r) ==
    /\ pc[r] = "pushing"
    /\ PushesRelease(r)
    /\ IF ~PushesBranch(r)
       THEN GoTo(r, "pushingTags") /\ UNCHANGED <<shared, copy, outcome>>
       ELSE IF BranchRefused(r)
            THEN Throws(r) /\ UNCHANGED <<shared, copy>>
            ELSE BranchPushed(r) /\ GoTo(r, "pushingTags") /\ UNCHANGED outcome
    /\ UNCHANGED <<memory, counters, rest>>

PushBranchUnanswered(r) ==
    /\ pc[r] = "pushing"
    /\ PushesRelease(r) /\ PushesBranch(r) /\ ~BranchRefused(r)
    /\ BranchPushed(r)
    /\ Fault
    /\ Throws(r)
    /\ UNCHANGED <<memory, rest>>

\* git push --tags offers every tag of the copy; a clash fails the command, the
\* other tags are accepted all the same.
PushTags(r) ==
    /\ pc[r] = "pushingTags"
    /\ IF PushesTags(r)
       THEN /\ remoteTags' = remoteTags \cup Adoptable(tags[r], remoteTags)
            /\ IF TagsRefused(r) THEN Throws(r)
               ELSE GoTo(r, "hooks") /\ UNCHANGED outcome
       ELSE GoTo(r, "hooks") /\ UNCHANGED <<remoteTags, outcome>>
    /\ UNCHANGED <<main, registry, latest, copy, memory, counters, rest>>

\* The connection breaks: some tags arrived, others did not.
PushTagsBreaks(r) ==
    /\ pc[r] = "pushingTags"
    /\ PushesTags(r)
    /\ Fault
    /\ \E arrived \in SUBSET Adoptable(tags[r], remoteTags) :
           remoteTags' = remoteTags \cup arrived
    /\ Throws(r)
    /\ UNCHANGED <<main, registry, latest, copy, memory, rest>>

\* onReleaseAvailable.
Hooks(r) ==
    /\ pc[r] = "hooks"
    /\ GoTo(r, "cleanup")
    /\ UNCHANGED <<shared, copy, memory, outcome, counters, rest>>

\* Mutant: the errors in the report are not looked at.
CleanupForgetsErrors(r) ==
    /\ pc[r] = "cleanup"
    /\ GoTo(r, "ended")
    /\ IF outcome[r] # "failed" THEN Report(r, "success") ELSE UNCHANGED outcome
    /\ UNCHANGED <<shared, copy, memory, counters, rest>>

\* The finally block; a run whose report has errors throws ErrorsReported.
Cleanup(r) ==
    /\ pc[r] = "cleanup"
    /\ GoTo(r, "ended")
    /\ IF outcome[r] = "running" THEN Report(r, "success") ELSE UNCHANGED outcome
    /\ UNCHANGED <<shared, copy, memory, counters, rest>>

\* A step throws before it has any effect on what is modelled here.
StepThrows(r) ==
    /\ pc[r] \in StepsUnderTry \ {"cleanup"}
    /\ Fault
    /\ Throws(r)
    /\ UNCHANGED <<shared, copy, memory, rest>>

\* Before the backup there is nothing to clean up, and a cleanup that throws is
\* not tried again.
EndsThrowing(r) ==
    /\ pc[r] \in {"reading", "planning", "cleanup"}
    /\ Fault
    /\ GoTo(r, "ended")
    /\ Report(r, "failed")
    /\ UNCHANGED <<shared, copy, memory, rest>>

\* The job is killed.
Crash(r) ==
    /\ pc[r] \in Steps
    /\ Fault
    /\ GoTo(r, "ended")
    /\ Report(r, "crashed")
    /\ UNCHANGED <<shared, copy, memory, rest>>

\* What the program does by itself.
Advance(r) ==
    \/ \E p \in Public :
           ReadTag(r, p) \/ PackOnly(r, p) \/ Upload(r, p) \/ UploadConflicts(r, p)
    \/ AllRead(r) \/ Plan(r) \/ PrepareFiles(r)
    \/ MakeTags(r) \/ CommitFiles(r) \/ PullRebase(r)
    \/ ValidatePush(r) \/ PublishSettles(r)
    \/ SkipPush(r) \/ PushBranch(r) \/ PushTags(r) \/ Hooks(r) \/ Cleanup(r)

\* What may go wrong around it.
Misfortune(r) ==
    \/ \E p \in Public :
           ReadTagDenied(r, p) \/ UploadUnanswered(r, p) \/ UploadFails(r, p)
    \/ PushBranchUnanswered(r) \/ PushTagsBreaks(r)
    \/ StepThrows(r) \/ EndsThrowing(r) \/ Crash(r)

Next ==
    \/ DeveloperPushes
    \/ \E r \in Runners : Start(r) \/ Advance(r) \/ Misfortune(r)

Spec == Init /\ [][Next]_vars

\* The process of a run is scheduled, and CI eventually starts the runs it owes.
FairSpec == Spec /\ \A r \in Runners : WF_vars(Start(r)) /\ WF_vars(Advance(r))

-----------------------------------------------------------------------------
(***************************************************************************)
(* Properties.                                                             *)
(***************************************************************************)

TypeOK ==
    /\ main \in Seq([id : Nat, dev : BOOLEAN, level : Levels, touches : SUBSET Packages])
    /\ \A t \in remoteTags : t.pkgs \subseteq Public
    /\ \A e \in registry : e.pkg \in Public
    /\ DOMAIN latest = Public
    /\ base \in [Runners -> Nat] /\ own \in [Runners -> Nat]
    /\ commitSha \in [Runners -> Nat]
    /\ DOMAIN tags = Runners /\ DOMAIN seen = Runners /\ DOMAIN plan = Runners
    /\ attempted \in [Runners -> SUBSET Public]
    /\ \A r \in Runners : \A t \in tags[r] : t.pkgs \subseteq Public
    /\ config \in [Runners -> Configs]
    /\ pc \in [Runners -> {"idle", "ended"} \cup Steps]
    /\ outcome \in [Runners -> Outcomes]
    /\ \A r \in Runners : DOMAIN seen[r] \subseteq Public
    /\ \A r \in Runners : DOMAIN plan[r] \subseteq Public
    /\ \A r \in Runners : attempted[r] \subseteq DOMAIN plan[r]
    /\ lastId \in Nat /\ faults \in 0..MaxFaults
    /\ runs \in [Runners -> 0..MaxRuns]
    /\ raced \subseteq Nat

IsReleased(t) == \A p \in t.pkgs : Released(p, t.version)

\* A tag on the remote stands for versions that are all in the registry: "if
\* publishing fails, we don't want to have pushed the git tags to the repo".
PushedTagsAreReleased == \A t \in remoteTags : IsReleased(t)

\* A pushed tag marks a commit of the branch: git describe of later runs finds it.
PushedTagsOnMain == \A t \in remoteTags : t.at \in IdsOnMain

Bumps(c, p) == c.dev /\ p \in c.touches /\ StrategyOf(c) # "none"
Shipped(i, p) == \E e \in registry : e.pkg = p /\ e.contains >= i
BehindTag(i) == \E t \in remoteTags : \E j \in i..Len(main) : t.at = main[j].id

\* Later runs only look behind the newest tag, so every change before a pushed
\* tag must be in a published version.  The exception is the one the code
\* documents (commitPublishChanges.ts, lines 73-77): with persistVersions, what
\* the rebase pulled in under an already computed plan.
TaggedCommitsAreShipped ==
    \A i \in 1..Len(main) : BehindTag(i) =>
        \A p \in Public : Bumps(main[i], p) => Shipped(i, p) \/ main[i].id \in raced

\* A run that ends without an error leaves no change of its checkout unreleased,
\* whoever else was releasing at the time: CI need not start another one for it.
SuccessLeavesNothingDue ==
    \A r \in Runners :
        outcome[r] = "success" /\ ~config[r].dryRun =>
            \A i \in 1..commitSha[r] : \A p \in Public :
                Bumps(main[i], p) => Shipped(i, p) \/ main[i].id \in raced

\* A run that ends without an error did everything it was configured to do.
SuccessIsComplete ==
    \A r \in Runners :
        outcome[r] = "success" /\ ~config[r].dryRun =>
            /\ \A p \in DOMAIN plan[r] : Released(p, plan[r][p])
            /\ PushesTags(r) =>
                   \A p \in DOMAIN plan[r] : \E t \in remoteTags :
                       p \in t.pkgs /\ t.version = plan[r][p]
            /\ PushesBranch(r) => own[r] = 0

\* The members of a group that are released together get one version, newer
\* than anything the registry has of the group; so uploads never conflict.
VersionsAreNew ==
    \A r \in Runners :
        pc[r] \in {"preparing", "tagging", "committing", "pulling", "retagging",
                   "validating"} =>
            \A p \in DOMAIN plan[r] :
                /\ \A q \in DOMAIN plan[r] :
                       GroupOf[q] = GroupOf[p] => plan[r][q] = plan[r][p]
                /\ \A e \in registry :
                       GroupOf[e.pkg] = GroupOf[p] => Older(e.version, plan[r][p])

\* Releases do not feed on each other: every planned release has a developer's
\* change that no pushed tag covers yet, be it in this or in an earlier run.
ReleasesHaveACause ==
    \A r \in Runners : pc[r] = "preparing" /\ HasReleases(r) =>
        \E i \in 1..commitSha[r] : \E p \in Packages :
            Bumps(main[i], p) /\ ~BehindTag(i)

\* A dry run goes through the steps of a real one, each with its own check, and
\* changes neither the remote, nor the registry, nor its git history.
DryStepsArePure ==
    \A r \in Runners :
        (/\ config[r].dryRun
         /\ pc[r] \in Steps
         /\ pc[r] # pc'[r] \/ attempted[r] # attempted'[r])
        => UNCHANGED <<shared, copy>>

DryRunIsPure == [][DryStepsArePure]_vars

\* The latest dist-tag of a package never goes back to an older version.
LatestNeverRegresses ==
    [][\A p \in Public : ~Older(latest'[p], latest[p])]_vars

\* Every commit of the branch is a developer's, or the publish commit of a run.
MaxLength == 1 + MaxDevCommits + Cardinality(Runners) * MaxRuns

\* Every change a developer pushed, before, after or between publish commits,
\* reaches a published version, however runs fail, unless all runs are dry: CI
\* retries, and a failed run has not hidden the change behind a tag.  Excepted is,
\* as in TaggedCommitsAreShipped, what a rebase pulled under a computed plan.
EveryChangeShips ==
    \A i \in 2..MaxLength :
        (Len(main) >= i /\ \E r \in Runners : ~config[r].dryRun) ~>
            /\ Len(main) >= i
            /\ \A p \in Public :
                   Bumps(main[i], p) => Shipped(i, p) \/ main[i].id \in raced

\* The release runs as everyone else sees them.
Contract == INSTANCE ReleaseContract WITH
    MayOverlook <- \E c \in Configs : c.persistVersions /\ c.tag,
    branch      <- [i \in 1..Len(main) |-> main[i].id],
    due         <- {main[i].id : i \in {k \in 1..Len(main) :
                       /\ main[k].id \notin raced
                       /\ \E p \in Public : Bumps(main[k], p) /\ ~Shipped(k, p)}},
    versions    <- {<<e.pkg, e.version>> : e \in registry},
    tags        <- remoteTags

\* However runs fail and overlap, they keep the contract of a release.
ImplementsRelease == Contract!Spec
==============================================================================
