---------------------------- MODULE PublishStages ----------------------------
(***************************************************************************)
(* publishPackages: four preparatory script stages, the pack-and-upload    *)
(* stage and two cleanup script stages, each run over the topological      *)
(* groups of workspaces by the lifecycle executor                          *)
(* (packages/publish/src/index.ts, lifecycleExecutor.ts and pack.ts).      *)
(* A stage works through the groups in order; the workspaces of a group    *)
(* run concurrently under the p-limit of config.jobs, and an upload also   *)
(* needs a slot of the p-limit of config.maxConcurrentWrites.              *)
(***************************************************************************)
EXTENDS Integers, FiniteSets

CONSTANTS
    Workspaces,          \* the workspaces to publish
    Dependencies,        \* [Workspaces -> SUBSET Workspaces]: what the sort reads
    Topological,         \* config.topological || config.topologicalDev
    Level,               \* [Workspaces -> 1..Depth]: index of the workspace's group
    Depth,               \* number of groups
    Jobs,                \* config.jobs, 0 for no limit
    MaxConcurrentWrites, \* config.maxConcurrentWrites, 0 for one at a time
    DryRun,              \* config.dryRun
    Scripts,             \* the <<stage, workspace>> pairs with a lifecycle script
    Unregistered         \* workspaces pack() has no registry URL or name for

Prepublish     == 1
Prepare        == 2
PrepublishOnly == 3
Prepack        == 4
Pack           == 5
Postpack       == 6
Postpublish    == 7
Ended          == 8
StageIds   == Prepublish..Postpublish

\* The groups are getTopologicalSort's, or one group of everything.
ASSUME StagesAssumption ==
    /\ IsFiniteSet(Workspaces)
    /\ Dependencies \in [Workspaces -> SUBSET Workspaces]
    /\ Topological \in BOOLEAN
    /\ Depth \in Nat \ {0}
    /\ Level \in [Workspaces -> 1..Depth]
    /\ IF Topological
       THEN \A w \in Workspaces : \A d \in Dependencies[w] : Level[d] < Level[w]
       ELSE Depth = 1
    /\ Jobs \in Nat
    /\ MaxConcurrentWrites \in Nat
    /\ DryRun \in BOOLEAN
    /\ Scripts \subseteq (StageIds \X Workspaces)
    /\ Unregistered \subseteq Workspaces

VARIABLES
    stage,      \* the stage publishPackages awaits, Ended when it has settled
    group,      \* the group whose allSettled the executor awaits
    task,       \* task[s][w]: where the callback of stage s for w stands
    thrown,     \* the stages whose executor rejected
    registry    \* the workspaces whose archive the registry accepted

vars == <<stage, group, task, thrown, registry>>

Active  == {"running", "queued", "uploading"}   \* holds a slot of limit
Settled == {"fulfilled", "rejected"}
TaskStates == {"idle"} \cup Active \cup Settled

TypeOK ==
    /\ stage \in Prepublish..Ended
    /\ group \in 1..Depth
    /\ task \in [StageIds -> [Workspaces -> TaskStates]]
    /\ thrown \subseteq StageIds
    /\ registry \subseteq Workspaces

-----------------------------------------------------------------------------
JobSlots   == IF Jobs = 0 THEN Cardinality(Workspaces) ELSE Jobs
WriteSlots == IF MaxConcurrentWrites = 0 THEN 1 ELSE MaxConcurrentWrites

GroupMembers == {w \in Workspaces : Level[w] = group}
Running      == {w \in Workspaces : task[stage][w] \in Active}
Uploading    == {w \in Workspaces : task[Pack][w] = "uploading"}

\* The archives a complete call leaves in the registry.
ToUpload == IF DryRun THEN {} ELSE Workspaces \ Unregistered

Become(w, state) == task' = [task EXCEPT ![stage][w] = state]

\* The groups are sorted: a throw of getTopologicalSort ends the call before it.
Init ==
    /\ stage = Prepublish
    /\ group = 1
    /\ task = [s \in StageIds |-> [w \in Workspaces |-> "idle"]]
    /\ thrown = {}
    /\ registry = {}

\* p-limit gives a free slot to a waiting callback of the current group.
StartTask(w) ==
    /\ stage # Ended
    /\ w \in GroupMembers
    /\ task[stage][w] = "idle"
    /\ Cardinality(Running) < JobSlots
    /\ Become(w, "running")
    /\ UNCHANGED <<stage, group, thrown, registry>>

\* maybeExecuteWorkspaceLifecycleScript returns: no script, dry run or exit 0.
ScriptSucceeds(w) ==
    /\ stage \in StageIds \ {Pack}
    /\ task[stage][w] = "running"
    /\ Become(w, "fulfilled")
    /\ UNCHANGED <<stage, group, thrown, registry>>

\* The script exits with a code other than 0.
ScriptFails(w) ==
    /\ stage \in StageIds \ {Pack}
    /\ task[stage][w] = "running"
    /\ <<stage, w>> \in Scripts
    /\ ~DryRun
    /\ Become(w, "rejected")
    /\ UNCHANGED <<stage, group, thrown, registry>>

\* pack returns without an upload: no name, no registry URL, or a dry run.
SkipUpload(w) ==
    /\ stage = Pack
    /\ task[Pack][w] = "running"
    /\ DryRun \/ w \in Unregistered
    /\ Become(w, "fulfilled")
    /\ UNCHANGED <<stage, group, thrown, registry>>

\* The registry lookup, genPackList or genPackStream throws.
PackFails(w) ==
    /\ stage = Pack
    /\ task[Pack][w] = "running"
    /\ w \notin Unregistered
    /\ Become(w, "rejected")
    /\ UNCHANGED <<stage, group, thrown, registry>>

\* Mutant: An archive without a registry URL is uploaded all the same.
QueueUploadAnyway(w) ==
    /\ stage = Pack
    /\ task[Pack][w] = "running"
    /\ Become(w, "queued")
    /\ UNCHANGED <<stage, group, thrown, registry>>

\* The archive is built; the put waits for limitPublish, keeping its job slot.
QueueUpload(w) ==
    /\ stage = Pack
    /\ task[Pack][w] = "running"
    /\ w \in ToUpload
    /\ Become(w, "queued")
    /\ UNCHANGED <<stage, group, thrown, registry>>

StartUpload(w) ==
    /\ stage = Pack
    /\ task[Pack][w] = "queued"
    /\ Cardinality(Uploading) < WriteSlots
    /\ Become(w, "uploading")
    /\ UNCHANGED <<stage, group, thrown, registry>>

UploadAccepted(w) ==
    /\ stage = Pack
    /\ task[Pack][w] = "uploading"
    /\ registry' = registry \cup {w}
    /\ Become(w, "fulfilled")
    /\ UNCHANGED <<stage, group, thrown>>

UploadRefused(w) ==
    /\ stage = Pack
    /\ task[Pack][w] = "uploading"
    /\ Become(w, "rejected")
    /\ UNCHANGED <<stage, group, thrown, registry>>

\* The registry stored the archive but its answer never arrived.
UploadUnanswered(w) ==
    /\ stage = Pack
    /\ task[Pack][w] = "uploading"
    /\ registry' = registry \cup {w}
    /\ Become(w, "rejected")
    /\ UNCHANGED <<stage, group, thrown>>

\* Mutant: Promise.all instead of Promise.allSettled.
GroupSettledPromiseAll ==
    \/ \A w \in GroupMembers : task[stage][w] \in Settled
    \/ \E w \in GroupMembers : task[stage][w] = "rejected"

\* Mutant: Only a group in which every callback rejected stops the chain.
GroupFailedEvery ==
    GroupMembers # {} /\ \A w \in GroupMembers : task[stage][w] = "rejected"

\* Promise.allSettled has every result of the group.
GroupSettled == \A w \in GroupMembers : task[stage][w] \in Settled
GroupFailed  == \E w \in GroupMembers : task[stage][w] = "rejected"

\* Mutant: A failed preparatory stage does not abort the publish.
StageAfterNoAbort(failed) == stage + 1

\* Mutant: No try/finally around pack and postpack.
StageAfterNoFinally(failed) == IF failed THEN Ended ELSE stage + 1

\* Mutant: A failed stage is run again instead of being left.
StageAfterRetry(failed) == IF failed THEN stage ELSE stage + 1

\* A rejected preparatory stage leaves publishPackages; the two finally blocks
\* run postpack and postpublish whatever pack and postpack did.
StageAfter(failed) ==
    IF failed /\ stage < Pack THEN Ended ELSE stage + 1

\* Mutant: The executor keeps going when the last group is done.
NextGroupUnbounded ==
    /\ stage # Ended
    /\ GroupSettled /\ ~GroupFailed
    /\ group' = group + 1
    /\ UNCHANGED <<stage, task, thrown, registry>>

NextGroup ==
    /\ stage # Ended
    /\ GroupSettled /\ ~GroupFailed
    /\ group < Depth
    /\ group' = group + 1
    /\ UNCHANGED <<stage, task, thrown, registry>>

StageResolves ==
    /\ stage # Ended
    /\ GroupSettled /\ ~GroupFailed
    /\ group = Depth
    /\ stage' = StageAfter(FALSE)
    /\ group' = 1
    /\ UNCHANGED <<task, thrown, registry>>

\* Mutant: The rejection is logged and swallowed.
StageRejectsSilently ==
    /\ stage # Ended
    /\ GroupSettled /\ GroupFailed
    /\ stage' = StageAfter(TRUE)
    /\ group' = 1
    /\ UNCHANGED <<task, thrown, registry>>

\* The executor rethrows the first rejection; the later groups never start.
StageRejects ==
    /\ stage # Ended
    /\ GroupSettled /\ GroupFailed
    /\ thrown' = thrown \cup {stage}
    /\ stage' = StageAfter(TRUE)
    /\ group' = 1
    /\ UNCHANGED <<task, registry>>

\* publishPackages has settled; only a stutter remains.
Terminated == stage = Ended /\ UNCHANGED vars

TaskStep(w) ==
    \/ StartTask(w)
    \/ ScriptSucceeds(w) \/ ScriptFails(w)
    \/ SkipUpload(w) \/ PackFails(w)
    \/ QueueUpload(w) \/ StartUpload(w)
    \/ UploadAccepted(w) \/ UploadRefused(w) \/ UploadUnanswered(w)

ExecutorStep == NextGroup \/ StageResolves \/ StageRejects

Next ==
    \/ \E w \in Workspaces : TaskStep(w)
    \/ ExecutorStep
    \/ Terminated

\* Scripts and requests end, and node runs every callback whose promise settled.
Fairness ==
    /\ WF_vars(ExecutorStep)
    /\ \A w \in Workspaces : WF_vars(TaskStep(w))

Spec == Init /\ [][Next]_vars /\ Fairness

-----------------------------------------------------------------------------
(***************************************************************************)
(* Properties.                                                             *)
(***************************************************************************)

\* No archive is uploaded while any preparatory script of any workspace is
\* outstanding or failed: the executor is awaited once per stage, for all groups.
UploadsFollowEveryPreScript ==
    \A w \in Workspaces :
        (task[Pack][w] # "idle" \/ w \in registry)
            => \A s \in Prepublish..Prepack : \A v \in Workspaces :
                   task[s][v] = "fulfilled"

\* Callbacks of two stages or of two groups never overlap, and none outlives
\* publishPackages: a failing sibling does not leave runaway callbacks behind.
NoRunaway ==
    \A s \in StageIds, w \in Workspaces :
        task[s][w] \in Active => s = stage /\ Level[w] = group

\* With topological groups a package never sits in the registry before a
\* package it depends on, whatever failed on the way.
NoDanglingDependency ==
    Topological =>
        \A w \in registry : \A d \in Dependencies[w] : d \in registry \cup Unregistered

\* The call resolves only if every script of every stage succeeded and every
\* archive was accepted: no failure is swallowed by allSettled or by finally.
ResolvedMeansEverything ==
    stage = Ended /\ thrown = {} =>
        /\ \A s \in StageIds, w \in Workspaces : task[s][w] = "fulfilled"
        /\ registry = ToUpload

\* "Guaranteed to execute after packing the archive, regardless of failure": no
\* workspace that was packed, or whose packing failed, is left without its
\* postpack and its postpublish.  The code does not keep this guarantee.
CleanupAlwaysRuns ==
    stage = Ended =>
        \A w \in Workspaces : task[Pack][w] # "idle" =>
            \A s \in {Postpack, Postpublish} : task[s][w] \in Settled

\* What it does guarantee: a cleanup script is missed only when the same script
\* failed in an earlier topological group; a failure to pack, to upload or in
\* the other cleanup script never keeps it from running.
CleanupMissedOnlyBehindFailure ==
    stage = Ended =>
        \A w \in Workspaces : task[Pack][w] # "idle" =>
            \A s \in {Postpack, Postpublish} :
                task[s][w] \in Settled
                \/ \E v \in Workspaces : Level[v] < Level[w] /\ task[s][v] = "rejected"

\* publishPackages settles, for every outcome of the scripts and the uploads.
Settles == <>(stage = Ended)

\* The call as its caller sees it.
Contract == INSTANCE PublishContract WITH
    ToPublish <- ToUpload,
    published <- registry,
    status <- CASE stage < Pack -> "preparing"
                [] stage \in Pack..Postpublish -> "publishing"
                [] stage = Ended /\ thrown = {} -> "resolved"
                [] stage = Ended /\ thrown # {} -> "rejected"

\* publishPackages implements its contract.
ImplementsContract == Contract!Spec
==============================================================================
