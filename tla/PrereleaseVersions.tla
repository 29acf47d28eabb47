-------------------------- MODULE PrereleaseVersions --------------------------
(***************************************************************************)
(* Versions in prerelease mode (packages/versions/src/                     *)
(* applyVersionStrategies.ts), over a long sequence of commits, preview    *)
(* runs and stable runs of one branch.  A preview run bumps from the newer *)
(* of the dist-tags `latest` and `next` by the commits since the last tag  *)
(* of any kind and moves `next`; a stable run bumps from `latest` by the   *)
(* commits since the last tag of a release and moves `latest`.  Runs are   *)
(* one at a time; how they interleave is in ReleasePipeline.               *)
(***************************************************************************)
EXTENDS ReleasePlan, Sequences

CONSTANTS
    FirstVersions,  \* what [Public -> Version] the registry may start with
    Tagged,         \* does the branch have a tag of a release at the start?
    CommitKinds,    \* the commits that may land: <<level, touched packages>>
    MaxCommits,     \* bound: commits that land on the branch
    MaxRuns,        \* bound: runs that are started
    MaxFaults       \* bound: runs that stop half-way

ASSUME PreviewAssumption ==
    /\ FirstVersions \subseteq [Public -> Version]
    /\ Tagged \in BOOLEAN
    /\ CommitKinds \subseteq Levels \X SUBSET Packages
    /\ MaxCommits \in Nat /\ MaxRuns \in Nat /\ MaxFaults \in Nat

VARIABLES
    log,        \* the commits of the branch, oldest first
    stableTag,  \* the newest of them with the tag of a release, 0 for none
    anyTag,     \* the newest of them with a tag of either kind, 0 for none
    latest,     \* latest[p]: the version behind the dist-tag latest
    next,       \* next[p]: the preview behind prereleaseNPMTag, or NoPreview
    previews,   \* previews[p]: every preview in the registry
    releases,   \* releases[p]: every release in the registry
    mode,       \* "idle", or the kind of run under way
    at,         \* the commit it releases
    plan,       \* the versions it publishes
    left,       \* the packages it has yet to publish
    torn,       \* has a stable run stopped half-way, and no later one completed?
    runs, faults

registry == <<latest, next, previews, releases>>
tags     == <<stableTag, anyTag>>
pending  == <<mode, at, plan, left>>
vars     == <<log, tags, registry, pending, torn, runs, faults>>

-----------------------------------------------------------------------------
(* Previews: x.y.z-<prereleaseId>.n, of one prereleaseId. *)

Preview   == [core : Version, n : Nat]
NoPreview == [core |-> Unpublished, n |-> 0]   \* older than everything

\* A preview of a version comes before that version.
PreviewOfNewer(preview, version) == Older(version, preview.core)

OlderPreview(a, b) == Older(a.core, b.core) \/ (a.core = b.core /\ a.n < b.n)

MaxPreview(S) == CHOOSE a \in S : \A b \in S : ~OlderPreview(a, b)

FirstOf(core) == [core |-> core, n |-> 0]

IsMajor(v) == v[1] > 0 /\ v[2] = 0 /\ v[3] = 0

\* Mutant: an announced minor version is raised again.
RaisesAnyMinor(strategy, preview) ==
    \/ strategy = "major" /\ ~IsMajor(preview.core)
    \/ strategy = "minor"

\* Does the strategy ask for more than the preview already announces?
Raises(strategy, preview) ==
    \/ strategy = "major" /\ ~IsMajor(preview.core)
    \/ strategy = "minor" /\ preview.core[3] # 0

\* Mutant: an announced version is announced again.
IncrementPreviewCore(latestVersion, preview, strategy) ==
    IF ~PreviewOfNewer(preview, latestVersion)
    THEN FirstOf(Increment(latestVersion, strategy))
    ELSE IF Raises(strategy, preview)
    THEN FirstOf(Increment(preview.core, strategy))
    ELSE preview

\* incrementVersion with prerelease: from the newer of the two versions.
IncrementPreview(latestVersion, preview, strategy) ==
    IF ~PreviewOfNewer(preview, latestVersion)
    THEN FirstOf(Increment(latestVersion, strategy))
    ELSE IF Raises(strategy, preview)
    THEN FirstOf(Increment(preview.core, strategy))
    ELSE [preview EXCEPT !.n = @ + 1]

\* The newest preview of a group.
PreviewBase(group) ==
    MaxPreview({NoPreview} \cup {next[p] : p \in {q \in Public : GroupOf[q] = group}})

\* applyVersionStrategies with prerelease, and the merge of every group.
NextPreviews(strategies) ==
    LET released == DOMAIN strategies \cap Public
        Bump(p)  == IncrementPreview(GroupBase(GroupOf[p], latest),
                                     PreviewBase(GroupOf[p]), strategies[p])
    IN  [p \in released |->
            MaxPreview({Bump(q) : q \in {r \in released : GroupOf[r] = GroupOf[p]}})]

-----------------------------------------------------------------------------
(* Commits. *)

Newest == Len(log)

\* getCommitMessages: what is after the tag; of a branch without one, the last
\* commit alone (gitLastTaggedCommit falls back to HEAD).
CommitsSince(tag, to) ==
    {log[i] : i \in {j \in 1..to : IF tag = 0 THEN j = to ELSE j > tag}}

\* Mutant: a stable run takes the tags of previews for its own.
SinceAnyTag == CommitsSince(anyTag, Newest)

\* gitLastTaggedCommit without prerelease excludes the tags of previews.
SinceStableTag == CommitsSince(stableTag, Newest)

PlannedStrategies(kind) ==
    MergedStrategies(IF kind = "stable" THEN SinceStableTag ELSE CommitsSince(anyTag, Newest))

Init ==
    /\ log = <<[level |-> "none", touches |-> {}]>>
    /\ stableTag = (IF Tagged THEN 1 ELSE 0)
    /\ anyTag = stableTag
    /\ latest \in FirstVersions
    /\ next = [p \in Public |-> NoPreview]
    /\ previews = [p \in Public |-> {}]
    /\ releases = [p \in Public |-> {latest[p]}]
    /\ mode = "idle" /\ at = 0 /\ plan = <<>> /\ left = {}
    /\ torn = FALSE
    /\ runs = 0 /\ faults = 0

-----------------------------------------------------------------------------
(* Actions. *)

\* A commit lands, perhaps during a run.
Land ==
    /\ Len(log) <= MaxCommits
    /\ \E kind \in CommitKinds :
           log' = Append(log, [level |-> kind[1], touches |-> kind[2]])
    /\ UNCHANGED <<tags, registry, pending, torn, runs, faults>>

\* CI runs monodeploy on the newest commit, with or without --prerelease.
Start(kind) ==
    /\ mode = "idle"
    /\ runs < MaxRuns
    /\ runs' = runs + 1
    /\ mode' = kind
    /\ at' = Newest
    /\ plan' = IF kind = "stable" THEN NextVersions(PlannedStrategies(kind), latest)
               ELSE NextPreviews(PlannedStrategies(kind))
    /\ left' = DOMAIN plan'
    /\ UNCHANGED <<log, tags, registry, torn, faults>>

\* pack: the upload makes the version known and moves the dist-tag to it.
PublishRelease(p) ==
    /\ mode = "stable" /\ p \in left
    /\ latest' = [latest EXCEPT ![p] = plan[p]]
    /\ releases' = [releases EXCEPT ![p] = @ \cup {plan[p]}]
    /\ left' = left \ {p}
    /\ UNCHANGED <<log, tags, next, previews, mode, at, plan, torn, runs, faults>>

PublishPreview(p) ==
    /\ mode = "preview" /\ p \in left
    /\ next' = [next EXCEPT ![p] = plan[p]]
    /\ previews' = [previews EXCEPT ![p] = @ \cup {plan[p]}]
    /\ left' = left \ {p}
    /\ UNCHANGED <<log, tags, latest, releases, mode, at, plan, torn, runs, faults>>

Reset == mode' = "idle" /\ at' = 0 /\ plan' = <<>> /\ left' = {}

\* Everything is published: the commit is tagged, and the tags are pushed.
Finish ==
    /\ mode # "idle" /\ left = {}
    /\ anyTag' = IF plan # <<>> THEN at ELSE anyTag
    /\ stableTag' = IF mode = "stable" /\ plan # <<>> THEN at ELSE stableTag
    /\ torn' = (torn /\ mode # "stable")
    /\ Reset
    /\ UNCHANGED <<log, registry, runs, faults>>

\* The run stops after some of the uploads, perhaps all, and before its tags are
\* on the remote.
Crash ==
    /\ mode # "idle"
    /\ faults < MaxFaults
    /\ faults' = faults + 1
    /\ torn' = (torn \/ (mode = "stable" /\ left # DOMAIN plan))
    /\ Reset
    /\ UNCHANGED <<log, tags, registry, runs>>

Next ==
    \/ Land \/ Start("stable") \/ Start("preview") \/ Finish \/ Crash
    \/ \E p \in Public : PublishRelease(p) \/ PublishPreview(p)

Spec == Init /\ [][Next]_vars

-----------------------------------------------------------------------------
(***************************************************************************)
(* Properties.                                                             *)
(***************************************************************************)

TypeOK ==
    /\ log \in Seq([level : Levels, touches : SUBSET Packages])
    /\ stableTag \in 0..Len(log) /\ anyTag \in 0..Len(log)
    /\ latest \in [Public -> Version]
    /\ next \in [Public -> Preview]
    /\ previews \in [Public -> SUBSET Preview]
    /\ releases \in [Public -> SUBSET Version]
    /\ mode \in {"idle", "stable", "preview"}
    /\ at \in 0..Len(log)
    /\ left \subseteq DOMAIN plan /\ DOMAIN plan \subseteq Public
    /\ torn \in BOOLEAN /\ runs \in Nat /\ faults \in Nat

\* What a preview announces is what a stable run of the same commit releases: in
\* whatever order patches, minors and majors arrive and are previewed, and
\* however many previews stop half-way, 2.0.0-rc.n leads to 2.0.0.  (A stable run
\* that stopped half-way has moved `latest` and left no tag: then it may not.)
PreviewAnnouncesStable ==
    mode = "preview" /\ ~torn =>
        LET stable == NextVersions(MergedStrategies(CommitsSince(stableTag, at)), latest)
        IN  \A p \in DOMAIN plan : p \in DOMAIN stable /\ plan[p].core = stable[p]

\* A preview that is yet to be published is newer than every version of its
\* package, so that its upload is accepted and `next` moves forward.
PreviewsAreNew ==
    mode = "preview" =>
        \A p \in left :
            /\ \A v \in previews[p] : OlderPreview(v, plan[p])
            /\ \A v \in releases[p] : Older(v, plan[p].core)

\* So is a release: no preview of the registry outruns the release it leads to,
\* also when earlier runs of either kind stopped half-way.
ReleasesAreNew ==
    mode = "stable" =>
        \A p \in left :
            /\ \A v \in previews[p] : ~Older(plan[p], v.core)
            /\ \A v \in releases[p] : Older(v, plan[p])
==============================================================================
