------------------------------ MODULE Changelogs ------------------------------
(***************************************************************************)
(* What a run does with its changeset besides publishing it: the entries   *)
(* it prepends to the changelogs (packages/changelog), the publish commit  *)
(* that carries them to the branch, and the releases the GitHub plugin     *)
(* announces (packages/plugin-github).  A changelog is the set of entries  *)
(* below its marker, a tree maps the changelogs that exist to theirs; the  *)
(* history has the tree of every publish commit of the remote branch.  How *)
(* versions are planned and packages uploaded is in ReleasePipeline.       *)
(***************************************************************************)
EXTENDS Naturals, Sequences, FiniteSets

CONSTANTS
    Packages,    \* the public workspaces
    Root,        \* the changelog all packages share, where there is only one
    TagOf,       \* [Packages -> git tag names], one for a version group
    Runners,     \* CI runners, each with a working copy
    Configs,     \* the configurations a runner may be given
    Changesets,  \* what runs release: <<packages, those with a changelog entry>>
    Existing,    \* the changelogs that are on the branch from the start
    Unmarked,    \* the changelogs whose marker line is missing
    FreshClone,  \* does a runner clone anew for every run?
    Overlap,     \* may a run start while another one is under way?
    MaxRuns,     \* bound: runs of all runners
    MaxFaults    \* bound: failures that no rule of the model explains

Files == Packages \cup {Root}

Config == [dryRun : BOOLEAN, forceWrite : BOOLEAN, persistVersions : BOOLEAN,
           changelog : {"off", "one", "each"}, autoCommit : BOOLEAN,
           push : BOOLEAN, tag : BOOLEAN, github : {"off", "explicit", "implicit"}]

ASSUME ChangelogAssumption ==
    /\ IsFiniteSet(Packages)
    /\ Root \notin Packages
    /\ DOMAIN TagOf = Packages
    /\ Configs \subseteq Config
    /\ Changesets \subseteq {c \in (SUBSET Packages) \X (SUBSET Packages) :
                               c[1] # {} /\ c[2] \subseteq c[1]}
    /\ Existing \subseteq Files
    /\ Unmarked \subseteq Existing
    /\ FreshClone \in BOOLEAN
    /\ Overlap \in BOOLEAN
    /\ MaxRuns \in Nat
    /\ MaxFaults \in Nat

VARIABLES
    \* shared by all runs
    history,     \* [tree, since] of the remote branch's publish commits: since is
                 \* the commit that was newest when the run of this one started
    remoteTags,  \* [run, tag] of the tags on the remote
    released,    \* the runs whose packages are all in the registry
    releases,    \* [run, tag, pkgs, by, madeUp] of the GitHub releases: did GitHub
                 \* have to make the tag?
    \* the working copy of a runner
    head,        \* head[r]: the entry of history HEAD builds on
    fetched,     \* fetched[r]: the one its remote-tracking branch is at
    headTree,    \* headTree[r]: the changelogs in HEAD
    work,        \* work[r]: the changelogs in the working tree
    own,         \* own[r]: is HEAD an unpushed publish commit?
    tags,        \* tags[r]: [run, tag] of the tags made in it
    \* the memory of a run
    config, pc, outcome,
    run,         \* run[r]: the number of the run
    since,       \* since[r]: the newest entry of history when it started
    bumped,      \* bumped[r]: the packages of its changeset
    noted,       \* noted[r]: those whose changelog is not null
    todo,        \* todo[r]: changelogs to write, later tags to announce
    \* bookkeeping of the model
    swallowed,   \* [run, tag] of the tags that git failed to make
    lastRun, faults

shared == <<history, remoteTags, released, releases>>
copy   == <<head, fetched, headTree, work, own>>
tagging == <<tags, swallowed>>
memory == <<run, since, bumped, noted>>
vars == <<shared, copy, tagging, memory, todo, config, pc, outcome, lastRun, faults>>

Steps == {"refreshing", "writing", "tagging", "committing", "pulling", "taggingCommit",
          "validating", "publishing", "pushing", "pushingTags", "announcing"}

Idle(r) == pc[r] \in {"idle", "ended"}

-----------------------------------------------------------------------------
(* Trees. *)

Entry == [run : Nat, pkgs : SUBSET Packages]

IsTree(t) == \E S \in SUBSET Files : t \in [S -> SUBSET Entry]

Newest == history[Len(history)].tree

Only(tree, S) == [f \in DOMAIN tree \cap S |-> tree[f]]

\* The files of `over` on top of those of `under`.
Overlay(over, under) ==
    [f \in DOMAIN over \cup DOMAIN under |->
        IF f \in DOMAIN over THEN over[f] ELSE under[f]]

\* git rebase --strategy-option=theirs: where both sides added below the same
\* marker the commit that is replayed wins; a file it left alone is upstream's.
Rebased(base, ours, upstream) ==
    [f \in DOMAIN ours \cup DOMAIN upstream |->
        IF \/ f \notin DOMAIN ours
           \/ f \in DOMAIN base \cap DOMAIN upstream /\ ours[f] = base[f]
        THEN upstream[f] ELSE ours[f]]

\* What differs from HEAD in the working tree.
Uncommitted(r) ==
    Only(work[r], {f \in DOMAIN work[r] :
                      f \in DOMAIN headTree[r] => work[r][f] # headTree[r][f]})

-----------------------------------------------------------------------------
(* What the configuration and the changeset ask for. *)

FileOf(r, p) == IF config[r].changelog = "each" THEN p ELSE Root

\* The changelogs config.changelogFilename stands for, with ** for <packageDir>.
Glob(r) ==
    CASE config[r].changelog = "each" -> Packages
      [] config[r].changelog = "one"  -> {Root}
      [] config[r].changelog = "off"  -> {}

FilesToWrite(r) == {FileOf(r, p) : p \in noted[r]} \cap Glob(r)

EntryFor(r, f) == [run |-> run[r], pkgs |-> {p \in noted[r] : FileOf(r, p) = f}]

PushesBranch(r) == config[r].push /\ config[r].autoCommit

\* Mutant: the changelogs are taken as they are.
NeverRefreshes(r) == FALSE

\* forceRefreshChangelogs, and not a dry run.
Refreshes(r) == ~config[r].dryRun /\ PushesBranch(r)

\* Mutant: the checkout is made from HEAD, not from its upstream.
UpstreamIsHead(r) == headTree[r]

\* The tree of @{u}, as it was fetched.
Upstream(r) == history[fetched[r]].tree

\* The index after git checkout @{u} -- <glob>: matching files of the upstream
\* are staged.  With no such file the checkout fails, which is ignored.
Index(r) ==
    IF Refreshes(r) THEN Overlay(Only(Upstream(r), Glob(r)), headTree[r])
    ELSE headTree[r]

Written(r, S) ==
    IF config[r].dryRun /\ ~config[r].forceWrite THEN work[r]
    ELSE [f \in DOMAIN work[r] \cup S |->
             (IF f \in DOMAIN work[r] THEN work[r][f] ELSE {})
             \cup (IF f \in S THEN {EntryFor(r, f)} ELSE {})]

\* The packages of the changeset that a GitHub release is made for.
Announced(r) ==
    CASE config[r].github = "off"      -> {}
      [] config[r].github = "explicit" -> noted[r]
      [] config[r].github = "implicit" -> bumped[r]

Behind(r, tag) == {p \in Announced(r) : TagOf[p] = tag}
TagsToAnnounce(r) == {TagOf[p] : p \in Announced(r)}

Init ==
    /\ history = <<[tree |-> [f \in Existing |-> {}], since |-> 1]>>
    /\ remoteTags = {} /\ released = {} /\ releases = {}
    /\ head = [r \in Runners |-> 1]
    /\ fetched = [r \in Runners |-> 1]
    /\ headTree = [r \in Runners |-> history[1].tree]
    /\ work = [r \in Runners |-> history[1].tree]
    /\ own = [r \in Runners |-> FALSE]
    /\ tags = [r \in Runners |-> {}]
    /\ swallowed = {}
    /\ config \in [Runners -> Configs]
    /\ pc = [r \in Runners |-> "idle"]
    /\ outcome = [r \in Runners |-> "none"]
    /\ run = [r \in Runners |-> 0]
    /\ since = [r \in Runners |-> 1]
    /\ bumped = [r \in Runners |-> {}]
    /\ noted = [r \in Runners |-> {}]
    /\ todo = [r \in Runners |-> {}]
    /\ lastRun = 0
    /\ faults = 0

-----------------------------------------------------------------------------
(* A run, step by step. *)

GoTo(r, step) == pc' = [pc EXCEPT ![r] = step] /\ UNCHANGED <<outcome, config, lastRun>>

Ends(r, result) ==
    /\ pc' = [pc EXCEPT ![r] = "ended"]
    /\ outcome' = [outcome EXCEPT ![r] = result]
    /\ UNCHANGED <<config, lastRun>>

Fault == faults < MaxFaults /\ faults' = faults + 1

\* CI fetches the branch and checks out the commit the run was triggered by,
\* which need not be the newest; a publish commit that was not pushed is left
\* behind.  A working copy that is not cloned anew keeps what an earlier run left
\* uncommitted, and its tags.
Start(r) ==
    /\ Idle(r)
    /\ Overlap \/ \A q \in Runners : Idle(q)
    /\ lastRun < MaxRuns
    /\ lastRun' = lastRun + 1
    /\ run' = [run EXCEPT ![r] = lastRun']
    /\ \E c \in Changesets :
           /\ bumped' = [bumped EXCEPT ![r] = c[1]]
           /\ noted' = [noted EXCEPT ![r] = c[2]]
    /\ \E h \in 1..Len(history) :
           /\ head' = [head EXCEPT ![r] = h]
           /\ headTree' = [headTree EXCEPT ![r] = history[h].tree]
           /\ work' = [work EXCEPT ![r] =
                  IF FreshClone THEN history[h].tree
                  ELSE Overlay(Uncommitted(r), history[h].tree)]
    /\ fetched' = [fetched EXCEPT ![r] = Len(history)]
    /\ since' = [since EXCEPT ![r] = Len(history)]
    /\ own' = [own EXCEPT ![r] = FALSE]
    /\ tags' = [tags EXCEPT ![r] = IF FreshClone THEN {} ELSE @]
    /\ todo' = [todo EXCEPT ![r] = {}]
    /\ pc' = [pc EXCEPT ![r] = "refreshing"]
    /\ outcome' = [outcome EXCEPT ![r] = "running"]
    /\ UNCHANGED <<shared, swallowed, config, faults>>

\* prependChangelogFile brings the changelogs up to date first.
Refresh(r) ==
    /\ pc[r] = "refreshing"
    /\ work' = [work EXCEPT ![r] =
           IF Refreshes(r) THEN Overlay(Only(Upstream(r), Glob(r)), work[r]) ELSE @]
    /\ todo' = [todo EXCEPT ![r] = FilesToWrite(r)]
    /\ GoTo(r, "writing")
    /\ UNCHANGED <<shared, head, fetched, headTree, own, tagging, memory, faults>>

\* prependEntry of one changelog; it is created where it is missing.
WriteEntry(r, f) ==
    /\ pc[r] = "writing"
    /\ f \in todo[r] \ Unmarked
    /\ work' = [work EXCEPT ![r] = Written(r, {f})]
    /\ todo' = [todo EXCEPT ![r] = @ \ {f}]
    /\ UNCHANGED <<shared, head, fetched, headTree, own, tagging, memory, config, pc, outcome,
                   lastRun, faults>>

\* Mutant: a changelog without its marker is passed over.
WriteThrowsNot(r, f) ==
    /\ pc[r] = "writing"
    /\ f \in todo[r]
    /\ IF f \in Unmarked THEN UNCHANGED faults ELSE Fault
    /\ todo' = [todo EXCEPT ![r] = @ \ {f}]
    /\ UNCHANGED <<shared, copy, tagging, memory, config, pc, outcome, lastRun>>

\* The marker is missing, or the file cannot be read or written.  Promise.all
\* rejects at once, and the other changelogs may still be written afterwards.
WriteThrows(r, f) ==
    /\ pc[r] = "writing"
    /\ f \in todo[r]
    /\ IF f \in Unmarked THEN UNCHANGED faults ELSE Fault
    /\ \E late \in SUBSET (todo[r] \ (Unmarked \cup {f})) :
           work' = [work EXCEPT ![r] = Written(r, late)]
    /\ Ends(r, "failed")
    /\ UNCHANGED <<shared, head, fetched, headTree, own, tagging, memory, todo>>

\* In a dry run everything up to the hooks leaves git and the registry alone.
AllWritten(r) ==
    /\ pc[r] = "writing"
    /\ todo[r] = {}
    /\ IF config[r].dryRun
       THEN todo' = [todo EXCEPT ![r] = TagsToAnnounce(r)] /\ GoTo(r, "announcing")
       ELSE UNCHANGED todo /\ GoTo(r, "tagging")
    /\ UNCHANGED <<shared, copy, tagging, memory, faults>>

RunTags(r, names) == {[run |-> run[r], tag |-> tag] : tag \in names}

\* createReleaseGitTags, before the publish commit or, with persistVersions, after
\* it was pulled: what `git tag` throws is logged, and the run goes on.
MakeTags(r) ==
    /\ pc[r] \in {"tagging", "taggingCommit"}
    /\ IF config[r].tag /\ config[r].persistVersions = (pc[r] = "taggingCommit")
       THEN \E failing \in SUBSET {TagOf[p] : p \in bumped[r]} :
                /\ IF failing = {} THEN UNCHANGED faults ELSE Fault
                /\ tags' = [tags EXCEPT ![r] =
                       @ \cup RunTags(r, {TagOf[p] : p \in bumped[r]} \ failing)]
                /\ swallowed' = swallowed \cup RunTags(r, failing)
       ELSE UNCHANGED <<tagging, faults>>
    /\ GoTo(r, IF pc[r] = "tagging" THEN "committing" ELSE "validating")
    /\ UNCHANGED <<shared, copy, memory, todo>>

\* createPublishCommit: files that differ from the index are added and
\* committed, together with what the refresh has staged.
Commit(r) ==
    LET files == {f \in Glob(r) \cap DOMAIN work[r] :
                     f \in DOMAIN Index(r) => work[r][f] # Index(r)[f]}
    IN  /\ pc[r] = "committing"
        /\ IF config[r].autoCommit /\ (files # {} \/ config[r].persistVersions)
           THEN /\ headTree' = [headTree EXCEPT ![r] =
                                   Overlay(Only(work[r], files), Index(r))]
                /\ own' = [own EXCEPT ![r] = TRUE]
           ELSE UNCHANGED <<headTree, own>>
        /\ GoTo(r, "pulling")
        /\ UNCHANGED <<shared, head, fetched, work, tagging, memory, todo, faults>>

\* git pull --rebase --autostash --strategy-option=theirs.
Pull(r) ==
    /\ pc[r] = "pulling"
    /\ IF PushesBranch(r)
       THEN LET pulled == IF own[r] THEN Rebased(history[head[r]].tree, headTree[r], Newest)
                          ELSE Newest
            IN  /\ head' = [head EXCEPT ![r] = Len(history)]
                /\ fetched' = [fetched EXCEPT ![r] = Len(history)]
                /\ headTree' = [headTree EXCEPT ![r] = pulled]
                /\ work' = [work EXCEPT ![r] = Rebased(headTree[r], @, pulled)]
       ELSE UNCHANGED <<head, fetched, headTree, work>>
    /\ GoTo(r, "taggingCommit")
    /\ UNCHANGED <<shared, own, tagging, memory, todo, faults>>

Refused(r) == PushesBranch(r) /\ head[r] # Len(history)

\* git push --dry-run.
ValidatePush(r) ==
    /\ pc[r] = "validating"
    /\ IF Refused(r) THEN Ends(r, "failed") ELSE GoTo(r, "publishing")
    /\ UNCHANGED <<shared, copy, tagging, memory, todo, faults>>

\* publishPackages resolves: every package of the changeset is in the registry.
Publish(r) ==
    /\ pc[r] = "publishing"
    /\ released' = released \cup {run[r]}
    /\ GoTo(r, "pushing")
    /\ UNCHANGED <<history, remoteTags, releases, copy, tagging, memory, todo, faults>>

\* Only a publish commit adds a tree to the branch.
BranchPushed(r) ==
    /\ history' = IF own[r] THEN Append(history, [tree |-> headTree[r], since |-> since[r]])
                ELSE history
    /\ head' = [head EXCEPT ![r] = Len(history')]
    /\ fetched' = [fetched EXCEPT ![r] = Len(history')]
    /\ own' = [own EXCEPT ![r] = FALSE]
    /\ UNCHANGED <<remoteTags, released, releases, headTree, work>>

PushBranch(r) ==
    /\ pc[r] = "pushing"
    /\ IF Refused(r) THEN Ends(r, "failed") ELSE GoTo(r, "pushingTags")
    /\ IF PushesBranch(r) /\ ~Refused(r) THEN BranchPushed(r) ELSE UNCHANGED <<shared, copy>>
    /\ UNCHANGED <<tagging, memory, todo, faults>>

\* The branch has moved and the answer is lost.
PushUnanswered(r) ==
    /\ pc[r] = "pushing"
    /\ PushesBranch(r) /\ ~Refused(r)
    /\ BranchPushed(r)
    /\ Fault
    /\ Ends(r, "failed")
    /\ UNCHANGED <<tagging, memory, todo>>

\* Mutant: git push --tags keeps the --dry-run of the validation.
PushTagsDryRun(r) ==
    /\ pc[r] = "pushingTags"
    /\ todo' = [todo EXCEPT ![r] = TagsToAnnounce(r)]
    /\ GoTo(r, "announcing")
    /\ UNCHANGED <<shared, copy, tagging, memory, faults>>

\* git push --tags of whatever tags the working copy has.
PushTags(r) ==
    /\ pc[r] = "pushingTags"
    /\ remoteTags' = IF config[r].push /\ config[r].tag THEN remoteTags \cup tags[r]
                     ELSE remoteTags
    /\ todo' = [todo EXCEPT ![r] = TagsToAnnounce(r)]
    /\ GoTo(r, "announcing")
    /\ UNCHANGED <<history, released, releases, copy, tagging, memory, faults>>

\* The plugin creates one release per tag, those of most packages first, without
\* a look at the tag: GitHub makes one that is not there.
Announce(r, tag) ==
    /\ pc[r] = "announcing"
    /\ config[r].tag
    /\ tag \in todo[r]
    /\ \A other \in todo[r] :
           Cardinality(Behind(r, other)) <= Cardinality(Behind(r, tag))
    /\ IF config[r].dryRun THEN UNCHANGED <<releases, remoteTags>>
       ELSE /\ releases' = releases \cup
                   {[run |-> run[r], tag |-> tag, pkgs |-> Behind(r, tag), by |-> r,
                     madeUp |-> RunTags(r, {tag}) \cap remoteTags = {}]}
            /\ remoteTags' = remoteTags \cup RunTags(r, {tag})
    /\ todo' = [todo EXCEPT ![r] = @ \ {tag}]
    /\ UNCHANGED <<history, released, copy, tagging, memory, config, pc, outcome,
                   lastRun, faults>>

\* A changeset without git tags: the plugin throws before its first release.
MissingTag(r) ==
    /\ pc[r] = "announcing"
    /\ config[r].github # "off" /\ ~config[r].tag /\ bumped[r] # {}
    /\ Ends(r, "failed")
    /\ UNCHANGED <<shared, copy, tagging, memory, todo, faults>>

Finish(r) ==
    /\ pc[r] = "announcing"
    /\ todo[r] = {}
    /\ config[r].github = "off" \/ config[r].tag \/ bumped[r] = {}
    /\ Ends(r, "success")
    /\ UNCHANGED <<shared, copy, tagging, memory, todo, faults>>

\* A step throws, or the job is killed, before the step has any effect; of a
\* broken git push --tags a part may have arrived, of an upload too.
Stops(r) ==
    /\ pc[r] \in Steps
    /\ Fault
    /\ Ends(r, "failed")
    /\ UNCHANGED <<shared, copy, tagging, memory, todo>>

Next ==
    \E r \in Runners :
        \/ Start(r) \/ Refresh(r) \/ AllWritten(r)
        \/ \E f \in Files : WriteEntry(r, f) \/ WriteThrows(r, f)
        \/ MakeTags(r) \/ Commit(r) \/ Pull(r) \/ ValidatePush(r) \/ Publish(r)
        \/ PushBranch(r) \/ PushUnanswered(r) \/ PushTags(r)
        \/ \E tag \in {TagOf[p] : p \in Packages} : Announce(r, tag)
        \/ MissingTag(r) \/ Finish(r) \/ Stops(r)

Spec == Init /\ [][Next]_vars

-----------------------------------------------------------------------------
(***************************************************************************)
(* Properties.                                                             *)
(***************************************************************************)

TypeOK ==
    /\ Len(history) > 0
    /\ \A i \in 1..Len(history) : IsTree(history[i].tree) /\ history[i].since \in 1..Len(history)
    /\ head \in [Runners -> 1..Len(history)]
    /\ fetched \in [Runners -> 1..Len(history)]
    /\ since \in [Runners -> 1..Len(history)]
    /\ \A r \in Runners : IsTree(headTree[r]) /\ IsTree(work[r])
    /\ own \in [Runners -> BOOLEAN]
    /\ config \in [Runners -> Configs]
    /\ pc \in [Runners -> {"idle", "ended"} \cup Steps]
    /\ outcome \in [Runners -> {"none", "running", "failed", "success"}]
    /\ run \in [Runners -> 0..lastRun]
    /\ bumped \in [Runners -> SUBSET Packages]
    /\ \A r \in Runners : noted[r] \subseteq bumped[r]
    /\ released \subseteq 1..lastRun
    /\ lastRun \in 0..MaxRuns /\ faults \in 0..MaxFaults

EntriesOf(i, f) == IF f \in DOMAIN history[i].tree THEN history[i].tree[f] ELSE {}

\* A push takes no entry out of a changelog that was on the branch when its run
\* started, although runs are given older commits to release from, find what
\* failed runs have left, and resolve every conflict in their own favour.
EntriesSurvive ==
    \A i \in 1..Len(history) : i > 1 =>
        \A f \in Files :
            EntriesOf(i - 1, f) \cap EntriesOf(history[i].since, f) \subseteq EntriesOf(i, f)

\* Only what was released is in a changelog of the branch: what a failed run has
\* left in the working copy is not swept up by the next one.
EntriesAreOfReleases ==
    \A i \in 1..Len(history) : \A f \in DOMAIN history[i].tree :
        \A e \in history[i].tree[f] : e.run \in released

\* A run that succeeded and pushes has put an entry on the branch for each of its
\* packages with a changelog, whatever other runs pushed since.
SuccessIsLogged ==
    \A r \in Runners :
        outcome[r] = "success" /\ Refreshes(r) =>
            \E i \in 1..Len(history) :
                \A p \in {q \in noted[r] : FileOf(r, q) \in Glob(r)} :
                    LET f == FileOf(r, p)
                    IN  /\ f \in DOMAIN history[i].tree
                        /\ \E e \in history[i].tree[f] : e.run = run[r] /\ p \in e.pkgs

\* A GitHub release is of packages that can be installed and of a tag that was
\* pushed before it ("triggered once a release is available, after publishing to
\* npm, and after pushing any artifacts"), except for one case: where the run's own
\* `git tag` has failed, which is only logged, GitHub makes the tag, and on a commit
\* of its choice.
AnnouncedIsAvailable ==
    \A x \in releases :
        /\ x.run \in released
        /\ x.madeUp /\ config[x.by].push => [run |-> x.run, tag |-> x.tag] \in swallowed
==============================================================================
