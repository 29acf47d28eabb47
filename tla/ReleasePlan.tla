----------------------------- MODULE ReleasePlan -----------------------------
(***************************************************************************)
(* How a run turns the commits since the last tag and the versions in the  *)
(* registry into the versions and git tags it will release                 *)
(* (packages/versions/src, packages/dependencies/src/getDependents.ts and  *)
(* packages/publish/src/determineGitTags.ts), outside of prerelease mode.  *)
(* A commit is a record with the conventional-commit level of its message  *)
(* and the set of packages whose files it touches.                         *)
(***************************************************************************)
EXTENDS DependencyGraph

CONSTANTS
    Packages,        \* the named workspaces of the project
    Private,         \* those whose manifest is private: never published
    Dependencies,    \* [Packages -> SUBSET Packages]: dependencies and peers,
                     \* none of them of or on the top-level workspace
    GroupOf,         \* [Packages -> group name], a package's own name by default
    MinimumStrategy  \* config.versionStrategy.minimumStrategy, "none" if unset

Levels     == {"none", "patch", "minor", "major"}
Strategies == Levels \ {"none"}

ASSUME PlanAssumption ==
    /\ IsFiniteSet(Packages)
    /\ Private \subseteq Packages
    /\ Dependencies \in [Packages -> SUBSET Packages]
    /\ DOMAIN GroupOf = Packages
    /\ MinimumStrategy \in Levels

Public == Packages \ Private

-----------------------------------------------------------------------------
(* Strategies. *)

Rank == [none |-> 0, patch |-> 1, minor |-> 2, major |-> 3]

MaxStrategy(S) == CHOOSE s \in S : \A t \in S : Rank[t] <= Rank[s]

\* The level of the message, or the configured minimum.
StrategyOf(commit) ==
    IF commit.level = "none" THEN MinimumStrategy ELSE commit.level

\* Packages touched by bumping commits, each with the largest strategy.
ExplicitStrategies(commits) ==
    LET bumping == {c \in commits : StrategyOf(c) # "none"}
    IN  [p \in UNION {c.touches : c \in bumping} |->
            MaxStrategy({StrategyOf(c) : c \in {b \in bumping : p \in b.touches}})]

\* getDependents, by what it returns; module Dependents has its worklist.
DependentsOf(S) == DependentsIn(Dependencies, S)

\* Explicit strategies, "patch" for their dependents, and in every group the
\* largest strategy for all members that have one.
MergedStrategies(commits) ==
    LET explicit == ExplicitStrategies(commits)
        implicit == DependentsOf(DOMAIN explicit)
        bumped   == DOMAIN explicit \cup implicit
        Own(p)   == IF p \in DOMAIN explicit THEN explicit[p] ELSE "patch"
    IN  [p \in bumped |->
            MaxStrategy({Own(q) : q \in {r \in bumped : GroupOf[r] = GroupOf[p]}})]

-----------------------------------------------------------------------------
(* Versions, as <<major, minor, patch>>. *)

Version     == Nat \X Nat \X Nat
Unpublished == <<0, 0, 0>>      \* a manifest that never held a version

Older(v, w) ==
    \/ v[1] < w[1]
    \/ v[1] = w[1] /\ v[2] < w[2]
    \/ v[1] = w[1] /\ v[2] = w[2] /\ v[3] < w[3]

MaxVersion(S) == CHOOSE v \in S : \A w \in S : ~Older(v, w)

\* semver.inc of a release version.
Increment(v, strategy) ==
    CASE strategy = "major" -> <<v[1] + 1, 0, 0>>
      [] strategy = "minor" -> <<v[1], v[2] + 1, 0>>
      [] strategy = "patch" -> <<v[1], v[2], v[3] + 1>>

\* The version a group starts from: the newest of its published members.
GroupBase(group, latest) ==
    MaxVersion({Unpublished} \cup
               {latest[p] : p \in {q \in DOMAIN latest : GroupOf[q] = group}})

\* Mutant: every package starts from its own version.
NextVersionsUngrouped(strategies, latest) ==
    [p \in DOMAIN strategies \cap DOMAIN latest |->
        Increment(latest[p], strategies[p])]

\* The versions to publish: only packages with a registry tag and a strategy.
NextVersions(strategies, latest) ==
    LET released == DOMAIN strategies \cap DOMAIN latest
        Bump(p)  == Increment(GroupBase(GroupOf[p], latest), strategies[p])
    IN  [p \in released |->
            MaxVersion({Bump(q) : q \in {r \in released : GroupOf[r] = GroupOf[p]}})]

\* determineGitTags and git tag: `group@version`, one tag for the released
\* members of a group, made by a run on a commit; pkgs is what it stands for.
TagsOf(plan, at, by) ==
    {[group   |-> GroupOf[p],
      version |-> plan[p],
      at      |-> at,
      by      |-> by,
      pkgs    |-> {q \in DOMAIN plan : GroupOf[q] = GroupOf[p] /\ plan[q] = plan[p]}]
        : p \in DOMAIN plan}

SameName(t, u) == t.group = u.group /\ t.version = u.version
==============================================================================
