--------------------------- MODULE ReleaseContract ---------------------------
(***************************************************************************)
(* What the release runs of a repository, taken together, promise to its   *)
(* developers and to the users of its packages, seen from outside: commits *)
(* are only added to the branch, a published version stays what it is, and *)
(* a release tag, once pushed, stays, has a name of its own, marks a       *)
(* commit of the branch, stands for versions anyone can install, and has   *)
(* no unreleased change behind it, where no later run would look for one.  *)
(* Who runs when, with which working copy, and what fails on the way is    *)
(* the business of module ReleasePipeline.                                 *)
(***************************************************************************)
EXTENDS Naturals, Sequences

CONSTANT MayOverlook  \* may versions be planned before the last pull?

VARIABLES
    branch,           \* the ids of the commits on the remote branch, oldest first
    due,              \* those with a change that no published version contains
    versions,         \* the <<package, version>> pairs in the registry
    tags              \* the release tags on the remote

vars == <<branch, due, versions, tags>>

OnBranch == {branch[i] : i \in 1..Len(branch)}
Newest   == branch[Len(branch)]

\* The versions are available, and everything up to the marked commit is released.
Truthful(t) ==
    /\ \A p \in t.pkgs : <<p, t.version>> \in versions
    /\ \E j \in 1..Len(branch) :
           /\ branch[j] = t.at
           /\ \A i \in 1..j : branch[i] \notin due

Unambiguous == \A t, u \in tags : t.group = u.group /\ t.version = u.version => t = u

Init ==
    /\ Len(branch) = 1
    /\ due = {}
    /\ \A t \in tags : Truthful(t)
    /\ Unambiguous

\* A developer or a run pushes a commit.
CommitLands ==
    /\ branch' = Append(branch, Newest')
    /\ Newest' \notin OnBranch
    /\ due \subseteq due' /\ due' \subseteq due \cup {Newest'}
    /\ UNCHANGED <<versions, tags>>

\* The registry accepts one new version, which may contain changes that were due.
VersionPublished ==
    /\ \E v \in versions' : v \notin versions /\ versions' = versions \cup {v}
    /\ due' \subseteq due
    /\ UNCHANGED <<branch, tags>>

\* Changes are pulled in under a plan already made, and its tags will cover them.
ChangesOverlooked ==
    /\ MayOverlook
    /\ due' \subseteq due
    /\ UNCHANGED <<branch, versions, tags>>

TagsPushed ==
    /\ tags \subseteq tags'
    /\ Unambiguous'
    /\ \A t \in tags' \ tags : Truthful(t)
    /\ UNCHANGED <<branch, due, versions>>

Next == CommitLands \/ VersionPublished \/ ChangesOverlooked \/ TagsPushed

Spec == Init /\ [][Next]_vars
==============================================================================
