----------------------------- MODULE Dependents ------------------------------
(***************************************************************************)
(* getDependents: the packages that need a new version because something   *)
(* they depend on gets one (packages/dependencies/src/getDependents.ts).   *)
(* A worklist visits every package at most once; its direct dependents go  *)
(* in front of the queue, visited or not.                                  *)
(***************************************************************************)
EXTENDS DependencyGraph, Sequences

CONSTANTS
    Idents,      \* the names of the workspaces
    TopLevel,    \* the name of the top-level workspace
    NeedsOfAll   \* the fields the manifests may have

\* The scopes of a manifest that are followed.
Needs == [dependencies : SUBSET Idents, peerDependencies : SUBSET Idents]

ASSUME DependentsAssumption ==
    /\ IsFiniteSet(Idents)
    /\ NeedsOfAll \subseteq [Idents -> Needs]

VARIABLES
    needs,          \* the manifests in the working copy
    packageNames,   \* the packages with an explicit strategy
    waiting,        \* the worklist
    allDependents,  \* what was visited; in the end, the answer
    answered        \* has it returned?

dependentsVars == <<needs, packageNames, waiting, allDependents, answered>>

-----------------------------------------------------------------------------
\* identToWorkspace leaves the top-level workspace out.
Known == Idents \ {TopLevel}

Requires(q) == (needs[q].dependencies \cup needs[q].peerDependencies) \cap Known

\* identToDirectDependents.
DirectDependents(p) == {q \in Known : p \in Requires(q)}

\* Mutant: the packages asked about count as visited from the start.
DependentsInitVisited ==
    /\ needs \in NeedsOfAll
    /\ packageNames \in SUBSET Idents
    /\ waiting \in ListingsOf(packageNames)
    /\ allDependents = packageNames
    /\ answered = FALSE

DependentsInit ==
    /\ needs \in NeedsOfAll
    /\ packageNames \in SUBSET Idents
    /\ waiting \in ListingsOf(packageNames)
    /\ allDependents = {}
    /\ answered = FALSE

\* Mutant: a package that was visited is expanded all the same.
FollowAgain ==
    /\ waiting # <<>>
    /\ allDependents' = allDependents \cup {Head(waiting)}
    /\ \E new \in ListingsOf(DirectDependents(Head(waiting))) :
           waiting' = new \o Tail(waiting)
    /\ UNCHANGED <<needs, packageNames, answered>>

\* A package is visited for the first time: its dependents are unshifted one by one.
Follow ==
    /\ waiting # <<>>
    /\ Head(waiting) \notin allDependents
    /\ allDependents' = allDependents \cup {Head(waiting)}
    /\ \E new \in ListingsOf(DirectDependents(Head(waiting))) :
           waiting' = new \o Tail(waiting)
    /\ UNCHANGED <<needs, packageNames, answered>>

\* "Already visited."
FollowedBefore ==
    /\ waiting # <<>>
    /\ Head(waiting) \in allDependents
    /\ waiting' = Tail(waiting)
    /\ UNCHANGED <<needs, packageNames, allDependents, answered>>

\* The packages asked about are not among their dependents.
Answer ==
    /\ ~answered
    /\ waiting = <<>>
    /\ allDependents' = allDependents \ packageNames
    /\ answered' = TRUE
    /\ UNCHANGED <<needs, packageNames, waiting>>

DependentsNext == Follow \/ FollowedBefore \/ Answer

DependentsSpec ==
    DependentsInit /\ [][DependentsNext]_dependentsVars /\ WF_dependentsVars(DependentsNext)

-----------------------------------------------------------------------------
(***************************************************************************)
(* Properties.                                                             *)
(***************************************************************************)

Graph == [q \in Known |-> Requires(q)]

\* The answer is exactly the transitive dependents, over both scopes and on every
\* graph: nobody is skipped because a package was met before, and no cycle brings
\* a package back into the answer that was asked about.
DependentsAreExact == answered => allDependents = DependentsIn(Graph, packageNames)

\* The worklist ends on every graph, although visited packages are queued again.
DependentsEnd == <>answered
==============================================================================
