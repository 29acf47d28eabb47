--------------------------- MODULE TopologicalSort ---------------------------
(***************************************************************************)
(* getTopologicalSort: the groups in which publishPackages works through   *)
(* the workspaces (packages/dependencies/src/getTopologicalSort.ts).       *)
(* A worklist pushes every workspace below its dependents: whoever is      *)
(* taken from the queue puts its dependencies at least one level further   *)
(* down and in front of the queue. A level beyond the number of workspaces *)
(* can only come from a cycle.                                             *)
(***************************************************************************)
EXTENDS DependencyGraph, Integers, SequencesExt

CONSTANTS
    Workspaces,     \* the workspaces of the project
    Manifests       \* the dependency fields the manifests may have

\* What the sort reads of a manifest; peerDependencies it never looks at.
Manifest == [dependencies : SUBSET Workspaces, devDependencies : SUBSET Workspaces]

ASSUME SortAssumption ==
    /\ IsFiniteSet(Workspaces)
    /\ Manifests \subseteq [Workspaces -> Manifest]

VARIABLES
    manifest,   \* the manifests in the working copy
    targets,    \* possibleWorkspaces: the workspaces to sort
    dev,        \* config.topologicalDev
    queue,      \* the worklist
    ordered,    \* the level of each workspace that was reached
    phase       \* "sorting", then "sorted" or "thrown"

input == <<manifest, targets, dev>>
vars  == <<input, queue, ordered, phase>>

-----------------------------------------------------------------------------
\* Mutant: Dependencies that are not published are sorted, too.
DependenciesToSortAll(w) == manifest[w].dependencies

DependenciesToSort(w)    == manifest[w].dependencies \cap targets
DevDependenciesToSort(w) == IF dev THEN manifest[w].devDependencies \cap targets ELSE {}
Children(w) == DependenciesToSort(w) \cup DevDependenciesToSort(w)

\* Mutant: A workspace that nobody pushed down starts on level 1.
LevelOfOne(w) == IF w \in DOMAIN ordered THEN ordered[w] ELSE 1

LevelOf(w) == IF w \in DOMAIN ordered THEN ordered[w] ELSE 0

\* The levels once w is on its own and its dependencies are below it.
LevelsAfter(w) ==
    [v \in DOMAIN ordered \cup {w} \cup Children(w) |->
        IF v \in Children(w) /\ LevelOf(v) <= LevelOf(w) THEN LevelOf(w) + 1 ELSE LevelOf(v)]

Init ==
    /\ manifest \in Manifests
    /\ targets \in SUBSET Workspaces
    /\ dev \in BOOLEAN
    /\ queue \in ListingsOf(targets)
    /\ ordered = <<>>
    /\ phase = "sorting"

\* Mutant: The acyclic chain of all workspaces counts as a cycle.
TooDeepByOne(w) == LevelOf(w) >= Cardinality(targets) - 1

\* Only a cycle pushes a workspace below all the others.
TooDeep(w) == LevelOf(w) > Cardinality(targets)

\* Mutant: A dependency that has a level is not visited again.
VisitOnce ==
    /\ phase = "sorting"
    /\ queue # <<>>
    /\ ~TooDeep(Head(queue))
    /\ ordered' = LevelsAfter(Head(queue))
    /\ \E a \in ListingsOf(DependenciesToSort(Head(queue)) \ DOMAIN ordered) :
       \E b \in ListingsOf(DevDependenciesToSort(Head(queue)) \ DOMAIN ordered) :
           queue' = b \o a \o Tail(queue)
    /\ UNCHANGED <<input, phase>>

\* Mutant: The workspace is looked at but not taken from the queue.
VisitPeek ==
    /\ phase = "sorting"
    /\ queue # <<>>
    /\ ~TooDeep(Head(queue))
    /\ ordered' = LevelsAfter(Head(queue))
    /\ \E a \in ListingsOf(DependenciesToSort(Head(queue))) :
       \E b \in ListingsOf(DevDependenciesToSort(Head(queue))) :
           queue' = b \o a \o queue
    /\ UNCHANGED <<input, phase>>

\* One round of the loop: the head of the queue, and its dependencies unshifted
\* one by one, the devDependencies last.
Visit ==
    /\ phase = "sorting"
    /\ queue # <<>>
    /\ ~TooDeep(Head(queue))
    /\ ordered' = LevelsAfter(Head(queue))
    /\ \E a \in ListingsOf(DependenciesToSort(Head(queue))) :
       \E b \in ListingsOf(DevDependenciesToSort(Head(queue))) :
           queue' = b \o a \o Tail(queue)
    /\ UNCHANGED <<input, phase>>

\* "Unable to determine topological sort. There is likely a cycle."
ThrowCycle ==
    /\ phase = "sorting"
    /\ queue # <<>>
    /\ TooDeep(Head(queue))
    /\ phase' = "thrown"
    /\ UNCHANGED <<input, queue, ordered>>

Return ==
    /\ phase = "sorting"
    /\ queue = <<>>
    /\ phase' = "sorted"
    /\ UNCHANGED <<input, queue, ordered>>

Terminated == phase # "sorting" /\ UNCHANGED vars

Next == Visit \/ ThrowCycle \/ Return \/ Terminated

Spec == Init /\ [][Next]_vars /\ WF_vars(Next)

\* The levels that occur, and the place of w's group in the returned list: the
\* deepest level comes first, levels without a workspace leave no gap.
Levels == {ordered[v] : v \in DOMAIN ordered}
GroupIndex(w) == 1 + Cardinality({l \in Levels : l > ordered[w]})

-----------------------------------------------------------------------------
(***************************************************************************)
(* Properties.                                                             *)
(***************************************************************************)

\* Levels are given to the workspaces to sort and to no other.
TypeOK ==
    /\ manifest \in [Workspaces -> Manifest]
    /\ targets \subseteq Workspaces
    /\ dev \in BOOLEAN
    /\ queue \in Seq(targets)
    /\ DOMAIN ordered \subseteq targets
    /\ \A w \in DOMAIN ordered : ordered[w] \in Nat
    /\ phase \in {"sorting", "sorted", "thrown"}

\* The list the executor gets: every workspace is in a group, and a dependency
\* is in an earlier group than its dependents, in whatever order the worklist met
\* them. It is what StagesAssumption of PublishStages asks of the groups.
SortIsTopological ==
    phase = "sorted" =>
        /\ DOMAIN ordered = targets
        /\ \A w \in targets : \A d \in Children(w) : GroupIndex(d) < GroupIndex(w)

\* There is no cycle among the workspaces to sort: they can be ranked.
Acyclic ==
    \E rank \in [targets -> 0..Cardinality(targets)] :
        \A w \in targets : \A d \in Children(w) : rank[d] > rank[w]

\* The level bound is a test for cycles: it throws on all of them, a package that
\* depends on itself included, and on nothing else.
CyclesAreReported ==
    /\ phase = "sorted" => Acyclic
    /\ phase = "thrown" => ~Acyclic

\* No workspace waits for a group it need not wait for: below the first level,
\* each has a dependent exactly one level up.
GroupsAreTight ==
    phase = "sorted" =>
        \A w \in targets : ordered[w] > 0 =>
            \E v \in targets : w \in Children(v) /\ ordered[v] = ordered[w] - 1

\* The worklist ends on every graph, although a visit always queues all
\* dependencies again.
Terminates == <>(phase # "sorting")
==============================================================================
