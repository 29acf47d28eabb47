-------------------------- MODULE MCTopologicalSort --------------------------
(***************************************************************************)
(* Every graph over three workspaces for the two worklists of the package  *)
(* dependencies.  They do not meet: in half of the behaviours the sort is  *)
(* at work and getDependents has nothing to do, in the others the reverse. *)
(***************************************************************************)
EXTENDS TopologicalSort, Dependents

CONSTANTS root, core, util, app

ThreeWorkspaces == {core, util, app}
WorkspaceNames  == ThreeWorkspaces \cup {root}

\* Every dependency graph, self-dependencies and cycles included, with core as a
\* devDependency of util.
AllGraphs ==
    {[w \in Workspaces |->
        [dependencies |-> deps[w],
         devDependencies |-> IF w = util THEN {core} ELSE {}]] :
        deps \in [Workspaces -> SUBSET Workspaces]}

\* The same graphs; the top-level workspace depends on all others, app has it and
\* core as peerDependencies.
AllNeeds ==
    {[w \in Idents |->
        [dependencies |-> IF w = root THEN ThreeWorkspaces ELSE deps[w],
         peerDependencies |-> IF w = app THEN {core, root} ELSE {}]] :
        deps \in [ThreeWorkspaces -> SUBSET ThreeWorkspaces]}

NothingToSort ==
    /\ manifest \in {CHOOSE m \in Manifests : TRUE}
    /\ targets = {} /\ dev = FALSE /\ queue = <<>> /\ ordered = <<>> /\ phase = "sorted"

NothingToFollow ==
    /\ needs \in {CHOOSE n \in NeedsOfAll : TRUE}
    /\ packageNames = {} /\ waiting = <<>> /\ allDependents = {} /\ answered = TRUE

EitherInit ==
    \/ Init /\ NothingToFollow
    \/ DependentsInit /\ NothingToSort

EitherNext ==
    \/ Next /\ UNCHANGED dependentsVars
    \/ DependentsNext /\ UNCHANGED vars

EitherSpec ==
    /\ EitherInit /\ [][EitherNext]_<<vars, dependentsVars>>
    /\ WF_vars(Next) /\ WF_dependentsVars(DependentsNext)
==============================================================================
