------------------------- MODULE PublishStagesProofs -------------------------
(***************************************************************************)
(* Proofs about PublishStages, for every set of workspaces, every graph,   *)
(* every grouping and every limit that StagesAssumption admits.  All of    *)
(* them rest on one inductive invariant, Order: how far the callbacks of   *)
(* each stage have come, given the stage and the group the executor is at. *)
(* The last part is about the end of the call: nobody waits for ever, and  *)
(* every step uses up some of a finite amount of work.                     *)
(***************************************************************************)
EXTENDS PublishStages, FiniteSetTheorems, TLAPS

PreStages == Prepublish..Prepack

\* Only callbacks of stages that were reached have started.
StartedIsReached ==
    \A s \in StageIds, w \in Workspaces : task[s][w] # "idle" => s <= stage

\* The stages that were left are quiet.
LeftIsQuiet ==
    \A s \in StageIds, w \in Workspaces : s # stage => task[s][w] \notin Active

\* In the current stage the earlier groups succeeded, the later ones wait.
GroupsInOrder ==
    stage # Ended =>
        \A w \in Workspaces :
            /\ Level[w] < group => task[stage][w] = "fulfilled"
            /\ task[stage][w] # "idle" => Level[w] <= group

\* In every stage a started callback has all lower groups behind it.
LowerGroupsDone ==
    \A s \in StageIds, v, w \in Workspaces :
        task[s][w] # "idle" /\ Level[v] < Level[w] => task[s][v] = "fulfilled"

\* A stage after a preparatory one means that the latter succeeded everywhere.
PreStagesDone ==
    \A r \in PreStages, s \in StageIds, v \in Workspaces :
        /\ stage # Ended /\ r < stage => task[r][v] = "fulfilled"
        /\ \A w \in Workspaces : r < s /\ task[s][w] # "idle" => task[r][v] = "fulfilled"

\* As long as nothing was thrown, every stage left behind succeeded everywhere.
UnthrownIsDone ==
    thrown = {} =>
        \A s \in StageIds, w \in Workspaces : s < stage => task[s][w] = "fulfilled"

\* The registry has what fulfilled uploads put there, and nothing unexpected.
RegistryMatches ==
    \A w \in Workspaces :
        /\ task[Pack][w] \in {"queued", "uploading"} => w \in ToUpload
        /\ w \in registry => w \in ToUpload /\ task[Pack][w] \in Settled
        /\ task[Pack][w] = "fulfilled" /\ w \in ToUpload => w \in registry

Order ==
    /\ TypeOK
    /\ StartedIsReached
    /\ LeftIsQuiet
    /\ GroupsInOrder
    /\ LowerGroupsDone
    /\ PreStagesDone
    /\ UnthrownIsDone
    /\ RegistryMatches

USE DEF Prepublish, Prepare, PrepublishOnly, Prepack, Pack, Postpack, Postpublish, Ended,
        StageIds

-----------------------------------------------------------------------------
(* A callback takes a step. *)

\* A started callback belongs to the current group unless it has succeeded.
LEMMA ActiveIsInGroup ==
    ASSUME Order, stage # Ended, NEW w \in Workspaces, task[stage][w] \in Active
    PROVE  w \in GroupMembers
  <1>1. group \in Int /\ Level[w] \in Int
    BY StagesAssumption DEF Order, TypeOK
  <1>2. task[stage][w] # "idle" /\ task[stage][w] # "fulfilled"
    BY DEF Active
  <1> QED  BY <1>1, <1>2 DEF Order, GroupsInOrder, GroupMembers

\* What every step of one callback of the current group leaves intact.
LEMMA CallbackStep ==
    ASSUME Order, stage # Ended, NEW w \in GroupMembers,
           task[stage][w] \in {"idle"} \cup Active,
           NEW state \in Active \cup Settled, Become(w, state),
           UNCHANGED <<stage, group, thrown>>
    PROVE  /\ task' \in [StageIds -> [Workspaces -> TaskStates]]
           /\ StartedIsReached' /\ LeftIsQuiet' /\ GroupsInOrder'
           /\ LowerGroupsDone' /\ PreStagesDone' /\ UnthrownIsDone'
  <1> USE DEF Order, TypeOK
  <1>1. stage \in StageIds /\ w \in Workspaces /\ Level[w] = group
    BY DEF GroupMembers
  <1>2. task[stage][w] # "fulfilled" /\ state # "idle"
    BY DEF Active, Settled
  <1>3. task' \in [StageIds -> [Workspaces -> TaskStates]]
    BY <1>1 DEF Become, TaskStates
  <1>4. \A s \in StageIds, v \in Workspaces :
           task'[s][v] = IF s = stage /\ v = w THEN state ELSE task[s][v]
    BY <1>1 DEF Become
  <1>5. \A v \in Workspaces : Level[v] \in Int
    BY StagesAssumption
  <1>6. StartedIsReached'
    BY <1>1, <1>4 DEF StartedIsReached
  <1>7. LeftIsQuiet'
    BY <1>1, <1>4 DEF LeftIsQuiet
  <1>8. GroupsInOrder'
    BY <1>1, <1>4, <1>5 DEF GroupsInOrder
  <1>9. LowerGroupsDone'
    <2> SUFFICES ASSUME NEW s \in StageIds, NEW v \in Workspaces, NEW u \in Workspaces,
                        task'[s][u] # "idle", Level[v] < Level[u]
                 PROVE  task'[s][v] = "fulfilled"
      BY DEF LowerGroupsDone
    <2>1. CASE s = stage /\ u = w
      <3>1. v # w /\ Level[v] < group
        BY <1>1, <1>5, <2>1
      <3>2. task[stage][v] = "fulfilled"
        BY <3>1 DEF GroupsInOrder
      <3> QED  BY <1>4, <2>1, <3>1, <3>2
    <2>2. CASE ~(s = stage /\ u = w)
      <3>1. task[s][v] = "fulfilled"
        BY <1>4, <2>2 DEF LowerGroupsDone
      <3> QED  BY <1>2, <1>4, <3>1
    <2> QED  BY <2>1, <2>2
  <1>10. PreStagesDone'
    <2> SUFFICES ASSUME NEW r \in PreStages, NEW s \in StageIds, NEW v \in Workspaces
                 PROVE  /\ stage # Ended /\ r < stage => task'[r][v] = "fulfilled"
                        /\ \A u \in Workspaces :
                              r < s /\ task'[s][u] # "idle" => task'[r][v] = "fulfilled"
      BY DEF PreStagesDone
    <2>1. r \in StageIds
      BY DEF PreStages
    <2>2. r < stage => task'[r][v] = "fulfilled"
      BY <1>1, <1>4, <2>1 DEF PreStagesDone
    <2>3. ASSUME NEW u \in Workspaces, r < s, task'[s][u] # "idle"
          PROVE  task'[r][v] = "fulfilled"
      <3>1. CASE s = stage
        BY <2>2, <2>3, <3>1
      <3>2. CASE s # stage
        BY <1>2, <1>4, <2>1, <2>3, <3>2 DEF PreStagesDone
      <3> QED  BY <3>1, <3>2
    <2> QED  BY <2>2, <2>3
  <1>11. UnthrownIsDone'
    BY <1>1, <1>4 DEF UnthrownIsDone
  <1> QED  BY <1>3, <1>6, <1>7, <1>8, <1>9, <1>10, <1>11

\* What a callback's step does to the registry.
LEMMA TaskStepOrder ==
    ASSUME Order, NEW w \in Workspaces, TaskStep(w)
    PROVE  Order'
  <1> USE DEF Order
  <1> DEFINE Kept == /\ StartedIsReached' /\ LeftIsQuiet' /\ GroupsInOrder'
                     /\ LowerGroupsDone' /\ PreStagesDone' /\ UnthrownIsDone'
  <1>1. ASSUME NEW state \in Active \cup Settled,
               stage # Ended, w \in GroupMembers,
               task[stage][w] \in {"idle"} \cup Active,
               Become(w, state),
               UNCHANGED <<stage, group, thrown>>,
               registry' \in {registry, registry \cup {w}},
               stage = Pack /\ state \in {"queued", "uploading"} => w \in ToUpload,
               stage = Pack /\ state = "fulfilled" /\ w \in ToUpload => w \in registry',
               registry' # registry => stage = Pack /\ w \in ToUpload /\ state \in Settled
        PROVE  Order'
    <2>1. Kept /\ task' \in [StageIds -> [Workspaces -> TaskStates]]
      BY <1>1, CallbackStep
    <2>2. TypeOK'
      BY <1>1, <2>1 DEF TypeOK
    <2>3. \A v \in Workspaces :
             task'[Pack][v] = IF stage = Pack /\ v = w THEN state ELSE task[Pack][v]
      BY <1>1 DEF Become, TypeOK
    <2>4. w \in registry /\ stage = Pack => FALSE
      BY <1>1 DEF RegistryMatches, Active, Settled
    <2>5. RegistryMatches'
      BY <1>1, <2>3, <2>4 DEF RegistryMatches, ToUpload, Settled
    <2> QED  BY <2>1, <2>2, <2>5
  <1>2. CASE StartTask(w)
    BY <1>1, <1>2 DEF StartTask, Active, Settled
  <1>3. ASSUME stage # Ended, task[stage][w] \in Active
        PROVE  w \in GroupMembers
    BY <1>3, ActiveIsInGroup
  <1>4. CASE ScriptSucceeds(w)
    BY <1>1, <1>3, <1>4 DEF ScriptSucceeds, Active, Settled
  <1>5. CASE ScriptFails(w)
    BY <1>1, <1>3, <1>5 DEF ScriptFails, Active, Settled
  <1>6. CASE SkipUpload(w)
    <2>1. w \notin ToUpload
      BY <1>6 DEF SkipUpload, ToUpload
    <2> QED  BY <1>1, <1>3, <1>6, <2>1 DEF SkipUpload, Active, Settled
  <1>7. CASE PackFails(w)
    BY <1>1, <1>3, <1>7 DEF PackFails, Active, Settled
  <1>8. CASE QueueUpload(w)
    BY <1>1, <1>3, <1>8 DEF QueueUpload, Active, Settled
  <1>9. CASE StartUpload(w)
    <2>1. w \in ToUpload
      BY <1>9 DEF StartUpload, RegistryMatches
    <2> QED  BY <1>1, <1>3, <1>9, <2>1 DEF StartUpload, Active, Settled
  <1>10. ASSUME task[Pack][w] = "uploading"
         PROVE  w \in ToUpload
    BY <1>10 DEF RegistryMatches
  <1>11. CASE UploadAccepted(w)
    BY <1>1, <1>3, <1>10, <1>11 DEF UploadAccepted, Active, Settled
  <1>12. CASE UploadRefused(w)
    BY <1>1, <1>3, <1>12 DEF UploadRefused, Active, Settled
  <1>13. CASE UploadUnanswered(w)
    BY <1>1, <1>3, <1>10, <1>13 DEF UploadUnanswered, Active, Settled
  <1> QED  BY <1>2, <1>4, <1>5, <1>6, <1>7, <1>8, <1>9, <1>11, <1>12, <1>13 DEF TaskStep

-----------------------------------------------------------------------------
(* The executor takes a step. *)

\* A settled group is the end of what is active.
LEMMA SettledIsQuiet ==
    ASSUME Order, stage # Ended, GroupSettled
    PROVE  \A w \in Workspaces : task[stage][w] \notin Active
  BY ActiveIsInGroup DEF GroupSettled, Active, Settled

\* With the last group settled without a failure the whole stage succeeded.
LEMMA LastGroupCompletes ==
    ASSUME Order, stage # Ended, GroupSettled, ~GroupFailed, group = Depth
    PROVE  \A w \in Workspaces : task[stage][w] = "fulfilled"
  <1> SUFFICES ASSUME NEW w \in Workspaces PROVE task[stage][w] = "fulfilled"
    OBVIOUS
  <1>1. Level[w] \in Int /\ Level[w] <= Depth /\ Depth \in Int
    BY StagesAssumption
  <1>2. CASE Level[w] = group
    BY <1>2 DEF GroupSettled, GroupFailed, GroupMembers, Settled
  <1>3. CASE Level[w] # group
    BY <1>1, <1>3 DEF Order, GroupsInOrder
  <1> QED  BY <1>2, <1>3

LEMMA NextGroupOrder ==
    ASSUME Order, NextGroup
    PROVE  Order'
  <1> USE DEF Order, NextGroup
  <1>1. group \in Int /\ Depth \in Int /\ \A w \in Workspaces : Level[w] \in Int
    BY StagesAssumption DEF TypeOK
  <1>2. TypeOK'
    BY <1>1 DEF TypeOK
  <1>3. \A w \in Workspaces : Level[w] = group => task[stage][w] = "fulfilled"
    BY DEF GroupSettled, GroupFailed, GroupMembers, Settled
  <1>4. GroupsInOrder'
    BY <1>1, <1>3 DEF GroupsInOrder
  <1>5. /\ StartedIsReached' /\ LeftIsQuiet' /\ LowerGroupsDone'
        /\ PreStagesDone' /\ UnthrownIsDone'
    BY DEF StartedIsReached, LeftIsQuiet, LowerGroupsDone, PreStagesDone, UnthrownIsDone
  <1>6. RegistryMatches'
    BY DEF RegistryMatches, ToUpload
  <1> QED  BY <1>2, <1>4, <1>5, <1>6

LEMMA StageResolvesOrder ==
    ASSUME Order, StageResolves
    PROVE  Order'
  <1> USE DEF Order
  <1>1. /\ stage' = stage + 1 /\ stage \in StageIds
        /\ group' = 1 /\ UNCHANGED <<task, thrown, registry>>
    BY DEF StageResolves, StageAfter, TypeOK
  <1>2. \A w \in Workspaces : task[stage][w] = "fulfilled"
    BY LastGroupCompletes DEF StageResolves
  <1>3. TypeOK'
    BY <1>1, StagesAssumption DEF TypeOK
  <1>4. StartedIsReached'
    BY <1>1 DEF StartedIsReached
  <1>5. LeftIsQuiet'
    BY <1>1, <1>2 DEF LeftIsQuiet, StartedIsReached, Active
  <1>6. GroupsInOrder'
    <2>1. \A w \in Workspaces : ~(Level[w] < 1)
      BY StagesAssumption
    <2>2. stage' # Ended => \A w \in Workspaces : task[stage'][w] = "idle"
      BY <1>1 DEF StartedIsReached
    <2> QED  BY <1>1, <2>1, <2>2 DEF GroupsInOrder
  <1>7. LowerGroupsDone'
    BY <1>1 DEF LowerGroupsDone
  <1>8. PreStagesDone'
    BY <1>1, <1>2 DEF PreStagesDone, PreStages
  <1>9. UnthrownIsDone'
    BY <1>1, <1>2 DEF UnthrownIsDone
  <1>10. RegistryMatches'
    BY <1>1 DEF RegistryMatches, ToUpload
  <1> QED  BY <1>3, <1>4, <1>5, <1>6, <1>7, <1>8, <1>9, <1>10

LEMMA StageRejectsOrder ==
    ASSUME Order, StageRejects
    PROVE  Order'
  <1> USE DEF Order
  <1>1. /\ stage \in StageIds /\ thrown' = thrown \cup {stage}
        /\ group' = 1 /\ UNCHANGED <<task, registry>>
        /\ GroupSettled /\ stage # Ended
    BY DEF StageRejects, TypeOK
  <1>2. stage' = IF stage < Pack THEN Ended ELSE stage + 1
    BY DEF StageRejects, StageAfter
  <1>3. TypeOK'
    BY <1>1, <1>2, StagesAssumption DEF TypeOK
  <1>4. StartedIsReached'
    BY <1>1, <1>2 DEF StartedIsReached
  <1>5. LeftIsQuiet'
    <2> SUFFICES ASSUME NEW s \in StageIds, NEW w \in Workspaces, s # stage'
                 PROVE  task[s][w] \notin Active
      BY <1>1 DEF LeftIsQuiet
    <2>1. CASE s = stage
      <3>1. \A v \in Workspaces : task[stage][v] \notin Active
        BY <1>1, SettledIsQuiet
      <3> QED  BY <1>1, <2>1, <3>1
    <2>2. CASE s # stage
      BY <1>1, <2>2 DEF LeftIsQuiet
    <2> QED  BY <2>1, <2>2
  <1>6. GroupsInOrder'
    <2>1. \A w \in Workspaces : ~(Level[w] < 1)
      BY StagesAssumption
    <2>2. stage' # Ended => \A w \in Workspaces : task[stage'][w] = "idle"
      BY <1>1, <1>2 DEF StartedIsReached
    <2> QED  BY <1>1, <2>1, <2>2 DEF GroupsInOrder
  <1>7. LowerGroupsDone'
    BY <1>1 DEF LowerGroupsDone
  <1>8. PreStagesDone'
    BY <1>1, <1>2 DEF PreStagesDone, PreStages
  <1>9. UnthrownIsDone'
    BY <1>1 DEF UnthrownIsDone
  <1>10. RegistryMatches'
    BY <1>1 DEF RegistryMatches, ToUpload
  <1> QED  BY <1>3, <1>4, <1>5, <1>6, <1>7, <1>8, <1>9, <1>10

-----------------------------------------------------------------------------
(* The invariant. *)

LEMMA InitOrder ==
    ASSUME Init
    PROVE  Order
  <1>1. TypeOK
    BY StagesAssumption DEF Init, TypeOK, TaskStates
  <1>2. stage = Prepublish /\ group = 1 /\ thrown = {} /\ registry = {}
        /\ \A s \in StageIds, w \in Workspaces : task[s][w] = "idle"
    BY DEF Init
  <1>3. \A w \in Workspaces : Level[w] \in 1..Depth
    BY StagesAssumption
  <1>4. StartedIsReached /\ LeftIsQuiet /\ LowerGroupsDone
    BY <1>2 DEF StartedIsReached, LeftIsQuiet, LowerGroupsDone, Active
  <1>5. GroupsInOrder
    BY <1>2, <1>3, StagesAssumption DEF GroupsInOrder
  <1>6. PreStagesDone /\ UnthrownIsDone
    BY <1>2 DEF PreStagesDone, PreStages, UnthrownIsDone
  <1>7. RegistryMatches
    BY <1>2 DEF RegistryMatches
  <1> QED  BY <1>1, <1>4, <1>5, <1>6, <1>7 DEF Order

LEMMA NextOrder ==
    ASSUME Order, [Next]_vars
    PROVE  Order'
  <1>1. CASE UNCHANGED vars
    BY <1>1 DEF vars, Order, TypeOK, StartedIsReached, LeftIsQuiet, GroupsInOrder,
                LowerGroupsDone, PreStagesDone, UnthrownIsDone, RegistryMatches, ToUpload
  <1>2. CASE Terminated
    BY <1>1, <1>2 DEF Terminated
  <1> QED  BY <1>1, <1>2, TaskStepOrder, NextGroupOrder, StageResolvesOrder,
              StageRejectsOrder DEF Next, ExecutorStep

\* The inductive invariant holds in every reachable state.
THEOREM OrderHolds == Spec => []Order
  <1>1. Init => Order
    BY InitOrder
  <1>2. Order /\ [Next]_vars => Order'
    BY NextOrder
  <1> QED  BY <1>1, <1>2, PTL DEF Spec

-----------------------------------------------------------------------------
(* What the invariant gives. *)

\* Every variable keeps its type (TypeOK).
THEOREM TypeCorrect == Spec => []TypeOK
  <1>1. Order => TypeOK
    BY DEF Order
  <1> QED  BY <1>1, OrderHolds, PTL

\* No archive is uploaded, or even built, before every preparatory script of
\* every workspace has succeeded (publishPackages awaits stage after stage).
THEOREM UploadsComeLast == Spec => []UploadsFollowEveryPreScript
  <1>1. Order => UploadsFollowEveryPreScript
    <2> SUFFICES ASSUME Order, NEW w \in Workspaces,
                        task[Pack][w] # "idle" \/ w \in registry,
                        NEW s \in PreStages, NEW v \in Workspaces
                 PROVE  task[s][v] = "fulfilled"
      BY DEF UploadsFollowEveryPreScript, PreStages
    <2>1. task[Pack][w] # "idle"
      BY DEF Order, RegistryMatches, Settled
    <2> QED  BY <2>1 DEF Order, PreStagesDone, PreStages
  <1> QED  BY <1>1, OrderHolds, PTL

\* A failing callback leaves no sibling running behind the executor's back.
THEOREM NothingRunsAway == Spec => []NoRunaway
  <1>1. Order => NoRunaway
    <2> SUFFICES ASSUME Order, NEW s \in StageIds, NEW w \in Workspaces,
                        task[s][w] \in Active
                 PROVE  s = stage /\ Level[w] = group
      BY DEF NoRunaway
    <2>1. s = stage /\ stage # Ended
      BY DEF Order, LeftIsQuiet
    <2>2. w \in GroupMembers
      BY <2>1, ActiveIsInGroup
    <2> QED  BY <2>1, <2>2 DEF GroupMembers
  <1> QED  BY <1>1, OrderHolds, PTL

\* A topological publish never leaves a package in the registry without the
\* packages it depends on, whatever failed and whatever answer was lost.
THEOREM DependenciesFirst == Spec => []NoDanglingDependency
  <1>1. Order => NoDanglingDependency
    <2> SUFFICES ASSUME Order, Topological, NEW w \in registry, NEW d \in Dependencies[w]
                 PROVE  d \in registry \cup Unregistered
      BY DEF NoDanglingDependency
    <2>1. w \in Workspaces /\ d \in Workspaces /\ Level[d] < Level[w]
      BY StagesAssumption DEF Order, TypeOK
    <2>2. task[Pack][w] # "idle" /\ w \in ToUpload
      BY <2>1 DEF Order, RegistryMatches, Settled
    <2>3. task[Pack][d] = "fulfilled"
      BY <2>1, <2>2 DEF Order, LowerGroupsDone
    <2>4. d \in ToUpload \/ d \in Unregistered
      BY <2>1, <2>2 DEF ToUpload
    <2> QED  BY <2>1, <2>3, <2>4 DEF Order, RegistryMatches
  <1> QED  BY <1>1, OrderHolds, PTL

\* An ended call that threw nothing did everything.
LEMMA OrderResolved ==
    ASSUME Order
    PROVE  ResolvedMeansEverything
  <1> SUFFICES ASSUME stage = Ended, thrown = {}
               PROVE  /\ \A s \in StageIds, w \in Workspaces : task[s][w] = "fulfilled"
                      /\ registry = ToUpload
    BY DEF ResolvedMeansEverything
  <1>1. \A s \in StageIds, w \in Workspaces : task[s][w] = "fulfilled"
    BY DEF Order, UnthrownIsDone
  <1>2. ToUpload \subseteq Workspaces /\ registry \subseteq Workspaces
    BY DEF ToUpload, Order, TypeOK
  <1>3. \A w \in Workspaces : w \in registry <=> w \in ToUpload
    BY <1>1 DEF Order, RegistryMatches
  <1> QED  BY <1>1, <1>2, <1>3

\* Neither allSettled nor the two finally blocks swallow a failure.
THEOREM NoFailureIsSwallowed == Spec => []ResolvedMeansEverything
  <1>1. Order => ResolvedMeansEverything
    BY OrderResolved
  <1> QED  BY <1>1, OrderHolds, PTL

-----------------------------------------------------------------------------
(* Cleanup scripts. *)

\* The cleanup stages that were left are accounted for.
CleanupAccounted ==
    \A w \in Workspaces, s \in {Postpack, Postpublish} :
        task[Pack][w] # "idle" /\ s < stage =>
            task[s][w] \in Settled
            \/ \E v \in Workspaces : Level[v] < Level[w] /\ task[s][v] = "rejected"

\* A stage that is left has run everywhere, or up to the group that failed.
LEMMA LeavingAccounts ==
    ASSUME Order, CleanupAccounted, StageResolves \/ StageRejects
    PROVE  CleanupAccounted'
  <1>1. stage \in StageIds /\ UNCHANGED task
    BY DEF StageResolves, StageRejects, StageAfter, Order, TypeOK
  <1>2. stage' = stage + 1 \/ (stage < Pack /\ stage' = Ended)
    BY <1>1 DEF StageResolves, StageRejects, StageAfter
  <1>3. group \in Int /\ \A w \in Workspaces : Level[w] \in Int
    BY StagesAssumption DEF Order, TypeOK
  <1> SUFFICES ASSUME NEW w \in Workspaces, NEW s \in {Postpack, Postpublish},
                      task[Pack][w] # "idle", s < stage'
               PROVE  task[s][w] \in Settled
                      \/ \E v \in Workspaces : Level[v] < Level[w] /\ task[s][v] = "rejected"
    BY <1>1 DEF CleanupAccounted
  <1>4. Pack <= stage
    BY DEF Order, StartedIsReached
  <1>5. CASE s < stage
    BY <1>5 DEF CleanupAccounted
  <1>6. CASE s = stage
    <2>1. CASE StageResolves
      BY <1>6, <2>1, LastGroupCompletes DEF StageResolves, Settled
    <2>2. CASE StageRejects
      <3>1. Level[w] < group => task[stage][w] = "fulfilled"
        BY <2>2 DEF StageRejects, Order, GroupsInOrder
      <3>2. Level[w] = group => task[stage][w] \in Settled
        BY <2>2 DEF StageRejects, GroupSettled, GroupMembers
      <3>3. PICK v \in Workspaces : Level[v] = group /\ task[stage][v] = "rejected"
        BY <2>2 DEF StageRejects, GroupFailed, GroupMembers
      <3> QED  BY <1>3, <1>6, <3>1, <3>2, <3>3 DEF Settled
    <2> QED  BY <2>1, <2>2
  <1> QED  BY <1>1, <1>2, <1>4, <1>5, <1>6

\* What there is to the guarantee of the docs: a packed workspace misses its
\* postpack, or its postpublish, only when that script failed in an earlier
\* topological group (the two finally blocks of publishPackages and the rethrow
\* in lifecycleExecutor.ts).
THEOREM CleanupMissedJustly == Spec => []CleanupMissedOnlyBehindFailure
  <1>1. Init => CleanupAccounted
    BY DEF Init, CleanupAccounted
  <1>2. Order /\ CleanupAccounted /\ [Next]_vars => CleanupAccounted'
    <2> SUFFICES ASSUME Order, CleanupAccounted, [Next]_vars
                 PROVE  CleanupAccounted'
      OBVIOUS
    <2>1. ASSUME NEW u \in Workspaces, TaskStep(u)
          PROVE  CleanupAccounted'
      <3>1. stage # Ended /\ UNCHANGED stage /\ stage \in StageIds
        BY <2>1 DEF TaskStep, StartTask, ScriptSucceeds, ScriptFails, SkipUpload, PackFails,
             QueueUpload, StartUpload, UploadAccepted, UploadRefused, UploadUnanswered,
             Order, TypeOK
      <3>2. \E state : Become(u, state)
        BY <2>1 DEF TaskStep, StartTask, ScriptSucceeds, ScriptFails, SkipUpload, PackFails,
             QueueUpload, StartUpload, UploadAccepted, UploadRefused, UploadUnanswered
      <3>3. \A s \in StageIds : s # stage => task'[s] = task[s]
        BY <3>1, <3>2 DEF Become, Order, TypeOK
      <3> QED  BY <3>1, <3>3 DEF CleanupAccounted
    <2>2. CASE NextGroup \/ UNCHANGED vars
      BY <2>2 DEF NextGroup, vars, CleanupAccounted
    <2>3. CASE StageResolves \/ StageRejects
      BY <2>3, LeavingAccounts
    <2> QED  BY <2>1, <2>2, <2>3 DEF Next, ExecutorStep, Terminated
  <1>3. CleanupAccounted => CleanupMissedOnlyBehindFailure
    BY DEF CleanupAccounted, CleanupMissedOnlyBehindFailure
  <1> QED  BY <1>1, <1>2, <1>3, OrderHolds, PTL DEF Spec

-----------------------------------------------------------------------------
(* The contract. *)

LEMMA InitContract ==
    ASSUME Init
    PROVE  Contract!Init
  BY DEF Init, Contract!Init

LEMMA TaskStepContract ==
    ASSUME Order, NEW w \in Workspaces, TaskStep(w)
    PROVE  [Contract!Next]_Contract!vars
  <1>1. UNCHANGED <<stage, thrown>>
    BY DEF TaskStep, StartTask, ScriptSucceeds, ScriptFails, SkipUpload, PackFails,
           QueueUpload, StartUpload, UploadAccepted, UploadRefused, UploadUnanswered
  <1>2. CASE UploadAccepted(w) \/ UploadUnanswered(w)
    <2>1. stage = Pack /\ task[Pack][w] = "uploading" /\ registry' = registry \cup {w}
      BY <1>2 DEF UploadAccepted, UploadUnanswered
    <2>2. w \in ToUpload /\ w \notin registry
      BY <2>1 DEF Order, RegistryMatches, Settled
    <2>3. Contract!Accept(w)
      BY <1>1, <2>1, <2>2 DEF Contract!Accept
    <2> QED  BY <2>2, <2>3 DEF Contract!Next
  <1>3. CASE ~(UploadAccepted(w) \/ UploadUnanswered(w))
    <2>1. UNCHANGED registry
      BY <1>3 DEF TaskStep, StartTask, ScriptSucceeds, ScriptFails, SkipUpload,
                  PackFails, QueueUpload, StartUpload, UploadRefused
    <2> QED  BY <1>1, <2>1 DEF Contract!vars
  <1> QED  BY <1>2, <1>3

LEMMA ExecutorStepContract ==
    ASSUME Order, ResolvedMeansEverything', ExecutorStep
    PROVE  [Contract!Next]_Contract!vars
  <1>1. UNCHANGED registry /\ stage \in StageIds
    <2>1. UNCHANGED registry /\ stage # Ended
      BY DEF ExecutorStep, NextGroup, StageResolves, StageRejects
    <2> QED  BY <2>1 DEF Order, TypeOK
  <1>2. CASE NextGroup
    BY <1>2 DEF NextGroup, Contract!vars
  <1>3. CASE StageResolves
    <2>1. stage' = stage + 1 /\ UNCHANGED thrown
      BY <1>3 DEF StageResolves, StageAfter
    <2>2. CASE stage < Prepack \/ stage \in {Pack, Postpack}
      BY <1>1, <2>1, <2>2 DEF Contract!vars
    <2>3. CASE stage = Prepack
      BY <1>1, <2>1, <2>3 DEF Contract!Next, Contract!Begin
    <2>4. CASE stage = Postpublish /\ thrown = {}
      <3>1. registry' = ToUpload'
        BY <2>1, <2>4 DEF ResolvedMeansEverything
      <3> QED  BY <1>1, <2>1, <2>4, <3>1 DEF Contract!Next, Contract!Resolve, ToUpload
    <2>5. CASE stage = Postpublish /\ thrown # {}
      BY <1>1, <2>1, <2>5 DEF Contract!Next, Contract!Reject
    <2> QED  BY <1>1, <2>2, <2>3, <2>4, <2>5
  <1>4. CASE StageRejects
    <2>1. stage' = IF stage < Pack THEN Ended ELSE stage + 1
      BY <1>4 DEF StageRejects, StageAfter
    <2>2. thrown' # {}
      BY <1>4 DEF StageRejects
    <2>3. CASE stage < Pack \/ stage = Postpublish
      BY <1>1, <2>1, <2>2, <2>3 DEF Contract!Next, Contract!Reject
    <2>4. CASE stage \in {Pack, Postpack}
      BY <1>1, <2>1, <2>4 DEF Contract!vars
    <2> QED  BY <1>1, <2>3, <2>4
  <1> QED  BY <1>2, <1>3, <1>4 DEF ExecutorStep

\* publishPackages implements its contract: every step of the stages is a step
\* of the contract or changes nothing its caller sees.
THEOREM StagesImplementContract == Spec => ImplementsContract
  <1>1. Init => Contract!Init
    BY InitContract
  <1>2. Order => ResolvedMeansEverything
    BY OrderResolved
  <1>3. Order /\ ResolvedMeansEverything' /\ [Next]_vars => [Contract!Next]_Contract!vars
    <2>1. CASE UNCHANGED vars
      BY <2>1 DEF vars, Contract!vars
    <2> QED  BY <2>1, TaskStepContract, ExecutorStepContract DEF Next, Terminated
  <1> QED  BY <1>1, <1>2, <1>3, OrderHolds, PTL DEF Spec, ImplementsContract, Contract!Spec

-----------------------------------------------------------------------------
(* The call comes to an end: no state is stuck, and every step uses up work. *)

\* Only packing waits for a write slot.
OnlyPackUploads ==
    \A s \in StageIds, w \in Workspaces : task[s][w] \in {"queued", "uploading"} => s = Pack

\* Outside a finished call somebody can always take a step: the guard of an
\* action of a callback, or of the executor, is true.
SomebodyCanStep ==
    stage # Ended =>
        \/ \E w \in GroupMembers : task[stage][w] = "idle" /\ Cardinality(Running) < JobSlots
        \/ \E w \in Workspaces : task[stage][w] = "running"
        \/ \E w \in Workspaces : /\ stage = Pack /\ task[Pack][w] = "queued"
                                 /\ Cardinality(Uploading) < WriteSlots
        \/ \E w \in Workspaces : stage = Pack /\ task[Pack][w] = "uploading"
        \/ GroupSettled

\* What one callback still has to go through: start, queue, upload, settle.
StepsLeft(state) ==
    CASE state = "idle"      -> 1..4
      [] state = "running"   -> 1..3
      [] state = "queued"    -> 1..2
      [] state = "uploading" -> {1}
      [] state \in Settled   -> {}

CallbacksLeft ==
    {c \in (StageIds \X Workspaces) \X (1..4) :
        c[2] \in StepsLeft(task[c[1][1]][c[1][2]])}

GroupsLeft ==
    {c \in StageIds \X (1..Depth) : c[1] > stage \/ (c[1] = stage /\ c[2] >= group)}

WorkLeft == Cardinality(CallbacksLeft) + Cardinality(GroupsLeft)

LEMMA OnlyPackUploadsHolds == Spec => []OnlyPackUploads
  <1>1. Init => OnlyPackUploads
    BY DEF Init, OnlyPackUploads
  <1>2. Order /\ OnlyPackUploads /\ [Next]_vars => OnlyPackUploads'
    <2> SUFFICES ASSUME Order, OnlyPackUploads, [Next]_vars
                 PROVE  OnlyPackUploads'
      OBVIOUS
    <2> USE DEF OnlyPackUploads, Order, TypeOK
    <2>1. ASSUME NEW w \in Workspaces, TaskStep(w)
          PROVE  OnlyPackUploads'
      <3>1. PICK state \in TaskStates : /\ Become(w, state)
                                        /\ state \in {"queued", "uploading"} => stage = Pack
        BY <2>1 DEF TaskStep, StartTask, ScriptSucceeds, ScriptFails, SkipUpload, PackFails,
             QueueUpload, StartUpload, UploadAccepted, UploadRefused, UploadUnanswered,
             TaskStates, Active, Settled
      <3>2. \A s \in StageIds, v \in Workspaces :
               task'[s][v] = IF s = stage /\ v = w THEN state ELSE task[s][v]
        BY <3>1 DEF Become
      <3> QED  BY <3>1, <3>2
    <2>2. CASE ExecutorStep \/ Terminated \/ UNCHANGED vars
      BY <2>2 DEF ExecutorStep, NextGroup, StageResolves, StageRejects, Terminated, vars
    <2> QED  BY <2>1, <2>2 DEF Next
  <1> QED  BY <1>1, <1>2, OrderHolds, PTL DEF Spec

LEMMA SlotsAreNumbers == JobSlots \in Nat /\ WriteSlots \in Nat
  <1>1. Cardinality(Workspaces) \in Nat
    BY StagesAssumption, FS_CardinalityType
  <1> QED  BY <1>1, StagesAssumption DEF JobSlots, WriteSlots

LEMMA NoOne == Cardinality({}) = 0
  BY FS_EmptySet

\* Neither limiter, nor the two of them nested, ever blocks the call for good
\* (pack holds its slot of limit while it waits for limitPublish; pack.ts, lines 63-74).
THEOREM NeverStuck == Spec => []SomebodyCanStep
  <1>1. Order /\ OnlyPackUploads => SomebodyCanStep
    <2> SUFFICES ASSUME Order, OnlyPackUploads, stage # Ended, ~GroupSettled, ~SomebodyCanStep
                 PROVE  FALSE
      BY DEF SomebodyCanStep
    <2>1. stage \in StageIds
      BY DEF Order, TypeOK
    <2>2. PICK w \in GroupMembers : task[stage][w] \notin Settled
      BY DEF GroupSettled
    <2>3. w \in Workspaces
      BY DEF GroupMembers
    <2>4. JobSlots \in Nat /\ JobSlots >= 1
      <3>1. Cardinality(Workspaces) \in Nat /\ Cardinality(Workspaces) # 0
        BY <2>3, StagesAssumption, FS_CardinalityType, FS_EmptySet
      <3> QED  BY <3>1, StagesAssumption, SlotsAreNumbers DEF JobSlots
    <2>5. WriteSlots \in Nat /\ WriteSlots >= 1
      BY StagesAssumption, SlotsAreNumbers DEF WriteSlots
    <2>6. Running # {}
      <3>1. CASE task[stage][w] = "idle"
        <4>1. ~(Cardinality(Running) < JobSlots)
          BY <3>1 DEF SomebodyCanStep
        <4> QED  BY <2>4, <4>1, NoOne
      <3>2. CASE task[stage][w] # "idle"
        BY <2>1, <2>2, <2>3, <3>2 DEF Running, Order, TypeOK, TaskStates
      <3> QED  BY <3>1, <3>2
    <2>7. PICK v \in Workspaces : task[stage][v] \in Active
      BY <2>6 DEF Running
    <2>8. task[stage][v] \in {"queued", "uploading"}
      BY <2>7 DEF SomebodyCanStep, Active
    <2>9. stage = Pack
      BY <2>1, <2>8 DEF OnlyPackUploads
    <2>10. task[Pack][v] = "queued" /\ Uploading = {}
      BY <2>8, <2>9 DEF SomebodyCanStep, Uploading
    <2> QED  BY <2>5, <2>9, <2>10, NoOne DEF SomebodyCanStep
  <1> QED  BY <1>1, OrderHolds, OnlyPackUploadsHolds, PTL

\* The work is finite, whatever the sizes.
LEMMA WorkIsFinite ==
    /\ IsFiniteSet(CallbacksLeft) /\ Cardinality(CallbacksLeft) \in Nat
    /\ IsFiniteSet(GroupsLeft) /\ Cardinality(GroupsLeft) \in Nat
  <1>1. IsFiniteSet(StageIds) /\ IsFiniteSet(1..4) /\ IsFiniteSet(1..Depth)
    <2>1. \A b \in Nat : IsFiniteSet(1..b)
      BY FS_Interval
    <2> QED  BY <2>1, StagesAssumption
  <1>2. IsFiniteSet(StageIds \X (1..Depth))
    BY <1>1, FS_Product
  <1>3. IsFiniteSet((StageIds \X Workspaces) \X (1..4))
    BY <1>1, StagesAssumption, FS_Product
  <1> QED  BY <1>2, <1>3, FS_Subset, FS_CardinalityType DEF CallbacksLeft, GroupsLeft

LEMMA FewerLeft ==
    ASSUME NEW S, NEW T, IsFiniteSet(S), T \subseteq S, T # S
    PROVE  /\ IsFiniteSet(T) /\ Cardinality(T) \in Nat /\ Cardinality(S) \in Nat
           /\ Cardinality(T) < Cardinality(S)
  <1>1. IsFiniteSet(T) /\ Cardinality(T) <= Cardinality(S) /\ Cardinality(T) # Cardinality(S)
    BY FS_Subset
  <1> QED  BY <1>1, FS_CardinalityType

LEMMA CallbackUsesWork ==
    ASSUME TypeOK, NEW w \in Workspaces, TaskStep(w)
    PROVE  GroupsLeft' = GroupsLeft /\ CallbacksLeft' \subseteq CallbacksLeft
           /\ CallbacksLeft' # CallbacksLeft
  <1>1. UNCHANGED <<stage, group>>
    BY DEF TaskStep, StartTask, ScriptSucceeds, ScriptFails, SkipUpload, PackFails,
           QueueUpload, StartUpload, UploadAccepted, UploadRefused, UploadUnanswered
  <1>2. PICK state \in TaskStates :
           /\ stage \in StageIds /\ Become(w, state)
           /\ \/ task[stage][w] = "idle" /\ state = "running"
              \/ task[stage][w] = "running" /\ state \in {"queued"} \cup Settled
              \/ task[stage][w] = "queued" /\ state = "uploading"
              \/ task[stage][w] = "uploading" /\ state \in Settled
    BY DEF TaskStep, StartTask, ScriptSucceeds, ScriptFails, SkipUpload, PackFails,
           QueueUpload, StartUpload, UploadAccepted, UploadRefused, UploadUnanswered,
           TaskStates, Active, Settled, TypeOK
  <1>3. \A s \in StageIds, v \in Workspaces :
           task'[s][v] = IF s = stage /\ v = w THEN state ELSE task[s][v]
    BY <1>2 DEF Become, TypeOK
  <1>4. PICK k \in 1..4 : /\ StepsLeft(state) \subseteq StepsLeft(task[stage][w])
                          /\ k \in StepsLeft(task[stage][w]) \ StepsLeft(state)
    BY <1>2 DEF StepsLeft, Settled
  <1>5. \A s \in StageIds, v \in Workspaces :
           StepsLeft(task'[s][v]) \subseteq StepsLeft(task[s][v])
    BY <1>3, <1>4
  <1>6. CallbacksLeft' \subseteq CallbacksLeft
    <2> SUFFICES ASSUME NEW c \in (StageIds \X Workspaces) \X (1..4),
                        c[2] \in StepsLeft(task'[c[1][1]][c[1][2]])
                 PROVE  c[2] \in StepsLeft(task[c[1][1]][c[1][2]])
      BY DEF CallbacksLeft, StepsLeft
    <2> QED  BY <1>5
  <1>7. <<<<stage, w>>, k>> \in CallbacksLeft
    BY <1>2, <1>4 DEF CallbacksLeft
  <1>8. <<<<stage, w>>, k>> \notin CallbacksLeft'
    BY <1>2, <1>3, <1>4 DEF CallbacksLeft, StepsLeft
  <1>9. GroupsLeft' = GroupsLeft
    BY <1>1 DEF GroupsLeft
  <1> QED  BY <1>6, <1>7, <1>8, <1>9

LEMMA ExecutorUsesWork ==
    ASSUME TypeOK, ExecutorStep
    PROVE  CallbacksLeft' = CallbacksLeft /\ GroupsLeft' \subseteq GroupsLeft
           /\ GroupsLeft' # GroupsLeft
  <1>1. UNCHANGED task /\ stage \in StageIds /\ group \in 1..Depth /\ Depth \in Nat
    <2>1. UNCHANGED task /\ stage # Ended
      BY DEF ExecutorStep, NextGroup, StageResolves, StageRejects
    <2> QED  BY <2>1, StagesAssumption DEF TypeOK
  <1>2. \/ stage' = stage /\ group' = group + 1
        \/ stage' \in {stage + 1, Ended} /\ stage' > stage /\ group' = 1
    BY <1>1 DEF ExecutorStep, NextGroup, StageResolves, StageRejects, StageAfter
  <1>3. CallbacksLeft' = CallbacksLeft
    BY <1>1 DEF CallbacksLeft, StepsLeft
  <1>4. GroupsLeft' \subseteq GroupsLeft
    BY <1>1, <1>2 DEF GroupsLeft
  <1>5. <<stage, group>> \in GroupsLeft /\ <<stage, group>> \notin GroupsLeft'
    BY <1>1, <1>2 DEF GroupsLeft
  <1> QED  BY <1>3, <1>4, <1>5

\* Every step of a call uses up some of a finite amount of work: however scripts
\* and uploads turn out, no retry, no group and no stage is gone through for ever.
THEOREM EveryStepUsesWork ==
    Spec => [](WorkLeft \in Nat) /\ [][WorkLeft' < WorkLeft]_vars
  <1>1. WorkLeft \in Nat
    BY WorkIsFinite DEF WorkLeft
  <1>2. TypeOK /\ [Next]_vars => [WorkLeft' < WorkLeft]_vars
    <2> SUFFICES ASSUME TypeOK, Next, vars' # vars
                 PROVE  WorkLeft' < WorkLeft
      OBVIOUS
    <2>1. /\ IsFiniteSet(CallbacksLeft) /\ Cardinality(CallbacksLeft) \in Nat
          /\ IsFiniteSet(GroupsLeft) /\ Cardinality(GroupsLeft) \in Nat
      BY WorkIsFinite
    <2>2. ASSUME NEW w \in Workspaces, TaskStep(w)
          PROVE  WorkLeft' < WorkLeft
      <3>1. /\ GroupsLeft' = GroupsLeft
            /\ CallbacksLeft' \subseteq CallbacksLeft /\ CallbacksLeft' # CallbacksLeft
        BY <2>2, CallbackUsesWork
      <3>2. Cardinality(CallbacksLeft') \in Nat
            /\ Cardinality(CallbacksLeft') < Cardinality(CallbacksLeft)
        BY <2>1, <3>1, FewerLeft
      <3> QED  BY <2>1, <3>1, <3>2 DEF WorkLeft
    <2>3. CASE ExecutorStep
      <3>1. /\ CallbacksLeft' = CallbacksLeft
            /\ GroupsLeft' \subseteq GroupsLeft /\ GroupsLeft' # GroupsLeft
        BY <2>3, ExecutorUsesWork
      <3>2. Cardinality(GroupsLeft') \in Nat
            /\ Cardinality(GroupsLeft') < Cardinality(GroupsLeft)
        BY <2>1, <3>1, FewerLeft
      <3> QED  BY <2>1, <3>1, <3>2 DEF WorkLeft
    <2>4. ~Terminated
      BY DEF Terminated
    <2> QED  BY <2>2, <2>3, <2>4 DEF Next
  <1> QED  BY <1>1, <1>2, TypeCorrect, PTL DEF Spec
==============================================================================
