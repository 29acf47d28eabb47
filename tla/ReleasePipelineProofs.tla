------------------------ MODULE ReleasePipelineProofs ------------------------
(***************************************************************************)
(* Proofs about ReleasePipeline, for every number of runners, packages,    *)
(* commits, faults and runs, and every configuration: what runs push, then *)
(* what they release: the dependents that follow, the versions they get,   *)
(* the changes they ship and the changes that cause them.  At the end, the *)
(* runs implement ReleaseContract, and each of them has finite work to do. *)
(***************************************************************************)
EXTENDS ReleasePipeline, ReleasePlanProofs

-----------------------------------------------------------------------------
(* Helpers. *)

\* Fetching or pushing tags takes them from the other side.
LEMMA AdoptableIsTaken ==
    ASSUME NEW from, NEW into
    PROVE  Adoptable(from, into) \subseteq from
  BY DEF Adoptable

\* Versions are planned for packages whose dist-tag was read, and only those.
LEMMA PlannedWasSeen ==
    ASSUME NEW strategies, NEW tagged
    PROVE  DOMAIN NextVersions(strategies, tagged) \subseteq DOMAIN tagged
  BY DEF NextVersions

\* A release tag stands for planned packages, at their planned version.
LEMMA TagsStandForPlan ==
    ASSUME NEW planned, NEW at, NEW by, NEW t \in TagsOf(planned, at, by)
    PROVE  \A p \in t.pkgs : p \in DOMAIN planned /\ planned[p] = t.version
  BY DEF TagsOf

-----------------------------------------------------------------------------
(* Types. *)

Commit == [id : Nat, dev : BOOLEAN, level : Levels, touches : SUBSET Packages]

LEMMA InitType ==
    ASSUME Init
    PROVE  TypeOK
  <1> USE PipelineAssumption, PlanAssumption DEF Init
  <1>1. DevCommit(1, "none", Packages) \in Commit
    BY DEF DevCommit, Commit, Levels
  <1>2. main \in Seq(Commit)
    BY <1>1
  <1>3. \A t \in remoteTags : t.pkgs \subseteq Public
    BY DEF FirstTags
  <1>4. /\ \A e \in registry : e.pkg \in Public
        /\ DOMAIN latest = Public
    OBVIOUS
  <1>5. config \in [Runners -> Configs]
    OBVIOUS
  <1>6. /\ base \in [Runners -> Nat] /\ own \in [Runners -> Nat]
        /\ commitSha \in [Runners -> Nat]
        /\ DOMAIN tags = Runners /\ DOMAIN seen = Runners /\ DOMAIN plan = Runners
        /\ attempted \in [Runners -> SUBSET Public]
    OBVIOUS
  <1>7. /\ pc \in [Runners -> {"idle", "ended"} \cup Steps]
        /\ outcome \in [Runners -> Outcomes]
    BY DEF Outcomes
  <1>8. \A r \in Runners : /\ \A t \in tags[r] : t.pkgs \subseteq Public
                           /\ DOMAIN seen[r] \subseteq Public
                           /\ DOMAIN plan[r] \subseteq Public
                           /\ attempted[r] \subseteq DOMAIN plan[r]
    OBVIOUS
  <1>9. /\ lastId \in Nat /\ faults \in 0..MaxFaults
        /\ runs \in [Runners -> 0..MaxRuns] /\ raced \subseteq Nat
    OBVIOUS
  <1> QED  BY <1>2, <1>3, <1>4, <1>5, <1>6, <1>7, <1>8, <1>9 DEF TypeOK, Commit

LEMMA DeveloperPushesType ==
    ASSUME TypeOK, DeveloperPushes
    PROVE  TypeOK'
  <1> USE DEF DeveloperPushes, copy, memory, counters
  <1>1. PICK c \in DevCommits : main' = Append(main, DevCommit(lastId', c[1], c[2]))
    OBVIOUS
  <1>2. lastId' \in Nat
    BY DEF TypeOK
  <1>3. DevCommit(lastId', c[1], c[2]) \in Commit
    BY <1>2, PipelineAssumption DEF DevCommit, Commit
  <1>4. main' \in Seq(Commit)
    BY <1>1, <1>3 DEF TypeOK, Commit
  <1> QED  BY <1>2, <1>4 DEF TypeOK, Commit

LEMMA StartType ==
    ASSUME TypeOK, NEW r \in Runners, Start(r)
    PROVE  TypeOK'
  <1> USE DEF Start, shared, rest, ClearMemory, GoTo, Report, TypeOK
  <1>1. Len(main) \in Nat
    OBVIOUS
  <1>2. \A t \in tags'[r] : t.pkgs \subseteq Public
    BY AdoptableIsTaken
  <1>3. runs' \in [Runners -> 0..MaxRuns]
    BY PipelineAssumption
  <1>4. /\ base' \in [Runners -> Nat] /\ own' \in [Runners -> Nat]
        /\ commitSha' \in [Runners -> Nat]
        /\ attempted' \in [Runners -> SUBSET Public]
        /\ DOMAIN tags' = Runners /\ DOMAIN seen' = Runners /\ DOMAIN plan' = Runners
    BY <1>1
  <1>5. /\ pc' \in [Runners -> {"idle", "ended"} \cup Steps]
        /\ outcome' \in [Runners -> Outcomes]
    BY DEF Steps, Outcomes
  <1>6. \A q \in Runners : /\ \A t \in tags'[q] : t.pkgs \subseteq Public
                           /\ DOMAIN seen'[q] \subseteq Public
                           /\ DOMAIN plan'[q] \subseteq Public
                           /\ attempted'[q] \subseteq DOMAIN plan'[q]
    BY <1>2
  <1> QED  BY <1>3, <1>4, <1>5, <1>6

LEMMA ReadType ==
    ASSUME TypeOK, NEW r \in Runners, NEW p \in Public, NEW v, Saw(r, p, v),
           UNCHANGED <<shared, copy, commitSha, plan, attempted, pc, outcome, runs, rest>>,
           faults' \in 0..MaxFaults
    PROVE  TypeOK'
  <1> USE DEF Saw, shared, copy, rest, TypeOK
  <1>1. DOMAIN seen' = Runners /\ \A q \in Runners : DOMAIN seen'[q] \subseteq Public
    OBVIOUS
  <1> QED  BY <1>1

\* What a run plans.
LEMMA PlanIsMade ==
    ASSUME NEW r \in Runners, Plan(r)
    PROVE  /\ pc[r] = "planning" /\ GoTo(r, "preparing")
           /\ plan' = [plan EXCEPT ![r] =
                           NextVersions(MergedStrategies(CommitsToRelease(r)), seen[r])]
           /\ UNCHANGED <<shared, copy, commitSha, seen, attempted, outcome, counters, rest>>
  <1>1. PICK versions \in {NextVersions(MergedStrategies(CommitsToRelease(r)), seen[r])} :
            plan' = [plan EXCEPT ![r] = versions]
    BY DEF Plan
  <1> QED  BY <1>1 DEF Plan

LEMMA PlanType ==
    ASSUME TypeOK, NEW r \in Runners, attempted[r] = {}, Plan(r)
    PROVE  TypeOK'
  <1> USE PlanIsMade DEF shared, copy, counters, rest, TypeOK
  <1>1. DOMAIN plan'[r] \subseteq Public
    BY PlannedWasSeen
  <1>2. DOMAIN plan' = Runners /\ \A q \in Runners : q # r => plan'[q] = plan[q]
    OBVIOUS
  <1>3. pc' \in [Runners -> {"idle", "ended"} \cup Steps]
    BY DEF GoTo, Steps
  <1> QED  BY <1>1, <1>2, <1>3

\* Going to a step, reporting a result and having a fault are well typed.
LEMMA ControlType ==
    ASSUME TypeOK, NEW r \in Runners
    PROVE  /\ \A step \in Steps \cup {"ended"} :
                 GoTo(r, step) => pc' \in [Runners -> {"idle", "ended"} \cup Steps]
           /\ \A result \in Outcomes :
                 Report(r, result) => outcome' \in [Runners -> Outcomes]
           /\ Fault => faults' \in 0..MaxFaults /\ UNCHANGED runs
           /\ UNCHANGED counters => faults' \in 0..MaxFaults /\ UNCHANGED runs
  <1>1. ASSUME NEW step \in Steps \cup {"ended"}, GoTo(r, step)
        PROVE  pc' \in [Runners -> {"idle", "ended"} \cup Steps]
    BY <1>1 DEF TypeOK, GoTo
  <1>2. ASSUME NEW result \in Outcomes, Report(r, result)
        PROVE  outcome' \in [Runners -> Outcomes]
    BY <1>2 DEF TypeOK, Report
  <1>3. Fault => faults' \in 0..MaxFaults /\ UNCHANGED runs
    BY PipelineAssumption DEF TypeOK, Fault
  <1>4. UNCHANGED counters => faults' \in 0..MaxFaults /\ UNCHANGED runs
    BY DEF TypeOK, counters
  <1> QED  BY <1>1, <1>2, <1>3, <1>4

\* Steps that change nothing but where the run is and how it stands.
LEMMA MoveType ==
    ASSUME TypeOK, NEW r \in Runners,
           UNCHANGED <<shared, copy, memory, rest>>,
           \E step \in Steps \cup {"ended"} : GoTo(r, step),
           UNCHANGED outcome \/ \E result \in Outcomes : Report(r, result),
           Fault \/ UNCHANGED counters
    PROVE  TypeOK'
  <1>1. /\ pc' \in [Runners -> {"idle", "ended"} \cup Steps]
        /\ outcome' \in [Runners -> Outcomes]
        /\ faults' \in 0..MaxFaults /\ UNCHANGED runs
    BY ControlType DEF TypeOK
  <1> QED  BY <1>1 DEF TypeOK, shared, copy, memory, rest

LEMMA MakeTagsType ==
    ASSUME TypeOK, NEW r \in Runners, MakeTags(r)
    PROVE  TypeOK'
  <1>1. UNCHANGED <<shared, base, own, memory, rest>>
    BY DEF MakeTags
  <1>2. pc' \in [Runners -> {"idle", "ended"} \cup Steps]
    <2>1. \E step \in {"committing", "validating"} : GoTo(r, step)
      BY DEF MakeTags
    <2> QED  BY <2>1, ControlType DEF Steps
  <1>3. /\ outcome' \in [Runners -> Outcomes]
        /\ faults' \in 0..MaxFaults /\ UNCHANGED runs
        /\ DOMAIN tags' = Runners
        /\ \A q \in Runners : \A t \in tags'[q] : t.pkgs \subseteq Public
    <2>1. CASE UNCHANGED <<tags, outcome, counters>>
      BY <2>1, ControlType DEF TypeOK
    <2>2. CASE CreateTags(r)
      <3> DEFINE wanted == TagsOf(plan[r], HeadOf(r), <<r, runs[r]>>)
                 free   == Adoptable(wanted, tags[r])
      <3>1. \A t \in free : t.pkgs \subseteq Public
        BY AdoptableIsTaken, TagsStandForPlan DEF TypeOK
      <3>2. PICK made \in SUBSET free :
               /\ tags' = [tags EXCEPT ![r] = @ \cup made]
               /\ Fault \/ UNCHANGED counters
               /\ UNCHANGED outcome \/ Report(r, "errors")
        BY <2>2 DEF CreateTags
      <3>3. outcome' \in [Runners -> Outcomes] /\ faults' \in 0..MaxFaults /\ UNCHANGED runs
        BY <3>2, ControlType DEF TypeOK, Outcomes
      <3> HIDE DEF free
      <3> QED  BY <3>1, <3>2, <3>3 DEF TypeOK
    <2> QED  BY <2>1, <2>2 DEF MakeTags
  <1> QED  BY <1>1, <1>2, <1>3 DEF TypeOK, shared, memory, rest

LEMMA CommitFilesType ==
    ASSUME TypeOK, NEW r \in Runners, CommitFiles(r)
    PROVE  TypeOK'
  <1>1. pc' \in [Runners -> {"idle", "ended"} \cup Steps]
    BY ControlType DEF CommitFiles, Steps
  <1>2. lastId' \in Nat /\ own' \in [Runners -> Nat]
    <2>1. \/ lastId' = lastId + 1 /\ own' = [own EXCEPT ![r] = lastId']
          \/ UNCHANGED <<lastId, own>>
      BY DEF CommitFiles
    <2> QED  BY <2>1 DEF TypeOK
  <1> QED  BY <1>1, <1>2 DEF CommitFiles, TypeOK, shared, memory, counters

LEMMA PullRebaseType ==
    ASSUME TypeOK, NEW r \in Runners, PullRebase(r)
    PROVE  TypeOK'
  <1>1. pc' \in [Runners -> {"idle", "ended"} \cup Steps]
    BY ControlType DEF PullRebase, Steps
  <1>2. UNCHANGED <<shared, own, memory, config, outcome, lastId, counters>>
    BY DEF PullRebase
  <1>3. /\ base' \in [Runners -> Nat] /\ DOMAIN tags' = Runners
        /\ \A q \in Runners : \A t \in tags'[q] : t.pkgs \subseteq Public
        /\ raced' \subseteq Nat
    <2>1. CASE UNCHANGED <<base, tags, raced>>
      BY <2>1 DEF TypeOK
    <2>2. CASE ~UNCHANGED <<base, tags, raced>>
      <3> DEFINE received == {main[i].id : i \in (base[r] + 1)..Len(main)}
                 fetched  == Adoptable({t \in remoteTags : t.at \in received}, tags[r])
      <3>1. /\ base' = [base EXCEPT ![r] = Len(main)]
            /\ tags' = [tags EXCEPT ![r] = @ \cup fetched]
            /\ raced' \in {raced, raced \cup received}
        BY <2>2 DEF PullRebase
      <3>2. received \subseteq Nat
        <4> SUFFICES ASSUME NEW i \in (base[r] + 1)..Len(main) PROVE main[i].id \in Nat
          OBVIOUS
        <4>1. base[r] \in Nat /\ Len(main) \in Nat
          BY DEF TypeOK
        <4>2. i \in 1..Len(main)
          BY <4>1
        <4>3. main \in Seq(Commit)
          BY DEF TypeOK, Commit
        <4>4. main[i] \in Commit
          BY <4>2, <4>3
        <4> QED  BY <4>4 DEF Commit
      <3>3. \A t \in fetched : t.pkgs \subseteq Public
        BY AdoptableIsTaken DEF TypeOK
      <3> HIDE DEF received, fetched
      <3>4. Len(main) \in Nat
        BY DEF TypeOK
      <3> QED  BY <3>1, <3>2, <3>3, <3>4 DEF TypeOK
    <2> QED  BY <2>1, <2>2
  <1> QED  BY <1>1, <1>2, <1>3 DEF TypeOK, shared, memory, counters

LEMMA AttemptType ==
    ASSUME TypeOK, NEW r \in Runners, NEW p \in Public, Attempts(r, p),
           Stores(r, p) \/ UNCHANGED <<registry, latest>>,
           UNCHANGED <<main, remoteTags, copy, commitSha, seen, plan, pc, rest>>,
           UNCHANGED outcome \/ Report(r, "failed"),
           Fault \/ UNCHANGED counters
    PROVE  TypeOK'
  <1>1. /\ outcome' \in [Runners -> Outcomes]
        /\ faults' \in 0..MaxFaults /\ UNCHANGED runs
    BY ControlType DEF TypeOK, Outcomes
  <1>2. /\ attempted' \in [Runners -> SUBSET Public]
        /\ \A q \in Runners : attempted'[q] \subseteq DOMAIN plan[q]
    BY DEF Attempts, TypeOK
  <1>3. (\A e \in registry' : e.pkg \in Public) /\ DOMAIN latest' = Public
    BY DEF Stores, TypeOK
  <1> QED  BY <1>1, <1>2, <1>3 DEF TypeOK, copy, rest

LEMMA PushBranchType ==
    ASSUME TypeOK, NEW r \in Runners, PushBranch(r) \/ PushBranchUnanswered(r)
    PROVE  TypeOK'
  <1>1. /\ pc' \in [Runners -> {"idle", "ended"} \cup Steps]
        /\ outcome' \in [Runners -> Outcomes]
        /\ faults' \in 0..MaxFaults /\ UNCHANGED runs
    BY ControlType DEF PushBranch, PushBranchUnanswered, Throws, Steps, Outcomes, TypeOK
  <1>2. UNCHANGED <<memory, rest>>
    BY DEF PushBranch, PushBranchUnanswered
  <1>3. CASE BranchPushed(r)
    <2>1. PublishCommit(r) \in Commit
      <3>1. "none" \in Levels /\ own[r] \in Nat /\ DOMAIN plan[r] \in SUBSET Packages
        BY DEF Levels, TypeOK, Public
      <3> QED  BY <3>1 DEF PublishCommit, Commit
    <2>2. main' \in Seq(Commit)
      <3>1. main \in Seq(Commit)
        BY DEF TypeOK, Commit
      <3>2. main' = main \/ main' = Append(main, PublishCommit(r))
        BY <1>3 DEF BranchPushed
      <3> QED  BY <2>1, <3>1, <3>2
    <2>3. base' \in [Runners -> Nat] /\ own' \in [Runners -> Nat]
      BY <1>3, <2>2 DEF BranchPushed, TypeOK
    <2> QED  BY <1>1, <1>2, <1>3, <2>2, <2>3 DEF BranchPushed, TypeOK, memory, rest, Commit
  <1>4. CASE UNCHANGED <<shared, copy>>
    BY <1>1, <1>2, <1>4 DEF TypeOK, shared, copy, memory, rest
  <1> QED  BY <1>3, <1>4 DEF PushBranch, PushBranchUnanswered

LEMMA PushTagsType ==
    ASSUME TypeOK, NEW r \in Runners, PushTags(r) \/ PushTagsBreaks(r)
    PROVE  TypeOK'
  <1>1. /\ pc' \in [Runners -> {"idle", "ended"} \cup Steps]
        /\ outcome' \in [Runners -> Outcomes]
        /\ faults' \in 0..MaxFaults /\ UNCHANGED runs
    BY ControlType DEF PushTags, PushTagsBreaks, Throws, Steps, Outcomes, TypeOK
  <1>2. UNCHANGED <<main, registry, latest, copy, memory, rest>>
    BY DEF PushTags, PushTagsBreaks
  <1>3. remoteTags' \subseteq remoteTags \cup tags[r]
    BY AdoptableIsTaken DEF PushTags, PushTagsBreaks
  <1>4. \A t \in remoteTags' : t.pkgs \subseteq Public
    BY <1>3 DEF TypeOK
  <1> QED  BY <1>1, <1>2, <1>4 DEF TypeOK, copy, memory, rest

-----------------------------------------------------------------------------
(* What a step of one run leaves alone, and the type invariant. *)

\* The variables of another run.
Untouched(q) ==
    /\ base'[q] = base[q] /\ own'[q] = own[q] /\ tags'[q] = tags[q]
    /\ commitSha'[q] = commitSha[q] /\ config'[q] = config[q]
    /\ plan'[q] = plan[q] /\ attempted'[q] = attempted[q]
    /\ pc'[q] = pc[q] /\ outcome'[q] = outcome[q]

\* Runs interfere only through the remote and the registry, and neither
\* forgets a tag or a version.
LEMMA OthersUntouched ==
    ASSUME TypeOK, NEW r \in Runners, Start(r) \/ Advance(r) \/ Misfortune(r)
    PROVE  /\ registry \subseteq registry' /\ remoteTags \subseteq remoteTags'
           /\ \A q \in Runners \ {r} : Untouched(q)
  <1> USE DEF TypeOK, Untouched, shared, copy, memory, counters, rest,
              GoTo, Report, Throws, Fault
  <1> DEFINE Goal == /\ registry \subseteq registry' /\ remoteTags \subseteq remoteTags'
                     /\ \A q \in Runners \ {r} : Untouched(q)
  <1>1. Start(r) => Goal
    BY DEF Start, ClearMemory
  <1>2. ASSUME NEW p \in Public, ReadTag(r, p) \/ ReadTagDenied(r, p)
        PROVE  Goal
    BY <1>2 DEF ReadTag, ReadTagDenied
  <1>3. AllRead(r) \/ PrepareFiles(r) \/ SkipPush(r) \/ Hooks(r) \/ PublishSettles(r) => Goal
    BY DEF AllRead, PrepareFiles, SkipPush, Hooks, PublishSettles
  <1>4. Plan(r) => Goal
    BY DEF Plan
  <1>5. MakeTags(r) => Goal
    <2>1. UNCHANGED tags \/ \E new : tags' = [tags EXCEPT ![r] = new]
          => \A q \in Runners \ {r} : tags'[q] = tags[q]
      OBVIOUS
    <2>2. ASSUME MakeTags(r)
          PROVE  /\ UNCHANGED tags \/ \E new : tags' = [tags EXCEPT ![r] = new]
                 /\ UNCHANGED outcome \/ \E new : outcome' = [outcome EXCEPT ![r] = new]
                 /\ \E new : pc' = [pc EXCEPT ![r] = new]
                 /\ UNCHANGED <<shared, base, own, memory, rest>>
      BY <2>2 DEF MakeTags, CreateTags
    <2> QED  BY <2>1, <2>2
  <1>6. CommitFiles(r) => Goal
    BY DEF CommitFiles
  <1>7. PullRebase(r) => Goal
    BY DEF PullRebase
  <1>8. ValidatePush(r) \/ Cleanup(r) => Goal
    BY DEF ValidatePush, Cleanup
  <1>9. ASSUME NEW p \in Public,
               \/ PackOnly(r, p) \/ Upload(r, p) \/ UploadConflicts(r, p)
               \/ UploadUnanswered(r, p) \/ UploadFails(r, p)
        PROVE  Goal
    BY <1>9 DEF PackOnly, Upload, UploadConflicts, UploadUnanswered, UploadFails, Attempts, Stores
  <1>10. PushBranch(r) \/ PushBranchUnanswered(r) => Goal
    BY DEF PushBranch, PushBranchUnanswered, BranchPushed
  <1>11. PushTags(r) \/ PushTagsBreaks(r) => Goal
    BY DEF PushTags, PushTagsBreaks
  <1>12. StepThrows(r) \/ EndsThrowing(r) \/ Crash(r) => Goal
    BY DEF StepThrows, EndsThrowing, Crash
  <1> QED  BY <1>1, <1>2, <1>3, <1>4, <1>5, <1>6, <1>7, <1>8, <1>9, <1>10, <1>11, <1>12
           DEF Advance, Misfortune

BeforeUploads == {"reading", "planning", "preparing", "tagging", "committing",
                  "pulling", "retagging", "validating"}

\* A run that has not begun to publish has tried no upload.
Unattempted == \A r \in Runners : pc[r] \in BeforeUploads => attempted[r] = {}

LEMMA RunStepType ==
    ASSUME TypeOK, Unattempted, NEW r \in Runners,
           Start(r) \/ Advance(r) \/ Misfortune(r)
    PROVE  TypeOK'
  <1> USE DEF Steps, StepsUnderTry, Outcomes, Throws
  <1>1. Start(r) => TypeOK'
    BY StartType
  <1>2. ASSUME NEW p \in Public, ReadTag(r, p)
        PROVE  TypeOK'
    <2>1. faults' \in 0..MaxFaults /\ UNCHANGED runs
      BY <1>2, ControlType DEF ReadTag
    <2> QED  BY <1>2, <2>1, ReadType DEF ReadTag
  <1>3. ASSUME NEW p \in Public, ReadTagDenied(r, p)
        PROVE  TypeOK'
    <2>1. faults' \in 0..MaxFaults /\ UNCHANGED runs
      BY <1>3, ControlType DEF ReadTagDenied
    <2> QED  BY <1>3, <2>1, ReadType DEF ReadTagDenied
  <1>4. Plan(r) => TypeOK'
    BY PlanType DEF Plan, Unattempted, BeforeUploads
  <1>5. AllRead(r) \/ PrepareFiles(r) \/ ValidatePush(r) \/ PublishSettles(r)
        \/ SkipPush(r) \/ Hooks(r) \/ Cleanup(r) => TypeOK'
    BY MoveType DEF AllRead, PrepareFiles, ValidatePush, PublishSettles, SkipPush, Hooks, Cleanup
  <1>6. MakeTags(r) => TypeOK'
    BY MakeTagsType
  <1>7. CommitFiles(r) => TypeOK'
    BY CommitFilesType
  <1>8. PullRebase(r) => TypeOK'
    BY PullRebaseType
  <1>9. ASSUME NEW p \in Public,
               \/ PackOnly(r, p) \/ Upload(r, p) \/ UploadConflicts(r, p)
               \/ UploadUnanswered(r, p) \/ UploadFails(r, p)
        PROVE  TypeOK'
    BY <1>9, AttemptType
       DEF PackOnly, Upload, UploadConflicts, UploadUnanswered, UploadFails, Attempts, shared
  <1>10. PushBranch(r) \/ PushBranchUnanswered(r) => TypeOK'
    BY PushBranchType
  <1>11. PushTags(r) \/ PushTagsBreaks(r) => TypeOK'
    BY PushTagsType
  <1>12. StepThrows(r) \/ EndsThrowing(r) \/ Crash(r) => TypeOK'
    BY MoveType DEF StepThrows, EndsThrowing, Crash
  <1> QED  BY <1>1, <1>2, <1>3, <1>4, <1>5, <1>6, <1>7, <1>8, <1>9, <1>10, <1>11, <1>12
           DEF Advance, Misfortune

LEMMA RunStepUnattempted ==
    ASSUME TypeOK, Unattempted, NEW r \in Runners,
           Start(r) \/ Advance(r) \/ Misfortune(r)
    PROVE  Unattempted'
  <1> USE DEF TypeOK, memory, BeforeUploads
  <1> DEFINE Goal == \/ attempted'[r] = {}
                     \/ attempted'[r] = attempted[r] /\ pc[r] \in BeforeUploads
                     \/ pc'[r] \notin BeforeUploads
  <1>1. Start(r) => Goal
    BY DEF Start, ClearMemory
  <1>2. ASSUME NEW p \in Public, ReadTag(r, p) \/ ReadTagDenied(r, p)
        PROVE  Goal
    BY <1>2 DEF ReadTag, ReadTagDenied
  <1>3. AllRead(r) \/ PrepareFiles(r) \/ Plan(r) => Goal
    BY DEF AllRead, PrepareFiles, Plan
  <1>4. MakeTags(r) \/ CommitFiles(r) \/ PullRebase(r) \/ ValidatePush(r) => Goal
    BY DEF MakeTags, CommitFiles, PullRebase, ValidatePush
  <1>5. ASSUME NEW p \in Public,
               \/ PackOnly(r, p) \/ Upload(r, p) \/ UploadConflicts(r, p)
               \/ UploadUnanswered(r, p) \/ UploadFails(r, p)
        PROVE  Goal
    BY <1>5 DEF PackOnly, Upload, UploadConflicts, UploadUnanswered, UploadFails, Attempts
  <1>6. PublishSettles(r) \/ SkipPush(r) \/ Hooks(r) \/ Cleanup(r) => Goal
    BY DEF PublishSettles, SkipPush, Hooks, Cleanup, GoTo
  <1>7. PushBranch(r) \/ PushBranchUnanswered(r) => Goal
    BY DEF PushBranch, PushBranchUnanswered, GoTo, Throws
  <1>8. PushTags(r) \/ PushTagsBreaks(r) => Goal
    BY DEF PushTags, PushTagsBreaks, GoTo, Throws
  <1>9. StepThrows(r) \/ EndsThrowing(r) \/ Crash(r) => Goal
    BY DEF StepThrows, EndsThrowing, Crash, GoTo, Throws
  <1>10. Goal
    BY <1>1, <1>2, <1>3, <1>4, <1>5, <1>6, <1>7, <1>8, <1>9 DEF Advance, Misfortune
  <1>11. \A q \in Runners \ {r} : Untouched(q)
    BY OthersUntouched
  <1> QED  BY <1>10, <1>11 DEF Unattempted, Untouched

Typed == TypeOK /\ Unattempted

LEMMA TypedHolds == Spec => []Typed
  <1>1. Init => Typed
    BY InitType DEF Init, Typed, Unattempted, BeforeUploads
  <1>2. Typed /\ [Next]_vars => Typed'
    <2>1. CASE UNCHANGED vars
      BY <2>1 DEF vars, shared, copy, memory, counters, rest, Typed, TypeOK, Unattempted
    <2>2. CASE DeveloperPushes
      BY <2>2, DeveloperPushesType
         DEF DeveloperPushes, Typed, Unattempted, memory, copy, counters
    <2>3. ASSUME Typed, NEW r \in Runners, Start(r) \/ Advance(r) \/ Misfortune(r)
          PROVE  Typed'
      BY <2>3, RunStepType, RunStepUnattempted DEF Typed
    <2> QED  BY <2>1, <2>2, <2>3 DEF Next
  <1> QED  BY <1>1, <1>2, PTL DEF Spec

\* Every variable keeps its type; in particular a run uploads planned packages
\* only, and plans only packages whose dist-tag it has read.
THEOREM PipelineTypeCorrect == Spec => []TypeOK
  <1>1. Typed => TypeOK
    BY DEF Typed
  <1> QED  BY <1>1, TypedHolds, PTL

-----------------------------------------------------------------------------
(* A run goes on to push when all of its plan is released. *)

LEMMA ReleasedIsKept ==
    ASSUME registry \subseteq registry'
    PROVE  /\ \A p, v : Released(p, v) => Released(p, v)'
           /\ \A t : IsReleased(t) => IsReleased(t)'
  BY DEF Released, IsReleased

\* Until an upload fails, what was tried is released, unless the run is dry.
UploadsTracked(r) ==
    /\ pc[r] = "publishing" /\ outcome[r] # "failed" /\ ~config[r].dryRun
          => \A p \in attempted[r] : Released(p, plan[r][p])
    /\ pc[r] \in {"pushing", "pushingTags"} /\ ~config[r].dryRun
          => \A p \in DOMAIN plan[r] : Released(p, plan[r][p])
    /\ pc[r] = "pushingTags" => ~config[r].dryRun

Tracked == \A r \in Runners : UploadsTracked(r)

LEMMA RunStepTracked ==
    ASSUME Typed, Tracked, NEW r \in Runners, Start(r) \/ Advance(r) \/ Misfortune(r)
    PROVE  UploadsTracked(r)'
  <1> USE DEF Typed, TypeOK, Tracked, UploadsTracked, Steps, memory, rest, GoTo, Throws
  <1>1. \A p, v : Released(p, v) => Released(p, v)'
    BY OthersUntouched, ReleasedIsKept
  <1>2. ASSUME pc'[r] \notin {"publishing", "pushing", "pushingTags"}
        PROVE  UploadsTracked(r)'
    BY <1>2
  <1>3. CASE Start(r)
    BY <1>2, <1>3 DEF Start
  <1>4. ASSUME NEW p \in Public, ReadTag(r, p) \/ ReadTagDenied(r, p)
        PROVE  UploadsTracked(r)'
    BY <1>2, <1>4 DEF ReadTag, ReadTagDenied
  <1>5. CASE AllRead(r) \/ Plan(r) \/ PrepareFiles(r) \/ CommitFiles(r) \/ PullRebase(r)
    BY <1>2, <1>5 DEF AllRead, Plan, PrepareFiles, CommitFiles, PullRebase
  <1>6. CASE MakeTags(r)
    BY <1>2, <1>6 DEF MakeTags
  <1>7. CASE ValidatePush(r)
    <2>1. /\ pc[r] = "validating" /\ UNCHANGED attempted
          /\ pc'[r] \in {"cleanup", "publishing"}
      BY <1>7 DEF ValidatePush
    <2>2. attempted[r] = {}
      BY <2>1 DEF Unattempted, BeforeUploads
    <2> QED  BY <2>1, <2>2
  <1>8. ASSUME NEW p \in Public, Upload(r, p)
        PROVE  UploadsTracked(r)'
    <2>1. /\ attempted'[r] = attempted[r] \cup {p} /\ pc[r] = "publishing"
          /\ UNCHANGED <<outcome, plan, pc, config>>
      BY <1>8 DEF Upload, Attempts
    <2>2. [pkg |-> p, version |-> plan[r][p], contains |-> base[r]] \in registry'
      BY <1>8 DEF Upload, Stores
    <2>3. Released(p, plan[r][p])'
      BY <2>1, <2>2 DEF Released
    <2>4. ~config[r].dryRun
      BY <1>8 DEF Upload, Stores, Puts
    <2> QED  BY <1>1, <2>1, <2>3, <2>4
  <1>9. ASSUME NEW p \in Public,
               UploadConflicts(r, p) \/ UploadUnanswered(r, p) \/ UploadFails(r, p)
        PROVE  UploadsTracked(r)'
    <2>1. outcome'[r] = "failed" /\ pc'[r] = "publishing"
      BY <1>9 DEF UploadConflicts, UploadUnanswered, UploadFails, Attempts, Report
    <2> QED  BY <2>1
  <1>14. ASSUME NEW p \in Public, PackOnly(r, p)
         PROVE  UploadsTracked(r)'
    <2>1. pc'[r] = "publishing" /\ config'[r].dryRun
      BY <1>14 DEF PackOnly, Attempts, Puts
    <2> QED  BY <2>1
  <1>10. CASE PublishSettles(r)
    <2>1. /\ UNCHANGED <<plan, config>>
          /\ \/ pc'[r] = "cleanup"
             \/ /\ pc'[r] = "pushing" /\ pc[r] = "publishing"
                /\ outcome[r] # "failed" /\ attempted[r] = DOMAIN plan[r]
      BY <1>10 DEF PublishSettles
    <2> QED  BY <1>1, <2>1
  <1>11. CASE PushBranch(r) \/ PushBranchUnanswered(r)
    <2>1. /\ pc[r] = "pushing" /\ pc'[r] \in {"pushingTags", "cleanup"}
          /\ UNCHANGED <<plan, config>> /\ ~config[r].dryRun
      BY <1>11 DEF PushBranch, PushBranchUnanswered, PushesRelease
    <2> QED  BY <1>1, <2>1
  <1>12. CASE PushTags(r) \/ PushTagsBreaks(r)
    BY <1>2, <1>12 DEF PushTags, PushTagsBreaks
  <1>13. CASE SkipPush(r) \/ Hooks(r) \/ Cleanup(r) \/ StepThrows(r) \/ EndsThrowing(r) \/ Crash(r)
    BY <1>2, <1>13 DEF SkipPush, Hooks, Cleanup, StepThrows, EndsThrowing, Crash
  <1> QED  BY <1>3, <1>4, <1>5, <1>6, <1>7, <1>8, <1>9, <1>10, <1>11, <1>12, <1>13,
              <1>14 DEF Advance, Misfortune

LEMMA TrackedHolds == Spec => []Tracked
  <1>1. Init => Tracked
    BY DEF Init, Tracked, UploadsTracked
  <1>2. Typed /\ Tracked /\ [Next]_vars => Tracked'
    <2>1. CASE UNCHANGED vars
      BY <2>1 DEF vars, shared, memory, rest, Tracked, UploadsTracked, Released
    <2>2. CASE DeveloperPushes
      BY <2>2 DEF DeveloperPushes, memory, Tracked, UploadsTracked, Released
    <2>3. ASSUME Typed, Tracked, NEW r \in Runners,
                 Start(r) \/ Advance(r) \/ Misfortune(r)
          PROVE  Tracked'
      <3>1. UploadsTracked(r)'
        BY <2>3, RunStepTracked
      <3>2. registry \subseteq registry' /\ \A q \in Runners \ {r} : Untouched(q)
        BY <2>3, OthersUntouched DEF Typed
      <3>3. \A q \in Runners \ {r} : UploadsTracked(q)'
        BY <2>3, <3>2, ReleasedIsKept DEF Tracked, UploadsTracked, Untouched
      <3> QED  BY <3>1, <3>3 DEF Tracked
    <2> QED  BY <2>1, <2>2, <2>3 DEF Next
  <1> QED  BY <1>1, <1>2, TypedHolds, PTL DEF Spec

-----------------------------------------------------------------------------
(* Pushed tags are released, where every run has a clone of its own. *)

StandsForPlan(r, t) ==
    \A p \in t.pkgs : p \in DOMAIN plan[r] /\ plan[r][p] = t.version

\* A run begins with released tags and adds only tags of its own plan.
RunTagsSafe(r) ==
    /\ pc[r] \in {"reading", "planning"} => \A t \in tags[r] : IsReleased(t)
    /\ pc[r] \in Steps => \A t \in tags[r] : IsReleased(t) \/ StandsForPlan(r, t)

TagsSafe == PushedTagsAreReleased /\ \A r \in Runners : RunTagsSafe(r)

\* A run that did not move, while others did.
LEMMA UntouchedTagsSafe ==
    ASSUME NEW q \in Runners, RunTagsSafe(q), Untouched(q), registry \subseteq registry'
    PROVE  RunTagsSafe(q)'
  BY ReleasedIsKept DEF RunTagsSafe, Untouched, StandsForPlan

LEMMA RunStepTagsSafe ==
    ASSUME Typed, Tracked, TagsSafe, FreshClone, NEW r \in Runners,
           Start(r) \/ Advance(r) \/ Misfortune(r)
    PROVE  RunTagsSafe(r)' /\ PushedTagsAreReleased'
  <1> USE DEF Typed, TypeOK, TagsSafe, RunTagsSafe, Steps, shared, copy, memory, rest
  <1> DEFINE Goal == RunTagsSafe(r)' /\ PushedTagsAreReleased'
  <1>1. /\ \A p, v : Released(p, v) => Released(p, v)'
        /\ \A t : IsReleased(t) => IsReleased(t)'
    BY OthersUntouched, ReleasedIsKept
  <1>2. UNCHANGED remoteTags => PushedTagsAreReleased'
    BY <1>1 DEF PushedTagsAreReleased
  <1>3. CASE Start(r)
    <2>1. pc'[r] = "reading" /\ tags'[r] = remoteTags /\ UNCHANGED remoteTags
      BY <1>3 DEF Start, GoTo
    <2> QED  BY <1>1, <1>2, <2>1 DEF PushedTagsAreReleased
  <1>4. ASSUME UNCHANGED <<shared, tags, plan>>, pc[r] \in Steps,
               pc'[r] \in {"reading", "planning"} => pc[r] \in {"reading", "planning"}
        PROVE  Goal
    BY <1>1, <1>2, <1>4 DEF StandsForPlan
  <1>5. ASSUME NEW p \in Public, ReadTag(r, p) \/ ReadTagDenied(r, p)
        PROVE  Goal
    BY <1>4, <1>5 DEF ReadTag, ReadTagDenied
  <1>6. CASE \/ AllRead(r) \/ PrepareFiles(r) \/ SkipPush(r) \/ Hooks(r) \/ Cleanup(r)
             \/ CommitFiles(r)
    BY <1>4, <1>6 DEF AllRead, PrepareFiles, SkipPush, Hooks, Cleanup, CommitFiles, GoTo
  <1>7. CASE StepThrows(r) \/ EndsThrowing(r) \/ Crash(r)
    BY <1>4, <1>7 DEF StepThrows, EndsThrowing, Crash, StepsUnderTry, Throws, GoTo
  <1>8. CASE Plan(r)
    <2>1. /\ pc[r] = "planning" /\ pc'[r] = "preparing"
          /\ UNCHANGED <<tags, remoteTags>>
      BY <1>8, PlanIsMade DEF GoTo
    <2> QED  BY <1>1, <1>2, <2>1
  <1>9. CASE MakeTags(r)
    <2>1. /\ pc'[r] \in {"committing", "validating"}
          /\ pc[r] \in Steps /\ UNCHANGED <<remoteTags, plan>>
      BY <1>9 DEF MakeTags, GoTo
    <2>2. \A t \in tags'[r] : t \in tags[r] \/ StandsForPlan(r, t)
      <3>1. CASE UNCHANGED tags
        BY <3>1
      <3>2. CASE CreateTags(r)
        <4> DEFINE wanted == TagsOf(plan[r], HeadOf(r), <<r, runs[r]>>)
                   free   == Adoptable(wanted, tags[r])
        <4>1. \A t \in free : StandsForPlan(r, t)
          BY AdoptableIsTaken, TagsStandForPlan DEF StandsForPlan
        <4>2. \E made \in SUBSET free : tags' = [tags EXCEPT ![r] = @ \cup made]
          BY <3>2 DEF CreateTags
        <4> HIDE DEF free
        <4> QED  BY <4>1, <4>2
      <3> QED  BY <1>9, <3>1, <3>2 DEF MakeTags
    <2>3. \A t \in tags'[r] : IsReleased(t)' \/ StandsForPlan(r, t)'
      BY <1>1, <2>1, <2>2 DEF StandsForPlan
    <2> QED  BY <1>2, <2>1, <2>3
  <1>10. CASE PullRebase(r)
    <2>1. /\ pc'[r] = "retagging" /\ pc[r] \in Steps
          /\ UNCHANGED <<remoteTags, plan>>
      BY <1>10 DEF PullRebase, GoTo
    <2>2. tags'[r] \subseteq tags[r] \cup remoteTags
      <3>1. CASE UNCHANGED tags
        BY <3>1
      <3>2. CASE ~UNCHANGED tags
        <4> DEFINE received == {main[i].id : i \in (base[r] + 1)..Len(main)}
                   fetched  == Adoptable({t \in remoteTags : t.at \in received}, tags[r])
        <4>1. tags' = [tags EXCEPT ![r] = @ \cup fetched]
          BY <1>10, <3>2 DEF PullRebase
        <4>2. fetched \subseteq remoteTags
          BY AdoptableIsTaken
        <4> HIDE DEF fetched
        <4> QED  BY <4>1, <4>2
      <3> QED  BY <3>1, <3>2
    <2>3. \A t \in tags'[r] : IsReleased(t)' \/ StandsForPlan(r, t)'
      BY <1>1, <2>1, <2>2 DEF StandsForPlan, PushedTagsAreReleased
    <2> QED  BY <1>2, <2>1, <2>3
  <1>11. CASE ValidatePush(r) \/ PublishSettles(r)
    <2>1. /\ pc[r] \in Steps /\ pc'[r] \in {"cleanup", "publishing", "pushing"}
          /\ UNCHANGED <<remoteTags, tags, plan>>
      BY <1>11 DEF ValidatePush, PublishSettles, GoTo, Throws
    <2> QED  BY <1>1, <1>2, <2>1 DEF StandsForPlan
  <1>12. ASSUME NEW p \in Public,
                \/ PackOnly(r, p) \/ Upload(r, p) \/ UploadConflicts(r, p)
                \/ UploadUnanswered(r, p) \/ UploadFails(r, p)
         PROVE  Goal
    <2>1. /\ pc'[r] = "publishing" /\ pc[r] = "publishing"
          /\ UNCHANGED <<remoteTags, tags, plan>>
      BY <1>12 DEF PackOnly, Upload, UploadConflicts, UploadUnanswered, UploadFails, Attempts
    <2> QED  BY <1>1, <1>2, <2>1 DEF StandsForPlan
  <1>13. CASE PushBranch(r) \/ PushBranchUnanswered(r)
    <2>1. /\ pc[r] = "pushing" /\ pc'[r] \in {"pushingTags", "cleanup"}
          /\ UNCHANGED <<remoteTags, registry, tags, plan>>
      BY <1>13 DEF PushBranch, PushBranchUnanswered, BranchPushed, GoTo, Throws
    <2> QED  BY <1>1, <1>2, <2>1 DEF StandsForPlan
  <1>14. CASE PushTags(r) \/ PushTagsBreaks(r)
    <2>1. /\ pc[r] = "pushingTags" /\ pc'[r] \in {"hooks", "cleanup"}
          /\ UNCHANGED <<registry, tags, plan>>
      BY <1>14 DEF PushTags, PushTagsBreaks, GoTo, Throws
    <2>2. remoteTags' \subseteq remoteTags \cup tags[r]
      BY <1>14, AdoptableIsTaken DEF PushTags, PushTagsBreaks
    <2>3. \A t \in tags[r] : IsReleased(t)
      BY <2>1 DEF StandsForPlan, IsReleased, Tracked, UploadsTracked
    <2>4. PushedTagsAreReleased'
      BY <1>1, <2>2, <2>3 DEF PushedTagsAreReleased
    <2> QED  BY <1>1, <2>1, <2>4 DEF StandsForPlan
  <1> QED  BY <1>3, <1>5, <1>6, <1>7, <1>8, <1>9, <1>10, <1>11, <1>12, <1>13, <1>14
           DEF Advance, Misfortune

\* If every run has a fresh clone, a tag on the remote stands for versions that
\* are all in the registry: for any interleaving of runs, faults and crashes.
THEOREM PushedTagsReleased == ASSUME FreshClone PROVE Spec => []PushedTagsAreReleased
  <1>1. Init => TagsSafe
    <2> SUFFICES ASSUME Init PROVE TagsSafe
      OBVIOUS
    <2>1. \A p \in Public : Released(p, FirstVersion)
      <3> SUFFICES ASSUME NEW p \in Public PROVE Released(p, FirstVersion)
        OBVIOUS
      <3>1. [pkg |-> p, version |-> FirstVersion, contains |-> 1] \in registry
        BY DEF Init
      <3> QED  BY <3>1 DEF Released
    <2>2. \A t \in FirstTags : t.pkgs \subseteq Public /\ t.version = FirstVersion
      BY DEF FirstTags
    <2>3. PushedTagsAreReleased
      BY <2>1, <2>2 DEF Init, PushedTagsAreReleased, IsReleased
    <2>4. \A r \in Runners : pc[r] = "idle"
      BY DEF Init
    <2> QED  BY <2>3, <2>4 DEF TagsSafe, RunTagsSafe, Steps
  <1>2. Typed /\ Tracked /\ TagsSafe /\ [Next]_vars => TagsSafe'
    <2>1. CASE UNCHANGED vars
      BY <2>1 DEF vars, shared, copy, memory, counters, rest, TagsSafe, RunTagsSafe,
                  PushedTagsAreReleased, IsReleased, Released, StandsForPlan
    <2>2. CASE DeveloperPushes
      BY <2>2 DEF DeveloperPushes, copy, memory, TagsSafe, RunTagsSafe,
                  PushedTagsAreReleased, IsReleased, Released, StandsForPlan
    <2>3. ASSUME Typed, Tracked, TagsSafe, NEW r \in Runners,
                 Start(r) \/ Advance(r) \/ Misfortune(r)
          PROVE  TagsSafe'
      <3>1. RunTagsSafe(r)' /\ PushedTagsAreReleased'
        BY <2>3, RunStepTagsSafe
      <3>2. registry \subseteq registry' /\ \A q \in Runners \ {r} : Untouched(q)
        BY <2>3, OthersUntouched DEF Typed
      <3>3. \A q \in Runners \ {r} : RunTagsSafe(q)'
        BY <2>3, <3>2, UntouchedTagsSafe DEF TagsSafe
      <3> QED  BY <3>1, <3>3 DEF TagsSafe
    <2> QED  BY <2>1, <2>2, <2>3 DEF Next
  <1>3. TagsSafe => PushedTagsAreReleased
    BY DEF TagsSafe
  <1> QED  BY <1>1, <1>2, <1>3, TypedHolds, TrackedHolds, PTL DEF Spec

-----------------------------------------------------------------------------
(* A run that succeeds is complete. *)

\* The steps after those at which a configuration makes its tags.
AfterTags(c) ==
    {"validating", "publishing", "pushing", "pushingTags"} \cup
    IF WhenTagged(c) = "tagging" THEN {"committing", "pulling", "retagging"} ELSE {}

InTags(r, p, set) == \E t \in set : p \in t.pkgs /\ t.version = plan[r][p]

\* What SuccessIsComplete asks of one run.
Done(r) ==
    /\ \A p \in DOMAIN plan[r] : Released(p, plan[r][p])
    /\ PushesTags(r) => \A p \in DOMAIN plan[r] : InTags(r, p, remoteTags)
    /\ PushesBranch(r) => own[r] = 0

\* What a run without errors has achieved, step by step.
RunOnTrack(r) ==
    /\ pc[r] \in {"reading", "planning", "preparing", "tagging", "committing"}
          => own[r] = 0
    /\ pc[r] \in {"tagging", "committing", "pulling", "retagging"} => CreatesCommit(r)
    /\ pc[r] \in {"validating", "publishing", "pushing"} /\ ~CreatesCommit(r)
          => own[r] = 0
    /\ pc[r] = "pushingTags" /\ PushesBranch(r) => own[r] = 0
    /\ /\ outcome[r] = "running" /\ config[r].tag /\ ~config[r].dryRun
       /\ pc[r] \in AfterTags(config[r])
       => \A p \in DOMAIN plan[r] : InTags(r, p, tags[r])
    /\ /\ ~config[r].dryRun
       /\ \/ pc[r] \in {"hooks", "cleanup"} /\ outcome[r] = "running"
          \/ outcome[r] = "success"
       => Done(r)
    /\ outcome[r] = "success" => pc[r] \notin Steps

OnTrack == \A r \in Runners : RunOnTrack(r)

\* Every planned package has a tag among those the plan asks for.
LEMMA PlanIsTagged ==
    ASSUME NEW planned, NEW at, NEW by, NEW p \in DOMAIN planned
    PROVE  \E t \in TagsOf(planned, at, by) : p \in t.pkgs /\ t.version = planned[p]
  <1> DEFINE same == {q \in DOMAIN planned : GroupOf[q] = GroupOf[p] /\ planned[q] = planned[p]}
             tag  == [group |-> GroupOf[p], version |-> planned[p], at |-> at, by |-> by,
                      pkgs |-> same]
  <1>1. tag \in TagsOf(planned, at, by)
    BY DEF TagsOf
  <1>2. p \in tag.pkgs /\ tag.version = planned[p]
    OBVIOUS
  <1> QED  BY <1>1, <1>2

\* git push --tags that is not refused leaves every tag of the copy on the remote.
LEMMA UnrefusedTagsArrive ==
    ASSUME NEW ours, NEW theirs, ~Clashes(ours, theirs)
    PROVE  ours \subseteq theirs \cup Adoptable(ours, theirs)
  BY DEF Clashes, Adoptable

\* A run that did not move, or only towards its end.
LEMMA DoneIsKept ==
    ASSUME NEW r \in Runners, Done(r), registry \subseteq registry',
           remoteTags \subseteq remoteTags',
           plan'[r] = plan[r], own'[r] = own[r], config'[r] = config[r]
    PROVE  Done(r)'
  BY ReleasedIsKept DEF Done, InTags, PushesTags, PushesBranch

LEMMA UntouchedOnTrack ==
    ASSUME NEW q \in Runners, RunOnTrack(q), Untouched(q),
           registry \subseteq registry', remoteTags \subseteq remoteTags'
    PROVE  RunOnTrack(q)'
  <1>1. Done(q) => Done(q)'
    BY DoneIsKept DEF Untouched
  <1> QED  BY <1>1 DEF RunOnTrack, Untouched, InTags, PushesBranch, CreatesCommit, HasReleases

LEMMA CreateTagsOnTrack ==
    ASSUME TypeOK, NEW r \in Runners, CreateTags(r), UNCHANGED plan,
           outcome'[r] = "running"
    PROVE  \A p \in DOMAIN plan[r] : InTags(r, p, tags'[r])
  <1> DEFINE wanted == TagsOf(plan[r], HeadOf(r), <<r, runs[r]>>)
             free   == Adoptable(wanted, tags[r])
  <1>1. PICK made \in SUBSET free :
           /\ tags' = [tags EXCEPT ![r] = @ \cup made]
           /\ IF made = wanted THEN UNCHANGED outcome ELSE Report(r, "errors")
    BY DEF CreateTags
  <1>2. \A p \in DOMAIN plan[r] : \E t \in wanted : p \in t.pkgs /\ t.version = plan[r][p]
    BY PlanIsTagged
  <1> HIDE DEF wanted, free
  <1>3. made = wanted
    BY <1>1 DEF Report, TypeOK
  <1>4. wanted \subseteq tags'[r]
    BY <1>1, <1>3 DEF TypeOK
  <1> QED  BY <1>2, <1>4 DEF InTags

LEMMA RunStepOnTrack ==
    ASSUME Typed, Tracked, OnTrack, NEW r \in Runners,
           Start(r) \/ Advance(r) \/ Misfortune(r)
    PROVE  RunOnTrack(r)'
  <1> USE DEF Typed, TypeOK, OnTrack, Steps, memory, rest, shared, copy
  <1>1. /\ \A p, v : Released(p, v) => Released(p, v)'
        /\ registry \subseteq registry' /\ remoteTags \subseteq remoteTags'
    BY OthersUntouched, ReleasedIsKept
  <1>2. RunOnTrack(r)
    OBVIOUS
  \* The two ways in which a run is no longer asked for anything.
  <1>3. ASSUME outcome'[r] \in {"failed", "errors", "crashed"},
               pc'[r] \in {"cleanup", "ended", "publishing"},
               pc'[r] = "publishing" =>
                   pc[r] = "publishing" /\ UNCHANGED <<own, plan, config>>
        PROVE  RunOnTrack(r)'
    BY <1>2, <1>3 DEF RunOnTrack, CreatesCommit, HasReleases
  \* A step that leaves tags, plan and what is pushed alone.
  <1>4. ASSUME pc[r] \in Steps, UNCHANGED <<own, tags, plan, config, outcome>>,
               pc'[r] \in Steps \ {"hooks", "cleanup", "pushingTags"},
               pc'[r] \in {"reading", "planning", "preparing", "tagging", "committing"}
                  => pc[r] \in {"reading", "planning", "preparing", "tagging", "committing"},
               pc'[r] \in AfterTags(config[r]) => pc[r] \in AfterTags(config[r]),
               pc'[r] \in {"tagging", "committing", "pulling", "retagging"}
                  => pc[r] \in {"tagging", "committing", "pulling", "retagging"},
               pc'[r] \in {"validating", "publishing", "pushing"}
                  => pc[r] \in {"validating", "publishing", "pushing"}
        PROVE  RunOnTrack(r)'
    BY <1>2, <1>4 DEF RunOnTrack, InTags, CreatesCommit, HasReleases
  <1>5. CASE Start(r)
    BY <1>5 DEF Start, GoTo, Report, RunOnTrack, AfterTags
  <1>6. ASSUME NEW p \in Public, ReadTag(r, p) \/ ReadTagDenied(r, p)
        PROVE  RunOnTrack(r)'
    BY <1>4, <1>6 DEF ReadTag, ReadTagDenied
  <1>7. CASE AllRead(r)
    <2>1. ~("planning" \in AfterTags(config[r]))
      BY DEF AfterTags
    <2> QED  BY <1>4, <1>7, <2>1 DEF AllRead, GoTo
  <1>20. CASE PrepareFiles(r)
    <2>1. /\ pc[r] = "preparing" /\ UNCHANGED <<own, tags, plan, config, outcome>>
          /\ pc'[r] = IF CreatesCommit(r) THEN "tagging" ELSE "validating"
      BY <1>20 DEF PrepareFiles, GoTo
    <2>2. own[r] = 0 /\ outcome[r] # "success"
      BY <1>2, <2>1 DEF RunOnTrack
    <2>3. ~("tagging" \in AfterTags(config[r]))
      BY DEF AfterTags
    <2>4. pc'[r] = "validating" /\ ~config[r].dryRun => DOMAIN plan'[r] = {}
      BY <2>1 DEF CreatesCommit, HasReleases
    <2>5. CreatesCommit(r)' <=> CreatesCommit(r)
      BY <2>1 DEF CreatesCommit, HasReleases
    <2> QED  BY <2>1, <2>2, <2>3, <2>4, <2>5 DEF RunOnTrack
  <1>8. CASE Plan(r)
    <2>1. /\ pc[r] = "planning" /\ UNCHANGED <<own, tags, config, outcome>>
          /\ pc'[r] = "preparing"
      BY <1>8, PlanIsMade DEF GoTo
    <2>2. own[r] = 0 /\ outcome[r] # "success"
      BY <1>2, <2>1 DEF RunOnTrack
    <2>3. ~(pc'[r] \in AfterTags(config[r]))
      BY <2>1 DEF AfterTags
    <2> QED  BY <2>1, <2>2, <2>3 DEF RunOnTrack
  <1>9. CASE MakeTags(r)
    <2>1. /\ UNCHANGED <<own, plan, config>>
          /\ \/ pc[r] = "tagging" /\ pc'[r] = "committing"
             \/ pc[r] = "retagging" /\ pc'[r] = "validating"
      BY <1>9 DEF MakeTags, GoTo
    <2>2. outcome'[r] = outcome[r] \/ outcome'[r] = "errors"
      BY <1>9 DEF MakeTags, CreateTags, Report
    <2>3. outcome'[r] # "success" /\ (pc'[r] = "committing" => own[r] = 0)
      BY <1>2, <2>1, <2>2 DEF RunOnTrack
    <2>4. ASSUME outcome'[r] = "running", config[r].tag, ~config[r].dryRun,
                 pc'[r] \in AfterTags(config[r])
          PROVE  \A p \in DOMAIN plan[r] : InTags(r, p, tags'[r])
      <3>1. CASE pc[r] = WhenTagged(config[r])
        BY <1>9, <2>1, <2>4, <3>1, CreateTagsOnTrack DEF MakeTags
      <3>2. CASE pc[r] # WhenTagged(config[r])
        <4>1. UNCHANGED <<tags, outcome>>
          BY <1>9, <3>2 DEF MakeTags
        <4>2. pc[r] \in AfterTags(config[r])
          BY <2>1, <2>4, <3>2 DEF AfterTags, WhenTagged
        <4> QED  BY <1>2, <2>4, <4>1, <4>2 DEF RunOnTrack
      <3> QED  BY <3>1, <3>2
    <2>5. CreatesCommit(r) /\ CreatesCommit(r)'
      BY <1>2, <2>1 DEF RunOnTrack, CreatesCommit, HasReleases
    <2> QED  BY <2>1, <2>3, <2>4, <2>5 DEF RunOnTrack, InTags
  <1>10. CASE CommitFiles(r)
    <2>1. /\ UNCHANGED <<tags, plan, config, outcome>>
          /\ pc[r] = "committing" /\ pc'[r] = "pulling"
      BY <1>10 DEF CommitFiles, GoTo
    <2>3. CreatesCommit(r)'
      BY <1>2, <2>1 DEF RunOnTrack, CreatesCommit, HasReleases
    <2>2. "pulling" \in AfterTags(config[r]) => "committing" \in AfterTags(config[r])
      BY DEF AfterTags
    <2> QED  BY <1>2, <2>1, <2>2, <2>3 DEF RunOnTrack, InTags
  <1>11. CASE PullRebase(r)
    <2>1. /\ UNCHANGED <<plan, config, outcome, own>>
          /\ pc[r] = "pulling" /\ pc'[r] = "retagging"
      BY <1>11 DEF PullRebase, GoTo
    <2>2. tags[r] \subseteq tags'[r]
      <3>1. UNCHANGED tags \/ \E new : tags' = [tags EXCEPT ![r] = @ \cup new]
        BY <1>11 DEF PullRebase
      <3> QED  BY <3>1
    <2>3. "retagging" \in AfterTags(config[r]) => "pulling" \in AfterTags(config[r])
      BY DEF AfterTags
    <2>4. CreatesCommit(r)'
      BY <1>2, <2>1 DEF RunOnTrack, CreatesCommit, HasReleases
    <2> QED  BY <1>2, <2>1, <2>2, <2>3, <2>4 DEF RunOnTrack, InTags
  <1>12. CASE ValidatePush(r)
    <2>1. CASE Throws(r)
      BY <1>3, <2>1 DEF Throws, GoTo, Report
    <2>2. CASE GoTo(r, "publishing") /\ UNCHANGED outcome
      <3>1. pc[r] = "validating" /\ pc'[r] = "publishing"
            /\ UNCHANGED <<own, tags, plan, config, outcome>>
        BY <1>12, <2>2 DEF ValidatePush, GoTo
      <3> QED  BY <1>4, <3>1 DEF AfterTags
    <2> QED  BY <1>12, <2>1, <2>2 DEF ValidatePush
  <1>13. ASSUME NEW p \in Public, PackOnly(r, p) \/ Upload(r, p)
         PROVE  RunOnTrack(r)'
    BY <1>4, <1>13 DEF PackOnly, Upload, Attempts
  <1>14. ASSUME NEW p \in Public,
                UploadConflicts(r, p) \/ UploadUnanswered(r, p) \/ UploadFails(r, p)
         PROVE  RunOnTrack(r)'
    BY <1>3, <1>14
       DEF UploadConflicts, UploadUnanswered, UploadFails, Attempts, Report
  <1>15. CASE PublishSettles(r)
    <2>1. /\ pc[r] = "publishing" /\ UNCHANGED <<own, tags, plan, config, outcome>>
          /\ \/ outcome[r] = "failed" /\ pc'[r] = "cleanup"
             \/ pc'[r] = "pushing"
      BY <1>15 DEF PublishSettles, GoTo
    <2> QED  BY <1>3, <1>4, <2>1 DEF AfterTags
  <1>16. CASE PushBranch(r) \/ PushBranchUnanswered(r)
    <2>1. CASE Throws(r)
      BY <1>3, <2>1 DEF Throws, GoTo, Report
    <2>2. CASE ~Throws(r)
      <3>1. /\ pc[r] = "pushing" /\ pc'[r] = "pushingTags"
            /\ UNCHANGED <<tags, plan, config, outcome>>
            /\ PushesBranch(r) => own'[r] = 0
        BY <1>16, <2>2 DEF PushBranch, PushBranchUnanswered, BranchPushed, GoTo
      <3> QED  BY <1>2, <3>1 DEF RunOnTrack, AfterTags, InTags, PushesBranch
    <2> QED  BY <2>1, <2>2
  <1>17. CASE PushTags(r) \/ PushTagsBreaks(r)
    <2>1. CASE Throws(r)
      BY <1>3, <2>1 DEF Throws, GoTo, Report
    <2>2. CASE ~Throws(r)
      <3>1. /\ pc[r] = "pushingTags" /\ pc'[r] = "hooks"
            /\ UNCHANGED <<tags, plan, own, config, outcome>>
            /\ PushesTags(r) => /\ ~TagsRefused(r)
                                /\ remoteTags' = remoteTags \cup Adoptable(tags[r], remoteTags)
        BY <1>17, <2>2 DEF PushTags, PushTagsBreaks, GoTo
      <3>2. PushesTags(r) => tags[r] \subseteq remoteTags' /\ config[r].tag
        BY <3>1, UnrefusedTagsArrive DEF TagsRefused, PushesTags
      <3>3. \A p \in DOMAIN plan[r] : Released(p, plan[r][p])'
        BY <1>1, <3>1 DEF Tracked, UploadsTracked
      <3>4. PushesBranch(r) => own[r] = 0
        BY <1>2, <3>1 DEF RunOnTrack
      <3>7. ~config[r].dryRun
        BY <3>1 DEF Tracked, UploadsTracked
      <3>5. outcome[r] = "running" =>
               (PushesTags(r) => \A p \in DOMAIN plan[r] : InTags(r, p, remoteTags'))
        BY <1>2, <3>1, <3>2, <3>7 DEF RunOnTrack, AfterTags, InTags
      <3>6. outcome[r] = "running" => Done(r)'
        BY <3>1, <3>3, <3>4, <3>5 DEF Done, InTags, PushesTags, PushesBranch
      <3> QED  BY <1>2, <3>1, <3>6 DEF RunOnTrack, AfterTags
    <2> QED  BY <2>1, <2>2
  <1>21. CASE SkipPush(r)
    <2>1. /\ pc[r] = "pushing" /\ pc'[r] = "hooks" /\ ~PushesRelease(r)
          /\ UNCHANGED <<tags, plan, own, config, outcome>>
      BY <1>21 DEF SkipPush, GoTo
    <2>2. ~CreatesCommit(r)
      BY <2>1 DEF PushesRelease, CreatesCommit
    <2>3. own[r] = 0 /\ outcome[r] # "success"
      BY <1>2, <2>1, <2>2 DEF RunOnTrack
    <2>4. ~config[r].dryRun => DOMAIN plan[r] = {}
      BY <2>1 DEF PushesRelease, HasReleases
    <2> QED  BY <2>1, <2>3, <2>4 DEF RunOnTrack, Done, AfterTags
  <1>18. CASE Hooks(r) \/ Cleanup(r)
    <2>1. /\ pc[r] \in {"hooks", "cleanup"} /\ pc'[r] \in {"cleanup", "ended"}
          /\ UNCHANGED <<tags, plan, own, config>>
          /\ \/ outcome'[r] = outcome[r]
             \/ outcome[r] = "running" /\ outcome'[r] = "success" /\ pc'[r] = "ended"
      BY <1>18 DEF Hooks, Cleanup, GoTo, Report
    <2>2. Done(r) => Done(r)'
      BY <1>1, <2>1, DoneIsKept
    <2> QED  BY <1>2, <2>1, <2>2 DEF RunOnTrack, AfterTags
  <1>19. CASE StepThrows(r) \/ EndsThrowing(r) \/ Crash(r)
    BY <1>3, <1>19 DEF StepThrows, EndsThrowing, Crash, Throws, GoTo, Report
  <1> QED  BY <1>5, <1>6, <1>7, <1>8, <1>9, <1>10, <1>11, <1>12, <1>13, <1>14, <1>15,
              <1>16, <1>17, <1>18, <1>19, <1>20, <1>21 DEF Advance, Misfortune

LEMMA OnTrackHolds == Spec => []OnTrack
  <1>1. Init => OnTrack
    BY DEF Init, OnTrack, RunOnTrack, AfterTags, Steps
  <1>2. Typed /\ Tracked /\ OnTrack /\ [Next]_vars => OnTrack'
    <2>1. CASE UNCHANGED vars
      BY <2>1, UntouchedOnTrack
         DEF vars, shared, copy, memory, counters, rest, OnTrack, Untouched
    <2>2. CASE DeveloperPushes
      BY <2>2, UntouchedOnTrack DEF DeveloperPushes, copy, memory, OnTrack, Untouched
    <2>3. ASSUME Typed, Tracked, OnTrack, NEW r \in Runners,
                 Start(r) \/ Advance(r) \/ Misfortune(r)
          PROVE  OnTrack'
      <3>1. RunOnTrack(r)'
        BY <2>3, RunStepOnTrack
      <3>2. /\ registry \subseteq registry' /\ remoteTags \subseteq remoteTags'
            /\ \A q \in Runners \ {r} : Untouched(q)
        BY <2>3, OthersUntouched DEF Typed
      <3>3. \A q \in Runners \ {r} : RunOnTrack(q)'
        BY <2>3, <3>2, UntouchedOnTrack DEF OnTrack
      <3> QED  BY <3>1, <3>3 DEF OnTrack
    <2> QED  BY <2>1, <2>2, <2>3 DEF Next
  <1> QED  BY <1>1, <1>2, TypedHolds, TrackedHolds, PTL DEF Spec

\* A run that reports no error released, tagged and pushed all it planned, even
\* in a reused clone and beside any number of other runs.
THEOREM SuccessComplete == Spec => []SuccessIsComplete
  <1>1. OnTrack => SuccessIsComplete
    BY DEF OnTrack, RunOnTrack, Done, InTags, SuccessIsComplete
  <1> QED  BY <1>1, OnTrackHolds, PTL

-----------------------------------------------------------------------------
(* A dry run is pure. *)

\* A dry run comes to no step that a check before it guards.
DrySteps == Steps \ {"tagging", "committing", "pulling", "retagging", "pushingTags"}

DryIsQuiet ==
    \A r \in Runners : config[r].dryRun => pc[r] \in {"idle", "ended"} \cup DrySteps

LEMMA RunStepDry ==
    ASSUME Typed, DryIsQuiet, NEW r \in Runners, config[r].dryRun,
           Start(r) \/ Advance(r) \/ Misfortune(r)
    PROVE  /\ pc'[r] \in {"idle", "ended"} \cup DrySteps
           /\ pc[r] \in Steps => UNCHANGED <<shared, copy>>
  <1> USE DEF Typed, TypeOK, DryIsQuiet, DrySteps, Steps, StepsUnderTry, memory, rest,
              GoTo, Throws
  <1>1. pc[r] \in {"idle", "ended"} \cup DrySteps
    OBVIOUS
  <1>2. CASE Start(r)
    BY <1>1, <1>2 DEF Start
  <1>3. ASSUME NEW p \in Public, ReadTag(r, p) \/ ReadTagDenied(r, p)
        PROVE  pc'[r] \in {"idle", "ended"} \cup DrySteps /\ UNCHANGED <<shared, copy>>
    BY <1>1, <1>3 DEF ReadTag, ReadTagDenied
  <1>4. CASE AllRead(r) \/ Plan(r)
    BY <1>4, PlanIsMade DEF AllRead
  \* createPublishCommit is skipped, and with it the tags, the commit and the pull.
  <1>5. CASE PrepareFiles(r)
    BY <1>5 DEF PrepareFiles, CreatesCommit
  <1>6. CASE ValidatePush(r) \/ PublishSettles(r)
    BY <1>6 DEF ValidatePush, PublishSettles
  <1>7. ASSUME NEW p \in Public, PackOnly(r, p) \/ UploadConflicts(r, p) \/ UploadFails(r, p)
        PROVE  pc'[r] \in {"idle", "ended"} \cup DrySteps /\ UNCHANGED <<shared, copy>>
    BY <1>1, <1>7 DEF PackOnly, UploadConflicts, UploadFails
  \* The archive is not sent.
  <1>8. \A p \in Public : ~(Upload(r, p) \/ UploadUnanswered(r, p))
    BY DEF Upload, UploadUnanswered, Stores, Puts
  \* pushPublishCommit is skipped.
  <1>9. ~(PushBranch(r) \/ PushBranchUnanswered(r))
    BY DEF PushBranch, PushBranchUnanswered, PushesRelease
  <1>10. CASE SkipPush(r) \/ Hooks(r) \/ Cleanup(r)
    BY <1>10 DEF SkipPush, Hooks, Cleanup
  <1>11. CASE StepThrows(r) \/ EndsThrowing(r) \/ Crash(r)
    BY <1>11 DEF StepThrows, EndsThrowing, Crash
  <1>12. ~(MakeTags(r) \/ CommitFiles(r) \/ PullRebase(r) \/ PushTags(r) \/ PushTagsBreaks(r))
    BY <1>1 DEF MakeTags, CommitFiles, PullRebase, PushTags, PushTagsBreaks
  <1> QED  BY <1>2, <1>3, <1>4, <1>5, <1>6, <1>7, <1>8, <1>9, <1>10, <1>11, <1>12
           DEF Advance, Misfortune

\* A run keeps the configuration it was given.
LEMMA ConfigIsKept ==
    ASSUME NEW r \in Runners, Start(r) \/ Advance(r) \/ Misfortune(r)
    PROVE  UNCHANGED config
  <1> USE DEF rest
  <1>1. ASSUME NEW p \in Public, ReadTag(r, p) \/ ReadTagDenied(r, p)
        PROVE  UNCHANGED config
    BY <1>1 DEF ReadTag, ReadTagDenied
  <1>2. ASSUME NEW p \in Public,
               \/ PackOnly(r, p) \/ Upload(r, p) \/ UploadConflicts(r, p)
               \/ UploadUnanswered(r, p) \/ UploadFails(r, p)
        PROVE  UNCHANGED config
    BY <1>2 DEF PackOnly, Upload, UploadConflicts, UploadUnanswered, UploadFails
  <1>3. Start(r) \/ AllRead(r) \/ Plan(r) \/ PrepareFiles(r) \/ MakeTags(r)
        \/ CommitFiles(r) \/ PullRebase(r) \/ ValidatePush(r) \/ PublishSettles(r)
           => UNCHANGED config
    BY DEF Start, AllRead, Plan, PrepareFiles, MakeTags, CommitFiles, PullRebase,
           ValidatePush, PublishSettles
  <1>4. PushBranch(r) \/ PushBranchUnanswered(r) \/ PushTags(r) \/ PushTagsBreaks(r)
        \/ SkipPush(r) \/ Hooks(r) \/ Cleanup(r) \/ StepThrows(r) \/ EndsThrowing(r) \/ Crash(r)
           => UNCHANGED config
    BY DEF PushBranch, PushBranchUnanswered, PushTags, PushTagsBreaks, SkipPush, Hooks, Cleanup,
           StepThrows, EndsThrowing, Crash
  <1> QED  BY <1>1, <1>2, <1>3, <1>4 DEF Advance, Misfortune

\* A dry run changes neither the remote, nor the registry, nor its git history,
\* whatever else its configuration says and whatever other runs do meanwhile.
THEOREM DryRunsArePure == Spec => DryRunIsPure
  <1>1. Init => DryIsQuiet
    BY DEF Init, DryIsQuiet
  <1>2. Typed /\ DryIsQuiet /\ [Next]_vars => DryIsQuiet' /\ [DryStepsArePure]_vars
    <2>1. CASE UNCHANGED vars
      BY <2>1 DEF vars, memory, rest, DryIsQuiet
    <2>2. CASE DeveloperPushes
      BY <2>2 DEF DeveloperPushes, memory, DryIsQuiet, DryStepsArePure
    <2>3. ASSUME Typed, DryIsQuiet, NEW r \in Runners,
                 Start(r) \/ Advance(r) \/ Misfortune(r)
          PROVE  DryIsQuiet' /\ DryStepsArePure
      <3>1. UNCHANGED config /\ \A q \in Runners \ {r} : Untouched(q)
        BY <2>3, ConfigIsKept, OthersUntouched DEF Typed
      <3>2. config[r].dryRun =>
               /\ pc'[r] \in {"idle", "ended"} \cup DrySteps
               /\ pc[r] \in Steps => UNCHANGED <<shared, copy>>
        BY <2>3, RunStepDry
      <3>3. DryIsQuiet'
        BY <2>3, <3>1, <3>2 DEF DryIsQuiet, Untouched
      <3>4. DryStepsArePure
        BY <3>1, <3>2 DEF DryStepsArePure, Untouched
      <3> QED  BY <3>3, <3>4
    <2> QED  BY <2>1, <2>2, <2>3 DEF Next
  <1> QED  BY <1>1, <1>2, TypedHolds, PTL DEF Spec, DryRunIsPure

-----------------------------------------------------------------------------
(* Pushed tags mark commits of the branch, where every run has a fresh clone. *)

\* A working copy is a prefix of the branch, perhaps with a publish commit on
\* top; its tags mark commits of the one or the other.
RunTagsOnMain(r) ==
    /\ base[r] \in 1..Len(main)
    /\ pc[r] \in Steps =>
          /\ own[r] # 0 => config[r].autoCommit
          /\ \A t \in tags[r] : t.at \in IdsOnMain \/ (own[r] # 0 /\ t.at = own[r])

TagsOnMain == PushedTagsOnMain /\ \A r \in Runners : RunTagsOnMain(r)

\* The branch only grows.
LEMMA AppendKeepsIds ==
    ASSUME NEW s \in Seq(Commit), NEW c \in Commit
    PROVE  /\ {s[i].id : i \in 1..Len(s)} \subseteq
                  {Append(s, c)[i].id : i \in 1..Len(Append(s, c))}
           /\ c.id \in {Append(s, c)[i].id : i \in 1..Len(Append(s, c))}
           /\ Len(s) <= Len(Append(s, c)) /\ Len(s) \in Nat /\ Len(Append(s, c)) \in Nat
  <1>1. Len(Append(s, c)) = Len(s) + 1 /\ Len(s) \in Nat
    OBVIOUS
  <1>2. \A i \in 1..Len(s) : Append(s, c)[i] = s[i]
    OBVIOUS
  <1>3. Append(s, c)[Len(s) + 1] = c
    OBVIOUS
  <1> QED  BY <1>1, <1>2, <1>3

Grows == IdsOnMain \subseteq IdsOnMain' /\ Len(main) \in Nat /\ Len(main') \in Nat
         /\ Len(main) <= Len(main')

LEMMA MainGrows ==
    ASSUME TypeOK, main' = main \/ \E c \in Commit : main' = Append(main, c)
    PROVE  Grows
  <1>1. main \in Seq(Commit)
    BY DEF TypeOK, Commit
  <1>2. CASE main' = main
    BY <1>1, <1>2 DEF Grows, IdsOnMain
  <1>3. CASE \E c \in Commit : main' = Append(main, c)
    BY <1>1, <1>3, AppendKeepsIds DEF Grows, IdsOnMain
  <1> QED  BY <1>2, <1>3

LEMMA PublishCommitIsCommit ==
    ASSUME TypeOK, NEW r \in Runners
    PROVE  PublishCommit(r) \in Commit /\ PublishCommit(r).id = own[r]
  <1>1. "none" \in Levels /\ own[r] \in Nat /\ DOMAIN plan[r] \in SUBSET Packages
    BY DEF Levels, TypeOK, Public
  <1> QED  BY <1>1 DEF PublishCommit, Commit

LEMMA RunStepGrows ==
    ASSUME TypeOK, NEW r \in Runners, Start(r) \/ Advance(r) \/ Misfortune(r)
    PROVE  Grows
  <1> USE DEF shared
  <1> DEFINE Goal == main' = main \/ \E c \in Commit : main' = Append(main, c)
  <1>1. ASSUME NEW p \in Public, ReadTag(r, p) \/ ReadTagDenied(r, p)
        PROVE  Goal
    BY <1>1 DEF ReadTag, ReadTagDenied
  <1>2. ASSUME NEW p \in Public,
               \/ PackOnly(r, p) \/ Upload(r, p) \/ UploadConflicts(r, p)
               \/ UploadUnanswered(r, p) \/ UploadFails(r, p)
        PROVE  Goal
    BY <1>2 DEF PackOnly, Upload, UploadConflicts, UploadUnanswered, UploadFails
  <1>3. Start(r) \/ AllRead(r) \/ Plan(r) \/ PrepareFiles(r) \/ MakeTags(r)
        \/ CommitFiles(r) \/ PullRebase(r) \/ ValidatePush(r) \/ PublishSettles(r) => Goal
    BY DEF Start, AllRead, Plan, PrepareFiles, MakeTags, CommitFiles, PullRebase,
           ValidatePush, PublishSettles
  <1>4. PushBranch(r) \/ PushBranchUnanswered(r) => Goal
    BY PublishCommitIsCommit DEF PushBranch, PushBranchUnanswered, BranchPushed
  <1>5. PushTags(r) \/ PushTagsBreaks(r) \/ SkipPush(r) \/ Hooks(r) \/ Cleanup(r) \/ StepThrows(r)
        \/ EndsThrowing(r) \/ Crash(r) => Goal
    BY DEF PushTags, PushTagsBreaks, SkipPush, Hooks, Cleanup, StepThrows, EndsThrowing, Crash
  <1>6. Goal
    BY <1>1, <1>2, <1>3, <1>4, <1>5 DEF Advance, Misfortune
  <1> QED  BY <1>6, MainGrows

LEMMA UntouchedOnMain ==
    ASSUME NEW q \in Runners, RunTagsOnMain(q), Untouched(q), Grows
    PROVE  RunTagsOnMain(q)'
  <1>1. base'[q] \in 1..Len(main')
    BY DEF RunTagsOnMain, Untouched, Grows
  <1> QED  BY <1>1 DEF RunTagsOnMain, Untouched, Grows

\* HEAD is a commit of the branch or the publish commit.
LEMMA HeadIsKnown ==
    ASSUME NEW r \in Runners, base[r] \in 1..Len(main)
    PROVE  HeadOf(r) \in IdsOnMain \/ (own[r] # 0 /\ HeadOf(r) = own[r])
  BY DEF HeadOf, IdsOnMain

LEMMA RunStepOnMain ==
    ASSUME Typed, OnTrack, TagsOnMain, FreshClone, NEW r \in Runners,
           Start(r) \/ Advance(r) \/ Misfortune(r)
    PROVE  RunTagsOnMain(r)' /\ PushedTagsOnMain'
  <1> USE DEF Typed, TypeOK, TagsOnMain, Steps, shared, copy, memory, rest
  <1> DEFINE Goal == RunTagsOnMain(r)' /\ PushedTagsOnMain'
  <1>1. Grows /\ RunTagsOnMain(r)
    BY RunStepGrows
  <1>2. UNCHANGED remoteTags => PushedTagsOnMain'
    BY <1>1 DEF PushedTagsOnMain, Grows
  <1>3. base'[r] = base[r] \/ base'[r] = Len(main) => base'[r] \in 1..Len(main')
    BY <1>1 DEF RunTagsOnMain, Grows
  \* Steps that leave the working copy alone.
  <1>4. ASSUME pc[r] \in Steps, UNCHANGED <<remoteTags, copy, config>>
        PROVE  Goal
    BY <1>1, <1>2, <1>3, <1>4 DEF RunTagsOnMain, Grows
  <1>5. CASE Start(r)
    <2>1. /\ own'[r] = 0 /\ tags'[r] = remoteTags /\ base'[r] = Len(main)
          /\ UNCHANGED <<main, remoteTags>>
      BY <1>5 DEF Start
    <2> QED  BY <1>2, <1>3, <2>1 DEF RunTagsOnMain, PushedTagsOnMain, IdsOnMain
  <1>6. ASSUME NEW p \in Public, ReadTag(r, p) \/ ReadTagDenied(r, p)
        PROVE  Goal
    BY <1>4, <1>6 DEF ReadTag, ReadTagDenied
  <1>7. CASE AllRead(r) \/ Plan(r) \/ PrepareFiles(r)
    BY <1>4, <1>7 DEF AllRead, Plan, PrepareFiles
  <1>8. CASE ValidatePush(r) \/ PublishSettles(r) \/ SkipPush(r) \/ Hooks(r) \/ Cleanup(r)
    BY <1>4, <1>8 DEF ValidatePush, PublishSettles, SkipPush, Hooks, Cleanup
  <1>9. CASE StepThrows(r) \/ EndsThrowing(r) \/ Crash(r)
    BY <1>4, <1>9 DEF StepThrows, EndsThrowing, Crash, StepsUnderTry
  <1>10. ASSUME NEW p \in Public,
                \/ PackOnly(r, p) \/ Upload(r, p) \/ UploadConflicts(r, p)
                \/ UploadUnanswered(r, p) \/ UploadFails(r, p)
         PROVE  Goal
    BY <1>4, <1>10 DEF PackOnly, Upload, UploadConflicts, UploadUnanswered, UploadFails, Attempts
  <1>11. CASE MakeTags(r)
    <2>1. UNCHANGED <<remoteTags, main, base, own, config>> /\ pc[r] \in Steps
      BY <1>11 DEF MakeTags
    <2>2. \A t \in tags'[r] : t \in tags[r] \/ t.at = HeadOf(r)
      <3>1. CASE UNCHANGED tags
        BY <3>1
      <3>2. CASE CreateTags(r)
        <4> DEFINE wanted == TagsOf(plan[r], HeadOf(r), <<r, runs[r]>>)
                   free   == Adoptable(wanted, tags[r])
        <4>1. \A t \in free : t.at = HeadOf(r)
          BY AdoptableIsTaken DEF TagsOf
        <4>2. \E made \in SUBSET free : tags' = [tags EXCEPT ![r] = @ \cup made]
          BY <3>2 DEF CreateTags
        <4> HIDE DEF free
        <4> QED  BY <4>1, <4>2
      <3> QED  BY <1>11, <3>1, <3>2 DEF MakeTags
    <2>3. HeadOf(r) \in IdsOnMain \/ (own[r] # 0 /\ HeadOf(r) = own[r])
      BY <1>1, HeadIsKnown DEF RunTagsOnMain
    <2> QED  BY <1>1, <1>2, <1>3, <2>1, <2>2, <2>3 DEF RunTagsOnMain, IdsOnMain
  <1>12. CASE CommitFiles(r)
    <2>1. UNCHANGED <<remoteTags, main, base, tags, config>> /\ pc[r] = "committing"
      BY <1>12 DEF CommitFiles
    <2>2. own[r] = 0
      BY <2>1 DEF OnTrack, RunOnTrack
    <2>3. own'[r] = 0 \/ config[r].autoCommit
      BY <1>12, <2>2 DEF CommitFiles
    <2> QED  BY <1>1, <1>2, <1>3, <2>1, <2>2, <2>3 DEF RunTagsOnMain, IdsOnMain
  <1>13. CASE PullRebase(r)
    <2>1. UNCHANGED <<remoteTags, main, own, config>> /\ pc[r] = "pulling"
      BY <1>13 DEF PullRebase
    <2>2. base'[r] = base[r] \/ base'[r] = Len(main)
      BY <1>13 DEF PullRebase
    <2>3. tags'[r] \subseteq tags[r] \cup remoteTags
      <3>1. CASE UNCHANGED tags
        BY <3>1
      <3>2. CASE ~UNCHANGED tags
        <4> DEFINE received == {main[i].id : i \in (base[r] + 1)..Len(main)}
                   fetched  == Adoptable({t \in remoteTags : t.at \in received}, tags[r])
        <4>1. tags' = [tags EXCEPT ![r] = @ \cup fetched]
          BY <1>13, <3>2 DEF PullRebase
        <4>2. fetched \subseteq remoteTags
          BY AdoptableIsTaken
        <4> HIDE DEF fetched
        <4> QED  BY <4>1, <4>2
      <3> QED  BY <3>1, <3>2
    <2> QED  BY <1>1, <1>2, <1>3, <2>1, <2>2, <2>3
             DEF RunTagsOnMain, PushedTagsOnMain, IdsOnMain
  <1>14. CASE PushBranch(r) \/ PushBranchUnanswered(r)
    <2>1. CASE UNCHANGED <<shared, copy>>
      BY <1>4, <1>14, <2>1 DEF PushBranch, PushBranchUnanswered
    <2>2. CASE BranchPushed(r)
      <3>1. UNCHANGED <<remoteTags, tags, config>> /\ own'[r] = 0 /\ base'[r] = Len(main')
            /\ pc[r] = "pushing"
        BY <1>14, <2>2 DEF BranchPushed, PushBranch, PushBranchUnanswered
      <3>2. own[r] # 0 => own[r] \in IdsOnMain'
        <4>1. main \in Seq(Commit)
          BY DEF Commit
        <4>2. own[r] # 0 => main' = Append(main, PublishCommit(r))
          BY <2>2 DEF BranchPushed
        <4> DEFINE c == PublishCommit(r)
        <4>3. c \in Commit /\ c.id = own[r]
          BY PublishCommitIsCommit
        <4> HIDE DEF c
        <4>4. c.id \in {Append(main, c)[i].id : i \in 1..Len(Append(main, c))}
          BY <4>1, <4>3, AppendKeepsIds
        <4>5. own[r] # 0 => main' = Append(main, c)
          BY <4>2 DEF c
        <4> QED  BY <4>3, <4>4, <4>5 DEF IdsOnMain
      <3>3. Len(main') \in 1..Len(main')
        BY <1>1 DEF RunTagsOnMain, Grows
      <3> QED  BY <1>1, <1>2, <3>1, <3>2, <3>3 DEF RunTagsOnMain, Grows
    <2> QED  BY <1>14, <2>1, <2>2 DEF PushBranch, PushBranchUnanswered
  <1>15. CASE PushTags(r) \/ PushTagsBreaks(r)
    <2>1. UNCHANGED <<main, copy, config>> /\ pc[r] = "pushingTags"
      BY <1>15 DEF PushTags, PushTagsBreaks
    <2>2. UNCHANGED remoteTags \/
          (PushesTags(r) /\ remoteTags' \subseteq remoteTags \cup tags[r])
      BY <1>15, AdoptableIsTaken DEF PushTags, PushTagsBreaks
    <2>3. PushesTags(r) => own[r] = 0
      BY <1>1, <2>1 DEF OnTrack, RunOnTrack, RunTagsOnMain, PushesTags, PushesBranch
    <2>4. PushedTagsOnMain'
      BY <1>1, <1>2, <2>1, <2>2, <2>3 DEF RunTagsOnMain, PushedTagsOnMain, IdsOnMain
    <2> QED  BY <1>1, <1>3, <2>1, <2>4 DEF RunTagsOnMain, IdsOnMain
  <1> QED  BY <1>5, <1>6, <1>7, <1>8, <1>9, <1>10, <1>11, <1>12, <1>13, <1>14, <1>15
           DEF Advance, Misfortune

LEMMA TagsOnMainHolds == ASSUME FreshClone PROVE Spec => []TagsOnMain
  <1>1. Init => TagsOnMain
    <2> SUFFICES ASSUME Init PROVE TagsOnMain
      OBVIOUS
    <2>1. Len(main) = 1 /\ main[1].id = 1 /\ \A t \in remoteTags : t.at = 1
      BY DEF Init, FirstTags, DevCommit
    <2>2. \A r \in Runners : base[r] = 1 /\ pc[r] = "idle"
      BY DEF Init
    <2>3. 1 \in IdsOnMain
      BY <2>1 DEF IdsOnMain
    <2> QED  BY <2>1, <2>2, <2>3
             DEF TagsOnMain, PushedTagsOnMain, RunTagsOnMain, Steps
  <1>2. Typed /\ OnTrack /\ TagsOnMain /\ [Next]_vars => TagsOnMain'
    <2>1. CASE UNCHANGED vars
      BY <2>1 DEF vars, shared, copy, memory, rest, TagsOnMain, PushedTagsOnMain,
                  RunTagsOnMain, IdsOnMain
    <2>2. ASSUME Typed, TagsOnMain, DeveloperPushes
          PROVE  TagsOnMain'
      <3>1. \A c \in DevCommits : DevCommit(lastId', c[1], c[2]) \in Commit
        <4>1. lastId' \in Nat
          BY <2>2 DEF DeveloperPushes, Typed, TypeOK
        <4> QED  BY <4>1, PipelineAssumption DEF DevCommit, Commit
      <3>2. Grows
        BY <2>2, <3>1, MainGrows DEF DeveloperPushes, Typed
      <3>3. UNCHANGED remoteTags /\ \A q \in Runners : Untouched(q)
        BY <2>2 DEF DeveloperPushes, copy, memory, Untouched
      <3> QED  BY <2>2, <3>2, <3>3, UntouchedOnMain
               DEF TagsOnMain, PushedTagsOnMain, Grows
    <2>3. ASSUME Typed, OnTrack, TagsOnMain, NEW r \in Runners,
                 Start(r) \/ Advance(r) \/ Misfortune(r)
          PROVE  TagsOnMain'
      <3>1. RunTagsOnMain(r)' /\ PushedTagsOnMain'
        BY <2>3, RunStepOnMain
      <3>2. Grows /\ \A q \in Runners \ {r} : Untouched(q)
        BY <2>3, OthersUntouched, RunStepGrows DEF Typed
      <3>3. \A q \in Runners \ {r} : RunTagsOnMain(q)'
        BY <2>3, <3>2, UntouchedOnMain DEF TagsOnMain
      <3> QED  BY <3>1, <3>3 DEF TagsOnMain
    <2> QED  BY <2>1, <2>2, <2>3 DEF Next
  <1> QED  BY <1>1, <1>2, TypedHolds, OnTrackHolds, PTL DEF Spec

\* If every run has a fresh clone, no tag is pushed for a commit that is not on
\* the branch, though branch and tags are pushed by two commands.
THEOREM PushedTagsMarkMain == ASSUME FreshClone PROVE Spec => []PushedTagsOnMain
  <1>1. TagsOnMain => PushedTagsOnMain
    BY DEF TagsOnMain
  <1> QED  BY <1>1, TagsOnMainHolds, PTL

-----------------------------------------------------------------------------
(* What a run remembers. *)

\* A run plans with the dist-tags of all public packages.
EverythingRead ==
    \A r \in Runners : pc[r] = "planning" => Public \subseteq DOMAIN seen[r]

\* What a run has read and planned changes in three steps only.
LEMMA MemoryFrame ==
    ASSUME TypeOK, NEW r \in Runners, Start(r) \/ Advance(r) \/ Misfortune(r)
    PROVE  /\ \A q \in Runners \ {r} : seen'[q] = seen[q] /\ plan'[q] = plan[q]
           /\ \/ Start(r)
              \/ Plan(r)
              \/ AllRead(r)
              \/ /\ pc'[r] # "planning"
                 /\ UNCHANGED plan
  <1> USE DEF TypeOK, memory, GoTo, Throws
  <1> DEFINE Others == \A q \in Runners \ {r} : seen'[q] = seen[q] /\ plan'[q] = plan[q]
             Same   == pc'[r] # "planning" /\ UNCHANGED plan
             Goal   == Others /\ (Start(r) \/ Plan(r) \/ AllRead(r) \/ Same)
  <1>1. CASE Start(r)
    BY <1>1 DEF Start, ClearMemory
  <1>2. ASSUME NEW p \in Public, ReadTag(r, p) \/ ReadTagDenied(r, p)
        PROVE  Goal
    BY <1>2 DEF ReadTag, ReadTagDenied, Saw
  <1>3. CASE AllRead(r)
    BY <1>3 DEF AllRead
  <1>4. CASE Plan(r)
    BY <1>4 DEF Plan
  <1>5. CASE \/ PrepareFiles(r) \/ ValidatePush(r) \/ PublishSettles(r)
             \/ SkipPush(r) \/ Hooks(r) \/ Cleanup(r)
    BY <1>5 DEF PrepareFiles, ValidatePush, PublishSettles, SkipPush, Hooks, Cleanup
  <1>6. CASE MakeTags(r)
    BY <1>6 DEF MakeTags
  <1>7. CASE CommitFiles(r) \/ PullRebase(r)
    BY <1>7 DEF CommitFiles, PullRebase
  <1>8. ASSUME NEW p \in Public,
               \/ PackOnly(r, p) \/ Upload(r, p) \/ UploadConflicts(r, p)
               \/ UploadUnanswered(r, p) \/ UploadFails(r, p)
        PROVE  Goal
    BY <1>8 DEF PackOnly, Upload, UploadConflicts, UploadUnanswered, UploadFails, Attempts
  <1>9. CASE PushBranch(r) \/ PushBranchUnanswered(r)
    BY <1>9 DEF PushBranch, PushBranchUnanswered
  <1>10. CASE PushTags(r) \/ PushTagsBreaks(r)
    BY <1>10 DEF PushTags, PushTagsBreaks
  <1>11. CASE StepThrows(r) \/ EndsThrowing(r) \/ Crash(r)
    BY <1>11 DEF StepThrows, EndsThrowing, Crash
  <1> QED  BY <1>1, <1>2, <1>3, <1>4, <1>5, <1>6, <1>7, <1>8, <1>9, <1>10, <1>11
           DEF Advance, Misfortune

LEMMA EverythingReadHolds == Spec => []EverythingRead
  <1>1. Init => EverythingRead
    BY DEF Init, EverythingRead
  <1>2. Typed /\ EverythingRead /\ [Next]_vars => EverythingRead'
    <2>1. CASE UNCHANGED vars
      BY <2>1 DEF vars, memory, EverythingRead
    <2>2. CASE DeveloperPushes
      BY <2>2 DEF DeveloperPushes, memory, EverythingRead
    <2>3. ASSUME Typed, EverythingRead, NEW r \in Runners,
                 Start(r) \/ Advance(r) \/ Misfortune(r)
          PROVE  EverythingRead'
      <3>1. TypeOK
        BY <2>3 DEF Typed
      <3>2. \A q \in Runners \ {r} : seen'[q] = seen[q] /\ pc'[q] = pc[q]
        BY <2>3, <3>1, MemoryFrame, OthersUntouched DEF Untouched
      <3>3. pc'[r] = "planning" => Public \subseteq DOMAIN seen'[r]
        <4>1. CASE Start(r)
          BY <3>1, <4>1 DEF Start, GoTo, TypeOK
        <4>2. CASE Plan(r)
          BY <3>1, <4>2, PlanIsMade DEF GoTo, TypeOK
        <4>3. CASE AllRead(r)
          BY <4>3 DEF AllRead, memory
        <4> QED  BY <2>3, <3>1, <4>1, <4>2, <4>3, MemoryFrame
      <3> QED  BY <2>3, <3>2, <3>3 DEF EverythingRead
    <2> QED  BY <2>1, <2>2, <2>3 DEF Next
  <1> QED  BY <1>1, <1>2, TypedHolds, PTL DEF Spec

-----------------------------------------------------------------------------
(* Where a working copy stands in the history. *)

UpToPulling == {"reading", "planning", "preparing", "tagging", "committing", "pulling"}

\* A copy holds the branch up to the commit the run began with, or further once
\* it pulled.
PlacedAt(r) ==
    /\ commitSha[r] \in 1..base[r] /\ base[r] \in 1..Len(main)
    /\ pc[r] \in UpToPulling => base[r] = commitSha[r]

Placed == \A r \in Runners : PlacedAt(r)

\* The branch, the ids handed out and the publish commits change together.
LEMMA HistoryFrame ==
    ASSUME TypeOK, NEW r \in Runners, Start(r) \/ Advance(r) \/ Misfortune(r)
    PROVE  \/ UNCHANGED <<main, lastId, own>>
           \/ UNCHANGED <<main, lastId>> /\ own' = [own EXCEPT ![r] = 0]
           \/ UNCHANGED main /\ lastId' = lastId + 1 /\ own' = [own EXCEPT ![r] = lastId']
           \/ /\ UNCHANGED lastId
              /\ own[r] # 0 /\ own' = [own EXCEPT ![r] = 0]
              /\ main' = Append(main, PublishCommit(r))
  <1> USE DEF shared, copy, rest
  <1> DEFINE Same  == UNCHANGED <<main, lastId, own>>
             Begun == UNCHANGED <<main, lastId>> /\ own' = [own EXCEPT ![r] = 0]
             Made  == /\ UNCHANGED main /\ lastId' = lastId + 1
                      /\ own' = [own EXCEPT ![r] = lastId']
             Sent  == /\ UNCHANGED lastId
                      /\ own[r] # 0 /\ own' = [own EXCEPT ![r] = 0]
                      /\ main' = Append(main, PublishCommit(r))
  <1>1. CASE Start(r)
    BY <1>1 DEF Start
  <1>2. ASSUME NEW p \in Public, ReadTag(r, p) \/ ReadTagDenied(r, p)
        PROVE  Same
    BY <1>2 DEF ReadTag, ReadTagDenied
  <1>3. CASE AllRead(r) \/ Plan(r) \/ PrepareFiles(r) \/ ValidatePush(r) \/ PublishSettles(r)
    BY <1>3 DEF AllRead, Plan, PrepareFiles, ValidatePush, PublishSettles
  <1>4. CASE MakeTags(r)
    BY <1>4 DEF MakeTags
  <1>5. CASE CommitFiles(r)
    BY <1>5 DEF CommitFiles
  <1>6. CASE PullRebase(r)
    BY <1>6 DEF PullRebase
  <1>7. ASSUME NEW p \in Public,
               \/ PackOnly(r, p) \/ Upload(r, p) \/ UploadConflicts(r, p)
               \/ UploadUnanswered(r, p) \/ UploadFails(r, p)
        PROVE  Same
    BY <1>7 DEF PackOnly, Upload, UploadConflicts, UploadUnanswered, UploadFails
  <1>8. CASE PushBranch(r) \/ PushBranchUnanswered(r)
    <2>1. UNCHANGED lastId
      BY <1>8 DEF PushBranch, PushBranchUnanswered
    <2>2. CASE UNCHANGED <<shared, copy>>
      BY <2>1, <2>2
    <2>3. CASE BranchPushed(r)
      <3>1. CASE own[r] = 0
        <4>1. main' = main /\ own' = [own EXCEPT ![r] = 0]
          BY <2>3, <3>1 DEF BranchPushed
        <4>2. own' = own
          BY <3>1, <4>1 DEF TypeOK
        <4> QED  BY <2>1, <4>1, <4>2
      <3>2. CASE own[r] # 0
        <4>1. Sent
          BY <2>1, <2>3, <3>2 DEF BranchPushed
        <4> QED  BY <4>1
      <3> QED  BY <3>1, <3>2
    <2> QED  BY <1>8, <2>2, <2>3 DEF PushBranch, PushBranchUnanswered
  <1>9. CASE PushTags(r) \/ PushTagsBreaks(r) \/ SkipPush(r) \/ Hooks(r) \/ Cleanup(r)
    BY <1>9 DEF PushTags, PushTagsBreaks, SkipPush, Hooks, Cleanup
  <1>10. CASE StepThrows(r) \/ EndsThrowing(r) \/ Crash(r)
    BY <1>10 DEF StepThrows, EndsThrowing, Crash
  <1> QED  BY <1>1, <1>2, <1>3, <1>4, <1>5, <1>6, <1>7, <1>8, <1>9, <1>10
           DEF Advance, Misfortune

LEMMA RunStepPlaced ==
    ASSUME TypeOK, Placed, NEW r \in Runners, Start(r) \/ Advance(r) \/ Misfortune(r)
    PROVE  PlacedAt(r)'
  <1> USE DEF TypeOK, shared, copy, memory, rest, GoTo, Throws, UpToPulling
  <1>1. Len(main) \in Nat /\ Len(main') \in Nat /\ Len(main) <= Len(main')
    BY RunStepGrows DEF Grows
  <1>2. PlacedAt(r)
    BY DEF Placed
  <1> DEFINE Goal == PlacedAt(r)'
  \* Steps that leave the copy and the run's commit alone.
  <1>3. ASSUME UNCHANGED <<base, commitSha>>,
               pc'[r] \in UpToPulling => pc[r] \in UpToPulling
        PROVE  Goal
    BY <1>1, <1>2, <1>3 DEF PlacedAt
  \* Steps after which the copy is up to date with the branch.
  <1>4. ASSUME UNCHANGED commitSha, base'[r] = Len(main'), pc'[r] \notin UpToPulling
        PROVE  Goal
    BY <1>1, <1>2, <1>4 DEF PlacedAt
  <1>5. CASE Start(r)
    <2>1. commitSha'[r] = Len(main') /\ base'[r] = Len(main')
      BY <1>5 DEF Start, ClearMemory
    <2>2. Len(main') >= 1
      BY <1>1, <1>2 DEF PlacedAt
    <2> QED  BY <1>1, <2>1, <2>2 DEF PlacedAt
  <1>6. ASSUME NEW p \in Public, ReadTag(r, p) \/ ReadTagDenied(r, p)
        PROVE  Goal
    BY <1>3, <1>6 DEF ReadTag, ReadTagDenied
  <1>7. CASE AllRead(r) \/ Plan(r) \/ PrepareFiles(r) \/ MakeTags(r) \/ CommitFiles(r)
    BY <1>3, <1>7 DEF AllRead, Plan, PrepareFiles, MakeTags, CommitFiles
  <1>8. CASE PullRebase(r)
    <2>1. UNCHANGED <<commitSha, main>> /\ pc'[r] = "retagging"
      BY <1>8 DEF PullRebase
    <2>2. UNCHANGED base \/ base'[r] = Len(main')
      BY <1>8, <2>1 DEF PullRebase
    <2> QED  BY <1>3, <1>4, <2>1, <2>2
  <1>9. CASE ValidatePush(r) \/ PublishSettles(r) \/ SkipPush(r) \/ Hooks(r) \/ Cleanup(r)
    BY <1>3, <1>9 DEF ValidatePush, PublishSettles, SkipPush, Hooks, Cleanup
  <1>10. ASSUME NEW p \in Public,
                \/ PackOnly(r, p) \/ Upload(r, p) \/ UploadConflicts(r, p)
                \/ UploadUnanswered(r, p) \/ UploadFails(r, p)
         PROVE  Goal
    BY <1>3, <1>10 DEF PackOnly, Upload, UploadConflicts, UploadUnanswered, UploadFails, Attempts
  <1>11. CASE PushBranch(r) \/ PushBranchUnanswered(r)
    <2>1. UNCHANGED commitSha /\ pc'[r] \in {"pushingTags", "cleanup"}
      BY <1>11 DEF PushBranch, PushBranchUnanswered
    <2>2. UNCHANGED base \/ base'[r] = Len(main')
      BY <1>11 DEF PushBranch, PushBranchUnanswered, BranchPushed
    <2> QED  BY <1>3, <1>4, <2>1, <2>2
  <1>12. CASE PushTags(r) \/ PushTagsBreaks(r)
    BY <1>3, <1>12 DEF PushTags, PushTagsBreaks
  <1>13. CASE StepThrows(r) \/ EndsThrowing(r) \/ Crash(r)
    BY <1>3, <1>13 DEF StepThrows, EndsThrowing, Crash
  <1> QED  BY <1>5, <1>6, <1>7, <1>8, <1>9, <1>10, <1>11, <1>12, <1>13
           DEF Advance, Misfortune

LEMMA DeveloperGrows ==
    ASSUME TypeOK, DeveloperPushes
    PROVE  Grows
  <1>1. lastId' \in Nat
    BY DEF DeveloperPushes, TypeOK
  <1>2. \A c \in DevCommits : DevCommit(lastId', c[1], c[2]) \in Commit
    BY <1>1, PipelineAssumption DEF DevCommit, Commit
  <1> QED  BY <1>2, MainGrows DEF DeveloperPushes

LEMMA PlacedHolds == Spec => []Placed
  <1>1. Init => Placed
    BY DEF Init, Placed, PlacedAt
  <1>2. Typed /\ Placed /\ [Next]_vars => Placed'
    <2>1. CASE UNCHANGED vars
      BY <2>1 DEF vars, shared, copy, memory, Placed, PlacedAt
    <2>2. ASSUME Typed, Placed, DeveloperPushes
          PROVE  Placed'
      <3>1. Len(main) \in Nat /\ Len(main') \in Nat /\ Len(main) <= Len(main')
        BY <2>2, DeveloperGrows DEF Grows, Typed
      <3>2. UNCHANGED <<base, commitSha, pc>>
        BY <2>2 DEF DeveloperPushes, copy, memory
      <3> QED  BY <2>2, <3>1, <3>2 DEF Placed, PlacedAt
    <2>3. ASSUME Typed, Placed, NEW r \in Runners, Start(r) \/ Advance(r) \/ Misfortune(r)
          PROVE  Placed'
      <3>1. PlacedAt(r)'
        BY <2>3, RunStepPlaced DEF Typed
      <3>2. Len(main) \in Nat /\ Len(main') \in Nat /\ Len(main) <= Len(main')
        BY <2>3, RunStepGrows DEF Grows, Typed
      <3>3. \A q \in Runners \ {r} : Untouched(q)
        BY <2>3, OthersUntouched DEF Typed
      <3>4. \A q \in Runners \ {r} : PlacedAt(q)'
        BY <2>3, <3>2, <3>3 DEF Placed, PlacedAt, Untouched
      <3> QED  BY <3>1, <3>4 DEF Placed
    <2> QED  BY <2>1, <2>2, <2>3 DEF Next
  <1> QED  BY <1>1, <1>2, TypedHolds, PTL DEF Spec

\* git describe finds the newest tagged commit, if there is one.
LEMMA LastTaggedIsLast ==
    ASSUME TypeOK, Placed, NEW r \in Runners
    PROVE  \/ /\ LastTagged(r) = 0
              /\ \A i \in 1..commitSha[r] : \A t \in tags[r] : t.at # main[i].id
           \/ /\ LastTagged(r) \in 1..commitSha[r]
              /\ \E t \in tags[r] : t.at = main[LastTagged(r)].id
              /\ \A i \in 1..commitSha[r] : \A t \in tags[r] :
                     t.at = main[i].id => i <= LastTagged(r)
  <1> DEFINE tagged == {i \in 1..commitSha[r] : \E t \in tags[r] : t.at = main[i].id}
  <1>1. commitSha[r] \in Nat
    BY DEF TypeOK
  <1>2. CASE tagged = {}
    BY <1>2 DEF LastTagged
  <1>3. CASE tagged # {}
    <2>1. \E i \in tagged : \A j \in tagged : j <= i
      <3>1. tagged \subseteq 1..commitSha[r]
        OBVIOUS
      <3> HIDE DEF tagged
      <3> QED  BY <1>1, <1>3, <3>1, LastPosition
    <2>2. LastTagged(r) = CHOOSE i \in tagged : \A j \in tagged : j <= i
      BY <1>3 DEF LastTagged
    <2>3. LastTagged(r) \in tagged /\ \A j \in tagged : j <= LastTagged(r)
      <3> HIDE DEF tagged
      <3> QED  BY <2>1, <2>2
    <2> QED  BY <2>3
  <1> QED  BY <1>2, <1>3

LEMMA RangeIsTyped ==
    ASSUME TypeOK, Placed, NEW r \in Runners
    PROVE  /\ main \in Seq(Commit) /\ \A i \in 1..Len(main) : main[i] \in Commit
           /\ \A c \in CommitsToRelease(r) : c \in Commit
  <1>1. /\ main \in Seq(Commit) /\ Len(main) \in Nat
        /\ commitSha[r] \in 1..Len(main) /\ base[r] \in Nat /\ commitSha[r] \in Nat
    BY DEF TypeOK, Commit, Placed, PlacedAt
  <1>2. \A i \in 1..Len(main) : main[i] \in Commit
    BY <1>1
  <1>3. LastTagged(r) \in Nat
    BY <1>1, LastTaggedIsLast
  <1>4. {commitSha[r]} \subseteq 1..Len(main)
        /\ (LastTagged(r) + 1)..commitSha[r] \subseteq 1..Len(main)
    BY <1>1, <1>3
  <1> QED  BY <1>1, <1>2, <1>4 DEF CommitsToRelease

-----------------------------------------------------------------------------
(* Versions are new, where one runner releases and every dist-tag is readable. *)

OneRunner == \A q, r \in Runners : q = r

\* "latest" names a published version that none is newer than.
LatestIsNewest ==
    /\ \A p \in Public : latest[p] \in Version /\ Released(p, latest[p])
    /\ \A e \in registry : e.version \in Version /\ ~Older(latest[e.pkg], e.version)

PlanIsNew(r) ==
    \A p \in DOMAIN plan[r] :
        /\ plan[r][p] \in Version
        /\ \A q \in DOMAIN plan[r] : GroupOf[q] = GroupOf[p] => plan[r][q] = plan[r][p]
        /\ \A e \in registry : GroupOf[e.pkg] = GroupOf[p] => Older(e.version, plan[r][p])

\* The plan is computed from the dist-tags as they are, and stays newer than the
\* registry until the run itself uploads.
RunPlansNew(r) ==
    /\ pc[r] \in {"reading", "planning"} =>
           \A p \in DOMAIN seen[r] : seen[r][p] = latest[p]
    /\ pc[r] = "planning" => Public \subseteq DOMAIN seen[r]
    /\ pc[r] \in {"preparing", "tagging", "committing", "pulling", "retagging",
                  "validating"} => PlanIsNew(r)
    /\ pc[r] = "publishing" =>
           \A p \in DOMAIN plan[r] \ attempted[r] :
               /\ plan[r][p] \in Version
               /\ \A e \in registry : e.pkg = p => Older(e.version, plan[r][p])

PlansNew == LatestIsNewest /\ \A r \in Runners : RunPlansNew(r)

LEMMA PlanStepNew ==
    ASSUME Typed, Placed, PlansNew, NEW r \in Runners, Plan(r)
    PROVE  PlanIsNew(r)'
  <1> DEFINE commits    == CommitsToRelease(r)
             strategies == MergedStrategies(commits)
  <1>1. /\ plan'[r] = NextVersions(strategies, seen[r])
        /\ UNCHANGED registry /\ pc[r] = "planning"
    BY DEF Plan, Typed, TypeOK, shared
  <1>2. /\ \A c \in commits : c.level \in Levels
        /\ \A c \in commits : c.touches \subseteq Packages
    BY RangeIsTyped DEF Commit, Typed
  <1> HIDE DEF commits
  <1>3. \A p \in DOMAIN strategies : strategies[p] \in Strategies
    BY <1>2, MergedAreStrategies
  <1>4. DOMAIN strategies \subseteq Packages
    <2>1. DOMAIN ExplicitStrategies(commits) \subseteq Packages
      <3> SUFFICES ASSUME NEW p \in DOMAIN ExplicitStrategies(commits)
                   PROVE  p \in Packages
        OBVIOUS
      <3>1. DOMAIN ExplicitStrategies(commits) = UNION {c.touches : c \in Bumping(commits)}
        BY WhatIsBumped
      <3>2. PICK c \in Bumping(commits) : p \in c.touches
        BY <3>1
      <3> QED  BY <1>2, <3>2 DEF Bumping
    <2>2. DependentsOf(DOMAIN ExplicitStrategies(commits)) \subseteq Packages
      BY DependentsArePackages
    <2> QED  BY <2>1, <2>2, WhatIsBumped
  <1>5. /\ DOMAIN seen[r] = Public /\ Public \subseteq Packages
        /\ \A p \in Public : seen[r][p] = latest[p] /\ latest[p] \in Version
    BY <1>1 DEF PlansNew, RunPlansNew, LatestIsNewest, Typed, TypeOK, Public
  <1> HIDE DEF strategies
  <1> SUFFICES ASSUME NEW p \in DOMAIN plan'[r]
               PROVE  /\ plan'[r][p] \in Version
                      /\ \A q \in DOMAIN plan'[r] :
                             GroupOf[q] = GroupOf[p] => plan'[r][q] = plan'[r][p]
                      /\ \A e \in registry :
                             GroupOf[e.pkg] = GroupOf[p] => Older(e.version, plan'[r][p])
    BY <1>1 DEF PlanIsNew
  <1>6. /\ plan'[r][p] \in Version
        /\ \A q \in DOMAIN plan'[r] : GroupOf[q] = GroupOf[p] => plan'[r][q] = plan'[r][p]
        /\ \A q \in DOMAIN seen[r] : GroupOf[q] = GroupOf[p] => Older(seen[r][q], plan'[r][p])
    BY <1>1, <1>3, <1>4, <1>5, NextVersionsAreNewer
  <1>7. ASSUME NEW e \in registry, GroupOf[e.pkg] = GroupOf[p]
        PROVE  Older(e.version, plan'[r][p])
    <2>1. e.pkg \in Public /\ e.version \in Version /\ ~Older(latest[e.pkg], e.version)
      BY DEF PlansNew, LatestIsNewest, Typed, TypeOK
    <2>2. Older(latest[e.pkg], plan'[r][p]) /\ latest[e.pkg] \in Version
      BY <1>5, <1>6, <1>7, <2>1
    <2> QED  BY <1>6, <2>1, <2>2, OlderIsOrder
  <1> QED  BY <1>6, <1>7

\* An upload stores a version newer than all of its package.
LEMMA StoreIsNewest ==
    ASSUME Typed, PlansNew, NEW r \in Runners, NEW p \in Public,
           Attempts(r, p), Stores(r, p), UNCHANGED <<plan, pc>>
    PROVE  /\ LatestIsNewest' /\ RunPlansNew(r)'
           /\ \A q \in Public : ~Older(latest'[q], latest[q])
  <1> DEFINE v   == plan[r][p]
             new == [pkg |-> p, version |-> v, contains |-> base[r]]
  <1>1. /\ pc[r] = "publishing" /\ p \in DOMAIN plan[r] \ attempted[r]
        /\ attempted'[r] = attempted[r] \cup {p}
    BY DEF Attempts, Typed, TypeOK
  <1>2. registry' = registry \cup {new} /\ latest' = [latest EXCEPT ![p] = v]
    BY DEF Stores
  <1>3. v \in Version /\ \A e \in registry : e.pkg = p => Older(e.version, v)
    BY <1>1 DEF PlansNew, RunPlansNew
  <1>4. /\ \A q \in Public : latest[q] \in Version /\ Released(q, latest[q])
        /\ \A e \in registry : e.pkg \in Public /\ e.version \in Version
        /\ \A e \in registry : ~Older(latest[e.pkg], e.version)
    BY DEF PlansNew, LatestIsNewest, Typed, TypeOK
  <1>5. /\ latest'[p] = v /\ \A q \in Public \ {p} : latest'[q] = latest[q]
    BY <1>2 DEF Typed, TypeOK
  <1>6. new.pkg = p /\ new.version = v
    OBVIOUS
  <1> HIDE DEF new, v
  <1>7. \A q \in Public : /\ latest'[q] \in Version
                          /\ \E e \in registry' : e.pkg = q /\ e.version = latest'[q]
    <2>1. \E e \in registry' : e.pkg = p /\ e.version = v
      BY <1>2, <1>6
    <2>2. \A q \in Public : \E e \in registry' : e.pkg = q /\ e.version = latest[q]
      BY <1>2, <1>4 DEF Released
    <2> QED  BY <1>3, <1>4, <1>5, <2>1, <2>2
  <1>8. \A e \in registry' : e.version \in Version /\ ~Older(latest'[e.pkg], e.version)
    <2> SUFFICES ASSUME NEW e \in registry'
                 PROVE  e.version \in Version /\ ~Older(latest'[e.pkg], e.version)
      OBVIOUS
    <2>1. CASE e = new
      BY <1>3, <1>5, <1>6, <2>1, OlderIsOrder
    <2>2. CASE e \in registry /\ e.pkg = p
      BY <1>3, <1>4, <1>5, <2>2, OlderIsOrder
    <2>3. CASE e \in registry /\ e.pkg # p
      BY <1>4, <1>5, <2>3
    <2> QED  BY <1>2, <2>1, <2>2, <2>3
  <1>9. RunPlansNew(r)'
    <2>1. \A q \in DOMAIN plan[r] \ attempted'[r] :
              /\ plan[r][q] \in Version
              /\ \A e \in registry' : e.pkg = q => Older(e.version, plan[r][q])
      <3> SUFFICES ASSUME NEW q \in DOMAIN plan[r] \ attempted'[r]
                   PROVE  /\ plan[r][q] \in Version
                          /\ \A e \in registry' : e.pkg = q => Older(e.version, plan[r][q])
        OBVIOUS
      <3>1. q # p /\ q \in DOMAIN plan[r] \ attempted[r]
        BY <1>1
      <3>2. /\ plan[r][q] \in Version
            /\ \A e \in registry : e.pkg = q => Older(e.version, plan[r][q])
        BY <1>1, <3>1 DEF PlansNew, RunPlansNew
      <3> QED  BY <1>2, <1>6, <3>1, <3>2
    <2> QED  BY <1>1, <2>1 DEF RunPlansNew
  <1>10. \A q \in Public : ~Older(latest'[q], latest[q])
    <2>1. Older(latest[p], v)
      <3>1. PICK e \in registry : e.pkg = p /\ e.version = latest[p]
        BY <1>4 DEF Released
      <3> QED  BY <1>3, <3>1
    <2> QED  BY <1>3, <1>4, <1>5, <2>1, OlderIsOrder
  <1>11. LatestIsNewest'
    BY <1>7, <1>8 DEF LatestIsNewest, Released
  <1> QED  BY <1>9, <1>10, <1>11

LEMMA RunStepPlansNew ==
    ASSUME Typed, Placed, PlansNew, ~ReadDeniable, NEW r \in Runners,
           Start(r) \/ Advance(r) \/ Misfortune(r)
    PROVE  /\ LatestIsNewest' /\ RunPlansNew(r)'
           /\ \A q \in Public : ~Older(latest'[q], latest[q])
  <1> USE DEF Typed, TypeOK, shared, copy, memory, rest, GoTo, Throws
  <1> DEFINE Goal == /\ LatestIsNewest' /\ RunPlansNew(r)'
                     /\ \A q \in Public : ~Older(latest'[q], latest[q])
             BeforePush == {"preparing", "tagging", "committing", "pulling", "retagging",
                            "validating"}
  <1>1. UNCHANGED <<registry, latest>> =>
            LatestIsNewest' /\ \A q \in Public : ~Older(latest'[q], latest[q])
    BY OlderIsOrder DEF PlansNew, LatestIsNewest, Released
  <1>2. RunPlansNew(r)
    BY DEF PlansNew
  \* Steps that leave the registry and the plan alone.
  <1>3. ASSUME UNCHANGED <<registry, latest, plan>>,
               pc'[r] \notin {"reading", "planning", "publishing"},
               pc'[r] \in BeforePush => pc[r] \in BeforePush
        PROVE  Goal
    BY <1>1, <1>2, <1>3 DEF RunPlansNew, PlanIsNew
  <1>4. CASE Start(r)
    <2>1. /\ UNCHANGED <<registry, latest>> /\ pc'[r] = "reading" /\ seen'[r] = <<>>
      BY <1>4 DEF Start, ClearMemory
    <2> QED  BY <1>1, <2>1 DEF RunPlansNew
  <1>5. ASSUME NEW p \in Public, ReadTag(r, p) \/ ReadTagDenied(r, p)
        PROVE  Goal
    <2>1. /\ UNCHANGED <<registry, latest>> /\ pc'[r] = "reading" /\ pc[r] = "reading"
          /\ seen'[r] = [q \in DOMAIN seen[r] \cup {p} |->
                             IF q = p THEN latest[p] ELSE seen[r][q]]
      BY <1>5 DEF ReadTag, ReadTagDenied, Saw, DistTag
    <2> QED  BY <1>1, <1>2, <2>1 DEF RunPlansNew
  <1>6. CASE AllRead(r)
    <2>1. /\ UNCHANGED <<registry, latest, seen>> /\ pc'[r] = "planning"
          /\ pc[r] = "reading" /\ Public \subseteq DOMAIN seen[r]
      BY <1>6 DEF AllRead
    <2> QED  BY <1>1, <1>2, <2>1 DEF RunPlansNew
  <1>7. CASE Plan(r)
    <2>1. UNCHANGED <<registry, latest>> /\ pc'[r] = "preparing"
      BY <1>7, PlanIsMade
    <2>2. PlanIsNew(r)'
      BY <1>7, PlanStepNew
    <2> QED  BY <1>1, <2>1, <2>2 DEF RunPlansNew
  <1>8. CASE PrepareFiles(r) \/ MakeTags(r) \/ CommitFiles(r) \/ PullRebase(r)
    BY <1>3, <1>8 DEF PrepareFiles, MakeTags, CommitFiles, PullRebase
  <1>9. CASE ValidatePush(r)
    <2>1. /\ UNCHANGED <<registry, latest, plan>>
          /\ pc[r] = "validating" /\ pc'[r] \in {"cleanup", "publishing"}
      BY <1>9 DEF ValidatePush
    <2>2. \A p \in DOMAIN plan[r] :
              /\ plan[r][p] \in Version
              /\ \A e \in registry : e.pkg = p => Older(e.version, plan[r][p])
      BY <1>2, <2>1 DEF RunPlansNew, PlanIsNew
    <2> QED  BY <1>1, <2>1, <2>2 DEF RunPlansNew
  <1>10. ASSUME NEW p \in Public, Upload(r, p) \/ UploadUnanswered(r, p)
         PROVE  Goal
    BY <1>10, StoreIsNewest DEF Upload, UploadUnanswered
  <1>11. ASSUME NEW p \in Public, PackOnly(r, p) \/ UploadConflicts(r, p) \/ UploadFails(r, p)
         PROVE  Goal
    <2>1. /\ UNCHANGED <<registry, latest, plan>>
          /\ pc[r] = "publishing" /\ pc'[r] = "publishing"
          /\ attempted'[r] = attempted[r] \cup {p}
      BY <1>11 DEF PackOnly, UploadConflicts, UploadFails, Attempts
    <2> QED  BY <1>1, <1>2, <2>1 DEF RunPlansNew
  <1>12. CASE PublishSettles(r) \/ SkipPush(r) \/ Hooks(r) \/ Cleanup(r)
    BY <1>3, <1>12 DEF PublishSettles, SkipPush, Hooks, Cleanup
  <1>13. CASE PushBranch(r) \/ PushBranchUnanswered(r)
    BY <1>3, <1>13 DEF PushBranch, PushBranchUnanswered, BranchPushed
  <1>14. CASE PushTags(r) \/ PushTagsBreaks(r)
    BY <1>3, <1>14 DEF PushTags, PushTagsBreaks
  <1>15. CASE StepThrows(r) \/ EndsThrowing(r) \/ Crash(r)
    BY <1>3, <1>15 DEF StepThrows, EndsThrowing, Crash
  <1> QED  BY <1>4, <1>5, <1>6, <1>7, <1>8, <1>9, <1>10, <1>11, <1>12, <1>13, <1>14, <1>15
           DEF Advance, Misfortune

LEMMA PlansNewHolds ==
    ASSUME OneRunner, ~ReadDeniable
    PROVE  Spec => [](Typed /\ Placed /\ PlansNew)
  <1>1. Init => PlansNew
    <2> SUFFICES ASSUME Init PROVE PlansNew
      OBVIOUS
    <2>1. /\ FirstVersion \in Version
          /\ registry = [pkg : Public, version : {FirstVersion}, contains : {1}]
          /\ latest = [p \in Public |-> FirstVersion]
      BY PipelineAssumption DEF Init
    <2>2. \A p \in Public : Released(p, latest[p])
      <3> SUFFICES ASSUME NEW p \in Public PROVE Released(p, latest[p])
        OBVIOUS
      <3>1. [pkg |-> p, version |-> FirstVersion, contains |-> 1] \in registry
        BY <2>1
      <3> QED  BY <2>1, <3>1 DEF Released
    <2>3. \A e \in registry : e.version = FirstVersion /\ e.pkg \in Public
      BY <2>1
    <2>4. LatestIsNewest
      BY <2>1, <2>2, <2>3, OlderIsOrder DEF LatestIsNewest
    <2>5. \A r \in Runners : pc[r] = "idle"
      BY DEF Init
    <2> QED  BY <2>4, <2>5 DEF PlansNew, RunPlansNew
  <1>2. Typed /\ Placed /\ PlansNew /\ [Next]_vars => PlansNew'
    <2>1. CASE UNCHANGED vars
      BY <2>1 DEF vars, shared, copy, memory, PlansNew, LatestIsNewest, RunPlansNew,
                  PlanIsNew, Released
    <2>2. CASE DeveloperPushes
      BY <2>2 DEF DeveloperPushes, copy, memory, PlansNew, LatestIsNewest, RunPlansNew,
                  PlanIsNew, Released
    <2>3. ASSUME Typed, Placed, PlansNew, NEW r \in Runners,
                 Start(r) \/ Advance(r) \/ Misfortune(r)
          PROVE  PlansNew'
      <3>1. LatestIsNewest' /\ RunPlansNew(r)'
        BY <2>3, RunStepPlansNew
      <3>2. \A q \in Runners : q = r
        BY DEF OneRunner
      <3> QED  BY <3>1, <3>2 DEF PlansNew
    <2> QED  BY <2>1, <2>2, <2>3 DEF Next
  <1> QED  BY <1>1, <1>2, TypedHolds, PlacedHolds, PTL DEF Spec

\* Where one runner releases and no read of a dist-tag is denied, every plan has
\* one version for the members of a group, newer than all the registry holds of
\* the group: whatever failed before, no upload of it can conflict.
THEOREM PlannedVersionsAreNew ==
    ASSUME OneRunner, ~ReadDeniable
    PROVE  Spec => []VersionsAreNew
  <1>1. PlansNew => VersionsAreNew
    BY DEF PlansNew, RunPlansNew, PlanIsNew, VersionsAreNew
  <1>2. Spec => [](Typed /\ Placed /\ PlansNew)
    BY PlansNewHolds
  <1> QED  BY <1>1, <1>2, PTL

\* Under the same conditions no step moves a "latest" dist-tag back.
THEOREM LatestGoesForward ==
    ASSUME OneRunner, ~ReadDeniable
    PROVE  Spec => LatestNeverRegresses
  <1> DEFINE GoesOn == \A p \in Public : ~Older(latest'[p], latest[p])
  <1>1. Typed /\ Placed /\ PlansNew /\ [Next]_vars => [GoesOn]_vars
    <2>1. CASE UNCHANGED vars
      BY <2>1
    <2>2. ASSUME Typed, Placed, PlansNew, DeveloperPushes
          PROVE  GoesOn
      BY <2>2, OlderIsOrder DEF DeveloperPushes, PlansNew, LatestIsNewest
    <2>3. ASSUME Typed, Placed, PlansNew, NEW r \in Runners,
                 Start(r) \/ Advance(r) \/ Misfortune(r)
          PROVE  GoesOn
      BY <2>3, RunStepPlansNew
    <2> QED  BY <2>1, <2>2, <2>3 DEF Next
  <1>2. Spec => [](Typed /\ Placed /\ PlansNew)
    BY PlansNewHolds
  <1> QED  BY <1>1, <1>2, PTL DEF Spec, LatestNeverRegresses

-----------------------------------------------------------------------------
(* Commit ids. *)

\* No id is on the branch twice, no unpushed publish commit has an id of the
\* branch or of another copy, and publish commits are chores.
Ids ==
    /\ \A i \in 1..Len(main) : main[i].id \in 1..lastId
    /\ \A i, j \in 1..Len(main) : main[i].id = main[j].id => i = j
    /\ \A i \in 1..Len(main) : main[i].dev \/ main[i].level = "none"
    /\ \A r \in Runners : own[r] <= lastId
    /\ \A r \in Runners : \A i \in 1..Len(main) : own[r] # main[i].id
    /\ \A q, r \in Runners : own[q] # 0 /\ own[q] = own[r] => q = r

LEMMA AppendedCommit ==
    ASSUME TypeOK, NEW c \in Commit, main' = Append(main, c)
    PROVE  /\ Len(main) \in Nat /\ Len(main') = Len(main) + 1
           /\ \A i \in 1..Len(main) : main'[i] = main[i]
           /\ main'[Len(main) + 1] = c
  <1>1. main \in Seq(Commit)
    BY DEF TypeOK, Commit
  <1> QED  BY <1>1

\* A commit with a new id, or one made and never pushed so far.
LEMMA IdsWhenAppended ==
    ASSUME TypeOK, Ids, NEW c \in Commit, main' = Append(main, c),
           c.dev \/ c.level = "none", lastId' \in Nat, lastId <= lastId',
           c.id \in 1..lastId', \A i \in 1..Len(main) : main[i].id # c.id
    PROVE  /\ \A i \in 1..Len(main') : main'[i].id \in 1..lastId'
           /\ \A i, j \in 1..Len(main') : main'[i].id = main'[j].id => i = j
           /\ \A i \in 1..Len(main') : main'[i].dev \/ main'[i].level = "none"
           /\ \A i \in 1..Len(main') : main'[i].id = c.id \/
                                       \E j \in 1..Len(main) : main'[i].id = main[j].id
  <1>1. /\ Len(main) \in Nat /\ Len(main') = Len(main) + 1
        /\ \A i \in 1..Len(main) : main'[i] = main[i]
        /\ main'[Len(main) + 1] = c
    BY AppendedCommit
  <1>2. \A i \in 1..Len(main') : i \in 1..Len(main) \/ i = Len(main) + 1
    BY <1>1
  <1>3. lastId \in Nat
    BY DEF TypeOK
  <1>4. \A i \in 1..Len(main') : main'[i].id \in 1..lastId'
    BY <1>1, <1>2, <1>3 DEF Ids
  <1>5. \A i, j \in 1..Len(main') : main'[i].id = main'[j].id => i = j
    BY <1>1, <1>2 DEF Ids
  <1>6. \A i \in 1..Len(main') : main'[i].dev \/ main'[i].level = "none"
    BY <1>1, <1>2 DEF Ids
  <1>7. \A i \in 1..Len(main') : main'[i].id = c.id \/
                                 \E j \in 1..Len(main) : main'[i].id = main[j].id
    BY <1>1, <1>2
  <1> QED  BY <1>4, <1>5, <1>6, <1>7

LEMMA DeveloperCommits ==
    ASSUME TypeOK, Ids, DeveloperPushes
    PROVE  /\ Ids'
           /\ \E c \in Commit : /\ main' = Append(main, c)
                                /\ \A i \in 1..Len(main) : main[i].id # c.id
  <1>1. /\ lastId \in Nat /\ lastId' = lastId + 1 /\ UNCHANGED own
    BY DEF TypeOK, DeveloperPushes, copy
  <1>2. PICK d \in DevCommits : main' = Append(main, DevCommit(lastId', d[1], d[2]))
    BY DEF DeveloperPushes
  <1> DEFINE c == DevCommit(lastId', d[1], d[2])
  <1>3. c \in Commit /\ c.id = lastId + 1 /\ c.dev
    BY <1>1, PipelineAssumption DEF DevCommit, Commit
  <1>4. main' = Append(main, c)
    BY <1>2
  <1> HIDE DEF c
  <1>5. \A i \in 1..Len(main) : main[i].id # c.id
    BY <1>1, <1>3 DEF Ids
  <1>6. /\ \A i \in 1..Len(main') : main'[i].id \in 1..lastId'
        /\ \A i, j \in 1..Len(main') : main'[i].id = main'[j].id => i = j
        /\ \A i \in 1..Len(main') : main'[i].dev \/ main'[i].level = "none"
        /\ \A i \in 1..Len(main') : main'[i].id = c.id \/
                                    \E j \in 1..Len(main) : main'[i].id = main[j].id
    BY <1>1, <1>3, <1>4, <1>5, IdsWhenAppended
  <1>7. /\ \A r \in Runners : own'[r] <= lastId'
        /\ \A r \in Runners : \A i \in 1..Len(main') : own'[r] # main'[i].id
        /\ \A q, r \in Runners : own'[q] # 0 /\ own'[q] = own'[r] => q = r
    <2>1. \A r \in Runners : own[r] \in Nat /\ own[r] <= lastId
      BY DEF Ids, TypeOK
    <2> QED  BY <1>1, <1>3, <1>6, <2>1 DEF Ids
  <1> QED  BY <1>3, <1>4, <1>5, <1>6, <1>7 DEF Ids

LEMMA RunCommits ==
    ASSUME TypeOK, Ids, NEW r \in Runners, Start(r) \/ Advance(r) \/ Misfortune(r)
    PROVE  /\ Ids'
           /\ \/ UNCHANGED main
              \/ \E c \in Commit : /\ main' = Append(main, c)
                                   /\ \A i \in 1..Len(main) : main[i].id # c.id
  <1>1. /\ lastId \in Nat /\ own \in [Runners -> Nat]
        /\ main \in Seq(Commit) /\ Len(main) \in Nat
    BY DEF TypeOK, Commit
  <1>2. CASE UNCHANGED <<main, lastId, own>>
    BY <1>2 DEF Ids
  <1>3. CASE UNCHANGED <<main, lastId>> /\ own' = [own EXCEPT ![r] = 0]
    <2>1. \A i \in 1..Len(main) : main[i].id # 0
      BY <1>1 DEF Ids
    <2> QED  BY <1>1, <1>3, <2>1 DEF Ids
  <1>4. CASE UNCHANGED main /\ lastId' = lastId + 1 /\ own' = [own EXCEPT ![r] = lastId']
    <2>1. own'[r] = lastId + 1 /\ \A q \in Runners \ {r} : own'[q] = own[q]
      BY <1>1, <1>4
    <2>2. \A i \in 1..Len(main) : main[i].id \in 1..lastId' /\ main[i].id # lastId + 1
      BY <1>1, <1>4 DEF Ids
    <2>3. \A q \in Runners : own'[q] <= lastId'
      BY <1>1, <1>4, <2>1 DEF Ids
    <2>4. \A q \in Runners : \A i \in 1..Len(main) : own'[q] # main[i].id
      BY <2>1, <2>2 DEF Ids
    <2>5. \A p, q \in Runners : own'[p] # 0 /\ own'[p] = own'[q] => p = q
      BY <1>1, <2>1 DEF Ids
    <2> QED  BY <1>4, <2>2, <2>3, <2>4, <2>5 DEF Ids
  <1>5. CASE /\ UNCHANGED lastId
             /\ own[r] # 0 /\ own' = [own EXCEPT ![r] = 0]
             /\ main' = Append(main, PublishCommit(r))
    <2> DEFINE c == PublishCommit(r)
    <2>1. c \in Commit /\ c.id = own[r] /\ c.level = "none"
      BY PublishCommitIsCommit DEF PublishCommit
    <2>2. c.id \in 1..lastId' /\ \A i \in 1..Len(main) : main[i].id # c.id
      BY <1>1, <1>5, <2>1 DEF Ids
    <2>3. main' = Append(main, c)
      BY <1>5
    <2> HIDE DEF c
    <2>4. /\ \A i \in 1..Len(main') : main'[i].id \in 1..lastId'
          /\ \A i, j \in 1..Len(main') : main'[i].id = main'[j].id => i = j
          /\ \A i \in 1..Len(main') : main'[i].dev \/ main'[i].level = "none"
          /\ \A i \in 1..Len(main') : main'[i].id = c.id \/
                                      \E j \in 1..Len(main) : main'[i].id = main[j].id
      BY <1>1, <1>5, <2>1, <2>2, <2>3, IdsWhenAppended
    <2>5. own'[r] = 0 /\ \A q \in Runners \ {r} : own'[q] = own[q] /\ own[q] # own[r]
      BY <1>1, <1>5 DEF Ids
    <2>6. \A q \in Runners : \A i \in 1..Len(main') : own'[q] # main'[i].id
      BY <1>1, <1>5, <2>1, <2>4, <2>5 DEF Ids
    <2>7. /\ \A q \in Runners : own'[q] <= lastId'
          /\ \A p, q \in Runners : own'[p] # 0 /\ own'[p] = own'[q] => p = q
      BY <1>1, <1>5, <2>5 DEF Ids
    <2> QED  BY <2>1, <2>2, <2>3, <2>4, <2>6, <2>7 DEF Ids
  <1> QED  BY <1>2, <1>3, <1>4, <1>5, HistoryFrame

LEMMA IdsHold == Spec => []Ids
  <1>1. Init => Ids
    <2> SUFFICES ASSUME Init PROVE Ids
      OBVIOUS
    <2>1. /\ Len(main) = 1 /\ main[1] = DevCommit(1, "none", Packages)
          /\ lastId = 1 /\ \A r \in Runners : own[r] = 0
      BY DEF Init
    <2> QED  BY <2>1 DEF Ids, DevCommit
  <1>2. Typed /\ Ids /\ [Next]_vars => Ids'
    <2>1. CASE UNCHANGED vars
      BY <2>1 DEF vars, shared, copy, rest, Ids
    <2>2. ASSUME Typed, Ids, DeveloperPushes PROVE Ids'
      BY <2>2, DeveloperCommits DEF Typed
    <2>3. ASSUME Typed, Ids, NEW r \in Runners, Start(r) \/ Advance(r) \/ Misfortune(r)
          PROVE  Ids'
      BY <2>3, RunCommits DEF Typed
    <2> QED  BY <2>1, <2>2, <2>3 DEF Next
  <1> QED  BY <1>1, <1>2, TypedHolds, PTL DEF Spec

\* What is on the branch stays where it is.
LEMMA HistoryIsKept ==
    ASSUME Typed, Ids, [Next]_vars
    PROVE  /\ Len(main) \in Nat /\ Len(main') \in Nat /\ Len(main) <= Len(main')
           /\ \A i \in 1..Len(main) : main'[i] = main[i]
           /\ \A i \in Len(main) + 1..Len(main') : \A j \in 1..Len(main) :
                  main'[i].id # main[j].id
  <1>1. \/ UNCHANGED main
        \/ \E c \in Commit : /\ main' = Append(main, c)
                             /\ \A i \in 1..Len(main) : main[i].id # c.id
    BY DeveloperCommits, RunCommits DEF Next, vars, shared, Typed
  <1>2. Len(main) \in Nat
    BY DEF Typed, TypeOK
  <1>3. CASE UNCHANGED main
    BY <1>2, <1>3
  <1>4. ASSUME NEW c \in Commit, main' = Append(main, c),
               \A i \in 1..Len(main) : main[i].id # c.id
        PROVE  /\ Len(main') \in Nat /\ Len(main) <= Len(main')
               /\ \A i \in 1..Len(main) : main'[i] = main[i]
               /\ \A i \in Len(main) + 1..Len(main') : \A j \in 1..Len(main) :
                      main'[i].id # main[j].id
    <2>1. /\ Len(main') = Len(main) + 1
          /\ \A i \in 1..Len(main) : main'[i] = main[i]
          /\ main'[Len(main) + 1] = c
      BY <1>4, AppendedCommit DEF Typed
    <2> QED  BY <1>2, <1>4, <2>1
  <1> QED  BY <1>1, <1>2, <1>3, <1>4

-----------------------------------------------------------------------------
(* Releases have a cause, where one runner releases from fresh clones. *)

BeforeFiles == {"reading", "planning", "preparing"}

\* The tags of the copy are those of the remote, and mark commits of the copy; a
\* plan with something to release has a change behind none of them.
RunCaused(r) ==
    /\ pc[r] \in BeforeFiles =>
           /\ tags[r] = remoteTags
           /\ \A t \in remoteTags : \E k \in 1..commitSha[r] : t.at = main[k].id
    /\ pc[r] = "preparing" /\ HasReleases(r) =>
           \E i \in 1..commitSha[r] : \E p \in Packages :
               /\ Bumps(main[i], p)
               /\ \A t \in remoteTags : \E k \in 1..commitSha[r] :
                      k < i /\ t.at = main[k].id

Caused == \A r \in Runners : RunCaused(r)

\* Nothing is released on behalf of nothing.
LEMMA NoDependentsOfNothing == DependentsOf({}) = {}
  <1>1. {} \in SUBSET (Packages \cup {}) /\ Closed({})
    BY DEF Closed
  <1> QED  BY <1>1, DependentsAre

LEMMA PlanStepCaused ==
    ASSUME Typed, Placed, Ids, Caused, MinimumStrategy = "none",
           NEW r \in Runners, Plan(r)
    PROVE  RunCaused(r)'
  <1>1. /\ pc[r] = "planning" /\ pc'[r] = "preparing"
        /\ UNCHANGED <<main, remoteTags, tags, commitSha>>
        /\ plan'[r] = NextVersions(MergedStrategies(CommitsToRelease(r)), seen[r])
    BY PlanIsMade DEF Typed, TypeOK, shared, copy, GoTo
  <1>2. /\ tags[r] = remoteTags
        /\ \A t \in remoteTags : \E k \in 1..commitSha[r] : t.at = main[k].id
    BY <1>1 DEF Caused, RunCaused, BeforeFiles
  <1> SUFFICES ASSUME DOMAIN plan'[r] # {} PROVE RunCaused(r)'
    BY <1>1, <1>2 DEF RunCaused, HasReleases
  <1> DEFINE commits == CommitsToRelease(r)
  <1>3. DOMAIN MergedStrategies(commits) # {}
    BY <1>1 DEF NextVersions
  <1>4. PICK c \in commits, p \in Packages : p \in c.touches /\ StrategyOf(c) # "none"
    <2>1. /\ DOMAIN ExplicitStrategies(commits) = UNION {c.touches : c \in Bumping(commits)}
          /\ DOMAIN MergedStrategies(commits) =
                 DOMAIN ExplicitStrategies(commits) \cup
                     DependentsOf(DOMAIN ExplicitStrategies(commits))
      BY WhatIsBumped
    <2>2. \A c \in commits : c \in Commit
      BY RangeIsTyped DEF Typed
    <2> HIDE DEF commits
    <2>3. UNION {c.touches : c \in Bumping(commits)} # {}
      BY <1>3, <2>1, NoDependentsOfNothing
    <2>4. PICK c \in Bumping(commits) : c.touches # {}
      BY <2>3
    <2>5. c \in commits /\ c.touches \subseteq Packages /\ StrategyOf(c) # "none"
      BY <2>2, <2>4 DEF Bumping, Commit
    <2> QED  BY <2>4, <2>5
  <1>5. commitSha[r] \in Nat /\ commitSha[r] \in 1..Len(main) /\ Len(main) \in Nat
    BY DEF Typed, TypeOK, Placed, PlacedAt
  <1>6. PICK i \in 1..commitSha[r] :
            /\ c = main[i]
            /\ \A k \in 1..commitSha[r] : \A t \in tags[r] :
                   t.at = main[k].id => k < i
    <2>1. CASE /\ LastTagged(r) = 0
               /\ \A i \in 1..commitSha[r] : \A t \in tags[r] : t.at # main[i].id
      <3>1. c = main[commitSha[r]]
        BY <2>1 DEF CommitsToRelease
      <3> QED  BY <1>5, <2>1, <3>1
    <2>2. CASE /\ LastTagged(r) \in 1..commitSha[r]
               /\ \E t \in tags[r] : t.at = main[LastTagged(r)].id
               /\ \A i \in 1..commitSha[r] : \A t \in tags[r] :
                      t.at = main[i].id => i <= LastTagged(r)
      <3>1. LastTagged(r) # 0 /\ LastTagged(r) \in Nat
        BY <1>5, <2>2
      <3>2. PICK i \in (LastTagged(r) + 1)..commitSha[r] : c = main[i]
        BY <3>1 DEF CommitsToRelease
      <3>3. i \in 1..commitSha[r] /\ LastTagged(r) < i
        BY <1>5, <3>1, <3>2
      <3>4. \A k \in 1..commitSha[r] : \A t \in tags[r] : t.at = main[k].id => k < i
        BY <1>5, <2>2, <3>1, <3>3
      <3> QED  BY <3>2, <3>3, <3>4
    <2> QED  BY <2>1, <2>2, LastTaggedIsLast DEF Typed
  <1>7. Bumps(main[i], p)
    <2>1. c.level # "none"
      BY <1>4 DEF StrategyOf
    <2>2. c.dev
      BY <1>5, <1>6, <2>1 DEF Ids
    <2> QED  BY <1>4, <1>6, <2>2 DEF Bumps
  <1>8. \A t \in remoteTags : \E k \in 1..commitSha[r] : k < i /\ t.at = main[k].id
    BY <1>2, <1>6
  <1> QED  BY <1>1, <1>2, <1>7, <1>8 DEF RunCaused, Bumps, StrategyOf

\* Which steps of a run end before the files are prepared.
LEMMA EarlySteps ==
    ASSUME TypeOK, NEW r \in Runners, Start(r) \/ Advance(r) \/ Misfortune(r),
           pc'[r] \in BeforeFiles
    PROVE  \/ Start(r)
           \/ Plan(r)
           \/ /\ pc[r] = "reading" /\ pc'[r] \in {"reading", "planning"}
              /\ UNCHANGED <<main, remoteTags, tags, commitSha>>
  <1> USE DEF TypeOK, BeforeFiles, GoTo, Throws, shared, copy, memory, rest
  <1> DEFINE Reads == /\ pc[r] = "reading" /\ pc'[r] \in {"reading", "planning"}
                      /\ UNCHANGED <<main, remoteTags, tags, commitSha>>
  <1>1. ASSUME NEW p \in Public, ReadTag(r, p) \/ ReadTagDenied(r, p)
        PROVE  Reads
    BY <1>1 DEF ReadTag, ReadTagDenied
  <1>2. CASE AllRead(r)
    BY <1>2 DEF AllRead
  <1>3. CASE Plan(r)
    BY <1>3 DEF Plan
  <1>4. /\ ~PrepareFiles(r) /\ ~CommitFiles(r) /\ ~PullRebase(r) /\ ~ValidatePush(r)
        /\ ~PublishSettles(r) /\ ~SkipPush(r) /\ ~Hooks(r) /\ ~Cleanup(r) /\ ~MakeTags(r)
    BY DEF PrepareFiles, CommitFiles, PullRebase, ValidatePush, PublishSettles, SkipPush, Hooks,
           Cleanup, MakeTags
  <1>5. \A p \in Public : ~(\/ PackOnly(r, p) \/ Upload(r, p) \/ UploadConflicts(r, p)
                            \/ UploadUnanswered(r, p) \/ UploadFails(r, p))
    BY DEF PackOnly, Upload, UploadConflicts, UploadUnanswered, UploadFails, Attempts
  <1>6. ~PushBranch(r) /\ ~PushBranchUnanswered(r) /\ ~PushTags(r) /\ ~PushTagsBreaks(r)
    BY DEF PushBranch, PushBranchUnanswered, PushTags, PushTagsBreaks
  <1>7. ~StepThrows(r) /\ ~EndsThrowing(r) /\ ~Crash(r)
    BY DEF StepThrows, EndsThrowing, Crash
  <1> QED  BY <1>1, <1>2, <1>3, <1>4, <1>5, <1>6, <1>7 DEF Advance, Misfortune

\* Where one runner releases from fresh clones and commits without a level ask for
\* no version, a run releases something only if a developer's change is behind no
\* pushed tag: the runner's own publish commits never cause a release.
THEOREM ReleasesAreCaused ==
    ASSUME OneRunner, FreshClone, MinimumStrategy = "none"
    PROVE  Spec => []ReleasesHaveACause
  <1>1. Init => Caused
    BY DEF Init, Caused, RunCaused, BeforeFiles
  <1>2. Typed /\ Placed /\ Ids /\ PushedTagsOnMain /\ Caused /\ [Next]_vars => Caused'
    <2>1. CASE UNCHANGED vars
      BY <2>1 DEF vars, shared, copy, memory, Caused, RunCaused, BeforeFiles, HasReleases
    <2>2. ASSUME Typed, Placed, Ids, Caused, DeveloperPushes
          PROVE  Caused'
      <3>1. UNCHANGED <<remoteTags, tags, commitSha, pc, plan>>
        BY <2>2 DEF DeveloperPushes, copy, memory
      <3>2. \A r \in Runners : \A i \in 1..commitSha[r] : main'[i] = main[i]
        <4>1. \A i \in 1..Len(main) : main'[i] = main[i]
          BY <2>2, HistoryIsKept DEF Next
        <4>2. \A r \in Runners : commitSha[r] \in 1..Len(main) /\ Len(main) \in Nat
          BY <2>2 DEF Typed, TypeOK, Placed, PlacedAt
        <4> QED  BY <4>1, <4>2
      <3> SUFFICES ASSUME NEW r \in Runners PROVE RunCaused(r)'
        BY DEF Caused
      <3>3. RunCaused(r)
        BY <2>2 DEF Caused
      <3>4. pc[r] \in BeforeFiles =>
                /\ tags[r] = remoteTags
                /\ \A t \in remoteTags : \E k \in 1..commitSha[r] : t.at = main'[k].id
        BY <3>2, <3>3 DEF RunCaused
      <3>5. pc[r] = "preparing" /\ HasReleases(r) =>
                \E i \in 1..commitSha[r] : \E p \in Packages :
                    /\ Bumps(main'[i], p)
                    /\ \A t \in remoteTags : \E k \in 1..commitSha[r] :
                           k < i /\ t.at = main'[k].id
        BY <3>2, <3>3 DEF RunCaused
      <3> QED  BY <3>1, <3>4, <3>5 DEF RunCaused, BeforeFiles, Bumps, StrategyOf, HasReleases
    <2>3. ASSUME Typed, Placed, Ids, PushedTagsOnMain, Caused, NEW r \in Runners,
                 Start(r) \/ Advance(r) \/ Misfortune(r)
          PROVE  Caused'
      <3> SUFFICES RunCaused(r)'
        BY DEF Caused, OneRunner
      <3> SUFFICES ASSUME pc'[r] \in BeforeFiles PROVE RunCaused(r)'
        BY DEF RunCaused, BeforeFiles
      <3>1. CASE Start(r)
        <4>1. /\ tags'[r] = remoteTags /\ commitSha'[r] = Len(main) /\ pc'[r] = "reading"
              /\ UNCHANGED <<main, remoteTags>>
          BY <2>3, <3>1 DEF Start, ClearMemory, GoTo, Typed, TypeOK, shared
        <4>2. \A t \in remoteTags : \E k \in 1..Len(main) : t.at = main[k].id
          BY <2>3 DEF PushedTagsOnMain, IdsOnMain
        <4> QED  BY <4>1, <4>2 DEF RunCaused, BeforeFiles
      <3>2. CASE Plan(r)
        BY <2>3, <3>2, PlanStepCaused
      <3>3. CASE /\ pc[r] = "reading" /\ pc'[r] \in {"reading", "planning"}
                 /\ UNCHANGED <<main, remoteTags, tags, commitSha>>
        BY <2>3, <3>3 DEF Caused, RunCaused, BeforeFiles
      <3> QED  BY <2>3, <3>1, <3>2, <3>3, EarlySteps DEF Typed
    <2> QED  BY <2>1, <2>2, <2>3 DEF Next
  <1>3. Typed /\ Placed /\ Ids /\ Caused => ReleasesHaveACause
    <2> SUFFICES ASSUME Typed, Placed, Ids, Caused, NEW r \in Runners,
                        pc[r] = "preparing", HasReleases(r)
                 PROVE  \E i \in 1..commitSha[r] : \E p \in Packages :
                            Bumps(main[i], p) /\ ~BehindTag(i)
      BY DEF ReleasesHaveACause
    <2>1. PICK i \in 1..commitSha[r], p \in Packages :
              /\ Bumps(main[i], p)
              /\ \A t \in remoteTags : \E k \in 1..commitSha[r] :
                     k < i /\ t.at = main[k].id
      BY DEF Caused, RunCaused
    <2>2. commitSha[r] \in 1..Len(main) /\ Len(main) \in Nat /\ commitSha[r] \in Nat
      BY DEF Typed, TypeOK, Placed, PlacedAt
    <2>3. ~BehindTag(i)
      <3> SUFFICES ASSUME NEW t \in remoteTags, NEW j \in i..Len(main), t.at = main[j].id
                   PROVE  FALSE
        BY DEF BehindTag
      <3>1. PICK k \in 1..commitSha[r] : k < i /\ t.at = main[k].id
        BY <2>1
      <3>2. k \in 1..Len(main) /\ j \in 1..Len(main) /\ k < j
        BY <2>2, <3>1
      <3>3. k = j
        BY <3>1, <3>2 DEF Ids
      <3> QED  BY <3>2, <3>3
    <2> QED  BY <2>1, <2>3
  <1>4. Spec => []PushedTagsOnMain
    BY PushedTagsMarkMain
  <1> QED  BY <1>1, <1>2, <1>3, <1>4, TypedHolds, PlacedHolds, IdsHold, PTL DEF Spec

-----------------------------------------------------------------------------
(* What is behind a pushed tag is shipped, where every run has a fresh clone   *)
(* and the first commit is tagged.                                             *)

ShippedIn(reg, i, p) == \E e \in reg : e.pkg = p /\ e.contains >= i

\* The commits of `history` after the first and up to the second position are not
\* for the run to ship: pulled under its plan, or not a developer's.
ExcusedIn(history, pulled, from, upTo) ==
    \A i \in (from + 1)..upTo : history[i].id \in pulled \/ ~history[i].dev

\* The tag marks a commit of the copy, or the publish commit made since, with
\* nothing behind it that the plan does not know of.
MarksIn(t, history, pulled, sha, upTo, mine, step) ==
    \/ \E j \in 1..upTo : t.at = history[j].id /\ ExcusedIn(history, pulled, sha, j)
    \/ /\ mine # 0 /\ step \notin UpToPulling /\ t.at = mine
       /\ ExcusedIn(history, pulled, sha, upTo)

\* The plan ships what earlier releases have not.
CoveredIn(history, pulled, reg, sha, planned) ==
    \A i \in 1..sha : \A p \in Public :
        Bumps(history[i], p) =>
            p \in planned \/ ShippedIn(reg, i, p) \/ history[i].id \in pulled

LEMMA ShipmentIsKept ==
    ASSUME NEW m, NEW m2, NEW n \in Nat, \A i \in 1..n : m2[i] = m[i],
           NEW s, NEW s2, s \subseteq s2, NEW reg, NEW reg2, reg \subseteq reg2
    PROVE  /\ \A i, p : ShippedIn(reg, i, p) => ShippedIn(reg2, i, p)
           /\ \A a \in Nat, b \in 0..n : ExcusedIn(m, s, a, b) => ExcusedIn(m2, s2, a, b)
           /\ \A t, mine, step : \A a \in Nat, b \in 1..n :
                  MarksIn(t, m, s, a, b, mine, step) => MarksIn(t, m2, s2, a, b, mine, step)
           /\ \A planned : \A a \in 0..n :
                  CoveredIn(m, s, reg, a, planned) => CoveredIn(m2, s2, reg2, a, planned)
  <1>1. \A i, p : ShippedIn(reg, i, p) => ShippedIn(reg2, i, p)
    BY DEF ShippedIn
  <1>2. \A a \in Nat, b \in 0..n : ExcusedIn(m, s, a, b) => ExcusedIn(m2, s2, a, b)
    <2> SUFFICES ASSUME NEW a \in Nat, NEW b \in 0..n, ExcusedIn(m, s, a, b),
                        NEW i \in (a + 1)..b
                 PROVE  m2[i].id \in s2 \/ ~m2[i].dev
      BY DEF ExcusedIn
    <2>1. i \in 1..n
      OBVIOUS
    <2>2. m[i].id \in s \/ ~m[i].dev
      BY DEF ExcusedIn
    <2> QED  BY <2>1, <2>2
  <1>3. ASSUME NEW t, NEW mine, NEW step, NEW a \in Nat, NEW b \in 1..n,
               MarksIn(t, m, s, a, b, mine, step)
        PROVE  MarksIn(t, m2, s2, a, b, mine, step)
    <2>1. CASE \E j \in 1..b : t.at = m[j].id /\ ExcusedIn(m, s, a, j)
      <3>1. PICK j \in 1..b : t.at = m[j].id /\ ExcusedIn(m, s, a, j)
        BY <2>1
      <3>2. j \in 1..n /\ j \in 0..n
        OBVIOUS
      <3>3. t.at = m2[j].id /\ ExcusedIn(m2, s2, a, j)
        BY <1>2, <3>1, <3>2
      <3> QED  BY <3>3 DEF MarksIn
    <2>2. CASE /\ mine # 0 /\ step \notin UpToPulling /\ t.at = mine
               /\ ExcusedIn(m, s, a, b)
      <3>1. b \in 0..n
        OBVIOUS
      <3> QED  BY <1>2, <2>2, <3>1 DEF MarksIn
    <2> QED  BY <1>3, <2>1, <2>2 DEF MarksIn
  <1>4. ASSUME NEW planned, NEW a \in 0..n, CoveredIn(m, s, reg, a, planned)
        PROVE  CoveredIn(m2, s2, reg2, a, planned)
    <2>1. \A i \in 1..a : m2[i] = m[i]
      OBVIOUS
    <2> QED  BY <1>1, <1>4, <2>1 DEF CoveredIn
  <1> QED  BY <1>1, <1>2, <1>3, <1>4

UntilTagsPushed == {"preparing", "tagging", "committing", "pulling", "retagging",
                    "validating", "publishing", "pushing", "pushingTags"}

\* What a run knows of the history its tags will close off.
RunShips(r) ==
    /\ pc[r] \in Steps =>
           \A t \in tags[r] :
               \/ t \in remoteTags
               \/ MarksIn(t, main, raced, commitSha[r], base[r], own[r], pc[r])
    /\ pc[r] \in {"reading", "planning"} =>
           tags[r] \subseteq remoteTags /\ FirstTags \subseteq tags[r]
    /\ pc[r] \in UntilTagsPushed =>
           CoveredIn(main, raced, registry, commitSha[r], DOMAIN plan[r])
    /\ pc[r] = "retagging" /\ config[r].persistVersions /\ config[r].tag =>
           ExcusedIn(main, raced, commitSha[r], base[r])
    /\ pc[r] = "publishing" /\ outcome[r] # "failed" /\ ~config[r].dryRun =>
           \A p \in attempted[r] : ShippedIn(registry, commitSha[r], p)
    /\ pc[r] \in {"pushing", "pushingTags"} /\ ~config[r].dryRun =>
           \A p \in DOMAIN plan[r] : ShippedIn(registry, commitSha[r], p)
    /\ pc[r] = "pushingTags" => ~config[r].dryRun

\* The registry and the remote, as the runs find them.
SharedIsSound ==
    /\ 1 \in 1..Len(main) /\ main[1].id = 1
    /\ FirstTags \subseteq remoteTags
    /\ \A e \in registry : e.contains \in Nat
    /\ TaggedCommitsAreShipped

Ships == SharedIsSound /\ \A r \in Runners : RunShips(r)

\* No step forgets a commit, a version, a tag or what was pulled.
Remembers ==
    /\ Len(main) \in Nat /\ \A i \in 1..Len(main) : main'[i] = main[i]
    /\ registry \subseteq registry' /\ raced \subseteq raced'
    /\ remoteTags \subseteq remoteTags'

\* A step that leaves the run's copy and plan alone.
LEMMA QuietStepShips ==
    ASSUME Typed, Placed, Remembers, NEW r \in Runners, RunShips(r), pc[r] \in Steps,
           base'[r] = base[r], own'[r] = own[r], tags'[r] = tags[r],
           commitSha'[r] = commitSha[r], plan'[r] = plan[r], config'[r] = config[r],
           pc'[r] \in {"reading", "planning"} => pc[r] \in {"reading", "planning"},
           pc'[r] \in UntilTagsPushed => pc[r] \in UntilTagsPushed,
           pc'[r] \in UpToPulling => pc[r] \in UpToPulling,
           pc'[r] = "retagging" => pc[r] = "retagging",
           pc'[r] = "publishing" /\ outcome'[r] # "failed" /\ ~config[r].dryRun =>
               \A p \in attempted'[r] : ShippedIn(registry', commitSha[r], p),
           pc'[r] \in {"pushing", "pushingTags"} /\ ~config[r].dryRun =>
               \A p \in DOMAIN plan[r] : ShippedIn(registry', commitSha[r], p),
           pc'[r] = "pushingTags" => ~config[r].dryRun
    PROVE  RunShips(r)'
  <1> DEFINE n == Len(main)
  <1>1. /\ n \in Nat /\ commitSha[r] \in Nat /\ commitSha[r] \in 0..n
        /\ base[r] \in 1..n /\ base[r] \in 0..n
    BY DEF Typed, TypeOK, Placed, PlacedAt
  <1>2. /\ \A i \in 1..n : main'[i] = main[i]
        /\ raced \subseteq raced' /\ registry \subseteq registry'
        /\ remoteTags \subseteq remoteTags'
    BY DEF Remembers
  <1> HIDE DEF n
  <1>3. /\ ExcusedIn(main, raced, commitSha[r], base[r]) =>
               ExcusedIn(main', raced', commitSha[r], base[r])
        /\ CoveredIn(main, raced, registry, commitSha[r], DOMAIN plan[r]) =>
               CoveredIn(main', raced', registry', commitSha[r], DOMAIN plan[r])
    BY <1>1, <1>2, ShipmentIsKept
  <1>4. \A t : MarksIn(t, main, raced, commitSha[r], base[r], own[r], pc[r]) =>
               MarksIn(t, main', raced', commitSha[r], base[r], own[r], pc[r])
    BY <1>1, <1>2, ShipmentIsKept
  <1>5. \A t : MarksIn(t, main', raced', commitSha[r], base[r], own[r], pc[r]) =>
               MarksIn(t, main', raced', commitSha[r], base[r], own[r], pc'[r])
    BY DEF MarksIn
  <1>6. \A t \in tags[r] :
            \/ t \in remoteTags'
            \/ MarksIn(t, main', raced', commitSha[r], base[r], own[r], pc'[r])
    BY <1>2, <1>4, <1>5 DEF RunShips
  <1>7. pc'[r] \in {"reading", "planning"} =>
            tags[r] \subseteq remoteTags' /\ FirstTags \subseteq tags[r]
    BY <1>2 DEF RunShips
  <1>8. pc'[r] \in UntilTagsPushed =>
            CoveredIn(main', raced', registry', commitSha[r], DOMAIN plan[r])
    BY <1>3 DEF RunShips
  <1>9. pc'[r] = "retagging" /\ config[r].persistVersions /\ config[r].tag =>
            ExcusedIn(main', raced', commitSha[r], base[r])
    BY <1>3 DEF RunShips
  <1> QED  BY <1>6, <1>7, <1>8, <1>9 DEF RunShips, FirstTags

LEMMA NothingForgotten ==
    ASSUME Typed, Ids, NEW r \in Runners, Start(r) \/ Advance(r) \/ Misfortune(r)
    PROVE  Remembers /\ (PullRebase(r) \/ UNCHANGED raced)
  <1> USE DEF rest
  <1>1. /\ Len(main) \in Nat /\ \A i \in 1..Len(main) : main'[i] = main[i]
    BY HistoryIsKept DEF Next
  <1>2. registry \subseteq registry' /\ remoteTags \subseteq remoteTags'
    BY OthersUntouched DEF Typed
  <1> DEFINE Goal == PullRebase(r) \/ UNCHANGED raced
  <1>3. ASSUME NEW p \in Public, ReadTag(r, p) \/ ReadTagDenied(r, p)
        PROVE  Goal
    BY <1>3 DEF ReadTag, ReadTagDenied
  <1>4. ASSUME NEW p \in Public,
               \/ PackOnly(r, p) \/ Upload(r, p) \/ UploadConflicts(r, p)
               \/ UploadUnanswered(r, p) \/ UploadFails(r, p)
        PROVE  Goal
    BY <1>4 DEF PackOnly, Upload, UploadConflicts, UploadUnanswered, UploadFails
  <1>5. Start(r) \/ AllRead(r) \/ Plan(r) \/ PrepareFiles(r) \/ MakeTags(r)
        \/ CommitFiles(r) \/ ValidatePush(r) \/ PublishSettles(r) => Goal
    BY DEF Start, AllRead, Plan, PrepareFiles, MakeTags, CommitFiles, ValidatePush,
           PublishSettles
  <1>6. PushBranch(r) \/ PushBranchUnanswered(r) \/ PushTags(r) \/ PushTagsBreaks(r)
        \/ SkipPush(r) \/ Hooks(r) \/ Cleanup(r) \/ StepThrows(r) \/ EndsThrowing(r)
        \/ Crash(r) => Goal
    BY DEF PushBranch, PushBranchUnanswered, PushTags, PushTagsBreaks, SkipPush, Hooks, Cleanup,
           StepThrows, EndsThrowing, Crash
  <1>7. Goal
    BY <1>3, <1>4, <1>5, <1>6 DEF Advance, Misfortune
  <1>8. raced \subseteq raced'
    BY <1>7 DEF PullRebase
  <1> QED  BY <1>1, <1>2, <1>7, <1>8 DEF Remembers

\* The plan covers every change behind which no tag was pushed.
LEMMA PlanStepShips ==
    ASSUME Typed, Placed, Ids, EverythingRead, SharedIsSound, NEW r \in Runners,
           RunShips(r), Plan(r)
    PROVE  CoveredIn(main, raced, registry, commitSha[r], DOMAIN plan'[r])
  <1>1. /\ pc[r] = "planning" /\ Public \subseteq DOMAIN seen[r]
        /\ plan'[r] = NextVersions(MergedStrategies(CommitsToRelease(r)), seen[r])
    BY PlanIsMade DEF Typed, TypeOK, EverythingRead
  <1>2. /\ commitSha[r] \in Nat /\ commitSha[r] \in 1..Len(main) /\ Len(main) \in Nat
    BY DEF Typed, TypeOK, Placed, PlacedAt
  <1>3. tags[r] \subseteq remoteTags /\ FirstTags \subseteq tags[r]
    BY <1>1 DEF RunShips
  <1> SUFFICES ASSUME NEW i \in 1..commitSha[r], NEW p \in Public, Bumps(main[i], p)
               PROVE  \/ p \in DOMAIN plan'[r] \/ ShippedIn(registry, i, p)
                      \/ main[i].id \in raced
    BY DEF CoveredIn
  <1>4. /\ LastTagged(r) \in 1..commitSha[r]
        /\ \E t \in tags[r] : t.at = main[LastTagged(r)].id
    <2>1. \E t \in tags[r] : t.at = main[1].id
      <3>1. [group |-> GroupOf[p], version |-> FirstVersion, at |-> 1, by |-> <<>>,
             pkgs |-> {q \in Public : GroupOf[q] = GroupOf[p]}] \in FirstTags
        BY DEF FirstTags
      <3>2. main[1].id = 1
        BY DEF SharedIsSound
      <3> QED  BY <1>3, <3>1, <3>2
    <2>2. 1 \in 1..commitSha[r]
      BY <1>2
    <2> QED  BY <2>1, <2>2, LastTaggedIsLast DEF Typed
  <1>5. CASE i <= LastTagged(r)
    <2>1. PICK t \in remoteTags : t.at = main[LastTagged(r)].id
      BY <1>3, <1>4
    <2>2. LastTagged(r) \in i..Len(main) /\ i \in 1..Len(main)
      BY <1>2, <1>4, <1>5
    <2>3. BehindTag(i)
      BY <2>1, <2>2 DEF BehindTag
    <2>4. Shipped(i, p) \/ main[i].id \in raced
      BY <2>2, <2>3 DEF SharedIsSound, TaggedCommitsAreShipped
    <2> QED  BY <2>4 DEF Shipped, ShippedIn
  <1>6. CASE i > LastTagged(r)
    <2> DEFINE commits == CommitsToRelease(r)
    <2>1. main[i] \in commits
      <3>1. LastTagged(r) # 0 /\ i \in (LastTagged(r) + 1)..commitSha[r]
        BY <1>2, <1>4, <1>6
      <3> QED  BY <3>1 DEF CommitsToRelease
    <2>2. main[i] \in Bumping(commits) /\ p \in main[i].touches
      BY <2>1 DEF Bumping, Bumps
    <2>3. /\ DOMAIN ExplicitStrategies(commits) = UNION {c.touches : c \in Bumping(commits)}
          /\ DOMAIN MergedStrategies(commits) =
                 DOMAIN ExplicitStrategies(commits) \cup
                     DependentsOf(DOMAIN ExplicitStrategies(commits))
      BY WhatIsBumped
    <2> HIDE DEF commits
    <2>4. p \in DOMAIN MergedStrategies(commits)
      BY <2>2, <2>3
    <2>5. DOMAIN plan'[r] = DOMAIN MergedStrategies(commits) \cap DOMAIN seen[r]
      BY <1>1 DEF NextVersions, commits
    <2> QED  BY <1>1, <2>4, <2>5
  <1>7. LastTagged(r) \in Nat /\ i \in Nat
    BY <1>2, <1>4
  <1> QED  BY <1>5, <1>6, <1>7

\* The tags a run makes mark HEAD, behind which everything is planned or excused.
LEMMA MakeTagsShips ==
    ASSUME Typed, Placed, OnTrack, NEW r \in Runners, RunShips(r), MakeTags(r)
    PROVE  \A t \in tags'[r] :
               \/ t \in remoteTags
               \/ MarksIn(t, main, raced, commitSha[r], base[r], own[r], pc'[r])
  <1>1. \/ pc[r] = "tagging" /\ pc'[r] = "committing"
        \/ pc[r] = "retagging" /\ pc'[r] = "validating"
    BY DEF MakeTags, GoTo, Typed, TypeOK
  <1>2. \A t \in tags[r] :
            \/ t \in remoteTags
            \/ MarksIn(t, main, raced, commitSha[r], base[r], own[r], pc'[r])
    <2>1. pc[r] \in Steps /\ (pc[r] \notin UpToPulling => pc'[r] \notin UpToPulling)
      BY <1>1 DEF Steps, UpToPulling
    <2> QED  BY <2>1 DEF RunShips, MarksIn
  <1>3. CASE UNCHANGED tags
    BY <1>2, <1>3
  <1>4. CASE /\ config[r].tag /\ pc[r] = WhenTagged(config[r]) /\ CreateTags(r)
    <2> DEFINE wanted == TagsOf(plan[r], HeadOf(r), <<r, runs[r]>>)
               free   == Adoptable(wanted, tags[r])
    <2>1. \A t \in free : t.at = HeadOf(r)
      BY AdoptableIsTaken DEF TagsOf
    <2>2. \E made \in SUBSET free : tags' = [tags EXCEPT ![r] = @ \cup made]
      BY <1>4 DEF CreateTags
    <2> HIDE DEF free
    <2>3. \A t \in tags'[r] : t \in tags[r] \/ t.at = HeadOf(r)
      BY <2>1, <2>2 DEF Typed, TypeOK
    <2>4. /\ base[r] \in Nat /\ commitSha[r] \in Nat /\ base[r] \in 1..base[r]
          /\ commitSha[r] \in 1..base[r]
      BY DEF Typed, TypeOK, Placed, PlacedAt
    <2>5. ASSUME NEW t, t.at = HeadOf(r)
          PROVE  MarksIn(t, main, raced, commitSha[r], base[r], own[r], pc'[r])
      <3>1. CASE pc[r] = "tagging"
        <4>1. own[r] = 0 /\ base[r] = commitSha[r]
          BY <3>1 DEF OnTrack, RunOnTrack, Placed, PlacedAt, UpToPulling
        <4>2. t.at = main[commitSha[r]].id
          BY <2>5, <4>1 DEF HeadOf
        <4>3. ExcusedIn(main, raced, commitSha[r], commitSha[r])
          BY <2>4 DEF ExcusedIn
        <4> QED  BY <2>4, <4>2, <4>3 DEF MarksIn
      <3>2. CASE pc[r] = "retagging"
        <4>1. config[r].persistVersions
          BY <1>4, <3>2 DEF WhenTagged
        <4>2. ExcusedIn(main, raced, commitSha[r], base[r])
          BY <1>4, <3>2, <4>1 DEF RunShips
        <4>3. pc'[r] \notin UpToPulling
          BY <1>1, <3>2 DEF UpToPulling
        <4> QED  BY <2>4, <2>5, <4>2, <4>3 DEF MarksIn, HeadOf
      <3> QED  BY <1>1, <3>1, <3>2
    <2> QED  BY <1>2, <2>3, <2>5
  <1>5. \/ UNCHANGED tags
        \/ config[r].tag /\ pc[r] = WhenTagged(config[r]) /\ CreateTags(r)
    BY DEF MakeTags
  <1> QED  BY <1>3, <1>4, <1>5

\* After the pull the copy is the branch, and what it received is excused.
LEMMA PullStepShips ==
    ASSUME Typed, Placed, Remembers, NEW r \in Runners, RunShips(r), PullRebase(r)
    PROVE  RunShips(r)'
  <1>1. /\ pc[r] = "pulling" /\ pc'[r] = "retagging"
        /\ UNCHANGED <<main, remoteTags, registry, own, commitSha, plan, config>>
    BY DEF PullRebase, GoTo, Typed, TypeOK, shared, memory
  <1>2. /\ commitSha[r] \in Nat /\ base[r] = commitSha[r] /\ Len(main) \in Nat
        /\ base[r] \in 1..Len(main)
    BY <1>1 DEF Typed, TypeOK, Placed, PlacedAt, UpToPulling
  <1>3. raced \subseteq raced'
    BY DEF Remembers
  <1>4. \A t \in tags[r] :
            \/ t \in remoteTags
            \/ \E j \in 1..base[r] : t.at = main[j].id /\ ExcusedIn(main, raced, commitSha[r], j)
    BY <1>1 DEF RunShips, MarksIn, Steps, UpToPulling
  <1>5. /\ base'[r] = base[r] \/ base'[r] = Len(main)
        /\ tags'[r] \subseteq tags[r] \cup remoteTags
        /\ config[r].persistVersions /\ config[r].tag =>
               ExcusedIn(main, raced', commitSha[r], base'[r])
    <2>1. CASE PushesBranch(r)
      <3> DEFINE received == {main[i].id : i \in (base[r] + 1)..Len(main)}
                 fetched  == Adoptable({t \in remoteTags : t.at \in received}, tags[r])
      <3>1. /\ base' = [base EXCEPT ![r] = Len(main)]
            /\ tags' = [tags EXCEPT ![r] = @ \cup fetched]
            /\ config[r].persistVersions /\ config[r].tag => raced' = raced \cup received
        BY <2>1 DEF PullRebase
      <3>2. fetched \subseteq remoteTags
        BY AdoptableIsTaken
      <3>3. config[r].persistVersions /\ config[r].tag =>
                ExcusedIn(main, raced', commitSha[r], Len(main))
        BY <1>2, <3>1 DEF ExcusedIn
      <3> HIDE DEF fetched, received
      <3> QED  BY <3>1, <3>2, <3>3 DEF Typed, TypeOK
    <2>2. CASE ~PushesBranch(r)
      <3>1. UNCHANGED <<base, tags, raced>>
        BY <2>2 DEF PullRebase
      <3>2. ExcusedIn(main, raced, commitSha[r], base[r])
        BY <1>2 DEF ExcusedIn
      <3> QED  BY <3>1, <3>2
    <2> QED  BY <2>1, <2>2
  <1>6. \A j \in 1..base[r] :
            ExcusedIn(main, raced, commitSha[r], j) => ExcusedIn(main, raced', commitSha[r], j)
    BY <1>3 DEF ExcusedIn
  <1>7. \A t \in tags'[r] :
            \/ t \in remoteTags
            \/ MarksIn(t, main, raced', commitSha[r], base'[r], own[r], pc'[r])
    <2>1. 1..base[r] \subseteq 1..base'[r]
      BY <1>2, <1>5
    <2> QED  BY <1>4, <1>5, <1>6, <2>1 DEF MarksIn
  <1>8. CoveredIn(main, raced', registry, commitSha[r], DOMAIN plan[r])
    BY <1>1, <1>3 DEF RunShips, CoveredIn, UntilTagsPushed
  <1> QED  BY <1>1, <1>5, <1>7, <1>8 DEF RunShips

\* The push puts the publish commit on top of the branch, and it bumps nothing.
LEMMA BranchPushShips ==
    ASSUME Typed, Placed, Ids, Remembers, NEW r \in Runners, RunShips(r),
           PushBranch(r) \/ PushBranchUnanswered(r), BranchPushed(r), UNCHANGED raced
    PROVE  RunShips(r)'
  <1>1. /\ pc[r] = "pushing" /\ pc'[r] \in {"pushingTags", "cleanup"}
        /\ UNCHANGED <<remoteTags, registry, tags, commitSha, plan, config>>
        /\ ~config[r].dryRun
        /\ (~BranchRefused(r) /\ PushesBranch(r)) \/ UNCHANGED <<shared, copy>>
    BY DEF PushBranch, PushBranchUnanswered, PushesRelease, BranchPushed, GoTo, Throws,
           Typed, TypeOK, memory, rest
  <1>2. /\ commitSha[r] \in Nat /\ base[r] \in Nat /\ commitSha[r] \in 1..base[r]
        /\ Len(main) \in Nat /\ base[r] \in 1..Len(main) /\ own[r] \in Nat
        /\ main \in Seq(Commit)
    BY DEF Typed, TypeOK, Placed, PlacedAt, Commit
  <1>3. \A t \in tags[r] :
            \/ t \in remoteTags
            \/ MarksIn(t, main, raced, commitSha[r], base[r], own[r], pc[r])
    BY <1>1 DEF RunShips, Steps
  <1>4. own'[r] = 0 /\ base'[r] = Len(main')
    BY DEF BranchPushed, Typed, TypeOK
  <1>5. /\ Len(main') \in Nat /\ Len(main) <= Len(main')
        /\ \A i \in 1..Len(main) : main'[i] = main[i]
        /\ own[r] # 0 => /\ Len(main') = Len(main) + 1
                         /\ main'[Len(main')].id = own[r] /\ ~main'[Len(main')].dev
    <2>1. CASE own[r] = 0
      BY <1>2, <2>1 DEF BranchPushed
    <2>2. CASE own[r] # 0
      <3>1. main' = Append(main, PublishCommit(r)) /\ PublishCommit(r) \in Commit
        BY <2>2, PublishCommitIsCommit DEF BranchPushed, Typed
      <3>2. PublishCommit(r).id = own[r] /\ ~PublishCommit(r).dev
        BY DEF PublishCommit
      <3>3. /\ Len(main') = Len(main) + 1
            /\ \A i \in 1..Len(main) : main'[i] = main[i]
            /\ main'[Len(main) + 1] = PublishCommit(r)
        BY <3>1, AppendedCommit DEF Typed
      <3> QED  BY <1>2, <3>2, <3>3
    <2> QED  BY <2>1, <2>2
  <1>6. ASSUME NEW t \in tags[r], t \notin remoteTags
        PROVE  \E j \in 1..Len(main') :
                   t.at = main'[j].id /\ ExcusedIn(main', raced, commitSha[r], j)
    <2>1. CASE \E j \in 1..base[r] :
                   t.at = main[j].id /\ ExcusedIn(main, raced, commitSha[r], j)
      <3>1. PICK j \in 1..base[r] :
                   t.at = main[j].id /\ ExcusedIn(main, raced, commitSha[r], j)
        BY <2>1
      <3>2. j \in 1..Len(main) /\ j \in 1..Len(main')
        BY <1>2, <1>5
      <3>3. ExcusedIn(main', raced, commitSha[r], j)
        BY <1>2, <1>5, <3>1, <3>2 DEF ExcusedIn
      <3> QED  BY <1>5, <3>1, <3>2, <3>3
    <2>2. CASE own[r] # 0 /\ t.at = own[r] /\ ExcusedIn(main, raced, commitSha[r], base[r])
      <3>1. base[r] = Len(main)
        <4>1. CASE ~BranchRefused(r) /\ PushesBranch(r)
          BY <4>1 DEF BranchRefused
        <4>2. CASE UNCHANGED <<shared, copy>>
          BY <1>4, <2>2, <4>2 DEF copy
        <4> QED  BY <1>1, <4>1, <4>2
      <3>2. ExcusedIn(main', raced, commitSha[r], Len(main'))
        <4> SUFFICES ASSUME NEW i \in (commitSha[r] + 1)..Len(main')
                     PROVE  main'[i].id \in raced \/ ~main'[i].dev
          BY DEF ExcusedIn
        <4>1. CASE i = Len(main')
          BY <1>5, <2>2, <4>1
        <4>2. CASE i # Len(main')
          <5>1. i \in (commitSha[r] + 1)..base[r] /\ i \in 1..Len(main)
            BY <1>2, <1>5, <2>2, <3>1, <4>2
          <5> QED  BY <1>5, <2>2, <5>1 DEF ExcusedIn
        <4> QED  BY <4>1, <4>2
      <3>3. Len(main') \in 1..Len(main') /\ t.at = main'[Len(main')].id
        BY <1>2, <1>5, <2>2
      <3> QED  BY <3>2, <3>3
    <2> QED  BY <1>3, <1>6, <2>1, <2>2 DEF MarksIn
  <1>7. CoveredIn(main', raced, registry, commitSha[r], DOMAIN plan[r])
    <2>1. \A i \in 1..commitSha[r] : main'[i] = main[i]
      BY <1>2, <1>5
    <2> QED  BY <1>1, <2>1 DEF RunShips, CoveredIn, UntilTagsPushed
  <1>8. \A p \in DOMAIN plan[r] : ShippedIn(registry, commitSha[r], p)
    BY <1>1 DEF RunShips
  <1> QED  BY <1>1, <1>4, <1>6, <1>7, <1>8 DEF RunShips, MarksIn

\* Start, and the steps that change the copy or the plan.
LEMMA MovingStepShips ==
    ASSUME Typed, OnTrack, Placed, Ids, EverythingRead, FreshClone, SharedIsSound,
           Remembers, NEW r \in Runners, RunShips(r),
           \/ Start(r) \/ Plan(r) \/ MakeTags(r) \/ CommitFiles(r)
    PROVE  RunShips(r)'
  <1>1. /\ base[r] \in Nat /\ commitSha[r] \in Nat /\ tags[r] = tags[r]
        /\ DOMAIN tags = Runners
    BY DEF Typed, TypeOK
  <1>2. CASE Start(r)
    <2>1. /\ pc'[r] = "reading" /\ tags'[r] = remoteTags /\ UNCHANGED remoteTags
      BY <1>2 DEF Start, GoTo, Typed, TypeOK, shared
    <2>2. FirstTags' = FirstTags /\ FirstTags \subseteq remoteTags
      BY DEF SharedIsSound, FirstTags
    <2> QED  BY <2>1, <2>2 DEF RunShips, UntilTagsPushed
  <1>3. CASE Plan(r)
    <2>1. /\ pc[r] = "planning" /\ pc'[r] = "preparing"
          /\ UNCHANGED <<main, remoteTags, registry, base, own, tags, commitSha, raced, config>>
      BY <1>3, PlanIsMade DEF GoTo, Typed, TypeOK, shared, copy, rest
    <2>2. CoveredIn(main, raced, registry, commitSha[r], DOMAIN plan'[r])
      BY <1>3, PlanStepShips
    <2>3. tags[r] \subseteq remoteTags
      BY <2>1 DEF RunShips
    <2> QED  BY <2>1, <2>2, <2>3 DEF RunShips
  <1>4. CASE MakeTags(r)
    <2>1. /\ \/ pc[r] = "tagging" /\ pc'[r] = "committing"
             \/ pc[r] = "retagging" /\ pc'[r] = "validating"
          /\ UNCHANGED <<main, remoteTags, registry, base, own, commitSha, plan, raced, config>>
      BY <1>4 DEF MakeTags, GoTo, Typed, TypeOK, shared, memory, rest
    <2>2. \A t \in tags'[r] :
              \/ t \in remoteTags
              \/ MarksIn(t, main, raced, commitSha[r], base[r], own[r], pc'[r])
      BY <1>4, MakeTagsShips
    <2>3. CoveredIn(main, raced, registry, commitSha[r], DOMAIN plan[r])
      BY <2>1 DEF RunShips, UntilTagsPushed
    <2> QED  BY <2>1, <2>2, <2>3 DEF RunShips
  <1>5. CASE CommitFiles(r)
    <2>1. /\ pc[r] = "committing" /\ pc'[r] = "pulling"
          /\ UNCHANGED <<main, remoteTags, registry, base, tags, commitSha, plan, raced, config>>
      BY <1>5 DEF CommitFiles, GoTo, Typed, TypeOK, shared, memory
    <2>2. \A t \in tags[r] :
              \/ t \in remoteTags
              \/ \E j \in 1..base[r] : t.at = main[j].id /\ ExcusedIn(main, raced, commitSha[r], j)
      BY <2>1 DEF RunShips, MarksIn, Steps, UpToPulling
    <2>3. CoveredIn(main, raced, registry, commitSha[r], DOMAIN plan[r])
      BY <2>1 DEF RunShips, UntilTagsPushed
    <2> QED  BY <2>1, <2>2, <2>3 DEF RunShips, MarksIn
  <1> QED  BY <1>2, <1>3, <1>4, <1>5

\* The uploads of the run contain everything it was started on.
LEMMA PublishingStepShips ==
    ASSUME Typed, Placed, Remembers, NEW r \in Runners, RunShips(r),
           \/ PublishSettles(r)
           \/ \E p \in Public : \/ PackOnly(r, p) \/ Upload(r, p) \/ UploadConflicts(r, p)
                                \/ UploadUnanswered(r, p) \/ UploadFails(r, p)
    PROVE  RunShips(r)'
  <1>1. /\ pc[r] = "publishing"
        /\ UNCHANGED <<base, own, tags, commitSha, plan, config>>
    BY DEF PublishSettles, PackOnly, Upload, UploadConflicts, UploadUnanswered,
           UploadFails, Attempts, copy, memory, rest
  <1>2. \A i, p : ShippedIn(registry, i, p) => ShippedIn(registry', i, p)
    BY DEF Remembers, ShippedIn
  <1>3. CASE PublishSettles(r)
    <2>1. \/ pc'[r] = "cleanup"
          \/ /\ pc'[r] = "pushing" /\ outcome[r] # "failed" /\ attempted[r] = DOMAIN plan[r]
      BY <1>3 DEF PublishSettles, GoTo, Typed, TypeOK
    <2>2. pc'[r] = "pushing" /\ ~config[r].dryRun =>
              \A p \in DOMAIN plan[r] : ShippedIn(registry', commitSha[r], p)
      BY <1>1, <1>2, <2>1 DEF RunShips
    <2> QED  BY <1>1, <2>1, <2>2, QuietStepShips DEF Steps, UntilTagsPushed, UpToPulling
  <1>4. ASSUME NEW p \in Public, Upload(r, p)
        PROVE  RunShips(r)'
    <2>1. /\ pc'[r] = "publishing" /\ outcome'[r] = outcome[r]
          /\ attempted'[r] = attempted[r] \cup {p}
          /\ [pkg |-> p, version |-> plan[r][p], contains |-> base[r]] \in registry'
      BY <1>1, <1>4 DEF Upload, Attempts, Stores, Typed, TypeOK
    <2>2. base[r] >= commitSha[r]
      BY DEF Placed, PlacedAt, Typed, TypeOK
    <2>3. ShippedIn(registry', commitSha[r], p)
      BY <2>1, <2>2 DEF ShippedIn
    <2>4. outcome'[r] # "failed" /\ ~config[r].dryRun =>
              \A q \in attempted'[r] : ShippedIn(registry', commitSha[r], q)
      BY <1>1, <1>2, <2>1, <2>3 DEF RunShips
    <2> QED  BY <1>1, <2>1, <2>4, QuietStepShips DEF Steps, UntilTagsPushed, UpToPulling
  <1>5. ASSUME NEW p \in Public,
               UploadConflicts(r, p) \/ UploadUnanswered(r, p) \/ UploadFails(r, p)
        PROVE  RunShips(r)'
    <2>1. pc'[r] = "publishing" /\ outcome'[r] = "failed"
      BY <1>1, <1>5 DEF UploadConflicts, UploadUnanswered, UploadFails, Report, Typed, TypeOK
    <2> QED  BY <1>1, <2>1, QuietStepShips DEF Steps, UntilTagsPushed, UpToPulling
  \* Only a dry run packs and does not send.
  <1>6. ASSUME NEW p \in Public, PackOnly(r, p)
        PROVE  RunShips(r)'
    <2>1. pc'[r] = "publishing" /\ config[r].dryRun
      BY <1>1, <1>6 DEF PackOnly, Puts
    <2> QED  BY <1>1, <2>1, QuietStepShips DEF Steps, UntilTagsPushed, UpToPulling
  <1> QED  BY <1>3, <1>4, <1>5, <1>6

LEMMA RunStepShips ==
    ASSUME Typed, OnTrack, Placed, Ids, EverythingRead, FreshClone, SharedIsSound,
           NEW r \in Runners, RunShips(r), Start(r) \/ Advance(r) \/ Misfortune(r)
    PROVE  RunShips(r)'
  <1>1. Remembers /\ (PullRebase(r) \/ UNCHANGED raced)
    BY NothingForgotten
  <1>2. CASE Start(r) \/ Plan(r) \/ MakeTags(r) \/ CommitFiles(r)
    BY <1>1, <1>2, MovingStepShips
  <1>3. CASE \/ PublishSettles(r)
             \/ \E p \in Public : \/ PackOnly(r, p) \/ Upload(r, p) \/ UploadConflicts(r, p)
                                  \/ UploadUnanswered(r, p) \/ UploadFails(r, p)
    BY <1>1, <1>3, PublishingStepShips
  <1>4. CASE PullRebase(r)
    BY <1>1, <1>4, PullStepShips
  \* Steps that leave the working copy and the plan alone.
  <1>5. ASSUME pc[r] \in Steps, UNCHANGED <<base, own, tags, commitSha, plan, config>>,
               \/ pc'[r] = pc[r] /\ pc[r] = "reading"
               \/ pc[r] = "reading" /\ pc'[r] = "planning"
               \/ pc[r] = "preparing" /\ pc'[r] \in {"tagging", "validating"}
               \/ pc[r] = "validating" /\ pc'[r] = "publishing"
               \/ pc[r] = "pushing" /\ pc'[r] = "pushingTags" /\ ~config[r].dryRun
               \/ pc'[r] \in {"hooks", "cleanup", "ended"},
               pc'[r] = "publishing" => attempted'[r] = {}
        PROVE  RunShips(r)'
    <2>1. pc'[r] = "pushingTags" =>
              \A p \in DOMAIN plan[r] : ShippedIn(registry', commitSha[r], p)
      BY <1>1, <1>5 DEF RunShips, Remembers, ShippedIn
    <2> QED  BY <1>1, <1>5, <2>1, QuietStepShips DEF UntilTagsPushed, UpToPulling
  <1>6. ASSUME NEW p \in Public, ReadTag(r, p) \/ ReadTagDenied(r, p)
        PROVE  RunShips(r)'
    BY <1>5, <1>6 DEF ReadTag, ReadTagDenied, Steps, copy, memory, rest
  <1>7. CASE AllRead(r) \/ PrepareFiles(r) \/ SkipPush(r) \/ Hooks(r) \/ Cleanup(r)
    BY <1>5, <1>7 DEF AllRead, PrepareFiles, SkipPush, Hooks, Cleanup, GoTo, Typed,
                      TypeOK, Steps, copy, memory, rest
  <1>8. CASE ValidatePush(r)
    <2>1. attempted[r] = {} /\ UNCHANGED attempted
      BY <1>8 DEF ValidatePush, Typed, Unattempted, BeforeUploads, memory
    <2> QED  BY <1>5, <1>8, <2>1 DEF ValidatePush, GoTo, Throws, Typed, TypeOK, Steps,
                      copy, memory, rest
  <1>9. CASE PushBranch(r) \/ PushBranchUnanswered(r)
    <2>1. CASE BranchPushed(r)
      <3>1. UNCHANGED raced
        BY <1>9 DEF PushBranch, PushBranchUnanswered, rest
      <3> QED  BY <1>1, <1>9, <2>1, <3>1, BranchPushShips
    <2>2. CASE UNCHANGED <<shared, copy>>
      BY <1>5, <1>9, <2>2 DEF PushBranch, PushBranchUnanswered, PushesRelease, GoTo,
                             Throws, Typed, TypeOK, Steps, copy, memory, rest
    <2> QED  BY <1>9, <2>1, <2>2 DEF PushBranch, PushBranchUnanswered
  <1>10. CASE PushTags(r) \/ PushTagsBreaks(r)
    BY <1>5, <1>10 DEF PushTags, PushTagsBreaks, GoTo, Throws, Typed, TypeOK, Steps,
                       copy, memory, rest
  <1>11. CASE StepThrows(r) \/ EndsThrowing(r) \/ Crash(r)
    BY <1>5, <1>11 DEF StepThrows, EndsThrowing, Crash, GoTo, Throws, Typed, TypeOK, Steps,
                       StepsUnderTry, copy, memory, rest
  <1> QED  BY <1>2, <1>3, <1>4, <1>6, <1>7, <1>8, <1>9, <1>10, <1>11 DEF Advance, Misfortune

\* Only git push --tags puts tags on the remote, and only uploads versions into
\* the registry.
LEMMA TagsAndVersionsFrame ==
    ASSUME Typed, NEW r \in Runners, Start(r) \/ Advance(r) \/ Misfortune(r)
    PROVE  /\ \/ UNCHANGED remoteTags
              \/ /\ pc[r] = "pushingTags" /\ PushesTags(r)
                 /\ remoteTags' \subseteq remoteTags \cup tags[r]
                 /\ UNCHANGED <<main, registry, raced>>
           /\ \A e \in registry' : e \in registry \/ e.contains = base[r]
  <1> USE DEF shared
  <1> DEFINE Tags == \/ UNCHANGED remoteTags
                     \/ /\ pc[r] = "pushingTags" /\ PushesTags(r)
                        /\ remoteTags' \subseteq remoteTags \cup tags[r]
                        /\ UNCHANGED <<main, registry, raced>>
             Versions == \A e \in registry' : e \in registry \/ e.contains = base[r]
             Goal == Tags /\ Versions
  <1>1. ASSUME NEW p \in Public, ReadTag(r, p) \/ ReadTagDenied(r, p)
        PROVE  Goal
    BY <1>1 DEF ReadTag, ReadTagDenied
  <1>2. ASSUME NEW p \in Public,
               \/ PackOnly(r, p) \/ Upload(r, p) \/ UploadConflicts(r, p)
               \/ UploadUnanswered(r, p) \/ UploadFails(r, p)
        PROVE  Goal
    BY <1>2 DEF PackOnly, Upload, UploadConflicts, UploadUnanswered, UploadFails, Stores
  <1>3. Start(r) \/ AllRead(r) \/ Plan(r) \/ PrepareFiles(r) \/ MakeTags(r)
        \/ CommitFiles(r) \/ PullRebase(r) \/ ValidatePush(r) \/ PublishSettles(r) => Goal
    BY DEF Start, AllRead, Plan, PrepareFiles, MakeTags, CommitFiles, PullRebase,
           ValidatePush, PublishSettles
  <1>4. PushBranch(r) \/ PushBranchUnanswered(r) => Goal
    BY DEF PushBranch, PushBranchUnanswered, BranchPushed
  <1>5. PushTags(r) \/ PushTagsBreaks(r) => Goal
    BY AdoptableIsTaken DEF PushTags, PushTagsBreaks, rest
  <1>6. SkipPush(r) \/ Hooks(r) \/ Cleanup(r)
        \/ StepThrows(r) \/ EndsThrowing(r) \/ Crash(r) => Goal
    BY DEF SkipPush, Hooks, Cleanup, StepThrows, EndsThrowing, Crash
  <1>7. Goal
    BY <1>1, <1>2, <1>3, <1>4, <1>5, <1>6 DEF Advance, Misfortune
  <1> QED  BY <1>7

\* As long as no tag arrives, what grows behind the tags changes nothing.
LEMMA WithoutNewTags ==
    ASSUME Typed, Ids, PushedTagsOnMain, TaggedCommitsAreShipped, Remembers,
           [Next]_vars, UNCHANGED remoteTags
    PROVE  TaggedCommitsAreShipped'
  <1> SUFFICES ASSUME NEW i \in 1..Len(main'), NEW t \in remoteTags,
                      NEW j \in i..Len(main'), t.at = main'[j].id,
                      NEW p \in Public, Bumps(main'[i], p)
               PROVE  \/ \E e \in registry' : e.pkg = p /\ e.contains >= i
                      \/ main'[i].id \in raced'
    BY DEF TaggedCommitsAreShipped, BehindTag, Shipped
  <1>1. /\ Len(main) \in Nat /\ Len(main') \in Nat /\ Len(main) <= Len(main')
        /\ \A k \in 1..Len(main) : main'[k] = main[k]
        /\ \A k \in Len(main) + 1..Len(main') : \A n \in 1..Len(main) :
               main'[k].id # main[n].id
    BY HistoryIsKept
  <1>2. PICK n \in 1..Len(main) : t.at = main[n].id
    BY DEF PushedTagsOnMain, IdsOnMain
  <1>3. j \in 1..Len(main) /\ i \in 1..Len(main) /\ j \in i..Len(main)
    <2>1. j \in Nat /\ i \in Nat /\ 1 <= i /\ i <= j /\ j <= Len(main')
      BY <1>1
    <2>2. main'[j].id = main[n].id
      BY <1>2
    <2>3. ~(j > Len(main))
      BY <1>1, <2>1, <2>2
    <2> QED  BY <1>1, <2>1, <2>3
  <1>4. BehindTag(i) /\ Bumps(main[i], p)
    BY <1>1, <1>3 DEF BehindTag
  <1>5. Shipped(i, p) \/ main[i].id \in raced
    BY <1>3, <1>4 DEF TaggedCommitsAreShipped
  <1> QED  BY <1>1, <1>3, <1>5 DEF Remembers, Shipped

\* A run pushes tags only when what they close off is shipped.
LEMMA PushedTagsCloseOff ==
    ASSUME Typed, OnTrack, Placed, Ids, TagsOnMain, SharedIsSound, NEW r \in Runners,
           RunShips(r), pc[r] = "pushingTags", PushesTags(r),
           remoteTags' \subseteq remoteTags \cup tags[r],
           UNCHANGED <<main, registry, raced>>
    PROVE  TaggedCommitsAreShipped'
  <1> SUFFICES ASSUME NEW i \in 1..Len(main), NEW t \in remoteTags',
                      NEW j \in i..Len(main), t.at = main[j].id,
                      NEW p \in Public, Bumps(main[i], p)
               PROVE  ShippedIn(registry, i, p) \/ main[i].id \in raced
    BY DEF TaggedCommitsAreShipped, BehindTag, Shipped, ShippedIn
  <1>1. /\ Len(main) \in Nat /\ commitSha[r] \in Nat /\ base[r] \in 1..Len(main)
        /\ commitSha[r] \in 1..base[r] /\ i \in Nat /\ j \in 1..Len(main) /\ i <= j
    BY DEF Typed, TypeOK, Placed, PlacedAt
  <1>2. CASE t \in remoteTags
    <2>1. BehindTag(i)
      BY <1>2 DEF BehindTag
    <2> QED  BY <2>1 DEF SharedIsSound, TaggedCommitsAreShipped, Shipped, ShippedIn
  <1>3. CASE t \in tags[r] /\ t \notin remoteTags
    <2>1. own[r] = 0
      BY DEF OnTrack, RunOnTrack, TagsOnMain, RunTagsOnMain, PushesTags, PushesBranch, Steps
    <2>2. MarksIn(t, main, raced, commitSha[r], base[r], own[r], pc[r])
      BY <1>3 DEF RunShips, Steps
    <2>3. PICK k \in 1..base[r] :
              t.at = main[k].id /\ ExcusedIn(main, raced, commitSha[r], k)
      BY <2>1, <2>2 DEF MarksIn
    <2>4. k = j
      <3>1. k \in 1..Len(main) /\ main[k].id = main[j].id
        BY <1>1, <2>3
      <3> QED  BY <1>1, <3>1 DEF Ids
    <2>5. CASE i <= commitSha[r]
      <3>1. i \in 1..commitSha[r]
        BY <1>1, <2>5
      <3>2. \/ p \in DOMAIN plan[r] \/ ShippedIn(registry, i, p) \/ main[i].id \in raced
        <4>1. CoveredIn(main, raced, registry, commitSha[r], DOMAIN plan[r])
          BY DEF RunShips, UntilTagsPushed
        <4> QED  BY <3>1, <4>1 DEF CoveredIn
      <3>3. p \in DOMAIN plan[r] => ShippedIn(registry, commitSha[r], p)
        BY DEF RunShips
      <3>4. ShippedIn(registry, commitSha[r], p) => ShippedIn(registry, i, p)
        BY <1>1, <2>5 DEF ShippedIn, SharedIsSound
      <3> QED  BY <3>2, <3>3, <3>4
    <2>6. CASE i > commitSha[r]
      <3>1. i \in (commitSha[r] + 1)..k
        BY <1>1, <2>4, <2>6
      <3>2. main[i].dev
        BY DEF Bumps
      <3> QED  BY <2>3, <3>1, <3>2 DEF ExcusedIn
    <2> QED  BY <1>1, <2>5, <2>6
  <1> QED  BY <1>2, <1>3

LEMMA UntouchedShips ==
    ASSUME Typed, Placed, Remembers, NEW q \in Runners, RunShips(q), Untouched(q)
    PROVE  RunShips(q)'
  <1>1. CASE pc[q] \in Steps
    <2>1. \A p : ShippedIn(registry, commitSha[q], p) => ShippedIn(registry', commitSha[q], p)
      BY DEF ShippedIn, Remembers
    <2>2. pc'[q] = "publishing" /\ outcome'[q] # "failed" /\ ~config[q].dryRun =>
              \A p \in attempted'[q] : ShippedIn(registry', commitSha[q], p)
      BY <2>1 DEF RunShips, Untouched
    <2>3. pc'[q] \in {"pushing", "pushingTags"} /\ ~config[q].dryRun =>
              \A p \in DOMAIN plan[q] : ShippedIn(registry', commitSha[q], p)
      BY <2>1 DEF RunShips, Untouched
    <2>4. pc'[q] = "pushingTags" => ~config[q].dryRun
      BY DEF RunShips, Untouched
    <2> QED  BY <1>1, <2>2, <2>3, <2>4, QuietStepShips DEF Untouched
  <1>2. CASE pc[q] \notin Steps
    BY <1>2 DEF RunShips, Untouched, Steps, UntilTagsPushed
  <1> QED  BY <1>1, <1>2

LEMMA DeveloperPushShips ==
    ASSUME Typed, Placed, Ids, TagsOnMain, Ships, DeveloperPushes
    PROVE  Ships'
  <1>1. /\ Len(main) \in Nat /\ Len(main') \in Nat /\ Len(main) <= Len(main')
        /\ \A k \in 1..Len(main) : main'[k] = main[k]
    BY HistoryIsKept DEF Next
  <1>2. UNCHANGED <<remoteTags, registry, raced>>
    BY DEF DeveloperPushes
  <1>3. Remembers
    BY <1>1, <1>2 DEF Remembers
  <1>4. \A q \in Runners : Untouched(q)
    BY DEF DeveloperPushes, copy, memory, Untouched
  <1>5. \A q \in Runners : RunShips(q)'
    BY <1>3, <1>4, UntouchedShips DEF Ships
  <1>6. TaggedCommitsAreShipped'
    BY <1>2, <1>3, WithoutNewTags DEF Next, TagsOnMain, Ships, SharedIsSound
  <1>7. FirstTags' = FirstTags
    BY DEF FirstTags
  <1> QED  BY <1>1, <1>2, <1>5, <1>6, <1>7 DEF Ships, SharedIsSound

LEMMA RunShipsStep ==
    ASSUME Typed, OnTrack, Placed, Ids, TagsOnMain, EverythingRead, FreshClone, Ships,
           NEW r \in Runners, Start(r) \/ Advance(r) \/ Misfortune(r)
    PROVE  Ships'
  <1>1. Remembers
    BY NothingForgotten
  <1>2. \A q \in Runners \ {r} : RunShips(q)'
    BY <1>1, OthersUntouched, UntouchedShips DEF Ships, Typed
  <1>3. RunShips(r)'
    BY RunStepShips DEF Ships
  <1>4. /\ \/ UNCHANGED remoteTags
           \/ /\ pc[r] = "pushingTags" /\ PushesTags(r)
              /\ remoteTags' \subseteq remoteTags \cup tags[r]
              /\ UNCHANGED <<main, registry, raced>>
        /\ \A e \in registry' : e \in registry \/ e.contains = base[r]
    BY TagsAndVersionsFrame
  <1>5. TaggedCommitsAreShipped'
    <2>1. CASE UNCHANGED remoteTags
      BY <1>1, <2>1, WithoutNewTags DEF Next, TagsOnMain, Ships, SharedIsSound
    <2>2. CASE /\ pc[r] = "pushingTags" /\ PushesTags(r)
               /\ remoteTags' \subseteq remoteTags \cup tags[r]
               /\ UNCHANGED <<main, registry, raced>>
      BY <2>2, PushedTagsCloseOff DEF Ships
    <2> QED  BY <1>4, <2>1, <2>2
  <1>6. \A e \in registry' : e.contains \in Nat
    <2>1. base[r] \in Nat
      BY DEF Typed, TypeOK
    <2> QED  BY <1>4, <2>1 DEF Ships, SharedIsSound
  <1>7. 1 \in 1..Len(main') /\ main'[1].id = 1
    <2>1. Len(main') \in Nat /\ Len(main) <= Len(main')
      BY HistoryIsKept DEF Next
    <2> QED  BY <1>1, <2>1 DEF Ships, SharedIsSound, Remembers
  <1>8. FirstTags' = FirstTags /\ FirstTags \subseteq remoteTags'
    BY <1>1 DEF FirstTags, Ships, SharedIsSound, Remembers
  <1> QED  BY <1>2, <1>3, <1>5, <1>6, <1>7, <1>8 DEF Ships, SharedIsSound

LEMMA ShipsAtFirst ==
    ASSUME Init, InitiallyTagged
    PROVE  Ships
  <1>1. /\ Len(main) = 1 /\ main[1] = DevCommit(1, "none", Packages)
        /\ remoteTags = FirstTags
        /\ registry = [pkg : Public, version : {FirstVersion}, contains : {1}]
        /\ \A r \in Runners : pc[r] = "idle"
    BY DEF Init
  <1>2. 1 \in 1..Len(main) /\ main[1].id = 1
    BY <1>1 DEF DevCommit
  <1>3. TaggedCommitsAreShipped
    <2> SUFFICES ASSUME NEW i \in 1..Len(main), NEW p \in Public
                 PROVE  Shipped(i, p)
      BY DEF TaggedCommitsAreShipped
    <2>1. i = 1
      BY <1>1
    <2>2. [pkg |-> p, version |-> FirstVersion, contains |-> 1] \in registry
      BY <1>1
    <2> QED  BY <2>1, <2>2 DEF Shipped
  <1>4. \A r \in Runners : RunShips(r)
    BY <1>1 DEF RunShips, Steps, UntilTagsPushed
  <1>5. \A e \in registry : e.contains \in Nat
    BY <1>1
  <1> QED  BY <1>1, <1>2, <1>3, <1>4, <1>5 DEF Ships, SharedIsSound

LEMMA ShipsHolds == ASSUME FreshClone, InitiallyTagged PROVE Spec => []Ships
  <1> DEFINE Known == /\ Typed /\ OnTrack /\ Placed /\ Ids /\ TagsOnMain
                      /\ EverythingRead
  <1>1. Init => Ships
    BY ShipsAtFirst
  <1>2. Known /\ Ships /\ [Next]_vars => Ships'
    <2>1. CASE UNCHANGED vars
      BY <2>1 DEF vars, shared, copy, memory, rest, Ships, SharedIsSound, RunShips,
                  TaggedCommitsAreShipped, BehindTag, Shipped, FirstTags
    <2>2. ASSUME Known, Ships, DeveloperPushes PROVE Ships'
      BY <2>2, DeveloperPushShips
    <2>3. ASSUME Known, Ships, NEW r \in Runners, Start(r) \/ Advance(r) \/ Misfortune(r)
          PROVE  Ships'
      BY <2>3, RunShipsStep
    <2> QED  BY <2>1, <2>2, <2>3 DEF Next
  <1>3. Spec => []EverythingRead
    BY EverythingReadHolds
  <1>4. Spec => []Known
    BY <1>3, TypedHolds, OnTrackHolds, PlacedHolds, IdsHold, TagsOnMainHolds, PTL DEF Known
  <1> HIDE DEF Known
  <1> QED  BY <1>1, <1>2, <1>4, PTL DEF Spec

\* Every change behind a pushed tag is in a published version, or was pulled in
\* under a computed plan; so no later run misses a change because of a tag, in
\* whatever order runs fail, crash, race each other and the developers.
THEOREM TaggedChangesShip ==
    ASSUME FreshClone, InitiallyTagged
    PROVE  Spec => []TaggedCommitsAreShipped
  <1>1. Ships => TaggedCommitsAreShipped
    BY DEF Ships, SharedIsSound
  <1> QED  BY <1>1, ShipsHolds, PTL

-----------------------------------------------------------------------------
(* A run that succeeds leaves no change of its checkout unreleased.           *)

\* What SuccessLeavesNothingDue asks of one run, from its last pushed tag on.
RunLeavesNothingDue(r) ==
    /\ ~config[r].dryRun
    /\ \/ pc[r] \in {"hooks", "cleanup"} /\ outcome[r] = "running"
       \/ outcome[r] = "success"
    => CoveredIn(main, raced, registry, commitSha[r], {})

NothingDue == \A r \in Runners : RunLeavesNothingDue(r)

\* What is covered stays covered.
LEMMA CoverIsKept ==
    ASSUME Typed, Placed, Remembers, NEW q \in Runners, NEW planned,
           CoveredIn(main, raced, registry, commitSha[q], planned)
    PROVE  CoveredIn(main', raced', registry', commitSha[q], planned)
  <1>1. commitSha[q] \in 0..Len(main) /\ Len(main) \in Nat
    BY DEF Typed, TypeOK, Placed, PlacedAt
  <1> QED  BY <1>1, ShipmentIsKept DEF Remembers

\* The uploads of a run contain all its plan asked for, so the plan is not needed.
LEMMA UploadedIsCovered ==
    ASSUME Typed, Placed, SharedIsSound, NEW r \in Runners,
           CoveredIn(main, raced, registry, commitSha[r], DOMAIN plan[r]),
           \A p \in DOMAIN plan[r] : ShippedIn(registry, commitSha[r], p)
    PROVE  CoveredIn(main, raced, registry, commitSha[r], {})
  <1>1. commitSha[r] \in Nat
    BY DEF Typed, TypeOK
  <1> SUFFICES ASSUME NEW i \in 1..commitSha[r], NEW p \in Public, Bumps(main[i], p)
               PROVE  ShippedIn(registry, i, p) \/ main[i].id \in raced
    BY DEF CoveredIn
  <1>2. p \in DOMAIN plan[r] \/ ShippedIn(registry, i, p) \/ main[i].id \in raced
    BY DEF CoveredIn
  <1>3. ShippedIn(registry, commitSha[r], p) => ShippedIn(registry, i, p)
    BY <1>1 DEF ShippedIn, SharedIsSound
  <1> QED  BY <1>2, <1>3

\* Where a run that reports no failure can come from.
LEMMA HowRunsSucceed ==
    ASSUME Typed, OnTrack, NEW r \in Runners, Start(r) \/ Advance(r) \/ Misfortune(r),
           \/ pc'[r] \in {"hooks", "cleanup"} /\ outcome'[r] = "running"
           \/ outcome'[r] = "success"
    PROVE  \/ SkipPush(r)
           \/ PushTags(r)
           \/ /\ pc[r] \in {"hooks", "cleanup"} /\ outcome[r] = "running"
              /\ UNCHANGED commitSha
  <1> USE DEF Typed, TypeOK, Steps, memory, GoTo, Report
  <1>1. pc[r] \in Steps => outcome[r] # "success"
    BY DEF OnTrack, RunOnTrack
  <1> DEFINE Goal == \/ SkipPush(r)
                     \/ PushTags(r)
                     \/ /\ pc[r] \in {"hooks", "cleanup"} /\ outcome[r] = "running"
                        /\ UNCHANGED commitSha
  <1>2. CASE Start(r) \/ AllRead(r) \/ PrepareFiles(r) \/ CommitFiles(r) \/ PullRebase(r)
    BY <1>1, <1>2 DEF Start, AllRead, PrepareFiles, CommitFiles, PullRebase
  <1>3. ASSUME NEW p \in Public, ReadTag(r, p) \/ ReadTagDenied(r, p)
        PROVE  Goal
    BY <1>1, <1>3 DEF ReadTag, ReadTagDenied
  <1>4. CASE Plan(r)
    BY <1>1, <1>4, PlanIsMade
  <1>5. CASE MakeTags(r)
    BY <1>1, <1>5 DEF MakeTags, CreateTags
  <1>6. ASSUME NEW p \in Public,
               \/ PackOnly(r, p) \/ Upload(r, p) \/ UploadConflicts(r, p)
               \/ UploadUnanswered(r, p) \/ UploadFails(r, p)
        PROVE  Goal
    BY <1>1, <1>6 DEF PackOnly, Upload, UploadConflicts, UploadUnanswered, UploadFails,
                      Attempts
  <1>7. CASE ValidatePush(r) \/ PublishSettles(r)
    BY <1>1, <1>7 DEF ValidatePush, PublishSettles, Throws
  <1>8. CASE PushBranch(r) \/ PushBranchUnanswered(r) \/ PushTagsBreaks(r)
    BY <1>1, <1>8 DEF PushBranch, PushBranchUnanswered, PushTagsBreaks, Throws
  <1>9. CASE SkipPush(r) \/ Hooks(r) \/ Cleanup(r)
    BY <1>1, <1>9 DEF SkipPush, Hooks, Cleanup
  <1>10. CASE StepThrows(r) \/ EndsThrowing(r) \/ Crash(r)
    BY <1>1, <1>10 DEF StepThrows, EndsThrowing, Crash, Throws
  <1> QED  BY <1>2, <1>3, <1>4, <1>5, <1>6, <1>7, <1>8, <1>9, <1>10 DEF Advance, Misfortune

LEMMA RunStepLeavesNothingDue ==
    ASSUME Typed, OnTrack, Placed, Ids, EverythingRead, Ships, NothingDue,
           NEW r \in Runners, Start(r) \/ Advance(r) \/ Misfortune(r)
    PROVE  NothingDue'
  <1>1. Remembers
    BY NothingForgotten
  <1>2. config'[r] = config[r]
    BY ConfigIsKept DEF Typed
  <1>3. \A q \in Runners \ {r} : RunLeavesNothingDue(q)'
    <2>1. \A q \in Runners \ {r} : Untouched(q)
      BY OthersUntouched DEF Typed
    <2> QED  BY <1>1, <2>1, CoverIsKept DEF NothingDue, RunLeavesNothingDue, Untouched
  <1>4. RunLeavesNothingDue(r)'
    <2> SUFFICES ASSUME ~config[r].dryRun,
                        \/ pc'[r] \in {"hooks", "cleanup"} /\ outcome'[r] = "running"
                        \/ outcome'[r] = "success"
                 PROVE  CoveredIn(main', raced', registry', commitSha'[r], {})
      BY <1>2 DEF RunLeavesNothingDue
    \* Nothing was planned.
    <2>1. CASE SkipPush(r)
      <3>1. /\ pc[r] = "pushing" /\ DOMAIN plan[r] = {} /\ UNCHANGED commitSha
        BY <2>1 DEF SkipPush, PushesRelease, HasReleases, memory
      <3>2. CoveredIn(main, raced, registry, commitSha[r], {})
        BY <3>1 DEF Ships, RunShips, UntilTagsPushed
      <3> QED  BY <1>1, <3>1, <3>2, CoverIsKept
    <2>2. CASE PushTags(r)
      <3>1. pc[r] = "pushingTags" /\ UNCHANGED commitSha
        BY <2>2 DEF PushTags, memory
      <3>2. CoveredIn(main, raced, registry, commitSha[r], {})
        BY <3>1, UploadedIsCovered DEF Ships, RunShips, UntilTagsPushed
      <3> QED  BY <1>1, <3>1, <3>2, CoverIsKept
    <2>3. CASE /\ pc[r] \in {"hooks", "cleanup"} /\ outcome[r] = "running"
               /\ UNCHANGED commitSha
      BY <1>1, <2>3, CoverIsKept DEF NothingDue, RunLeavesNothingDue
    <2> QED  BY <2>1, <2>2, <2>3, HowRunsSucceed
  <1> QED  BY <1>3, <1>4 DEF NothingDue

\* A run that reports success has left no change of its checkout unreleased: all
\* of them are in published versions, or were pulled in under an earlier plan.
\* This is the safety half of EveryChangeShips.
THEOREM SuccessShipsEverything ==
    ASSUME FreshClone, InitiallyTagged
    PROVE  Spec => []SuccessLeavesNothingDue
  <1> DEFINE Known == Typed /\ OnTrack /\ Placed /\ Ids /\ EverythingRead /\ Ships
  <1>1. Init => NothingDue
    BY DEF Init, NothingDue, RunLeavesNothingDue
  <1>2. Known /\ NothingDue /\ [Next]_vars => NothingDue'
    <2>1. CASE UNCHANGED vars
      BY <2>1 DEF vars, shared, memory, rest, NothingDue, RunLeavesNothingDue, CoveredIn,
                  ShippedIn, Bumps
    <2>2. ASSUME Known, NothingDue, DeveloperPushes PROVE NothingDue'
      <3>1. Remembers
        <4>1. Len(main) \in Nat /\ \A k \in 1..Len(main) : main'[k] = main[k]
          BY <2>2, HistoryIsKept DEF Next
        <4> QED  BY <2>2, <4>1 DEF DeveloperPushes, Remembers
      <3>2. UNCHANGED <<pc, outcome, config, commitSha>>
        BY <2>2 DEF DeveloperPushes, memory
      <3> QED  BY <2>2, <3>1, <3>2, CoverIsKept DEF NothingDue, RunLeavesNothingDue
    <2>3. ASSUME Known, NothingDue, NEW r \in Runners,
                 Start(r) \/ Advance(r) \/ Misfortune(r)
          PROVE  NothingDue'
      BY <2>3, RunStepLeavesNothingDue
    <2> QED  BY <2>1, <2>2, <2>3 DEF Next
  <1>3. Spec => []EverythingRead
    BY EverythingReadHolds
  <1>4. Spec => []Known
    BY <1>3, TypedHolds, OnTrackHolds, PlacedHolds, IdsHold, ShipsHolds, PTL DEF Known
  <1>5. NothingDue => SuccessLeavesNothingDue
    BY DEF NothingDue, RunLeavesNothingDue, SuccessLeavesNothingDue, CoveredIn, ShippedIn,
           Shipped
  <1> HIDE DEF Known
  <1> QED  BY <1>1, <1>2, <1>4, <1>5, PTL DEF Spec

-----------------------------------------------------------------------------
(* The runs together keep the contract of a release.                          *)

\* No two tag objects share a name.
NamesUnique(set) == \A t, u \in set : SameName(t, u) => t = u

OneTagPerName == NamesUnique(remoteTags) /\ \A r \in Runners : NamesUnique(tags[r])

\* Taking over tags the way git does makes no name ambiguous.
LEMMA AdoptionKeepsNames ==
    ASSUME NEW into, NEW from, NamesUnique(into), NamesUnique(from),
           NEW new \in SUBSET Adoptable(from, into)
    PROVE  NamesUnique(into \cup new)
  BY DEF NamesUnique, Adoptable, SameName

LEMMA PlannedNamesUnique ==
    ASSUME NEW planned, NEW at, NEW by
    PROVE  NamesUnique(TagsOf(planned, at, by))
  BY DEF NamesUnique, SameName, TagsOf

LEMMA FirstNamesUnique == NamesUnique(FirstTags)
  <1> SUFFICES ASSUME NEW t \in FirstTags, NEW u \in FirstTags, SameName(t, u)
               PROVE  t = u
    BY DEF NamesUnique
  <1> DEFINE Tag(p) == [group |-> GroupOf[p], version |-> FirstVersion, at |-> 1,
                        by |-> <<>>, pkgs |-> {q \in Public : GroupOf[q] = GroupOf[p]}]
  <1>1. PICK p \in Public : t = Tag(p)
    BY DEF FirstTags
  <1>2. PICK q \in Public : u = Tag(q)
    BY DEF FirstTags
  <1>3. t.group = GroupOf[p] /\ u.group = GroupOf[q]
    BY <1>1, <1>2
  <1>4. GroupOf[p] = GroupOf[q]
    BY <1>3 DEF SameName
  <1> QED  BY <1>1, <1>2, <1>4

\* Where tags move, they are taken over from one set of tags to another.
LEMMA TagsMove ==
    ASSUME TypeOK, NEW r \in Runners, Start(r) \/ Advance(r) \/ Misfortune(r)
    PROVE  \/ UNCHANGED <<remoteTags, tags>>
           \/ UNCHANGED remoteTags /\ tags' = [tags EXCEPT ![r] = remoteTags]
           \/ /\ UNCHANGED remoteTags
              /\ \E from : \E new \in SUBSET Adoptable(from, tags[r]) :
                     /\ \/ from \subseteq remoteTags
                        \/ from = TagsOf(plan[r], HeadOf(r), <<r, runs[r]>>)
                     /\ tags' = [tags EXCEPT ![r] = @ \cup new]
           \/ /\ UNCHANGED tags
              /\ \E new \in SUBSET Adoptable(tags[r], remoteTags) :
                     remoteTags' = remoteTags \cup new
  <1> USE DEF shared, copy
  <1> DEFINE Copied == UNCHANGED remoteTags /\ tags' = [tags EXCEPT ![r] = remoteTags]
             Taken  == /\ UNCHANGED remoteTags
                       /\ \E from : \E new \in SUBSET Adoptable(from, tags[r]) :
                              /\ \/ from \subseteq remoteTags
                                 \/ from = TagsOf(plan[r], HeadOf(r), <<r, runs[r]>>)
                              /\ tags' = [tags EXCEPT ![r] = @ \cup new]
             Sent   == /\ UNCHANGED tags
                       /\ \E new \in SUBSET Adoptable(tags[r], remoteTags) :
                              remoteTags' = remoteTags \cup new
             Same   == UNCHANGED <<remoteTags, tags>>
             Goal   == Same \/ Copied \/ Taken \/ Sent
  <1>1. CASE Start(r)
    <2>1. CASE FreshClone
      <3>1. Copied
        BY <1>1, <2>1 DEF Start
      <3> QED  BY <3>1
    <2>2. CASE ~FreshClone
      <3> DEFINE new == Adoptable(remoteTags, tags[r])
      <3>1. tags' = [tags EXCEPT ![r] = @ \cup new] /\ UNCHANGED remoteTags
        BY <1>1, <2>2 DEF Start
      <3>2. new \in SUBSET Adoptable(remoteTags, tags[r])
        OBVIOUS
      <3> HIDE DEF new
      <3>3. Taken
        BY <3>1, <3>2
      <3> QED  BY <3>3
    <2> QED  BY <2>1, <2>2
  <1>2. ASSUME NEW p \in Public,
               \/ ReadTag(r, p) \/ ReadTagDenied(r, p)
               \/ PackOnly(r, p) \/ Upload(r, p) \/ UploadConflicts(r, p)
               \/ UploadUnanswered(r, p) \/ UploadFails(r, p)
        PROVE  Same
    BY <1>2 DEF ReadTag, ReadTagDenied, PackOnly, Upload, UploadConflicts, UploadUnanswered,
                UploadFails
  <1>3. CASE AllRead(r) \/ Plan(r) \/ PrepareFiles(r) \/ CommitFiles(r) \/ ValidatePush(r)
             \/ PublishSettles(r) \/ PushBranch(r) \/ PushBranchUnanswered(r)
    BY <1>3 DEF AllRead, Plan, PrepareFiles, CommitFiles, ValidatePush, PublishSettles,
                PushBranch, PushBranchUnanswered, BranchPushed
  <1>4. CASE MakeTags(r)
    <2>1. CASE CreateTags(r)
      <3> DEFINE from == TagsOf(plan[r], HeadOf(r), <<r, runs[r]>>)
      <3>1. PICK made \in SUBSET Adoptable(from, tags[r]) :
                tags' = [tags EXCEPT ![r] = @ \cup made]
        BY <2>1 DEF CreateTags
      <3>2. UNCHANGED remoteTags
        BY <1>4 DEF MakeTags
      <3> HIDE DEF from
      <3>3. from = TagsOf(plan[r], HeadOf(r), <<r, runs[r]>>)
        BY DEF from
      <3>4. Taken
        BY <3>1, <3>2, <3>3
      <3> QED  BY <3>4
    <2>2. CASE UNCHANGED tags
      BY <1>4, <2>2 DEF MakeTags
    <2> QED  BY <1>4, <2>1, <2>2 DEF MakeTags
  <1>5. CASE PullRebase(r)
    <2>1. CASE UNCHANGED tags
      BY <1>5, <2>1 DEF PullRebase
    <2>2. CASE ~UNCHANGED tags
      <3> DEFINE received == {main[i].id : i \in (base[r] + 1)..Len(main)}
                 from     == {t \in remoteTags : t.at \in received}
                 new      == Adoptable(from, tags[r])
      <3>1. tags' = [tags EXCEPT ![r] = @ \cup new] /\ UNCHANGED remoteTags
        BY <1>5, <2>2 DEF PullRebase
      <3>2. from \subseteq remoteTags /\ new \in SUBSET Adoptable(from, tags[r])
        OBVIOUS
      <3> HIDE DEF new, from
      <3>3. Taken
        BY <3>1, <3>2
      <3> QED  BY <3>3
    <2> QED  BY <2>1, <2>2
  <1>6. CASE PushTags(r) \/ PushTagsBreaks(r)
    <2>1. UNCHANGED tags
      BY <1>6 DEF PushTags, PushTagsBreaks
    <2>2. CASE UNCHANGED remoteTags
      BY <2>1, <2>2
    <2>3. CASE \E new \in SUBSET Adoptable(tags[r], remoteTags) :
                   remoteTags' = remoteTags \cup new
      BY <2>1, <2>3
    <2> QED  BY <1>6, <2>2, <2>3 DEF PushTags, PushTagsBreaks
  <1>7. CASE SkipPush(r) \/ Hooks(r) \/ Cleanup(r) \/ StepThrows(r) \/ EndsThrowing(r) \/ Crash(r)
    BY <1>7 DEF SkipPush, Hooks, Cleanup, StepThrows, EndsThrowing, Crash
  <1>8. Goal
    BY <1>1, <1>2, <1>3, <1>4, <1>5, <1>6, <1>7 DEF Advance, Misfortune
  <1> QED  BY <1>8

\* With or without fresh clones, a name never stands for two tag objects of one
\* repository.
LEMMA OneTagPerNameHolds == Spec => []OneTagPerName
  <1>1. Init => OneTagPerName
    BY FirstNamesUnique DEF Init, OneTagPerName, NamesUnique
  <1>2. Typed /\ OneTagPerName /\ [Next]_vars => OneTagPerName'
    <2>1. CASE UNCHANGED vars \/ DeveloperPushes
      BY <2>1 DEF vars, shared, copy, DeveloperPushes, OneTagPerName, NamesUnique
    <2>2. ASSUME Typed, OneTagPerName, NEW r \in Runners,
                 Start(r) \/ Advance(r) \/ Misfortune(r)
          PROVE  OneTagPerName'
      <3> DEFINE One == NamesUnique(remoteTags) /\ \A q \in Runners : NamesUnique(tags[q])
      <3>1. One /\ DOMAIN tags = Runners
        BY <2>2 DEF OneTagPerName, Typed, TypeOK
      <3>2. CASE UNCHANGED <<remoteTags, tags>>
        BY <3>1, <3>2 DEF OneTagPerName
      <3>3. CASE UNCHANGED remoteTags /\ tags' = [tags EXCEPT ![r] = remoteTags]
        BY <3>1, <3>3 DEF OneTagPerName
      <3>4. ASSUME UNCHANGED remoteTags, NEW from, NEW new \in SUBSET Adoptable(from, tags[r]),
                   \/ from \subseteq remoteTags
                   \/ from = TagsOf(plan[r], HeadOf(r), <<r, runs[r]>>),
                   tags' = [tags EXCEPT ![r] = @ \cup new]
            PROVE  OneTagPerName'
        <4>1. NamesUnique(from)
          BY <3>1, <3>4, PlannedNamesUnique DEF NamesUnique
        <4>2. NamesUnique(tags[r] \cup new)
          BY <2>2, <3>1, <3>4, <4>1, AdoptionKeepsNames
        <4> QED  BY <3>1, <3>4, <4>2 DEF OneTagPerName
      <3>5. ASSUME UNCHANGED tags, NEW new \in SUBSET Adoptable(tags[r], remoteTags),
                   remoteTags' = remoteTags \cup new
            PROVE  OneTagPerName'
        <4>1. NamesUnique(remoteTags \cup new)
          BY <2>2, <3>1, <3>5, AdoptionKeepsNames
        <4> QED  BY <3>1, <3>5, <4>1 DEF OneTagPerName
      <3> QED  BY <2>2, <3>2, <3>3, <3>4, <3>5, TagsMove DEF Typed
    <2> QED  BY <2>1, <2>2 DEF Next
  <1> QED  BY <1>1, <1>2, TypedHolds, PTL DEF Spec

\* The shared state as the contract sees it.
Branch   == [i \in 1..Len(main) |-> main[i].id]
IsDue(k) == main[k].id \notin raced /\ \E p \in Public : Bumps(main[k], p) /\ ~Shipped(k, p)
Due      == {main[i].id : i \in {k \in 1..Len(main) :
                 /\ main[k].id \notin raced
                 /\ \E p \in Public : Bumps(main[k], p) /\ ~Shipped(k, p)}}
Versions == {<<e.pkg, e.version>> : e \in registry}

LEMMA DueMembers == \A id : id \in Due <=> \E i \in 1..Len(main) : id = main[i].id /\ IsDue(i)
  BY DEF Due, IsDue

LEMMA BranchType ==
    ASSUME TypeOK
    PROVE  /\ Len(main) \in Nat /\ Branch \in Seq(Nat) /\ Len(Branch) = Len(main)
           /\ \A i \in 1..Len(main) : Branch[i] = main[i].id /\ main[i].id \in Nat
  <1>1. main \in Seq(Commit) /\ Len(main) \in Nat
    BY DEF TypeOK, Commit
  <1>2. \A i \in 1..Len(main) : main[i] \in Commit
    BY <1>1
  <1>3. \A i \in 1..Len(main) : main[i].id \in Nat
    BY <1>2 DEF Commit
  <1> QED  BY <1>1, <1>3 DEF Branch

\* What is not due stays that way unless its commit is new.
LEMMA NothingBecomesDue ==
    ASSUME Typed, Ids, [Next]_vars, Remembers, NEW id \in Due',
           \A i \in Len(main) + 1..Len(main') : id # main'[i].id
    PROVE  id \in Due
  <1>1. PICK i \in 1..Len(main') : id = main'[i].id /\ IsDue(i)'
    BY DueMembers DEF Due, IsDue
  <1>2. Len(main) \in Nat /\ Len(main') \in Nat /\ \A k \in 1..Len(main) : main'[k] = main[k]
    BY HistoryIsKept
  <1>3. i \in 1..Len(main) /\ main'[i] = main[i]
    BY <1>1, <1>2
  <1>4. IsDue(i)
    BY <1>1, <1>3 DEF IsDue, Bumps, Shipped, Remembers
  <1> QED  BY <1>1, <1>3, <1>4, DueMembers

LEMMA LandingKeepsContract ==
    ASSUME Typed, Ids, Typed', Ids', [Next]_vars, NEW c \in Commit,
           main' = Append(main, c), \A i \in 1..Len(main) : main[i].id # c.id,
           UNCHANGED <<remoteTags, registry, raced>>
    PROVE  Contract!CommitLands
  <1>1. /\ Len(main) \in Nat /\ Len(main') = Len(main) + 1
        /\ \A i \in 1..Len(main) : main'[i] = main[i]
        /\ main'[Len(main) + 1] = c
    BY AppendedCommit DEF Typed
  <1>2. Remembers
    BY <1>1 DEF Remembers
  <1>3. /\ Branch \in Seq(Nat) /\ Len(Branch) = Len(main)
        /\ \A i \in 1..Len(main) : Branch[i] = main[i].id
    BY BranchType DEF Typed
  <1>4. /\ Branch' \in Seq(Nat) /\ Len(Branch') = Len(main) + 1
        /\ \A i \in 1..Len(main) + 1 : Branch'[i] = main'[i].id
    <2>1. main' \in Seq(Commit)
      BY DEF Typed, TypeOK, Commit
    <2>2. \A i \in 1..Len(main) + 1 : main'[i].id \in Nat
      <3>1. \A i \in 1..Len(main) + 1 : main'[i] \in Commit
        BY <1>1, <2>1
      <3> QED  BY <3>1 DEF Commit
    <2>3. Branch' = [i \in 1..Len(main) + 1 |-> main'[i].id]
      BY <1>1 DEF Branch
    <2> QED  BY <1>1, <2>2, <2>3
  <1>5. Branch'[Len(Branch')] = c.id
    BY <1>1, <1>4
  <1>6. Branch' = Append(Branch, Branch'[Len(Branch')])
    <2>1. \A i \in 1..Len(Branch) : Branch'[i] = Branch[i]
      <3> SUFFICES ASSUME NEW i \in 1..Len(main) PROVE Branch'[i] = Branch[i]
        BY <1>3
      <3>1. i \in 1..Len(main) + 1
        BY <1>1
      <3> QED  BY <1>1, <1>3, <1>4, <3>1
    <2> QED  BY <1>1, <1>3, <1>4, <2>1
  <1>7. c.id \notin {Branch[i] : i \in 1..Len(Branch)}
    BY <1>3
  <1>8. Due' \subseteq Due \cup {c.id}
    <2> SUFFICES ASSUME NEW id \in Due', id # c.id
                 PROVE  id \in Due
      OBVIOUS
    <2>1. \A i \in Len(main) + 1..Len(main') : id # main'[i].id
      BY <1>1
    <2> QED  BY <1>2, <2>1, NothingBecomesDue
  <1>9. Due \subseteq Due'
    <2> SUFFICES ASSUME NEW i \in 1..Len(main), IsDue(i)
                 PROVE  main[i].id \in Due'
      BY DueMembers
    <2>1. i \in 1..Len(main') /\ main'[i] = main[i]
      BY <1>1
    <2>2. IsDue(i)'
      BY <2>1 DEF IsDue, Bumps, Shipped
    <2> QED  BY <2>1, <2>2 DEF Due, IsDue
  <1>10. UNCHANGED <<Versions, remoteTags>>
    BY DEF Versions
  <1> QED  BY <1>5, <1>6, <1>7, <1>8, <1>9, <1>10
           DEF Contract!CommitLands, Contract!Newest, Contract!OnBranch, Branch, Due, Versions

LEMMA UploadKeepsContract ==
    ASSUME Typed, Ids, [Next]_vars, NEW r \in Runners, NEW p \in Public, Stores(r, p),
           UNCHANGED <<main, remoteTags, raced>>
    PROVE  Contract!VersionPublished
  <1> DEFINE v == plan[r][p]
             e == [pkg |-> p, version |-> v, contains |-> base[r]]
  <1>1. registry' = registry \cup {e} /\ ~Released(p, v)
    BY DEF Stores
  <1>2. Remembers
    BY <1>1, BranchType DEF Remembers, Typed
  <1>3. Due' \subseteq Due
    <2>1. Len(main') = Len(main) /\ Len(main) \in Nat
      BY BranchType DEF Typed
    <2> QED  BY <1>2, <2>1, NothingBecomesDue
  <1>4. Versions' = Versions \cup {<<p, v>>}
    <2>1. e.pkg = p /\ e.version = v
      OBVIOUS
    <2> HIDE DEF e
    <2> QED  BY <1>1, <2>1 DEF Versions
  <1>5. <<p, v>> \notin Versions
    BY <1>1 DEF Versions, Released
  <1>6. UNCHANGED <<Branch, remoteTags>>
    BY DEF Branch
  <1> HIDE DEF v
  <1>7. \E x \in Versions' : x \notin Versions /\ Versions' = Versions \cup {x}
    BY <1>4, <1>5
  <1> QED  BY <1>3, <1>6, <1>7 DEF Contract!VersionPublished, Branch, Due, Versions

LEMMA PullKeepsContract ==
    ASSUME Typed, Ids, [Next]_vars, NEW r \in Runners, PullRebase(r)
    PROVE  [Contract!Next]_(Contract!vars)
  <1>1. UNCHANGED <<main, remoteTags, registry>> /\ Len(main) \in Nat
    BY BranchType DEF PullRebase, shared, Typed
  <1>2. UNCHANGED <<Branch, Versions, remoteTags>>
    BY <1>1 DEF Branch, Versions
  <1>3. CASE UNCHANGED raced
    <2>1. UNCHANGED Due
      BY <1>1, <1>3 DEF Due, Bumps, Shipped
    <2> QED  BY <1>2, <2>1 DEF Contract!vars, Branch, Due, Versions
  <1>4. CASE ~UNCHANGED raced
    <2>1. config[r].persistVersions /\ config[r].tag /\ raced \subseteq raced'
      BY <1>4 DEF PullRebase
    <2>2. \E c \in Configs : c.persistVersions /\ c.tag
      BY <2>1 DEF Typed, TypeOK
    <2>3. Remembers
      BY <1>1, <2>1 DEF Remembers
    <2>4. Due' \subseteq Due
      BY <1>1, <2>3, NothingBecomesDue
    <2>5. Contract!ChangesOverlooked
      BY <1>2, <2>2, <2>4 DEF Contract!ChangesOverlooked, Branch, Due, Versions
    <2> QED  BY <2>5 DEF Contract!Next
  <1> QED  BY <1>3, <1>4

LEMMA TruthfulTags ==
    ASSUME Typed, Ids, PushedTagsAreReleased, PushedTagsOnMain, TaggedCommitsAreShipped,
           NEW t \in remoteTags
    PROVE  Contract!Truthful(t)
  <1>1. \A p \in t.pkgs : <<p, t.version>> \in Versions
    BY DEF PushedTagsAreReleased, IsReleased, Released, Versions
  <1>2. PICK j \in 1..Len(main) : t.at = main[j].id
    BY DEF PushedTagsOnMain, IdsOnMain
  <1>3. /\ Len(main) \in Nat /\ Len(Branch) = Len(main)
        /\ \A i \in 1..Len(main) : Branch[i] = main[i].id
    BY BranchType DEF Typed
  <1>4. ASSUME NEW i \in 1..j, main[i].id \in Due
        PROVE  FALSE
    <2>1. PICK k \in 1..Len(main) : main[i].id = main[k].id /\ IsDue(k)
      BY <1>4, DueMembers
    <2>2. i \in 1..Len(main) /\ i \in Nat
      BY <1>3
    <2>3. k = i
      BY <2>1, <2>2 DEF Ids
    <2>4. BehindTag(i)
      <3>1. j \in i..Len(main)
        BY <1>3, <2>2
      <3> QED  BY <1>2, <3>1 DEF BehindTag
    <2>5. PICK p \in Public : Bumps(main[i], p) /\ ~Shipped(i, p) /\ main[i].id \notin raced
      BY <2>1, <2>3 DEF IsDue
    <2> QED  BY <2>2, <2>4, <2>5 DEF TaggedCommitsAreShipped
  <1>5. \E k \in 1..Len(Branch) : /\ Branch[k] = t.at
                                  /\ \A i \in 1..k : Branch[i] \notin Due
    <2>1. j \in 1..Len(Branch) /\ Branch[j] = t.at
      BY <1>2, <1>3
    <2>2. \A i \in 1..j : Branch[i] \notin Due
      <3>1. \A i \in 1..j : i \in 1..Len(main)
        BY <1>3
      <3> QED  BY <1>3, <1>4, <3>1
    <2> QED  BY <2>1, <2>2
  <1> QED  BY <1>1, <1>5 DEF Contract!Truthful, Branch, Due, Versions

TagsTruthful == \A t \in remoteTags : Contract!Truthful(t)

LEMMA PushKeepsContract ==
    ASSUME TagsTruthful', OneTagPerName', remoteTags \subseteq remoteTags',
           UNCHANGED <<main, registry, raced>>
    PROVE  Contract!TagsPushed
  <1>1. UNCHANGED <<Branch, Due, Versions>>
    BY DEF Branch, Due, Versions, Bumps, Shipped
  <1>2. \A t \in remoteTags' : Contract!Truthful(t)
    <2> SUFFICES ASSUME NEW t \in remoteTags' PROVE Contract!Truthful(t)
      OBVIOUS
    <2> DEFINE Says(names, ids, open) ==
                 /\ \A p \in t.pkgs : <<p, t.version>> \in names
                 /\ \E j \in 1..Len(ids) : ids[j] = t.at /\ \A i \in 1..j : ids[i] \notin open
    <2>1. Contract!Truthful(t)'
      BY DEF TagsTruthful
    <2>2. Says(Versions', Branch', Due')
      BY <2>1 DEF Contract!Truthful, Versions, Branch, Due
    <2>3. Says(Versions, Branch, Due)
      BY <1>1, <2>2
    <2> QED  BY <2>3 DEF Contract!Truthful, Versions, Branch, Due
  <1>3. Contract!Unambiguous'
    BY DEF OneTagPerName, NamesUnique, SameName, Contract!Unambiguous
  <1> QED  BY <1>1, <1>2, <1>3 DEF Contract!TagsPushed, Branch, Due, Versions

\* What a step of a run means to the outside.
LEMMA RunStepsOutside ==
    ASSUME TypeOK, NEW r \in Runners, Start(r) \/ Advance(r) \/ Misfortune(r)
    PROVE  \/ UNCHANGED <<main, remoteTags, registry, raced>>
           \/ (\E p \in Public : Stores(r, p)) /\ UNCHANGED <<main, remoteTags, raced>>
           \/ PullRebase(r)
           \/ BranchPushed(r) /\ UNCHANGED <<remoteTags, registry, raced>>
           \/ remoteTags \subseteq remoteTags' /\ UNCHANGED <<main, registry, raced>>
  <1> USE DEF shared, rest
  <1> DEFINE Quiet == UNCHANGED <<main, remoteTags, registry, raced>>
             Sent  == remoteTags \subseteq remoteTags' /\ UNCHANGED <<main, registry, raced>>
             Goal  == \/ Quiet
                      \/ (\E p \in Public : Stores(r, p)) /\ UNCHANGED <<main, remoteTags, raced>>
                      \/ PullRebase(r)
                      \/ BranchPushed(r) /\ UNCHANGED <<remoteTags, registry, raced>>
                      \/ Sent
  <1>1. ASSUME NEW p \in Public,
               \/ ReadTag(r, p) \/ ReadTagDenied(r, p)
               \/ PackOnly(r, p) \/ UploadConflicts(r, p) \/ UploadFails(r, p)
        PROVE  Quiet
    BY <1>1 DEF ReadTag, ReadTagDenied, PackOnly, UploadConflicts, UploadFails
  <1>2. ASSUME NEW p \in Public, Upload(r, p) \/ UploadUnanswered(r, p)
        PROVE  Goal
    BY <1>2 DEF Upload, UploadUnanswered
  <1>3. CASE Start(r) \/ AllRead(r) \/ Plan(r) \/ PrepareFiles(r) \/ MakeTags(r)
             \/ CommitFiles(r) \/ ValidatePush(r) \/ PublishSettles(r)
    BY <1>3 DEF Start, AllRead, Plan, PrepareFiles, MakeTags, CommitFiles, ValidatePush,
                PublishSettles
  <1>4. CASE PushBranch(r) \/ PushBranchUnanswered(r)
    BY <1>4 DEF PushBranch, PushBranchUnanswered, BranchPushed
  <1>5. CASE PushTags(r) \/ PushTagsBreaks(r)
    BY <1>5 DEF PushTags, PushTagsBreaks
  <1>6. CASE SkipPush(r) \/ Hooks(r) \/ Cleanup(r) \/ StepThrows(r) \/ EndsThrowing(r) \/ Crash(r)
    BY <1>6 DEF SkipPush, Hooks, Cleanup, StepThrows, EndsThrowing, Crash
  <1> QED  BY <1>1, <1>2, <1>3, <1>4, <1>5, <1>6 DEF Advance, Misfortune

LEMMA StepKeepsContract ==
    ASSUME Typed, Ids, Typed', Ids', TagsTruthful', OneTagPerName', [Next]_vars
    PROVE  [Contract!Next]_(Contract!vars)
  <1>1. ASSUME UNCHANGED <<main, remoteTags, registry, raced>>
        PROVE  UNCHANGED Contract!vars
    BY <1>1 DEF Contract!vars, Bumps, Shipped
  <1>2. CASE UNCHANGED vars
    BY <1>1, <1>2 DEF vars, shared, rest
  <1>3. CASE DeveloperPushes
    <2>1. UNCHANGED <<remoteTags, registry, raced>>
      BY <1>3 DEF DeveloperPushes
    <2> QED  BY <1>3, <2>1, DeveloperCommits, LandingKeepsContract DEF Typed, Contract!Next
  <1>4. ASSUME NEW r \in Runners, Start(r) \/ Advance(r) \/ Misfortune(r)
        PROVE  [Contract!Next]_(Contract!vars)
    <2>1. CASE UNCHANGED <<main, remoteTags, registry, raced>>
      BY <1>1, <2>1
    <2>2. ASSUME NEW p \in Public, Stores(r, p), UNCHANGED <<main, remoteTags, raced>>
          PROVE  Contract!VersionPublished
      BY <2>2, UploadKeepsContract
    <2>3. CASE PullRebase(r)
      BY <2>3, PullKeepsContract
    <2>4. CASE BranchPushed(r) /\ UNCHANGED <<remoteTags, registry, raced>>
      <3>1. CASE UNCHANGED main
        BY <1>1, <2>4, <3>1
      <3>2. CASE ~UNCHANGED main
        <4>1. PICK c \in Commit : /\ main' = Append(main, c)
                                  /\ \A i \in 1..Len(main) : main[i].id # c.id
          BY <1>4, <3>2, RunCommits DEF Typed
        <4> QED  BY <2>4, <4>1, LandingKeepsContract DEF Contract!Next
      <3> QED  BY <3>1, <3>2
    <2>5. CASE remoteTags \subseteq remoteTags' /\ UNCHANGED <<main, registry, raced>>
      BY <2>5, PushKeepsContract DEF Contract!Next
    <2> QED  BY <1>4, <2>1, <2>2, <2>3, <2>4, <2>5, RunStepsOutside DEF Typed, Contract!Next
  <1> QED  BY <1>2, <1>3, <1>4 DEF Next

LEMMA InitContract ==
    ASSUME Init, Ships, TagsTruthful, OneTagPerName
    PROVE  Contract!Init
  <1>1. Len(Branch) = 1
    <2>1. Len(main) = 1
      BY DEF Init
    <2> QED  BY <2>1 DEF Branch
  <1>2. Due = {}
    <2>1. Len(main) = 1
      BY DEF Init
    <2>2. ASSUME NEW p \in Public PROVE Shipped(1, p)
      <3>1. [pkg |-> p, version |-> FirstVersion, contains |-> 1] \in registry
        BY DEF Init
      <3> QED  BY <3>1 DEF Shipped
    <2> QED  BY <2>1, <2>2 DEF Due
  <1>3. Contract!Unambiguous
    BY DEF OneTagPerName, NamesUnique, SameName, Contract!Unambiguous
  <1> QED  BY <1>1, <1>2, <1>3 DEF TagsTruthful, Contract!Init, Branch, Due, Versions

\* Whatever fails and whoever runs at the same time, what anybody outside can
\* observe of the branch, the tags and the registry is a behaviour of the contract.
THEOREM RunsImplementContract ==
    ASSUME FreshClone, InitiallyTagged
    PROVE  Spec => ImplementsRelease
  <1> DEFINE Sound == Typed /\ Ids /\ Ships /\ TagsTruthful /\ OneTagPerName
  <1>1. /\ Typed /\ Ids /\ PushedTagsAreReleased /\ PushedTagsOnMain
        /\ TaggedCommitsAreShipped
        => TagsTruthful
    BY TruthfulTags DEF TagsTruthful
  <1>2. Spec => []Sound
    BY <1>1, TypedHolds, IdsHold, ShipsHolds, PushedTagsReleased, PushedTagsMarkMain,
       TaggedChangesShip, OneTagPerNameHolds, PTL DEF Sound
  <1>3. Init /\ Sound => Contract!Init
    BY InitContract
  <1>4. Sound /\ Sound' /\ [Next]_vars => [Contract!Next]_(Contract!vars)
    BY StepKeepsContract
  <1> HIDE DEF Sound
  <1> QED  BY <1>2, <1>3, <1>4, PTL DEF Spec, ImplementsRelease, Contract!Spec

-----------------------------------------------------------------------------
(* A run comes to an end, whatever happens around it. *)

\* The steps of a run from here on, when it takes every one of them.
StepsToGo(step) ==
    CASE step = "reading"     -> 13
      [] step = "planning"    -> 12
      [] step = "preparing"   -> 11
      [] step = "tagging"     -> 10
      [] step = "committing"  -> 9
      [] step = "pulling"     -> 8
      [] step = "retagging"   -> 7
      [] step = "validating"  -> 6
      [] step = "publishing"  -> 5
      [] step = "pushing"     -> 4
      [] step = "pushingTags" -> 3
      [] step = "hooks"       -> 2
      [] step = "cleanup"     -> 1
      [] step \in {"idle", "ended"} -> 0

ReadsLeft(r)   == Public \ DOMAIN seen[r]
UploadsLeft(r) == Public \ attempted[r]

WorkLeft(r) ==
    StepsToGo(pc[r]) + Cardinality(ReadsLeft(r)) + Cardinality(UploadsLeft(r))

\* The steps in which a run does not move on to its next step.
Reads(r)   == \E p \in Public : ReadTag(r, p) \/ ReadTagDenied(r, p)
Uploads(r) == \E p \in Public : \/ PackOnly(r, p)
                                \/ Upload(r, p) \/ UploadUnanswered(r, p)
                                \/ UploadConflicts(r, p) \/ UploadFails(r, p)

LEMMA MovesOn ==
    ASSUME TypeOK, NEW r \in Runners, Advance(r) \/ Misfortune(r), ~Reads(r), ~Uploads(r)
    PROVE  /\ StepsToGo(pc'[r]) < StepsToGo(pc[r])
           /\ UNCHANGED <<seen[r], attempted[r]>>
  <1> USE DEF GoTo, Throws, Report
  <1>1. pc[r] \in {"idle", "ended"} \cup Steps /\ DOMAIN pc = Runners
    BY DEF TypeOK
  <1> DEFINE Goal == /\ StepsToGo(pc'[r]) < StepsToGo(pc[r])
                     /\ UNCHANGED <<seen[r], attempted[r]>>
  <1>2. CASE AllRead(r) \/ Plan(r) \/ PrepareFiles(r)
    BY <1>1, <1>2 DEF AllRead, Plan, PrepareFiles, memory, StepsToGo
  <1>3. CASE MakeTags(r) \/ CommitFiles(r) \/ PullRebase(r)
    BY <1>1, <1>3 DEF MakeTags, CommitFiles, PullRebase, memory, StepsToGo
  <1>4. CASE ValidatePush(r) \/ PublishSettles(r)
    BY <1>1, <1>4 DEF ValidatePush, PublishSettles, memory, StepsToGo
  <1>5. CASE PushBranch(r) \/ PushBranchUnanswered(r)
    BY <1>1, <1>5 DEF PushBranch, PushBranchUnanswered, memory, StepsToGo
  <1>6. CASE PushTags(r) \/ PushTagsBreaks(r)
    BY <1>1, <1>6 DEF PushTags, PushTagsBreaks, memory, StepsToGo
  <1>7. CASE SkipPush(r) \/ Hooks(r) \/ Cleanup(r)
    BY <1>1, <1>7 DEF SkipPush, Hooks, Cleanup, memory, StepsToGo
  <1>8. CASE StepThrows(r) \/ EndsThrowing(r) \/ Crash(r)
    BY <1>1, <1>8 DEF StepThrows, EndsThrowing, Crash, memory, StepsToGo, Steps, StepsUnderTry
  <1> QED  BY <1>2, <1>3, <1>4, <1>5, <1>6, <1>7, <1>8 DEF Advance, Misfortune, Reads, Uploads

LEMMA ReadsOne ==
    ASSUME TypeOK, NEW r \in Runners, Reads(r)
    PROVE  /\ UNCHANGED <<pc[r], attempted[r]>>
           /\ \E p \in Public : p \in ReadsLeft(r) /\ ReadsLeft(r)' = ReadsLeft(r) \ {p}
  <1>1. PICK p \in Public : /\ p \in ReadsLeft(r)
                            /\ \E v : Saw(r, p, v)
                            /\ UNCHANGED <<pc, attempted>>
    BY DEF Reads, ReadTag, ReadTagDenied, ReadsLeft
  <1>2. DOMAIN seen'[r] = DOMAIN seen[r] \cup {p}
    BY <1>1 DEF Saw, TypeOK
  <1> QED  BY <1>1, <1>2 DEF ReadsLeft

LEMMA UploadsOne ==
    ASSUME TypeOK, NEW r \in Runners, Uploads(r)
    PROVE  /\ UNCHANGED <<pc[r], seen[r]>>
           /\ \E p \in Public : p \in UploadsLeft(r) /\ UploadsLeft(r)' = UploadsLeft(r) \ {p}
  <1>1. PICK p \in Public : Attempts(r, p) /\ UNCHANGED <<pc, seen>>
    BY DEF Uploads, PackOnly, Upload, UploadUnanswered, UploadConflicts, UploadFails
  <1>2. attempted'[r] = attempted[r] \cup {p} /\ p \notin attempted[r]
    BY <1>1 DEF Attempts, TypeOK
  <1> QED  BY <1>1, <1>2 DEF UploadsLeft

LEMMA OneFewer ==
    ASSUME NEW S \in SUBSET Public, NEW p \in S
    PROVE  /\ Cardinality(S) \in Nat /\ Cardinality(S \ {p}) \in Nat
           /\ Cardinality(S \ {p}) < Cardinality(S)
  <1>1. IsFiniteSet(S)
    BY PlanAssumption, FS_Subset DEF Public
  <1>2. Cardinality(S) \in Nat /\ Cardinality(S \ {p}) = Cardinality(S) - 1
    BY <1>1, FS_RemoveElement, FS_CardinalityType
  <1>3. Cardinality(S \ {p}) \in Nat
    BY <1>1, FS_RemoveElement, FS_CardinalityType
  <1> QED  BY <1>2, <1>3

LEMMA WorkIsNatural ==
    ASSUME TypeOK
    PROVE  \A r \in Runners : /\ StepsToGo(pc[r]) \in Nat
                              /\ Cardinality(ReadsLeft(r)) \in Nat
                              /\ Cardinality(UploadsLeft(r)) \in Nat
  <1> TAKE r \in Runners
  <1>1. StepsToGo(pc[r]) \in Nat
    <2>1. pc[r] \in {"idle", "ended"} \cup Steps
      BY DEF TypeOK
    <2> QED  BY <2>1 DEF StepsToGo, Steps
  <1>2. IsFiniteSet(ReadsLeft(r)) /\ IsFiniteSet(UploadsLeft(r))
    BY PlanAssumption, FS_Subset DEF ReadsLeft, UploadsLeft, Public
  <1> QED  BY <1>1, <1>2, FS_CardinalityType

LEMMA OwnStepUsesWork ==
    ASSUME TypeOK, TypeOK', NEW r \in Runners, Advance(r) \/ Misfortune(r)
    PROVE  WorkLeft(r)' < WorkLeft(r)
  <1>1. /\ StepsToGo(pc[r]) \in Nat /\ StepsToGo(pc'[r]) \in Nat
        /\ Cardinality(ReadsLeft(r)) \in Nat /\ Cardinality(UploadsLeft(r)) \in Nat
    <2>1. pc'[r] \in {"idle", "ended"} \cup Steps
      BY DEF TypeOK
    <2> QED  BY <2>1, WorkIsNatural DEF StepsToGo, Steps
  <1>2. WorkLeft(r)' = StepsToGo(pc'[r]) + Cardinality(ReadsLeft(r)') + Cardinality(UploadsLeft(r)')
    BY DEF WorkLeft, StepsToGo
  <1>3. CASE Reads(r)
    <2>1. /\ UNCHANGED <<pc[r], attempted[r]>>
          /\ \E p \in Public : p \in ReadsLeft(r) /\ ReadsLeft(r)' = ReadsLeft(r) \ {p}
      BY <1>3, ReadsOne
    <2>2. /\ Cardinality(ReadsLeft(r)') \in Nat
          /\ Cardinality(ReadsLeft(r)') < Cardinality(ReadsLeft(r))
      BY <2>1, OneFewer DEF ReadsLeft
    <2>3. UploadsLeft(r)' = UploadsLeft(r)
      BY <2>1 DEF UploadsLeft
    <2> QED  BY <1>1, <1>2, <2>1, <2>2, <2>3 DEF WorkLeft
  <1>4. CASE Uploads(r)
    <2>1. /\ UNCHANGED <<pc[r], seen[r]>>
          /\ \E p \in Public : p \in UploadsLeft(r) /\ UploadsLeft(r)' = UploadsLeft(r) \ {p}
      BY <1>4, UploadsOne
    <2>2. /\ Cardinality(UploadsLeft(r)') \in Nat
          /\ Cardinality(UploadsLeft(r)') < Cardinality(UploadsLeft(r))
      BY <2>1, OneFewer DEF UploadsLeft
    <2>3. ReadsLeft(r)' = ReadsLeft(r)
      BY <2>1 DEF ReadsLeft
    <2> QED  BY <1>1, <1>2, <2>1, <2>2, <2>3 DEF WorkLeft
  <1>5. CASE ~Reads(r) /\ ~Uploads(r)
    <2>1. /\ StepsToGo(pc'[r]) < StepsToGo(pc[r])
          /\ UNCHANGED <<seen[r], attempted[r]>>
      BY <1>5, MovesOn
    <2>2. ReadsLeft(r)' = ReadsLeft(r) /\ UploadsLeft(r)' = UploadsLeft(r)
      BY <2>1 DEF ReadsLeft, UploadsLeft
    <2> QED  BY <1>1, <1>2, <2>1, <2>2 DEF WorkLeft
  <1> QED  BY <1>3, <1>4, <1>5

\* Nor does a run count or read for another.
LEMMA OthersKeepReads ==
    ASSUME TypeOK, NEW r \in Runners, NEW q \in Runners \ {r},
           Start(r) \/ Advance(r) \/ Misfortune(r)
    PROVE  UNCHANGED <<seen[q], runs[q]>>
  <1> DEFINE Mine(f, g) == \E new : g = [f EXCEPT ![r] = new]
  <1>1. Start(r) => Mine(seen, seen') /\ Mine(runs, runs')
    BY DEF Start, ClearMemory
  <1>2. Reads(r) => Mine(seen, seen') /\ UNCHANGED runs
    BY DEF Reads, ReadTag, ReadTagDenied, Saw, counters, Fault
  <1>3. (Advance(r) \/ Misfortune(r)) /\ ~Reads(r) => UNCHANGED seen
    BY DEF Advance, Misfortune, Reads, PackOnly, Upload, UploadUnanswered,
           UploadConflicts, UploadFails, AllRead, Plan, PrepareFiles, MakeTags,
           CommitFiles, PullRebase, ValidatePush, PublishSettles, PushBranch,
           PushBranchUnanswered, PushTags, PushTagsBreaks, SkipPush, Hooks, Cleanup,
           StepThrows, EndsThrowing, Crash, memory
  <1>4. (Advance(r) \/ Misfortune(r)) /\ ~Reads(r) => UNCHANGED runs
    BY DEF Advance, Misfortune, Reads, PackOnly, Upload, UploadUnanswered,
           UploadConflicts, UploadFails, AllRead, Plan, PrepareFiles, MakeTags, CreateTags,
           CommitFiles, PullRebase, ValidatePush, PublishSettles, PushBranch,
           PushBranchUnanswered, PushTags, PushTagsBreaks, SkipPush, Hooks, Cleanup,
           StepThrows, EndsThrowing, Crash, counters, Fault
  <1>5. \A f, g : Mine(f, g) => g[q] = f[q] \/ q \notin DOMAIN f
    OBVIOUS
  <1>6. DOMAIN seen = Runners /\ DOMAIN runs = Runners
    BY DEF TypeOK
  <1> HIDE DEF Mine
  <1> QED  BY <1>1, <1>2, <1>3, <1>4, <1>5, <1>6

\* The run keeps its working copy, its memory, its place and its result.
Keeps(r) == Untouched(r) /\ UNCHANGED <<seen[r], runs[r]>>

\* However runs overlap, fail and are killed, each one uses up a finite amount of
\* work of its own between its start and its end: nothing is tried twice, and what
\* happens around a run neither adds to its work nor touches its working copy.
THEOREM RunsUseTheirWork ==
    Spec => /\ [](\A r \in Runners : WorkLeft(r) \in Nat)
            /\ [][\A r \in Runners : \/ Start(r)
                                     \/ WorkLeft(r)' < WorkLeft(r)
                                     \/ Keeps(r)]_vars
  <1> DEFINE Natural == \A r \in Runners : WorkLeft(r) \in Nat
             Moves   == \A r \in Runners : \/ Start(r)
                                           \/ WorkLeft(r)' < WorkLeft(r)
                                           \/ Keeps(r)
  <1>1. TypeOK => Natural
    BY WorkIsNatural DEF WorkLeft
  <1>2. TypeOK /\ TypeOK' /\ [Next]_vars => [Moves]_vars
    <2> SUFFICES ASSUME TypeOK, TypeOK', Next
                 PROVE  Moves
      OBVIOUS
    <2>1. CASE DeveloperPushes
      BY <2>1 DEF DeveloperPushes, Keeps, Untouched, copy, memory, counters
    <2>2. ASSUME NEW r \in Runners, Start(r) \/ Advance(r) \/ Misfortune(r)
          PROVE  Moves
      <3> TAKE q \in Runners
      <3>1. CASE q = r
        BY <2>2, <3>1, OwnStepUsesWork
      <3>2. CASE q # r
        BY <2>2, <3>2, OthersUntouched, OthersKeepReads DEF Keeps
      <3> QED  BY <3>1, <3>2
    <2> QED  BY <2>1, <2>2 DEF Next
  <1> QED  BY <1>1, <1>2, PipelineTypeCorrect, PTL DEF Spec
==============================================================================
