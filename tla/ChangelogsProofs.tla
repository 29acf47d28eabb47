-------------------------- MODULE ChangelogsProofs --------------------------
(***************************************************************************)
(* Proofs about Changelogs, for every set of runners and packages, every   *)
(* configuration and every number of runs and failures, overlapping runs   *)
(* and kept working copies included.                                       *)
(***************************************************************************)
EXTENDS Changelogs, TLAPS

Trees   == UNION {[S -> SUBSET Entry] : S \in SUBSET Files}
Commits == [tree : Trees, since : Nat]
Tags    == {TagOf[p] : p \in Packages}

\* The types, with sets of all trees instead of a predicate on them.
HistoryTyped ==
    /\ history \in Seq(Commits) /\ Len(history) > 0
    /\ \A i \in 1..Len(history) : history[i].since \in 1..Len(history)

CopyTyped ==
    /\ head \in [Runners -> 1..Len(history)]
    /\ fetched \in [Runners -> 1..Len(history)]
    /\ since \in [Runners -> 1..Len(history)]
    /\ headTree \in [Runners -> Trees]
    /\ work \in [Runners -> Trees]
    /\ own \in [Runners -> BOOLEAN]

MemoryTyped ==
    /\ config \in [Runners -> Configs]
    /\ pc \in [Runners -> {"idle", "ended"} \cup Steps]
    /\ outcome \in [Runners -> {"none", "running", "failed", "success"}]
    /\ run \in [Runners -> 0..lastRun]
    /\ \A r \in Runners : pc[r] \in Steps => run[r] > 0
    /\ bumped \in [Runners -> SUBSET Packages]
    /\ noted \in [Runners -> SUBSET Packages]
    /\ \A r \in Runners : noted[r] \subseteq bumped[r]
    /\ todo \in [Runners -> SUBSET (Files \cup Tags)]
    /\ \A r \in Runners : pc[r] = "writing" => todo[r] \subseteq Files
    /\ released \subseteq 1..lastRun
    /\ lastRun \in 0..MaxRuns /\ faults \in 0..MaxFaults

Typed == HistoryTyped /\ CopyTyped /\ MemoryTyped

-----------------------------------------------------------------------------
(* Trees. *)

LEMMA TreeIntro ==
    ASSUME NEW S, S \subseteq Files, NEW t, t \in [S -> SUBSET Entry]
    PROVE  t \in Trees
  <1>1. S \in SUBSET Files
    OBVIOUS
  <1> QED
    BY <1>1, Zenon DEF Trees

LEMMA TreeElim ==
    ASSUME NEW t \in Trees
    PROVE  /\ DOMAIN t \subseteq Files
           /\ t \in [DOMAIN t -> SUBSET Entry]
  <1>1. PICK S \in SUBSET Files : t \in [S -> SUBSET Entry]
    BY Zenon DEF Trees
  <1>2. DOMAIN t = S
    BY <1>1
  <1> QED
    BY <1>1, <1>2

LEMMA TreeOnly ==
    ASSUME NEW t \in Trees, NEW S
    PROVE  Only(t, S) \in Trees
  <1>1. DOMAIN t \subseteq Files /\ t \in [DOMAIN t -> SUBSET Entry]
    BY TreeElim
  <1>2. Only(t, S) \in [DOMAIN t \cap S -> SUBSET Entry]
    BY <1>1 DEF Only
  <1> QED
    BY <1>1, <1>2, TreeIntro

LEMMA TreeOverlay ==
    ASSUME NEW over \in Trees, NEW under \in Trees
    PROVE  Overlay(over, under) \in Trees
  <1>1. DOMAIN over \subseteq Files /\ over \in [DOMAIN over -> SUBSET Entry]
    BY TreeElim
  <1>2. DOMAIN under \subseteq Files /\ under \in [DOMAIN under -> SUBSET Entry]
    BY TreeElim
  <1>3. Overlay(over, under) \in [DOMAIN over \cup DOMAIN under -> SUBSET Entry]
    BY <1>1, <1>2 DEF Overlay
  <1> QED
    BY <1>1, <1>2, <1>3, TreeIntro

LEMMA TreeRebased ==
    ASSUME NEW base \in Trees, NEW ours \in Trees, NEW upstream \in Trees
    PROVE  Rebased(base, ours, upstream) \in Trees
  <1>1. DOMAIN ours \subseteq Files /\ ours \in [DOMAIN ours -> SUBSET Entry]
    BY TreeElim
  <1>2. DOMAIN upstream \subseteq Files /\ upstream \in [DOMAIN upstream -> SUBSET Entry]
    BY TreeElim
  <1>3. ASSUME NEW f \in DOMAIN ours \cup DOMAIN upstream
        PROVE  (IF \/ f \notin DOMAIN ours
                   \/ f \in DOMAIN base \cap DOMAIN upstream /\ ours[f] = base[f]
                THEN upstream[f] ELSE ours[f]) \in SUBSET Entry
    BY <1>1, <1>2
  <1>4. Rebased(base, ours, upstream) \in [DOMAIN ours \cup DOMAIN upstream -> SUBSET Entry]
    BY <1>3 DEF Rebased
  <1> QED
    BY <1>1, <1>2, <1>4, TreeIntro

LEMMA TreeWritten ==
    ASSUME Typed, NEW r \in Runners, NEW S, S \subseteq Files
    PROVE  Written(r, S) \in Trees
  <1>1. work[r] \in Trees /\ run[r] \in Nat /\ noted[r] \subseteq Packages
    BY DEF Typed, HistoryTyped, CopyTyped, MemoryTyped
  <1>2. DOMAIN work[r] \subseteq Files /\ work[r] \in [DOMAIN work[r] -> SUBSET Entry]
    BY <1>1, TreeElim
  <1>3. \A f \in S : EntryFor(r, f) \in Entry
    BY <1>1 DEF EntryFor, Entry
  <1>4. ASSUME NEW f \in DOMAIN work[r] \cup S
        PROVE  (IF f \in DOMAIN work[r] THEN work[r][f] ELSE {})
                   \cup (IF f \in S THEN {EntryFor(r, f)} ELSE {}) \in SUBSET Entry
    BY <1>2, <1>3
  <1>5. [f \in DOMAIN work[r] \cup S |->
             (IF f \in DOMAIN work[r] THEN work[r][f] ELSE {})
             \cup (IF f \in S THEN {EntryFor(r, f)} ELSE {})]
            \in [DOMAIN work[r] \cup S -> SUBSET Entry]
    BY <1>4
  <1>6. [f \in DOMAIN work[r] \cup S |->
             (IF f \in DOMAIN work[r] THEN work[r][f] ELSE {})
             \cup (IF f \in S THEN {EntryFor(r, f)} ELSE {})] \in Trees
    BY <1>2, <1>5, TreeIntro
  <1> QED
    BY <1>1, <1>6 DEF Written

LEMMA TreeHistory ==
    ASSUME Typed, NEW i \in 1..Len(history)
    PROVE  /\ history[i] \in Commits
           /\ history[i].tree \in Trees
           /\ history[i].since \in 1..Len(history)
  <1>1. history \in Seq(Commits)
    BY DEF Typed, HistoryTyped, CopyTyped, MemoryTyped
  <1>2. history[i] \in Commits
    BY <1>1
  <1>3. history[i].since \in 1..Len(history)
    BY DEF Typed, HistoryTyped, CopyTyped, MemoryTyped
  <1> QED
    BY <1>2, <1>3 DEF Commits

LEMMA TreeIndex ==
    ASSUME Typed, NEW r \in Runners
    PROVE  Index(r) \in Trees
  <1>1. headTree[r] \in Trees /\ fetched[r] \in 1..Len(history)
    BY DEF Typed, HistoryTyped, CopyTyped, MemoryTyped
  <1>2. Upstream(r) \in Trees
    BY <1>1, TreeHistory DEF Upstream
  <1>3. Only(Upstream(r), Glob(r)) \in Trees
    BY <1>2, TreeOnly
  <1> QED
    BY <1>1, <1>3, TreeOverlay DEF Index

-----------------------------------------------------------------------------
(* Types. *)

LEMMA TypedInit == Init => Typed
  <1> SUFFICES ASSUME Init PROVE Typed
    OBVIOUS
  <1> DEFINE t0 == [f \in Existing |-> {}]
             c0 == [tree |-> t0, since |-> 1]
  <1>1. t0 \in Trees
    BY ChangelogAssumption, TreeIntro DEF ChangelogAssumption
  <1>2. c0 \in Commits
    BY <1>1 DEF Commits
  <1>3. history = <<c0>>
    BY DEF Init
  <1> HIDE DEF t0
  <1>4. c0.tree = t0 /\ c0.since = 1
    OBVIOUS
  <1> HIDE DEF c0
  <1>5. history \in Seq(Commits) /\ Len(history) = 1 /\ history[1] = c0
    BY <1>2, <1>3
  <1>6. \A i \in 1..Len(history) : history[i].since \in 1..Len(history)
    BY <1>4, <1>5
  <1>7. headTree \in [Runners -> Trees] /\ work \in [Runners -> Trees]
    BY <1>1, <1>4, <1>5 DEF Init
  <1>8. /\ head \in [Runners -> 1..Len(history)]
        /\ fetched \in [Runners -> 1..Len(history)]
        /\ since \in [Runners -> 1..Len(history)]
    BY <1>5 DEF Init
  <1>9. /\ own \in [Runners -> BOOLEAN]
        /\ config \in [Runners -> Configs]
        /\ pc \in [Runners -> {"idle", "ended"} \cup Steps]
        /\ outcome \in [Runners -> {"none", "running", "failed", "success"}]
    BY DEF Init
  <1>10. /\ run \in [Runners -> 0..lastRun] /\ released \subseteq 1..lastRun
         /\ \A r \in Runners : pc[r] \in Steps => run[r] > 0
    BY DEF Init, Steps
  <1>11. /\ bumped \in [Runners -> SUBSET Packages]
         /\ noted \in [Runners -> SUBSET Packages]
         /\ todo \in [Runners -> SUBSET (Files \cup Tags)]
         /\ \A r \in Runners : noted[r] \subseteq bumped[r]
         /\ \A r \in Runners : pc[r] = "writing" => todo[r] \subseteq Files
    BY DEF Init
  <1>12. lastRun \in 0..MaxRuns /\ faults \in 0..MaxFaults
    BY ChangelogAssumption DEF Init, ChangelogAssumption
  <1> QED
    BY <1>5, <1>6, <1>7, <1>8, <1>9, <1>10, <1>11, <1>12 DEF Typed, HistoryTyped, CopyTyped, MemoryTyped

\* What BranchPushed does to the history.
LEMMA HistoryGrows ==
    ASSUME Typed, NEW r \in Runners, BranchPushed(r)
    PROVE  /\ history' \in Seq(Commits)
           /\ Len(history') \in Nat /\ Len(history') >= Len(history)
           /\ Len(history') = IF own[r] THEN Len(history) + 1 ELSE Len(history)
           /\ \A i \in 1..Len(history) : history'[i] = history[i]
           /\ own[r] => /\ history'[Len(history')].tree = headTree[r]
                        /\ history'[Len(history')].since = since[r]
           /\ \A i \in 1..Len(history') : history'[i].since \in 1..Len(history')
  <1> DEFINE c == [tree |-> headTree[r], since |-> since[r]]
  <1>1. history \in Seq(Commits) /\ Len(history) \in Nat
    BY DEF Typed, HistoryTyped, CopyTyped, MemoryTyped
  <1>2. headTree[r] \in Trees /\ since[r] \in 1..Len(history)
    BY DEF Typed, HistoryTyped, CopyTyped, MemoryTyped
  <1>3. c \in Commits
    BY <1>1, <1>2 DEF Commits
  <1>4. c.tree = headTree[r] /\ c.since = since[r]
    OBVIOUS
  <1>5. history' = IF own[r] THEN Append(history, c) ELSE history
    BY DEF BranchPushed
  <1>6. \A i \in 1..Len(history) : history[i].since \in 1..Len(history)
    BY DEF Typed, HistoryTyped, CopyTyped, MemoryTyped
  <1> HIDE DEF c
  <1>7. CASE ~own[r]
    BY <1>1, <1>5, <1>6, <1>7
  <1>8. CASE own[r]
    <2>1. /\ history' \in Seq(Commits)
          /\ Len(history') = Len(history) + 1
          /\ \A i \in 1..Len(history) : history'[i] = history[i]
          /\ history'[Len(history) + 1] = c
      BY <1>1, <1>3, <1>5, <1>8
    <2>2. ASSUME NEW i \in 1..Len(history')
          PROVE  history'[i].since \in 1..Len(history')
      <3>1. CASE i \in 1..Len(history)
        <4>1. history'[i].since \in 1..Len(history)
          BY <1>6, <2>1, <3>1
        <4> QED
          BY <1>1, <2>1, <4>1
      <3>2. CASE i = Len(history) + 1
        BY <1>1, <1>2, <1>4, <2>1, <3>2
      <3> QED
        BY <1>1, <2>1, <3>1, <3>2
    <2> QED
      BY <1>1, <1>4, <1>8, <2>1, <2>2
  <1> QED
    BY <1>7, <1>8

LEMMA TypedBranchPushed ==
    ASSUME Typed, NEW r \in Runners, BranchPushed(r)
    PROVE  /\ head' \in [Runners -> 1..Len(history')]
           /\ fetched' \in [Runners -> 1..Len(history')]
           /\ since \in [Runners -> 1..Len(history')]
           /\ own' \in [Runners -> BOOLEAN]
           /\ Len(history') > 0
  <1>1. Len(history') \in Nat /\ Len(history') >= Len(history)
    BY HistoryGrows
  <1>2. Len(history) \in Nat /\ Len(history) > 0
    BY DEF Typed, HistoryTyped, CopyTyped, MemoryTyped
  <1>3. 1..Len(history) \subseteq 1..Len(history')
    BY <1>1, <1>2
  <1> QED
    BY <1>1, <1>2, <1>3 DEF Typed, HistoryTyped, CopyTyped, MemoryTyped, BranchPushed

LEMMA Asked ==
    ASSUME Typed, NEW r \in Runners
    PROVE  /\ config[r] \in Config
           /\ Glob(r) \subseteq Files
           /\ FilesToWrite(r) \subseteq Glob(r)
           /\ Announced(r) \subseteq bumped[r]
           /\ Announced(r) \subseteq Packages
           /\ TagsToAnnounce(r) = {TagOf[p] : p \in Announced(r)}
  <1>1. config[r] \in Config
    BY ChangelogAssumption DEF ChangelogAssumption, Typed, MemoryTyped
  <1>2. config[r].changelog \in {"off", "one", "each"} /\ config[r].github \in {"off", "explicit", "implicit"}
    BY <1>1 DEF Config
  <1>3. Glob(r) \subseteq Files
    BY <1>2 DEF Glob, Files
  <1>4. bumped[r] \subseteq Packages /\ noted[r] \subseteq bumped[r]
    BY DEF Typed, MemoryTyped
  <1>5. Announced(r) \subseteq bumped[r]
    BY <1>2, <1>4 DEF Announced
  <1> QED
    BY <1>1, <1>3, <1>4, <1>5 DEF FilesToWrite, TagsToAnnounce

LEMMA TypedNext ==
    ASSUME Typed, [Next]_vars
    PROVE  Typed'
  <1> USE DEF GoTo, Ends, Fault, shared, copy, memory, Steps
  <1>0. Len(history) \in Nat /\ Len(history) > 0 /\ MaxRuns \in Nat /\ MaxFaults \in Nat
    BY ChangelogAssumption DEF ChangelogAssumption, Typed, HistoryTyped
  <1>1. ASSUME NEW r \in Runners, Start(r)
        PROVE  Typed'
    <2>1. PICK c \in Changesets : /\ bumped' = [bumped EXCEPT ![r] = c[1]]
                                  /\ noted' = [noted EXCEPT ![r] = c[2]]
      BY <1>1 DEF Start
    <2>2. c[1] \subseteq Packages /\ c[2] \subseteq Packages /\ c[2] \subseteq c[1]
      BY ChangelogAssumption DEF ChangelogAssumption
    <2>3. PICK h \in 1..Len(history) :
             /\ head' = [head EXCEPT ![r] = h]
             /\ headTree' = [headTree EXCEPT ![r] = history[h].tree]
             /\ work' = [work EXCEPT ![r] =
                    IF FreshClone THEN history[h].tree
                    ELSE Overlay(Uncommitted(r), history[h].tree)]
      BY <1>1 DEF Start
    <2>4. history[h].tree \in Trees /\ work[r] \in Trees
      BY TreeHistory DEF Typed, CopyTyped
    <2>5. Uncommitted(r) \in Trees
      BY <2>4, TreeOnly DEF Uncommitted
    <2>6. Overlay(Uncommitted(r), history[h].tree) \in Trees
      BY <2>4, <2>5, TreeOverlay
    <2>7. HistoryTyped'
      BY <1>1 DEF Start, Typed, HistoryTyped
    <2>8. CopyTyped'
      BY <1>0, <1>1, <2>3, <2>4, <2>6 DEF Start, Typed, CopyTyped
    <2>9. MemoryTyped'
      BY <1>0, <1>1, <2>1, <2>2 DEF Start, Typed, MemoryTyped
    <2> QED
      BY <2>7, <2>8, <2>9 DEF Typed
  <1>2. ASSUME NEW r \in Runners, Refresh(r)
        PROVE  Typed'
    <2>1. work[r] \in Trees /\ Upstream(r) \in Trees
      BY TreeHistory DEF Typed, CopyTyped, Upstream
    <2>2. Only(Upstream(r), Glob(r)) \in Trees
      BY <2>1, TreeOnly
    <2>3. Overlay(Only(Upstream(r), Glob(r)), work[r]) \in Trees
      BY <2>1, <2>2, TreeOverlay
    <2>4. FilesToWrite(r) \subseteq Files
      BY Asked
    <2>5. HistoryTyped' /\ CopyTyped'
      BY <1>2, <2>1, <2>3 DEF Refresh, Typed, HistoryTyped, CopyTyped
    <2>6. MemoryTyped'
      BY <1>2, <2>4 DEF Refresh, Typed, MemoryTyped
    <2> QED
      BY <2>5, <2>6 DEF Typed
  <1>3. ASSUME NEW r \in Runners, AllWritten(r)
        PROVE  Typed'
    <2>1. TagsToAnnounce(r) \subseteq Tags
      BY Asked DEF Tags
    <2>2. HistoryTyped' /\ CopyTyped'
      BY <1>3 DEF AllWritten, Typed, HistoryTyped, CopyTyped
    <2>3. MemoryTyped'
      BY <1>3, <2>1 DEF AllWritten, Typed, MemoryTyped
    <2> QED
      BY <2>2, <2>3 DEF Typed
  <1>4. ASSUME NEW r \in Runners, NEW f \in Files, WriteEntry(r, f)
        PROVE  Typed'
    <2>1. Written(r, {f}) \in Trees
      BY TreeWritten
    <2>2. HistoryTyped' /\ CopyTyped'
      BY <1>4, <2>1 DEF WriteEntry, Typed, HistoryTyped, CopyTyped
    <2>3. MemoryTyped'
      BY <1>4 DEF WriteEntry, Typed, MemoryTyped
    <2> QED
      BY <2>2, <2>3 DEF Typed
  <1>5. ASSUME NEW r \in Runners, NEW f \in Files, WriteThrows(r, f)
        PROVE  Typed'
    <2>1. PICK late \in SUBSET (todo[r] \ (Unmarked \cup {f})) :
             work' = [work EXCEPT ![r] = Written(r, late)]
      BY <1>5 DEF WriteThrows
    <2>2. late \subseteq Files
      BY <1>5 DEF WriteThrows, Typed, MemoryTyped
    <2>3. Written(r, late) \in Trees
      BY <2>2, TreeWritten
    <2>4. HistoryTyped' /\ CopyTyped'
      BY <1>5, <2>1, <2>3 DEF WriteThrows, Typed, HistoryTyped, CopyTyped
    <2>5. MemoryTyped'
      BY <1>0, <1>5 DEF WriteThrows, Typed, MemoryTyped
    <2> QED
      BY <2>4, <2>5 DEF Typed
  <1>6. ASSUME NEW r \in Runners, Commit(r)
        PROVE  Typed'
    <2>1. work[r] \in Trees /\ Index(r) \in Trees
      BY TreeIndex DEF Typed, CopyTyped
    <2>2. \A S : Overlay(Only(work[r], S), Index(r)) \in Trees
      BY <2>1, TreeOnly, TreeOverlay
    <2>3. PICK tree \in Trees :
             \/ /\ headTree' = [headTree EXCEPT ![r] = tree]
                /\ own' = [own EXCEPT ![r] = TRUE]
             \/ UNCHANGED <<headTree, own>>
      <3>1. headTree[r] \in Trees
        BY DEF Typed, CopyTyped
      <3> QED
        BY <1>6, <2>2, <3>1 DEF Commit
    <2>5. HistoryTyped'
      BY <1>6 DEF Commit, Typed, HistoryTyped
    <2>6. CopyTyped'
      BY <1>6, <2>3 DEF Commit, Typed, CopyTyped
    <2>4. MemoryTyped'
      BY <1>6 DEF Commit, Typed, MemoryTyped
    <2> QED
      BY <2>5, <2>6, <2>4 DEF Typed
  <1>7. ASSUME NEW r \in Runners, Pull(r)
        PROVE  Typed'
    <2> DEFINE pulled == IF own[r] THEN Rebased(history[head[r]].tree, headTree[r], Newest)
                         ELSE Newest
    <2>1. /\ Newest \in Trees /\ history[head[r]].tree \in Trees
          /\ headTree[r] \in Trees /\ work[r] \in Trees
      <3>1. head[r] \in 1..Len(history) /\ Len(history) \in 1..Len(history)
        BY <1>0 DEF Typed, CopyTyped
      <3>2. headTree[r] \in Trees /\ work[r] \in Trees
        BY DEF Typed, CopyTyped
      <3> QED
        BY <3>1, <3>2, TreeHistory DEF Newest
    <2>2. pulled \in Trees
      BY <2>1, TreeRebased
    <2>3. Rebased(headTree[r], work[r], pulled) \in Trees
      BY <2>1, <2>2, TreeRebased
    <2>4. IF PushesBranch(r)
          THEN /\ head' = [head EXCEPT ![r] = Len(history)]
               /\ fetched' = [fetched EXCEPT ![r] = Len(history)]
               /\ headTree' = [headTree EXCEPT ![r] = pulled]
               /\ work' = [work EXCEPT ![r] = Rebased(headTree[r], work[r], pulled)]
          ELSE UNCHANGED <<head, fetched, headTree, work>>
      BY <1>7 DEF Pull, Typed, CopyTyped
    <2>5. HistoryTyped'
      BY <1>7 DEF Pull, Typed, HistoryTyped
    <2> HIDE DEF pulled
    <2>6. CopyTyped'
      <3>1. UNCHANGED <<history, since, own>>
        BY <1>7 DEF Pull
      <3>2. CASE PushesBranch(r)
        <4>1. Len(history) \in 1..Len(history)
          BY <1>0
        <4>2. /\ head' \in [Runners -> 1..Len(history)]
              /\ fetched' \in [Runners -> 1..Len(history)]
          BY <2>4, <3>2, <4>1 DEF Typed, CopyTyped
        <4>3. headTree' \in [Runners -> Trees]
          BY <2>2, <2>4, <3>2 DEF Typed, CopyTyped
        <4>4. work' \in [Runners -> Trees]
          BY <2>3, <2>4, <3>2 DEF Typed, CopyTyped
        <4> QED
          BY <3>1, <4>2, <4>3, <4>4 DEF Typed, CopyTyped
      <3>3. CASE ~PushesBranch(r)
        BY <2>4, <3>1, <3>3 DEF Typed, CopyTyped
      <3> QED
        BY <3>2, <3>3
    <2>7. MemoryTyped'
      BY <1>7 DEF Pull, Typed, MemoryTyped
    <2> QED
      BY <2>5, <2>6, <2>7 DEF Typed
  <1>8. ASSUME NEW r \in Runners, ValidatePush(r)
        PROVE  Typed'
    <2>1. HistoryTyped' /\ CopyTyped'
      BY <1>8 DEF ValidatePush, Typed, HistoryTyped, CopyTyped
    <2>2. MemoryTyped'
      BY <1>0, <1>8 DEF ValidatePush, Typed, MemoryTyped
    <2> QED
      BY <2>1, <2>2 DEF Typed
  <1>9. ASSUME NEW r \in Runners, Publish(r)
        PROVE  Typed'
    <2>1. HistoryTyped' /\ CopyTyped'
      BY <1>9 DEF Publish, Typed, HistoryTyped, CopyTyped
    <2>2. run[r] \in 1..lastRun
      BY <1>0, <1>9 DEF Publish, Typed, MemoryTyped
    <2>3. MemoryTyped'
      BY <1>9, <2>2 DEF Publish, Typed, MemoryTyped
    <2> QED
      BY <2>1, <2>3 DEF Typed
  <1>10. ASSUME NEW r \in Runners, PushBranch(r)
        PROVE  Typed'
    <2>1. CASE PushesBranch(r) /\ ~Refused(r)
      <3>1. BranchPushed(r)
        BY <1>10, <2>1 DEF PushBranch
      <3>2. HistoryTyped' /\ CopyTyped'
        BY <1>10, <3>1, HistoryGrows, TypedBranchPushed
        DEF PushBranch, BranchPushed, Typed, HistoryTyped, CopyTyped
      <3>3. MemoryTyped'
        BY <1>10, <3>1 DEF PushBranch, BranchPushed, Typed, MemoryTyped
      <3> QED
        BY <3>2, <3>3 DEF Typed
    <2>2. CASE ~(PushesBranch(r) /\ ~Refused(r))
      <3>1. HistoryTyped' /\ CopyTyped'
        BY <1>10, <2>2 DEF PushBranch, Typed, HistoryTyped, CopyTyped
      <3>2. MemoryTyped'
        BY <1>10, <2>2 DEF PushBranch, Typed, MemoryTyped
      <3> QED
        BY <3>1, <3>2 DEF Typed
    <2> QED
      BY <2>1, <2>2
  <1>11. ASSUME NEW r \in Runners, PushUnanswered(r)
        PROVE  Typed'
    <2>1. BranchPushed(r)
      BY <1>11 DEF PushUnanswered
    <2>2. HistoryTyped' /\ CopyTyped'
      BY <1>11, <2>1, HistoryGrows, TypedBranchPushed
      DEF PushUnanswered, BranchPushed, Typed, HistoryTyped, CopyTyped
    <2>3. MemoryTyped'
      BY <1>0, <1>11, <2>1 DEF PushUnanswered, BranchPushed, Typed, MemoryTyped
    <2> QED
      BY <2>2, <2>3 DEF Typed
  <1>12. ASSUME NEW r \in Runners, PushTags(r)
        PROVE  Typed'
    <2>1. TagsToAnnounce(r) \subseteq Tags
      BY Asked DEF Tags
    <2>2. HistoryTyped' /\ CopyTyped'
      BY <1>12 DEF PushTags, Typed, HistoryTyped, CopyTyped
    <2>3. MemoryTyped'
      BY <1>12, <2>1 DEF PushTags, Typed, MemoryTyped
    <2> QED
      BY <2>2, <2>3 DEF Typed
  <1>13. ASSUME NEW r \in Runners, NEW tag, Announce(r, tag)
        PROVE  Typed'
    <2>1. HistoryTyped' /\ CopyTyped'
      BY <1>13 DEF Announce, Typed, HistoryTyped, CopyTyped
    <2>2. MemoryTyped'
      BY <1>0, <1>13 DEF Announce, Typed, MemoryTyped
    <2> QED
      BY <2>1, <2>2 DEF Typed
  <1>14. ASSUME NEW r \in Runners, MissingTag(r)
        PROVE  Typed'
    <2>1. HistoryTyped' /\ CopyTyped'
      BY <1>14 DEF MissingTag, Typed, HistoryTyped, CopyTyped
    <2>2. MemoryTyped'
      BY <1>0, <1>14 DEF MissingTag, Typed, MemoryTyped
    <2> QED
      BY <2>1, <2>2 DEF Typed
  <1>15. ASSUME NEW r \in Runners, Finish(r)
        PROVE  Typed'
    <2>1. HistoryTyped' /\ CopyTyped'
      BY <1>15 DEF Finish, Typed, HistoryTyped, CopyTyped
    <2>2. MemoryTyped'
      BY <1>0, <1>15 DEF Finish, Typed, MemoryTyped
    <2> QED
      BY <2>1, <2>2 DEF Typed
  <1>16. ASSUME NEW r \in Runners, Stops(r)
        PROVE  Typed'
    <2>1. HistoryTyped' /\ CopyTyped'
      BY <1>16 DEF Stops, Typed, HistoryTyped, CopyTyped
    <2>2. MemoryTyped'
      BY <1>0, <1>16 DEF Stops, Typed, MemoryTyped
    <2> QED
      BY <2>1, <2>2 DEF Typed
  <1>17. ASSUME NEW r \in Runners, MakeTags(r)
        PROVE  Typed'
    <2>1. HistoryTyped' /\ CopyTyped'
      BY <1>17 DEF MakeTags, Typed, HistoryTyped, CopyTyped
    <2>2. faults' \in 0..MaxFaults
      BY <1>0, <1>17 DEF MakeTags, tagging, Typed, MemoryTyped
    <2>3. MemoryTyped'
      BY <1>17, <2>2 DEF MakeTags, Typed, MemoryTyped
    <2> QED
      BY <2>1, <2>3 DEF Typed
  <1>18. CASE UNCHANGED vars
    BY <1>18 DEF vars, Typed, HistoryTyped, CopyTyped, MemoryTyped
  <1> QED
    BY <1>1, <1>2, <1>3, <1>4, <1>5, <1>6, <1>7, <1>8, <1>9, <1>10, <1>11, <1>12, <1>13,
       <1>14, <1>15, <1>16, <1>17, <1>18 DEF Next

THEOREM TypesHold == Spec => []Typed
  BY TypedInit, TypedNext, PTL DEF Spec

-----------------------------------------------------------------------------
(* Announcements. *)

\* What holds before a tag is announced: a run that pushes has released; a tag it
\* was to make is in its working copy or git has failed to make it, and by the time
\* of the announcement it is on the remote or git has failed to make it.
Names(r) == {TagOf[p] : p \in bumped[r]}

Availability ==
    /\ DOMAIN tags = Runners
    /\ \A r \in Runners :
           pc[r] \in {"pushing", "pushingTags"} => run[r] \in released
    /\ \A r \in Runners :
           pc[r] \in {"committing", "pulling", "taggingCommit"}
                   /\ config[r].tag /\ ~config[r].persistVersions =>
               RunTags(r, Names(r)) \subseteq tags[r] \cup swallowed
    /\ \A r \in Runners :
           pc[r] \in {"validating", "publishing", "pushing", "pushingTags"} /\ config[r].tag =>
               RunTags(r, Names(r)) \subseteq tags[r] \cup swallowed
    /\ \A r \in Runners :
           pc[r] = "announcing" /\ ~config[r].dryRun =>
               /\ run[r] \in released
               /\ todo[r] \subseteq Names(r)
               /\ config[r].push /\ config[r].tag =>
                      RunTags(r, Names(r)) \subseteq remoteTags \cup swallowed
    /\ AnnouncedIsAvailable

LEMMA TagsAreMade ==
    ASSUME Typed, NEW r \in Runners, MakeTags(r)
    PROVE  /\ UNCHANGED <<history, released, head, fetched, headTree, work, own, run, since,
                          bumped, noted, todo, config, outcome, lastRun>>
           /\ pc' = [pc EXCEPT ![r] = pc'[r]]
           /\ \/ pc[r] = "tagging" /\ pc'[r] = "committing"
              \/ pc[r] = "taggingCommit" /\ pc'[r] = "validating"
  BY DEF MakeTags, GoTo, shared, copy, memory, Typed, MemoryTyped

LEMMA AvailabilityInit == Init => Availability
  <1> SUFFICES ASSUME Init PROVE Availability
    OBVIOUS
  <1>1. DOMAIN tags = Runners /\ releases = {} /\ \A r \in Runners : pc[r] = "idle"
    BY DEF Init
  <1> QED
    BY <1>1 DEF Availability, AnnouncedIsAvailable

LEMMA AvailabilityNext ==
    ASSUME Typed, Availability, [Next]_vars
    PROVE  Availability'
  <1> USE DEF GoTo, Ends, Fault, shared, copy, tagging, memory, Idle, RunTags, Names, Steps, AnnouncedIsAvailable
  <1>0. /\ pc \in [Runners -> {"idle", "ended"} \cup Steps]
        /\ DOMAIN run = Runners /\ DOMAIN bumped = Runners /\ DOMAIN todo = Runners
        /\ DOMAIN tags = Runners
    BY DEF Typed, MemoryTyped, Availability
  <1>1. ASSUME NEW r \in Runners, Start(r)
        PROVE  Availability'
    BY <1>0, <1>1 DEF Start, Availability
  <1>2. ASSUME NEW r \in Runners, Refresh(r)
        PROVE  Availability'
    BY <1>0, <1>2 DEF Refresh, Availability
  <1>3. ASSUME NEW r \in Runners, AllWritten(r)
        PROVE  Availability'
    BY <1>0, <1>3 DEF AllWritten, Availability
  <1>4. ASSUME NEW r \in Runners, NEW f \in Files, WriteEntry(r, f)
        PROVE  Availability'
    BY <1>0, <1>4 DEF WriteEntry, Availability
  <1>5. ASSUME NEW r \in Runners, NEW f \in Files, WriteThrows(r, f)
        PROVE  Availability'
    BY <1>0, <1>5 DEF WriteThrows, Availability
  <1>6. ASSUME NEW r \in Runners, Commit(r)
        PROVE  Availability'
    BY <1>0, <1>6 DEF Commit, Availability
  <1>7. ASSUME NEW r \in Runners, Pull(r)
        PROVE  Availability'
    BY <1>0, <1>7 DEF Pull, Availability
  <1>8. ASSUME NEW r \in Runners, ValidatePush(r)
        PROVE  Availability'
    BY <1>0, <1>8 DEF ValidatePush, Availability
  <1>9. ASSUME NEW r \in Runners, Publish(r)
        PROVE  Availability'
    BY <1>0, <1>9 DEF Publish, Availability
  <1>10. ASSUME NEW r \in Runners, PushBranch(r)
        PROVE  Availability'
    BY <1>0, <1>10 DEF PushBranch, BranchPushed, Availability
  <1>11. ASSUME NEW r \in Runners, PushUnanswered(r)
        PROVE  Availability'
    BY <1>0, <1>11 DEF PushUnanswered, BranchPushed, Availability
  <1>12. ASSUME NEW r \in Runners, PushTags(r)
        PROVE  Availability'
    <2>1. TagsToAnnounce(r) \subseteq Names(r)
      BY Asked
    <2> QED
      BY <1>0, <1>12, <2>1 DEF PushTags, Availability
  <1>13. ASSUME NEW r \in Runners, NEW tag, Announce(r, tag)
        PROVE  Availability'
    <2>1. \A x \in releases' \ releases :
             /\ x.run \in released
             /\ x.madeUp /\ config[x.by].push => [run |-> x.run, tag |-> x.tag] \in swallowed
      <3>1. CASE config[r].dryRun
        BY <1>13, <3>1 DEF Announce
      <3>2. CASE ~config[r].dryRun
        <4>1. /\ run[r] \in released
              /\ tag \in Names(r)
              /\ config[r].push => [run |-> run[r], tag |-> tag] \in remoteTags \cup swallowed
          BY <1>13, <3>2 DEF Announce, Availability
        <4>2. releases' = releases \cup
                {[run |-> run[r], tag |-> tag, pkgs |-> Behind(r, tag), by |-> r,
                  madeUp |-> RunTags(r, {tag}) \cap remoteTags = {}]}
          BY <1>13, <3>2 DEF Announce
        <4> DEFINE x == [run |-> run[r], tag |-> tag, pkgs |-> Behind(r, tag), by |-> r,
                         madeUp |-> RunTags(r, {tag}) \cap remoteTags = {}]
        <4>3. x.madeUp => [run |-> run[r], tag |-> tag] \notin remoteTags
          OBVIOUS
        <4>4. x.run = run[r] /\ x.tag = tag /\ x.by = r
          OBVIOUS
        <4>5. \A y \in releases' \ releases : y = x
          BY <4>2
        <4> HIDE DEF x
        <4> QED
          BY <4>1, <4>3, <4>4, <4>5
      <3> QED
        BY <3>1, <3>2
    <2>2. AnnouncedIsAvailable'
      BY <1>13, <2>1 DEF Announce, Availability
    <2>3. remoteTags \subseteq remoteTags'
      BY <1>13 DEF Announce
    <2> QED
      BY <1>0, <1>13, <2>2, <2>3 DEF Announce, Availability
  <1>14. ASSUME NEW r \in Runners, MissingTag(r)
        PROVE  Availability'
    BY <1>0, <1>14 DEF MissingTag, Availability
  <1>15. ASSUME NEW r \in Runners, Finish(r)
        PROVE  Availability'
    BY <1>0, <1>15 DEF Finish, Availability
  <1>16. ASSUME NEW r \in Runners, Stops(r)
        PROVE  Availability'
    BY <1>0, <1>16 DEF Stops, Availability
  <1>17. ASSUME NEW r \in Runners, MakeTags(r)
        PROVE  Availability'
    <2>1. /\ UNCHANGED <<released, remoteTags, releases, run, bumped, todo, config>>
          /\ pc' = [pc EXCEPT ![r] = pc'[r]]
          /\ \/ pc[r] = "tagging" /\ pc'[r] = "committing"
             \/ pc[r] = "taggingCommit" /\ pc'[r] = "validating"
      BY <1>17, TagsAreMade DEF MakeTags
    <2>2. CASE config[r].tag /\ config[r].persistVersions = (pc[r] = "taggingCommit")
      <3>1. PICK failing \in SUBSET {TagOf[p] : p \in bumped[r]} :
               /\ tags' = [tags EXCEPT ![r] =
                      tags[r] \cup RunTags(r, {TagOf[p] : p \in bumped[r]} \ failing)]
               /\ swallowed' = swallowed \cup RunTags(r, failing)
        BY <1>17, <2>2 DEF MakeTags
      <3>2. /\ RunTags(r, Names(r)) \subseteq tags'[r] \cup swallowed'
            /\ \A q \in Runners : tags[q] \subseteq tags'[q]
            /\ swallowed \subseteq swallowed' /\ DOMAIN tags' = Runners
        BY <1>0, <3>1
      <3> QED
        BY <1>0, <2>1, <3>2 DEF Availability
    <2>3. CASE ~(config[r].tag /\ config[r].persistVersions = (pc[r] = "taggingCommit"))
      <3>1. UNCHANGED <<tags, swallowed>>
        BY <1>17, <2>3 DEF MakeTags
      <3>2. config[r].persistVersions \in BOOLEAN
        BY Asked DEF Config
      <3>3. pc[r] = "taggingCommit" => ~config[r].tag \/ ~config[r].persistVersions
        BY <2>3, <3>2
      <3>4. pc[r] = "tagging" => ~config[r].tag \/ config[r].persistVersions
        BY <2>3, <3>2
      <3> QED
        BY <1>0, <2>1, <3>1, <3>3, <3>4 DEF Availability
    <2> QED
      BY <2>2, <2>3
  <1>18. CASE UNCHANGED vars
    BY <1>18 DEF vars, Availability
  <1> QED
    BY <1>1, <1>2, <1>3, <1>4, <1>5, <1>6, <1>7, <1>8, <1>9, <1>10, <1>11, <1>12, <1>13,
       <1>14, <1>15, <1>16, <1>17, <1>18 DEF Next

\* Whatever fails and whoever else runs, a GitHub release that exists is of
\* packages that are in the registry and, where tags are pushed, of a tag that was
\* pushed before it, unless git itself failed to make that tag.
THEOREM AnnouncementsAreAvailable == Spec => []AnnouncedIsAvailable
  <1>1. Init => Availability
    BY AvailabilityInit
  <1>2. Availability => AnnouncedIsAvailable
    BY DEF Availability
  <1> QED
    BY <1>1, <1>2, AvailabilityNext, TypesHold, PTL DEF Spec

-----------------------------------------------------------------------------
(* Entries. *)

At(t, f) == IF f \in DOMAIN t THEN t[f] ELSE {}

Base(r)      == history[head[r]].tree    \* what HEAD or its parent is on the branch
Remembered(r) == history[since[r]].tree  \* the branch when the run started

Logging      == {"writing", "tagging", "committing"}
BeforeCommit == Logging \cup {"refreshing"}
AfterPull    == {"taggingCommit", "validating", "publishing", "pushing"}

USE DEF Logging

\* How what was on the branch when a run started comes through the run: staged by
\* the refresh, kept by the writes, committed, and kept by the rebase wherever
\* the branch still has it.
SurvivesIn(r) ==
    /\ pc[r] \in BeforeCommit =>
           fetched[r] = since[r] /\ headTree[r] = Base(r) /\ own[r] = FALSE
    /\ pc[r] \in AfterPull \cup {"tagging", "committing", "pulling"} => ~config[r].dryRun
    /\ pc[r] \in Logging /\ Refreshes(r) =>
           \A f \in Glob(r) : At(Remembered(r), f) \subseteq At(work[r], f)
    /\ pc[r] = "pulling" /\ own[r] /\ PushesBranch(r) =>
           /\ \A f \in Glob(r) : At(Remembered(r), f) \subseteq At(headTree[r], f)
           /\ \A f \in Files \ Glob(r) :
                  f \in DOMAIN headTree[r] =>
                      f \in DOMAIN Base(r) /\ headTree[r][f] = Base(r)[f]
    /\ pc[r] \in AfterPull /\ own[r] /\ PushesBranch(r) =>
           \A f \in Files :
               At(Base(r), f) \cap At(Remembered(r), f) \subseteq At(headTree[r], f)

Survival == EntriesSurvive /\ \A r \in Runners : SurvivesIn(r)

Released(t, more) == \A f \in DOMAIN t : \A e \in t[f] : e.run \in released \cup more

\* Where the entries of a run come from; a kept working copy is no source of them
\* as long as the refresh finds every changelog on the branch.
ProvenIn(r) ==
    /\ FreshClone /\ pc[r] = "refreshing" => Released(work[r], {})
    /\ pc[r] \in Logging /\ Refreshes(r) =>
           \A f \in Glob(r) :
               \A e \in At(work[r], f) : e.run \in released \cup {run[r]}
    /\ pc[r] \in AfterPull \cup {"pulling"} /\ own[r] /\ PushesBranch(r) =>
           /\ Released(headTree[r], {run[r]})
           /\ Existing = Files => DOMAIN headTree[r] = Files

AllExist == Existing = Files => \A i \in 1..Len(history) : DOMAIN history[i].tree = Files

Provenance == EntriesAreOfReleases /\ AllExist /\ \A r \in Runners : ProvenIn(r)

-----------------------------------------------------------------------------
(* One runner moves. *)

StepOf(r) ==
    \/ Start(r) \/ Refresh(r) \/ AllWritten(r)
    \/ \E f \in Files : WriteEntry(r, f) \/ WriteThrows(r, f)
    \/ MakeTags(r) \/ Commit(r) \/ Pull(r) \/ ValidatePush(r) \/ Publish(r)
    \/ PushBranch(r) \/ PushUnanswered(r) \/ PushTags(r)
    \/ \E tag : Announce(r, tag)
    \/ MissingTag(r) \/ Finish(r) \/ Stops(r)

\* The branch only grows.
Grows ==
    /\ Len(history) \in Nat /\ Len(history') \in Nat /\ Len(history') >= Len(history)
    /\ \A i \in 1..Len(history) : history'[i] = history[i]
    /\ released \subseteq released'
    /\ config' = config

OthersStay(r) ==
    \A q \in Runners \ {r} :
        /\ pc'[q] = pc[q] /\ head'[q] = head[q] /\ fetched'[q] = fetched[q]
        /\ headTree'[q] = headTree[q] /\ work'[q] = work[q] /\ own'[q] = own[q]
        /\ run'[q] = run[q] /\ since'[q] = since[q] /\ noted'[q] = noted[q]
        /\ todo'[q] = todo[q] /\ outcome'[q] = outcome[q]

LEMMA OneMoves ==
    ASSUME Typed, NEW r \in Runners, StepOf(r)
    PROVE  Grows /\ OthersStay(r)
  <1> USE DEF GoTo, Ends, shared, copy, memory
  <1>0. Len(history) \in Nat
    BY DEF Typed, HistoryTyped
  <1>f. /\ DOMAIN pc = Runners /\ DOMAIN head = Runners /\ DOMAIN fetched = Runners
        /\ DOMAIN headTree = Runners /\ DOMAIN work = Runners /\ DOMAIN own = Runners
        /\ DOMAIN run = Runners /\ DOMAIN since = Runners /\ DOMAIN noted = Runners
        /\ DOMAIN todo = Runners /\ DOMAIN outcome = Runners
    BY DEF Typed, CopyTyped, MemoryTyped
  <1>1. ASSUME Start(r)
        PROVE  Grows /\ OthersStay(r)
    <2>1. Grows
      BY <1>0, <1>1 DEF Start, Grows
    <2>2. OthersStay(r)
      BY <1>f, <1>1 DEF Start, OthersStay
    <2> QED
      BY <2>1, <2>2
  <1>2. ASSUME Refresh(r)
        PROVE  Grows /\ OthersStay(r)
    <2>1. Grows
      BY <1>0, <1>2 DEF Refresh, Grows
    <2>2. OthersStay(r)
      BY <1>f, <1>2 DEF Refresh, OthersStay
    <2> QED
      BY <2>1, <2>2
  <1>3. ASSUME AllWritten(r)
        PROVE  Grows /\ OthersStay(r)
    <2>1. Grows
      BY <1>0, <1>3 DEF AllWritten, Grows
    <2>2. OthersStay(r)
      BY <1>f, <1>3 DEF AllWritten, OthersStay
    <2> QED
      BY <2>1, <2>2
  <1>4. ASSUME NEW f \in Files, WriteEntry(r, f)
        PROVE  Grows /\ OthersStay(r)
    <2>1. Grows
      BY <1>0, <1>4 DEF WriteEntry, Grows
    <2>2. OthersStay(r)
      BY <1>f, <1>4 DEF WriteEntry, OthersStay
    <2> QED
      BY <2>1, <2>2
  <1>5. ASSUME NEW f \in Files, WriteThrows(r, f)
        PROVE  Grows /\ OthersStay(r)
    <2>1. Grows
      BY <1>0, <1>5 DEF WriteThrows, Grows
    <2>2. OthersStay(r)
      BY <1>f, <1>5 DEF WriteThrows, OthersStay
    <2> QED
      BY <2>1, <2>2
  <1>6. ASSUME Commit(r)
        PROVE  Grows /\ OthersStay(r)
    <2>1. Grows
      BY <1>0, <1>6 DEF Commit, Grows
    <2>2. OthersStay(r)
      BY <1>f, <1>6 DEF Commit, OthersStay
    <2> QED
      BY <2>1, <2>2
  <1>7. ASSUME Pull(r)
        PROVE  Grows /\ OthersStay(r)
    <2>1. Grows
      BY <1>0, <1>7 DEF Pull, Grows
    <2>2. OthersStay(r)
      BY <1>f, <1>7 DEF Pull, OthersStay
    <2> QED
      BY <2>1, <2>2
  <1>8. ASSUME ValidatePush(r)
        PROVE  Grows /\ OthersStay(r)
    <2>1. Grows
      BY <1>0, <1>8 DEF ValidatePush, Grows
    <2>2. OthersStay(r)
      BY <1>f, <1>8 DEF ValidatePush, OthersStay
    <2> QED
      BY <2>1, <2>2
  <1>9. ASSUME Publish(r)
        PROVE  Grows /\ OthersStay(r)
    <2>1. Grows
      BY <1>0, <1>9 DEF Publish, Grows
    <2>2. OthersStay(r)
      BY <1>f, <1>9 DEF Publish, OthersStay
    <2> QED
      BY <2>1, <2>2
  <1>10. ASSUME PushBranch(r)
        PROVE  Grows /\ OthersStay(r)
    <2>1. CASE PushesBranch(r) /\ ~Refused(r)
      <3>1. BranchPushed(r)
        BY <1>10, <2>1 DEF PushBranch
      <3>2. Grows
        BY <1>0, <1>10, <3>1, HistoryGrows DEF PushBranch, BranchPushed, Grows
      <3>3. OthersStay(r)
        BY <1>f, <1>10, <3>1 DEF PushBranch, BranchPushed, OthersStay
      <3> QED
        BY <3>2, <3>3
    <2>2. CASE ~(PushesBranch(r) /\ ~Refused(r))
      <3>1. Grows
        BY <1>0, <1>10, <2>2 DEF PushBranch, Grows
      <3>2. OthersStay(r)
        BY <1>f, <1>10, <2>2 DEF PushBranch, OthersStay
      <3> QED
        BY <3>1, <3>2
    <2> QED
      BY <2>1, <2>2
  <1>11. ASSUME PushUnanswered(r)
        PROVE  Grows /\ OthersStay(r)
    <2>1. BranchPushed(r)
      BY <1>11 DEF PushUnanswered
    <2>2. Grows
      BY <1>0, <1>11, <2>1, HistoryGrows DEF PushUnanswered, BranchPushed, Grows
    <2>3. OthersStay(r)
      BY <1>f, <1>11, <2>1 DEF PushUnanswered, BranchPushed, OthersStay
    <2> QED
      BY <2>2, <2>3
  <1>12. ASSUME PushTags(r)
        PROVE  Grows /\ OthersStay(r)
    <2>1. Grows
      BY <1>0, <1>12 DEF PushTags, Grows
    <2>2. OthersStay(r)
      BY <1>f, <1>12 DEF PushTags, OthersStay
    <2> QED
      BY <2>1, <2>2
  <1>13. ASSUME NEW tag, Announce(r, tag)
        PROVE  Grows /\ OthersStay(r)
    <2>1. Grows
      BY <1>0, <1>13 DEF Announce, Grows
    <2>2. OthersStay(r)
      BY <1>f, <1>13 DEF Announce, OthersStay
    <2> QED
      BY <2>1, <2>2
  <1>14. ASSUME MissingTag(r)
        PROVE  Grows /\ OthersStay(r)
    <2>1. Grows
      BY <1>0, <1>14 DEF MissingTag, Grows
    <2>2. OthersStay(r)
      BY <1>f, <1>14 DEF MissingTag, OthersStay
    <2> QED
      BY <2>1, <2>2
  <1>15. ASSUME Finish(r)
        PROVE  Grows /\ OthersStay(r)
    <2>1. Grows
      BY <1>0, <1>15 DEF Finish, Grows
    <2>2. OthersStay(r)
      BY <1>f, <1>15 DEF Finish, OthersStay
    <2> QED
      BY <2>1, <2>2
  <1>16. ASSUME Stops(r)
        PROVE  Grows /\ OthersStay(r)
    <2>1. Grows
      BY <1>0, <1>16 DEF Stops, Grows
    <2>2. OthersStay(r)
      BY <1>f, <1>16 DEF Stops, OthersStay
    <2> QED
      BY <2>1, <2>2
  <1>17. ASSUME MakeTags(r)
        PROVE  Grows /\ OthersStay(r)
    <2>1. Grows
      BY <1>0, <1>17, TagsAreMade DEF Grows
    <2>2. OthersStay(r)
      BY <1>f, <1>17, TagsAreMade DEF OthersStay
    <2> QED
      BY <2>1, <2>2
  <1> QED
    BY <1>1, <1>2, <1>3, <1>4, <1>5, <1>6, <1>7, <1>8, <1>9, <1>10, <1>11, <1>12, <1>13,
       <1>14, <1>15, <1>16, <1>17 DEF StepOf

LEMMA OthersSurvive ==
    ASSUME Typed, NEW r \in Runners, StepOf(r), NEW q \in Runners \ {r}, SurvivesIn(q)
    PROVE  SurvivesIn(q)'
  <1>1. Grows /\ OthersStay(r)
    BY OneMoves
  <1>2. head[q] \in 1..Len(history) /\ since[q] \in 1..Len(history)
    BY DEF Typed, CopyTyped
  <1>3. Base(q)' = Base(q) /\ Remembered(q)' = Remembered(q)
    BY <1>1, <1>2 DEF Base, Remembered, OthersStay, Grows
  <1>4. /\ Glob(q)' = Glob(q) /\ PushesBranch(q)' = PushesBranch(q)
        /\ Refreshes(q)' = Refreshes(q)
    BY <1>1 DEF Glob, PushesBranch, Refreshes, Grows
  <1> QED
    BY <1>1, <1>3, <1>4 DEF SurvivesIn, OthersStay, Grows

LEMMA OthersProven ==
    ASSUME Typed, NEW r \in Runners, StepOf(r), NEW q \in Runners \ {r}, ProvenIn(q)
    PROVE  ProvenIn(q)'
  <1>1. Grows /\ OthersStay(r)
    BY OneMoves
  <1>2. /\ Glob(q)' = Glob(q) /\ PushesBranch(q)' = PushesBranch(q)
        /\ Refreshes(q)' = Refreshes(q)
    BY <1>1 DEF Glob, PushesBranch, Refreshes, Grows
  <1> QED
    BY <1>1, <1>2 DEF ProvenIn, Released, OthersStay, Grows

-----------------------------------------------------------------------------
(* What a run does to its own copy. *)

LEMMA AtOnly ==
    ASSUME NEW t, NEW S
    PROVE  /\ DOMAIN Only(t, S) = DOMAIN t \cap S
           /\ \A f \in DOMAIN t \cap S : Only(t, S)[f] = t[f]
  BY DEF Only

LEMMA AtOverlay ==
    ASSUME NEW over, NEW under
    PROVE  /\ DOMAIN Overlay(over, under) = DOMAIN over \cup DOMAIN under
           /\ \A f \in DOMAIN over : Overlay(over, under)[f] = over[f]
           /\ \A f \in DOMAIN under \ DOMAIN over : Overlay(over, under)[f] = under[f]
  BY DEF Overlay

LEMMA AtWritten ==
    ASSUME NEW r, NEW S, NEW f
    PROVE  /\ At(work[r], f) \subseteq At(Written(r, S), f)
           /\ At(Written(r, S), f) \subseteq At(work[r], f) \cup {EntryFor(r, f)}
  <1>1. CASE config[r].dryRun /\ ~config[r].forceWrite
    BY <1>1 DEF Written, At
  <1>2. CASE ~(config[r].dryRun /\ ~config[r].forceWrite)
    BY <1>2 DEF Written, At
  <1> QED
    BY <1>1, <1>2

\* The commit takes every changelog of the glob from the working tree, where it
\* exists there, and every other one from HEAD.
LEMMA AtCommit ==
    ASSUME Typed, NEW r \in Runners, Commit(r), own[r] = FALSE, own'[r], NEW f
    PROVE  /\ DOMAIN headTree'[r] = DOMAIN Index(r) \cup (Glob(r) \cap DOMAIN work[r])
           /\ f \in Glob(r) \cap DOMAIN work[r] => headTree'[r][f] = work[r][f]
           /\ f \in DOMAIN Index(r) \ (Glob(r) \cap DOMAIN work[r]) =>
                  headTree'[r][f] = Index(r)[f]
  <1> DEFINE files == {g \in Glob(r) \cap DOMAIN work[r] :
                          g \in DOMAIN Index(r) => work[r][g] # Index(r)[g]}
             index == Index(r)
             staged == Only(work[r], files)
  <1>1. DOMAIN headTree = Runners /\ DOMAIN own = Runners
    BY DEF Typed, CopyTyped
  <1>2. headTree'[r] = Overlay(staged, index)
    BY <1>1 DEF Commit
  <1>3. files \subseteq Glob(r) \cap DOMAIN work[r]
    OBVIOUS
  <1>4. \A g \in (Glob(r) \cap DOMAIN work[r]) \ files :
           g \in DOMAIN index /\ work[r][g] = index[g]
    OBVIOUS
  <1> HIDE DEF files, index
  <1>5. DOMAIN staged = DOMAIN work[r] \cap files /\ \A g \in DOMAIN work[r] \cap files : staged[g] = work[r][g]
    BY AtOnly
  <1> HIDE DEF staged
  <1>6. /\ DOMAIN headTree'[r] = DOMAIN staged \cup DOMAIN index
        /\ \A g \in DOMAIN staged : headTree'[r][g] = staged[g]
        /\ \A g \in DOMAIN index \ DOMAIN staged : headTree'[r][g] = index[g]
    <2> DEFINE tree == Overlay(staged, index)
    <2>1. /\ DOMAIN tree = DOMAIN staged \cup DOMAIN index
          /\ \A g \in DOMAIN staged : tree[g] = staged[g]
          /\ \A g \in DOMAIN index \ DOMAIN staged : tree[g] = index[g]
      BY AtOverlay
    <2> QED
      BY <1>2, <2>1
  <1>7. DOMAIN staged = files
    BY <1>3, <1>5
  <1>8. DOMAIN headTree'[r] = DOMAIN index \cup (Glob(r) \cap DOMAIN work[r])
    BY <1>3, <1>4, <1>6, <1>7
  <1>9. f \in Glob(r) \cap DOMAIN work[r] => headTree'[r][f] = work[r][f]
    BY <1>3, <1>4, <1>5, <1>6, <1>7
  <1>10. f \in DOMAIN index \ (Glob(r) \cap DOMAIN work[r]) => headTree'[r][f] = index[f]
    BY <1>3, <1>6, <1>7
  <1> QED
    BY <1>8, <1>9, <1>10 DEF index

\* In the index the matching changelogs of the upstream replace those of HEAD.
LEMMA AtIndex ==
    ASSUME NEW r, NEW f
    PROVE  /\ DOMAIN Index(r) = IF Refreshes(r)
                               THEN DOMAIN headTree[r] \cup (DOMAIN Upstream(r) \cap Glob(r))
                               ELSE DOMAIN headTree[r]
           /\ Refreshes(r) /\ f \in DOMAIN Upstream(r) \cap Glob(r) =>
                  Index(r)[f] = Upstream(r)[f]
           /\ f \in DOMAIN headTree[r] \ Glob(r) => Index(r)[f] = headTree[r][f]
           /\ f \in DOMAIN headTree[r] \ DOMAIN Upstream(r) => Index(r)[f] = headTree[r][f]
  <1> DEFINE staged == Only(Upstream(r), Glob(r))
  <1>1. /\ DOMAIN staged = DOMAIN Upstream(r) \cap Glob(r)
        /\ \A g \in DOMAIN Upstream(r) \cap Glob(r) : staged[g] = Upstream(r)[g]
    BY AtOnly
  <1> HIDE DEF staged
  <1>2. CASE Refreshes(r)
    <2>1. Index(r) = Overlay(staged, headTree[r])
      BY <1>2 DEF Index, staged
    <2>2. /\ DOMAIN Index(r) = DOMAIN staged \cup DOMAIN headTree[r]
          /\ \A g \in DOMAIN staged : Index(r)[g] = staged[g]
          /\ \A g \in DOMAIN headTree[r] \ DOMAIN staged : Index(r)[g] = headTree[r][g]
      <3> DEFINE tree == Overlay(staged, headTree[r])
      <3>1. /\ DOMAIN tree = DOMAIN staged \cup DOMAIN headTree[r]
            /\ \A g \in DOMAIN staged : tree[g] = staged[g]
            /\ \A g \in DOMAIN headTree[r] \ DOMAIN staged : tree[g] = headTree[r][g]
        BY AtOverlay
      <3> QED
        BY <2>1, <3>1
    <2> QED
      BY <1>1, <1>2, <2>2
  <1>3. CASE ~Refreshes(r)
    <2>1. Index(r) = headTree[r]
      BY <1>3 DEF Index
    <2> QED
      BY <1>3, <2>1
  <1> QED
    BY <1>2, <1>3

-----------------------------------------------------------------------------
(* Entries survive. *)

\* The push of a commit that kept what its run found, on the newest commit.
LEMMA PushKeepsEntries ==
    ASSUME Typed, Survival, NEW r \in Runners, pc[r] = "pushing",
           PushesBranch(r), ~Refused(r), BranchPushed(r)
    PROVE  EntriesSurvive'
  <1>0. Len(history) \in Nat /\ Len(history) > 0 /\ since[r] \in 1..Len(history)
    BY DEF Typed, HistoryTyped, CopyTyped
  <1>1. CASE ~own[r]
    <2>1. history' = history
      BY <1>1 DEF BranchPushed
    <2> QED
      BY <2>1 DEF Survival, EntriesSurvive, EntriesOf
  <1>2. CASE own[r]
    <2>1. /\ Len(history') = Len(history) + 1
          /\ \A i \in 1..Len(history) : history'[i] = history[i]
          /\ history'[Len(history')].tree = headTree[r]
          /\ history'[Len(history')].since = since[r]
      BY <1>2, HistoryGrows
    <2>2. head[r] = Len(history)
      BY DEF Refused
    <2>3. \A f \in Files :
             At(Base(r), f) \cap At(Remembered(r), f) \subseteq At(headTree[r], f)
      BY <1>2 DEF Survival, SurvivesIn, AfterPull
    <2>4. ASSUME NEW i \in 1..Len(history'), i > 1, NEW f \in Files
          PROVE  At(history'[i - 1].tree, f) \cap At(history'[history'[i].since].tree, f)
                     \subseteq At(history'[i].tree, f)
      <3>1. CASE i \in 1..Len(history)
        <4>1. i - 1 \in 1..Len(history) /\ history[i].since \in 1..Len(history)
          BY <1>0, <2>4, <3>1 DEF Typed, HistoryTyped
        <4>2. /\ history'[i] = history[i] /\ history'[i - 1] = history[i - 1]
              /\ history'[history'[i].since] = history[history[i].since]
          BY <2>1, <3>1, <4>1
        <4>3. At(history[i - 1].tree, f) \cap At(history[history[i].since].tree, f)
                  \subseteq At(history[i].tree, f)
          BY <2>4, <3>1 DEF Survival, EntriesSurvive, EntriesOf, At
        <4> QED
          BY <4>2, <4>3
      <3>2. CASE i = Len(history) + 1
        <4>1. i - 1 = Len(history) /\ i - 1 \in 1..Len(history) /\ i = Len(history')
          BY <1>0, <2>1, <3>2
        <4>2. history'[i - 1].tree = Base(r)
          BY <2>1, <2>2, <4>1 DEF Base
        <4>3. history'[history'[i].since].tree = Remembered(r)
          BY <1>0, <2>1, <4>1 DEF Remembered
        <4>4. history'[i].tree = headTree[r]
          BY <2>1, <4>1
        <4> QED
          BY <2>3, <4>2, <4>3, <4>4
      <3> QED
        BY <1>0, <2>1, <3>1, <3>2
    <2> QED
      BY <2>4 DEF EntriesSurvive, EntriesOf, At
  <1> QED
    BY <1>1, <1>2

LEMMA RefreshStages ==
    ASSUME Typed, NEW r \in Runners, SurvivesIn(r), Refresh(r)
    PROVE  SurvivesIn(r)'
  <1>1. /\ pc'[r] = "writing" /\ UNCHANGED <<history, head, fetched, headTree, own, since, config>>
    BY DEF Refresh, GoTo, shared, memory, Typed, MemoryTyped
  <1>2. fetched[r] = since[r] /\ headTree[r] = Base(r) /\ own[r] = FALSE
    BY DEF Refresh, SurvivesIn, BeforeCommit
  <1>3. /\ Glob(r)' = Glob(r) /\ Refreshes(r)' = Refreshes(r)
        /\ Base(r)' = Base(r) /\ Remembered(r)' = Remembered(r)
    BY <1>1 DEF Glob, Refreshes, PushesBranch, Base, Remembered
  <1>4. ASSUME Refreshes(r), NEW f \in Glob(r)
        PROVE  At(Remembered(r), f) \subseteq At(work'[r], f)
    <2> DEFINE staged == Only(Upstream(r), Glob(r))
               tree == Overlay(staged, work[r])
    <2>1. work'[r] = tree
      BY <1>4 DEF Refresh, Typed, CopyTyped
    <2>2. Upstream(r) = Remembered(r)
      BY <1>2 DEF Upstream, Remembered
    <2>3. /\ DOMAIN staged = DOMAIN Upstream(r) \cap Glob(r)
          /\ \A g \in DOMAIN Upstream(r) \cap Glob(r) : staged[g] = Upstream(r)[g]
      BY AtOnly
    <2>4. /\ DOMAIN tree = DOMAIN staged \cup DOMAIN work[r]
          /\ \A g \in DOMAIN staged : tree[g] = staged[g]
      BY AtOverlay
    <2> HIDE DEF staged, tree
    <2>5. CASE f \in DOMAIN Upstream(r)
      BY <2>1, <2>2, <2>3, <2>4, <2>5 DEF At
    <2>6. CASE f \notin DOMAIN Upstream(r)
      BY <2>2, <2>6 DEF At
    <2> QED
      BY <2>5, <2>6
  <1> QED
    BY <1>1, <1>2, <1>3, <1>4 DEF SurvivesIn, BeforeCommit, AfterPull

LEMMA CommitKeeps ==
    ASSUME Typed, NEW r \in Runners, SurvivesIn(r), Commit(r)
    PROVE  SurvivesIn(r)'
  <1>1. /\ pc[r] = "committing" /\ pc'[r] = "pulling"
        /\ UNCHANGED <<history, head, fetched, since, work, config>>
    BY DEF Commit, GoTo, shared, memory, Typed, MemoryTyped
  <1>2. /\ fetched[r] = since[r] /\ headTree[r] = Base(r) /\ own[r] = FALSE
        /\ ~config[r].dryRun
    BY <1>1 DEF SurvivesIn, BeforeCommit
  <1>3. /\ Glob(r)' = Glob(r) /\ PushesBranch(r)' = PushesBranch(r)
        /\ Base(r)' = Base(r) /\ Remembered(r)' = Remembered(r)
    BY <1>1 DEF Glob, PushesBranch, Base, Remembered
  <1>4. ASSUME own'[r], PushesBranch(r), NEW f \in Glob(r)
        PROVE  At(Remembered(r), f) \subseteq At(headTree'[r], f)
    <2>1. Refreshes(r)
      BY <1>2, <1>4 DEF Refreshes
    <2>2. At(Remembered(r), f) \subseteq At(work[r], f)
      BY <1>1, <2>1 DEF SurvivesIn
    <2>3. CASE f \in DOMAIN work[r]
      <3>1. f \in DOMAIN headTree'[r] /\ headTree'[r][f] = work[r][f]
        BY <1>2, <1>4, <2>3, AtCommit
      <3> QED
        BY <2>2, <2>3, <3>1 DEF At
    <2>4. CASE f \notin DOMAIN work[r]
      BY <2>2, <2>4 DEF At
    <2> QED
      BY <2>3, <2>4
  <1>5. ASSUME own'[r], NEW f \in Files \ Glob(r), f \in DOMAIN headTree'[r]
        PROVE  f \in DOMAIN Base(r) /\ headTree'[r][f] = Base(r)[f]
    <2>1. f \in DOMAIN Index(r) /\ headTree'[r][f] = Index(r)[f]
      BY <1>2, <1>5, AtCommit
    <2>2. f \in DOMAIN headTree[r] /\ Index(r)[f] = headTree[r][f]
      BY <1>5, <2>1, AtIndex
    <2> QED
      BY <1>2, <2>1, <2>2
  <1> QED
    BY <1>1, <1>2, <1>3, <1>4, <1>5 DEF SurvivesIn, BeforeCommit, AfterPull

LEMMA PullKeeps ==
    ASSUME Typed, NEW r \in Runners, SurvivesIn(r), Pull(r)
    PROVE  SurvivesIn(r)'
  <1>1. /\ pc[r] = "pulling" /\ pc'[r] = "taggingCommit"
        /\ UNCHANGED <<history, own, since, config>>
    BY DEF Pull, GoTo, shared, memory, Typed, MemoryTyped
  <1>2. ~config[r].dryRun
    BY <1>1 DEF SurvivesIn
  <1>3. PushesBranch(r)' = PushesBranch(r) /\ Remembered(r)' = Remembered(r)
    BY <1>1 DEF PushesBranch, Remembered
  <1>4. ASSUME own[r], PushesBranch(r), NEW f \in Files
        PROVE  At(Base(r)', f) \cap At(Remembered(r), f) \subseteq At(headTree'[r], f)
    <2> DEFINE tree == Rebased(Base(r), headTree[r], Newest)
    <2>1. headTree'[r] = tree /\ Base(r)' = Newest
      BY <1>1, <1>4 DEF Pull, Base, Newest, Typed, CopyTyped
    <2>2. /\ DOMAIN tree = DOMAIN headTree[r] \cup DOMAIN Newest
          /\ \A g \in DOMAIN headTree[r] \cup DOMAIN Newest :
                 tree[g] = IF \/ g \notin DOMAIN headTree[r]
                              \/ /\ g \in DOMAIN Base(r) \cap DOMAIN Newest
                                 /\ headTree[r][g] = Base(r)[g]
                           THEN Newest[g] ELSE headTree[r][g]
      BY DEF Rebased
    <2>3. /\ f \in Glob(r) => At(Remembered(r), f) \subseteq At(headTree[r], f)
          /\ f \notin Glob(r) /\ f \in DOMAIN headTree[r] =>
                 f \in DOMAIN Base(r) /\ headTree[r][f] = Base(r)[f]
      BY <1>1, <1>4 DEF SurvivesIn
    <2> HIDE DEF tree
    <2>4. CASE f \notin DOMAIN Newest
      BY <2>1, <2>4 DEF At
    <2>5. CASE f \in DOMAIN Newest
      <3>1. f \in DOMAIN tree
        BY <2>2, <2>5
      <3>2. CASE tree[f] = Newest[f]
        BY <2>1, <2>5, <3>1, <3>2 DEF At
      <3>3. CASE tree[f] # Newest[f]
        <4>1. f \in DOMAIN headTree[r] /\ tree[f] = headTree[r][f] /\ f \in Glob(r)
          BY <2>2, <2>3, <2>5, <3>3
        <4> QED
          BY <2>1, <2>3, <3>1, <4>1 DEF At
      <3> QED
        BY <3>2, <3>3
    <2> QED
      BY <2>4, <2>5
  <1> QED
    BY <1>1, <1>2, <1>3, <1>4 DEF SurvivesIn, BeforeCommit, AfterPull

LEMMA SurvivalNext ==
    ASSUME Typed, Survival, NEW r \in Runners, StepOf(r)
    PROVE  EntriesSurvive' /\ SurvivesIn(r)'
  <1> USE DEF GoTo, Ends, shared, copy, memory
  <1>0. /\ pc \in [Runners -> {"idle", "ended"} \cup Steps]
        /\ DOMAIN head = Runners /\ DOMAIN fetched = Runners /\ DOMAIN since = Runners
        /\ DOMAIN headTree = Runners /\ DOMAIN own = Runners /\ DOMAIN work = Runners
        /\ SurvivesIn(r)
    BY DEF Typed, CopyTyped, MemoryTyped, Survival
  <1>s. UNCHANGED history => EntriesSurvive'
    BY DEF Survival, EntriesSurvive, EntriesOf
  <1>c. /\ UNCHANGED config =>
               /\ Glob(r)' = Glob(r) /\ PushesBranch(r)' = PushesBranch(r)
               /\ Refreshes(r)' = Refreshes(r)
        /\ UNCHANGED <<history, head>> => Base(r)' = Base(r)
        /\ UNCHANGED <<history, since>> => Remembered(r)' = Remembered(r)
    BY DEF Glob, PushesBranch, Refreshes, Base, Remembered
  <1>1. ASSUME Start(r)
        PROVE  EntriesSurvive' /\ SurvivesIn(r)'
    <2>1. /\ pc'[r] = "refreshing" /\ UNCHANGED history
          /\ fetched'[r] = since'[r] /\ own'[r] = FALSE
      BY <1>0, <1>1 DEF Start
    <2>2. PICK h \in 1..Len(history) :
             /\ head' = [head EXCEPT ![r] = h]
             /\ headTree' = [headTree EXCEPT ![r] = history[h].tree]
      BY <1>1 DEF Start
    <2>3. headTree'[r] = history'[head'[r]].tree
      BY <1>0, <2>1, <2>2
    <2> QED
      BY <1>s, <2>1, <2>3 DEF SurvivesIn, BeforeCommit, AfterPull, Base
  <1>2. ASSUME Refresh(r)
        PROVE  EntriesSurvive' /\ SurvivesIn(r)'
    BY <1>0, <1>2, <1>s, RefreshStages DEF Refresh
  <1>3. ASSUME AllWritten(r)
        PROVE  EntriesSurvive' /\ SurvivesIn(r)'
    <2>1. UNCHANGED <<history, head, fetched, since, headTree, own, work, config>>
      BY <1>3 DEF AllWritten
    <2>2. pc[r] = "writing" /\ (pc'[r] = "announcing" \/ (pc'[r] = "tagging" /\ ~config[r].dryRun))
      <3>1. CASE config[r].dryRun
        BY <1>0, <1>3, <3>1 DEF AllWritten
      <3>2. CASE ~config[r].dryRun
        BY <1>0, <1>3, <3>2 DEF AllWritten
      <3> QED
        BY <3>1, <3>2
    <2> QED
      BY <1>0, <1>c, <1>s, <2>1, <2>2 DEF SurvivesIn, BeforeCommit, AfterPull
  <1>4. ASSUME NEW f \in Files, WriteEntry(r, f)
        PROVE  EntriesSurvive' /\ SurvivesIn(r)'
    <2>1. UNCHANGED <<history, head, fetched, since, headTree, own, config, pc>>
      BY <1>4 DEF WriteEntry
    <2>2. pc[r] = "writing" /\ work'[r] = Written(r, {f})
      BY <1>0, <1>4 DEF WriteEntry
    <2>3. \A g : At(work[r], g) \subseteq At(work'[r], g)
      BY <2>2, AtWritten
    <2> QED
      BY <1>0, <1>c, <1>s, <2>1, <2>2, <2>3 DEF SurvivesIn, BeforeCommit, AfterPull
  <1>5. ASSUME NEW f \in Files, WriteThrows(r, f)
        PROVE  EntriesSurvive' /\ SurvivesIn(r)'
    <2>1. pc'[r] = "ended" /\ UNCHANGED history
      BY <1>0, <1>5 DEF WriteThrows
    <2> QED
      BY <1>s, <2>1 DEF SurvivesIn, BeforeCommit, AfterPull
  <1>6. ASSUME Commit(r)
        PROVE  EntriesSurvive' /\ SurvivesIn(r)'
    BY <1>0, <1>6, <1>s, CommitKeeps DEF Commit
  <1>7. ASSUME Pull(r)
        PROVE  EntriesSurvive' /\ SurvivesIn(r)'
    BY <1>0, <1>7, <1>s, PullKeeps DEF Pull
  <1>8. ASSUME ValidatePush(r) \/ Publish(r)
        PROVE  EntriesSurvive' /\ SurvivesIn(r)'
    <2>1. UNCHANGED <<history, head, fetched, since, headTree, own, work, config>>
      BY <1>8 DEF ValidatePush, Publish
    <2>2. /\ pc[r] \in {"validating", "publishing"}
          /\ pc'[r] \in {"publishing", "pushing", "ended"}
      BY <1>0, <1>8 DEF ValidatePush, Publish
    <2> QED
      BY <1>0, <1>c, <1>s, <2>1, <2>2 DEF SurvivesIn, BeforeCommit, AfterPull
  <1>9. ASSUME PushBranch(r) \/ PushUnanswered(r)
        PROVE  EntriesSurvive' /\ SurvivesIn(r)'
    <2>1. pc[r] = "pushing" /\ pc'[r] \in {"pushingTags", "ended"}
      BY <1>0, <1>9 DEF PushBranch, PushUnanswered
    <2>2. UNCHANGED history \/ (PushesBranch(r) /\ ~Refused(r) /\ BranchPushed(r))
      BY <1>9 DEF PushBranch, PushUnanswered
    <2>3. EntriesSurvive'
      BY <1>s, <2>1, <2>2, PushKeepsEntries
    <2> QED
      BY <2>1, <2>3 DEF SurvivesIn, BeforeCommit, AfterPull
  <1>10. ASSUME PushTags(r) \/ (\E tag : Announce(r, tag)) \/ MissingTag(r) \/ Finish(r) \/ Stops(r)
        PROVE  EntriesSurvive' /\ SurvivesIn(r)'
    <2>1. pc'[r] \in {"announcing", "ended"} /\ UNCHANGED history
      BY <1>0, <1>10 DEF PushTags, Announce, MissingTag, Finish, Stops
    <2> QED
      BY <1>s, <2>1 DEF SurvivesIn, BeforeCommit, AfterPull
  <1>11. ASSUME MakeTags(r)
         PROVE  EntriesSurvive' /\ SurvivesIn(r)'
    BY <1>0, <1>11, <1>c, <1>s, TagsAreMade DEF SurvivesIn, BeforeCommit, AfterPull
  <1> QED
    BY <1>1, <1>2, <1>3, <1>4, <1>5, <1>6, <1>7, <1>8, <1>9, <1>10, <1>11 DEF StepOf

LEMMA NextIsAStep == Next => \E r \in Runners : StepOf(r)
  BY DEF Next, StepOf

\* What is in a changelog of the branch when a run starts is still there after
\* the run has pushed, for every interleaving of runs and every failure.
THEOREM ChangelogsAreKept == Spec => []EntriesSurvive
  <1>1. Init => Survival
    <2> SUFFICES ASSUME Init PROVE Survival
      OBVIOUS
    <2>1. EntriesSurvive
      BY DEF Init, EntriesSurvive
    <2> QED
      BY <2>1 DEF Init, Survival, SurvivesIn, BeforeCommit, AfterPull
  <1>2. ASSUME Typed, Survival, [Next]_vars
        PROVE  Survival'
    <2>1. ASSUME NEW r \in Runners, StepOf(r)
          PROVE  Survival'
      <3>1. \A q \in Runners \ {r} : SurvivesIn(q)'
        BY <1>2, <2>1, OthersSurvive DEF Survival
      <3>2. EntriesSurvive' /\ SurvivesIn(r)'
        BY <1>2, <2>1, SurvivalNext
      <3> QED
        BY <3>1, <3>2 DEF Survival
    <2>2. CASE UNCHANGED vars
      BY <1>2, <2>2 DEF vars, shared, copy, memory, Survival, SurvivesIn, EntriesSurvive,
         EntriesOf, Base, Remembered, Glob, Refreshes, PushesBranch
    <2> QED
      BY <1>2, <2>1, <2>2, NextIsAStep
  <1>3. Survival => EntriesSurvive
    BY DEF Survival
  <1> QED
    BY <1>1, <1>2, <1>3, TypesHold, PTL DEF Spec

-----------------------------------------------------------------------------
(* Entries are of releases. *)

NothingLeftBehind == FreshClone \/ Existing = Files

LEMMA TreesAreReleased ==
    ASSUME Provenance, NEW i \in 1..Len(history)
    PROVE  /\ Released(history[i].tree, {})
           /\ Existing = Files => DOMAIN history[i].tree = Files
  BY DEF Provenance, EntriesAreOfReleases, AllExist, Released

LEMMA PushOfReleases ==
    ASSUME Typed, Provenance, NEW r \in Runners, pc[r] = "pushing", run[r] \in released,
           PushesBranch(r), BranchPushed(r)
    PROVE  EntriesAreOfReleases' /\ AllExist'
  <1>0. Len(history) \in Nat /\ Len(history) > 0 /\ UNCHANGED released
    BY DEF Typed, HistoryTyped, BranchPushed
  <1>1. CASE ~own[r]
    <2>1. history' = history
      BY <1>1 DEF BranchPushed
    <2> QED
      BY <1>0, <2>1 DEF Provenance, EntriesAreOfReleases, AllExist
  <1>2. CASE own[r]
    <2>1. /\ Len(history') = Len(history) + 1
          /\ \A i \in 1..Len(history) : history'[i] = history[i]
          /\ history'[Len(history')].tree = headTree[r]
      BY <1>2, HistoryGrows
    <2>2. /\ Released(headTree[r], {run[r]})
          /\ Existing = Files => DOMAIN headTree[r] = Files
      BY <1>2 DEF Provenance, ProvenIn, AfterPull
    <2>3. ASSUME NEW i \in 1..Len(history')
          PROVE  /\ Released(history'[i].tree, {})
                 /\ Existing = Files => DOMAIN history'[i].tree = Files
      <3>1. CASE i \in 1..Len(history)
        BY <2>1, <3>1, TreesAreReleased
      <3>2. CASE i = Len(history')
        BY <2>1, <2>2, <3>2 DEF Released
      <3> QED
        BY <1>0, <2>1, <3>1, <3>2
    <2>4. ASSUME NEW i \in 1..Len(history'), NEW f \in DOMAIN history'[i].tree,
                 NEW e \in history'[i].tree[f]
          PROVE  e.run \in released'
      BY <1>0, <2>3 DEF Released
    <2>5. EntriesAreOfReleases'
      BY <2>4 DEF EntriesAreOfReleases
    <2> QED
      BY <2>3, <2>5 DEF AllExist
  <1> QED
    BY <1>1, <1>2

LEMMA RefreshProven ==
    ASSUME Typed, Survival, Provenance, NothingLeftBehind, NEW r \in Runners, Refresh(r)
    PROVE  ProvenIn(r)'
  <1>1. /\ pc[r] = "refreshing" /\ pc'[r] = "writing"
        /\ UNCHANGED <<history, fetched, released, run, config>>
    BY DEF Refresh, GoTo, shared, memory, Typed, MemoryTyped
  <1>2. Glob(r)' = Glob(r) /\ Refreshes(r)' = Refreshes(r)
    BY <1>1 DEF Glob, Refreshes, PushesBranch
  <1>3. /\ Released(Upstream(r), {})
        /\ Existing = Files => DOMAIN Upstream(r) = Files
    BY TreesAreReleased DEF Typed, CopyTyped, Upstream
  <1>4. ASSUME Refreshes(r), NEW f \in Glob(r), NEW e \in At(work'[r], f)
        PROVE  e.run \in released
    <2> DEFINE staged == Only(Upstream(r), Glob(r))
               tree == Overlay(staged, work[r])
    <2>1. work'[r] = tree
      BY <1>4 DEF Refresh, Typed, CopyTyped
    <2>2. /\ DOMAIN staged = DOMAIN Upstream(r) \cap Glob(r)
          /\ \A g \in DOMAIN Upstream(r) \cap Glob(r) : staged[g] = Upstream(r)[g]
      BY AtOnly
    <2>3. /\ DOMAIN tree = DOMAIN staged \cup DOMAIN work[r]
          /\ \A g \in DOMAIN staged : tree[g] = staged[g]
          /\ \A g \in DOMAIN work[r] \ DOMAIN staged : tree[g] = work[r][g]
      BY AtOverlay
    <2> HIDE DEF staged, tree
    <2>4. CASE f \in DOMAIN Upstream(r)
      BY <1>3, <1>4, <2>1, <2>2, <2>3, <2>4 DEF At, Released
    <2>5. CASE f \notin DOMAIN Upstream(r)
      <3>1. f \in Files
        BY Asked
      <3>2. Released(work[r], {})
        BY <1>1, <1>3, <2>5, <3>1 DEF NothingLeftBehind, Provenance, ProvenIn
      <3> QED
        BY <1>4, <2>1, <2>2, <2>3, <2>5, <3>2 DEF At, Released
    <2> QED
      BY <2>4, <2>5
  <1> QED
    BY <1>1, <1>2, <1>4 DEF ProvenIn, AfterPull

LEMMA CommitProven ==
    ASSUME Typed, Survival, Provenance, NEW r \in Runners, Commit(r)
    PROVE  ProvenIn(r)'
  <1>1. /\ pc[r] = "committing" /\ pc'[r] = "pulling"
        /\ UNCHANGED <<history, head, fetched, released, run, config>>
    BY DEF Commit, GoTo, shared, memory, Typed, MemoryTyped
  <1>2. /\ headTree[r] = Base(r) /\ own[r] = FALSE /\ ~config[r].dryRun
    BY <1>1 DEF Survival, SurvivesIn, BeforeCommit
  <1>3. PushesBranch(r)' = PushesBranch(r)
    BY <1>1 DEF PushesBranch
  <1>4. /\ Released(Upstream(r), {}) /\ Released(headTree[r], {})
        /\ Existing = Files => DOMAIN Upstream(r) = Files /\ DOMAIN headTree[r] = Files
    BY <1>2, TreesAreReleased DEF Typed, CopyTyped, Upstream, Base
  <1>5. ASSUME own'[r], PushesBranch(r), NEW f \in DOMAIN headTree'[r],
               NEW e \in headTree'[r][f]
        PROVE  e.run \in released \cup {run[r]}
    <2>1. CASE f \in Glob(r) \cap DOMAIN work[r]
      <3>1. Refreshes(r)
        BY <1>2, <1>5 DEF Refreshes
      <3>2. e \in At(work[r], f)
        BY <1>2, <1>5, <2>1, AtCommit DEF At
      <3> QED
        BY <1>1, <2>1, <3>1, <3>2 DEF Provenance, ProvenIn
    <2>2. CASE f \notin Glob(r) \cap DOMAIN work[r]
      <3>1. f \in DOMAIN Index(r) /\ headTree'[r][f] = Index(r)[f]
        BY <1>2, <1>5, <2>2, AtCommit
      <3>2. CASE Refreshes(r) /\ f \in DOMAIN Upstream(r) \cap Glob(r)
        BY <1>4, <1>5, <3>1, <3>2, AtIndex DEF Released
      <3>3. CASE ~(Refreshes(r) /\ f \in DOMAIN Upstream(r) \cap Glob(r))
        <4>1. Refreshes(r)
          BY <1>2, <1>5 DEF Refreshes
        <4>2. f \in DOMAIN headTree[r] /\ Index(r)[f] = headTree[r][f]
          BY <3>1, <3>3, <4>1, AtIndex
        <4> QED
          BY <1>4, <1>5, <3>1, <4>2 DEF Released
      <3> QED
        BY <3>2, <3>3
    <2> QED
      BY <2>1, <2>2
  <1>6. ASSUME own'[r], Existing = Files
        PROVE  DOMAIN headTree'[r] = Files
    <2>1. DOMAIN headTree'[r] = DOMAIN Index(r) \cup (Glob(r) \cap DOMAIN work[r])
      BY <1>2, <1>6, AtCommit
    <2>2. DOMAIN Index(r) = Files
      BY <1>4, <1>6, AtIndex
    <2> QED
      BY <2>1, <2>2, Asked
  <1> QED
    BY <1>1, <1>3, <1>5, <1>6 DEF ProvenIn, Released, AfterPull

LEMMA PullProven ==
    ASSUME Typed, Provenance, NEW r \in Runners, Pull(r)
    PROVE  ProvenIn(r)'
  <1>1. /\ pc[r] = "pulling" /\ pc'[r] = "taggingCommit"
        /\ UNCHANGED <<history, own, released, run, config>>
    BY DEF Pull, GoTo, shared, memory, Typed, MemoryTyped
  <1>2. PushesBranch(r)' = PushesBranch(r)
    BY <1>1 DEF PushesBranch
  <1>3. /\ Released(Newest, {})
        /\ Existing = Files => DOMAIN Newest = Files
    <2>1. Len(history) \in 1..Len(history)
      BY DEF Typed, HistoryTyped
    <2> QED
      BY <2>1, TreesAreReleased DEF Newest
  <1>4. ASSUME own[r], PushesBranch(r)
        PROVE  /\ \A f \in DOMAIN headTree'[r] : \A e \in headTree'[r][f] :
                      e.run \in released \cup {run[r]}
               /\ Existing = Files => DOMAIN headTree'[r] = Files
    <2> DEFINE tree == Rebased(Base(r), headTree[r], Newest)
    <2>1. headTree'[r] = tree
      BY <1>4 DEF Pull, Base, Typed, CopyTyped
    <2>2. /\ DOMAIN tree = DOMAIN headTree[r] \cup DOMAIN Newest
          /\ \A g \in DOMAIN tree :
                 \/ g \in DOMAIN headTree[r] /\ tree[g] = headTree[r][g]
                 \/ g \in DOMAIN Newest /\ tree[g] = Newest[g]
      BY DEF Rebased
    <2>3. /\ Released(headTree[r], {run[r]})
          /\ Existing = Files => DOMAIN headTree[r] = Files
      BY <1>1, <1>4 DEF Provenance, ProvenIn
    <2> HIDE DEF tree
    <2>4. ASSUME NEW f \in DOMAIN tree, NEW e \in tree[f]
          PROVE  e.run \in released \cup {run[r]}
      BY <1>3, <2>2, <2>3, <2>4 DEF Released
    <2> QED
      BY <1>3, <2>1, <2>2, <2>3, <2>4
  <1> QED
    BY <1>1, <1>2, <1>4 DEF ProvenIn, Released, AfterPull

LEMMA ProvenanceNext ==
    ASSUME Typed, Availability, Survival, Provenance, NothingLeftBehind,
           NEW r \in Runners, StepOf(r)
    PROVE  EntriesAreOfReleases' /\ AllExist' /\ ProvenIn(r)'
  <1> USE DEF GoTo, Ends, shared, copy, memory
  <1> DEFINE Goal == EntriesAreOfReleases' /\ AllExist' /\ ProvenIn(r)'
  <1>0. /\ pc \in [Runners -> {"idle", "ended"} \cup Steps]
        /\ DOMAIN headTree = Runners /\ DOMAIN own = Runners /\ DOMAIN work = Runners
        /\ DOMAIN run = Runners /\ ProvenIn(r)
    BY DEF Typed, CopyTyped, MemoryTyped, Provenance
  <1>s. ASSUME UNCHANGED history, released \subseteq released'
        PROVE  EntriesAreOfReleases' /\ AllExist'
    BY <1>s DEF Provenance, EntriesAreOfReleases, AllExist
  <1>c. UNCHANGED config =>
            /\ Glob(r)' = Glob(r) /\ PushesBranch(r)' = PushesBranch(r)
            /\ Refreshes(r)' = Refreshes(r)
    BY DEF Glob, PushesBranch, Refreshes
  <1>1. ASSUME Start(r)
        PROVE  Goal
    <2>1. pc'[r] = "refreshing" /\ UNCHANGED <<history, released>>
      BY <1>0, <1>1 DEF Start
    <2>2. ASSUME FreshClone
          PROVE  Released(work[r], {})'
      <3>1. PICK h \in 1..Len(history) : work' = [work EXCEPT ![r] =
                  IF FreshClone THEN history[h].tree
                  ELSE Overlay(Uncommitted(r), history[h].tree)]
        BY <1>1 DEF Start
      <3>2. work'[r] = history[h].tree
        BY <1>0, <2>2, <3>1
      <3> QED
        BY <2>1, <3>2, TreesAreReleased DEF Released
    <2> QED
      BY <1>s, <2>1, <2>2 DEF ProvenIn, AfterPull, Released
  <1>2. ASSUME Refresh(r)
        PROVE  Goal
    BY <1>2, <1>s, RefreshProven DEF Refresh
  <1>3. ASSUME AllWritten(r)
        PROVE  Goal
    <2>1. /\ UNCHANGED <<history, released, headTree, own, work, run, config>>
          /\ pc[r] = "writing" /\ pc'[r] \in {"announcing", "tagging"}
      BY <1>0, <1>3 DEF AllWritten
    <2> QED
      BY <1>0, <1>c, <1>s, <2>1 DEF ProvenIn, AfterPull
  <1>4. ASSUME NEW f \in Files, WriteEntry(r, f)
        PROVE  Goal
    <2>1. /\ UNCHANGED <<history, released, headTree, own, run, config, pc>>
          /\ pc[r] = "writing" /\ work'[r] = Written(r, {f})
      BY <1>0, <1>4 DEF WriteEntry
    <2>2. \A g : At(work'[r], g) \subseteq At(work[r], g) \cup {EntryFor(r, g)}
      BY <2>1, AtWritten
    <2>3. \A g : EntryFor(r, g).run = run[r]
      BY DEF EntryFor
    <2> QED
      BY <1>0, <1>c, <1>s, <2>1, <2>2, <2>3 DEF ProvenIn, AfterPull
  <1>5. ASSUME NEW f \in Files, WriteThrows(r, f)
        PROVE  Goal
    <2>1. pc'[r] = "ended" /\ UNCHANGED <<history, released>>
      BY <1>0, <1>5 DEF WriteThrows
    <2> QED
      BY <1>s, <2>1 DEF ProvenIn, AfterPull
  <1>6. ASSUME Commit(r)
        PROVE  Goal
    BY <1>6, <1>s, CommitProven DEF Commit
  <1>7. ASSUME Pull(r)
        PROVE  Goal
    BY <1>7, <1>s, PullProven DEF Pull
  <1>8. ASSUME ValidatePush(r) \/ Publish(r)
        PROVE  Goal
    <2>1. /\ UNCHANGED <<history, headTree, own, run, config>>
          /\ released \subseteq released'
          /\ pc[r] \in {"validating", "publishing"}
          /\ pc'[r] \in {"publishing", "pushing", "ended"}
      BY <1>0, <1>8 DEF ValidatePush, Publish
    <2> QED
      BY <1>0, <1>c, <1>s, <2>1 DEF ProvenIn, AfterPull, Released
  <1>9. ASSUME PushBranch(r) \/ PushUnanswered(r)
        PROVE  Goal
    <2>1. pc[r] = "pushing" /\ pc'[r] \in {"pushingTags", "ended"}
      BY <1>0, <1>9 DEF PushBranch, PushUnanswered
    <2>2. \/ UNCHANGED <<history, released>>
          \/ PushesBranch(r) /\ BranchPushed(r)
      BY <1>9 DEF PushBranch, PushUnanswered
    <2>3. run[r] \in released
      BY <2>1 DEF Availability
    <2>4. EntriesAreOfReleases' /\ AllExist'
      BY <1>s, <2>1, <2>2, <2>3, PushOfReleases
    <2> QED
      BY <2>1, <2>4 DEF ProvenIn, AfterPull
  <1>10. ASSUME PushTags(r) \/ (\E tag : Announce(r, tag)) \/ MissingTag(r) \/ Finish(r) \/ Stops(r)
        PROVE  Goal
    <2>1. pc'[r] \in {"announcing", "ended"} /\ UNCHANGED <<history, released>>
      BY <1>0, <1>10 DEF PushTags, Announce, MissingTag, Finish, Stops
    <2> QED
      BY <1>s, <2>1 DEF ProvenIn, AfterPull
  <1>11. ASSUME MakeTags(r)
         PROVE  Goal
    <2>1. /\ UNCHANGED <<history, released, headTree, own, work, run, config>>
          /\ \/ pc[r] = "tagging" /\ pc'[r] = "committing"
             \/ pc[r] = "taggingCommit" /\ pc'[r] = "validating"
      BY <1>11, TagsAreMade
    <2> QED
      BY <1>0, <1>c, <1>s, <2>1 DEF ProvenIn, AfterPull, Released
  <1> QED
    BY <1>1, <1>2, <1>3, <1>4, <1>5, <1>6, <1>7, <1>8, <1>9, <1>10, <1>11 DEF StepOf

\* The changelogs of the branch have entries of released versions only, if every
\* run gets a clone of its own or all changelogs have been on the branch before.
THEOREM EntriesHaveReleases ==
    ASSUME NothingLeftBehind
    PROVE  Spec => []EntriesAreOfReleases
  <1>1. Init => Survival /\ Availability
    BY AvailabilityInit
    DEF Init, Survival, EntriesSurvive, SurvivesIn, BeforeCommit, AfterPull
  <1>2. Init => Provenance
    <2> SUFFICES ASSUME Init PROVE Provenance
      OBVIOUS
    <2>1. Len(history) = 1 /\ history[1].tree = [f \in Existing |-> {}]
      BY DEF Init
    <2> QED
      BY <2>1 DEF Init, Provenance, EntriesAreOfReleases, AllExist, ProvenIn, AfterPull
  <1>3. ASSUME Typed, Typed', Availability, Survival, Provenance, [Next]_vars
        PROVE  Availability' /\ Survival' /\ Provenance'
    <2>1. Availability'
      BY <1>3, AvailabilityNext
    <2>2. ASSUME NEW r \in Runners, StepOf(r)
          PROVE  Survival' /\ Provenance'
      <3>1. \A q \in Runners \ {r} : SurvivesIn(q)' /\ ProvenIn(q)'
        BY <1>3, <2>2, OthersSurvive, OthersProven DEF Survival, Provenance
      <3>2. EntriesSurvive' /\ SurvivesIn(r)'
        BY <1>3, <2>2, SurvivalNext
      <3>3. EntriesAreOfReleases' /\ AllExist' /\ ProvenIn(r)'
        BY <1>3, <2>2, ProvenanceNext
      <3> QED
        BY <3>1, <3>2, <3>3 DEF Survival, Provenance
    <2>3. ASSUME UNCHANGED vars
          PROVE  Survival' /\ Provenance'
      BY <1>3, <2>3 DEF vars, shared, copy, memory, Survival, SurvivesIn, EntriesSurvive,
         EntriesOf, Base, Remembered, Glob, Refreshes, PushesBranch, Provenance,
         EntriesAreOfReleases, AllExist, ProvenIn, Released
    <2> QED
      BY <1>3, <2>1, <2>2, <2>3, NextIsAStep
  <1>4. Provenance => EntriesAreOfReleases
    BY DEF Provenance
  <1> QED
    BY <1>1, <1>2, <1>3, <1>4, TypesHold, PTL DEF Spec

-----------------------------------------------------------------------------
(* Successful runs are logged. *)

BeforePush == BeforeCommit \cup AfterPull \cup {"pulling"}

\* No changelog of the tree has an entry of run n.
Free(t, n) == \A f \in DOMAIN t : \A e \in t[f] : e.run # n

BranchFree(n)  == \A i \in 1..Len(history) : Free(history[i].tree, n)
CopyFree(r, n) == Free(headTree[r], n) /\ Free(work[r], n)

FreshIn(r) == pc[r] \in BeforePush =>
    BranchFree(run[r]) /\ \A q \in Runners \ {r} : CopyFree(q, run[r])

\* Runs have numbers of their own, later ones are nowhere, and that of a run
\* which has not pushed is in no other copy and not on the branch.
NumbersAreFresh ==
    /\ \A q, r \in Runners : q # r /\ run[q] = run[r] => run[r] = 0
    /\ \A n \in Nat : n > lastRun =>
           BranchFree(n) /\ \A r \in Runners : CopyFree(r, n)
    /\ \A r \in Runners : FreshIn(r)

Logs(t, r, S) == \A f \in S : EntryFor(r, f) \in At(t, f)

\* How the entries of a run come to the branch: written, committed, kept by the
\* rebase, where they make the changelog differ from the base, and pushed.
LoggedIn(r) == Refreshes(r) =>
    /\ pc[r] = "writing" => Logs(work[r], r, FilesToWrite(r) \ todo[r])
    /\ pc[r] \in {"tagging", "committing"} => Logs(work[r], r, FilesToWrite(r))
    /\ pc[r] \in AfterPull \cup {"pulling"} =>
           /\ FilesToWrite(r) # {} => own[r]
           /\ Logs(headTree[r], r, FilesToWrite(r))
    /\ pc[r] \in {"pushingTags", "announcing"} \/ outcome[r] = "success" =>
           \E i \in 1..Len(history) : Logs(history[i].tree, r, FilesToWrite(r))

LEMMA FreeOnly ==
    ASSUME NEW t, NEW S, NEW n, Free(t, n)
    PROVE  Free(Only(t, S), n)
  <1> DEFINE tree == Only(t, S)
  <1>1. DOMAIN tree = DOMAIN t \cap S /\ \A f \in DOMAIN t \cap S : tree[f] = t[f]
    BY AtOnly
  <1> HIDE DEF tree
  <1>2. Free(tree, n)
    BY <1>1 DEF Free
  <1> QED
    BY <1>2 DEF tree

LEMMA FreeOverlay ==
    ASSUME NEW over, NEW under, NEW n, Free(over, n), Free(under, n)
    PROVE  Free(Overlay(over, under), n)
  <1> DEFINE tree == Overlay(over, under)
  <1>1. /\ DOMAIN tree = DOMAIN over \cup DOMAIN under
        /\ \A f \in DOMAIN over : tree[f] = over[f]
        /\ \A f \in DOMAIN under \ DOMAIN over : tree[f] = under[f]
    BY AtOverlay
  <1> HIDE DEF tree
  <1>2. Free(tree, n)
    BY <1>1 DEF Free
  <1> QED
    BY <1>2 DEF tree

LEMMA FreeRebased ==
    ASSUME NEW b, NEW ours, NEW upstream, NEW n, Free(ours, n), Free(upstream, n)
    PROVE  Free(Rebased(b, ours, upstream), n)
  <1> DEFINE tree == Rebased(b, ours, upstream)
  <1>1. /\ DOMAIN tree = DOMAIN ours \cup DOMAIN upstream
        /\ \A f \in DOMAIN tree :
               \/ f \in DOMAIN ours /\ tree[f] = ours[f]
               \/ f \in DOMAIN upstream /\ tree[f] = upstream[f]
    BY DEF Rebased
  <1> HIDE DEF tree
  <1>2. Free(tree, n)
    BY <1>1 DEF Free
  <1> QED
    BY <1>2 DEF tree

LEMMA FreeWritten ==
    ASSUME NEW r, NEW S, NEW n, n # run[r], Free(work[r], n)
    PROVE  Free(Written(r, S), n)
  <1> DEFINE tree == Written(r, S)
  <1>1. \A f : At(tree, f) \subseteq At(work[r], f) \cup {EntryFor(r, f)}
    BY AtWritten
  <1>2. \A f : EntryFor(r, f).run = run[r]
    BY DEF EntryFor
  <1> HIDE DEF tree
  <1>3. Free(tree, n)
    BY <1>1, <1>2 DEF Free, At
  <1> QED
    BY <1>3 DEF tree

\* A step of a runner brings no entry of another run that is not yet on the
\* branch or in its copy.
LEMMA StepsAddOwnEntries ==
    ASSUME Typed, NEW r \in Runners, StepOf(r), NEW n, n # run[r],
           BranchFree(n), CopyFree(r, n)
    PROVE  BranchFree(n)' /\ CopyFree(r, n)'
  <1> USE DEF GoTo, Ends, shared, copy, memory
  <1>0. /\ DOMAIN headTree = Runners /\ DOMAIN work = Runners
        /\ Len(history) \in Nat /\ Len(history) > 0
        /\ head[r] \in 1..Len(history) /\ fetched[r] \in 1..Len(history)
    BY DEF Typed, HistoryTyped, CopyTyped
  <1>1. /\ Free(Upstream(r), n) /\ Free(Newest, n)
        /\ Free(headTree[r], n) /\ Free(work[r], n)
    BY <1>0 DEF BranchFree, CopyFree, Upstream, Newest
  <1>2. Free(Only(Upstream(r), Glob(r)), n)
    BY <1>1, FreeOnly
  <1>s. UNCHANGED <<history, headTree, work>> => BranchFree(n)' /\ CopyFree(r, n)'
    BY DEF BranchFree, CopyFree
  <1>h. UNCHANGED history => BranchFree(n)'
    BY DEF BranchFree
  <1>3. ASSUME Start(r)
        PROVE  BranchFree(n)' /\ CopyFree(r, n)'
    <2>1. PICK h \in 1..Len(history) :
             /\ headTree' = [headTree EXCEPT ![r] = history[h].tree]
             /\ work' = [work EXCEPT ![r] =
                    IF FreshClone THEN history[h].tree
                    ELSE Overlay(Uncommitted(r), history[h].tree)]
      BY <1>3 DEF Start
    <2>2. Free(history[h].tree, n)
      BY DEF BranchFree
    <2>3. Free(Overlay(Uncommitted(r), history[h].tree), n)
      BY <1>1, <2>2, FreeOnly, FreeOverlay DEF Uncommitted
    <2>4. Free(headTree'[r], n) /\ Free(work'[r], n)
      BY <1>0, <2>1, <2>2, <2>3
    <2> QED
      BY <1>3, <1>h, <2>4 DEF Start, CopyFree
  <1>4. ASSUME Refresh(r)
        PROVE  BranchFree(n)' /\ CopyFree(r, n)'
    <2>1. Free(Overlay(Only(Upstream(r), Glob(r)), work[r]), n)
      BY <1>1, <1>2, FreeOverlay
    <2>2. Free(work'[r], n)
      BY <1>0, <1>1, <1>4, <2>1 DEF Refresh
    <2> QED
      BY <1>1, <1>4, <1>h, <2>2 DEF Refresh, CopyFree
  <1>5. ASSUME NEW f \in Files, WriteEntry(r, f) \/ WriteThrows(r, f)
        PROVE  BranchFree(n)' /\ CopyFree(r, n)'
    <2>1. PICK S : work'[r] = Written(r, S)
      BY <1>0, <1>5 DEF WriteEntry, WriteThrows
    <2>2. Free(work'[r], n)
      BY <1>1, <2>1, FreeWritten
    <2> QED
      BY <1>1, <1>5, <1>h, <2>2 DEF WriteEntry, WriteThrows, CopyFree
  <1>6. ASSUME Commit(r)
        PROVE  BranchFree(n)' /\ CopyFree(r, n)'
    <2> DEFINE files == {g \in Glob(r) \cap DOMAIN work[r] :
                            g \in DOMAIN Index(r) => work[r][g] # Index(r)[g]}
    <2>1. Free(Index(r), n)
      BY <1>1, <1>2, FreeOverlay DEF Index
    <2>2. Free(Overlay(Only(work[r], files), Index(r)), n)
      BY <1>1, <2>1, FreeOnly, FreeOverlay
    <2>3. headTree'[r] \in {headTree[r], Overlay(Only(work[r], files), Index(r))}
      BY <1>0, <1>6 DEF Commit
    <2>4. Free(headTree'[r], n)
      BY <1>1, <2>2, <2>3
    <2> QED
      BY <1>1, <1>6, <1>h, <2>4 DEF Commit, CopyFree
  <1>7. ASSUME Pull(r)
        PROVE  BranchFree(n)' /\ CopyFree(r, n)'
    <2>1. CASE ~PushesBranch(r)
      BY <1>7, <1>s, <2>1 DEF Pull
    <2>2. CASE PushesBranch(r)
      <3> DEFINE pulled == IF own[r] THEN Rebased(history[head[r]].tree, headTree[r], Newest)
                           ELSE Newest
      <3>1. Free(pulled, n)
        BY <1>1, FreeRebased
      <3>2. headTree'[r] = pulled /\ work'[r] = Rebased(headTree[r], work[r], pulled)
        BY <1>0, <1>7, <2>2 DEF Pull
      <3> HIDE DEF pulled
      <3>3. Free(headTree'[r], n) /\ Free(work'[r], n)
        BY <1>1, <3>1, <3>2, FreeRebased
      <3> QED
        BY <1>7, <1>h, <3>3 DEF Pull, CopyFree
    <2> QED
      BY <2>1, <2>2
  <1>8. ASSUME PushBranch(r) \/ PushUnanswered(r)
        PROVE  BranchFree(n)' /\ CopyFree(r, n)'
    <2>1. UNCHANGED <<history, headTree, work>> \/ BranchPushed(r)
      BY <1>8 DEF PushBranch, PushUnanswered
    <2>2. CASE BranchPushed(r)
      <3>1. /\ Len(history') \in Nat
            /\ Len(history') = IF own[r] THEN Len(history) + 1 ELSE Len(history)
            /\ \A i \in 1..Len(history) : history'[i] = history[i]
            /\ own[r] => history'[Len(history')].tree = headTree[r]
        BY <2>2, HistoryGrows
      <3>2. BranchFree(n)'
        BY <1>0, <1>1, <3>1 DEF BranchFree
      <3> QED
        BY <2>2, <3>2 DEF BranchPushed, CopyFree
    <2> QED
      BY <1>s, <2>1, <2>2
  <1>9. ASSUME \/ AllWritten(r) \/ ValidatePush(r) \/ Publish(r) \/ PushTags(r)
               \/ (\E tag : Announce(r, tag)) \/ MissingTag(r) \/ Finish(r) \/ Stops(r)
        PROVE  UNCHANGED <<history, headTree, work>>
    BY <1>9 DEF AllWritten, ValidatePush, Publish, PushTags, Announce, MissingTag, Finish, Stops
  <1>10. ASSUME MakeTags(r)
         PROVE  UNCHANGED <<history, headTree, work>>
    BY <1>10, TagsAreMade
  <1> QED
    BY <1>3, <1>4, <1>5, <1>6, <1>7, <1>8, <1>9, <1>10, <1>s DEF StepOf

\* The numbers stay fresh: a new run takes the next one, and one that has not
\* pushed keeps its entries to its own copy.
LEMMA NumbersNext ==
    ASSUME Typed, NumbersAreFresh, NEW r \in Runners, StepOf(r)
    PROVE  NumbersAreFresh'
  <1> USE DEF GoTo, Ends, shared, copy, memory
  <1>0. /\ pc \in [Runners -> {"idle", "ended"} \cup Steps] /\ DOMAIN run = Runners
        /\ lastRun \in Nat /\ \A q \in Runners : run[q] \in 0..lastRun
        /\ \A q \in Runners : pc[q] \in Steps => run[q] > 0
    BY ChangelogAssumption DEF Typed, MemoryTyped, ChangelogAssumption
  <1>1. Grows /\ OthersStay(r)
    BY OneMoves
  <1>2. BeforePush \subseteq Steps
    BY DEF BeforePush, BeforeCommit, AfterPull, Steps
  <1>3. \/ Start(r)
        \/ /\ lastRun' = lastRun /\ run' = run
           /\ pc'[r] \in BeforePush => pc[r] \in BeforePush /\ history' = history
    <2>1. CASE Refresh(r) \/ Commit(r) \/ Pull(r) \/ ValidatePush(r) \/ Publish(r)
      BY <1>0, <2>1 DEF Refresh, Commit, Pull, ValidatePush, Publish, BeforePush,
         BeforeCommit, AfterPull
    <2>2. CASE AllWritten(r)
      BY <1>0, <2>2 DEF AllWritten, BeforePush, BeforeCommit
    <2>3. CASE \E f \in Files : WriteEntry(r, f) \/ WriteThrows(r, f)
      BY <1>0, <2>3 DEF WriteEntry, WriteThrows, BeforePush, BeforeCommit, AfterPull
    <2>4. CASE PushBranch(r) \/ PushUnanswered(r)
      <3>1. pc'[r] \in {"pushingTags", "ended"} /\ lastRun' = lastRun /\ run' = run
        BY <1>0, <2>4 DEF PushBranch, PushUnanswered
      <3> QED
        BY <3>1 DEF BeforePush, BeforeCommit, AfterPull
    <2>5. CASE PushTags(r) \/ (\E tag : Announce(r, tag)) \/ MissingTag(r) \/ Finish(r) \/ Stops(r)
      <3>1. pc'[r] \in {"announcing", "ended"} /\ lastRun' = lastRun /\ run' = run
        BY <1>0, <2>5 DEF PushTags, Announce, MissingTag, Finish, Stops
      <3> QED
        BY <3>1 DEF BeforePush, BeforeCommit, AfterPull
    <2>6. CASE MakeTags(r)
      BY <2>6, TagsAreMade DEF BeforePush, BeforeCommit, AfterPull
    <2> QED
      BY <2>1, <2>2, <2>3, <2>4, <2>5, <2>6 DEF StepOf
  <1>4. Start(r) => /\ lastRun' = lastRun + 1 /\ run'[r] = lastRun' /\ history' = history
    BY <1>0 DEF Start
  <1>5. \A q \in Runners \ {r} : run'[q] = run[q] /\ pc'[q] = pc[q]
    BY <1>1 DEF OthersStay
  <1>6. \A q, p \in Runners : q # p /\ run'[q] = run'[p] => run'[p] = 0
    <2>1. CASE Start(r)
      BY <1>0, <1>4, <1>5, <2>1 DEF NumbersAreFresh
    <2>2. CASE run' = run
      BY <2>2 DEF NumbersAreFresh
    <2> QED
      BY <1>3, <2>1, <2>2
  <1>7. ASSUME NEW n \in Nat, n > lastRun'
        PROVE  BranchFree(n)' /\ \A q \in Runners : CopyFree(q, n)'
    <2>1. n > lastRun /\ n # run[r]
      BY <1>0, <1>3, <1>4, <1>7
    <2>2. BranchFree(n) /\ \A q \in Runners : CopyFree(q, n)
      BY <2>1 DEF NumbersAreFresh
    <2>3. BranchFree(n)' /\ CopyFree(r, n)'
      BY <2>1, <2>2, StepsAddOwnEntries
    <2>4. \A q \in Runners \ {r} : CopyFree(q, n)'
      BY <1>1, <2>2 DEF OthersStay, CopyFree
    <2> QED
      BY <2>3, <2>4
  <1>8. ASSUME NEW q \in Runners \ {r}, pc'[q] \in BeforePush
        PROVE  FreshIn(q)'
    <2>1. PICK n \in Nat : n = run[q]
      BY <1>0
    <2>2. run'[q] = n /\ n # run[r] /\ pc[q] \in BeforePush
      BY <1>0, <1>2, <1>5, <1>8, <2>1 DEF NumbersAreFresh
    <2>3. BranchFree(n) /\ \A p \in Runners \ {q} : CopyFree(p, n)
      BY <2>1, <2>2 DEF NumbersAreFresh, FreshIn
    <2>4. BranchFree(n)' /\ CopyFree(r, n)'
      BY <2>2, <2>3, StepsAddOwnEntries
    <2>5. \A p \in Runners \ {q, r} : CopyFree(p, n)'
      BY <1>1, <2>3 DEF OthersStay, CopyFree
    <2> QED
      BY <2>2, <2>4, <2>5 DEF FreshIn, BranchFree, CopyFree
  <1>9. ASSUME pc'[r] \in BeforePush
        PROVE  FreshIn(r)'
    <2>1. PICK n \in Nat : n = run'[r]
      BY <1>0, <1>3, <1>4
    <2>2. history' = history /\ BranchFree(n) /\ \A p \in Runners \ {r} : CopyFree(p, n)
      <3>1. CASE Start(r)
        BY <1>0, <1>4, <2>1, <3>1 DEF NumbersAreFresh
      <3>2. CASE ~Start(r)
        BY <1>3, <1>9, <2>1, <3>2 DEF NumbersAreFresh, FreshIn
      <3> QED
        BY <3>1, <3>2
    <2>3. BranchFree(n)' /\ \A p \in Runners \ {r} : CopyFree(p, n)'
      BY <1>1, <2>2 DEF OthersStay, CopyFree, BranchFree
    <2> QED
      BY <2>1, <2>3 DEF FreshIn, BranchFree, CopyFree
  <1>10. \A q \in Runners : FreshIn(q)'
    BY <1>8, <1>9 DEF FreshIn
  <1> QED
    BY <1>6, <1>7, <1>10 DEF NumbersAreFresh

\* What the changeset asks for stays the same for the whole run.
LEMMA AskedTheSame ==
    ASSUME NEW r, config'[r] = config[r], noted'[r] = noted[r], run'[r] = run[r]
    PROVE  /\ Refreshes(r)' = Refreshes(r) /\ PushesBranch(r)' = PushesBranch(r)
           /\ Glob(r)' = Glob(r) /\ FilesToWrite(r)' = FilesToWrite(r)
           /\ \A f : EntryFor(r, f)' = EntryFor(r, f)
  <1>1. \A p : FileOf(r, p)' = FileOf(r, p)
    BY DEF FileOf
  <1>2. Glob(r)' = Glob(r)
    BY DEF Glob
  <1>3. FilesToWrite(r)' = FilesToWrite(r)
    BY <1>1, <1>2 DEF FilesToWrite
  <1>4. \A f : EntryFor(r, f)' = EntryFor(r, f)
    BY <1>1 DEF EntryFor
  <1> QED
    BY <1>2, <1>3, <1>4 DEF Refreshes, PushesBranch

LEMMA OthersLog ==
    ASSUME Typed, NEW r \in Runners, StepOf(r), NEW q \in Runners \ {r}, LoggedIn(q)
    PROVE  LoggedIn(q)'
  <1>1. Grows /\ OthersStay(r)
    BY OneMoves
  <1>2. /\ Refreshes(q)' = Refreshes(q) /\ FilesToWrite(q)' = FilesToWrite(q)
        /\ \A f : EntryFor(q, f)' = EntryFor(q, f)
    BY <1>1, AskedTheSame DEF Grows, OthersStay
  <1>3. /\ pc'[q] = pc[q] /\ outcome'[q] = outcome[q] /\ todo'[q] = todo[q]
        /\ headTree'[q] = headTree[q] /\ work'[q] = work[q] /\ own'[q] = own[q]
    BY <1>1 DEF OthersStay
  <1>4. \A i \in 1..Len(history) : i \in 1..Len(history') /\ history'[i] = history[i]
    BY <1>1 DEF Grows
  <1> QED
    BY <1>2, <1>3, <1>4 DEF LoggedIn, Logs

\* An entry of the run is new to HEAD and to what the refresh has staged, so the
\* changelog differs from the index and is committed.
LEMMA CommitLogs ==
    ASSUME Typed, NumbersAreFresh, NEW r \in Runners, SurvivesIn(r), LoggedIn(r), Commit(r)
    PROVE  LoggedIn(r)'
  <1>1. /\ pc[r] = "committing" /\ pc'[r] = "pulling"
        /\ UNCHANGED <<history, work, config, noted, run, outcome>>
    BY DEF Commit, GoTo, shared, memory, Typed, MemoryTyped
  <1>2. /\ Refreshes(r)' = Refreshes(r) /\ FilesToWrite(r)' = FilesToWrite(r)
        /\ \A f : EntryFor(r, f)' = EntryFor(r, f)
    BY <1>1, AskedTheSame
  <1>3. headTree[r] = Base(r) /\ own[r] = FALSE
    BY <1>1 DEF SurvivesIn, BeforeCommit
  <1>4. head[r] \in 1..Len(history) /\ fetched[r] \in 1..Len(history)
    BY DEF Typed, CopyTyped
  <1>5. BranchFree(run[r])
    BY <1>1 DEF NumbersAreFresh, FreshIn, BeforePush, BeforeCommit
  <1>6. Free(Index(r), run[r])
    <2>1. Free(headTree[r], run[r]) /\ Free(Upstream(r), run[r])
      BY <1>3, <1>4, <1>5 DEF BranchFree, Base, Upstream
    <2>2. Free(Only(Upstream(r), Glob(r)), run[r])
      BY <2>1, FreeOnly
    <2> QED
      BY <2>1, <2>2, FreeOverlay DEF Index
  <1>7. ASSUME Refreshes(r), NEW f \in FilesToWrite(r)
        PROVE  own'[r] /\ EntryFor(r, f) \in At(headTree'[r], f)
    <2>1. EntryFor(r, f) \in At(work[r], f)
      BY <1>1, <1>7 DEF LoggedIn, Logs
    <2>2. f \in Glob(r) \cap DOMAIN work[r]
      BY <1>7, <2>1 DEF FilesToWrite, At
    <2>3. EntryFor(r, f).run = run[r]
      BY DEF EntryFor
    <2>4. f \in DOMAIN Index(r) => work[r][f] # Index(r)[f]
      BY <1>6, <2>1, <2>2, <2>3 DEF Free, At
    <2>5. config[r].autoCommit
      BY <1>7 DEF Refreshes, PushesBranch
    <2>6. own'[r]
      BY <2>2, <2>4, <2>5 DEF Commit, Typed, CopyTyped
    <2>7. f \in DOMAIN headTree'[r] /\ headTree'[r][f] = work[r][f]
      BY <1>3, <2>2, <2>6, AtCommit
    <2> QED
      BY <2>1, <2>2, <2>6, <2>7 DEF At
  <1>8. outcome[r] = "success" /\ Refreshes(r) =>
            \E i \in 1..Len(history) : Logs(history[i].tree, r, FilesToWrite(r))
    BY DEF LoggedIn
  <1> QED
    BY <1>1, <1>2, <1>7, <1>8 DEF LoggedIn, Logs, AfterPull

\* The rebase takes a changelog from the branch only where the commit left it as
\* it was in its base, which has no entry of the run.
LEMMA PullLogs ==
    ASSUME Typed, NumbersAreFresh, NEW r \in Runners, LoggedIn(r), Pull(r)
    PROVE  LoggedIn(r)'
  <1>1. /\ pc[r] = "pulling" /\ pc'[r] = "taggingCommit"
        /\ UNCHANGED <<history, own, config, noted, run, outcome>>
    BY DEF Pull, GoTo, shared, memory, Typed, MemoryTyped
  <1>2. /\ Refreshes(r)' = Refreshes(r) /\ FilesToWrite(r)' = FilesToWrite(r)
        /\ \A f : EntryFor(r, f)' = EntryFor(r, f)
    BY <1>1, AskedTheSame
  <1>3. Free(Base(r), run[r])
    <2>1. head[r] \in 1..Len(history)
      BY DEF Typed, CopyTyped
    <2> QED
      BY <1>1, <2>1 DEF NumbersAreFresh, FreshIn, BranchFree, BeforePush, Base
  <1>4. ASSUME Refreshes(r), NEW f \in FilesToWrite(r)
        PROVE  own'[r] /\ EntryFor(r, f) \in At(headTree'[r], f)
    <2> DEFINE tree == Rebased(Base(r), headTree[r], Newest)
    <2>1. own[r] /\ EntryFor(r, f) \in At(headTree[r], f)
      BY <1>1, <1>4 DEF LoggedIn, Logs
    <2>2. PushesBranch(r)
      BY <1>4 DEF Refreshes
    <2>3. headTree'[r] = tree
      BY <2>1, <2>2 DEF Pull, Base, Typed, CopyTyped
    <2>4. f \in DOMAIN headTree[r] /\ EntryFor(r, f).run = run[r]
      BY <2>1 DEF At, EntryFor
    <2>5. f \in DOMAIN Base(r) => headTree[r][f] # Base(r)[f]
      BY <1>3, <2>1, <2>4 DEF Free, At
    <2>6. f \in DOMAIN tree /\ tree[f] = headTree[r][f]
      BY <2>4, <2>5 DEF Rebased
    <2> HIDE DEF tree
    <2> QED
      BY <1>1, <2>1, <2>3, <2>4, <2>6 DEF At
  <1>5. outcome[r] = "success" /\ Refreshes(r) =>
            \E i \in 1..Len(history) : Logs(history[i].tree, r, FilesToWrite(r))
    BY DEF LoggedIn
  <1> QED
    BY <1>1, <1>2, <1>4, <1>5 DEF LoggedIn, Logs, AfterPull

\* The push puts the publish commit, and the entries in it, on the branch.
LEMMA PushLogs ==
    ASSUME Typed, NEW r \in Runners, LoggedIn(r), PushBranch(r) \/ PushUnanswered(r)
    PROVE  LoggedIn(r)'
  <1> USE DEF GoTo, Ends, memory
  <1>1. /\ pc[r] = "pushing" /\ pc'[r] \in {"pushingTags", "ended"}
        /\ outcome'[r] \in {outcome[r], "failed"}
        /\ UNCHANGED <<config, noted, run>>
    BY DEF PushBranch, PushUnanswered, Typed, MemoryTyped
  <1>2. /\ Refreshes(r)' = Refreshes(r) /\ FilesToWrite(r)' = FilesToWrite(r)
        /\ \A f : EntryFor(r, f)' = EntryFor(r, f)
    BY <1>1, AskedTheSame
  <1>3. Grows
    BY OneMoves DEF StepOf
  <1>4. Refreshes(r) => PushesBranch(r)
    BY DEF Refreshes
  <1>5. ASSUME Refreshes(r), outcome'[r] = "success"
        PROVE  \E i \in 1..Len(history') : Logs(history'[i].tree, r, FilesToWrite(r))
    <2>1. PICK i \in 1..Len(history) : Logs(history[i].tree, r, FilesToWrite(r))
      BY <1>1, <1>5 DEF LoggedIn
    <2> QED
      BY <1>3, <2>1 DEF Grows
  <1>6. ASSUME Refreshes(r), pc'[r] = "pushingTags"
        PROVE  \E i \in 1..Len(history') : Logs(history'[i].tree, r, FilesToWrite(r))
    <2>1. BranchPushed(r)
      BY <1>4, <1>6 DEF PushBranch, PushUnanswered, Typed, MemoryTyped
    <2>2. Len(history') \in 1..Len(history')
      BY <1>3 DEF Grows, Typed, HistoryTyped
    <2>3. /\ FilesToWrite(r) # {} => own[r]
          /\ Logs(headTree[r], r, FilesToWrite(r))
      BY <1>1, <1>6 DEF LoggedIn, AfterPull
    <2>4. CASE own[r]
      <3>1. history'[Len(history')].tree = headTree[r]
        BY <2>1, <2>4, HistoryGrows
      <3> QED
        BY <2>2, <2>3, <3>1
    <2>5. CASE FilesToWrite(r) = {}
      BY <2>2, <2>5 DEF Logs
    <2> QED
      BY <2>3, <2>4, <2>5
  <1> QED
    BY <1>1, <1>2, <1>5, <1>6 DEF LoggedIn, Logs, AfterPull

LEMMA LoggedNext ==
    ASSUME Typed, Survival, NumbersAreFresh, NEW r \in Runners, LoggedIn(r), StepOf(r)
    PROVE  LoggedIn(r)'
  <1> USE DEF GoTo, Ends, shared, copy, memory
  <1>0. /\ pc \in [Runners -> {"idle", "ended"} \cup Steps]
        /\ DOMAIN work = Runners /\ DOMAIN todo = Runners /\ DOMAIN outcome = Runners
        /\ SurvivesIn(r)
    BY DEF Typed, CopyTyped, MemoryTyped, Survival
  <1>c. UNCHANGED <<config, noted, run>> =>
            /\ Refreshes(r)' = Refreshes(r) /\ FilesToWrite(r)' = FilesToWrite(r)
            /\ \A f : EntryFor(r, f)' = EntryFor(r, f)
    BY AskedTheSame
  <1>d. outcome[r] = "success" /\ Refreshes(r) =>
            \E i \in 1..Len(history) : Logs(history[i].tree, r, FilesToWrite(r))
    BY DEF LoggedIn
  <1>1. ASSUME Start(r)
        PROVE  LoggedIn(r)'
    <2>1. pc'[r] = "refreshing" /\ outcome'[r] = "running"
      BY <1>0, <1>1 DEF Start
    <2> QED
      BY <2>1 DEF LoggedIn, AfterPull
  <1>2. ASSUME Refresh(r)
        PROVE  LoggedIn(r)'
    <2>1. /\ pc'[r] = "writing" /\ todo'[r] = FilesToWrite(r)
          /\ UNCHANGED <<history, config, noted, run, outcome>>
      BY <1>0, <1>2 DEF Refresh
    <2> QED
      BY <1>c, <1>d, <2>1 DEF LoggedIn, Logs, AfterPull
  <1>3. ASSUME AllWritten(r)
        PROVE  LoggedIn(r)'
    <2>1. /\ pc[r] = "writing" /\ todo[r] = {}
          /\ UNCHANGED <<history, work, config, noted, run, outcome>>
      BY <1>3 DEF AllWritten
    <2>2. \/ pc'[r] = "announcing" /\ ~Refreshes(r)
          \/ pc'[r] = "tagging"
      BY <1>0, <1>3 DEF AllWritten, Refreshes
    <2> QED
      BY <1>c, <1>d, <2>1, <2>2 DEF LoggedIn, Logs, AfterPull
  <1>4. ASSUME NEW f \in Files, WriteEntry(r, f)
        PROVE  LoggedIn(r)'
    <2>1. /\ pc[r] = "writing" /\ work'[r] = Written(r, {f}) /\ todo'[r] = todo[r] \ {f}
          /\ UNCHANGED <<history, config, noted, run, outcome, pc>>
      BY <1>0, <1>4 DEF WriteEntry
    <2>2. \A g : At(work[r], g) \subseteq At(work'[r], g)
      BY <2>1, AtWritten
    <2>3. Refreshes(r) => EntryFor(r, f) \in At(work'[r], f)
      BY <2>1 DEF Written, At, Refreshes
    <2>4. Refreshes(r) => Logs(work[r], r, FilesToWrite(r) \ todo[r])
      BY <2>1 DEF LoggedIn
    <2>5. Refreshes(r) => Logs(work'[r], r, FilesToWrite(r) \ todo'[r])
      BY <2>1, <2>2, <2>3, <2>4 DEF Logs
    <2> QED
      BY <1>c, <1>d, <2>1, <2>5 DEF LoggedIn, Logs, AfterPull
  <1>5. ASSUME NEW f \in Files, WriteThrows(r, f)
        PROVE  LoggedIn(r)'
    <2>1. pc'[r] = "ended" /\ outcome'[r] = "failed"
      BY <1>0, <1>5 DEF WriteThrows
    <2> QED
      BY <2>1 DEF LoggedIn, AfterPull
  <1>6. ASSUME Commit(r)
        PROVE  LoggedIn(r)'
    BY <1>0, <1>6, CommitLogs
  <1>7. ASSUME Pull(r)
        PROVE  LoggedIn(r)'
    BY <1>7, PullLogs
  <1>8. ASSUME ValidatePush(r) \/ Publish(r)
        PROVE  LoggedIn(r)'
    <2>1. /\ UNCHANGED <<history, headTree, own, config, noted, run>>
          /\ pc[r] \in {"validating", "publishing"}
          /\ pc'[r] \in {"publishing", "pushing", "ended"}
          /\ outcome'[r] \in {outcome[r], "failed"}
      BY <1>0, <1>8 DEF ValidatePush, Publish
    <2> QED
      BY <1>c, <1>d, <2>1 DEF LoggedIn, Logs, AfterPull
  <1>9. ASSUME PushBranch(r) \/ PushUnanswered(r)
        PROVE  LoggedIn(r)'
    BY <1>9, PushLogs
  <1>10. ASSUME PushTags(r) \/ (\E tag : Announce(r, tag)) \/ MissingTag(r) \/ Finish(r) \/ Stops(r)
         PROVE  LoggedIn(r)'
    <2>1. /\ UNCHANGED <<history, config, noted, run>>
          /\ pc'[r] \in {"announcing", "ended"}
          /\ \/ pc[r] \in {"pushingTags", "announcing"}
             \/ pc'[r] = "ended" /\ outcome'[r] = "failed"
      BY <1>0, <1>10 DEF PushTags, Announce, MissingTag, Finish, Stops
    <2> QED
      BY <1>c, <2>1 DEF LoggedIn, Logs, AfterPull
  <1>11. ASSUME MakeTags(r)
         PROVE  LoggedIn(r)'
    <2>1. /\ UNCHANGED <<history, headTree, own, work, config, noted, run, outcome>>
          /\ \/ pc[r] = "tagging" /\ pc'[r] = "committing"
             \/ pc[r] = "taggingCommit" /\ pc'[r] = "validating"
      BY <1>11, TagsAreMade
    <2> QED
      BY <1>c, <1>d, <2>1 DEF LoggedIn, Logs, AfterPull
  <1> QED
    BY <1>1, <1>2, <1>3, <1>4, <1>5, <1>6, <1>7, <1>8, <1>9, <1>10, <1>11 DEF StepOf

\* A run that succeeded and pushes has an entry on the branch for each of its
\* packages with a changelog, for every interleaving of runs and every failure.
THEOREM SuccessesAreLogged == Spec => []SuccessIsLogged
  <1> DEFINE Logged == Survival /\ NumbersAreFresh /\ \A r \in Runners : LoggedIn(r)
  <1>1. Init => Logged
    <2> SUFFICES ASSUME Init PROVE Logged
      OBVIOUS
    <2>1. Survival
      BY DEF Init, Survival, EntriesSurvive, SurvivesIn, BeforeCommit, AfterPull
    <2>2. history[1].tree = [f \in Existing |-> {}] /\ Len(history) = 1
      BY DEF Init
    <2>3. \A n : BranchFree(n) /\ \A r \in Runners : CopyFree(r, n)
      BY <2>2 DEF Init, BranchFree, CopyFree, Free
    <2>4. NumbersAreFresh
      BY <2>3 DEF Init, NumbersAreFresh, FreshIn
    <2>5. \A r \in Runners : LoggedIn(r)
      BY DEF Init, LoggedIn, AfterPull
    <2> QED
      BY <2>1, <2>4, <2>5
  <1>2. ASSUME Typed, Logged, [Next]_vars
        PROVE  Logged'
    <2>1. ASSUME NEW r \in Runners, StepOf(r)
          PROVE  Logged'
      <3>1. \A q \in Runners \ {r} : SurvivesIn(q)' /\ LoggedIn(q)'
        BY <1>2, <2>1, OthersSurvive, OthersLog DEF Survival
      <3>2. EntriesSurvive' /\ SurvivesIn(r)'
        BY <1>2, <2>1, SurvivalNext
      <3>3. NumbersAreFresh'
        BY <1>2, <2>1, NumbersNext
      <3>4. LoggedIn(r)'
        BY <1>2, <2>1, LoggedNext
      <3> QED
        BY <3>1, <3>2, <3>3, <3>4 DEF Survival
    <2>2. CASE UNCHANGED vars
      <3> USE DEF vars, shared, copy, memory
      <3>1. Survival'
        BY <1>2, <2>2 DEF Survival, SurvivesIn, EntriesSurvive, EntriesOf, Base,
           Remembered, Glob, Refreshes, PushesBranch
      <3>2. NumbersAreFresh'
        BY <1>2, <2>2 DEF NumbersAreFresh, FreshIn, BranchFree, CopyFree
      <3>3. ASSUME NEW r \in Runners
            PROVE  LoggedIn(r)'
        <4>1. /\ Refreshes(r)' = Refreshes(r) /\ FilesToWrite(r)' = FilesToWrite(r)
              /\ \A f : EntryFor(r, f)' = EntryFor(r, f)
          BY <2>2, AskedTheSame
        <4> QED
          BY <1>2, <2>2, <4>1 DEF LoggedIn, Logs
      <3> QED
        BY <3>1, <3>2, <3>3
    <2> QED
      BY <1>2, <2>1, <2>2, NextIsAStep
  <1>3. Logged => SuccessIsLogged
    <2> SUFFICES ASSUME Logged, NEW r \in Runners, outcome[r] = "success", Refreshes(r)
                 PROVE  \E i \in 1..Len(history) :
                            \A p \in {q \in noted[r] : FileOf(r, q) \in Glob(r)} :
                                LET f == FileOf(r, p)
                                IN  /\ f \in DOMAIN history[i].tree
                                    /\ \E e \in history[i].tree[f] :
                                           e.run = run[r] /\ p \in e.pkgs
      BY DEF SuccessIsLogged
    <2>1. PICK i \in 1..Len(history) : Logs(history[i].tree, r, FilesToWrite(r))
      BY DEF LoggedIn
    <2>2. ASSUME NEW p \in noted[r], FileOf(r, p) \in Glob(r)
          PROVE  /\ FileOf(r, p) \in DOMAIN history[i].tree
                 /\ \E e \in history[i].tree[FileOf(r, p)] : e.run = run[r] /\ p \in e.pkgs
      <3>1. FileOf(r, p) \in FilesToWrite(r)
        BY <2>2 DEF FilesToWrite
      <3>2. EntryFor(r, FileOf(r, p)) \in At(history[i].tree, FileOf(r, p))
        BY <2>1, <3>1 DEF Logs
      <3>3. EntryFor(r, FileOf(r, p)).run = run[r] /\ p \in EntryFor(r, FileOf(r, p)).pkgs
        BY <2>2 DEF EntryFor
      <3> QED
        BY <3>2, <3>3 DEF At
    <2> QED
      BY <2>2
  <1> QED
    BY <1>1, <1>2, <1>3, TypesHold, PTL DEF Spec

==============================================================================
