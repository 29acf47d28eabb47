----------------------- MODULE PrereleaseVersionsProofs -----------------------
(***************************************************************************)
(* Proofs about PrereleaseVersions, for every set of packages, dependency  *)
(* graph, grouping and number of commits, runs and failures.               *)
(***************************************************************************)
EXTENDS PrereleaseVersions, ReleasePlanProofs

Known == IF mode = "idle" THEN Newest ELSE at   \* what a run may have released

Base(g) == GroupBase(g, latest)
Core(g) == PreviewBase(g).core

Unreleased == CommitsSince(stableTag, Known)    \* by no completed stable run
Previewed  == CommitsSince(stableTag, anyTag)   \* of those, by a completed run

\* Does a stable run that has not completed show in the registry?
Broken == torn \/ (mode = "stable" /\ left # DOMAIN plan)

\* No private package is in a group with a public one.
PublicGroups == \A p \in Private : \A q \in Public : GroupOf[p] # GroupOf[q]

\* The version a preview of group g announces: that of a strategy the commits
\* since the last release ask for, and no smaller than those of the preview runs
\* that completed.
GroupAnnounces(g) ==
    /\ Older(Base(g), Core(g)) =>
           /\ \E p \in Public \cap Bumped(Unreleased) : GroupOf[p] = g
           /\ \E s \in Strategies :
                  /\ Core(g) = Increment(Base(g), s)
                  /\ Rank[s] <= Rank[GroupStrategy(Unreleased, g)]
                  /\ PublicGroups /\ ~Broken => Rank[GroupStrategy(Previewed, g)] <= Rank[s]
    /\ PublicGroups /\ ~Broken /\ ~Older(Base(g), Core(g)) =>
           GroupStrategy(Previewed, g) = "none"

PlansPreviews == mode = "preview" =>
    /\ DOMAIN plan = Public \cap Bumped(CommitsSince(anyTag, at))
    /\ \A p \in DOMAIN plan :
           /\ plan[p] \in Preview
           /\ \A q \in DOMAIN plan : GroupOf[q] = GroupOf[p] => plan[q] = plan[p]
           /\ ~OlderPreview(plan[p], PreviewBase(GroupOf[p]))
           /\ Older(Base(GroupOf[p]), plan[p].core)
           /\ \E s \in Strategies :
                  /\ plan[p].core = Increment(Base(GroupOf[p]), s)
                  /\ Rank[s] <= Rank[GroupStrategy(Unreleased, GroupOf[p])]
                  /\ PublicGroups /\ ~torn => s = GroupStrategy(Unreleased, GroupOf[p])
    /\ \A p \in DOMAIN plan \ left : next[p] = plan[p]

PlansReleases == mode = "stable" =>
    /\ DOMAIN plan = Public \cap Bumped(Unreleased)
    /\ \A p \in DOMAIN plan : plan[p] \in Version /\ ~Older(plan[p], Core(GroupOf[p]))
    /\ \A p \in DOMAIN plan \ left : latest[p] = plan[p]

Announcing ==
    /\ \A p \in Public : GroupAnnounces(GroupOf[p])
    /\ PlansPreviews
    /\ PlansReleases
    /\ stableTag <= anyTag /\ anyTag <= Known /\ Known <= Newest
    /\ Tagged => stableTag > 0

\* The dist-tags are at the newest version of each kind, and go forward.
GoesForward ==
    /\ \A p \in Public : \A v \in previews[p] : ~OlderPreview(next[p], v)
    /\ \A p \in Public : \A v \in releases[p] : ~Older(latest[p], v)
    /\ mode = "preview" =>
           \A p \in left : OlderPreview(next[p], plan[p]) /\ Older(latest[p], plan[p].core)
    /\ mode = "stable" => \A p \in left : Older(latest[p], plan[p])

-----------------------------------------------------------------------------
(* The order of previews. *)

LEMMA PreviewsAreOrdered ==
    /\ \A a \in Preview : ~OlderPreview(a, a)
    /\ \A a, b, c \in Preview : OlderPreview(a, b) /\ OlderPreview(b, c) => OlderPreview(a, c)
    /\ \A a, b \in Preview : OlderPreview(a, b) \/ a = b \/ OlderPreview(b, a)
    /\ \A a, b, c \in Preview : ~OlderPreview(b, a) /\ OlderPreview(b, c) => OlderPreview(a, c)
    /\ \A a, b, c \in Preview : OlderPreview(a, b) /\ ~OlderPreview(c, b) => OlderPreview(a, c)
    /\ \A a, b \in Preview : ~OlderPreview(b, a) => ~Older(b.core, a.core)
  <1>1. \A a \in Preview : a.core \in Version /\ a.n \in Nat
    BY DEF Preview
  <1>2. \A a \in Preview : ~OlderPreview(a, a)
    BY <1>1, OlderIsOrder DEF OlderPreview
  <1>3. \A a, b, c \in Preview : OlderPreview(a, b) /\ OlderPreview(b, c) => OlderPreview(a, c)
    <2> SUFFICES ASSUME NEW a \in Preview, NEW b \in Preview, NEW c \in Preview,
                        OlderPreview(a, b), OlderPreview(b, c)
                 PROVE  OlderPreview(a, c)
      OBVIOUS
    <2>1. CASE a.core = b.core /\ b.core = c.core
      BY <1>1, <2>1, OlderIsOrder DEF OlderPreview
    <2>2. CASE Older(a.core, b.core) \/ Older(b.core, c.core)
      BY <1>1, <2>2, OlderIsOrder DEF OlderPreview
    <2> QED  BY <2>1, <2>2 DEF OlderPreview
  <1>4. \A a, b \in Preview : OlderPreview(a, b) \/ a = b \/ OlderPreview(b, a)
    <2> SUFFICES ASSUME NEW a \in Preview, NEW b \in Preview,
                        ~OlderPreview(a, b), ~OlderPreview(b, a)
                 PROVE  a = b
      OBVIOUS
    <2>1. a.core = b.core
      BY <1>1, OlderIsOrder DEF OlderPreview
    <2>2. a.n = b.n
      BY <1>1, <2>1 DEF OlderPreview
    <2> QED  BY <2>1, <2>2 DEF Preview
  <1>5. \A a, b \in Preview : ~OlderPreview(b, a) => ~Older(b.core, a.core)
    BY DEF OlderPreview
  <1> QED  BY <1>2, <1>3, <1>4, <1>5

LEMMA MaxPreviewIsMax ==
    ASSUME NEW S, S \subseteq Preview, IsFiniteSet(S), S # {}
    PROVE  MaxPreview(S) \in S /\ \A b \in S : ~OlderPreview(MaxPreview(S), b)
  <1> DEFINE R == {x \in Preview \X Preview : OlderPreview(x[1], x[2])}
  <1>1. \A x, y \in Preview : <<x, y>> \in R <=> OlderPreview(x, y)
    OBVIOUS
  <1> HIDE DEF R
  <1>2. /\ \A x, y, z \in S : <<x, y>> \in R /\ <<y, z>> \in R => <<x, z>> \in R
        /\ \A x \in S : <<x, x>> \notin R
    BY <1>1, PreviewsAreOrdered
  <1>3. \E x \in S : \A y \in S : <<x, y>> \notin R
    BY <1>2, FiniteSetHasMaximal
  <1>4. \E x \in S : \A w \in S : ~OlderPreview(x, w)
    BY <1>1, <1>3
  <1> QED  BY <1>4 DEF MaxPreview

LEMMA NoPreviewIsPreview == NoPreview \in Preview
  BY DEF NoPreview, Preview, Unpublished, Version

\* The newest preview of a group, of those behind prereleaseNPMTag.
NewestOf(g, previewed) ==
    MaxPreview({NoPreview} \cup {previewed[p] : p \in {q \in Public : GroupOf[q] = g}})

LEMMA NewestOfIsNewest ==
    ASSUME NEW f \in [Public -> Preview], NEW g
    PROVE  /\ NewestOf(g, f) \in Preview
           /\ \A p \in Public : GroupOf[p] = g => ~OlderPreview(NewestOf(g, f), f[p])
           /\ \/ NewestOf(g, f) = NoPreview
              \/ \E p \in Public : GroupOf[p] = g /\ NewestOf(g, f) = f[p]
  <1> DEFINE members == {p \in Public : GroupOf[p] = g}
             known   == {NoPreview} \cup {f[p] : p \in members}
  <1>1. known \subseteq Preview /\ known # {}
    BY NoPreviewIsPreview
  <1>2. IsFiniteSet(known)
    <2>1. IsFiniteSet(members)
      <3>1. members \subseteq Packages
        BY DEF Public
      <3> HIDE DEF members
      <3> QED  BY <3>1, PlanAssumption, FS_Subset
    <2>2. IsFiniteSet({f[p] : p \in members})
      BY <2>1, FinitelyManyValues
    <2>3. IsFiniteSet({NoPreview})
      BY FS_Singleton
    <2> QED  BY <2>2, <2>3, FS_Union
  <1>3. MaxPreview(known) \in known /\ \A w \in known : ~OlderPreview(MaxPreview(known), w)
    <2> HIDE DEF known
    <2> QED  BY <1>1, <1>2, MaxPreviewIsMax
  <1>4. NewestOf(g, f) = MaxPreview(known)
    BY DEF NewestOf
  <1> QED  BY <1>1, <1>3, <1>4

LEMMA PreviewBaseIsNewest ==
    ASSUME next \in [Public -> Preview], NEW g
    PROVE  /\ PreviewBase(g) \in Preview
           /\ \A p \in Public : GroupOf[p] = g => ~OlderPreview(PreviewBase(g), next[p])
           /\ \/ PreviewBase(g) = NoPreview
              \/ \E p \in Public : GroupOf[p] = g /\ PreviewBase(g) = next[p]
  <1>1. PreviewBase(g) = NewestOf(g, next)
    BY DEF PreviewBase, NewestOf
  <1> QED  BY <1>1, NewestOfIsNewest

-----------------------------------------------------------------------------
(* The next preview. *)

\* Raising an announced version leads where the larger of the two strategies
\* leads from the release.
LEMMA RaisedOnce ==
    ASSUME NEW v \in Version, NEW a \in Strategies, NEW s \in Strategies,
           NEW n \in Nat, NEW preview, preview = [core |-> Increment(v, a), n |-> n]
    PROVE  /\ Raises(s, preview) => Increment(Increment(v, a), s) = Increment(v, Larger(a, s))
           /\ ~Raises(s, preview) => Larger(a, s) = a
  <1>1. /\ v[1] \in Nat /\ v[2] \in Nat /\ v[3] \in Nat
        /\ a \in {"patch", "minor", "major"} /\ s \in {"patch", "minor", "major"}
    BY DEF Version, Strategies, Levels
  <1>2. \A w : /\ Increment(w, "major") = <<w[1] + 1, 0, 0>>
               /\ Increment(w, "minor") = <<w[1], w[2] + 1, 0>>
               /\ Increment(w, "patch") = <<w[1], w[2], w[3] + 1>>
    BY DEF Increment
  <1>3. Rank["patch"] = 1 /\ Rank["minor"] = 2 /\ Rank["major"] = 3
    BY DEF Rank
  <1>4. preview.core = Increment(v, a)
    OBVIOUS
  <1>5. CASE a = "major"
    <2>1. preview.core = <<v[1] + 1, 0, 0>>
      BY <1>2, <1>4, <1>5
    <2>2. ~Raises(s, preview)
      BY <1>1, <2>1 DEF Raises, IsMajor
    <2>3. Larger(a, s) = a
      BY <1>1, <1>3, <1>5 DEF Larger
    <2> QED  BY <2>2, <2>3
  <1>6. CASE a = "minor"
    <2>1. preview.core = <<v[1], v[2] + 1, 0>>
      BY <1>2, <1>4, <1>6
    <2>2. Raises(s, preview) <=> s = "major"
      BY <1>1, <2>1 DEF Raises, IsMajor
    <2>3. Larger(a, s) = IF s = "major" THEN "major" ELSE "minor"
      BY <1>1, <1>3, <1>6 DEF Larger
    <2>4. Increment(Increment(v, a), "major") = Increment(v, "major")
      BY <1>1, <1>2, <1>4, <2>1
    <2> QED  BY <1>6, <2>2, <2>3, <2>4
  <1>7. CASE a = "patch"
    <2>1. preview.core = <<v[1], v[2], v[3] + 1>>
      BY <1>2, <1>4, <1>7
    <2>2. Raises(s, preview) <=> s \in {"major", "minor"}
      BY <1>1, <2>1 DEF Raises, IsMajor
    <2>3. Larger(a, s) = s
      BY <1>1, <1>3, <1>7 DEF Larger
    <2>4. /\ Increment(Increment(v, a), "major") = Increment(v, "major")
          /\ Increment(Increment(v, a), "minor") = Increment(v, "minor")
      BY <1>1, <1>2, <1>4, <2>1
    <2> QED  BY <1>1, <1>7, <2>2, <2>3, <2>4
  <1> QED  BY <1>1, <1>5, <1>6, <1>7

\* The next preview is newer than the release and the preview it starts from.
LEMMA NextPreviewIsNewer ==
    ASSUME NEW v \in Version, NEW preview \in Preview, NEW s \in Strategies
    PROVE  /\ IncrementPreview(v, preview, s) \in Preview
           /\ OlderPreview(preview, IncrementPreview(v, preview, s))
           /\ Older(v, IncrementPreview(v, preview, s).core)
  <1> DEFINE x == IncrementPreview(v, preview, s)
  <1>1. preview.core \in Version /\ preview.n \in Nat
    BY DEF Preview
  <1>2. \A w \in Version : FirstOf(Increment(w, s)) \in Preview /\ Older(w, FirstOf(Increment(w, s)).core)
    BY IncrementIsNewer DEF FirstOf, Preview
  <1>3. CASE ~PreviewOfNewer(preview, v)
    <2>1. x = FirstOf(Increment(v, s))
      BY <1>3 DEF IncrementPreview
    <2> HIDE DEF x
    <2>2. x \in Preview /\ Older(v, x.core)
      BY <1>2, <2>1
    <2>3. x.core \in Version
      BY <2>2 DEF Preview
    <2>4. Older(preview.core, x.core)
      BY <1>1, <1>3, <2>2, <2>3, OlderIsOrder DEF PreviewOfNewer
    <2> QED  BY <2>2, <2>4 DEF OlderPreview, x
  <1>4. CASE PreviewOfNewer(preview, v) /\ Raises(s, preview)
    <2>1. x = FirstOf(Increment(preview.core, s))
      BY <1>4 DEF IncrementPreview
    <2> HIDE DEF x
    <2>2. x \in Preview /\ Older(preview.core, x.core)
      BY <1>1, <1>2, <2>1
    <2>3. x.core \in Version
      BY <2>2 DEF Preview
    <2>4. Older(v, x.core)
      BY <1>1, <1>4, <2>2, <2>3, OlderIsOrder DEF PreviewOfNewer
    <2> QED  BY <2>2, <2>4 DEF OlderPreview, x
  <1>5. CASE PreviewOfNewer(preview, v) /\ ~Raises(s, preview)
    <2>1. x = [preview EXCEPT !.n = @ + 1]
      BY <1>5 DEF IncrementPreview
    <2> HIDE DEF x
    <2>2. x \in Preview /\ x.core = preview.core /\ x.n = preview.n + 1
      BY <1>1, <2>1 DEF Preview
    <2> QED  BY <1>1, <1>5, <2>2 DEF OlderPreview, PreviewOfNewer, x
  <1> QED  BY <1>3, <1>4, <1>5

\* What the next preview announces.
LEMMA NextPreviewAnnounces ==
    ASSUME NEW v \in Version, NEW preview \in Preview, NEW s \in Strategies
    PROVE  /\ ~Older(v, preview.core) => IncrementPreview(v, preview, s).core = Increment(v, s)
           /\ \A a \in Strategies :
                  Older(v, preview.core) /\ preview.core = Increment(v, a) =>
                      IncrementPreview(v, preview, s).core = Increment(v, Larger(a, s))
  <1>1. ASSUME ~Older(v, preview.core)
        PROVE  IncrementPreview(v, preview, s).core = Increment(v, s)
    BY <1>1 DEF IncrementPreview, PreviewOfNewer, FirstOf
  <1>2. ASSUME NEW a \in Strategies, Older(v, preview.core), preview.core = Increment(v, a)
        PROVE  IncrementPreview(v, preview, s).core = Increment(v, Larger(a, s))
    <2>1. preview = [core |-> Increment(v, a), n |-> preview.n] /\ preview.n \in Nat
      BY <1>2 DEF Preview
    <2>2. /\ Raises(s, preview) => Increment(preview.core, s) = Increment(v, Larger(a, s))
          /\ ~Raises(s, preview) => Larger(a, s) = a
      BY <1>2, <2>1, RaisedOnce
    <2>3. CASE Raises(s, preview)
      BY <1>2, <2>2, <2>3 DEF IncrementPreview, PreviewOfNewer, FirstOf
    <2>4. CASE ~Raises(s, preview)
      <3>1. IncrementPreview(v, preview, s) = [preview EXCEPT !.n = @ + 1]
        BY <1>2, <2>4 DEF IncrementPreview, PreviewOfNewer
      <3>2. IncrementPreview(v, preview, s).core = preview.core
        BY <3>1 DEF Preview
      <3> QED  BY <1>2, <2>2, <2>4, <3>2
    <2> QED  BY <2>3, <2>4
  <1> QED  BY <1>1, <1>2

\* All members of a group that are previewed get the same preview.
LEMMA NextPreviewsOfGroup ==
    ASSUME NEW commits \in Ranges, latest \in [Public -> Version], next \in [Public -> Preview]
    PROVE  /\ DOMAIN NextPreviews(MergedStrategies(commits)) = Public \cap Bumped(commits)
           /\ \A p \in Public \cap Bumped(commits) :
                  NextPreviews(MergedStrategies(commits))[p] =
                      IncrementPreview(Base(GroupOf[p]), PreviewBase(GroupOf[p]),
                                       GroupStrategy(commits, GroupOf[p]))
  <1> DEFINE strategies == MergedStrategies(commits)
             released == Bumped(commits) \cap Public
             Bump(q)  == IncrementPreview(GroupBase(GroupOf[q], latest),
                                          PreviewBase(GroupOf[q]), strategies[q])
             bumps(p) == {Bump(q) : q \in {r \in released : GroupOf[r] = GroupOf[p]}}
             result   == NextPreviews(strategies)
  <1>1. DOMAIN result = released /\ \A p \in released : result[p] = MaxPreview(bumps(p))
    BY DEF NextPreviews, Bumped
  <1>2. ASSUME NEW p \in released
        PROVE  result[p] = IncrementPreview(Base(GroupOf[p]), PreviewBase(GroupOf[p]),
                                            GroupStrategy(commits, GroupOf[p]))
    <2> DEFINE x == IncrementPreview(Base(GroupOf[p]), PreviewBase(GroupOf[p]),
                                     GroupStrategy(commits, GroupOf[p]))
    <2>1. \A q \in released : GroupOf[q] = GroupOf[p] => Bump(q) = x
      BY MergedIsOfGroup DEF Base
    <2>2. bumps(p) = {x}
      <3> HIDE DEF x, Bump
      <3> QED  BY <2>1
    <2>3. x \in Preview
      <3>1. Base(GroupOf[p]) \in Version
        BY GroupBaseIsNewest DEF Base, Public
      <3>2. GroupStrategy(commits, GroupOf[p]) \in Strategies
        BY MergedIsOfGroup, GroupStrategyIsRanked
      <3> QED  BY <3>1, <3>2, PreviewBaseIsNewest, NextPreviewIsNewer
    <2>4. MaxPreview({x}) = x
      <3> HIDE DEF x
      <3>1. {x} \subseteq Preview /\ {x} # {}
        BY <2>3
      <3>2. IsFiniteSet({x})
        BY FS_Singleton
      <3>3. MaxPreview({x}) \in {x}
        BY <3>1, <3>2, MaxPreviewIsMax
      <3> QED  BY <3>3
    <2> HIDE DEF x, bumps, result
    <2>5. result[p] = x
      BY <1>1, <2>2, <2>4
    <2> QED  BY <2>5 DEF x
  <1> QED  BY <1>1, <1>2

-----------------------------------------------------------------------------
(* Types and ranges of commits. *)

\* TypeOK, and what a plan is.
Typed ==
    /\ TypeOK
    /\ Len(log) > 0
    /\ Known \in 1..Newest
    /\ stableTag <= Known /\ anyTag <= Known
    /\ mode = "preview" => plan \in [DOMAIN plan -> Preview]
    /\ mode = "stable" => plan \in [DOMAIN plan -> Version]

LEMMA RangesAreTyped ==
    ASSUME Typed, NEW tag, NEW to \in 1..Newest
    PROVE  CommitsSince(tag, to) \in Ranges
  <1> DEFINE Commit == [level : Levels, touches : SUBSET Packages]
  <1>1. log \in Seq(Commit) /\ Len(log) \in Nat
    BY DEF Typed, TypeOK
  <1> HIDE DEF Commit
  <1>2. \A i \in 1..to : log[i] \in Commit
    BY <1>1 DEF Newest
  <1>3. CommitsSince(tag, to) \subseteq Commit
    BY <1>2 DEF CommitsSince
  <1> QED  BY <1>3 DEF Ranges, Commit

\* A range is that up to a later tag and that from there on.
LEMMA RangeSplits ==
    ASSUME NEW from \in Nat, NEW tag \in Nat, NEW to \in Nat,
           from > 0, from <= tag, tag <= to
    PROVE  CommitsSince(from, to) = CommitsSince(from, tag) \cup CommitsSince(tag, to)
  <1>1. /\ CommitsSince(from, to) = {log[i] : i \in {j \in 1..to : j > from}}
        /\ CommitsSince(from, tag) = {log[i] : i \in {j \in 1..tag : j > from}}
        /\ CommitsSince(tag, to) = {log[i] : i \in {j \in 1..to : j > tag}}
    BY DEF CommitsSince
  <1>2. {j \in 1..to : j > from} = {j \in 1..tag : j > from} \cup {j \in 1..to : j > tag}
    OBVIOUS
  <1> QED  BY <1>1, <1>2

LEMMA RangeIsEmpty ==
    ASSUME NEW tag \in Nat, tag > 0
    PROVE  CommitsSince(tag, tag) = {}
  BY DEF CommitsSince

\* Nothing asks for nothing.
LEMMA NothingIsAsked ==
    ASSUME NEW g
    PROVE  GroupStrategy({}, g) = "none" /\ {} \in Ranges
  <1>1. {} \in Ranges
    BY DEF Ranges
  <1>2. DOMAIN ExplicitStrategies({}) = {}
    <2>1. Bumping({}) = {}
      BY DEF Bumping
    <2>2. DOMAIN ExplicitStrategies({}) = UNION {c.touches : c \in Bumping({})}
      BY WhatIsBumped
    <2> QED  BY <2>1, <2>2
  <1>3. Bumped({}) = {}
    <2>1. \A p : p \in {} \cup DependentsOf({}) <=>
              /\ p \in Packages
              /\ \A C \in SUBSET Packages : {} \subseteq C /\ Closed(C) => p \in C
      BY ReachedIsCommon
    <2>2. Closed({}) /\ {} \in SUBSET Packages
      BY DEF Closed
    <2>3. DependentsOf({}) = {}
      BY <2>1, <2>2
    <2> QED  BY <1>2, <2>3, WhatIsBumped DEF Bumped
  <1> QED  BY <1>1, <1>3 DEF GroupStrategy, Asks

\* More commits ask for no less.
LEMMA MoreIsAsked ==
    ASSUME NEW A \in Ranges, NEW B \in Ranges, NEW g
    PROVE  /\ Rank[GroupStrategy(A \cup B, g)] \in 0..3
           /\ Rank[GroupStrategy(A, g)] <= Rank[GroupStrategy(A \cup B, g)]
           /\ Rank[GroupStrategy(B, g)] <= Rank[GroupStrategy(A \cup B, g)]
           /\ Bumped(A) \subseteq Bumped(A \cup B) /\ Bumped(B) \subseteq Bumped(A \cup B)
  <1>1. GroupStrategy(A \cup B, g) = Larger(GroupStrategy(A, g), GroupStrategy(B, g))
    BY GroupStrategyUnion
  <1>2. Rank[GroupStrategy(A, g)] \in 0..3 /\ Rank[GroupStrategy(B, g)] \in 0..3
    BY GroupStrategyIsRanked
  <1> QED  BY <1>1, <1>2, BumpedUnion DEF Larger

LEMMA RanksDiffer ==
    /\ \A s \in Strategies : Rank[s] \in 1..3
    /\ \A s, t \in Levels : Rank[s] = Rank[t] => s = t
    /\ \A s \in Levels : s # "none" => s \in Strategies
    /\ Rank["none"] = 0
    /\ \A s, t \in Strategies : /\ Larger(s, t) \in Strategies
                                /\ Rank[s] <= Rank[Larger(s, t)]
                                /\ Rank[t] <= Rank[Larger(s, t)]
                                /\ Larger(s, t) = s \/ Larger(s, t) = t
  BY DEF Strategies, Levels, Rank, Larger

LEMMA TypedInit == Init => Typed
  <1> SUFFICES ASSUME Init PROVE Typed
    OBVIOUS
  <1> DEFINE c == [level |-> "none", touches |-> {}]
  <1>1. c \in [level : Levels, touches : SUBSET Packages]
    BY DEF Levels
  <1>2. log = <<c>>
    BY DEF Init
  <1> HIDE DEF c
  <1>3. log \in Seq([level : Levels, touches : SUBSET Packages]) /\ Len(log) = 1
    BY <1>1, <1>2
  <1>4. latest \in [Public -> Version]
    BY PreviewAssumption DEF Init, PreviewAssumption
  <1>5. next \in [Public -> Preview]
    BY NoPreviewIsPreview DEF Init
  <1>6. stableTag \in {0, 1} /\ anyTag = stableTag
    BY DEF Init
  <1>7. Known = 1
    BY <1>3 DEF Init, Known, Newest
  <1>8. DOMAIN plan = {} /\ left = {}
    BY DEF Init
  <1>9. /\ releases \in [Public -> SUBSET Version]
        /\ previews \in [Public -> SUBSET Preview]
    BY <1>4 DEF Init
  <1>10. mode = "idle" /\ at = 0 /\ torn = FALSE /\ runs = 0 /\ faults = 0
    BY DEF Init
  <1>11. TypeOK
    <2>1. /\ stableTag \in 0..Len(log) /\ anyTag \in 0..Len(log) /\ at \in 0..Len(log)
          /\ mode \in {"idle", "stable", "preview"} /\ runs \in Nat /\ faults \in Nat
      BY <1>3, <1>6, <1>10
    <2>2. left \subseteq DOMAIN plan /\ DOMAIN plan \subseteq Public
      BY <1>8
    <2>3. torn \in BOOLEAN
      BY <1>10, Zenon
    <2> QED
      BY <1>3, <1>4, <1>5, <1>9, <2>1, <2>2, <2>3 DEF TypeOK
  <1> QED  BY <1>3, <1>6, <1>7, <1>10, <1>11 DEF Typed, Newest

\* The plan of a stable run.
LEMMA ReleasesPlanned ==
    ASSUME Typed, Start("stable"), NEW commits, commits = CommitsSince(stableTag, Newest)
    PROVE  /\ commits \in Ranges
           /\ DOMAIN plan' = Public \cap Bumped(commits) /\ left' = DOMAIN plan'
           /\ plan' \in [DOMAIN plan' -> Version]
           /\ \A p \in DOMAIN plan' :
                  /\ Base(GroupOf[p]) \in Version
                  /\ GroupStrategy(commits, GroupOf[p]) \in Strategies
                  /\ plan'[p] = Increment(Base(GroupOf[p]), GroupStrategy(commits, GroupOf[p]))
  <1>1. /\ latest \in [Public -> Version] /\ Public \subseteq Packages
        /\ Newest \in 1..Newest /\ left' = DOMAIN plan'
    BY DEF Typed, TypeOK, Newest, Public, Start
  <1>2. commits \in Ranges
    BY <1>1, RangesAreTyped
  <1>3. plan' = NextVersions(MergedStrategies(commits), latest)
    BY DEF Start, PlannedStrategies, SinceStableTag
  <1>4. /\ DOMAIN plan' = Bumped(commits) \cap Public
        /\ \A p \in Bumped(commits) \cap Public :
               plan'[p] = Increment(GroupBase(GroupOf[p], latest),
                                    GroupStrategy(commits, GroupOf[p]))
    BY <1>1, <1>2, <1>3, NextVersionsOfGroup
  <1>5. \A p \in DOMAIN plan' : /\ Base(GroupOf[p]) \in Version
                                /\ GroupStrategy(commits, GroupOf[p]) \in Strategies
    BY <1>1, <1>2, <1>4, GroupBaseIsNewest, MergedIsOfGroup, GroupStrategyIsRanked DEF Base
  <1>6. \A p \in DOMAIN plan' :
            plan'[p] = Increment(Base(GroupOf[p]), GroupStrategy(commits, GroupOf[p]))
    BY <1>4 DEF Base
  <1>7. plan' = [p \in DOMAIN plan' |-> plan'[p]]
    BY <1>3 DEF NextVersions
  <1>8. \A p \in DOMAIN plan' : plan'[p] \in Version
    BY <1>5, <1>6, IncrementIsNewer
  <1> QED  BY <1>1, <1>2, <1>4, <1>5, <1>6, <1>7, <1>8

\* The plan of a preview run.
LEMMA PreviewsPlanned ==
    ASSUME Typed, Start("preview"), NEW commits, commits = CommitsSince(anyTag, Newest)
    PROVE  /\ commits \in Ranges
           /\ DOMAIN plan' = Public \cap Bumped(commits) /\ left' = DOMAIN plan'
           /\ plan' \in [DOMAIN plan' -> Preview]
           /\ \A p \in DOMAIN plan' :
                  /\ Base(GroupOf[p]) \in Version /\ PreviewBase(GroupOf[p]) \in Preview
                  /\ GroupStrategy(commits, GroupOf[p]) \in Strategies
                  /\ plan'[p] = IncrementPreview(Base(GroupOf[p]), PreviewBase(GroupOf[p]),
                                                 GroupStrategy(commits, GroupOf[p]))
  <1>1. /\ latest \in [Public -> Version] /\ next \in [Public -> Preview]
        /\ Public \subseteq Packages /\ Newest \in 1..Newest /\ left' = DOMAIN plan'
    BY DEF Typed, TypeOK, Newest, Public, Start
  <1>2. commits \in Ranges
    BY <1>1, RangesAreTyped
  <1>3. plan' = NextPreviews(MergedStrategies(commits))
    BY DEF Start, PlannedStrategies
  <1>4. /\ DOMAIN plan' = Public \cap Bumped(commits)
        /\ \A p \in Public \cap Bumped(commits) :
               plan'[p] = IncrementPreview(Base(GroupOf[p]), PreviewBase(GroupOf[p]),
                                           GroupStrategy(commits, GroupOf[p]))
    BY <1>1, <1>2, <1>3, NextPreviewsOfGroup
  <1>5. \A p \in DOMAIN plan' : /\ Base(GroupOf[p]) \in Version
                                /\ PreviewBase(GroupOf[p]) \in Preview
                                /\ GroupStrategy(commits, GroupOf[p]) \in Strategies
    BY <1>1, <1>2, <1>4, GroupBaseIsNewest, PreviewBaseIsNewest, MergedIsOfGroup,
       GroupStrategyIsRanked DEF Base
  <1>6. plan' = [p \in DOMAIN plan' |-> plan'[p]]
    BY <1>3 DEF NextPreviews
  <1>7. \A p \in DOMAIN plan' : plan'[p] \in Preview
    BY <1>4, <1>5, NextPreviewIsNewer
  <1> QED  BY <1>1, <1>2, <1>4, <1>5, <1>6, <1>7

LEMMA TypedNext ==
    ASSUME Typed, [Next]_vars
    PROVE  Typed'
  <1> USE DEF tags, registry, pending
  <1>0. /\ log \in Seq([level : Levels, touches : SUBSET Packages])
        /\ Len(log) \in Nat /\ Len(log) > 0
        /\ latest \in [Public -> Version] /\ next \in [Public -> Preview]
        /\ stableTag \in Nat /\ anyTag \in Nat /\ at \in Nat
        /\ stableTag <= Known /\ anyTag <= Known /\ Known \in 1..Len(log)
        /\ MaxRuns \in Nat /\ MaxFaults \in Nat
    BY PreviewAssumption DEF PreviewAssumption, Typed, TypeOK, Newest
  <1>1. ASSUME Land
        PROVE  Typed'
    <2>1. PICK kind \in CommitKinds : log' = Append(log, [level |-> kind[1], touches |-> kind[2]])
      BY <1>1 DEF Land
    <2>2. [level |-> kind[1], touches |-> kind[2]] \in [level : Levels, touches : SUBSET Packages]
      BY PreviewAssumption DEF PreviewAssumption
    <2>3. /\ log' \in Seq([level : Levels, touches : SUBSET Packages])
          /\ Len(log') = Len(log) + 1
      BY <1>0, <2>1, <2>2
    <2>4. Known' \in 1..Len(log') /\ Known' >= Known
      BY <1>0, <1>1, <2>3 DEF Land, Known, Newest
    <2> QED
      BY <1>0, <1>1, <2>3, <2>4 DEF Land, Typed, TypeOK, Newest
  <1>2. ASSUME NEW kind \in {"stable", "preview"}, Start(kind)
        PROVE  Typed'
    <2>1. /\ mode = "idle" /\ mode' = kind /\ at' = Newest /\ runs' = runs + 1
          /\ UNCHANGED <<log, tags, registry, torn, faults>>
      BY <1>2 DEF Start
    <2>2. Known' = Known
      BY <2>1 DEF Known, Newest
    <2>3. /\ left' = DOMAIN plan' /\ DOMAIN plan' \subseteq Public
          /\ kind = "stable" => plan' \in [DOMAIN plan' -> Version]
          /\ kind = "preview" => plan' \in [DOMAIN plan' -> Preview]
      BY <1>2, ReleasesPlanned, PreviewsPlanned
    <2> QED
      BY <1>0, <2>1, <2>2, <2>3 DEF Typed, TypeOK, Newest
  <1>3. ASSUME NEW p \in Public, PublishRelease(p)
        PROVE  Typed'
    <2>1. plan[p] \in Version
      BY <1>3 DEF PublishRelease, Typed, TypeOK
    <2> QED
      BY <1>0, <1>3, <2>1 DEF PublishRelease, Typed, TypeOK, Known, Newest
  <1>4. ASSUME NEW p \in Public, PublishPreview(p)
        PROVE  Typed'
    <2>1. plan[p] \in Preview
      BY <1>4 DEF PublishPreview, Typed, TypeOK
    <2> QED
      BY <1>0, <1>4, <2>1 DEF PublishPreview, Typed, TypeOK, Known, Newest
  <1>5. ASSUME Finish \/ Crash
        PROVE  Typed'
    <2>1. /\ mode' = "idle" /\ at' = 0 /\ left' = {} /\ DOMAIN plan' = {}
          /\ UNCHANGED <<log, registry, runs>>
      BY <1>5 DEF Finish, Crash, Reset
    <2>2. Known = at
      BY <1>5 DEF Finish, Crash, Known
    <2>3. Known' = Len(log)
      BY <2>1 DEF Known, Newest
    <2>4. stableTag' \in {stableTag, at} /\ anyTag' \in {anyTag, at}
      BY <1>5 DEF Finish, Crash
    <2>5. faults' \in Nat
      BY <1>5 DEF Finish, Crash, Typed, TypeOK
    <2>6. torn' \in BOOLEAN
      <3>1. CASE Finish
        BY <3>1, Zenon DEF Finish
      <3>2. CASE Crash
        BY <3>2, Zenon DEF Crash
      <3> QED  BY <1>5, <3>1, <3>2
    <2> QED
      BY <1>0, <2>1, <2>2, <2>3, <2>4, <2>5, <2>6 DEF Typed, TypeOK, Newest
  <1>6. ASSUME UNCHANGED vars
        PROVE  Typed'
    BY <1>6 DEF vars, Typed, TypeOK, Known, Newest
  <1> QED
    BY <1>1, <1>2, <1>3, <1>4, <1>5, <1>6 DEF Next

\* The variables keep their types.
THEOREM TypesHold == Spec => []Typed
  BY TypedInit, TypedNext, PTL DEF Spec

-----------------------------------------------------------------------------
(* The dist-tags go forward. *)

LEMMA GoesForwardNext ==
    ASSUME Typed, GoesForward, [Next]_vars
    PROVE  GoesForward'
  <1> USE DEF tags, registry, pending
  <1>0. /\ latest \in [Public -> Version] /\ next \in [Public -> Preview]
        /\ previews \in [Public -> SUBSET Preview] /\ releases \in [Public -> SUBSET Version]
        /\ left \subseteq DOMAIN plan /\ DOMAIN plan \subseteq Public
        /\ Public \subseteq Packages
    BY DEF Typed, TypeOK, Public
  <1>1. ASSUME UNCHANGED registry, mode' = "idle" \/ UNCHANGED <<mode, plan, left>>
        PROVE  GoesForward'
    BY <1>1 DEF GoesForward
  <1>2. ASSUME Start("stable")
        PROVE  GoesForward'
    <2>1. PICK commits : commits = CommitsSince(stableTag, Newest)
      OBVIOUS
    <2>2. UNCHANGED registry /\ mode' = "stable"
      BY <1>2 DEF Start
    <2>3. ASSUME NEW p \in left'
          PROVE  Older(latest[p], plan'[p])
      <3>1. /\ p \in Public /\ plan'[p] \in Version
            /\ Base(GroupOf[p]) \in Version /\ Older(Base(GroupOf[p]), plan'[p])
        BY <1>2, <2>1, <2>3, ReleasesPlanned, IncrementIsNewer
      <3>2. ~Older(Base(GroupOf[p]), latest[p])
        BY <1>0, <3>1, GroupBaseIsNewest DEF Base
      <3> QED  BY <1>0, <3>1, <3>2, OlderIsOrder
    <2> QED
      BY <2>2, <2>3 DEF GoesForward
  <1>3. ASSUME Start("preview")
        PROVE  GoesForward'
    <2>1. PICK commits : commits = CommitsSince(anyTag, Newest)
      OBVIOUS
    <2>2. UNCHANGED registry /\ mode' = "preview"
      BY <1>3 DEF Start
    <2>3. ASSUME NEW p \in left'
          PROVE  OlderPreview(next[p], plan'[p]) /\ Older(latest[p], plan'[p].core)
      <3>1. /\ p \in Public /\ plan'[p] \in Preview
            /\ Base(GroupOf[p]) \in Version /\ Older(Base(GroupOf[p]), plan'[p].core)
            /\ PreviewBase(GroupOf[p]) \in Preview
            /\ OlderPreview(PreviewBase(GroupOf[p]), plan'[p])
        BY <1>3, <2>1, <2>3, PreviewsPlanned, NextPreviewIsNewer
      <3>2. ~Older(Base(GroupOf[p]), latest[p])
        BY <1>0, <3>1, GroupBaseIsNewest DEF Base
      <3>3. ~OlderPreview(PreviewBase(GroupOf[p]), next[p])
        BY <1>0, <3>1, PreviewBaseIsNewest
      <3>4. plan'[p].core \in Version
        BY <3>1 DEF Preview
      <3>5. Older(latest[p], plan'[p].core)
        BY <1>0, <3>1, <3>2, <3>4, OlderIsOrder
      <3> QED  BY <1>0, <3>1, <3>3, <3>5, PreviewsAreOrdered
    <2> QED
      BY <2>2, <2>3 DEF GoesForward
  <1>4. ASSUME NEW p \in Public, PublishRelease(p)
        PROVE  GoesForward'
    <2>1. /\ mode = "stable" /\ p \in left /\ plan[p] \in Version
          /\ latest' = [latest EXCEPT ![p] = plan[p]]
          /\ releases' = [releases EXCEPT ![p] = @ \cup {plan[p]}]
          /\ left' = left \ {p} /\ UNCHANGED <<next, previews, mode, plan>>
      BY <1>4 DEF PublishRelease, Typed, TypeOK
    <2>2. Older(latest[p], plan[p])
      BY <2>1 DEF GoesForward
    <2>3. ASSUME NEW q \in Public, NEW v \in releases'[q]
          PROVE  ~Older(latest'[q], v)
      <3>1. CASE q = p
        <4>1. latest'[p] = plan[p] /\ (v = plan[p] \/ v \in releases[p])
          BY <1>0, <2>1, <2>3, <3>1
        <4>2. v \in releases[p] => ~Older(latest[p], v) /\ v \in Version
          BY <1>0 DEF GoesForward
        <4>3. v \in releases[p] => ~Older(plan[p], v)
          BY <1>0, <2>1, <2>2, <4>2, OlderIsOrder
        <4>4. ~Older(plan[p], plan[p])
          BY <2>1, OlderIsOrder
        <4> QED  BY <3>1, <4>1, <4>3, <4>4
      <3>2. CASE q # p
        BY <1>0, <2>1, <2>3, <3>2 DEF GoesForward
      <3> QED  BY <3>1, <3>2
    <2>4. \A q \in left' : Older(latest'[q], plan'[q])
      BY <1>0, <2>1 DEF GoesForward
    <2> QED
      BY <2>1, <2>3, <2>4 DEF GoesForward
  <1>5. ASSUME NEW p \in Public, PublishPreview(p)
        PROVE  GoesForward'
    <2>1. /\ mode = "preview" /\ p \in left /\ plan[p] \in Preview
          /\ next' = [next EXCEPT ![p] = plan[p]]
          /\ previews' = [previews EXCEPT ![p] = @ \cup {plan[p]}]
          /\ left' = left \ {p} /\ UNCHANGED <<latest, releases, mode, plan>>
      BY <1>5 DEF PublishPreview, Typed, TypeOK
    <2>2. OlderPreview(next[p], plan[p])
      BY <2>1 DEF GoesForward
    <2>3. ASSUME NEW q \in Public, NEW v \in previews'[q]
          PROVE  ~OlderPreview(next'[q], v)
      <3>1. CASE q = p
        <4>1. next'[p] = plan[p] /\ (v = plan[p] \/ v \in previews[p])
          BY <1>0, <2>1, <2>3, <3>1
        <4>2. v \in previews[p] => ~OlderPreview(next[p], v) /\ v \in Preview
          BY <1>0 DEF GoesForward
        <4>3. v \in previews[p] => OlderPreview(v, plan[p]) /\ ~OlderPreview(plan[p], v)
          BY <1>0, <2>1, <2>2, <4>2, PreviewsAreOrdered
        <4>4. ~OlderPreview(plan[p], plan[p])
          BY <2>1, PreviewsAreOrdered
        <4> QED  BY <3>1, <4>1, <4>3, <4>4
      <3>2. CASE q # p
        BY <1>0, <2>1, <2>3, <3>2 DEF GoesForward
      <3> QED  BY <3>1, <3>2
    <2>4. \A q \in left' : OlderPreview(next'[q], plan'[q]) /\ Older(latest'[q], plan'[q].core)
      BY <1>0, <2>1 DEF GoesForward
    <2> QED
      BY <2>1, <2>3, <2>4 DEF GoesForward
  <1>6. Land \/ Finish \/ Crash \/ UNCHANGED vars =>
            UNCHANGED registry /\ (mode' = "idle" \/ UNCHANGED <<mode, plan, left>>)
    BY DEF Land, Finish, Crash, Reset, vars
  <1> QED
    BY <1>1, <1>2, <1>3, <1>4, <1>5, <1>6 DEF Next

LEMMA GoesForwardInit == Init => GoesForward
  <1> SUFFICES ASSUME Init PROVE GoesForward
    OBVIOUS
  <1>1. mode = "idle" /\ \A p \in Public : previews[p] = {} /\ releases[p] = {latest[p]}
    BY DEF Init
  <1>2. \A p \in Public : latest[p] \in Version
    BY PreviewAssumption DEF Init, PreviewAssumption
  <1> QED  BY <1>1, <1>2, OlderIsOrder DEF GoesForward

\* A preview that is yet to be published is newer than every version of its
\* package, for every history of commits, runs and failures.
THEOREM PreviewsStayNew == Spec => []PreviewsAreNew
  <1>1. Typed /\ GoesForward => PreviewsAreNew
    <2> SUFFICES ASSUME Typed, GoesForward, mode = "preview", NEW p \in left
                 PROVE  /\ \A v \in previews[p] : OlderPreview(v, plan[p])
                        /\ \A v \in releases[p] : Older(v, plan[p].core)
      BY DEF PreviewsAreNew
    <2>1. /\ p \in Public /\ plan[p] \in Preview /\ plan[p].core \in Version
          /\ next[p] \in Preview /\ latest[p] \in Version
          /\ previews[p] \subseteq Preview /\ releases[p] \subseteq Version
      BY DEF Typed, TypeOK, Preview
    <2>2. OlderPreview(next[p], plan[p]) /\ Older(latest[p], plan[p].core)
      BY DEF GoesForward
    <2>3. /\ \A v \in previews[p] : ~OlderPreview(next[p], v)
          /\ \A v \in releases[p] : ~Older(latest[p], v)
      BY <2>1 DEF GoesForward
    <2>4. \A v \in previews[p] : OlderPreview(v, plan[p])
      BY <2>1, <2>2, <2>3, PreviewsAreOrdered
    <2>5. \A v \in releases[p] : Older(v, plan[p].core)
      BY <2>1, <2>2, <2>3, OlderIsOrder
    <2> QED  BY <2>4, <2>5
  <1> QED  BY <1>1, GoesForwardInit, GoesForwardNext, TypesHold, PTL DEF Spec

-----------------------------------------------------------------------------
(* What previews announce. *)

\* The tags are on the branch, in order.
TagsInOrder ==
    /\ stableTag \in Nat /\ anyTag \in Nat /\ Known \in Nat /\ Newest \in Nat
    /\ 0 < stableTag /\ stableTag <= anyTag /\ anyTag <= Known /\ Known <= Newest

LEMMA RangesOfTags ==
    ASSUME Tagged, Typed, Announcing
    PROVE  /\ TagsInOrder
           /\ Unreleased \in Ranges /\ Previewed \in Ranges
           /\ CommitsSince(anyTag, Known) \in Ranges
           /\ CommitsSince(Known, Newest) \in Ranges
           /\ Unreleased = Previewed \cup CommitsSince(anyTag, Known)
           /\ CommitsSince(stableTag, Newest) = Unreleased \cup CommitsSince(Known, Newest)
  <1>1. TagsInOrder
    BY DEF Typed, TypeOK, Announcing, TagsInOrder, Newest
  <1>2. anyTag \in 1..Newest /\ Known \in 1..Newest /\ Newest \in 1..Newest
    BY <1>1 DEF TagsInOrder
  <1>3. /\ Unreleased \in Ranges /\ Previewed \in Ranges
        /\ CommitsSince(anyTag, Known) \in Ranges
        /\ CommitsSince(Known, Newest) \in Ranges
    BY <1>2, RangesAreTyped DEF Unreleased, Previewed
  <1>4. /\ Unreleased = Previewed \cup CommitsSince(anyTag, Known)
        /\ CommitsSince(stableTag, Newest) = Unreleased \cup CommitsSince(Known, Newest)
    BY <1>1, RangeSplits DEF TagsInOrder, Unreleased, Previewed
  <1> QED  BY <1>1, <1>3, <1>4

\* Without private members, a group that has nothing public to release has
\* nothing to release.
LEMMA NothingOfGroup ==
    ASSUME PublicGroups, NEW commits \in Ranges, NEW p \in Public,
           \A q \in Public \cap Bumped(commits) : GroupOf[q] # GroupOf[p]
    PROVE  GroupStrategy(commits, GroupOf[p]) = "none"
  <1> SUFFICES ASSUME GroupStrategy(commits, GroupOf[p]) # "none" PROVE FALSE
    OBVIOUS
  <1>1. PICK q \in Bumped(commits) : GroupOf[q] = GroupOf[p]
    BY GroupIsBumped
  <1>2. q \in Packages
    <2>1. \A c \in Bumping(commits) : c.touches \subseteq Packages
      BY DEF Ranges, Bumping
    <2>2. DOMAIN ExplicitStrategies(commits) \subseteq Packages
      <3>1. UNION {c.touches : c \in Bumping(commits)} \subseteq Packages
        BY <2>1
      <3> QED  BY <3>1, WhatIsBumped, Zenon
    <2> QED  BY <2>2, WhatIsBumped, DependentsArePackages DEF Bumped
  <1> QED  BY <1>1, <1>2 DEF PublicGroups, Public

\* A step that leaves the versions of a group keeps what its preview announces.
LEMMA AnnouncesKept ==
    ASSUME Tagged, Typed, Announcing, NEW p \in Public, NEW g, g = GroupOf[p],
           Base(g)' = Base(g), Core(g)' = Core(g),
           NEW more \in Ranges, Unreleased' = Unreleased \cup more,
           PublicGroups => GroupStrategy(Previewed', g) = GroupStrategy(Previewed, g),
           Broken => Broken'
    PROVE  GroupAnnounces(g)'
  <1>1. GroupAnnounces(g) /\ Unreleased \in Ranges
    BY RangesOfTags DEF Announcing
  <1>2. /\ Rank[GroupStrategy(Unreleased, g)] \in 0..3
        /\ Rank[GroupStrategy(Unreleased', g)] \in 0..3
        /\ Rank[GroupStrategy(Unreleased, g)] <= Rank[GroupStrategy(Unreleased', g)]
        /\ Bumped(Unreleased) \subseteq Bumped(Unreleased')
    BY <1>1, MoreIsAsked, GroupStrategyIsRanked
  <1>3. ASSUME Older(Base(g)', Core(g)')
        PROVE  /\ \E q \in Public \cap Bumped(Unreleased') : GroupOf[q] = g
               /\ \E s \in Strategies :
                      /\ Core(g)' = Increment(Base(g)', s)
                      /\ Rank[s] <= Rank[GroupStrategy(Unreleased', g)]
                      /\ PublicGroups /\ ~Broken' =>
                             Rank[GroupStrategy(Previewed', g)] <= Rank[s]
    <2>1. /\ \E q \in Public \cap Bumped(Unreleased) : GroupOf[q] = g
          /\ \E s \in Strategies :
                 /\ Core(g) = Increment(Base(g), s)
                 /\ Rank[s] <= Rank[GroupStrategy(Unreleased, g)]
                 /\ PublicGroups /\ ~Broken => Rank[GroupStrategy(Previewed, g)] <= Rank[s]
      BY <1>1, <1>3 DEF GroupAnnounces
    <2>2. PICK s \in Strategies :
              /\ Core(g) = Increment(Base(g), s)
              /\ Rank[s] <= Rank[GroupStrategy(Unreleased, g)]
              /\ PublicGroups /\ ~Broken => Rank[GroupStrategy(Previewed, g)] <= Rank[s]
      BY <2>1
    <2>3. Rank[s] <= Rank[GroupStrategy(Unreleased', g)]
      BY <1>2, <2>2, RanksDiffer
    <2> QED  BY <1>2, <2>1, <2>2, <2>3
  <1>4. PublicGroups /\ ~Broken' /\ ~Older(Base(g)', Core(g)') =>
            GroupStrategy(Previewed', g) = "none"
    BY <1>1 DEF GroupAnnounces
  <1> QED  BY <1>3, <1>4 DEF GroupAnnounces

LEMMA AnnouncingInit ==
    ASSUME Tagged, Init PROVE Announcing
  <1>1. Typed
    BY TypedInit
  <1>2. /\ latest \in [Public -> Version] /\ next \in [Public -> Preview]
        /\ Public \subseteq Packages
    BY <1>1 DEF Typed, TypeOK, Public
  <1>3. /\ mode = "idle" /\ stableTag = 1 /\ anyTag = 1 /\ Known = Newest /\ Newest >= 1
    BY <1>1 DEF Init, Known, Newest, Typed
  <1>4. ASSUME NEW g
        PROVE  GroupAnnounces(g)
    <2>1. Core(g) = Unpublished
      <3>1. \A p \in Public : next[p] = NoPreview
        BY DEF Init
      <3> QED  BY <1>2, <3>1, PreviewBaseIsNewest DEF Core, NoPreview
    <2>2. ~Older(Base(g), Core(g))
      BY <1>2, <2>1, GroupBaseIsNewest DEF Base
    <2>3. GroupStrategy(Previewed, g) = "none"
      BY <1>3, RangeIsEmpty, NothingIsAsked DEF Previewed
    <2> QED  BY <2>2, <2>3 DEF GroupAnnounces
  <1> QED
    BY <1>3, <1>4 DEF Announcing, PlansPreviews, PlansReleases, Newest

\* A commit lands.
LEMMA AnnouncingLand ==
    ASSUME Tagged, Typed, Announcing, Land
    PROVE  Announcing'
  <1> USE DEF tags, registry, pending
  <1>1. /\ UNCHANGED <<stableTag, anyTag, latest, next, mode, at, plan, left, torn>>
        /\ \E kind \in CommitKinds : log' = Append(log, [level |-> kind[1], touches |-> kind[2]])
    BY DEF Land
  <1>2. PICK c \in [level : Levels, touches : SUBSET Packages] : log' = Append(log, c)
    BY <1>1, PreviewAssumption DEF PreviewAssumption
  <1>3. TagsInOrder
    BY RangesOfTags
  <1>4. PICK n \in Nat : n = Len(log)
    BY <1>3 DEF TagsInOrder, Newest
  <1>5. /\ Len(log') = n + 1 /\ log'[n + 1] = c
        /\ \A i \in 1..n : log'[i] = log[i]
    BY <1>2, <1>4 DEF Typed, TypeOK
  <1>6. ASSUME NEW tag \in Nat, NEW to \in Nat, to <= n
        PROVE  CommitsSince(tag, to)' = CommitsSince(tag, to)
    <2>1. \A i \in {j \in 1..to : IF tag = 0 THEN j = to ELSE j > tag} : log'[i] = log[i]
      BY <1>4, <1>5, <1>6
    <2> QED  BY <2>1 DEF CommitsSince
  <1>7. PICK st \in Nat, any \in Nat, known \in Nat :
            /\ st = stableTag /\ any = anyTag /\ known = Known
            /\ 0 < st /\ st <= any /\ any <= known /\ known <= n
    BY <1>3, <1>4 DEF TagsInOrder, Newest
  <1>8. /\ stableTag' = st /\ anyTag' = any /\ Newest' = n + 1
        /\ mode # "idle" => Known' = known /\ at = known
        /\ mode = "idle" => Known' = n + 1 /\ known = n
    BY <1>1, <1>4, <1>5, <1>7 DEF Known, Newest
  <1>9. /\ CommitsSince(st, any)' = CommitsSince(st, any)
        /\ CommitsSince(any, known)' = CommitsSince(any, known)
        /\ CommitsSince(st, known)' = CommitsSince(st, known)
    BY <1>6, <1>7
  <1>10. Previewed' = Previewed
    BY <1>7, <1>8, <1>9 DEF Previewed, CommitsSince
  <1>11. /\ mode # "idle" => Unreleased' = Unreleased
         /\ mode = "idle" => Unreleased' = Unreleased \cup {c}
    <2>1. CASE mode # "idle"
      BY <1>7, <1>8, <1>9, <2>1 DEF Unreleased, CommitsSince
    <2>2. CASE mode = "idle"
      <3>1. Unreleased' = {log'[i] : i \in {j \in 1..(n + 1) : j > st}}
        BY <1>7, <1>8, <2>2 DEF Unreleased, CommitsSince
      <3>2. Unreleased = {log[i] : i \in {j \in 1..n : j > st}}
        BY <1>7, <1>8, <2>2 DEF Unreleased, CommitsSince
      <3>3. {j \in 1..(n + 1) : j > st} = {j \in 1..n : j > st} \cup {n + 1}
        BY <1>7
      <3>4. \A i \in {j \in 1..n : j > st} : log'[i] = log[i]
        BY <1>5
      <3> QED  BY <1>5, <2>2, <3>1, <3>2, <3>3, <3>4
    <2> QED  BY <2>1, <2>2
  <1>12. /\ {c} \in Ranges /\ {} \in Ranges
         /\ \E more \in Ranges : Unreleased' = Unreleased \cup more
    <2>1. {c} \in Ranges /\ {} \in Ranges
      BY DEF Ranges
    <2>2. Unreleased' = Unreleased \cup {} \/ Unreleased' = Unreleased \cup {c}
      BY <1>11
    <2> QED  BY <2>1, <2>2
  <1>13. Broken' = Broken
    BY <1>1 DEF Broken
  <1>14. ASSUME NEW g
         PROVE  Base(g)' = Base(g) /\ Core(g)' = Core(g) /\ PreviewBase(g)' = PreviewBase(g)
    BY <1>1 DEF Base, Core, PreviewBase
  <1>15. ASSUME NEW p \in Public
         PROVE  GroupAnnounces(GroupOf[p])'
    BY <1>10, <1>12, <1>13, <1>14, AnnouncesKept
  <1>16. PlansPreviews'
    <2> SUFFICES ASSUME mode = "preview" PROVE PlansPreviews'
      BY <1>1 DEF PlansPreviews
    <2>1. Unreleased' = Unreleased
      BY <1>11
    <2>2. CommitsSince(anyTag, at)' = CommitsSince(anyTag, at)
      BY <1>1, <1>7, <1>8, <1>9 DEF CommitsSince
    <2>3. PlansPreviews
      BY DEF Announcing
    <2> QED  BY <1>1, <1>14, <2>1, <2>2, <2>3 DEF PlansPreviews
  <1>17. PlansReleases'
    BY <1>1, <1>11, <1>14 DEF PlansReleases, Announcing
  <1>18. stableTag' <= anyTag' /\ anyTag' <= Known' /\ Known' <= Newest' /\ stableTag' > 0
    BY <1>7, <1>8
  <1> QED  BY <1>15, <1>16, <1>17, <1>18 DEF Announcing

\* A step that leaves the versions and the tags keeps what previews announce.
LEMMA AnnouncesStay ==
    ASSUME Tagged, Typed, Announcing, UNCHANGED <<log, tags, latest, next>>,
           NEW more \in Ranges, Unreleased' = Unreleased \cup more, Broken => Broken'
    PROVE  \A p \in Public : GroupAnnounces(GroupOf[p])'
  <1>1. Previewed' = Previewed
    BY DEF tags, Previewed, CommitsSince
  <1>2. ASSUME NEW g
        PROVE  Base(g)' = Base(g) /\ Core(g)' = Core(g)
    BY DEF Base, Core, PreviewBase
  <1> QED  BY <1>1, <1>2, AnnouncesKept

\* A run starts.
LEMMA StartKeeps ==
    ASSUME Tagged, Typed, Announcing, NEW kind \in {"stable", "preview"}, Start(kind)
    PROVE  /\ mode = "idle" /\ mode' = kind /\ UNCHANGED <<log, tags, registry, torn>>
           /\ Known = Newest /\ Known' = Known /\ Unreleased' = Unreleased
           /\ \A p \in Public : GroupAnnounces(GroupOf[p])'
           /\ \A g : Base(g)' = Base(g) /\ Core(g)' = Core(g) /\ PreviewBase(g)' = PreviewBase(g)
           /\ stableTag' <= anyTag' /\ anyTag' <= Known' /\ Known' <= Newest' /\ stableTag' > 0
  <1>1. /\ mode = "idle" /\ mode' = kind /\ UNCHANGED <<log, tags, registry, torn>>
        /\ at' = Newest /\ left' = DOMAIN plan'
    BY DEF Start
  <1>2. Known = Newest /\ Known' = Known /\ Newest' = Newest
    BY <1>1 DEF Known, Newest
  <1>3. Unreleased' = Unreleased
    BY <1>1, <1>2 DEF Unreleased, CommitsSince, tags
  <1>4. Broken => Broken'
    BY <1>1 DEF Broken
  <1>5. {} \in Ranges /\ Unreleased' = Unreleased \cup {}
    BY <1>3 DEF Ranges
  <1>6. UNCHANGED <<latest, next, stableTag, anyTag>>
    BY <1>1 DEF registry, tags
  <1>7. \A p \in Public : GroupAnnounces(GroupOf[p])'
    BY <1>1, <1>4, <1>5, <1>6, AnnouncesStay
  <1>8. ASSUME NEW g
        PROVE  Base(g)' = Base(g) /\ Core(g)' = Core(g) /\ PreviewBase(g)' = PreviewBase(g)
    BY <1>6 DEF Base, Core, PreviewBase
  <1>9. stableTag' <= anyTag' /\ anyTag' <= Known' /\ Known' <= Newest' /\ stableTag' > 0
    BY <1>2, <1>6, RangesOfTags DEF TagsInOrder
  <1> QED  BY <1>1, <1>2, <1>3, <1>7, <1>8, <1>9

LEMMA AnnouncingStable ==
    ASSUME Tagged, Typed, Announcing, Start("stable")
    PROVE  Announcing'
  <1>1. PICK commits : commits = CommitsSince(stableTag, Newest)
    OBVIOUS
  <1>2. commits = Unreleased /\ Unreleased' = Unreleased /\ mode' = "stable" /\ left' = DOMAIN plan'
    BY <1>1, StartKeeps DEF Unreleased, Start
  <1>3. ASSUME NEW p \in DOMAIN plan', NEW g, g = GroupOf[p]
        PROVE  ~Older(plan'[p], Core(g))
    <2>1. /\ p \in Public /\ plan'[p] \in Version
          /\ Base(g) \in Version
          /\ GroupStrategy(Unreleased, g) \in Strategies
          /\ plan'[p] = Increment(Base(g), GroupStrategy(Unreleased, g))
      BY <1>1, <1>2, <1>3, ReleasesPlanned
    <2>2. GroupAnnounces(g)
      BY <1>3, <2>1 DEF Announcing
    <2>3. Core(g) \in Version
      BY PreviewBaseIsNewest DEF Core, Preview, Typed, TypeOK
    <2>4. CASE Older(Base(g), Core(g))
      <3>1. PICK s \in Strategies : /\ Core(g) = Increment(Base(g), s)
                                    /\ Rank[s] <= Rank[GroupStrategy(Unreleased, g)]
        BY <2>2, <2>4 DEF GroupAnnounces
      <3> QED  BY <2>1, <3>1, IncrementGrows
    <2>5. CASE ~Older(Base(g), Core(g))
      <3>1. Older(Base(g), plan'[p])
        BY <2>1, IncrementIsNewer
      <3> QED  BY <2>1, <2>3, <2>5, <3>1, OlderIsOrder
    <2> QED  BY <2>4, <2>5
  <1>4. /\ DOMAIN plan' = Public \cap Bumped(Unreleased)
        /\ \A p \in DOMAIN plan' : plan'[p] \in Version
    BY <1>1, <1>2, ReleasesPlanned
  <1>5. \A p \in DOMAIN plan' : ~Older(plan'[p], Core(GroupOf[p])')
    BY <1>3, StartKeeps
  <1>6. PlansReleases'
    BY <1>2, <1>4, <1>5 DEF PlansReleases
  <1>7. PlansPreviews'
    BY <1>2 DEF PlansPreviews
  <1> QED  BY <1>6, <1>7, StartKeeps DEF Announcing

LEMMA AnnouncingPreview ==
    ASSUME Tagged, Typed, Announcing, Start("preview")
    PROVE  Announcing'
  <1>1. PICK commits : commits = CommitsSince(anyTag, Newest)
    OBVIOUS
  <1>2. /\ Unreleased' = Unreleased /\ mode = "idle" /\ mode' = "preview"
        /\ left' = DOMAIN plan' /\ at' = Newest /\ anyTag' = anyTag /\ torn' = torn /\ log' = log
    BY StartKeeps DEF Start, tags
  <1>3. /\ Unreleased = Previewed \cup commits
        /\ Unreleased \in Ranges /\ Previewed \in Ranges /\ commits \in Ranges
    BY <1>1, RangesOfTags, StartKeeps
  <1>4. CommitsSince(anyTag, at)' = commits
    BY <1>1, <1>2 DEF CommitsSince
  <1>5. ASSUME NEW p \in DOMAIN plan', NEW g, g = GroupOf[p]
        PROVE  /\ ~OlderPreview(plan'[p], PreviewBase(g))
               /\ Older(Base(g), plan'[p].core)
               /\ \E s \in Strategies :
                      /\ plan'[p].core = Increment(Base(g), s)
                      /\ Rank[s] <= Rank[GroupStrategy(Unreleased, g)]
                      /\ PublicGroups /\ ~torn => s = GroupStrategy(Unreleased, g)
    <2> DEFINE t == GroupStrategy(commits, g)
               u == GroupStrategy(Unreleased, g)
               w == GroupStrategy(Previewed, g)
    <2>1. /\ p \in Public /\ plan'[p] \in Preview
          /\ Base(g) \in Version /\ PreviewBase(g) \in Preview
          /\ t \in Strategies
          /\ plan'[p] = IncrementPreview(Base(g), PreviewBase(g), t)
      BY <1>1, <1>5, PreviewsPlanned
    <2>2. GroupAnnounces(g)
      BY <1>5, <2>1 DEF Announcing
    <2>3. /\ u = Larger(w, t) /\ w \in Levels /\ u \in Levels
          /\ Rank[u] \in 0..3 /\ Rank[w] \in 0..3 /\ Rank[t] \in 0..3
          /\ Rank[t] <= Rank[u] /\ Rank[w] <= Rank[u]
      BY <1>3, GroupStrategyUnion, GroupStrategyIsRanked, MoreIsAsked
    <2> HIDE DEF t, u, w
    <2>4. u \in Strategies
      BY <2>1, <2>3, RanksDiffer
    <2>5. ~Broken <=> ~torn
      BY <1>2 DEF Broken
    <2>6. \E s \in Strategies :
              /\ plan'[p].core = Increment(Base(g), s)
              /\ Rank[s] <= Rank[u]
              /\ PublicGroups /\ ~torn => s = u
      <3>1. CASE ~Older(Base(g), Core(g))
        <4>1. plan'[p].core = Increment(Base(g), t)
          BY <2>1, <3>1, NextPreviewAnnounces DEF Core
        <4>2. PublicGroups /\ ~torn => w = "none"
          BY <2>2, <2>5, <3>1 DEF GroupAnnounces, w
        <4>3. w = "none" => u = t
          BY <2>1, <2>3, RanksDiffer DEF Larger
        <4> QED  BY <2>1, <2>3, <4>1, <4>2, <4>3
      <3>2. CASE Older(Base(g), Core(g))
        <4>1. PICK a \in Strategies : /\ Core(g) = Increment(Base(g), a)
                                      /\ Rank[a] <= Rank[u]
                                      /\ PublicGroups /\ ~torn => Rank[w] <= Rank[a]
          BY <2>2, <2>5, <3>2 DEF GroupAnnounces, u, w
        <4>2. plan'[p].core = Increment(Base(g), Larger(a, t))
          BY <2>1, <3>2, <4>1, NextPreviewAnnounces DEF Core
        <4>3. /\ Larger(a, t) \in Strategies
              /\ Rank[a] <= Rank[Larger(a, t)] /\ Rank[t] <= Rank[Larger(a, t)]
              /\ Larger(a, t) = a \/ Larger(a, t) = t
          BY <2>1, <4>1, RanksDiffer
        <4>4. Rank[Larger(a, t)] <= Rank[u]
          BY <2>3, <4>1, <4>3
        <4>5. ASSUME Rank[w] <= Rank[a]
              PROVE  Larger(a, t) = u
          <5>1. Rank[a] \in 1..3
            BY <4>1, RanksDiffer
          <5>2. Rank[u] = Rank[w] \/ Rank[u] = Rank[t]
            BY <2>3 DEF Larger
          <5>3. Rank[Larger(a, t)] \in 1..3
            BY <4>3, RanksDiffer
          <5>4. Rank[Larger(a, t)] = Rank[u]
            BY <2>3, <4>3, <4>4, <4>5, <5>1, <5>2, <5>3
          <5> QED  BY <2>4, <4>3, <5>4, RanksDiffer DEF Strategies
        <4> QED  BY <4>1, <4>2, <4>3, <4>4, <4>5
      <3> QED  BY <3>1, <3>2
    <2>7. OlderPreview(PreviewBase(g), plan'[p]) /\ Older(Base(g), plan'[p].core)
      BY <2>1, NextPreviewIsNewer
    <2>8. ~OlderPreview(plan'[p], PreviewBase(g))
      BY <2>1, <2>7, PreviewsAreOrdered
    <2> QED  BY <2>6, <2>7, <2>8 DEF u
  <1>6. /\ DOMAIN plan' = Public \cap Bumped(commits)
        /\ \A p \in DOMAIN plan' : plan'[p] \in Preview
        /\ \A p, q \in DOMAIN plan' : GroupOf[q] = GroupOf[p] => plan'[q] = plan'[p]
    BY <1>1, PreviewsPlanned
  <1>7. PlansPreviews'
    <2>1. \A p \in DOMAIN plan' :
              /\ ~OlderPreview(plan'[p], PreviewBase(GroupOf[p])')
              /\ Older(Base(GroupOf[p])', plan'[p].core)
              /\ \E s \in Strategies :
                     /\ plan'[p].core = Increment(Base(GroupOf[p])', s)
                     /\ Rank[s] <= Rank[GroupStrategy(Unreleased', GroupOf[p])]
                     /\ PublicGroups /\ ~torn' => s = GroupStrategy(Unreleased', GroupOf[p])
      BY <1>2, <1>5, StartKeeps
    <2> QED  BY <1>2, <1>4, <1>6, <2>1 DEF PlansPreviews
  <1>8. PlansReleases'
    BY <1>2 DEF PlansReleases
  <1> QED  BY <1>7, <1>8, StartKeeps DEF Announcing

\* A run uploads a version.
LEMMA AnnouncingRelease ==
    ASSUME Tagged, Typed, Announcing, NEW p \in Public, PublishRelease(p)
    PROVE  Announcing'
  <1> DEFINE g == GroupOf[p]
  <1>1. /\ mode = "stable" /\ p \in left /\ p \in DOMAIN plan /\ plan[p] \in Version
        /\ latest' = [latest EXCEPT ![p] = plan[p]] /\ left' = left \ {p}
        /\ UNCHANGED <<log, stableTag, anyTag, next, mode, at, plan, torn>>
    BY DEF PublishRelease, Typed, TypeOK, tags
  <1>2. /\ latest \in [Public -> Version] /\ latest' \in [Public -> Version]
        /\ next \in [Public -> Preview] /\ Public \subseteq Packages
        /\ left \subseteq DOMAIN plan /\ DOMAIN plan \subseteq Public
    BY <1>1 DEF Typed, TypeOK, Public
  <1>3. /\ Known' = Known /\ Newest' = Newest /\ Unreleased' = Unreleased /\ Previewed' = Previewed
    BY <1>1 DEF Known, Newest, Unreleased, Previewed, CommitsSince
  <1>4. \A h : Core(h)' = Core(h)
    BY <1>1 DEF Core, PreviewBase
  <1>5. ~Older(plan[p], Core(g))
    BY <1>1 DEF Announcing, PlansReleases
  <1>6. ~Older(Base(g)', Core(g))
    <2>1. /\ GroupBase(g, latest') \in Version
          /\ ~Older(GroupBase(g, latest'), latest'[p])
      BY <1>2, GroupBaseIsNewest
    <2>2. latest'[p] = plan[p] /\ Core(g) \in Version /\ Base(g)' = GroupBase(g, latest')
      BY <1>1, <1>2, PreviewBaseIsNewest DEF Core, Preview, Base
    <2> QED  BY <1>1, <1>5, <2>1, <2>2, OlderIsOrder
  <1>7. Broken'
    BY <1>1, <1>2 DEF Broken
  <1>8. GroupAnnounces(g)'
    <2>1. ~Older(Base(g)', Core(g)')
      BY <1>4, <1>6
    <2> HIDE DEF g
    <2> QED  BY <1>7, <2>1 DEF GroupAnnounces
  <1>9. ASSUME NEW q \in Public, GroupOf[q] # g
        PROVE  GroupAnnounces(GroupOf[q])'
    <2> DEFINE h == GroupOf[q]
    <2>1. DOMAIN latest' = Public /\ DOMAIN latest = Public
      BY <1>2
    <2>2. \A r \in {r \in Public : GroupOf[r] = h} : latest'[r] = latest[r]
      BY <1>1, <1>2, <1>9
    <2>3. {latest'[r] : r \in {r \in Public : GroupOf[r] = h}} =
              {latest[r] : r \in {r \in Public : GroupOf[r] = h}}
      BY <2>2
    <2>4. Base(h)' = Base(h)
      BY <2>1, <2>3 DEF Base, GroupBase
    <2>5. {} \in Ranges /\ Unreleased' = Unreleased \cup {}
      BY <1>3 DEF Ranges
    <2> HIDE DEF h
    <2> QED  BY <1>3, <1>4, <1>7, <2>4, <2>5, AnnouncesKept DEF h
  <1>10. PlansReleases'
    <2>1. \A q \in DOMAIN plan \ left' : latest'[q] = plan[q]
      BY <1>1, <1>2 DEF Announcing, PlansReleases
    <2> QED  BY <1>1, <1>3, <1>4, <2>1 DEF Announcing, PlansReleases
  <1>11. PlansPreviews'
    BY <1>1 DEF PlansPreviews
  <1>12. stableTag' <= anyTag' /\ anyTag' <= Known' /\ Known' <= Newest' /\ stableTag' > 0
    BY <1>1, <1>3, RangesOfTags DEF TagsInOrder
  <1>13. \A q \in Public : GroupAnnounces(GroupOf[q])'
    BY <1>8, <1>9
  <1> QED  BY <1>10, <1>11, <1>12, <1>13 DEF Announcing

LEMMA AnnouncingUpload ==
    ASSUME Tagged, Typed, Announcing, NEW p \in Public, PublishPreview(p)
    PROVE  Announcing'
  <1> DEFINE g == GroupOf[p]
  <1>1. /\ mode = "preview" /\ p \in left /\ p \in DOMAIN plan /\ plan[p] \in Preview
        /\ next' = [next EXCEPT ![p] = plan[p]] /\ left' = left \ {p}
        /\ UNCHANGED <<log, stableTag, anyTag, latest, mode, at, plan, torn>>
    BY DEF PublishPreview, Typed, TypeOK, tags
  <1>2. /\ latest \in [Public -> Version] /\ next' \in [Public -> Preview]
        /\ next \in [Public -> Preview] /\ Public \subseteq Packages
        /\ left \subseteq DOMAIN plan /\ DOMAIN plan \subseteq Public
    BY <1>1 DEF Typed, TypeOK, Public
  <1>3. /\ Known' = Known /\ Known = at /\ Newest' = Newest
        /\ Unreleased' = Unreleased /\ Previewed' = Previewed
        /\ CommitsSince(anyTag, at)' = CommitsSince(anyTag, at)
    BY <1>1 DEF Known, Newest, Unreleased, Previewed, CommitsSince
  <1>4. \A h : Base(h)' = Base(h)
    BY <1>1 DEF Base
  <1>5. PlansPreviews
    BY DEF Announcing
  <1>6. /\ ~OlderPreview(plan[p], PreviewBase(g)) /\ Older(Base(g), plan[p].core)
        /\ p \in Public \cap Bumped(CommitsSince(anyTag, at))
        /\ \E s \in Strategies :
               /\ plan[p].core = Increment(Base(g), s)
               /\ Rank[s] <= Rank[GroupStrategy(Unreleased, g)]
               /\ PublicGroups /\ ~torn => s = GroupStrategy(Unreleased, g)
    BY <1>1, <1>5 DEF PlansPreviews
  <1>7. PreviewBase(g)' = plan[p]
    <2>1. PICK x : x = PreviewBase(g)'
      OBVIOUS
    <2>2. x = NewestOf(g, next')
      BY <2>1 DEF PreviewBase, NewestOf
    <2>3. /\ x \in Preview
          /\ \A q \in Public : GroupOf[q] = g => ~OlderPreview(x, next'[q])
          /\ \/ x = NoPreview
             \/ \E q \in Public : GroupOf[q] = g /\ x = next'[q]
      BY <1>2, <2>2, NewestOfIsNewest
    <2>4. next'[p] = plan[p] /\ \A q \in Public : q # p => next'[q] = next[q]
      BY <1>1, <1>2
    <2>5. ~OlderPreview(x, plan[p])
      BY <2>3, <2>4
    <2>6. ~OlderPreview(plan[p], x)
      <3>1. CASE x = NoPreview
        <4>1. Base(g) \in Version /\ ~Older(Base(g), Unpublished)
          BY <1>2, GroupBaseIsNewest DEF Base
        <4>2. plan[p].core \in Version /\ Unpublished \in Version
          BY <1>1, NoPreviewIsPreview DEF Preview, NoPreview
        <4>3. Older(Unpublished, plan[p].core)
          BY <1>6, <4>1, <4>2, OlderIsOrder
        <4>4. OlderPreview(x, plan[p])
          BY <3>1, <4>3 DEF OlderPreview, NoPreview
        <4> QED  BY <2>5, <4>4
      <3>2. CASE \E q \in Public : GroupOf[q] = g /\ x = next'[q]
        <4>1. PICK q \in Public : GroupOf[q] = g /\ x = next'[q]
          BY <3>2
        <4>2. CASE q = p
          BY <1>1, <2>4, <4>1, <4>2, PreviewsAreOrdered
        <4>3. CASE q # p
          <5>1. x = next[q] /\ next[q] \in Preview
            BY <1>2, <2>4, <4>1, <4>3
          <5>2. ~OlderPreview(PreviewBase(g), next[q]) /\ PreviewBase(g) \in Preview
            BY <1>2, <4>1, PreviewBaseIsNewest
          <5> QED  BY <1>1, <1>6, <5>1, <5>2, PreviewsAreOrdered
        <4> QED  BY <4>2, <4>3
      <3> QED  BY <2>3, <3>1, <3>2
    <2> QED  BY <1>1, <2>1, <2>3, <2>5, <2>6, PreviewsAreOrdered
  <1>8. Broken' <=> torn
    BY <1>1 DEF Broken
  <1>9. GroupAnnounces(g)'
    <2>1. /\ Unreleased = Previewed \cup CommitsSince(anyTag, at)
          /\ Previewed \in Ranges /\ CommitsSince(anyTag, at) \in Ranges
      BY <1>3, RangesOfTags
    <2>2. /\ p \in Public \cap Bumped(Unreleased)
          /\ Rank[GroupStrategy(Previewed, g)] <= Rank[GroupStrategy(Unreleased, g)]
      BY <1>6, <2>1, MoreIsAsked
    <2>3. /\ Base(g)' = Base(g) /\ Core(g)' = plan[p].core
      BY <1>4, <1>7 DEF Core
    <2>4. GroupOf[p] = g
      OBVIOUS
    <2> HIDE DEF g
    <2> QED  BY <1>3, <1>6, <1>8, <2>2, <2>3, <2>4 DEF GroupAnnounces
  <1>10. ASSUME NEW q \in Public, NEW h, h = GroupOf[q], h # g
         PROVE  PreviewBase(h)' = PreviewBase(h)
    <2>1. \A r \in {r \in Public : GroupOf[r] = h} : next'[r] = next[r]
      BY <1>1, <1>2, <1>10
    <2>2. {next'[r] : r \in {r \in Public : GroupOf[r] = h}} =
              {next[r] : r \in {r \in Public : GroupOf[r] = h}}
      BY <2>1
    <2> QED  BY <2>2 DEF PreviewBase
  <1>11. ASSUME NEW q \in Public, GroupOf[q] # g
         PROVE  GroupAnnounces(GroupOf[q])'
    <2> DEFINE h == GroupOf[q]
    <2>1. Core(h)' = Core(h) /\ Base(h)' = Base(h)
      BY <1>4, <1>10, <1>11 DEF Core
    <2>2. {} \in Ranges /\ Unreleased' = Unreleased \cup {}
      BY <1>3 DEF Ranges
    <2>3. Broken => Broken'
      BY <1>1, <1>8 DEF Broken
    <2> HIDE DEF h
    <2> QED  BY <1>3, <2>1, <2>2, <2>3, AnnouncesKept DEF h
  <1>12. PlansPreviews'
    <2>1. ASSUME NEW q \in DOMAIN plan
          PROVE  ~OlderPreview(plan[q], PreviewBase(GroupOf[q])')
      <3>1. q \in Public
        BY <1>2
      <3>2. CASE GroupOf[q] = g
        <4>1. plan[q] = plan[p]
          BY <1>1, <1>5, <3>2 DEF PlansPreviews
        <4> QED  BY <1>1, <1>7, <3>2, <4>1, PreviewsAreOrdered
      <3>3. CASE GroupOf[q] # g
        BY <1>1, <1>5, <1>10, <3>1, <3>3 DEF PlansPreviews
      <3> QED  BY <3>2, <3>3
    <2>2. \A q \in DOMAIN plan \ left' : next'[q] = plan[q]
      BY <1>1, <1>2, <1>5 DEF PlansPreviews
    <2> HIDE DEF g
    <2> QED  BY <1>1, <1>3, <1>4, <1>5, <2>1, <2>2 DEF PlansPreviews
  <1>13. PlansReleases'
    BY <1>1 DEF PlansReleases
  <1>14. stableTag' <= anyTag' /\ anyTag' <= Known' /\ Known' <= Newest' /\ stableTag' > 0
    BY <1>1, <1>3, RangesOfTags DEF TagsInOrder
  <1>15. \A q \in Public : GroupAnnounces(GroupOf[q])'
    BY <1>9, <1>11
  <1> QED  BY <1>12, <1>13, <1>14, <1>15 DEF Announcing

\* A run ends.
LEMMA AnnouncingCrash ==
    ASSUME Tagged, Typed, Announcing, Crash
    PROVE  Announcing'
  <1>1. /\ mode # "idle" /\ mode' = "idle"
        /\ UNCHANGED <<log, stableTag, anyTag, latest, next>>
    BY DEF Crash, Reset, tags, registry
  <1>2. torn' <=> Broken
    BY Zenon DEF Crash, Broken
  <1>3. /\ TagsInOrder /\ Known' = Newest /\ Newest' = Newest
        /\ CommitsSince(stableTag, Newest) = Unreleased \cup CommitsSince(Known, Newest)
        /\ CommitsSince(Known, Newest) \in Ranges
    BY <1>1, RangesOfTags DEF Known, Newest
  <1>4. Unreleased' = Unreleased \cup CommitsSince(Known, Newest)
    <2>1. Unreleased' = CommitsSince(stableTag, Newest)
      BY <1>1, <1>3 DEF Unreleased, CommitsSince
    <2> QED  BY <1>3, <2>1
  <1>5. Broken => Broken'
    BY <1>2 DEF Broken
  <1>6. \A p \in Public : GroupAnnounces(GroupOf[p])'
    BY <1>1, <1>3, <1>4, <1>5, AnnouncesStay DEF tags
  <1>7. PlansPreviews' /\ PlansReleases'
    BY <1>1 DEF PlansPreviews, PlansReleases
  <1>8. stableTag' <= anyTag' /\ anyTag' <= Known' /\ Known' <= Newest' /\ stableTag' > 0
    BY <1>1, <1>3 DEF TagsInOrder
  <1> QED  BY <1>6, <1>7, <1>8 DEF Announcing

LEMMA AnnouncingFinish ==
    ASSUME Tagged, Typed, Announcing, Finish
    PROVE  Announcing'
  <1>1. /\ mode \in {"stable", "preview"} /\ mode' = "idle" /\ left = {}
        /\ UNCHANGED <<log, latest, next>>
        /\ anyTag' = IF plan # <<>> THEN at ELSE anyTag
        /\ stableTag' = IF mode = "stable" /\ plan # <<>> THEN at ELSE stableTag
    BY DEF Finish, Reset, registry, Typed, TypeOK
  <1>2. Broken' <=> torn /\ mode = "preview"
    <2>1. torn' <=> torn /\ mode # "stable"
      BY Zenon DEF Finish
    <2> QED  BY <1>1, <2>1 DEF Broken
  <1>3. /\ latest \in [Public -> Version] /\ next \in [Public -> Preview]
        /\ Public \subseteq Packages
    BY DEF Typed, TypeOK, Public
  <1>4. /\ TagsInOrder /\ Known = at /\ Known' = Newest /\ Newest' = Newest
        /\ Unreleased \in Ranges /\ Previewed \in Ranges
        /\ CommitsSince(anyTag, at) \in Ranges /\ CommitsSince(at, Newest) \in Ranges
        /\ Unreleased = Previewed \cup CommitsSince(anyTag, at)
        /\ CommitsSince(stableTag, Newest) = Unreleased \cup CommitsSince(at, Newest)
    BY <1>1, RangesOfTags DEF Known, Newest
  <1>5. ASSUME NEW g
        PROVE  Base(g)' = Base(g) /\ Core(g)' = Core(g)
    BY <1>1 DEF Base, Core, PreviewBase
  <1>6. PlansPreviews' /\ PlansReleases'
    BY <1>1 DEF PlansPreviews, PlansReleases
  <1>7. stableTag' <= anyTag' /\ anyTag' <= Known' /\ Known' <= Newest' /\ stableTag' > 0
    BY <1>1, <1>4 DEF TagsInOrder
  <1>8. stableTag' = stableTag => Unreleased' = Unreleased \cup CommitsSince(at, Newest)
    <2> SUFFICES ASSUME stableTag' = stableTag
                 PROVE  Unreleased' = Unreleased \cup CommitsSince(at, Newest)
      OBVIOUS
    <2>1. Unreleased' = CommitsSince(stableTag, Newest)
      BY <1>1, <1>4 DEF Unreleased, CommitsSince
    <2> QED  BY <1>4, <2>1
  <1>9. ASSUME mode = "stable", NEW p \in Public, NEW g, g = GroupOf[p]
        PROVE  GroupAnnounces(g)'
    <2>1. ~Older(Base(g), Core(g))
      <3> SUFFICES ASSUME Older(Base(g), Core(g)) PROVE FALSE
        OBVIOUS
      <3>1. PICK q \in Public \cap Bumped(Unreleased) : GroupOf[q] = g
        BY <1>9 DEF Announcing, GroupAnnounces
      <3>2. /\ q \in DOMAIN plan /\ plan[q] \in Version /\ latest[q] = plan[q]
            /\ ~Older(plan[q], Core(g))
        BY <1>1, <1>9, <3>1 DEF Announcing, PlansReleases
      <3>3. /\ Base(g) \in Version /\ ~Older(Base(g), latest[q])
        BY <1>3, <3>1, GroupBaseIsNewest DEF Base
      <3>4. Core(g) \in Version
        BY <1>3, PreviewBaseIsNewest DEF Core, Preview
      <3> QED  BY <3>2, <3>3, <3>4, OlderIsOrder
    <2>2. PublicGroups => GroupStrategy(Previewed', g) = "none"
      <3>1. CASE plan # <<>>
        <4>1. Previewed' = CommitsSince(at, at)
          BY <1>1, <1>9, <3>1 DEF Previewed, CommitsSince
        <4>2. CommitsSince(at, at) = {}
          BY <1>4, RangeIsEmpty DEF TagsInOrder
        <4> QED  BY <4>1, <4>2, NothingIsAsked
      <3>2. CASE plan = <<>>
        <4> SUFFICES ASSUME PublicGroups PROVE GroupStrategy(Previewed', g) = "none"
          OBVIOUS
        <4>1. Previewed' = Previewed
          BY <1>1, <3>2 DEF Previewed, CommitsSince
        <4>2. Public \cap Bumped(Unreleased) = {}
          BY <1>9, <3>2 DEF Announcing, PlansReleases
        <4>3. Bumped(Previewed) \subseteq Bumped(Unreleased)
          BY <1>4, MoreIsAsked
        <4>4. \A q \in Public \cap Bumped(Previewed) : GroupOf[q] # GroupOf[p]
          BY <4>2, <4>3
        <4> QED  BY <1>4, <1>9, <4>1, <4>4, NothingOfGroup
      <3> QED  BY <3>1, <3>2
    <2> QED  BY <1>5, <2>1, <2>2 DEF GroupAnnounces
  <1>10. ASSUME mode = "preview", NEW p \in Public, NEW g, g = GroupOf[p]
         PROVE  GroupAnnounces(g)'
    <2>1. Unreleased' = Unreleased \cup CommitsSince(at, Newest)
      BY <1>1, <1>8, <1>10
    <2>2. (Broken <=> torn) /\ (Broken' <=> torn)
      BY <1>2, <1>10 DEF Broken
    <2>3. plan # <<>> => Previewed' = Unreleased
      BY <1>1, <1>4, <1>10 DEF Previewed, Unreleased, CommitsSince
    <2>4. CASE plan # <<>> /\ \E q \in DOMAIN plan : GroupOf[q] = g
      <3>1. PICK q \in DOMAIN plan : GroupOf[q] = g
        BY <2>4
      <3>2. PlansPreviews
        BY DEF Announcing
      <3>3. /\ q \in Public /\ q \in Bumped(CommitsSince(anyTag, at))
            /\ plan[q] \in Preview /\ next[q] = plan[q]
            /\ ~OlderPreview(plan[q], PreviewBase(g)) /\ Older(Base(g), plan[q].core)
            /\ \E s \in Strategies :
                   /\ plan[q].core = Increment(Base(g), s)
                   /\ Rank[s] <= Rank[GroupStrategy(Unreleased, g)]
                   /\ PublicGroups /\ ~torn => s = GroupStrategy(Unreleased, g)
        BY <1>1, <1>10, <3>1, <3>2 DEF PlansPreviews
      <3>4. PreviewBase(g) \in Preview /\ ~OlderPreview(PreviewBase(g), next[q])
        BY <1>3, <3>1, <3>3, PreviewBaseIsNewest
      <3>5. PreviewBase(g) = plan[q]
        BY <3>3, <3>4, PreviewsAreOrdered
      <3>6. /\ Rank[GroupStrategy(Unreleased, g)] \in 0..3
            /\ Rank[GroupStrategy(Unreleased', g)] \in 0..3
            /\ Rank[GroupStrategy(Unreleased, g)] <= Rank[GroupStrategy(Unreleased', g)]
            /\ Bumped(CommitsSince(anyTag, at)) \subseteq Bumped(Unreleased)
            /\ Bumped(Unreleased) \subseteq Bumped(Unreleased')
        BY <1>4, <2>1, MoreIsAsked, GroupStrategyIsRanked
      <3>7. PICK s \in Strategies :
                /\ plan[q].core = Increment(Base(g), s)
                /\ Rank[s] <= Rank[GroupStrategy(Unreleased, g)]
                /\ PublicGroups /\ ~torn => s = GroupStrategy(Unreleased, g)
        BY <3>3
      <3>8. Rank[s] <= Rank[GroupStrategy(Unreleased', g)]
        BY <3>6, <3>7, RanksDiffer
      <3>9. PublicGroups /\ ~torn => Rank[GroupStrategy(Previewed', g)] <= Rank[s]
        BY <2>3, <2>4, <3>6, <3>7
      <3>10. Core(g)' = plan[q].core /\ Base(g)' = Base(g)
        BY <1>5, <3>5 DEF Core
      <3>11. q \in Public \cap Bumped(Unreleased') /\ GroupOf[q] = g
        BY <3>1, <3>3, <3>6
      <3> QED  BY <2>2, <3>3, <3>7, <3>8, <3>9, <3>10, <3>11 DEF GroupAnnounces
    <2>5. CASE plan = <<>> \/ \A q \in DOMAIN plan : GroupOf[q] # g
      <3>1. PublicGroups => GroupStrategy(Previewed', g) = GroupStrategy(Previewed, g)
        <4>1. CASE plan = <<>>
          <5>1. Previewed' = Previewed
            BY <1>1, <1>10, <4>1 DEF Previewed, CommitsSince
          <5> QED  BY <5>1
        <4>2. CASE plan # <<>> /\ \A q \in DOMAIN plan : GroupOf[q] # g
          <5> SUFFICES ASSUME PublicGroups
                       PROVE  GroupStrategy(Previewed', g) = GroupStrategy(Previewed, g)
            OBVIOUS
          <5>1. DOMAIN plan = Public \cap Bumped(CommitsSince(anyTag, at))
            BY <1>10 DEF Announcing, PlansPreviews
          <5>2. GroupStrategy(CommitsSince(anyTag, at), g) = "none"
            BY <1>4, <1>10, <4>2, <5>1, NothingOfGroup
          <5>3. GroupStrategy(Unreleased, g) = Larger(GroupStrategy(Previewed, g), "none")
            BY <1>4, <5>2, GroupStrategyUnion
          <5>4. Larger(GroupStrategy(Previewed, g), "none") = GroupStrategy(Previewed, g)
            BY GroupStrategyIsRanked, RanksDiffer DEF Larger
          <5> QED  BY <2>3, <4>2, <5>3, <5>4
        <4> QED  BY <2>5, <4>1, <4>2
      <3>2. Broken => Broken'
        BY <2>2
      <3> QED  BY <1>4, <1>5, <1>10, <2>1, <3>1, <3>2, AnnouncesKept
    <2> QED  BY <2>4, <2>5
  <1>11. \A p \in Public : GroupAnnounces(GroupOf[p])'
    BY <1>1, <1>9, <1>10
  <1> QED  BY <1>6, <1>7, <1>11 DEF Announcing

LEMMA AnnouncingSame ==
    ASSUME Tagged, Typed, Announcing, UNCHANGED vars
    PROVE  Announcing'
  <1>1. UNCHANGED <<log, stableTag, anyTag, latest, next, mode, at, plan, left, torn>>
    BY DEF vars, tags, registry, pending
  <1>2. /\ Known' = Known /\ Newest' = Newest /\ Unreleased' = Unreleased
        /\ CommitsSince(anyTag, at)' = CommitsSince(anyTag, at)
    BY <1>1 DEF Known, Newest, Unreleased, CommitsSince
  <1>3. ASSUME NEW g
        PROVE  Base(g)' = Base(g) /\ Core(g)' = Core(g) /\ PreviewBase(g)' = PreviewBase(g)
    BY <1>1 DEF Base, Core, PreviewBase
  <1>4. \A p \in Public : GroupAnnounces(GroupOf[p])'
    <2>1. {} \in Ranges /\ Unreleased' = Unreleased \cup {}
      BY <1>2 DEF Ranges
    <2>2. Broken => Broken'
      BY <1>1 DEF Broken
    <2> QED  BY <1>1, <2>1, <2>2, AnnouncesStay DEF tags
  <1>5. PlansPreviews' /\ PlansReleases'
    BY <1>1, <1>2, <1>3 DEF Announcing, PlansPreviews, PlansReleases
  <1> QED  BY <1>1, <1>2, <1>4, <1>5, RangesOfTags DEF Announcing, TagsInOrder

LEMMA AnnouncingNext ==
    ASSUME Tagged, Typed, Announcing, [Next]_vars
    PROVE  Announcing'
  BY AnnouncingLand, AnnouncingStable, AnnouncingPreview, AnnouncingRelease, AnnouncingUpload,
     AnnouncingFinish, AnnouncingCrash, AnnouncingSame DEF Next

-----------------------------------------------------------------------------
(* No release is outrun by a preview, and previews announce the release. *)

\* A release that is yet to be published is newer than every release of its
\* package and no older than a preview of it, on a branch with a release tag.
THEOREM ReleasesStayNew ==
    ASSUME Tagged PROVE Spec => []ReleasesAreNew
  <1>1. Typed /\ GoesForward /\ Announcing => ReleasesAreNew
    <2> SUFFICES ASSUME Typed, GoesForward, Announcing, mode = "stable", NEW p \in left
                 PROVE  /\ \A v \in previews[p] : ~Older(plan[p], v.core)
                        /\ \A v \in releases[p] : Older(v, plan[p])
      BY DEF ReleasesAreNew
    <2>1. /\ p \in Public /\ p \in DOMAIN plan /\ plan[p] \in Version
          /\ next \in [Public -> Preview] /\ next[p] \in Preview /\ latest[p] \in Version
          /\ previews[p] \subseteq Preview /\ releases[p] \subseteq Version
      BY DEF Typed, TypeOK
    <2>2. Older(latest[p], plan[p]) /\ \A v \in releases[p] : ~Older(latest[p], v)
      BY <2>1 DEF GoesForward
    <2>3. \A v \in releases[p] : Older(v, plan[p])
      BY <2>1, <2>2, OlderIsOrder
    <2>4. ASSUME NEW v \in previews[p]
          PROVE  ~Older(plan[p], v.core)
      <3>1. ~OlderPreview(next[p], v) /\ v \in Preview
        BY <2>1 DEF GoesForward
      <3>2. /\ ~OlderPreview(PreviewBase(GroupOf[p]), next[p])
            /\ PreviewBase(GroupOf[p]) \in Preview
        BY <2>1, PreviewBaseIsNewest
      <3>3. ~OlderPreview(PreviewBase(GroupOf[p]), v)
        BY <2>1, <3>1, <3>2, PreviewsAreOrdered
      <3>4. ~Older(Core(GroupOf[p]), v.core)
        BY <3>3 DEF Core, OlderPreview
      <3>5. ~Older(plan[p], Core(GroupOf[p]))
        BY <2>1 DEF Announcing, PlansReleases
      <3>6. Core(GroupOf[p]) \in Version /\ v.core \in Version
        BY <3>1, <3>2 DEF Core, Preview
      <3> QED  BY <2>1, <3>4, <3>5, <3>6, OlderIsOrder
    <2> QED  BY <2>3, <2>4
  <1>2. Init => Announcing
    BY AnnouncingInit
  <1>3. Typed /\ Announcing /\ [Next]_vars => Announcing'
    BY AnnouncingNext
  <1> QED
    BY <1>1, <1>2, <1>3, GoesForwardInit, GoesForwardNext, TypesHold, PTL DEF Spec

\* What a preview announces is what a stable run of the same commit releases, on
\* a branch with a release tag whose groups are public or private throughout.
THEOREM PreviewsAnnounceStable ==
    ASSUME Tagged, PublicGroups PROVE Spec => []PreviewAnnouncesStable
  <1>1. Typed /\ Announcing => PreviewAnnouncesStable
    <2> DEFINE stable == NextVersions(MergedStrategies(CommitsSince(stableTag, at)), latest)
    <2> SUFFICES ASSUME Typed, Announcing, mode = "preview", ~torn, NEW p \in DOMAIN plan
                 PROVE  p \in DOMAIN stable /\ plan[p].core = stable[p]
      BY DEF PreviewAnnouncesStable
    <2>1. Known = at /\ Unreleased = CommitsSince(stableTag, at)
      BY DEF Known, Unreleased
    <2>2. /\ Unreleased = Previewed \cup CommitsSince(anyTag, at)
          /\ Unreleased \in Ranges /\ Previewed \in Ranges /\ CommitsSince(anyTag, at) \in Ranges
      BY <2>1, RangesOfTags
    <2>3. PlansPreviews
      BY DEF Announcing
    <2>4. /\ p \in Public /\ p \in Bumped(CommitsSince(anyTag, at))
          /\ plan[p].core = Increment(Base(GroupOf[p]), GroupStrategy(Unreleased, GroupOf[p]))
      BY <2>3 DEF PlansPreviews
    <2>5. p \in Bumped(Unreleased)
      BY <2>2, <2>4, MoreIsAsked
    <2>6. latest \in [Public -> Version] /\ Public \subseteq Packages
      BY DEF Typed, TypeOK, Public
    <2>7. stable = NextVersions(MergedStrategies(Unreleased), latest)
      BY <2>1
    <2> HIDE DEF stable
    <2>8. p \in DOMAIN stable
      <3>1. /\ DOMAIN latest \subseteq Packages /\ p \in DOMAIN latest
            /\ \A q \in DOMAIN latest : latest[q] \in Version
        BY <2>4, <2>6
      <3>2. DOMAIN NextVersions(MergedStrategies(Unreleased), latest) =
                Bumped(Unreleased) \cap DOMAIN latest
        BY <2>2, <3>1, NextVersionsOfGroup
      <3>3. p \in Bumped(Unreleased) \cap DOMAIN latest
        BY <2>5, <3>1
      <3> QED  BY <2>7, <3>2, <3>3, Zenon
    <2>9. stable[p] = Increment(Base(GroupOf[p]), GroupStrategy(Unreleased, GroupOf[p]))
      BY <2>2, <2>4, <2>5, <2>6, <2>7, NextVersionsOfGroup DEF Base
    <2> QED  BY <2>4, <2>8, <2>9
  <1>2. Init => Announcing
    BY AnnouncingInit
  <1>3. Typed /\ Announcing /\ [Next]_vars => Announcing'
    BY AnnouncingNext
  <1> QED
    BY <1>1, <1>2, <1>3, TypesHold, PTL DEF Spec
===============================================================================
