-------------------------- MODULE ReleasePlanProofs --------------------------
(***************************************************************************)
(* Lemmas about ReleasePlan: the order of versions, the strategies a range *)
(* of commits asks for and the versions they lead to.  The proofs about    *)
(* ReleasePipeline and PrereleaseVersions rest on them.                    *)
(***************************************************************************)
EXTENDS ReleasePlan, FiniteSetTheorems, WellFoundedInduction, TLAPS

-----------------------------------------------------------------------------
(* Finite sets have maximal elements. *)

LEMMA MinimalSubset ==
    ASSUME NEW S, NEW B, B \subseteq FiniteSubsetsOf(S), B # {}
    PROVE  \E U \in B : \A V \in B : <<V, U>> \notin StrictSubsetOrdering(S)
  <1> DEFINE R == StrictSubsetOrdering(S)
             F == FiniteSubsetsOf(S)
  <1>1. IsWellFoundedOn(R, F)
    BY FS_StrictSubsetOrderingWellFounded
  <1>2. B \subseteq F
    OBVIOUS
  <1> HIDE DEF R, F
  <1>3. \E U \in B : \A V \in B : ~(<<V, U>> \in R)
    BY <1>1, <1>2, WFMin, Zenon
  <1> QED  BY <1>3 DEF R

\* A smallest set without a maximal element would lose it with any element.
LEMMA FiniteSetHasMaximal ==
    ASSUME NEW S, IsFiniteSet(S), S # {}, NEW R,
           \A x, y, z \in S : <<x, y>> \in R /\ <<y, z>> \in R => <<x, z>> \in R,
           \A x \in S : <<x, x>> \notin R
    PROVE  \E x \in S : \A y \in S : <<x, y>> \notin R
  <1> DEFINE HasMax(U) == \E x \in U : \A y \in U : <<x, y>> \notin R
             Bad == {U \in SUBSET S : U # {} /\ ~HasMax(U)}
  <1> SUFFICES ASSUME Bad # {} PROVE FALSE
    OBVIOUS
  <1>1. Bad \subseteq FiniteSubsetsOf(S)
    BY FS_FiniteSubsetsOfFinite
  <1>2. PICK U \in Bad : \A V \in Bad : <<V, U>> \notin StrictSubsetOrdering(S)
    <2> HIDE DEF Bad
    <2> QED  BY <1>1, MinimalSubset
  <1>3. PICK x \in U : TRUE
    OBVIOUS
  <1>4. x \in S
    OBVIOUS
  <1>5. <<U \ {x}, U>> \in StrictSubsetOrdering(S)
    BY <1>3 DEF StrictSubsetOrdering
  <1>6. U \ {x} \notin Bad
    BY <1>2, <1>5
  <1>7. CASE U = {x}
    BY <1>4, <1>7
  <1>8. CASE U # {x}
    <2>1. PICK m \in U \ {x} : \A y \in U \ {x} : <<m, y>> \notin R
      BY <1>3, <1>6, <1>8
    <2>2. CASE <<m, x>> \in R
      <3>1. \A y \in U : <<x, y>> \notin R
        <4> SUFFICES ASSUME NEW y \in U PROVE <<x, y>> \notin R
          OBVIOUS
        <4>1. m \in S /\ y \in S
          BY <2>1
        <4>2. y # x => <<m, y>> \notin R
          BY <2>1
        <4> QED  BY <1>4, <2>2, <4>1, <4>2
      <3> QED  BY <1>3, <3>1
    <2>3. CASE <<m, x>> \notin R
      BY <2>1, <2>3
    <2> QED  BY <2>2, <2>3
  <1> QED  BY <1>7, <1>8

\* A function takes finitely many values on a finite set.
LEMMA FinitelyManyValues ==
    ASSUME NEW S, IsFiniteSet(S), NEW f
    PROVE  IsFiniteSet({f[x] : x \in S})
  <1> DEFINE T == {f[x] : x \in S}
             g == [x \in S |-> f[x]]
  <1>1. g \in Surjection(S, T)
    BY DEF Surjection
  <1> HIDE DEF g, T
  <1>2. IsFiniteSet(T)
    BY <1>1, FS_Surjection
  <1> QED  BY <1>2 DEF T

\* The last of some positions of a sequence.
LEMMA LastPosition ==
    ASSUME NEW n \in Nat, NEW S, S \subseteq 1..n, S # {}
    PROVE  \E i \in S : \A j \in S : j <= i
  <1> DEFINE R == {x \in (1..n) \X (1..n) : x[1] < x[2]}
  <1>1. IsFiniteSet(S)
    <2>1. IsFiniteSet(1..n)
      BY FS_Interval
    <2> QED  BY <2>1, FS_Subset
  <1>2. /\ \A x, y, z \in S : <<x, y>> \in R /\ <<y, z>> \in R => <<x, z>> \in R
        /\ \A x \in S : <<x, x>> \notin R
    OBVIOUS
  <1>3. \A x, y \in S : <<x, y>> \notin R => y <= x
    OBVIOUS
  <1> HIDE DEF R
  <1>4. PICK i \in S : \A j \in S : <<i, j>> \notin R
    BY <1>1, <1>2, FiniteSetHasMaximal
  <1> QED  BY <1>3, <1>4

-----------------------------------------------------------------------------
(* Versions and strategies. *)

\* Older is a strict total order.
LEMMA OlderIsOrder ==
    /\ \A v \in Version : ~Older(v, v)
    /\ \A u, v, w \in Version : Older(u, v) /\ Older(v, w) => Older(u, w)
    /\ \A v, w \in Version : Older(v, w) \/ v = w \/ Older(w, v)
    /\ \A v, w \in Version : ~(Older(v, w) /\ Older(w, v))
    /\ \A u, v, w \in Version : ~Older(v, u) /\ Older(v, w) => Older(u, w)
    /\ \A u, v, w \in Version : Older(u, v) /\ ~Older(w, v) => Older(u, w)
  <1>1. /\ \A v \in Version : ~Older(v, v)
        /\ \A v, w \in Version : ~(Older(v, w) /\ Older(w, v))
    BY DEF Version, Older
  <1>2. \A u, v, w \in Version : Older(u, v) /\ Older(v, w) => Older(u, w)
    BY DEF Version, Older
  <1>3. \A v, w \in Version : Older(v, w) \/ v = w \/ Older(w, v)
    <2> SUFFICES ASSUME NEW v \in Version, NEW w \in Version, ~Older(v, w), ~Older(w, v)
                 PROVE  v = w
      OBVIOUS
    <2>1. v[1] = w[1] /\ v[2] = w[2] /\ v[3] = w[3]
      BY DEF Version, Older
    <2>2. v = <<v[1], v[2], v[3]>> /\ w = <<w[1], w[2], w[3]>>
      BY DEF Version
    <2> QED  BY <2>1, <2>2
  <1> QED  BY <1>1, <1>2, <1>3

\* MaxVersion picks a member that no other is newer than.
LEMMA MaxVersionIsMax ==
    ASSUME NEW S, S \subseteq Version, IsFiniteSet(S), S # {}
    PROVE  MaxVersion(S) \in S /\ \A w \in S : ~Older(MaxVersion(S), w)
  <1> DEFINE R == {x \in Version \X Version : Older(x[1], x[2])}
  <1>1. \A x, y \in Version : <<x, y>> \in R <=> Older(x, y)
    OBVIOUS
  <1> HIDE DEF R
  <1>2. /\ \A x, y, z \in S : <<x, y>> \in R /\ <<y, z>> \in R => <<x, z>> \in R
        /\ \A x \in S : <<x, x>> \notin R
    BY <1>1, OlderIsOrder
  <1>3. \E x \in S : \A y \in S : <<x, y>> \notin R
    BY <1>2, FiniteSetHasMaximal
  <1>4. \E x \in S : \A w \in S : ~Older(x, w)
    BY <1>1, <1>3
  <1> QED  BY <1>4 DEF MaxVersion

LEMMA IncrementIsNewer ==
    ASSUME NEW v \in Version, NEW s \in Strategies
    PROVE  Increment(v, s) \in Version /\ Older(v, Increment(v, s))
  <1>1. /\ v[1] \in Nat /\ v[2] \in Nat /\ v[3] \in Nat
        /\ s \in {"patch", "minor", "major"}
    BY DEF Version, Strategies, Levels
  <1>2. CASE s = "major"
    <2>1. Increment(v, s) = <<v[1] + 1, 0, 0>>
      BY <1>2 DEF Increment
    <2> QED  BY <1>1, <2>1 DEF Version, Older
  <1>3. CASE s = "minor"
    <2>1. Increment(v, s) = <<v[1], v[2] + 1, 0>>
      BY <1>3 DEF Increment
    <2> QED  BY <1>1, <2>1 DEF Version, Older
  <1>4. CASE s = "patch"
    <2>1. Increment(v, s) = <<v[1], v[2], v[3] + 1>>
      BY <1>4 DEF Increment
    <2> QED  BY <1>1, <2>1 DEF Version, Older
  <1> QED  BY <1>1, <1>2, <1>3, <1>4

LEMMA MaxStrategyIsMember ==
    ASSUME NEW S, S \subseteq Strategies, S # {}
    PROVE  MaxStrategy(S) \in S /\ \A t \in S : Rank[t] <= Rank[MaxStrategy(S)]
  <1>1. S \subseteq {"patch", "minor", "major"}
    BY DEF Strategies, Levels
  <1>2. Rank["patch"] = 1 /\ Rank["minor"] = 2 /\ Rank["major"] = 3
    BY DEF Rank
  <1>3. \E s \in S : \A t \in S : Rank[t] <= Rank[s]
    <2>1. CASE "major" \in S
      BY <1>1, <1>2, <2>1
    <2>2. CASE "major" \notin S /\ "minor" \in S
      BY <1>1, <1>2, <2>2
    <2>3. CASE "major" \notin S /\ "minor" \notin S
      <3>1. \A t \in S : t = "patch"
        BY <1>1, <2>3
      <3>2. PICK s \in S : TRUE
        OBVIOUS
      <3>3. \A t \in S : Rank[t] <= Rank[s]
        BY <1>2, <3>1, <3>2
      <3> QED  BY <3>3
    <2> QED  BY <2>1, <2>2, <2>3
  <1> QED  BY <1>3 DEF MaxStrategy

-----------------------------------------------------------------------------
(* The plan. *)

Bumping(commits) == {c \in commits : StrategyOf(c) # "none"}

Closed(C) == \A p \in Packages : Dependencies[p] \cap C # {} => p \in C

LEMMA DependentsAre ==
    ASSUME NEW S
    PROVE  DependentsOf(S) =
               {p \in Packages :
                   \A C \in SUBSET (Packages \cup S) : S \subseteq C /\ Closed(C) => p \in C} \ S
  <1>1. DOMAIN Dependencies = Packages
    BY PlanAssumption
  <1> QED  BY <1>1 DEF DependentsOf, DependentsIn, ClosedIn, Closed

LEMMA DependentsArePackages ==
    ASSUME NEW S
    PROVE  DependentsOf(S) \subseteq Packages
  BY DependentsAre

\* The packages the commits of a range ask a version for.
LEMMA WhatIsBumped ==
    ASSUME NEW commits
    PROVE  /\ DOMAIN ExplicitStrategies(commits) = UNION {c.touches : c \in Bumping(commits)}
           /\ DOMAIN MergedStrategies(commits) =
                  DOMAIN ExplicitStrategies(commits) \cup
                      DependentsOf(DOMAIN ExplicitStrategies(commits))
  <1>1. DOMAIN ExplicitStrategies(commits) = UNION {c.touches : c \in Bumping(commits)}
    BY DEF ExplicitStrategies, Bumping
  <1>2. DOMAIN MergedStrategies(commits) =
            DOMAIN ExplicitStrategies(commits) \cup
                DependentsOf(DOMAIN ExplicitStrategies(commits))
    BY DEF MergedStrategies
  <1> QED  BY <1>1, <1>2

LEMMA ExplicitAreStrategies ==
    ASSUME NEW commits, \A c \in commits : c.level \in Levels
    PROVE  \A p \in DOMAIN ExplicitStrategies(commits) :
               ExplicitStrategies(commits)[p] \in Strategies
  <1> SUFFICES ASSUME NEW p \in DOMAIN ExplicitStrategies(commits)
               PROVE  ExplicitStrategies(commits)[p] \in Strategies
    OBVIOUS
  <1> DEFINE asked == {StrategyOf(c) : c \in {b \in Bumping(commits) : p \in b.touches}}
  <1>1. p \in UNION {c.touches : c \in Bumping(commits)}
    BY WhatIsBumped
  <1>2. ExplicitStrategies(commits)[p] = MaxStrategy(asked)
    BY <1>1 DEF ExplicitStrategies, Bumping
  <1>3. asked # {}
    BY <1>1
  <1>4. asked \subseteq Strategies
    BY PlanAssumption DEF Bumping, StrategyOf, Strategies
  <1> HIDE DEF asked
  <1> QED  BY <1>2, <1>3, <1>4, MaxStrategyIsMember

LEMMA MergedAreStrategies ==
    ASSUME NEW commits, \A c \in commits : c.level \in Levels
    PROVE  \A p \in DOMAIN MergedStrategies(commits) :
               MergedStrategies(commits)[p] \in Strategies
  <1> DEFINE explicit == ExplicitStrategies(commits)
             bumped   == DOMAIN explicit \cup DependentsOf(DOMAIN explicit)
             Own(p)   == IF p \in DOMAIN explicit THEN explicit[p] ELSE "patch"
             ofGroup(p) == {Own(q) : q \in {r \in bumped : GroupOf[r] = GroupOf[p]}}
  <1> SUFFICES ASSUME NEW p \in DOMAIN MergedStrategies(commits)
               PROVE  MergedStrategies(commits)[p] \in Strategies
    OBVIOUS
  <1>1. p \in bumped
    BY WhatIsBumped
  <1>2. MergedStrategies(commits)[p] = MaxStrategy(ofGroup(p))
    BY <1>1 DEF MergedStrategies
  <1>3. \A q : Own(q) \in Strategies
    <2>1. \A q \in DOMAIN explicit : explicit[q] \in Strategies
      BY ExplicitAreStrategies
    <2>2. "patch" \in Strategies
      BY DEF Strategies, Levels
    <2> HIDE DEF explicit
    <2> QED  BY <2>1, <2>2
  <1>4. ofGroup(p) \subseteq Strategies
    <2> HIDE DEF Own, bumped
    <2> QED  BY <1>3
  <1>5. ofGroup(p) # {}
    <2> HIDE DEF Own, bumped
    <2> QED  BY <1>1
  <1> HIDE DEF ofGroup
  <1> QED  BY <1>2, <1>4, <1>5, MaxStrategyIsMember

\* What NextVersions promises of packages whose registry versions are known.
LEMMA NextVersionsAreNewer ==
    ASSUME NEW strategies, NEW tagged,
           DOMAIN strategies \subseteq Packages, DOMAIN tagged \subseteq Packages,
           \A p \in DOMAIN strategies : strategies[p] \in Strategies,
           \A p \in DOMAIN tagged : tagged[p] \in Version,
           NEW p \in DOMAIN NextVersions(strategies, tagged)
    PROVE  /\ NextVersions(strategies, tagged)[p] \in Version
           /\ \A q \in DOMAIN NextVersions(strategies, tagged) : GroupOf[q] = GroupOf[p] =>
                  NextVersions(strategies, tagged)[q] = NextVersions(strategies, tagged)[p]
           /\ \A q \in DOMAIN tagged : GroupOf[q] = GroupOf[p] =>
                  Older(tagged[q], NextVersions(strategies, tagged)[p])
  <1> DEFINE next     == NextVersions(strategies, tagged)
             released == DOMAIN strategies \cap DOMAIN tagged
             known(g) == {Unpublished} \cup
                         {tagged[q] : q \in {x \in DOMAIN tagged : GroupOf[x] = g}}
             Bump(q)  == Increment(GroupBase(GroupOf[q], tagged), strategies[q])
             bumps(g) == {Bump(q) : q \in {x \in released : GroupOf[x] = g}}
  <1>1. /\ DOMAIN next = released
        /\ \A q \in released : next[q] = MaxVersion(bumps(GroupOf[q]))
    BY DEF NextVersions
  <1>2. \A g : /\ known(g) \subseteq Version /\ IsFiniteSet(known(g)) /\ known(g) # {}
    <2> TAKE g
    <2>1. known(g) \subseteq Version
      BY DEF Unpublished, Version
    <2>2. IsFiniteSet({tagged[q] : q \in {x \in DOMAIN tagged : GroupOf[x] = g}})
      <3>1. IsFiniteSet({x \in DOMAIN tagged : GroupOf[x] = g})
        <4>1. {x \in DOMAIN tagged : GroupOf[x] = g} \subseteq Packages
          OBVIOUS
        <4> QED  BY <4>1, PlanAssumption, FS_Subset
      <3> QED  BY <3>1, FinitelyManyValues
    <2>3. IsFiniteSet(known(g))
      <3>1. IsFiniteSet({Unpublished})
        BY FS_Singleton
      <3> QED  BY <2>2, <3>1, FS_Union
    <2> QED  BY <2>1, <2>3
  <1>3. \A g : /\ GroupBase(g, tagged) \in Version
               /\ \A v \in known(g) : ~Older(GroupBase(g, tagged), v)
    <2> TAKE g
    <2>1. GroupBase(g, tagged) = MaxVersion(known(g))
      BY DEF GroupBase
    <2> HIDE DEF known
    <2>2. /\ MaxVersion(known(g)) \in known(g)
          /\ \A v \in known(g) : ~Older(MaxVersion(known(g)), v)
      BY <1>2, MaxVersionIsMax
    <2> QED  BY <1>2, <2>1, <2>2
  <1>4. \A q \in released : /\ Bump(q) \in Version
                            /\ Older(GroupBase(GroupOf[q], tagged), Bump(q))
    BY <1>3, IncrementIsNewer
  <1>5. /\ bumps(GroupOf[p]) \subseteq Version /\ bumps(GroupOf[p]) # {}
        /\ IsFiniteSet(bumps(GroupOf[p]))
    <2>1. bumps(GroupOf[p]) \subseteq Version
      BY <1>4
    <2>2. Bump(p) \in bumps(GroupOf[p])
      BY <1>1
    <2>3. IsFiniteSet({x \in released : GroupOf[x] = GroupOf[p]})
      <3>1. {x \in released : GroupOf[x] = GroupOf[p]} \subseteq Packages
        OBVIOUS
      <3> QED  BY <3>1, PlanAssumption, FS_Subset
    <2>4. IsFiniteSet(bumps(GroupOf[p]))
      <3> DEFINE f == [x \in released |-> Bump(x)]
                 S == {x \in released : GroupOf[x] = GroupOf[p]}
      <3>1. bumps(GroupOf[p]) = {f[x] : x \in S}
        OBVIOUS
      <3> HIDE DEF f, S, bumps
      <3>2. IsFiniteSet(S)
        BY <2>3 DEF S
      <3> QED  BY <3>1, <3>2, FinitelyManyValues
    <2> HIDE DEF bumps
    <2> QED  BY <2>1, <2>2, <2>4
  <1>6. /\ next[p] \in bumps(GroupOf[p])
        /\ \A w \in bumps(GroupOf[p]) : ~Older(next[p], w)
    <2>1. next[p] = MaxVersion(bumps(GroupOf[p]))
      BY <1>1
    <2> HIDE DEF bumps, next
    <2> QED  BY <1>5, <2>1, MaxVersionIsMax
  <1>7. \A q \in DOMAIN next : GroupOf[q] = GroupOf[p] => next[q] = next[p]
    BY <1>1
  <1>8. next[p] \in Version /\ Older(GroupBase(GroupOf[p], tagged), next[p])
    <2>1. PICK q \in released : GroupOf[q] = GroupOf[p] /\ next[p] = Bump(q)
      BY <1>6
    <2> QED  BY <1>4, <2>1
  <1>9. ASSUME NEW q \in DOMAIN tagged, GroupOf[q] = GroupOf[p]
        PROVE  Older(tagged[q], next[p])
    <2>1. tagged[q] \in known(GroupOf[p]) /\ tagged[q] \in Version
      BY <1>9
    <2>2. ~Older(GroupBase(GroupOf[p], tagged), tagged[q])
      BY <1>3, <2>1
    <2> HIDE DEF next, known
    <2> QED  BY <1>3, <1>8, <2>1, <2>2, OlderIsOrder
  <1> QED  BY <1>7, <1>8, <1>9

-----------------------------------------------------------------------------
(* The strategy of a group. *)

Larger(s, t) == IF Rank[s] < Rank[t] THEN t ELSE s

Bumped(commits) == DOMAIN MergedStrategies(commits)

Asks(commits, g, s) ==
    \E c \in commits : StrategyOf(c) = s /\ \E p \in c.touches : GroupOf[p] = g

\* The one strategy all bumped members of group g have.
GroupStrategy(commits, g) ==
    IF Asks(commits, g, "major") THEN "major"
    ELSE IF Asks(commits, g, "minor") THEN "minor"
    ELSE IF \E p \in Bumped(commits) : GroupOf[p] = g THEN "patch" ELSE "none"

Ranges == SUBSET [level : Levels, touches : SUBSET Packages]

LEMMA MaxStrategyIs ==
    ASSUME NEW S, S \subseteq Strategies, S # {}
    PROVE  MaxStrategy(S) = IF "major" \in S THEN "major"
                            ELSE IF "minor" \in S THEN "minor" ELSE "patch"
  <1>1. S \subseteq {"patch", "minor", "major"} /\ MaxStrategy(S) \in S
    BY MaxStrategyIsMember DEF Strategies, Levels
  <1>2. Rank["patch"] = 1 /\ Rank["minor"] = 2 /\ Rank["major"] = 3
    BY DEF Rank
  <1>3. \A t \in S : Rank[t] <= Rank[MaxStrategy(S)]
    BY MaxStrategyIsMember
  <1>4. PICK m : m = MaxStrategy(S)
    OBVIOUS
  <1>5. m \in {"patch", "minor", "major"} /\ m \in S /\ \A t \in S : Rank[t] <= Rank[m]
    BY <1>1, <1>3, <1>4
  <1>6. m = IF "major" \in S THEN "major" ELSE IF "minor" \in S THEN "minor" ELSE "patch"
    BY <1>1, <1>2, <1>5
  <1> QED  BY <1>4, <1>6

LEMMA GroupStrategyIsRanked ==
    ASSUME NEW commits, NEW g
    PROVE  /\ GroupStrategy(commits, g) \in Levels
           /\ Rank[GroupStrategy(commits, g)] \in 0..3
           /\ GroupStrategy(commits, g) # "none" => GroupStrategy(commits, g) \in Strategies
  BY DEF GroupStrategy, Levels, Rank, Strategies

\* Every member that is bumped has the strategy of its group.
LEMMA MergedIsOfGroup ==
    ASSUME NEW commits \in Ranges, NEW p \in Bumped(commits)
    PROVE  /\ MergedStrategies(commits)[p] = GroupStrategy(commits, GroupOf[p])
           /\ GroupStrategy(commits, GroupOf[p]) # "none"
  <1> DEFINE explicit == ExplicitStrategies(commits)
             bumped   == DOMAIN explicit \cup DependentsOf(DOMAIN explicit)
             Own(q)   == IF q \in DOMAIN explicit THEN explicit[q] ELSE "patch"
             g        == GroupOf[p]
             S        == {Own(q) : q \in {r \in bumped : GroupOf[r] = g}}
             Asked(q) == {StrategyOf(c) : c \in {b \in Bumping(commits) : q \in b.touches}}
  <1>1. bumped = Bumped(commits)
    BY WhatIsBumped DEF Bumped
  <1>2. MergedStrategies(commits)[p] = MaxStrategy(S)
    BY <1>1 DEF MergedStrategies
  <1>3. \A q \in DOMAIN explicit : explicit[q] = MaxStrategy(Asked(q))
    BY WhatIsBumped DEF ExplicitStrategies, Bumping
  <1>4. DOMAIN explicit = UNION {c.touches : c \in Bumping(commits)}
    BY WhatIsBumped
  <1>5. \A c \in Bumping(commits) : StrategyOf(c) \in Strategies
    BY PlanAssumption DEF Bumping, StrategyOf, Strategies, Ranges
  <1>6. \A q \in DOMAIN explicit : Asked(q) \subseteq Strategies /\ Asked(q) # {}
    BY <1>4, <1>5
  <1>7. \A q : \A s \in Strategies :
           s \in Asked(q) <=> \E c \in commits : StrategyOf(c) = s /\ q \in c.touches
    BY DEF Bumping, Strategies
  <1> HIDE DEF Asked, explicit
  <1>8. \A q \in DOMAIN explicit :
           explicit[q] = IF "major" \in Asked(q) THEN "major"
                         ELSE IF "minor" \in Asked(q) THEN "minor" ELSE "patch"
    BY <1>3, <1>6, MaxStrategyIs
  <1>9. \A q \in bumped : Own(q) \in Strategies
    BY <1>8 DEF Strategies, Levels
  <1>10. \A q : q \in DOMAIN explicit <=> \E s \in Strategies : s \in Asked(q)
    <2>1. \A q : q \in DOMAIN explicit <=> \E c \in Bumping(commits) : q \in c.touches
      BY <1>4
    <2> QED  BY <1>5, <2>1 DEF Asked
  <1>11. "major" \in S <=> Asks(commits, g, "major")
    <2>1. "major" \in S <=> \E q \in DOMAIN explicit : GroupOf[q] = g /\ "major" \in Asked(q)
      BY <1>8
    <2>2. \A q : "major" \in Asked(q) <=> \E c \in commits : StrategyOf(c) = "major" /\ q \in c.touches
      BY <1>7 DEF Strategies, Levels
    <2>3. \A q : "major" \in Asked(q) => q \in DOMAIN explicit
      BY <1>10 DEF Strategies, Levels
    <2> HIDE DEF S, g
    <2> QED  BY <2>1, <2>2, <2>3 DEF Asks
  <1>12. "major" \notin S => ("minor" \in S <=> Asks(commits, g, "minor"))
    <2> HAVE "major" \notin S
    <2>1. \A q \in DOMAIN explicit : GroupOf[q] = g => "major" \notin Asked(q)
      BY <1>8
    <2>2. "minor" \in S <=> \E q \in DOMAIN explicit : GroupOf[q] = g /\ "minor" \in Asked(q)
      BY <1>8, <2>1
    <2>3. \A q : "minor" \in Asked(q) <=> \E c \in commits : StrategyOf(c) = "minor" /\ q \in c.touches
      BY <1>7 DEF Strategies, Levels
    <2>4. \A q : "minor" \in Asked(q) => q \in DOMAIN explicit
      BY <1>10 DEF Strategies, Levels
    <2> HIDE DEF S, g
    <2> QED  BY <2>2, <2>3, <2>4 DEF Asks
  <1>13. S \subseteq Strategies /\ S # {}
    <2>1. S \subseteq Strategies
      BY <1>9
    <2>2. Own(p) \in S
      BY <1>1
    <2> QED  BY <2>1, <2>2
  <1>14. MaxStrategy(S) = GroupStrategy(commits, g)
    <2> HIDE DEF S
    <2> QED  BY <1>11, <1>12, <1>13, MaxStrategyIs DEF GroupStrategy
  <1> QED  BY <1>2, <1>14 DEF GroupStrategy

\* A set and its dependents: what every closed set around it has in common.
LEMMA ReachedIsCommon ==
    ASSUME NEW S, S \subseteq Packages
    PROVE  \A p : p \in S \cup DependentsOf(S) <=>
                      /\ p \in Packages
                      /\ \A C \in SUBSET Packages : S \subseteq C /\ Closed(C) => p \in C
  <1>1. Packages \cup S = Packages
    OBVIOUS
  <1> QED  BY <1>1, DependentsAre

LEMMA ReachedUnion ==
    ASSUME NEW S, NEW T, S \subseteq Packages, T \subseteq Packages
    PROVE  (S \cup T) \cup DependentsOf(S \cup T) =
               (S \cup DependentsOf(S)) \cup (T \cup DependentsOf(T))
  <1> DEFINE Common(U, p) ==
                 \A C \in SUBSET Packages : U \subseteq C /\ Closed(C) => p \in C
  <1>1. ASSUME NEW p, Common(S \cup T, p)
        PROVE  Common(S, p) \/ Common(T, p)
    <2> SUFFICES ASSUME NEW C \in SUBSET Packages, S \subseteq C, Closed(C), p \notin C,
                        NEW D \in SUBSET Packages, T \subseteq D, Closed(D), p \notin D
                 PROVE  FALSE
      OBVIOUS
    <2>1. Closed(C \cup D)
      BY DEF Closed
    <2>2. C \cup D \in SUBSET Packages /\ S \cup T \subseteq C \cup D
      OBVIOUS
    <2> QED  BY <1>1, <2>1, <2>2
  <1>2. \A p : Common(S, p) \/ Common(T, p) => Common(S \cup T, p)
    OBVIOUS
  <1>3. /\ \A p : p \in S \cup DependentsOf(S) <=> p \in Packages /\ Common(S, p)
        /\ \A p : p \in T \cup DependentsOf(T) <=> p \in Packages /\ Common(T, p)
        /\ \A p : p \in (S \cup T) \cup DependentsOf(S \cup T) <=>
                      p \in Packages /\ Common(S \cup T, p)
    BY ReachedIsCommon
  <1> HIDE DEF Common
  <1> QED  BY <1>1, <1>2, <1>3

\* More commits bump what either part of them bumps.
LEMMA BumpedUnion ==
    ASSUME NEW A \in Ranges, NEW B \in Ranges
    PROVE  Bumped(A \cup B) = Bumped(A) \cup Bumped(B)
  <1> DEFINE S(C) == DOMAIN ExplicitStrategies(C)
  <1>1. \A C \in Ranges : /\ S(C) = UNION {c.touches : c \in Bumping(C)}
                          /\ Bumped(C) = S(C) \cup DependentsOf(S(C))
    BY WhatIsBumped DEF Bumped
  <1>2. \A C \in Ranges : S(C) \subseteq Packages
    <2>1. \A C \in Ranges : \A c \in Bumping(C) : c.touches \subseteq Packages
      BY DEF Bumping, Ranges
    <2> HIDE DEF S
    <2> QED  BY <1>1, <2>1
  <1>3. A \cup B \in Ranges
    BY DEF Ranges
  <1>4. S(A \cup B) = S(A) \cup S(B)
    <2>1. Bumping(A \cup B) = Bumping(A) \cup Bumping(B)
      BY DEF Bumping
    <2> HIDE DEF S
    <2>2. \A C \in Ranges : \A p : p \in S(C) <=> \E c \in Bumping(C) : p \in c.touches
      BY <1>1
    <2>3. \A p : p \in S(A \cup B) <=> p \in S(A) \/ p \in S(B)
      BY <1>3, <2>1, <2>2
    <2> QED  BY <2>3
  <1> HIDE DEF S
  <1>5. (S(A) \cup S(B)) \cup DependentsOf(S(A) \cup S(B)) =
            (S(A) \cup DependentsOf(S(A))) \cup (S(B) \cup DependentsOf(S(B)))
    BY <1>2, ReachedUnion
  <1>6. Bumped(A \cup B) = S(A \cup B) \cup DependentsOf(S(A \cup B))
    BY <1>1, <1>3
  <1> QED  BY <1>1, <1>4, <1>5, <1>6

LEMMA GroupStrategyUnion ==
    ASSUME NEW A \in Ranges, NEW B \in Ranges, NEW g
    PROVE  GroupStrategy(A \cup B, g) = Larger(GroupStrategy(A, g), GroupStrategy(B, g))
  <1>1. \A s : Asks(A \cup B, g, s) <=> Asks(A, g, s) \/ Asks(B, g, s)
    BY DEF Asks
  <1>2. Bumped(A \cup B) = Bumped(A) \cup Bumped(B)
    BY BumpedUnion
  <1> DEFINE Some(C) == \E p \in Bumped(C) : GroupOf[p] = g
  <1>3. Some(A \cup B) <=> Some(A) \/ Some(B)
    BY <1>2
  <1>4. /\ Rank["none"] = 0 /\ Rank["patch"] = 1
        /\ Rank["minor"] = 2 /\ Rank["major"] = 3
    BY DEF Rank
  <1>5. \A C : GroupStrategy(C, g) = IF Asks(C, g, "major") THEN "major"
                                     ELSE IF Asks(C, g, "minor") THEN "minor"
                                     ELSE IF Some(C) THEN "patch" ELSE "none"
    BY DEF GroupStrategy
  <1> HIDE DEF Some
  <1>6. PICK a, b, c : /\ a = GroupStrategy(A, g) /\ b = GroupStrategy(B, g)
                       /\ c = GroupStrategy(A \cup B, g)
    OBVIOUS
  <1>7. /\ a \in {"none", "patch", "minor", "major"}
        /\ b \in {"none", "patch", "minor", "major"}
    BY <1>5, <1>6
  <1>8. /\ (c = "major") <=> (a = "major" \/ b = "major")
        /\ (c = "minor") <=> (a # "major" /\ b # "major" /\ (a = "minor" \/ b = "minor"))
        /\ (c = "none") <=> (a = "none" /\ b = "none")
        /\ c \in {"none", "patch", "minor", "major"}
    <2>1. /\ Asks(A \cup B, g, "major") <=> Asks(A, g, "major") \/ Asks(B, g, "major")
          /\ Asks(A \cup B, g, "minor") <=> Asks(A, g, "minor") \/ Asks(B, g, "minor")
      BY <1>1
    <2>2. \A C : /\ (GroupStrategy(C, g) = "major") <=> Asks(C, g, "major")
                 /\ (GroupStrategy(C, g) = "minor") <=>
                        (~Asks(C, g, "major") /\ Asks(C, g, "minor"))
                 /\ (GroupStrategy(C, g) = "none") <=>
                        (~Asks(C, g, "major") /\ ~Asks(C, g, "minor") /\ ~Some(C))
                 /\ GroupStrategy(C, g) \in {"none", "patch", "minor", "major"}
      BY <1>5
    <2> QED  BY <1>3, <1>6, <2>1, <2>2
  <1>9. c = IF Rank[a] < Rank[b] THEN b ELSE a
    BY <1>4, <1>7, <1>8
  <1> QED  BY <1>6, <1>9 DEF Larger

\* A group has a strategy exactly if a member of it is bumped.
LEMMA GroupIsBumped ==
    ASSUME NEW commits \in Ranges, NEW g
    PROVE  GroupStrategy(commits, g) # "none" <=> \E p \in Bumped(commits) : GroupOf[p] = g
  <1>1. ASSUME NEW s \in Strategies, Asks(commits, g, s)
        PROVE  \E p \in Bumped(commits) : GroupOf[p] = g
    <2>1. PICK c \in commits : StrategyOf(c) = s /\ \E p \in c.touches : GroupOf[p] = g
      BY <1>1 DEF Asks
    <2>2. c \in Bumping(commits)
      BY <2>1 DEF Bumping, Strategies
    <2> QED  BY <2>1, <2>2, WhatIsBumped DEF Bumped
  <1>2. "major" \in Strategies /\ "minor" \in Strategies
    BY DEF Strategies, Levels
  <1> QED  BY <1>1, <1>2 DEF GroupStrategy

-----------------------------------------------------------------------------
(* The versions of a group. *)

\* A larger strategy leads to a version that is not older.
LEMMA IncrementGrows ==
    ASSUME NEW v \in Version, NEW s \in Strategies, NEW t \in Strategies, Rank[s] <= Rank[t]
    PROVE  ~Older(Increment(v, t), Increment(v, s))
  <1>1. /\ v[1] \in Nat /\ v[2] \in Nat /\ v[3] \in Nat
        /\ s \in {"patch", "minor", "major"} /\ t \in {"patch", "minor", "major"}
    BY DEF Version, Strategies, Levels
  <1>2. /\ Increment(v, "major") = <<v[1] + 1, 0, 0>>
        /\ Increment(v, "minor") = <<v[1], v[2] + 1, 0>>
        /\ Increment(v, "patch") = <<v[1], v[2], v[3] + 1>>
    BY DEF Increment
  <1>3. s # t => s = "patch" \/ (s = "minor" /\ t = "major")
    BY <1>1 DEF Rank
  <1>4. CASE s = t
    BY <1>4, IncrementIsNewer, OlderIsOrder
  <1>5. CASE s # t
    BY <1>1, <1>2, <1>3, <1>5 DEF Older
  <1> QED  BY <1>4, <1>5

\* The base of a group is one of its versions, and none is newer.
LEMMA GroupBaseIsNewest ==
    ASSUME NEW latest, DOMAIN latest \subseteq Packages,
           \A p \in DOMAIN latest : latest[p] \in Version, NEW g
    PROVE  /\ GroupBase(g, latest) \in Version
           /\ ~Older(GroupBase(g, latest), Unpublished)
           /\ \A p \in DOMAIN latest : GroupOf[p] = g => ~Older(GroupBase(g, latest), latest[p])
           /\ \/ GroupBase(g, latest) = Unpublished
              \/ \E p \in DOMAIN latest : GroupOf[p] = g /\ GroupBase(g, latest) = latest[p]
  <1> DEFINE members == {p \in DOMAIN latest : GroupOf[p] = g}
             known   == {Unpublished} \cup {latest[p] : p \in members}
  <1>1. known \subseteq Version /\ known # {}
    <2>1. Unpublished \in Version
      BY DEF Unpublished, Version
    <2> QED  BY <2>1
  <1>2. IsFiniteSet(known)
    <2>1. IsFiniteSet(members)
      <3>1. members \subseteq Packages
        OBVIOUS
      <3> HIDE DEF members
      <3> QED  BY <3>1, PlanAssumption, FS_Subset
    <2>2. IsFiniteSet({latest[p] : p \in members})
      BY <2>1, FinitelyManyValues
    <2>3. IsFiniteSet({Unpublished})
      BY FS_Singleton
    <2> QED  BY <2>2, <2>3, FS_Union
  <1>3. GroupBase(g, latest) = MaxVersion(known)
    BY DEF GroupBase
  <1>4. MaxVersion(known) \in known /\ \A w \in known : ~Older(MaxVersion(known), w)
    <2> HIDE DEF known
    <2> QED  BY <1>1, <1>2, MaxVersionIsMax
  <1> QED  BY <1>1, <1>3, <1>4

\* All members that are released get the base raised by the group's strategy.
LEMMA NextVersionsOfGroup ==
    ASSUME NEW commits \in Ranges, NEW latest, DOMAIN latest \subseteq Packages,
           \A p \in DOMAIN latest : latest[p] \in Version
    PROVE  /\ DOMAIN NextVersions(MergedStrategies(commits), latest) =
                  Bumped(commits) \cap DOMAIN latest
           /\ \A p \in Bumped(commits) \cap DOMAIN latest :
                  NextVersions(MergedStrategies(commits), latest)[p] =
                      Increment(GroupBase(GroupOf[p], latest),
                                GroupStrategy(commits, GroupOf[p]))
  <1> DEFINE strategies == MergedStrategies(commits)
             released == Bumped(commits) \cap DOMAIN latest
             Bump(q)  == Increment(GroupBase(GroupOf[q], latest), strategies[q])
             bumps(p) == {Bump(q) : q \in {r \in released : GroupOf[r] = GroupOf[p]}}
             next     == NextVersions(strategies, latest)
  <1>1. DOMAIN next = released /\ \A p \in released : next[p] = MaxVersion(bumps(p))
    BY DEF NextVersions, Bumped
  <1>2. ASSUME NEW p \in released
        PROVE  next[p] = Increment(GroupBase(GroupOf[p], latest),
                                   GroupStrategy(commits, GroupOf[p]))
    <2> DEFINE v == Increment(GroupBase(GroupOf[p], latest), GroupStrategy(commits, GroupOf[p]))
    <2>1. \A q \in released : GroupOf[q] = GroupOf[p] => Bump(q) = v
      BY MergedIsOfGroup
    <2>2. bumps(p) = {v}
      <3> HIDE DEF v, Bump
      <3> QED  BY <2>1
    <2>3. v \in Version
      BY GroupBaseIsNewest, IncrementIsNewer, MergedIsOfGroup, GroupStrategyIsRanked
    <2>4. MaxVersion({v}) = v
      <3> HIDE DEF v
      <3>1. {v} \subseteq Version /\ {v} # {}
        BY <2>3
      <3>2. IsFiniteSet({v})
        BY FS_Singleton
      <3>3. MaxVersion({v}) \in {v}
        BY <3>1, <3>2, MaxVersionIsMax
      <3> QED  BY <3>3
    <2> HIDE DEF v, bumps, next
    <2>5. next[p] = v
      BY <1>1, <2>2, <2>4
    <2> QED  BY <2>5 DEF v
  <1> QED  BY <1>1, <1>2
=============================================================================
