------------------------ MODULE TopologicalSortProofs ------------------------
(***************************************************************************)
(* Proofs about TopologicalSort, for every project and every set of        *)
(* workspaces to sort. They rest on Worklist: a workspace that is settled, *)
(* that is, reached and no longer queued, is above all its dependencies.   *)
(* Two more parts show that the groups are those publishPackages may be    *)
(* given, and why the loop ends.  The last part is about Dependents.       *)
(***************************************************************************)
EXTENDS TopologicalSort, Dependents, FiniteSetTheorems, TLAPS

Settled == {w \in DOMAIN ordered : w \notin ToSet(queue)}

\* Every workspace to sort was reached or is still queued.
AllReached == \A w \in targets : w \in DOMAIN ordered \/ w \in ToSet(queue)

\* A settled workspace is above its dependencies and passed the cycle test.
SettledIsAbove ==
    \A w \in Settled :
        /\ ordered[w] <= Cardinality(targets)
        /\ \A d \in Children(w) : d \in DOMAIN ordered /\ ordered[d] > ordered[w]

SortedIsSettled == phase = "sorted" => queue = <<>>

\* The inductive invariant.
Worklist == TypeOK /\ AllReached /\ SettledIsAbove /\ SortedIsSettled

\* rank orders the workspaces to sort.
IsRank(rank) ==
    /\ rank \in [targets -> 0..Cardinality(targets)]
    /\ \A w \in targets : \A d \in Children(w) : rank[d] > rank[w]

\* No level exceeds any ranking.
BelowRanks ==
    \A rank \in [targets -> 0..Cardinality(targets)] :
        IsRank(rank) => \A w \in DOMAIN ordered : ordered[w] <= rank[w]

\* The cycle was seen at the head of the queue.
ThrownIsTooDeep == phase = "thrown" => queue # <<>> /\ TooDeep(Head(queue))

-----------------------------------------------------------------------------
(* Sequences. *)

LEMMA ListingOfSet ==
    ASSUME NEW S, IsFiniteSet(S), NEW q \in ListingsOf(S)
    PROVE  q \in Seq(S) /\ ToSet(q) = S
  <1>1. Cardinality(S) \in Nat
    BY FS_CardinalityType
  <1>2. /\ q \in [1..Cardinality(S) -> S]
        /\ \A x \in S : \E i \in DOMAIN q : q[i] = x
    BY DEF ListingsOf
  <1>3. q \in Seq(S) /\ DOMAIN q = 1..Cardinality(S)
    BY <1>1, <1>2
  <1> QED  BY <1>2, <1>3 DEF ToSet

LEMMA ConcatSet ==
    ASSUME NEW S, NEW p \in Seq(S), NEW q \in Seq(S)
    PROVE  p \o q \in Seq(S) /\ ToSet(p \o q) = ToSet(p) \cup ToSet(q)
  <1>1. ASSUME NEW x \in ToSet(p \o q)
        PROVE  x \in ToSet(p) \cup ToSet(q)
    BY <1>1 DEF ToSet
  <1>2. ASSUME NEW x \in ToSet(p)
        PROVE  x \in ToSet(p \o q)
    <2>1. PICK i \in 1..Len(p) : x = p[i]
      BY DEF ToSet
    <2>2. i \in 1..Len(p \o q) /\ (p \o q)[i] = x
      BY <2>1
    <2> QED  BY <2>2 DEF ToSet
  <1>3. ASSUME NEW x \in ToSet(q)
        PROVE  x \in ToSet(p \o q)
    <2>1. PICK i \in 1..Len(q) : x = q[i]
      BY DEF ToSet
    <2>2. Len(p) + i \in 1..Len(p \o q) /\ (p \o q)[Len(p) + i] = x
      BY <2>1
    <2> QED  BY <2>2 DEF ToSet
  <1> QED  BY <1>1, <1>2, <1>3

LEMMA HeadAndTail ==
    ASSUME NEW S, NEW q \in Seq(S), q # <<>>
    PROVE  /\ Head(q) \in S /\ Tail(q) \in Seq(S)
           /\ ToSet(q) \subseteq {Head(q)} \cup ToSet(Tail(q))
  <1>1. ASSUME NEW x \in ToSet(q), x # Head(q)
        PROVE  x \in ToSet(Tail(q))
    <2>1. PICK i \in 1..Len(q) : x = q[i]
      BY DEF ToSet
    <2>2. i - 1 \in 1..Len(Tail(q)) /\ Tail(q)[i - 1] = x
      BY <1>1, <2>1
    <2>3. Tail(q) \in Seq(S)
      OBVIOUS
    <2>4. i - 1 \in DOMAIN Tail(q)
      BY <2>2, <2>3
    <2> QED  BY <2>2, <2>4 DEF ToSet
  <1> QED  BY <1>1

-----------------------------------------------------------------------------
(* One visit. *)

LEMMA TargetsFinite ==
    ASSUME TypeOK
    PROVE  /\ IsFiniteSet(targets) /\ Cardinality(targets) \in Nat
           /\ \A w : IsFiniteSet(DependenciesToSort(w)) /\ IsFiniteSet(DevDependenciesToSort(w))
           /\ \A w : Children(w) \subseteq targets
  <1>1. IsFiniteSet(targets)
    BY SortAssumption, FS_Subset DEF TypeOK
  <1>2. \A w : DependenciesToSort(w) \subseteq targets /\ DevDependenciesToSort(w) \subseteq targets
    BY DEF DependenciesToSort, DevDependenciesToSort
  <1> QED  BY <1>1, <1>2, FS_Subset, FS_CardinalityType DEF Children

\* A visit takes the head off the queue and puts its dependencies there.
LEMMA VisitUnshifts ==
    ASSUME TypeOK, Visit
    PROVE  \E front \in Seq(targets) : /\ ToSet(front) = Children(Head(queue))
                                       /\ queue' = front \o Tail(queue)
  <1> DEFINE w == Head(queue)
  <1>1. queue \in Seq(targets) /\ queue # <<>> /\ Tail(queue) \in Seq(targets)
    BY DEF TypeOK, Visit
  <1>2. PICK a \in ListingsOf(DependenciesToSort(w)), b \in ListingsOf(DevDependenciesToSort(w)) :
            queue' = b \o a \o Tail(queue)
    BY DEF Visit
  <1>3. a \in Seq(DependenciesToSort(w)) /\ ToSet(a) = DependenciesToSort(w)
        /\ b \in Seq(DevDependenciesToSort(w)) /\ ToSet(b) = DevDependenciesToSort(w)
    BY <1>2, TargetsFinite, ListingOfSet
  <1>4. DependenciesToSort(w) \subseteq targets /\ DevDependenciesToSort(w) \subseteq targets
    BY DEF DependenciesToSort, DevDependenciesToSort
  <1>5. a \in Seq(targets) /\ b \in Seq(targets)
    BY <1>3, <1>4
  <1>6. b \o a \in Seq(targets) /\ ToSet(b \o a) = Children(w)
    BY <1>3, <1>5, ConcatSet DEF Children
  <1>7. queue' = (b \o a) \o Tail(queue)
    BY <1>1, <1>2, <1>5
  <1> QED  BY <1>6, <1>7

\* After a visit the dependencies are queued, and so is who was queued behind.
LEMMA VisitQueues ==
    ASSUME TypeOK, Visit
    PROVE  /\ Head(queue) \in targets
           /\ queue' \in Seq(targets)
           /\ Children(Head(queue)) \subseteq ToSet(queue')
           /\ ToSet(queue) \subseteq {Head(queue)} \cup ToSet(queue')
  <1> DEFINE w    == Head(queue)
             back == Tail(queue)
  <1>1. queue \in Seq(targets) /\ queue # <<>>
    BY DEF TypeOK, Visit
  <1>2. w \in targets /\ back \in Seq(targets) /\ ToSet(queue) \subseteq {w} \cup ToSet(back)
    BY <1>1, HeadAndTail
  <1>3. PICK front \in Seq(targets) : ToSet(front) = Children(w) /\ queue' = front \o back
    BY VisitUnshifts
  <1> HIDE DEF w, back
  <1>4. front \o back \in Seq(targets) /\ ToSet(front \o back) = Children(w) \cup ToSet(back)
    BY <1>2, <1>3, ConcatSet
  <1> QED  BY <1>2, <1>3, <1>4 DEF w

\* The levels after a visit: nobody rises, the dependencies are below the head.
LEMMA VisitLevels ==
    ASSUME TypeOK, Visit
    PROVE  LET w == Head(queue) IN
           /\ DOMAIN ordered' = DOMAIN ordered \cup {w} \cup Children(w)
           /\ \A v \in DOMAIN ordered' : ordered'[v] \in Nat
           /\ \A v \in DOMAIN ordered : ordered'[v] >= ordered[v]
           /\ \A v \in DOMAIN ordered \ Children(w) : ordered'[v] = ordered[v]
           /\ \A d \in Children(w) : ordered'[d] > LevelOf(w)
           /\ w \notin Children(w) => ordered'[w] = LevelOf(w)
           /\ \A d \in Children(w) : ordered'[d] \in {LevelOf(d), LevelOf(w) + 1}
  <1> DEFINE w == Head(queue)
  <1>1. \A v : LevelOf(v) \in Nat
    BY DEF TypeOK, LevelOf
  <1>2. ordered' = LevelsAfter(w)
    BY DEF Visit
  <1>3. \A v \in DOMAIN ordered : LevelOf(v) = ordered[v]
    BY DEF LevelOf
  <1> HIDE DEF w
  <1>4. /\ DOMAIN ordered' = DOMAIN ordered \cup {w} \cup Children(w)
        /\ \A v \in DOMAIN ordered' :
              ordered'[v] = IF v \in Children(w) /\ LevelOf(v) <= LevelOf(w)
                            THEN LevelOf(w) + 1 ELSE LevelOf(v)
    BY <1>2 DEF LevelsAfter
  <1>5. /\ \A v \in DOMAIN ordered' : ordered'[v] \in Nat
        /\ \A d \in Children(w) : ordered'[d] > LevelOf(w)
        /\ \A d \in Children(w) : ordered'[d] \in {LevelOf(d), LevelOf(w) + 1}
        /\ w \notin Children(w) => ordered'[w] = LevelOf(w)
    BY <1>1, <1>4
  <1>6. /\ \A v \in DOMAIN ordered : ordered'[v] >= ordered[v]
        /\ \A v \in DOMAIN ordered \ Children(w) : ordered'[v] = ordered[v]
    BY <1>1, <1>3, <1>4
  <1> QED  BY <1>4, <1>5, <1>6 DEF w

-----------------------------------------------------------------------------
(* The worklist. *)

LEMMA InitWorklist ==
    ASSUME Init
    PROVE  Worklist
  <1>1. IsFiniteSet(targets)
    BY SortAssumption, FS_Subset DEF Init
  <1>2. queue \in Seq(targets) /\ ToSet(queue) = targets
    BY <1>1, ListingOfSet DEF Init
  <1>3. DOMAIN ordered = {}
    BY DEF Init
  <1>4. TypeOK
    BY <1>2, <1>3, SortAssumption DEF Init, TypeOK
  <1> QED
    BY <1>2, <1>3, <1>4 DEF Init, Worklist, AllReached, SettledIsAbove, Settled, SortedIsSettled

LEMMA VisitKeepsWorklist ==
    ASSUME Worklist, Visit
    PROVE  Worklist'
  <1> DEFINE w == Head(queue)
  <1>1. TypeOK
    BY DEF Worklist
  <1>2. UNCHANGED input /\ phase = "sorting" /\ phase' = "sorting"
    BY DEF Visit
  <1>3. Children(w) \subseteq targets /\ Cardinality(targets) \in Nat
    BY <1>1, TargetsFinite
  <1>4. \A v : Children(v)' = Children(v)
    BY <1>2 DEF input, Children, DependenciesToSort, DevDependenciesToSort
  <1>5. LevelOf(w) \in Nat /\ LevelOf(w) <= Cardinality(targets)
    BY <1>1, <1>3 DEF Visit, TooDeep, TypeOK, LevelOf
  <1>6. TypeOK'
    BY <1>1, <1>2, <1>3, VisitQueues, VisitLevels DEF TypeOK, input
  <1>7. AllReached'
    BY <1>1, <1>2, VisitQueues, VisitLevels DEF Worklist, AllReached, input
  <1>8. SettledIsAbove'
    <2> SUFFICES ASSUME NEW v \in DOMAIN ordered', v \notin ToSet(queue')
                 PROVE  /\ ordered'[v] <= Cardinality(targets)
                        /\ \A d \in Children(v) : d \in DOMAIN ordered' /\ ordered'[d] > ordered'[v]
      BY <1>2, <1>4 DEF SettledIsAbove, Settled, input
    <2>1. v \notin Children(w)
      BY <1>1, VisitQueues
    <2>2. CASE v = w
      BY <1>1, <1>5, <2>1, <2>2, VisitLevels
    <2>3. CASE v # w
      <3>1. v \in DOMAIN ordered /\ ordered'[v] = ordered[v] /\ v \notin ToSet(queue)
        BY <1>1, <2>1, <2>3, VisitLevels, VisitQueues
      <3>2. /\ ordered[v] <= Cardinality(targets)
            /\ \A d \in Children(v) : d \in DOMAIN ordered /\ ordered[d] > ordered[v]
        BY <3>1 DEF Worklist, SettledIsAbove, Settled
      <3>3. /\ \A d \in DOMAIN ordered : ordered'[d] >= ordered[d] /\ d \in DOMAIN ordered'
            /\ \A d \in DOMAIN ordered : ordered[d] \in Nat
            /\ \A d \in DOMAIN ordered' : ordered'[d] \in Nat
        BY <1>1, VisitLevels DEF TypeOK
      <3> HIDE DEF w
      <3> QED  BY <3>1, <3>2, <3>3
    <2> QED  BY <2>2, <2>3
  <1>9. SortedIsSettled'
    BY <1>2 DEF SortedIsSettled
  <1> QED  BY <1>6, <1>7, <1>8, <1>9 DEF Worklist

LEMMA OthersKeepWorklist ==
    ASSUME Worklist, ThrowCycle \/ Return \/ UNCHANGED vars
    PROVE  Worklist'
  <1>1. UNCHANGED <<manifest, targets, dev, queue, ordered>>
    BY DEF ThrowCycle, Return, vars, input
  <1>2. TypeOK'
    BY <1>1 DEF Worklist, TypeOK, ThrowCycle, Return, vars
  <1>3. AllReached'
    BY <1>1 DEF Worklist, AllReached
  <1>4. SettledIsAbove'
    BY <1>1 DEF Worklist, SettledIsAbove, Settled, Children, DependenciesToSort,
                DevDependenciesToSort
  <1>5. SortedIsSettled'
    BY <1>1 DEF Worklist, SortedIsSettled, ThrowCycle, Return, vars
  <1> QED  BY <1>2, <1>3, <1>4, <1>5 DEF Worklist

\* The worklist invariant holds on every graph, cycles included.
THEOREM WorklistHolds == Spec => []Worklist
  <1>1. Init => Worklist
    BY InitWorklist
  <1>2. Worklist /\ [Next]_vars => Worklist'
    BY VisitKeepsWorklist, OthersKeepWorklist DEF Next, Terminated
  <1> QED  BY <1>1, <1>2, PTL DEF Spec

\* getTopologicalSort.ts gives levels to the workspaces to sort and no other.
THEOREM SortTypeCorrect == Spec => []TypeOK
  <1>1. Worklist => TypeOK
    BY DEF Worklist
  <1> QED  BY <1>1, WorklistHolds, PTL

-----------------------------------------------------------------------------
(* The order. *)

LEMMA FewerAbove ==
    ASSUME NEW n \in Nat, NEW L \in SUBSET (0..n), NEW low \in L, NEW high \in L, high > low
    PROVE  Cardinality({l \in L : l > high}) < Cardinality({l \in L : l > low})
  <1> DEFINE AboveLow  == {l \in L : l > low}
             AboveHigh == {l \in L : l > high}
  <1>1. IsFiniteSet(L)
    <2>1. IsFiniteSet(0..n)
      BY FS_Interval
    <2> QED  BY <2>1, FS_Subset
  <1>2. AboveLow \subseteq L /\ AboveHigh \subseteq AboveLow /\ high \in AboveLow
        /\ high \notin AboveHigh
    <2>1. \A l \in L : l \in Nat
      OBVIOUS
    <2>2. \A l \in L : l > high => l > low
      BY <2>1
    <2>3. AboveLow \subseteq L /\ high \in AboveLow
      OBVIOUS
    <2>4. ~(high > high)
      BY <2>1
    <2> QED  BY <2>2, <2>3, <2>4
  <1>3. IsFiniteSet(AboveLow)
    BY <1>1, <1>2, FS_Subset
  <1> HIDE DEF AboveLow, AboveHigh
  <1>4. IsFiniteSet(AboveHigh) /\ Cardinality(AboveHigh) <= Cardinality(AboveLow)
        /\ Cardinality(AboveHigh) # Cardinality(AboveLow)
    BY <1>2, <1>3, FS_Subset
  <1>5. Cardinality(AboveLow) \in Nat /\ Cardinality(AboveHigh) \in Nat
    BY <1>3, <1>4, FS_CardinalityType
  <1>6. Cardinality(AboveHigh) < Cardinality(AboveLow)
    BY <1>4, <1>5
  <1> QED  BY <1>6 DEF AboveLow, AboveHigh

LEMMA DeeperIsEarlier ==
    ASSUME NEW n \in Nat, Levels \subseteq 0..n,
           NEW v \in DOMAIN ordered, NEW d \in DOMAIN ordered, ordered[d] > ordered[v]
    PROVE  GroupIndex(d) < GroupIndex(v)
  <1> DEFINE high == ordered[d]
             low  == ordered[v]
  <1>1. high \in Levels /\ low \in Levels /\ high > low
    BY DEF Levels
  <1>2. IsFiniteSet(Levels)
    <2>1. IsFiniteSet(0..n)
      BY FS_Interval
    <2> QED  BY <2>1, FS_Subset
  <1> HIDE DEF high, low
  <1>3. Cardinality({l \in Levels : l > high}) < Cardinality({l \in Levels : l > low})
    BY <1>1, FewerAbove
  <1>4. \A x : Cardinality({l \in Levels : l > x}) \in Nat
    <2> TAKE x
    <2>1. {l \in Levels : l > x} \subseteq Levels
      OBVIOUS
    <2> HIDE DEF Levels
    <2>2. IsFiniteSet({l \in Levels : l > x})
      BY <1>2, <2>1, FS_Subset
    <2> QED  BY <2>2, FS_CardinalityType
  <1> DEFINE fewer == Cardinality({l \in Levels : l > high})
             more  == Cardinality({l \in Levels : l > low})
  <1>5. GroupIndex(d) = 1 + fewer /\ GroupIndex(v) = 1 + more
    BY DEF GroupIndex, high, low
  <1>6. fewer \in Nat /\ more \in Nat /\ fewer < more
    BY <1>3, <1>4
  <1> HIDE DEF fewer, more
  <1> QED  BY <1>5, <1>6

\* What getTopologicalSort returns is a topological order of the workspaces.
THEOREM SortsTopologically == Spec => []SortIsTopological
  <1>1. ASSUME Worklist, phase = "sorted"
        PROVE  /\ DOMAIN ordered = targets
               /\ \A w \in targets : \A d \in Children(w) : GroupIndex(d) < GroupIndex(w)
    <2>1. ToSet(queue) = {}
      BY <1>1 DEF Worklist, SortedIsSettled, ToSet
    <2>2. DOMAIN ordered = targets
      BY <1>1, <2>1 DEF Worklist, AllReached, TypeOK
    <2>3. \A w \in targets :
              /\ ordered[w] \in Nat /\ ordered[w] <= Cardinality(targets)
              /\ \A d \in Children(w) : d \in targets /\ ordered[d] > ordered[w]
      BY <1>1, <2>1, <2>2 DEF Worklist, SettledIsAbove, Settled, TypeOK
    <2>4. Cardinality(targets) \in Nat
      BY <1>1, TargetsFinite DEF Worklist
    <2>5. Levels \subseteq 0..Cardinality(targets)
      BY <2>2, <2>3, <2>4 DEF Levels
    <2> QED  BY <2>2, <2>3, <2>4, <2>5, DeeperIsEarlier
  <1>2. Worklist => SortIsTopological
    BY <1>1 DEF SortIsTopological
  <1> QED  BY <1>2, WorklistHolds, PTL

-----------------------------------------------------------------------------
(* Cycles. *)

LEMMA VisitStaysBelow ==
    ASSUME Worklist, BelowRanks, Visit
    PROVE  BelowRanks'
  <1> DEFINE w == Head(queue)
  <1>1. TypeOK
    BY DEF Worklist
  <1>2. UNCHANGED <<manifest, targets, dev>>
    BY DEF Visit, input
  <1>3. \A v : Children(v)' = Children(v)
    BY <1>2 DEF Children, DependenciesToSort, DevDependenciesToSort
  <1> SUFFICES ASSUME NEW rank \in [targets -> 0..Cardinality(targets)], IsRank(rank),
                      NEW v \in DOMAIN ordered'
               PROVE  ordered'[v] <= rank[v]
    BY <1>2, <1>3 DEF BelowRanks, IsRank
  <1>4. \A x \in DOMAIN ordered : ordered[x] <= rank[x]
    BY DEF BelowRanks
  <1>5. w \in targets /\ Children(w) \subseteq targets /\ DOMAIN ordered \subseteq targets
    BY <1>1, VisitQueues, TargetsFinite DEF TypeOK
  <1>6. \A x \in targets : rank[x] \in Nat
    BY <1>1, TargetsFinite
  <1>7. \A x \in targets : LevelOf(x) \in Nat /\ LevelOf(x) <= rank[x]
    BY <1>1, <1>4, <1>6 DEF LevelOf, TypeOK
  <1>8. \A d \in Children(w) : LevelOf(w) + 1 <= rank[d]
    BY <1>5, <1>6, <1>7 DEF IsRank
  <1>9. CASE v \in Children(w)
    <2>1. ordered'[v] \in {LevelOf(v), LevelOf(w) + 1}
      BY <1>1, <1>9, VisitLevels
    <2> QED  BY <1>5, <1>7, <1>8, <1>9, <2>1
  <1>10. CASE v \notin Children(w)
    <2>1. CASE v = w
      BY <1>1, <1>5, <1>7, <1>10, <2>1, VisitLevels
    <2>2. CASE v # w
      BY <1>1, <1>4, <1>10, <2>2, VisitLevels
    <2> QED  BY <2>1, <2>2
  <1> QED  BY <1>9, <1>10

\* The levels stay below every ranking of the graph, if it has one.
THEOREM LevelsStayBelow == Spec => [](BelowRanks /\ ThrownIsTooDeep)
  <1>1. Init => BelowRanks /\ ThrownIsTooDeep
    BY DEF Init, BelowRanks, ThrownIsTooDeep
  <1>2. Worklist /\ BelowRanks /\ ThrownIsTooDeep /\ [Next]_vars
            => BelowRanks' /\ ThrownIsTooDeep'
    <2> SUFFICES ASSUME Worklist, BelowRanks, ThrownIsTooDeep, [Next]_vars
                 PROVE  BelowRanks' /\ ThrownIsTooDeep'
      OBVIOUS
    <2>1. CASE Visit
      BY <2>1, VisitStaysBelow DEF Visit, ThrownIsTooDeep
    <2>2. CASE ThrowCycle \/ Return \/ UNCHANGED vars
      <3>1. UNCHANGED <<manifest, targets, dev, queue, ordered>>
        BY <2>2 DEF ThrowCycle, Return, vars, input
      <3>2. BelowRanks'
        BY <3>1 DEF BelowRanks, IsRank, Children, DependenciesToSort, DevDependenciesToSort
      <3>3. ThrownIsTooDeep'
        BY <2>2, <3>1 DEF ThrownIsTooDeep, ThrowCycle, Return, vars, TooDeep, LevelOf
      <3> QED  BY <3>2, <3>3
    <2> QED  BY <2>1, <2>2 DEF Next, Terminated
  <1> QED  BY <1>1, <1>2, WorklistHolds, PTL DEF Spec

\* The level bound of getTopologicalSort throws on cyclic graphs and only there.
THEOREM CyclesFound == Spec => []CyclesAreReported
  <1>1. Worklist /\ phase = "sorted" => Acyclic
    <2> SUFFICES ASSUME Worklist, phase = "sorted"
                 PROVE  Acyclic
      OBVIOUS
    <2>1. ToSet(queue) = {}
      BY DEF Worklist, SortedIsSettled, ToSet
    <2>2. DOMAIN ordered = targets
      BY <2>1 DEF Worklist, AllReached, TypeOK
    <2>3. \A w \in targets :
              /\ ordered[w] \in Nat /\ ordered[w] <= Cardinality(targets)
              /\ \A d \in Children(w) : d \in targets /\ ordered[d] > ordered[w]
      BY <2>1, <2>2 DEF Worklist, SettledIsAbove, Settled, TypeOK
    <2>4. Cardinality(targets) \in Nat
      BY TargetsFinite DEF Worklist
    <2> DEFINE rank == [w \in targets |-> ordered[w]]
    <2>5. rank \in [targets -> 0..Cardinality(targets)]
      BY <2>3, <2>4
    <2>6. \A w \in targets : \A d \in Children(w) : rank[d] > rank[w]
      BY <2>3
    <2> HIDE DEF rank
    <2> QED  BY <2>5, <2>6 DEF Acyclic
  <1>2. Worklist /\ BelowRanks /\ ThrownIsTooDeep /\ phase = "thrown" => ~Acyclic
    <2> SUFFICES ASSUME Worklist, BelowRanks, queue # <<>>, TooDeep(Head(queue)),
                        NEW rank \in [targets -> 0..Cardinality(targets)], IsRank(rank)
                 PROVE  FALSE
      BY DEF ThrownIsTooDeep, Acyclic, IsRank
    <2>1. Cardinality(targets) \in Nat
      BY TargetsFinite DEF Worklist
    <2>2. Head(queue) \in targets
      BY HeadAndTail DEF Worklist, TypeOK
    <2>3. LevelOf(Head(queue)) > Cardinality(targets)
      BY DEF TooDeep
    <2>4. Head(queue) \in DOMAIN ordered /\ ordered[Head(queue)] > Cardinality(targets)
      BY <2>1, <2>3 DEF LevelOf
    <2>5. ordered[Head(queue)] \in Nat /\ ordered[Head(queue)] <= rank[Head(queue)]
      BY <2>4 DEF BelowRanks, Worklist, TypeOK
    <2> QED  BY <2>1, <2>2, <2>4, <2>5
  <1>3. Worklist /\ BelowRanks /\ ThrownIsTooDeep => CyclesAreReported
    BY <1>1, <1>2 DEF CyclesAreReported
  <1> QED  BY <1>3, WorklistHolds, LevelsStayBelow, PTL

-----------------------------------------------------------------------------
(* No superfluous groups. *)

\* Somebody who is at least as deep as needed pushed w down to its level.
PushedDown ==
    \A w \in DOMAIN ordered : ordered[w] > 0 =>
        \E v \in DOMAIN ordered : w \in Children(v) /\ ordered[v] >= ordered[w] - 1

LEMMA VisitPushesDown ==
    ASSUME Worklist, PushedDown, Visit
    PROVE  PushedDown'
  <1> DEFINE head == Head(queue)
  <1>1. TypeOK
    BY DEF Worklist
  <1>2. \A v : Children(v)' = Children(v)
    BY DEF Visit, input, Children, DependenciesToSort, DevDependenciesToSort
  <1>3. /\ DOMAIN ordered' = DOMAIN ordered \cup {head} \cup Children(head)
        /\ \A v \in DOMAIN ordered' : ordered'[v] \in Nat
        /\ \A v \in DOMAIN ordered : ordered'[v] >= ordered[v]
        /\ \A v \in DOMAIN ordered \ Children(head) : ordered'[v] = ordered[v]
        /\ \A d \in Children(head) : ordered'[d] > LevelOf(head)
        /\ head \notin Children(head) => ordered'[head] = LevelOf(head)
        /\ \A d \in Children(head) : ordered'[d] \in {LevelOf(d), LevelOf(head) + 1}
    BY <1>1, VisitLevels
  <1>4. \A v : LevelOf(v) \in Nat
    BY <1>1 DEF TypeOK, LevelOf
  <1>5. \A v \in DOMAIN ordered : ordered[v] \in Nat /\ LevelOf(v) = ordered[v]
    BY <1>1 DEF TypeOK, LevelOf
  <1>6. \A v : v \notin DOMAIN ordered => LevelOf(v) = 0
    BY DEF LevelOf
  <1> HIDE DEF head
  <1> SUFFICES ASSUME NEW w \in DOMAIN ordered', ordered'[w] > 0
               PROVE  \E v \in DOMAIN ordered' :
                          w \in Children(v) /\ ordered'[v] >= ordered'[w] - 1
    BY <1>2 DEF PushedDown
  <1>7. CASE w \in Children(head) /\ ordered'[w] = LevelOf(head) + 1
    <2>1. head \in DOMAIN ordered' /\ ordered'[head] >= LevelOf(head)
      BY <1>3, <1>4
    <2> QED  BY <1>3, <1>4, <1>7, <2>1
  <1>8. CASE ~(w \in Children(head) /\ ordered'[w] = LevelOf(head) + 1)
    <2>1. w \in DOMAIN ordered /\ ordered'[w] = ordered[w]
      BY <1>3, <1>4, <1>5, <1>6, <1>8
    <2>2. PICK v \in DOMAIN ordered : w \in Children(v) /\ ordered[v] >= ordered[w] - 1
      BY <2>1 DEF PushedDown
    <2>3. v \in DOMAIN ordered' /\ ordered'[v] >= ordered[v] /\ ordered'[v] \in Nat
      BY <1>3
    <2> QED  BY <1>5, <2>1, <2>2, <2>3
  <1> QED  BY <1>7, <1>8

\* The list has no more groups than the longest chain of dependencies asks for.
THEOREM NoSuperfluousGroups == Spec => []GroupsAreTight
  <1>1. Init => PushedDown
    BY DEF Init, PushedDown
  <1>2. Worklist /\ PushedDown /\ [Next]_vars => PushedDown'
    <2> SUFFICES ASSUME Worklist, PushedDown, [Next]_vars
                 PROVE  PushedDown'
      OBVIOUS
    <2>1. CASE Visit
      BY <2>1, VisitPushesDown
    <2>2. CASE ThrowCycle \/ Return \/ UNCHANGED vars
      <3>1. UNCHANGED <<manifest, targets, dev, ordered>>
        BY <2>2 DEF ThrowCycle, Return, vars, input
      <3> QED  BY <3>1 DEF PushedDown, Children, DependenciesToSort, DevDependenciesToSort
    <2> QED  BY <2>1, <2>2 DEF Next, Terminated
  <1>3. Worklist /\ PushedDown => GroupsAreTight
    <2> SUFFICES ASSUME Worklist, PushedDown, phase = "sorted",
                        NEW w \in targets, ordered[w] > 0
                 PROVE  \E v \in targets : w \in Children(v) /\ ordered[v] = ordered[w] - 1
      BY DEF GroupsAreTight
    <2>1. ToSet(queue) = {}
      BY DEF Worklist, SortedIsSettled, ToSet
    <2>2. DOMAIN ordered = targets /\ \A v \in targets : ordered[v] \in Nat
      BY <2>1 DEF Worklist, AllReached, TypeOK
    <2>3. PICK v \in targets : w \in Children(v) /\ ordered[v] >= ordered[w] - 1
      BY <2>2 DEF PushedDown
    <2>4. ordered[w] > ordered[v]
      BY <2>1, <2>2, <2>3 DEF Worklist, SettledIsAbove, Settled
    <2> QED  BY <2>2, <2>3, <2>4
  <1> QED  BY <1>1, <1>2, <1>3, WorklistHolds, PTL DEF Spec


-----------------------------------------------------------------------------
(* The groups the executor is given. *)

\* What StagesAssumption of PublishStages asks of Level and Depth, and what its
\* executor counts on when it goes through the groups one by one.
GroupsFitTheStages ==
    phase = "sorted" =>
        LET depth == Cardinality(Levels)
        IN  /\ targets # {} => depth \in Nat \ {0}
            /\ \A w \in targets : GroupIndex(w) \in 1..depth
            /\ \A w \in targets : \A d \in Children(w) : GroupIndex(d) < GroupIndex(w)
            /\ \A g \in 1..depth : \E w \in targets : GroupIndex(w) = g

\* The place of a member of a finite set of numbers, counted from the largest.
Place(L, l) == 1 + Cardinality({m \in L : m > l})

LEMMA PlacesAreCounted ==
    ASSUME NEW n \in Nat, NEW L \in SUBSET (0..n)
    PROVE  /\ Cardinality(L) \in Nat
           /\ \A l \in L : Place(L, l) \in 1..Cardinality(L)
           /\ \A g \in 1..Cardinality(L) : \E l \in L : Place(L, l) = g
  <1> DEFINE place == [l \in L |-> Place(L, l)]
             count == Cardinality(L)
  <1>1. IsFiniteSet(L) /\ count \in Nat
    <2>1. IsFiniteSet(0..n)
      BY FS_Interval
    <2> QED  BY <2>1, FS_Subset, FS_CardinalityType
  <1>2. \A l \in L : Place(L, l) \in 1..count
    <2> TAKE l \in L
    <2> DEFINE above == {m \in L : m > l}
    <2>1. above \subseteq L /\ l \notin above
      BY l \in Nat
    <2> HIDE DEF above
    <2>2. Cardinality(above) \in Nat /\ Cardinality(above) <= count /\ Cardinality(above) # count
      BY <1>1, <2>1, FS_Subset, FS_CardinalityType
    <2>3. Place(L, l) = 1 + Cardinality(above)
      BY DEF Place, above
    <2> HIDE DEF count
    <2> QED  BY <1>1, <2>2, <2>3
  <1>3. \A l, m \in L : l # m => Place(L, l) # Place(L, m)
    <2> SUFFICES ASSUME NEW l \in L, NEW m \in L, l < m
                 PROVE  Place(L, l) # Place(L, m)
      OBVIOUS
    <2> DEFINE more == Cardinality({k \in L : k > l})
               less == Cardinality({k \in L : k > m})
    <2>1. less < more
      BY FewerAbove
    <2>2. Place(L, l) \in Nat /\ Place(L, m) \in Nat
      BY <1>1, <1>2
    <2>3. Place(L, l) = 1 + more /\ Place(L, m) = 1 + less
      BY DEF Place
    <2>4. more \in Nat /\ less \in Nat
      <3>1. IsFiniteSet({k \in L : k > l}) /\ IsFiniteSet({k \in L : k > m})
        BY <1>1, FS_Subset
      <3> QED  BY <3>1, FS_CardinalityType
    <2> HIDE DEF more, less
    <2> QED  BY <2>1, <2>3, <2>4
  <1>4. place \in Injection(L, 1..count)
    BY <1>2, <1>3 DEF Injection, IsInjective
  <1>5. IsFiniteSet(1..count) /\ Cardinality(1..count) = count
    <2>1. \A b \in Nat : IsFiniteSet(1..b) /\ Cardinality(1..b) = IF 1 > b THEN 0 ELSE b - 1 + 1
      BY FS_Interval
    <2> HIDE DEF count
    <2> QED  BY <1>1, <2>1
  <1>6. place \in Surjection(L, 1..count)
    <2> HIDE DEF place
    <2> QED  BY <1>4, <1>5, FS_Injection
  <1>7. \A g \in 1..count : \E l \in L : place[l] = g
    <2> HIDE DEF place
    <2> QED  BY <1>6 DEF Surjection
  <1> QED  BY <1>1, <1>2, <1>7

\* Every workspace is in exactly one of the groups 1 to depth, behind all it
\* depends on, and no group is empty: the executor of publishPackages is only
\* ever given groupings that StagesAssumption admits.
THEOREM GroupsAreFit == Spec => []GroupsFitTheStages
  <1>1. ASSUME Worklist, SortIsTopological
        PROVE  GroupsFitTheStages
    <2> SUFFICES ASSUME phase = "sorted"
                 PROVE  /\ targets # {} => Cardinality(Levels) \in Nat \ {0}
                        /\ \A w \in targets : GroupIndex(w) \in 1..Cardinality(Levels)
                        /\ \A g \in 1..Cardinality(Levels) : \E w \in targets : GroupIndex(w) = g
      BY <1>1 DEF GroupsFitTheStages, SortIsTopological
    <2>1. DOMAIN ordered = targets
      BY <1>1 DEF SortIsTopological
    <2>2. Cardinality(targets) \in Nat
      BY <1>1, TargetsFinite DEF Worklist
    <2>3. Levels \subseteq 0..Cardinality(targets)
      <3>1. ToSet(queue) = {}
        BY <1>1 DEF Worklist, SortedIsSettled, ToSet
      <3>2. \A w \in targets : ordered[w] \in Nat /\ ordered[w] <= Cardinality(targets)
        BY <1>1, <2>1, <3>1 DEF Worklist, SettledIsAbove, Settled, TypeOK
      <3> QED  BY <2>1, <2>2, <3>2 DEF Levels
    <2>4. \A w \in targets : ordered[w] \in Levels /\ GroupIndex(w) = Place(Levels, ordered[w])
      BY <2>1 DEF Levels, GroupIndex, Place
    <2>5. \A l \in Levels : \E w \in targets : l = ordered[w]
      BY <2>1 DEF Levels
    <2> HIDE DEF Levels
    <2>6. /\ Cardinality(Levels) \in Nat
          /\ \A l \in Levels : Place(Levels, l) \in 1..Cardinality(Levels)
          /\ \A g \in 1..Cardinality(Levels) : \E l \in Levels : Place(Levels, l) = g
      BY <2>2, <2>3, PlacesAreCounted
    <2>7. targets # {} => Cardinality(Levels) # 0
      BY <2>4, <2>6
    <2> QED  BY <2>4, <2>5, <2>6, <2>7
  <1> QED  BY <1>1, WorklistHolds, SortsTopologically, PTL

-----------------------------------------------------------------------------
(* The worklist empties, or a level gets too deep. *)

\* How far a workspace can still be pushed down before the test for a cycle.
Deepest     == Cardinality(targets) + 1
Headroom(w) == Deepest - LevelOf(w)

\* The places in the queue of the workspaces with headroom k.
WaitingAt(k) == {i \in 1..Len(queue) : Headroom(queue[i]) = k}

\* No workspace is pushed below the level at which the sort throws.
LevelsAreBounded == \A w \in DOMAIN ordered : ordered[w] <= Deepest

\* With the numbers Cardinality(WaitingAt(k)) in a row, largest k first, the row
\* gets smaller in the lexicographic order, which is well-founded.
RowGetsSmaller ==
    \E k \in 0..Deepest :
        /\ Cardinality(WaitingAt(k)') < Cardinality(WaitingAt(k))
        /\ \A j \in (k + 1)..Deepest : Cardinality(WaitingAt(j)') <= Cardinality(WaitingAt(j))

\* The level of every workspace after a visit.
LEMMA LevelAfterVisit ==
    ASSUME TypeOK, Visit
    PROVE  \A v : LevelOf(v)' = IF v \in Children(Head(queue)) /\ LevelOf(v) <= LevelOf(Head(queue))
                                THEN LevelOf(Head(queue)) + 1 ELSE LevelOf(v)
  <1> DEFINE w == Head(queue)
  <1>1. ordered' = LevelsAfter(w)
    BY DEF Visit
  <1> HIDE DEF w
  <1>2. /\ DOMAIN ordered' = DOMAIN ordered \cup {w} \cup Children(w)
        /\ \A v \in DOMAIN ordered' :
              ordered'[v] = IF v \in Children(w) /\ LevelOf(v) <= LevelOf(w)
                            THEN LevelOf(w) + 1 ELSE LevelOf(v)
    BY <1>1 DEF LevelsAfter
  <1> QED  BY <1>2 DEF w, LevelOf

LEMMA VisitKeepsLevelsBounded ==
    ASSUME TypeOK, LevelsAreBounded, Visit
    PROVE  LevelsAreBounded'
  <1> DEFINE w == Head(queue)
  <1>1. Cardinality(targets) \in Nat /\ Deepest' = Deepest
    BY TargetsFinite DEF Visit, input, Deepest
  <1>2. LevelOf(w) \in Nat /\ LevelOf(w) <= Cardinality(targets)
    BY <1>1 DEF Visit, TooDeep, TypeOK, LevelOf
  <1>3. DOMAIN ordered' = DOMAIN ordered \cup {w} \cup Children(w)
        /\ \A v \in DOMAIN ordered' :
              ordered'[v] = IF v \in Children(w) /\ LevelOf(v) <= LevelOf(w)
                            THEN LevelOf(w) + 1 ELSE LevelOf(v)
    BY DEF Visit, LevelsAfter
  <1>4. \A v : LevelOf(v) \in Nat /\ LevelOf(v) <= Deepest
    BY <1>1 DEF LevelsAreBounded, LevelOf, TypeOK, Deepest
  <1>5. LevelOf(w) + 1 <= Deepest
    BY <1>1, <1>2 DEF Deepest
  <1> HIDE DEF w
  <1>6. \A v \in DOMAIN ordered' : ordered'[v] <= Deepest
    BY <1>3, <1>4, <1>5
  <1> QED  BY <1>1, <1>6 DEF LevelsAreBounded

\* Whoever waits with as much headroom as the head had, or more, waited before.
LEMMA VisitLeavesFewer ==
    ASSUME TypeOK, LevelsAreBounded, Visit
    PROVE  RowGetsSmaller
  <1> DEFINE w == Head(queue)
  <1>1. Cardinality(targets) \in Nat /\ Deepest \in Nat /\ Deepest' = Deepest
    BY TargetsFinite DEF Visit, input, Deepest
  <1>2. \A v : LevelOf(v) \in Nat /\ LevelOf(v) <= Deepest /\ Headroom(v) \in 0..Deepest
    <2>1. \A v : LevelOf(v) \in Nat /\ LevelOf(v) <= Deepest
      BY <1>1 DEF LevelsAreBounded, LevelOf, TypeOK, Deepest
    <2> QED  BY <1>1, <2>1 DEF Headroom
  <1>h. PICK h \in 0..Deepest : h = Headroom(w)
    BY <1>2
  <1>3. PICK front \in Seq(targets) : ToSet(front) = Children(w) /\ queue' = front \o Tail(queue)
    BY VisitUnshifts
  <1>4. queue \in Seq(targets) /\ queue # <<>> /\ w = queue[1]
    BY DEF TypeOK, Visit
  <1> DEFINE n == Len(front)
  <1>5. /\ n \in Nat /\ Len(queue) \in Nat /\ Len(queue') = n + Len(queue) - 1
        /\ \A i \in 1..Len(queue') :
              queue'[i] = IF i <= n THEN front[i] ELSE queue[i - n + 1]
        /\ \A i \in 1..n : front[i] \in Children(w)
    <2>1. \A i \in 1..n : front[i] \in ToSet(front)
      BY DEF ToSet
    <2> QED  BY <1>3, <1>4, <2>1
  <1>6. \A v : \/ Headroom(v)' = Headroom(v) /\ (v \in Children(w) => Headroom(v) < h)
               \/ Headroom(v)' < h
    <2> TAKE v
    <2>1. LevelOf(v)' = IF v \in Children(w) /\ LevelOf(v) <= LevelOf(w)
                        THEN LevelOf(w) + 1 ELSE LevelOf(v)
      BY LevelAfterVisit
    <2>2. Headroom(v)' = Deepest - LevelOf(v)'
      BY <1>1 DEF Headroom
    <2> QED  BY <1>h, <1>1, <1>2, <2>1, <2>2 DEF Headroom
  <1> HIDE DEF w, n
  <1>7. \A j \in h..Deepest : \A i \in WaitingAt(j)' :
            i > n /\ i - n + 1 \in WaitingAt(j) \ {1}
    <2> SUFFICES ASSUME NEW j \in h..Deepest, NEW i \in WaitingAt(j)'
                 PROVE  i > n /\ i - n + 1 \in WaitingAt(j) \ {1}
      OBVIOUS
    <2>1. PICK v : i \in 1..Len(queue') /\ v = queue'[i] /\ Headroom(v)' = j
      BY DEF WaitingAt, Headroom, LevelOf
    <2>2. h \in 0..Deepest /\ j \in Nat /\ i \in Nat
      BY <1>1, <2>1
    <2>3. ~(Headroom(v)' < h)
      BY <2>1, <2>2
    <2>4. Headroom(v) = j /\ v \notin Children(w)
      BY <1>6, <2>1, <2>2, <2>3
    <2>5. i > n
      BY <1>5, <2>1, <2>2, <2>4
    <2>6. i - n + 1 \in 2..Len(queue) /\ queue[i - n + 1] = v
      BY <1>5, <2>1, <2>2, <2>5
    <2> QED  BY <2>4, <2>5, <2>6 DEF WaitingAt
  <1>8. h \in 0..Deepest /\ 1 \in WaitingAt(h)
    BY <1>h, <1>4, <1>5 DEF WaitingAt, w
  <1> DEFINE before(j)  == Cardinality(WaitingAt(j))
             after(j)   == Cardinality(WaitingAt(j)')
             without(j) == Cardinality(WaitingAt(j) \ {1})
  <1>9. \A j \in h..Deepest :
           /\ IsFiniteSet(WaitingAt(j))
           /\ before(j) \in Nat /\ after(j) \in Nat /\ without(j) \in Nat
           /\ after(j) <= without(j) /\ without(j) <= before(j)
    <2> TAKE j \in h..Deepest
    <2> DEFINE S == WaitingAt(j)'
               T == WaitingAt(j) \ {1}
               f == [i \in S |-> i - n + 1]
    <2>1. IsFiniteSet(WaitingAt(j))
      <3>1. IsFiniteSet(1..Len(queue))
        <4>1. \A b \in Nat : IsFiniteSet(1..b)
          BY FS_Interval
        <4> QED  BY <1>5, <4>1
      <3> QED  BY <3>1, FS_Subset DEF WaitingAt
    <2>2. IsFiniteSet(T)
      BY <2>1, FS_Subset
    <2>3. f \in Injection(S, T)
      <3>1. \A i \in S : i \in Int /\ i - n + 1 \in T
        <4>1. \A i \in S : i \in Int
          BY DEF WaitingAt
        <4> QED  BY <1>7, <4>1
      <3>2. n \in Int
        BY <1>5
      <3> HIDE DEF S, T
      <3>3. f \in [S -> T]
        BY <3>1
      <3>4. \A a, b \in S : a # b => f[a] # f[b]
        BY <3>1, <3>2
      <3> HIDE DEF f
      <3> QED  BY <3>3, <3>4 DEF Injection, IsInjective
    <2> HIDE DEF f
    <2>4. IsFiniteSet(S) /\ Cardinality(S) <= Cardinality(T)
      <3> HIDE DEF S, T
      <3> QED  BY <2>2, <2>3, FS_Injection
    <2>5. Cardinality(T) <= Cardinality(WaitingAt(j))
      <3> HIDE DEF WaitingAt
      <3> QED  BY <2>1, FS_Subset
    <2> QED  BY <2>1, <2>2, <2>4, <2>5, FS_CardinalityType
  <1>10. h \in h..Deepest /\ \A j \in (h + 1)..Deepest : j \in h..Deepest
    BY <1>1, <1>8
  <1>11. without(h) < before(h)
    <2>1. IsFiniteSet(WaitingAt(h)) /\ before(h) \in Nat
      BY <1>9, <1>10
    <2>2. without(h) = before(h) - 1
      BY <1>8, <2>1, FS_RemoveElement
    <2> HIDE DEF before, without
    <2> QED  BY <2>1, <2>2
  <1>12. after(h) < before(h) /\ \A j \in (h + 1)..Deepest : after(j) <= before(j)
    <2> HIDE DEF before, without, after
    <2> QED  BY <1>9, <1>10, <1>11
  <1> QED  BY <1>8, <1>12 DEF RowGetsSmaller

LEMMA LevelsBoundedHolds == Spec => []LevelsAreBounded
  <1>1. Init => LevelsAreBounded
    BY DEF Init, LevelsAreBounded
  <1>2. TypeOK /\ LevelsAreBounded /\ [Next]_vars => LevelsAreBounded'
    <2>1. CASE Visit
      BY <2>1, VisitKeepsLevelsBounded
    <2>2. CASE ThrowCycle \/ Return \/ UNCHANGED vars
      BY <2>2 DEF ThrowCycle, Return, vars, input, LevelsAreBounded, Deepest
    <2> QED  BY <2>1, <2>2 DEF Next, Terminated
  <1> QED  BY <1>1, <1>2, SortTypeCorrect, PTL DEF Spec

\* The loop of getTopologicalSort ends on every graph, cycles included, although
\* each round queues all dependencies of a workspace again: whatever a round
\* queues, and whatever it pushes down, has less headroom left than the workspace
\* it takes from the queue, and headroom is never negative.
THEOREM EveryVisitCounts ==
    Spec => /\ [](\A w \in targets : Headroom(w) \in 0..Deepest)
            /\ [][phase' = "sorting" => RowGetsSmaller]_vars
  <1>1. TypeOK /\ LevelsAreBounded => \A w \in targets : Headroom(w) \in 0..Deepest
    BY TargetsFinite DEF TypeOK, LevelsAreBounded, Headroom, LevelOf, Deepest
  <1>2. TypeOK /\ LevelsAreBounded /\ [Next]_vars => [phase' = "sorting" => RowGetsSmaller]_vars
    <2> SUFFICES ASSUME TypeOK, LevelsAreBounded, Next, phase' = "sorting", vars' # vars
                 PROVE  RowGetsSmaller
      OBVIOUS
    <2>1. Visit
      BY DEF Next, ThrowCycle, Return, Terminated
    <2> QED  BY <2>1, VisitLeavesFewer
  <1> QED  BY <1>1, <1>2, SortTypeCorrect, LevelsBoundedHolds, PTL DEF Spec

-----------------------------------------------------------------------------
(***************************************************************************)
(* getDependents.  What was visited or is queued holds the packages asked  *)
(* about and, with a visited package, its direct dependents; and it lies   *)
(* in every closed set around the packages asked about.  So the packages   *)
(* visited when the queue is empty are the smallest such set.              *)
(***************************************************************************)

Met == allDependents \cup ToSet(waiting)

FollowType ==
    /\ needs \in [Idents -> Needs]
    /\ packageNames \subseteq Idents
    /\ waiting \in Seq(Idents)
    /\ allDependents \subseteq Idents
    /\ answered => waiting = <<>>

FollowsEnough ==
    ~answered =>
        /\ packageNames \subseteq Met
        /\ \A p \in allDependents : DirectDependents(p) \subseteq Met

FollowsNoMore ==
    ~answered =>
        \A C \in SUBSET (DOMAIN Graph \cup packageNames) :
            packageNames \subseteq C /\ ClosedIn(Graph, C) => Met \subseteq C

\* The inductive invariant.
Following == FollowType /\ FollowsEnough /\ FollowsNoMore /\ DependentsAreExact

LEMMA TailIsPart ==
    ASSUME NEW S, NEW q \in Seq(S), q # <<>>
    PROVE  ToSet(q) = {Head(q)} \cup ToSet(Tail(q))
  <1>1. ASSUME NEW x \in ToSet(Tail(q))
        PROVE  x \in ToSet(q)
    <2>1. PICK i \in 1..Len(Tail(q)) : x = Tail(q)[i]
      BY DEF ToSet
    <2>2. i + 1 \in 1..Len(q) /\ q[i + 1] = x
      BY <2>1
    <2> QED  BY <2>2 DEF ToSet
  <1>2. Head(q) \in ToSet(q)
    <2>1. 1 \in 1..Len(q) /\ q[1] = Head(q)
      OBVIOUS
    <2> QED  BY <2>1 DEF ToSet
  <1> QED  BY <1>1, <1>2, HeadAndTail

LEMMA GraphAndDependents ==
    ASSUME NEW p
    PROVE  /\ DOMAIN Graph = Known
           /\ DirectDependents(p) = {q \in Known : p \in Graph[q]}
           /\ DirectDependents(p) \subseteq Idents
  BY DEF Graph, DirectDependents, Known

LEMMA FollowIsSound ==
    ASSUME NEW C, ClosedIn(Graph, C), NEW p \in C
    PROVE  DirectDependents(p) \subseteq C
  BY GraphAndDependents DEF ClosedIn

LEMMA FollowingInit == DependentsInit => Following
  <1> SUFFICES ASSUME DependentsInit PROVE Following
    OBVIOUS
  <1>1. IsFiniteSet(packageNames) /\ packageNames \subseteq Idents
    BY DependentsAssumption, FS_Subset DEF DependentsInit
  <1>2. waiting \in Seq(packageNames) /\ ToSet(waiting) = packageNames
    BY <1>1, ListingOfSet DEF DependentsInit
  <1>3. waiting \in Seq(Idents)
    BY <1>1, <1>2
  <1>4. FollowType
    BY <1>1, <1>3, DependentsAssumption DEF FollowType, DependentsInit
  <1> QED  BY <1>2, <1>4 DEF Following, FollowsEnough, FollowsNoMore, DependentsAreExact,
                            Met, DependentsInit

LEMMA FollowKeeps ==
    ASSUME Following, Follow
    PROVE  Following'
  <1> USE DEF Follow
  <1>1. PICK p : p = Head(waiting)
    OBVIOUS
  <1>2. /\ waiting \in Seq(Idents) /\ waiting # <<>> /\ Tail(waiting) \in Seq(Idents)
        /\ p \in Idents /\ ToSet(waiting) = {p} \cup ToSet(Tail(waiting))
    BY <1>1, HeadAndTail, TailIsPart DEF Following, FollowType
  <1>3. PICK new \in ListingsOf(DirectDependents(p)) : waiting' = new \o Tail(waiting)
    BY <1>1
  <1>4. DirectDependents(p) \subseteq Idents /\ IsFiniteSet(DirectDependents(p))
    BY GraphAndDependents, DependentsAssumption, FS_Subset
  <1>5. new \in Seq(Idents) /\ ToSet(new) = DirectDependents(p)
    BY <1>3, <1>4, ListingOfSet
  <1>6. waiting' \in Seq(Idents) /\ ToSet(waiting') = DirectDependents(p) \cup ToSet(Tail(waiting))
    <2>1. PICK t \in Seq(Idents) : t = Tail(waiting)
      BY <1>2
    <2>2. /\ new \o t \in Seq(Idents)
          /\ ToSet(new \o t) = DirectDependents(p) \cup ToSet(t)
      BY <1>5, ConcatSet
    <2> QED  BY <1>3, <2>1, <2>2
  <1>7. /\ UNCHANGED <<needs, packageNames, answered>>
        /\ allDependents' = allDependents \cup {p}
    BY <1>1
  <1>8. Met' = Met \cup DirectDependents(p) /\ p \in Met
    BY <1>2, <1>6, <1>7 DEF Met
  <1>9. /\ \A q : DirectDependents(q)' = DirectDependents(q)
        /\ Graph' = Graph
    BY <1>7 DEF DirectDependents, Requires, Graph
  <1>10. ~answered /\ FollowsEnough /\ FollowsNoMore
    BY <1>2 DEF Following, FollowType
  <1>11. FollowType'
    BY <1>2, <1>6, <1>7, <1>10 DEF Following, FollowType
  <1>12. FollowsEnough'
    <2>1. \A q \in allDependents' : DirectDependents(q) \subseteq Met'
      BY <1>7, <1>8, <1>10 DEF FollowsEnough
    <2> QED  BY <1>7, <1>8, <1>9, <1>10, <2>1 DEF FollowsEnough
  <1>13. FollowsNoMore'
    <2>1. ASSUME NEW C \in SUBSET (DOMAIN Graph \cup packageNames),
                 packageNames \subseteq C, ClosedIn(Graph, C)
          PROVE  Met' \subseteq C
      <3>1. Met \subseteq C
        BY <1>10, <2>1 DEF FollowsNoMore
      <3>2. DirectDependents(p) \subseteq C
        BY <1>8, <2>1, <3>1, FollowIsSound
      <3> QED  BY <1>8, <3>1, <3>2
    <2> QED  BY <1>7, <1>9, <2>1 DEF FollowsNoMore
  <1>14. DependentsAreExact'
    BY <1>7, <1>10 DEF DependentsAreExact
  <1> QED  BY <1>11, <1>12, <1>13, <1>14 DEF Following

LEMMA FollowedBeforeKeeps ==
    ASSUME Following, FollowedBefore
    PROVE  Following'
  <1>1. /\ waiting \in Seq(Idents) /\ waiting # <<>> /\ Tail(waiting) \in Seq(Idents)
        /\ ToSet(waiting) = {Head(waiting)} \cup ToSet(Tail(waiting))
    BY HeadAndTail, TailIsPart DEF Following, FollowType, FollowedBefore
  <1>2. Met' = Met
    BY <1>1 DEF Met, FollowedBefore
  <1>3. /\ \A q : DirectDependents(q)' = DirectDependents(q)
        /\ Graph' = Graph
    BY DEF DirectDependents, Requires, Graph, FollowedBefore
  <1>4. ~answered /\ FollowsEnough /\ FollowsNoMore
    BY <1>1 DEF Following, FollowType
  <1>5. FollowType'
    BY <1>1, <1>4 DEF Following, FollowType, FollowedBefore
  <1>6. FollowsEnough' /\ FollowsNoMore' /\ DependentsAreExact'
    BY <1>2, <1>3, <1>4 DEF FollowsEnough, FollowsNoMore, DependentsAreExact, FollowedBefore
  <1> QED  BY <1>5, <1>6 DEF Following

LEMMA AnswerIsExact ==
    ASSUME Following, Answer
    PROVE  Following'
  <1>1. ~answered /\ FollowsEnough /\ FollowsNoMore /\ FollowType
    BY DEF Following, Answer
  <1>2. Met = allDependents
    BY DEF Met, Answer, ToSet
  <1>3. packageNames \subseteq allDependents
    BY <1>1, <1>2 DEF FollowsEnough
  <1>4. ClosedIn(Graph, allDependents)
    <2>1. \A p \in allDependents : \A q \in Known : p \in Graph[q] => q \in allDependents
      BY <1>1, <1>2, GraphAndDependents DEF FollowsEnough
    <2> QED  BY <2>1, GraphAndDependents DEF ClosedIn
  <1>5. allDependents \subseteq DOMAIN Graph \cup packageNames
    <2> DEFINE C == DOMAIN Graph \cup packageNames
    <2>1. packageNames \subseteq C /\ ClosedIn(Graph, C)
      BY DEF ClosedIn
    <2> QED  BY <1>1, <1>2, <2>1 DEF FollowsNoMore
  <1>6. allDependents \ packageNames = DependentsIn(Graph, packageNames)
    <2>1. \A C \in SUBSET (DOMAIN Graph \cup packageNames) :
              packageNames \subseteq C /\ ClosedIn(Graph, C) => allDependents \subseteq C
      BY <1>1, <1>2 DEF FollowsNoMore
    <2> QED  BY <1>3, <1>4, <1>5, <2>1 DEF DependentsIn
  <1>7. Graph' = Graph
    BY DEF Graph, Requires, Answer
  <1>8. DependentsAreExact'
    BY <1>6, <1>7 DEF DependentsAreExact, Answer
  <1>9. FollowType'
    BY <1>1 DEF FollowType, Answer
  <1> QED  BY <1>8, <1>9 DEF Following, FollowsEnough, FollowsNoMore, Answer

\* getDependents returns the transitive dependents, neither more nor less, for every
\* project, every set of packages and every order of the queue; ReleasePlan's
\* DependentsOf is what it returns.
THEOREM DependentsAreFound == DependentsSpec => []DependentsAreExact
  <1>1. ASSUME Following, [DependentsNext]_dependentsVars
        PROVE  Following'
    <2>1. CASE DependentsNext
      BY <1>1, <2>1, FollowKeeps, FollowedBeforeKeeps, AnswerIsExact DEF DependentsNext
    <2>2. CASE UNCHANGED dependentsVars
      BY <1>1, <2>2 DEF dependentsVars, Following, FollowType, FollowsEnough, FollowsNoMore,
                        DependentsAreExact, Met, Graph, Requires, DirectDependents
    <2> QED  BY <1>1, <2>1, <2>2
  <1>2. Following => DependentsAreExact
    BY DEF Following
  <1> QED  BY <1>1, <1>2, FollowingInit, PTL DEF DependentsSpec
==============================================================================
