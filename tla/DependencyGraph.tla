--------------------------- MODULE DependencyGraph ---------------------------
(***************************************************************************)
(* What the two worklists of packages/dependencies have in common with the *)
(* release plan: who depends on whom, and the lists a Set or a Map may     *)
(* hand out its members in.  A graph maps a package to those it needs.     *)
(***************************************************************************)
EXTENDS Naturals, FiniteSets

\* With any package, C holds whoever needs it.
ClosedIn(graph, C) == \A p \in DOMAIN graph : graph[p] \cap C # {} => p \in C

\* Everything that transitively needs a package of S, except S itself: what is in
\* every closed set around S.
DependentsIn(graph, S) ==
    {p \in DOMAIN graph :
        \A C \in SUBSET (DOMAIN graph \cup S) : S \subseteq C /\ ClosedIn(graph, C) => p \in C}
    \ S

\* The lists that hold every member of S once.
ListingsOf(S) ==
    {q \in [1..Cardinality(S) -> S] : \A x \in S : \E i \in DOMAIN q : q[i] = x}
==============================================================================
