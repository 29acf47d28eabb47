-------------------------- MODULE MCReleasePipeline --------------------------
(***************************************************************************)
(* Small instances of ReleasePipeline: a library, an application depending *)
(* on it, and a private package or a group where a run needs one.          *)
(***************************************************************************)
EXTENDS ReleasePipeline

CONSTANTS r1, r2

\* The fields of a configuration, in the order of the arguments.
Options(dryRun, persist, autoCommit, changelog, push, tag) ==
    [dryRun |-> dryRun, persistVersions |-> persist, autoCommit |-> autoCommit,
     changelog |-> changelog, push |-> push, tag |-> tag]

TagsOnly     == Options(FALSE, FALSE, FALSE, FALSE, TRUE, TRUE)
Changelogs   == Options(FALSE, FALSE, TRUE, TRUE, TRUE, TRUE)
Persisting   == Options(FALSE, TRUE, TRUE, FALSE, TRUE, TRUE)
DryRunning   == Options(TRUE, TRUE, TRUE, TRUE, TRUE, TRUE)

SerialConfigs == {TagsOnly, Changelogs, Persisting, DryRunning}
ConcurrentConfigs == {Changelogs, Persisting}
TagsOnlyConfigs == {TagsOnly}

TwoPackages == {"lib", "app"}
AppOnLib == [p \in TwoPackages |-> IF p = "app" THEN {"lib"} ELSE {}]
Independent == [p \in TwoPackages |-> p]

\* lib <- app <- cli, and docs, which is private; lib and cli form a group.
FourPackages == {"lib", "app", "cli", "docs"}
Chain == [lib |-> {}, app |-> {"lib"}, cli |-> {"app"}, docs |-> {"lib"}]
LibWithCli == [lib |-> "group", app |-> "app", cli |-> "group", docs |-> "group"]

LibAndApp == {<<"minor", {"lib"}>>, <<"patch", {"app"}>>}
EveryLevel == {<<"minor", {"lib"}>>, <<"patch", {"app"}>>,
               <<"major", {"docs"}>>, <<"none", {"cli"}>>}

One == <<1, 0, 0>>
Zero == <<0, 0, 0>>
==============================================================================
