----------------------------- MODULE MCChangelogs -----------------------------
(***************************************************************************)
(* Two packages and the changelog they may share, released by the runs of  *)
(* two runners whose configurations differ.                                *)
(***************************************************************************)
EXTENDS Changelogs

CONSTANTS r1, r2

\* The fields of a configuration that the instances vary.
Options(dryRun, persist, changelog, autoCommit, push, tag, github) ==
    [dryRun |-> dryRun, forceWrite |-> dryRun, persistVersions |-> persist,
     changelog |-> changelog, autoCommit |-> autoCommit, push |-> push, tag |-> tag,
     github |-> github]

MCConfigs == {Options(FALSE, FALSE, "each", TRUE, TRUE, TRUE, "explicit"),
              Options(FALSE, TRUE, "one", TRUE, TRUE, TRUE, "implicit"),
              Options(FALSE, FALSE, "each", FALSE, TRUE, TRUE, "implicit"),
              Options(FALSE, FALSE, "each", TRUE, FALSE, FALSE, "explicit"),
              Options(TRUE, FALSE, "one", TRUE, TRUE, TRUE, "implicit")}

TwoPackages == {"lib", "app"}
OneTagEach == [p \in TwoPackages |-> p]
AllFiles == TwoPackages \cup {"root"}

\* A change of lib releases app with it, of which only lib has an entry.
LibWithApp == {<<{"lib", "app"}, {"lib"}>>, <<{"lib", "app"}, {"lib", "app"}>>}
==============================================================================
