----------------------------- MODULE MCSavepoint -----------------------------
(***************************************************************************)
(* Savepoint for three workspaces, two of which are published.             *)
(***************************************************************************)
EXTENDS Savepoint

CONSTANTS root, lib, app

AllWorkspaces == {root, lib, app}
Published     == {lib, app}

Options(dryRun, persist, autoCommit, push) ==
    [dryRun |-> dryRun, persistVersions |-> persist, autoCommit |-> autoCommit, push |-> push]

\* Versions kept out of the repository, with and without a pull; versions kept
\* in it; and a dry run.
AllConfigs ==
    {Options(FALSE, FALSE, FALSE, FALSE), Options(FALSE, FALSE, TRUE, TRUE),
     Options(FALSE, TRUE, TRUE, TRUE), Options(TRUE, FALSE, TRUE, TRUE)}
==============================================================================
