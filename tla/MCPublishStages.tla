--------------------------- MODULE MCPublishStages ---------------------------
(***************************************************************************)
(* Small instances of PublishStages: the groups of a topological publish.  *)
(***************************************************************************)
EXTENDS PublishStages

CONSTANTS core, util, lib, app

\* app depends on core and util; lib is only published beside them.
FourWorkspaces == {core, util, lib, app}
AppOnCoreAndUtil ==
    [w \in FourWorkspaces |-> IF w = app THEN {core, util} ELSE {}]
FourLevels == [w \in FourWorkspaces |-> IF w = app THEN 2 ELSE 1]
UtilUnregistered == {util}

\* Scripts that can fail before and after the archive is built.
BuildScripts   == {Prepublish, Prepack, Postpack, Postpublish} \X Workspaces
==============================================================================
