------------------------ MODULE MCPrereleaseVersions ------------------------
(***************************************************************************)
(* A library and the application depending on it, with versions of their   *)
(* own, and a group of the library and a tool.                             *)
(***************************************************************************)
EXTENDS PrereleaseVersions

ThreePackages == {"lib", "app", "cli"}
AppOnLib  == [p \in ThreePackages |-> IF p = "app" THEN {"lib"} ELSE {}]
LibWithCli == [lib |-> "group", app |-> "app", cli |-> "group"]

\* A group whose members have different versions, and packages below 1.0.0.
Registries == {[lib |-> <<1, 0, 0>>, app |-> <<0, 0, 0>>, cli |-> <<0, 1, 2>>],
               [lib |-> <<0, 0, 0>>, app |-> <<2, 0, 3>>, cli |-> <<0, 0, 0>>]}

AnyLevel == {<<"patch", {"lib"}>>, <<"minor", {"lib"}>>, <<"major", {"cli"}>>,
             <<"minor", {"app"}>>}
==============================================================================
