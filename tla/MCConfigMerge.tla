---------------------------- MODULE MCConfigMerge ----------------------------
(***************************************************************************)
(* Every option, from every source.                                        *)
(***************************************************************************)
EXTENDS ConfigMerge

\* The option of the config file's schema that the command line drops is left out.
Forwarded == AllOptions \ {".coerceImplicitPeerDependency"}

\* Presets that can be found, or fail for another reason.
Resolvable == AllPresets \ {"missing"}
==============================================================================
