------------------------------- MODULE MCBuild -------------------------------
(***************************************************************************)
(* Instances of Build for TLC.                                             *)
(***************************************************************************)
EXTENDS Build

AllConfigs == ConfigType

\* One configuration per source, with everything switched on.
FullConfigs == {c \in ConfigType : c.cleanupVM /\ c.cleanupInterfaces /\ c.export}

Everything == EnvironmentKinds
=============================================================================
