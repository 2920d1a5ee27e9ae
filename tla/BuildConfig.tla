----------------------------- MODULE BuildConfig -----------------------------
(***************************************************************************)
(* What a build's course depends on in the Config that Prepare returns:    *)
(* the values Build is checked with, and the ones Configuration promises.  *)
(***************************************************************************)

ConfigType == [source : {"template", "disk"}, cleanupVM : BOOLEAN,
               cleanupInterfaces : BOOLEAN, export : BOOLEAN]
=============================================================================
