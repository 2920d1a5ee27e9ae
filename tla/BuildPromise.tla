---------------------------- MODULE BuildPromise ----------------------------
(***************************************************************************)
(* What one build promises, with no word about steps, requests or waits:   *)
(* one machine, from which at most one image is captured while it is       *)
(* stopped, which is deleted only when it is no longer needed, and an      *)
(* outcome that tells what became of the image.  Build is shown to         *)
(* implement it.                                                           *)
(***************************************************************************)
VARIABLES
  config,      \* the options of this build, as in BuildConfig
  machine,     \* "none", "stopped", "running" or "deleted"
  image,       \* "none", "unfinished", "finished" or "spoiled"
  package,     \* the export of the image: "none", "begun" or "ended"
  notices,     \* what the user did or was told besides the outcome
  outcome      \* "none" until the build returns

vars == <<config, machine, image, package, notices, outcome>>

Notices == {"interrupted", "panicked", "told"}

Init ==
  /\ machine = "none" /\ image = "none" /\ package = "none"
  /\ notices = {} /\ outcome = "none"

Create ==
  /\ outcome = "none" /\ machine = "none"
  /\ machine' = "stopped"
  /\ UNCHANGED <<image, package, outcome>>

\* Once its image was captured the machine is never started again.
Start ==
  /\ outcome = "none" /\ machine = "stopped" /\ image = "none"
  /\ machine' = "running"
  /\ UNCHANGED <<image, package, outcome>>

\* On request, or by itself: also after the build has returned.
Stop ==
  /\ machine = "running"
  /\ machine' = "stopped"
  /\ UNCHANGED <<image, package, outcome>>

Capture ==
  /\ outcome = "none" /\ machine = "stopped" /\ image = "none"
  /\ image' = "unfinished"
  /\ UNCHANGED <<machine, package, outcome>>

\* The engine ends what it began, whether the build still waits for it or not.
CaptureEnds ==
  /\ image = "unfinished"
  /\ image' \in {"finished", "spoiled"}
  /\ UNCHANGED <<machine, package, outcome>>

Export ==
  /\ outcome = "none" /\ config.export
  /\ machine = "stopped" /\ image = "finished" /\ package = "none"
  /\ package' = "begun"
  /\ UNCHANGED <<machine, image, outcome>>

ExportEnds ==
  /\ package = "begun"
  /\ package' = "ended"
  /\ UNCHANGED <<machine, image, outcome>>

\* Only if asked for, and never under an image that is still being made.
Delete ==
  /\ outcome = "none" /\ config.cleanupVM
  /\ machine = "stopped" /\ image # "unfinished"
  /\ machine' = "deleted"
  /\ UNCHANGED <<image, package, outcome>>

\* An artifact stands for a finished image, exported if asked for; nothing is
\* returned only by a build that was interrupted or panicked; and a machine that
\* should have been deleted is not left without a word.
Return ==
  /\ outcome = "none"
  /\ outcome' \in {"artifact", "error", "nil"}
  /\ outcome' = "artifact" =>
       /\ image = "finished"
       /\ config.export => package # "none" \/ "interrupted" \in notices
  /\ outcome' = "nil" => notices \cap {"interrupted", "panicked"} # {}
  /\ config.cleanupVM /\ machine \in {"stopped", "running"} =>
       outcome' = "error" \/ notices \cap {"told", "panicked"} # {}
  /\ UNCHANGED <<machine, image, package>>

\* A notice may come by itself or with any of these.
Next ==
  /\ \/ Create \/ Start \/ Stop \/ Capture \/ CaptureEnds \/ Export \/ ExportEnds
     \/ Delete \/ Return \/ UNCHANGED <<machine, image, package, outcome>>
  /\ notices \subseteq notices' /\ notices' \subseteq Notices
  /\ UNCHANGED config

Spec == Init /\ [][Next]_vars
=============================================================================
