------------------------------- MODULE Engine -------------------------------
(***************************************************************************)
(* The OLVM engine, as the steps of builder/olvm use it: the VM, disk      *)
(* clones, template and OVA of one build, the requests that change them,   *)
(* and what the engine does by itself.  It is not part of the repository:  *)
(* a request is accepted where the code relies on it and refused where the *)
(* code checks the status first.                                           *)
(***************************************************************************)
EXTENDS Naturals, FiniteSets

CONSTANTS
  SourceNics,    \* the network interfaces a VM inherits from its template
  NewNic,        \* the interface manageNetworkInterfaces adds, "nic1"
  Clones,        \* identities of cloned disks
  Environment    \* which of EnvironmentKinds may happen

EnvironmentKinds ==
  {"cancel",         \* the user interrupts the build
   "panic",          \* a response lacks an attribute a Must method wants
   "missing",        \* something the configuration names does not exist
   "engine_fails",   \* an accepted copy, launch, template or export fails
   "lag",            \* a new object is not found for a while
   "powering_down",  \* Stop passes through powering_down
   "shutdown"}       \* the guest shuts itself down

ASSUME ClonesAssumption == Clones \cap {"inherited", "none"} = {}
ASSUME SourceNicsAssumption == IsFiniteSet(SourceNics)
ASSUME NewNicAssumption == NewNic \notin SourceNics
ASSUME EnvironmentAssumption == Environment \subseteq EnvironmentKinds

VARIABLES
  vm,            \* the VM's status, "absent" before and "removed" after it
  stopping,      \* a Stop request is being carried out
  nics,          \* the VM's network interfaces
  boot,          \* its boot disk: a clone, "inherited" or "none"
  disks,         \* the status of every clone
  template,      \* the template's status
  taken,         \* what the template was made of
  ova            \* the export of the template

engine == <<vm, stopping, nics, boot, disks, template, taken, ova>>

Running == {"wait_for_launch", "powering_up", "up", "powering_down"}
VMStatuses == {"absent", "image_locked", "down", "removed"} \cup Running
Untaken == [vm |-> "none", boot |-> "none", nics |-> {}]

EngineTypeOK ==
  /\ vm \in VMStatuses
  /\ stopping \in BOOLEAN
  /\ nics \subseteq SourceNics \cup {NewNic}
  /\ boot \in Clones \cup {"inherited", "none"}
  /\ disks \in [Clones -> {"absent", "locked", "ok"}]
  /\ template \in {"absent", "locked", "ok", "illegal"}
  /\ taken \in [vm : VMStatuses \cup {"none"}, boot : Clones \cup {"inherited", "none"},
                nics : SUBSET (SourceNics \cup {NewNic})]
  /\ ova \in {"none", "running", "done", "failed"}

EngineInit ==
  /\ vm = "absent" /\ stopping = FALSE /\ nics = {} /\ boot = "none"
  /\ disks = [d \in Clones |-> "absent"]
  /\ template = "absent" /\ taken = Untaken /\ ova = "none"

-----------------------------------------------------------------------------
(* Requests that change the engine. *)

VmsAdd(source) ==
  /\ vm = "absent"
  /\ vm' = "image_locked"
  /\ nics' = IF source = "template" THEN SourceNics ELSE {}
  /\ boot' = IF source = "template" THEN "inherited" ELSE "none"
  /\ UNCHANGED <<stopping, disks, template, taken, ova>>

\* Every Copy makes a disk of its own, whatever its name: one whose answer was lost
\* and that was sent again makes two.
DisksCopy(c, d) ==
  /\ disks[c] = "absent" /\ disks[d] = "absent"
  /\ disks' = [disks EXCEPT ![c] = "locked", ![d] = "locked"]
  /\ UNCHANGED <<vm, stopping, nics, boot, template, taken, ova>>

\* The engine is not relied on to refuse a disk that is still being copied.
AttachmentsAdd(d) ==
  /\ vm \in {"image_locked", "down"} /\ boot = "none" /\ disks[d] # "absent"
  /\ boot' = d
  /\ UNCHANGED <<vm, stopping, nics, disks, template, taken, ova>>

NicsAdd ==
  /\ vm \in {"image_locked", "down"} /\ NewNic \notin nics
  /\ nics' = nics \cup {NewNic}
  /\ UNCHANGED <<vm, stopping, boot, disks, template, taken, ova>>

NicRemove(n) ==
  /\ vm \in {"down", "up"} /\ n \in nics
  /\ nics' = nics \ {n}
  /\ UNCHANGED <<vm, stopping, boot, disks, template, taken, ova>>

VmStart ==
  /\ vm = "down"
  /\ vm' = "wait_for_launch"
  /\ UNCHANGED <<stopping, nics, boot, disks, template, taken, ova>>

VmStop ==
  /\ vm \in Running
  /\ stopping' = TRUE
  /\ UNCHANGED <<vm, nics, boot, disks, template, taken, ova>>

\* Remove deletes the disk attached to the VM with it.
VmRemove ==
  /\ vm = "down"
  /\ vm' = "removed" /\ nics' = {} /\ boot' = "none"
  /\ disks' = [d \in Clones |-> IF d = boot THEN "absent" ELSE disks[d]]
  /\ UNCHANGED <<stopping, template, taken, ova>>

\* The VM's images are locked while the template is made of them.
TemplatesAdd ==
  /\ vm \in {"down"} \cup Running /\ template = "absent"
  /\ template' = "locked"
  /\ taken' = [vm |-> vm, boot |-> boot, nics |-> nics]
  /\ vm' = IF vm = "down" THEN "image_locked" ELSE vm
  /\ UNCHANGED <<stopping, nics, boot, disks, ova>>

TemplateExport ==
  /\ template = "ok" /\ ova = "none"
  /\ ova' = "running" /\ template' = "locked"
  /\ UNCHANGED <<vm, stopping, nics, boot, disks, taken>>

-----------------------------------------------------------------------------
(* What the engine does by itself. *)

MayFail == "engine_fails" \in Environment

VmCreated ==
  /\ vm = "image_locked" /\ template # "locked"
  /\ vm' = "down"
  /\ UNCHANGED <<stopping, nics, boot, disks, template, taken, ova>>

VmLaunches ==
  /\ vm \in {"wait_for_launch", "powering_up"} /\ ~stopping
  /\ \/ vm' = IF vm = "wait_for_launch" THEN "powering_up" ELSE "up"
     \/ MayFail /\ vm' = "down"
  /\ UNCHANGED <<stopping, nics, boot, disks, template, taken, ova>>

VmStops ==
  /\ stopping \/ vm = "powering_down"
  /\ \/ vm' = "down" /\ stopping' = FALSE
     \/ /\ "powering_down" \in Environment
        /\ vm # "powering_down" /\ vm' = "powering_down"
        /\ UNCHANGED stopping
  /\ UNCHANGED <<nics, boot, disks, template, taken, ova>>

GuestShutdown ==
  /\ "shutdown" \in Environment
  /\ vm = "up" /\ vm' = "powering_down"
  /\ UNCHANGED <<stopping, nics, boot, disks, template, taken, ova>>

CopyEnds ==
  /\ \E d \in Clones :
       /\ disks[d] = "locked"
       /\ \/ disks' = [disks EXCEPT ![d] = "ok"]
          \/ MayFail /\ disks' = [disks EXCEPT ![d] = "absent"]
  /\ UNCHANGED <<vm, stopping, nics, boot, template, taken, ova>>

\* The locks of the VM's images and of the template are released together.
TemplateEnds ==
  /\ template = "locked" /\ ova # "running"
  /\ \/ template' = "ok"
     \/ MayFail /\ template' = "illegal"
  /\ vm' = IF vm = "image_locked" THEN "down" ELSE vm
  /\ UNCHANGED <<stopping, nics, boot, disks, taken, ova>>

\* A failed export leaves the template as good as it was.
ExportEnds ==
  /\ ova = "running"
  /\ template' = "ok"
  /\ \/ ova' = "done"
     \/ MayFail /\ ova' = "failed"
  /\ UNCHANGED <<vm, stopping, nics, boot, disks, taken>>

EngineStep ==
  \/ VmCreated \/ VmLaunches \/ VmStops \/ CopyEnds \/ TemplateEnds \/ ExportEnds
=============================================================================
