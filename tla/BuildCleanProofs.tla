-------------------------- MODULE BuildCleanProofs --------------------------
(***************************************************************************)
(* A build in which nothing failed and that nobody interrupted leaves the  *)
(* engine as configured (CleanSuccess), for any configurations, clones,    *)
(* polls and environment.  Tidy strengthens the invariant of               *)
(* BuildPromiseProofs by what happens to clones and to the way through     *)
(* Cleanup.                                                                *)
(***************************************************************************)
EXTENDS BuildPromiseProofs

NoClones == \A d \in Clones : disks[d] = "absent"

\* Before cloneDisk sends its Copy.
Early ==
  \/ step = 1
  \/ step = 2 /\ pc \in {"enter", "getClusterID", "getSourceResourceInfo", "createVM",
                         "getSourceDisk", "copy"}

ClonePoints == {"getSourceDisk", "copy", "clonePoll", "attachDiskToVM"}
WayOut == {"cleanupStop", "cleanupWait", "cleanupRemove"}

\* There is one clone, for a build from a disk, and it goes with the VM.
OneClone ==
  /\ config.source = "template" => NoClones
  /\ boot = "inherited" => config.source = "template"
  /\ pc \in ClonePoints => config.source = "disk"
  /\ Early => NoClones
  /\ faults = 0 =>
       \A c, d \in Clones : disks[c] # "absent" /\ disks[d] # "absent" => c = d
  /\ faults = 0 /\ vm = "removed" => NoClones

\* A VM whose template was made is not locked any more.
Unlocked ==
  template # "absent" /\ vm = "image_locked" => template = "locked" /\ ova # "running"

\* With a template, Cleanup finds the VM stopped and removes it, if so configured.
Removal ==
  /\ pc \in WayOut => vm_id
  /\ pc \in {"cleanupStop", "cleanupWait"} => ~template_id
  /\ vm = "removed" => config.cleanupVM
  /\ pc = "finish" /\ template_id /\ faults = 0 /\ config.cleanupVM =>
       vm = "removed" \/ panicked
  /\ result = "artifact" /\ faults = 0 /\ config.cleanupVM => vm = "removed"

Tidy == OneClone /\ Unlocked /\ Removal

CInv == PInv /\ Tidy

LEMMA TidyInit == Init => Tidy
<1> SUFFICES ASSUME Init PROVE Tidy
  OBVIOUS
<1>1. NoClones /\ boot = "none" /\ vm = "absent" /\ template = "absent"
  BY DEF Init, EngineInit, NoClones
<1>2. pc = "run" /\ result = "none"
  BY DEF Init
<1> QED
  BY <1>1, <1>2 DEF Tidy, OneClone, Unlocked, Removal, NoClones, ClonePoints, WayOut

-----------------------------------------------------------------------------
(* What a step may do. *)

\* A behaviour without a failed request has none in its last step either.
LEMMA FaultFree ==
  ASSUME TypeOK, Next, faults' = 0
  PROVE  faults = 0 /\ ~RequestFails
<1>1. faults \in Nat
  BY MaxFaultsAssumption DEF TypeOK, BuildTypeOK
<1>2. faults' = faults \/ faults' = faults + 1
  <2>1. CASE Run \/ Enter \/ Leave \/ Interrupt \/ Mark \/ Destroy \/ Terminated \/ Finish
    BY <2>1 DEF Run, Enter, Leave, Interrupt, Mark, Destroy, Terminated, Finish, vars,
       Answered
  <2>2. CASE \/ KeyPair \/ Read \/ AddVM \/ CopyDisk \/ PollClone \/ AttachDisk
             \/ VerifyAttachment \/ ManageNetworkInterfaces \/ GetVM \/ StartVM
             \/ Communicate \/ CleanupTempKeys \/ CheckStopped \/ StopVM \/ ListNics
             \/ RemoveNic \/ CheckDown \/ AddTemplate \/ Export \/ WaitForState
             \/ Cleanup \/ RemoveVM \/ RequestRefused
    BY <2>2 DEF KeyPair, Read, AddVM, CopyDisk, PollClone, AttachDisk, VerifyAttachment,
       ManageNetworkInterfaces, GetVM, StartVM, Communicate, CleanupTempKeys,
       CheckStopped, StopVM, ListNics, RemoveNic, CheckDown, AddTemplate, Export,
       WaitForState, Cleanup, RemoveVM, RequestRefused, Answered, Fault
  <2>3. CASE RequestFails \/ Panic \/ UNCHANGED build
    BY <2>3 DEF RequestFails, Panic, Fault, build
  <2> QED
    BY <2>1, <2>2, <2>3 DEF Next, Program, Mishap
<1>3. RequestFails => faults' = faults + 1
  BY DEF RequestFails, Fault
<1> QED
  BY <1>1, <1>2, <1>3

\* Disks come with the Copy of cloneDisk, and go with the VM or a failed copy.
LEMMA DisksChange ==
  ASSUME TypeOK, Next, disks' # disks
  PROVE  \/ CopyEnds
         \/ VmRemove
         \/ /\ pc = "copy" /\ pc' \in {"clonePoll", "leave"} /\ step' = step
            /\ (\E d \in Clones : DisksCopy(d, d)) \/ faults' # 0
<1>1. ~UNCHANGED engine
  BY DEF engine
<1>2. faults \in Nat
  BY MaxFaultsAssumption DEF TypeOK, BuildTypeOK
<1>3. CASE Run \/ Enter \/ Leave \/ Interrupt \/ Mark \/ Destroy \/ Terminated \/ Finish
  BY <1>1, <1>3 DEF Run, Enter, Leave, Interrupt, Mark, Destroy, Terminated, Finish,
     Reads, vars
<1>4. CASE \/ KeyPair \/ Read \/ PollClone \/ VerifyAttachment \/ GetVM \/ Communicate
           \/ CleanupTempKeys \/ CheckStopped \/ ListNics \/ CheckDown \/ Cleanup
           \/ WaitForState \/ RequestRefused
  BY <1>1, <1>4 DEF KeyPair, Read, PollClone, VerifyAttachment, GetVM, Communicate,
     CleanupTempKeys, CheckStopped, ListNics, CheckDown, Cleanup, WaitForState,
     RequestRefused, Reads
<1>5. CASE AddVM \/ AttachDisk \/ StartVM \/ StopVM \/ AddTemplate \/ Export
  BY <1>5 DEF AddVM, AttachDisk, StartVM, StopVM, AddTemplate, Export, VmsAdd,
     AttachmentsAdd, VmStart, VmStop, TemplatesAdd, TemplateExport
<1>6. CASE ManageNetworkInterfaces \/ RemoveNic
  BY <1>1, <1>6 DEF ManageNetworkInterfaces, RemoveNic, NicsAdd, NicRemove
<1>7. CASE RemoveVM
  BY <1>7 DEF RemoveVM
<1>8. CASE CopyDisk
  BY <1>2, <1>8 DEF CopyDisk, Goto, Fault
<1>9. CASE RequestFails
  <2>1. CarriedOut(pc) /\ faults' = faults + 1
    BY <1>1, <1>9 DEF RequestFails, Fault
  <2>2. CASE pc = "copy"
    BY <1>2, <1>9, <2>1, <2>2 DEF RequestFails, GiveUp, Halt, CleanupPoints
  <2>3. CASE pc # "copy"
    BY <2>1, <2>3 DEF CarriedOut, VmsAdd, AttachmentsAdd, NicsAdd, VmStart, VmStop,
       NicRemove, TemplatesAdd, TemplateExport
  <2> QED
    BY <2>2, <2>3
<1>10. CASE Panic
  BY <1>1, <1>10 DEF Panic, CarriedOut, VmsAdd, TemplatesAdd
<1>11. CASE EngineStep \/ GuestShutdown
  BY <1>11 DEF EngineStep, GuestShutdown, VmCreated, VmLaunches, VmStops, TemplateEnds,
     ExportEnds
<1> QED
  BY <1>3, <1>4, <1>5, <1>6, <1>7, <1>8, <1>9, <1>10, <1>11 DEF Next, Program, Mishap

\* Where nothing was cloned nothing appears without a Copy.
LEMMA NoClonesKept ==
  ASSUME TypeOK, Next, NoClones, pc # "copy"
  PROVE  NoClones'
<1>1. CASE disks' = disks
  BY <1>1 DEF NoClones
<1>2. CASE CopyEnds
  BY <1>2 DEF CopyEnds, NoClones
<1>3. CASE VmRemove
  BY <1>3 DEF VmRemove, NoClones
<1> QED
  BY <1>1, <1>2, <1>3, DisksChange

\* cloneDisk is not gone back to.
LEMMA EarlyBefore ==
  ASSUME TypeOK, Course, Bag, Next, Early'
  PROVE  Early
<1> DEFINE E == {"enter", "getClusterID", "getSourceResourceInfo", "createVM",
                 "getSourceDisk", "copy"}
<1>1. step \in 1 .. 10
  BY StepFacts DEF TypeOK, BuildTypeOK
<1>2. ASSUME step' = step, pc' \notin E \/ pc \in E
      PROVE  Early
  BY <1>2 DEF Early
<1>3. CASE Leave
  <2>1. CASE Goto("cleanup")
    BY <1>2, <2>1 DEF Goto
  <2>2. CASE step' = step + 1
    BY <1>1, <2>2 DEF Early
  <2> QED
    BY <1>3, <2>1, <2>2 DEF Leave
<1>4. CASE Enter
  BY <1>2, <1>4 DEF Enter, Goto, Continue
<1>5. CASE Run
  BY <1>5 DEF Run, Course, Early
<1>6. CASE Read
  <2>1. pc \in E \/ AfterRead[pc] \notin E
    BY <1>6, ReadFacts DEF Read
  <2> QED
    BY <1>2, <1>6, <2>1 DEF Read, Goto, Halt
<1>7. CASE AddVM
  BY <1>2, <1>7 DEF AddVM, Goto
<1>8. CASE \/ KeyPair \/ CopyDisk \/ PollClone \/ AttachDisk
           \/ VerifyAttachment \/ ManageNetworkInterfaces \/ GetVM \/ StartVM
  BY <1>2, <1>8 DEF KeyPair, CopyDisk, PollClone, AttachDisk, VerifyAttachment,
     ManageNetworkInterfaces, GetVM, StartVM, Goto, Continue, Halt
<1>9. CASE \/ Communicate \/ CleanupTempKeys \/ CheckStopped \/ StopVM \/ ListNics
           \/ RemoveNic \/ CheckDown \/ AddTemplate \/ Export
  BY <1>2, <1>9 DEF Communicate, CleanupTempKeys, CheckStopped, StopVM, ListNics,
     RemoveNic, CheckDown, AddTemplate, Export, Goto, Continue, Halt
<1>10. CASE WaitForState \/ Cleanup \/ RemoveVM \/ Finish \/ Destroy
  BY <1>2, <1>10 DEF WaitForState, Reached, Cleanup, RemoveVM, Finish, Destroy, GiveUp,
     Tell, Halt, Goto, Continue
<1>11. CASE RequestFails \/ RequestRefused \/ Panic
  BY <1>2, <1>11 DEF RequestFails, RequestRefused, Panic, GiveUp, Tell, Halt, Goto
<1>12. CASE Interrupt \/ Mark \/ Terminated \/ UNCHANGED build
  BY <1>12 DEF Interrupt, Mark, Terminated, vars, build, Early
<1> QED
  BY <1>3, <1>4, <1>5, <1>6, <1>7, <1>8, <1>9, <1>10, <1>11, <1>12
  DEF Next, Program, Mishap

\* Only a build from a disk gets to cloneDisk.
LEMMA CloneAsked ==
  ASSUME TypeOK, Next, pc' \in ClonePoints
  PROVE  pc \in ClonePoints \/ config.source = "disk"
<1> USE DEF ClonePoints
<1>1. CASE AddVM
  BY <1>1 DEF AddVM, Goto
<1>2. CASE Enter
  <2>1. CASE Goto(FirstPoint[step])
    <3>1. step \in 1 .. 10
      BY StepFacts DEF TypeOK, BuildTypeOK
    <3> QED
      BY <2>1, <3>1, FirstFacts DEF Goto
  <2> QED
    BY <1>2, <2>1 DEF Enter, Goto, Continue
<1>3. CASE Read
  BY <1>3, ReadFacts DEF Read, Goto, Halt
<1>4. CASE \/ KeyPair \/ CopyDisk \/ PollClone \/ AttachDisk
           \/ VerifyAttachment \/ ManageNetworkInterfaces \/ GetVM \/ StartVM
  BY <1>4 DEF KeyPair, CopyDisk, PollClone, AttachDisk, VerifyAttachment,
     ManageNetworkInterfaces, GetVM, StartVM, Goto, Continue, Halt
<1>5. CASE \/ Communicate \/ CleanupTempKeys \/ CheckStopped \/ StopVM \/ ListNics
           \/ RemoveNic \/ CheckDown \/ AddTemplate \/ Export
  BY <1>5 DEF Communicate, CleanupTempKeys, CheckStopped, StopVM, ListNics, RemoveNic,
     CheckDown, AddTemplate, Export, Goto, Continue, Halt
<1>6. CASE WaitForState \/ Cleanup \/ RemoveVM
  BY <1>6 DEF WaitForState, Reached, Cleanup, RemoveVM, GiveUp, Tell, Halt, Goto, Continue
<1>7. CASE RequestFails \/ RequestRefused \/ Panic
  BY <1>7 DEF RequestFails, RequestRefused, Panic, GiveUp, Tell, Halt, Goto
<1>8. CASE Run \/ Leave \/ Finish \/ Destroy
  BY <1>8 DEF Run, Leave, Finish, Destroy, Goto
<1>9. CASE Interrupt \/ Mark \/ Terminated \/ UNCHANGED build
  BY <1>9 DEF Interrupt, Mark, Terminated, vars, build
<1> QED
  BY <1>1, <1>2, <1>3, <1>4, <1>5, <1>6, <1>7, <1>8, <1>9 DEF Next, Program, Mishap
-----------------------------------------------------------------------------
(* The clones. *)

\* The boot disk is the template's only in a build from a template.
LEMMA Inherited ==
  ASSUME TypeOK, EngineInv, Polling, Next, boot' = "inherited"
  PROVE  boot = "inherited" \/ config.source = "template"
<1>1. CASE boot' = boot
  BY <1>1
<1>2. CASE CarriedOut(pc)
  <2>1. CASE VmsAdd(config.source)
    BY <2>1 DEF VmsAdd
  <2>2. CASE AttachmentsAdd(clonedDiskID) /\ pc = "attachDiskToVM"
    BY <2>2, ClonesAssumption DEF AttachmentsAdd, Polling
  <2>3. CASE VmRemove
    BY <2>3 DEF VmRemove
  <2> QED
    BY <1>1, <1>2, <2>1, <2>2, <2>3 DEF CarriedOut, DisksCopy, NicsAdd, VmStart, VmStop,
       NicRemove, TemplatesAdd, TemplateExport
<1>3. CASE EngineStep \/ GuestShutdown
  BY <1>1, <1>3, EngineMoves DEF TypeOK
<1> QED
  BY <1>1, <1>2, <1>3, EngineChanges DEF engine

\* A second clone comes only of a Copy that was sent twice.
LEMMA StillOneClone ==
  ASSUME IInv, OneClone, Next, faults' = 0,
         NEW c \in Clones, NEW d \in Clones, disks'[c] # "absent", disks'[d] # "absent"
  PROVE  c = d
<1>1. faults = 0
  BY FaultFree DEF IInv
<1>2. disks \in [Clones -> {"absent", "locked", "ok"}]
  BY DEF IInv, TypeOK, EngineTypeOK
<1>3. CASE disks' = disks
  BY <1>1, <1>3 DEF OneClone
<1>4. CASE CopyEnds \/ VmRemove
  <2>1. disks[c] # "absent" /\ disks[d] # "absent"
    BY <1>2, <1>4 DEF CopyEnds, VmRemove
  <2> QED
    BY <1>1, <2>1 DEF OneClone
<1>5. CASE pc = "copy" /\ \E e \in Clones : DisksCopy(e, e)
  <2>1. NoClones
    BY <1>5 DEF OneClone, Early, IInv, Course, CreatePoints
  <2> QED
    BY <1>2, <1>5, <2>1 DEF DisksCopy, NoClones
<1> QED
  BY <1>3, <1>4, <1>5, DisksChange DEF IInv

\* The one clone is the VM's boot disk by the time the VM is removed.
LEMMA CloneGone ==
  ASSUME PInv, OneClone, Removal, Next, faults' = 0, vm' = "removed"
  PROVE  NoClones'
<1> USE DEF PInv
<1>1. faults = 0
  BY FaultFree DEF IInv
<1>2. CASE vm = "removed"
  <2>1. pc # "copy" /\ NoClones
    BY <1>1, <1>2 DEF Fates, OneClone
  <2> QED
    BY <2>1, NoClonesKept DEF IInv
<1>3. CASE vm # "removed"
  <2>1. pc = "cleanupRemove" /\ vm_id
    BY <1>3, RemovalEnds DEF IInv, Removal, WayOut
  <2>2. boot # "none" /\ boot \in Clones \cup {"inherited", "none"}
    BY <1>3, <2>1 DEF IInv, Booting, TypeOK, EngineTypeOK
  <2>3. CASE boot = "inherited"
    <3>1. NoClones
      BY <2>3 DEF OneClone
    <3> QED
      BY <2>1, <3>1, NoClonesKept DEF IInv
  <2>4. CASE boot \in Clones
    <3>1. VmRemove
      <4>1. vm' # vm /\ ~(EngineStep \/ GuestShutdown)
        BY <1>3, EngineMoves DEF IInv, TypeOK
      <4>2. CarriedOut(pc)
        BY <2>1, <4>1, EngineChanges DEF engine
      <4> QED
        BY <2>1, <4>2 DEF CarriedOut
    <3>2. disks[boot] # "absent"
      BY <2>4 DEF IInv, EngineInv
    <3>3. \A d \in Clones : disks[d] # "absent" => d = boot
      BY <1>1, <2>4, <3>2 DEF OneClone
    <3> QED
      BY <3>1, <3>3 DEF VmRemove, NoClones
  <2> QED
    BY <2>2, <2>3, <2>4
<1> QED
  BY <1>2, <1>3

LEMMA OneCloneNext ==
  ASSUME CInv, Next
  PROVE  OneClone'
<1> USE DEF CInv, PInv, Tidy
<1>1. config' = config
  BY ConfigKept
<1>2. ASSUME config.source = "template" PROVE NoClones'
  <2>1. NoClones /\ pc # "copy"
    BY <1>2 DEF OneClone, ClonePoints
  <2> QED
    BY <2>1, NoClonesKept DEF IInv
<1>3. boot' = "inherited" => config.source = "template"
  BY Inherited DEF OneClone, IInv
<1>4. pc' \in ClonePoints => config.source = "disk"
  BY CloneAsked DEF OneClone, IInv
<1>5. ASSUME Early' PROVE NoClones'
  <2>1. NoClones
    BY <1>5, EarlyBefore DEF OneClone, IInv
  <2>2. CASE disks' = disks
    BY <2>1, <2>2 DEF NoClones
  <2>3. CASE pc = "copy" /\ pc' \in {"clonePoll", "leave"} /\ step' = step
    <3>1. step = 2
      BY <2>3 DEF IInv, Course, CreatePoints
    <3> QED
      BY <1>5, <2>3, <3>1 DEF Early
  <2>4. CASE CopyEnds \/ VmRemove
    BY <2>1, <2>4 DEF CopyEnds, VmRemove, NoClones
  <2> QED
    BY <2>2, <2>3, <2>4, DisksChange DEF IInv
<1> QED
  BY <1>1, <1>2, <1>3, <1>4, <1>5, StillOneClone, CloneGone DEF OneClone

-----------------------------------------------------------------------------
(* The lock. *)

LEMMA UnlockedNext ==
  ASSUME CInv, Next
  PROVE  Unlocked'
<1> USE DEF CInv, PInv, Tidy
<1>1. CASE UNCHANGED <<vm, template, ova>>
  BY <1>1 DEF Unlocked
<1>2. CASE CarriedOut(pc)
  <2>1. CASE VmsAdd(config.source)
    BY <2>1 DEF VmsAdd, Fates, Unlocked
  <2>2. CASE VmStart
    BY <2>2 DEF VmStart, Unlocked
  <2>3. CASE VmRemove
    BY <2>3 DEF VmRemove, Unlocked
  <2>4. CASE TemplatesAdd
    BY <2>4 DEF TemplatesAdd, Unlocked, IInv, EngineInv
  <2>5. CASE TemplateExport
    BY <2>5 DEF TemplateExport, Unlocked
  <2> QED
    BY <1>1, <1>2, <2>1, <2>2, <2>3, <2>4, <2>5 DEF CarriedOut, DisksCopy,
       AttachmentsAdd, NicsAdd, VmStop, NicRemove
<1>3. CASE EngineStep \/ GuestShutdown
  <2>1. CASE VmCreated \/ VmLaunches \/ VmStops \/ GuestShutdown
    BY <2>1 DEF VmCreated, VmLaunches, VmStops, GuestShutdown, Unlocked
  <2>2. CASE TemplateEnds \/ ExportEnds
    BY <2>2 DEF TemplateEnds, ExportEnds, Unlocked, IInv, EngineInv
  <2>3. CASE CopyEnds
    BY <1>1, <2>3 DEF CopyEnds
  <2> QED
    BY <1>3, <2>1, <2>2, <2>3 DEF EngineStep
<1> QED
  BY <1>1, <1>2, <1>3, EngineChanges DEF engine

-----------------------------------------------------------------------------
(* The way through Cleanup. *)

\* With a template the VM is stopped, or removed already.
LEMMA Stopped ==
  ASSUME CInv, template_id
  PROVE  vm_id /\ vm \in {"down", "removed"}
<1>1. template = "ok" \/ ova = "running"
  BY DEF CInv, PInv, IInv, Taking
<1>2. template # "absent"
  BY <1>1 DEF CInv, PInv, IInv, EngineInv
<1>3. step >= 9 /\ vm \in {"image_locked", "down", "removed"}
  BY <1>2 DEF CInv, PInv, Fates
<1>4. vm # "image_locked"
  BY <1>1, <1>2 DEF CInv, Tidy, Unlocked
<1>5. step \in Nat
  BY StepFacts DEF CInv, PInv, IInv, TypeOK, BuildTypeOK
<1>6. step >= 3
  BY <1>3, <1>5
<1> QED
  BY <1>3, <1>4, <1>6 DEF CInv, PInv, IInv, Bag

\* Cleanup's requests follow one another, and leave the state bag alone.
LEMMA WayOutPath ==
  ASSUME TypeOK, Next, pc' \in WayOut
  PROVE  /\ UNCHANGED <<vm_id, template_id>>
         /\ \/ pc' = pc
            \/ Cleanup
            \/ pc = "cleanupStop" /\ pc' = "cleanupWait"
            \/ pc = "cleanupWait" /\ pc' = "cleanupRemove"
<1> USE DEF WayOut
<1>1. CASE StopVM
  BY <1>1 DEF StopVM, Goto, bag
<1>2. CASE Cleanup
  BY <1>2 DEF Cleanup, Goto, bag
<1>3. CASE WaitForState
  BY <1>3 DEF WaitForState, Reached, GiveUp, Tell, Halt, Goto, Continue, bag
<1>4. CASE Interrupt \/ Mark \/ Terminated \/ UNCHANGED build
  BY <1>4 DEF Interrupt, Mark, Terminated, vars, build, bag
<1>5. CASE Enter
  <2>1. step \in 1 .. 10
    BY StepFacts DEF TypeOK, BuildTypeOK
  <2> QED
    BY <1>5, <2>1, FirstFacts DEF Enter, Goto, Continue
<1>6. CASE Read
  BY <1>6, ReadFacts DEF Read, Goto, Halt
<1>7. CASE \/ KeyPair \/ AddVM \/ CopyDisk \/ PollClone \/ AttachDisk
           \/ VerifyAttachment \/ ManageNetworkInterfaces \/ GetVM \/ StartVM
  BY <1>7 DEF KeyPair, AddVM, CopyDisk, PollClone, AttachDisk, VerifyAttachment,
     ManageNetworkInterfaces, GetVM, StartVM, Goto, Continue, Halt
<1>8. CASE \/ Communicate \/ CleanupTempKeys \/ CheckStopped \/ ListNics
           \/ RemoveNic \/ CheckDown \/ AddTemplate \/ Export \/ RemoveVM
  BY <1>8 DEF Communicate, CleanupTempKeys, CheckStopped, ListNics, RemoveNic, CheckDown,
     AddTemplate, Export, RemoveVM, Goto, Continue, Halt
<1>9. CASE RequestFails \/ RequestRefused \/ Panic \/ Run \/ Leave \/ Finish \/ Destroy
  BY <1>9 DEF RequestFails, RequestRefused, Panic, Run, Leave, Finish, Destroy, GiveUp,
     Tell, Halt, Goto
<1> QED
  BY <1>1, <1>2, <1>3, <1>4, <1>5, <1>6, <1>7, <1>8, <1>9 DEF Next, Program, Mishap

\* How the runner gets to the end of Run.
LEMMA FinishPath ==
  ASSUME TypeOK, Next, pc' = "finish"
  PROVE  /\ UNCHANGED template_id
         /\ \/ pc = "finish" /\ panicked' = panicked
            \/ Cleanup \/ RemoveVM \/ RequestFails
            \/ pc = "cleanupWait"
            \/ RequestRefused /\ pc \in CleanupPoints
            \/ panicked'
<1>1. CASE Cleanup \/ RemoveVM
  BY <1>1 DEF Cleanup, RemoveVM, Goto, bag
<1>2. CASE WaitForState
  BY <1>2 DEF WaitForState, Reached, GiveUp, CleanupPoints, Tell, Halt, Goto, Continue,
     bag, Waits
<1>3. CASE RequestFails \/ RequestRefused
  BY <1>3 DEF RequestFails, RequestRefused, GiveUp, Tell, Halt, bag
<1>4. CASE Panic
  BY <1>4 DEF Panic, Goto, bag
<1>5. CASE Interrupt \/ Mark \/ Terminated \/ UNCHANGED build
  BY <1>5 DEF Interrupt, Mark, Terminated, vars, build, bag, rest
<1>6. CASE Enter
  <2>1. step \in 1 .. 10
    BY StepFacts DEF TypeOK, BuildTypeOK
  <2> QED
    BY <1>6, <2>1, FirstFacts DEF Enter, Goto, Continue
<1>7. CASE Read
  BY <1>7, ReadFacts DEF Read, Goto, Halt
<1>8. CASE \/ KeyPair \/ AddVM \/ CopyDisk \/ PollClone \/ AttachDisk
           \/ VerifyAttachment \/ ManageNetworkInterfaces \/ GetVM \/ StartVM
  BY <1>8 DEF KeyPair, AddVM, CopyDisk, PollClone, AttachDisk, VerifyAttachment,
     ManageNetworkInterfaces, GetVM, StartVM, Goto, Continue, Halt
<1>9. CASE \/ Communicate \/ CleanupTempKeys \/ CheckStopped \/ ListNics
           \/ RemoveNic \/ CheckDown \/ AddTemplate \/ Export
  BY <1>9 DEF Communicate, CleanupTempKeys, CheckStopped, ListNics, RemoveNic, CheckDown,
     AddTemplate, Export, Goto, Continue, Halt
<1>10. CASE StopVM
  <2>1. pc' = "waitDown" \/ pc' = "cleanupWait"
    BY <1>10 DEF StopVM, Goto
  <2> QED
    BY <2>1
<1>11. CASE Run \/ Leave \/ Finish \/ Destroy
  BY <1>11 DEF Run, Leave, Finish, Destroy, Goto
<1> QED
  BY <1>1, <1>2, <1>3, <1>4, <1>5, <1>6, <1>7, <1>8, <1>9, <1>10, <1>11
  DEF Next, Program, Mishap

\* A build with a template that reaches the end of Run has removed its VM.
LEMMA FinishRemoved ==
  ASSUME CInv, Next, pc' = "finish", template_id', faults' = 0, config.cleanupVM,
         ~panicked'
  PROVE  vm' = "removed"
<1> USE DEF CInv, PInv, Tidy
<1>1. template_id /\ vm_id /\ vm \in {"down", "removed"}
  BY FinishPath, Stopped DEF IInv
<1>2. faults = 0 /\ ~RequestFails
  BY FaultFree DEF IInv
<1>3. CASE pc = "finish" /\ panicked' = panicked
  <2>1. vm = "removed"
    BY <1>1, <1>2, <1>3 DEF Removal
  <2> QED
    BY <2>1, Kept DEF IInv
<1>4. CASE Cleanup
  <2>1. vm = "down"
    BY <1>1, <1>4 DEF Cleanup, Fates
  <2> QED
    BY <1>1, <1>4, <2>1 DEF Cleanup, Goto
<1>5. CASE RemoveVM
  BY <1>5 DEF RemoveVM, VmRemove
<1>6. CASE pc = "cleanupWait"
  BY <1>1, <1>6 DEF Removal
<1>7. CASE RequestRefused /\ pc \in CleanupPoints
  <2>1. pc \in {"cleanupStop", "cleanupRemove"}
    BY <1>7, WaitFacts DEF RequestRefused, Refused, CleanupPoints
  <2>2. pc # "cleanupStop"
    BY <1>1 DEF Removal
  <2>3. pc = "cleanupRemove" => vm = "down"
    BY DEF IInv, Ending
  <2> QED
    BY <1>7, <2>1, <2>2, <2>3 DEF RequestRefused, Refused
<1> QED
  BY <1>2, <1>3, <1>4, <1>5, <1>6, <1>7, FinishPath DEF IInv

LEMMA RemovalNext ==
  ASSUME CInv, Next
  PROVE  Removal'
<1> USE DEF CInv, PInv, Tidy
<1>1. config' = config
  BY ConfigKept
<1>2. pc' \in WayOut => vm_id'
  BY WayOutPath DEF IInv, Removal, WayOut, Cleanup, Goto
<1>3. pc' \in {"cleanupStop", "cleanupWait"} => ~template_id'
  <2> SUFFICES ASSUME pc' \in {"cleanupStop", "cleanupWait"}, template_id' PROVE FALSE
    OBVIOUS
  <2>1. template_id /\ vm \in {"down", "removed"}
    BY WayOutPath, Stopped DEF IInv, WayOut
  <2>2. CASE Cleanup
    <3>1. vm = "down"
      BY <2>1, <2>2 DEF Cleanup, Fates
    <3> QED
      BY <2>2, <3>1 DEF Cleanup, Goto
  <2>3. CASE pc' = pc \/ pc = "cleanupStop"
    BY <2>1, <2>3 DEF Removal
  <2> QED
    BY <2>2, <2>3, WayOutPath DEF IInv, WayOut
<1>4. vm' = "removed" => config.cleanupVM
  BY RemovalEnds DEF Removal, IInv, Ending
<1>5. pc' = "finish" /\ template_id' /\ faults' = 0 /\ config.cleanupVM =>
        vm' = "removed" \/ panicked'
  BY FinishRemoved
<1>6. ASSUME result' = "artifact", faults' = 0, config.cleanupVM
      PROVE  vm' = "removed"
  <2>1. faults = 0
    BY <1>6, FaultFree DEF IInv
  <2>2. CASE result' = result
    <3>1. vm = "removed"
      BY <1>6, <2>1, <2>2 DEF Removal
    <3> QED
      BY <3>1, Kept DEF IInv
  <2>3. CASE Finish
    <3>1. pc = "finish" /\ ~panicked /\ template_id /\ UNCHANGED engine
      BY <1>6, <2>3 DEF Finish
    <3>2. vm = "removed"
      BY <1>6, <2>1, <3>1 DEF Removal
    <3> QED
      BY <3>1, <3>2 DEF engine
  <2> QED
    BY <1>6, <2>2, <2>3, ResultSet
<1> QED
  BY <1>1, <1>2, <1>3, <1>4, <1>5, <1>6 DEF Removal

-----------------------------------------------------------------------------
LEMMA TidyNext == CInv /\ [Next]_vars => Tidy'
<1> SUFFICES ASSUME CInv, [Next]_vars PROVE Tidy'
  OBVIOUS
<1>1. CASE Next
  BY <1>1, OneCloneNext, UnlockedNext, RemovalNext DEF Tidy
<1>2. CASE UNCHANGED vars
  <2> USE <1>2 DEF CInv, Tidy, vars, engine, bag, rest
  <2>1. NoClones' = NoClones /\ Early' = Early
    BY DEF NoClones, Early
  <2>2. OneClone'
    BY <2>1 DEF OneClone
  <2>3. Unlocked' /\ Removal'
    BY DEF Unlocked, Removal
  <2> QED
    BY <2>2, <2>3
<1> QED
  BY <1>1, <1>2

\* CInv holds in every reachable state.
THEOREM CleanInvariance == Spec => []CInv
<1>1. Init => CInv
  BY InitInv, FatesInit, TidyInit DEF CInv, PInv
<1>2. CInv /\ [Next]_vars => CInv'
  BY NextInv, FatesNext, TidyNext DEF CInv, PInv
<1> QED
  BY <1>1, <1>2, PTL DEF Spec

\* A build that succeeds without a failed request and without an interruption
\* leaves nothing behind: its VM is removed and no clone is left; or, when the VM
\* is to be kept, it is stopped and has its boot disk.
THEOREM CleanEngine == Spec => []CleanSuccess
<1>1. CInv => CleanSuccess
  <2> SUFFICES ASSUME CInv, result = "artifact", faults = 0 PROVE CleanSuccess
    BY DEF CleanSuccess
  <2>1. template_id
    BY DEF CInv, PInv, IInv, Ending
  <2>2. vm_id /\ vm \in {"down", "removed"}
    BY <2>1, Stopped
  <2>3. CASE config.cleanupVM
    <3>1. vm = "removed"
      BY <2>3 DEF CInv, Tidy, Removal
    <3>2. NoClones
      BY <3>1 DEF CInv, Tidy, OneClone
    <3> QED
      BY <2>3, <3>1, <3>2 DEF CleanSuccess, NoClones
  <2>4. CASE ~config.cleanupVM
    <3>1. vm = "down"
      BY <2>2, <2>4 DEF CInv, Tidy, Removal
    <3>2. boot # "none"
      BY <2>2, <3>1 DEF CInv, PInv, IInv, Booting
    <3> QED
      BY <2>4, <3>1, <3>2 DEF CleanSuccess
  <2> QED
    BY <2>3, <2>4
<1> QED
  BY <1>1, CleanInvariance, PTL

=============================================================================
