----------------------------- MODULE BuildProofs -----------------------------
(***************************************************************************)
(* Theorems about Build, for any configurations, any number of clones,     *)
(* polls and failed requests, and any environment.  IInv strengthens the   *)
(* safety properties of Build to an inductive invariant.                   *)
(***************************************************************************)
EXTENDS Build, TLAPS

\* The program points of the steps that make requests.
CreatePoints ==
  {"getClusterID", "getSourceResourceInfo", "createVM", "getSourceDisk", "copy",
   "clonePoll", "attachDiskToVM", "verify", "findNetwork",
   "manageNetworkInterfaces", "waitForVMReady", "getVM"}
RunPoints == {"vmService", "update", "start", "waitUp"}
StopPoints == {"getStatus", "stop", "waitDown"}
NicPoints == {"nicsService", "listNics", "removeNic"}
TemplatePoints == {"checkDown", "templatesService", "addTemplate", "waitTemplate"}
ExportPoints ==
  {"exportService", "getTemplate", "hostsService", "findHost", "export", "waitExport"}

EndPoints == CleanupPoints \cup {"finish"}

\* A step's action lets the next step begin.
Succeeded(s) == pc = "leave" /\ step = s /\ action = "continue"

\* The engine is asked to stop only a running VM, the boot disk is complete,
\* and an export locks its template.
EngineInv ==
  /\ stopping => vm \in Running
  /\ boot \in Clones => disks[boot] = "ok"
  /\ ova = "running" => template = "locked"

\* The program points belong to their steps.
Course ==
  /\ pc = "run" => step = 1
  /\ pc = "keyPair" => step = 1
  /\ pc \in CreatePoints => step = 2
  /\ pc \in RunPoints => step = 3
  /\ pc = "connect" => step = 4
  /\ pc = "provision" => step = 5
  /\ pc = "cleanupTempKeys" => step = 6
  /\ pc \in StopPoints => step = 7
  /\ pc \in NicPoints => step = 8
  /\ pc \in TemplatePoints => step = 9
  /\ pc \in ExportPoints => step = 10

\* The clone poll's counter is 0 before the loop and in range in it, and what
\* the loop returns is a finished clone.
Polling ==
  /\ step = 1 => polls = 0
  /\ step = 2 /\ pc \in {"enter", "getClusterID", "getSourceResourceInfo",
                         "createVM", "getSourceDisk", "copy"} => polls = 0
  /\ pc = "clonePoll" => polls < ClonePolls
  /\ pc = "attachDiskToVM" => clonedDiskID \in Clones /\ disks[clonedDiskID] = "ok"

\* What the state bag says of the VM and of the way the steps ended.
Bag ==
  /\ cancelled => ctx
  /\ pc = "leave" => action \in {"continue", "halt"}
  /\ pc = "leave" /\ action = "halt" => error \/ ctx
  /\ step = 1 \/ (step = 2 /\ pc \in {"enter"} \cup CreatePoints) => ~vm_id
  /\ step >= 3 \/ Succeeded(2) => vm_id
  /\ step = 10 \/ Succeeded(9) => template_id
  /\ ~vm_id /\ Known => error \/ panicked \/ pc \in CreatePoints

\* The VM has a boot disk from the moment its disk is attached.
Booting ==
  /\ vm \in Running => boot # "none"
  /\ pc \in {"verify", "findNetwork", "manageNetworkInterfaces",
             "waitForVMReady", "getVM"} => boot # "none"
  /\ vm_id => boot # "none" \/ vm = "removed"

\* The template is made of a stopped VM without interfaces, if so configured.
TakenWell ==
  /\ taken.vm = "down" /\ taken.boot # "none"
  /\ config.cleanupInterfaces => taken.nics = {}

Taking ==
  /\ pc = "removeNic" => listed = nics
  /\ config.cleanupInterfaces /\ (step >= 9 \/ Succeeded(8)) => nics = {}
  /\ pc \in {"templatesService", "addTemplate"} => vm = "down"
  /\ pc = "waitTemplate" => TakenWell
  /\ template_id => TakenWell /\ (template = "ok" \/ ova = "running")

\* An export that was asked for was accepted before the build went on.
Exporting ==
  config.export =>
    /\ pc = "waitExport" \/ Succeeded(10) => ova # "none"
    /\ pc \in EndPoints /\ ~panicked /\ ~error /\ template_id => ova # "none" \/ ctx

\* What is known when Cleanup runs and when Run returns.
Ending ==
  /\ pc \in EndPoints => template_id \/ error \/ panicked \/ ctx
  /\ pc \in CleanupPoints \ {"cleanup"} => vm_id
  /\ pc = "cleanupRemove" => vm = "down" /\ config.cleanupVM
  /\ pc = "finish" /\ config.cleanupVM /\ Known =>
       IF vm_id THEN told \/ cleanupPanicked ELSE error \/ panicked
  /\ result \in {"artifact", "nil"} => Returned
  /\ result = "nil" => ctx \/ panicked
  /\ result = "artifact" => template_id /\ (config.export => ova # "none" \/ ctx)
  /\ LeftoverAnnounced

\* A panic of Cleanup is a panic.
Panics == cleanupPanicked => panicked

IInv ==
  TypeOK /\ EngineInv /\ Course /\ Polling /\ Bag /\ Booting /\ Taking
    /\ Exporting /\ Ending /\ Panics

-----------------------------------------------------------------------------
(* The constant functions Build is written with. *)

LEMMA StepFacts ==
  /\ Len(Steps) = 10
  /\ \A s \in 1 .. 10 :
       /\ Steps[s] = "cleanupInterfaces" => s = 8
       /\ Steps[s] = "exportOVA" => s = 10
  BY DEF Steps

LEMMA FirstFacts ==
  /\ FirstPoint[1] = "keyPair" /\ FirstPoint[2] = "getClusterID"
  /\ FirstPoint[3] = "vmService" /\ FirstPoint[4] = "connect"
  /\ FirstPoint[5] = "provision" /\ FirstPoint[6] = "cleanupTempKeys"
  /\ FirstPoint[7] = "getStatus" /\ FirstPoint[8] = "nicsService"
  /\ FirstPoint[9] = "checkDown" /\ FirstPoint[10] = "exportService"
  BY DEF FirstPoint

LEMMA ReadFacts ==
  /\ DOMAIN AfterRead =
       {"getClusterID", "getSourceResourceInfo", "getSourceDisk", "findNetwork",
        "vmService", "update", "nicsService", "templatesService", "exportService",
        "getTemplate", "hostsService", "findHost"}
  /\ AfterRead["getClusterID"] = "getSourceResourceInfo"
  /\ AfterRead["getSourceResourceInfo"] = "createVM"
  /\ AfterRead["getSourceDisk"] = "copy"
  /\ AfterRead["findNetwork"] = "manageNetworkInterfaces"
  /\ AfterRead["vmService"] = "update" /\ AfterRead["update"] = "start"
  /\ AfterRead["nicsService"] = "listNics"
  /\ AfterRead["templatesService"] = "addTemplate"
  /\ AfterRead["exportService"] = "getTemplate"
  /\ AfterRead["getTemplate"] = "hostsService"
  /\ AfterRead["hostsService"] = "findHost" /\ AfterRead["findHost"] = "export"
  BY DEF AfterRead

LEMMA WaitFacts ==
  /\ DOMAIN Waits = {"waitForVMReady", "waitUp", "waitDown", "waitTemplate",
                     "waitExport", "cleanupWait"}
  /\ \A s : Verdict(s, Waits["cleanupWait"], cancelled) = "reached" => s = "down"
  /\ \A s : Verdict(s, Waits["waitTemplate"], cancelled) = "reached" => s = "ok"
  BY DEF Waits, Verdict

-----------------------------------------------------------------------------
(* The engine. *)

\* The requests keep the engine's state well formed.
LEMMA RequestsSound ==
  ASSUME EngineTypeOK, EngineInv, clonedDiskID \in Clones \cup {"none"},
         NEW p,
         p = "attachDiskToVM" => clonedDiskID \in Clones /\ disks[clonedDiskID] = "ok",
         CarriedOut(p)
  PROVE  EngineTypeOK' /\ EngineInv'
<1>1. CASE VmsAdd(config.source)
  BY <1>1, ClonesAssumption DEF VmsAdd, EngineTypeOK, EngineInv, Running, VMStatuses
<1>2. CASE \E c, d \in Clones : DisksCopy(c, d)
  BY <1>2 DEF DisksCopy, EngineTypeOK, EngineInv
<1>3. CASE /\ clonedDiskID \in Clones /\ disks[clonedDiskID] = "ok"
           /\ AttachmentsAdd(clonedDiskID)
  BY <1>3 DEF AttachmentsAdd, EngineTypeOK, EngineInv
<1>4. CASE NicsAdd
  BY <1>4 DEF NicsAdd, EngineTypeOK, EngineInv
<1>5. CASE VmStart
  BY <1>5 DEF VmStart, EngineTypeOK, EngineInv, Running, VMStatuses
<1>6. CASE VmStop
  BY <1>6 DEF VmStop, EngineTypeOK, EngineInv
<1>7. CASE \E n \in listed : NicRemove(n)
  BY <1>7 DEF NicRemove, EngineTypeOK, EngineInv
<1>8. CASE TemplatesAdd
  <2>1. taken' \in [vm : VMStatuses \cup {"none"}, boot : Clones \cup {"inherited", "none"},
                    nics : SUBSET (SourceNics \cup {NewNic})]
    BY <1>8 DEF TemplatesAdd, EngineTypeOK
  <2>2. QED
    BY <1>8, <2>1 DEF TemplatesAdd, EngineTypeOK, EngineInv, Running, VMStatuses
<1>9. CASE TemplateExport
  BY <1>9 DEF TemplateExport, EngineTypeOK, EngineInv
<1>10. CASE VmRemove
  BY <1>10, ClonesAssumption DEF VmRemove, EngineTypeOK, EngineInv, Running, VMStatuses
<1>11. QED
  BY <1>1, <1>2, <1>3, <1>4, <1>5, <1>6, <1>7, <1>8, <1>9, <1>10 DEF CarriedOut

\* What the engine does by itself keeps its state well formed, and leaves what
\* the build relies on: a VM that is down, its interfaces and its boot disk.
LEMMA EngineMoves ==
  ASSUME EngineTypeOK, EngineInv, EngineStep \/ GuestShutdown
  PROVE  /\ EngineTypeOK' /\ EngineInv'
         /\ nics' = nics /\ boot' = boot /\ taken' = taken
         /\ vm = "down" => vm' = "down"
         /\ Known' = Known
         /\ vm' = "removed" <=> vm = "removed"
         /\ vm' \in Running => vm \in Running
         /\ template = "ok" \/ ova = "running" => template' = "ok" \/ ova' = "running"
         /\ ova # "none" => ova' # "none"
         /\ \A d \in Clones : disks[d] = "ok" => disks'[d] = "ok"
<1> USE DEF EngineTypeOK, EngineInv, Known
<1>1. CASE VmCreated
  BY <1>1 DEF VmCreated, Running, VMStatuses
<1>2. CASE VmLaunches
  BY <1>2 DEF VmLaunches, Running, VMStatuses
<1>3. CASE VmStops
  <2>1. vm \in Running /\ vm' \in {"down", "powering_down"}
    BY <1>3 DEF VmStops, Running
  <2>2. stopping' \in BOOLEAN /\ (stopping' => vm' \in Running)
    BY <1>3 DEF VmStops, Running
  <2>3. QED
    BY <1>3, <2>1, <2>2 DEF VmStops, Running, VMStatuses
<1>4. CASE CopyEnds
  BY <1>4 DEF CopyEnds
<1>5. CASE TemplateEnds
  BY <1>5 DEF TemplateEnds, Running, VMStatuses
<1>6. CASE ExportEnds
  BY <1>6 DEF ExportEnds
<1>7. CASE GuestShutdown
  BY <1>7 DEF GuestShutdown, Running, VMStatuses
<1>8. QED
  BY <1>1, <1>2, <1>3, <1>4, <1>5, <1>6, <1>7 DEF EngineStep

-----------------------------------------------------------------------------
(* The invariant holds at the start. *)

LEMMA InitInv == Init => IInv
<1> SUFFICES ASSUME Init PROVE IInv
  OBVIOUS
<1> USE DEF Init, EngineInit
<1>1. TypeOK
  <2>1. Untaken \in [vm : VMStatuses \cup {"none"}, boot : Clones \cup {"inherited", "none"},
                     nics : SUBSET (SourceNics \cup {NewNic})]
    BY DEF Untaken
  <2>2. EngineTypeOK
    BY <2>1 DEF EngineTypeOK, VMStatuses
  <2>3. BuildTypeOK
    <3>1. step \in 1 .. Len(Steps)
      BY StepFacts
    <3>2. polls \in 0 .. ClonePolls /\ faults \in 0 .. MaxFaults
      BY MaxFaultsAssumption, ClonePollsAssumption
    <3>3. QED
      BY <3>1, <3>2 DEF BuildTypeOK, Points
  <2>4. QED
    BY <2>2, <2>3 DEF TypeOK
<1>2. EngineInv /\ Course /\ Polling
  BY ClonesAssumption DEF EngineInv, Course, Polling, CreatePoints, RunPoints,
     StopPoints, NicPoints, TemplatePoints, ExportPoints
<1>3. Bag /\ Booting /\ Taking
  BY DEF Bag, Booting, Taking, Succeeded, Known, CreatePoints, Running
<1>4. Exporting /\ Ending /\ Panics
  BY DEF Exporting, Ending, Panics, Succeeded, EndPoints, CleanupPoints, Returned,
     LeftoverAnnounced, Known
<1>5. QED
  BY <1>1, <1>2, <1>3, <1>4 DEF IInv

-----------------------------------------------------------------------------
(* Types. *)

LEMMA NextEngineType ==
  ASSUME TypeOK, EngineInv, Polling, Next
  PROVE  EngineTypeOK' /\ EngineInv'
<1>1. ASSUME UNCHANGED engine
      PROVE  EngineTypeOK' /\ EngineInv'
  BY <1>1 DEF TypeOK, engine, EngineTypeOK, EngineInv, Running, VMStatuses
<1>2. ASSUME CarriedOut(pc) \/ CarriedOut("cleanupStop") \/ CarriedOut("stop")
      PROVE  EngineTypeOK' /\ EngineInv'
  BY <1>2, RequestsSound DEF TypeOK, BuildTypeOK, Polling
<1>3. CASE AddVM \/ AttachDisk \/ StartVM \/ StopVM \/ AddTemplate \/ Export \/ RemoveVM
  BY <1>2, <1>3 DEF AddVM, AttachDisk, StartVM, StopVM, AddTemplate, Export,
     RemoveVM, CarriedOut
<1>4. CASE ManageNetworkInterfaces \/ RemoveNic
  BY <1>1, <1>2, <1>4 DEF ManageNetworkInterfaces, RemoveNic, CarriedOut
<1>5. CASE CopyDisk
  BY <1>2, <1>5 DEF CopyDisk, CarriedOut
<1>6. CASE RequestFails \/ Panic
  BY <1>1, <1>2, <1>6 DEF RequestFails, Panic
<1>7. CASE EngineStep \/ GuestShutdown
  BY <1>7, EngineMoves DEF TypeOK
<1>8. CASE Run \/ Enter \/ Leave \/ Interrupt \/ Mark \/ Destroy \/ Terminated \/ Finish
  BY <1>1, <1>8 DEF Run, Enter, Leave, Interrupt, Mark, Destroy, Terminated, Finish,
     Reads, vars
<1>9. CASE \/ KeyPair \/ Read \/ PollClone \/ VerifyAttachment \/ GetVM \/ Communicate
           \/ CleanupTempKeys \/ CheckStopped \/ ListNics \/ CheckDown \/ Cleanup
           \/ WaitForState \/ RequestRefused
  BY <1>1, <1>9 DEF KeyPair, Read, PollClone, VerifyAttachment, GetVM, Communicate,
     CleanupTempKeys, CheckStopped, ListNics, CheckDown, Cleanup, WaitForState,
     RequestRefused, Reads
<1>10. QED
  BY <1>3, <1>4, <1>5, <1>6, <1>7, <1>8, <1>9 DEF Next, Program, Mishap

\* The points of the steps and of Cleanup are points.
LEMMA PointFacts ==
  /\ CreatePoints \cup RunPoints \cup StopPoints \cup NicPoints \subseteq Points
  /\ TemplatePoints \cup ExportPoints \cup EndPoints \subseteq Points
  /\ {"keyPair", "connect", "provision", "cleanupTempKeys"} \subseteq Points
  /\ {"enter", "leave", "returned", "destroyed"} \subseteq Points
  /\ \A s \in 1 .. 10 : FirstPoint[s] \in Points
  /\ \A p \in DOMAIN AfterRead : AfterRead[p] \in Points
<1>1. CreatePoints \cup RunPoints \cup StopPoints \cup NicPoints \subseteq Points
  BY ReadFacts, WaitFacts DEF Points, FailPoints, CreatePoints, RunPoints, StopPoints,
     NicPoints
<1>2. TemplatePoints \cup ExportPoints \cup EndPoints \subseteq Points
  BY ReadFacts, WaitFacts DEF Points, FailPoints, TemplatePoints, ExportPoints,
     EndPoints, CleanupPoints
<1>3. /\ {"keyPair", "connect", "provision", "cleanupTempKeys"} \subseteq Points
      /\ {"enter", "leave", "returned", "destroyed"} \subseteq Points
  BY DEF Points, FailPoints
<1>4. \A s \in 1 .. 10 : FirstPoint[s] \in Points
  BY ReadFacts, FirstFacts, <1>1, <1>2, <1>3 DEF Points, FailPoints
<1>5. \A p \in DOMAIN AfterRead : AfterRead[p] \in Points
  BY ReadFacts, <1>1, <1>2 DEF CreatePoints, RunPoints, NicPoints, TemplatePoints,
     ExportPoints
<1>6. QED
  BY <1>1, <1>2, <1>3, <1>4, <1>5

LEMMA NextBuildType ==
  ASSUME TypeOK, Polling, Next
  PROVE  BuildTypeOK'
<1> USE DEF BuildTypeOK
<1>1. BuildTypeOK
  BY DEF TypeOK
<1>2. CASE UNCHANGED build
  BY <1>1, <1>2 DEF build, bag, locals, rest
<1>3. ASSUME GiveUp, UNCHANGED locals, UNCHANGED rest, faults' \in 0 .. MaxFaults
      PROVE  BuildTypeOK'
  <2>1. /\ pc' \in Points /\ action' \in {"none", "continue", "halt"}
        /\ error' \in BOOLEAN /\ told' \in BOOLEAN
    BY <1>1, <1>3, PointFacts DEF GiveUp, Tell, Halt, EndPoints, bag
  <2>2. UNCHANGED <<step, vm_id, template_id, locals, rest>>
    BY <1>3 DEF GiveUp, Tell, Halt, bag
  <2>3. QED
    BY <1>1, <1>3, <2>1, <2>2 DEF locals, rest
<1>4. ASSUME Continue, UNCHANGED locals, UNCHANGED rest, UNCHANGED faults
      PROVE  BuildTypeOK'
  BY <1>1, <1>4, PointFacts DEF Continue, locals, rest, bag
<1>5. ASSUME NEW p \in Points, Goto(p), UNCHANGED locals, UNCHANGED rest,
             faults' \in 0 .. MaxFaults
      PROVE  BuildTypeOK'
  BY <1>1, <1>5 DEF Goto, locals, rest, bag
<1>6. faults \in 0 .. MaxFaults /\ (Fault => faults' \in 0 .. MaxFaults)
  BY <1>1, MaxFaultsAssumption DEF Fault
<1>7. CASE Run
  BY <1>1, <1>7, MaxFaultsAssumption, PointFacts DEF Run, bag, locals
<1>8. CASE Enter
  <2>1. FirstPoint[step] \in Points /\ "cleanup" \in Points
    BY <1>1, PointFacts, StepFacts DEF EndPoints, CleanupPoints
  <2>2. /\ pc' \in Points /\ action' \in {"none", "continue", "halt"}
        /\ cancelled' \in BOOLEAN
    BY <1>1, <1>8, <2>1, PointFacts DEF Enter, Goto, Continue
  <2>3. UNCHANGED <<step, bag, told, locals, config, panicked, cleanupPanicked, result, ctx,
                  faults>>
    BY <1>8 DEF Enter, Goto, Continue
  <2>4. QED
    BY <1>1, <2>2, <2>3 DEF bag, locals
<1>9. CASE Leave
  <2>1. pc' \in Points
    BY <1>9, PointFacts DEF Leave, Goto, EndPoints, CleanupPoints
  <2>2. step' \in 1 .. Len(Steps)
    BY <1>1, <1>9, StepFacts DEF Leave, Goto
  <2>3. UNCHANGED <<action, bag, told, locals, rest, faults>>
    BY <1>9 DEF Leave, Goto, Reads, Answered
  <2>4. QED
    BY <1>1, <2>1, <2>2, <2>3 DEF bag, locals, rest
<1>10. CASE Interrupt \/ Mark
  <2>1. ctx' \in BOOLEAN /\ cancelled' \in BOOLEAN
    BY <1>1, <1>10 DEF Interrupt, Mark
  <2>2. UNCHANGED <<step, pc, action, bag, locals, config, panicked, cleanupPanicked,
                    result, told, faults>>
    BY <1>10 DEF Interrupt, Mark
  <2>3. QED
    BY <1>1, <2>1, <2>2 DEF bag, locals
<1>11. CASE KeyPair \/ CleanupTempKeys
  BY <1>4, <1>11 DEF KeyPair, CleanupTempKeys, Reads, Answered
<1>12. CASE Read
  <2>1. CASE Goto(AfterRead[pc])
    BY <1>5, <1>6, <1>12, <2>1, PointFacts DEF Read, Reads, Answered
  <2>2. CASE Halt
    BY <1>1, <1>12, <2>2, PointFacts DEF Read, Halt, Reads, Answered, locals, rest
  <2>3. QED
    BY <1>12, <2>1, <2>2 DEF Read
<1>13. CASE AddVM \/ AttachDisk \/ VerifyAttachment \/ ManageNetworkInterfaces
  BY <1>5, <1>6, <1>13, PointFacts DEF AddVM, AttachDisk, VerifyAttachment, Reads,
     Answered, ManageNetworkInterfaces, CreatePoints
<1>14. CASE StartVM \/ StopVM \/ AddTemplate \/ Export \/ Cleanup \/ RemoveVM
  BY <1>5, <1>6, <1>14, PointFacts DEF StartVM, StopVM, AddTemplate, Export, Cleanup,
     RemoveVM, Reads, Answered, RunPoints, StopPoints, TemplatePoints, ExportPoints,
     EndPoints, CleanupPoints
<1>15. CASE CopyDisk
  BY <1>5, <1>6, <1>15, PointFacts DEF CopyDisk, Answered, Fault, CreatePoints
<1>16. CASE PollClone
  <2>1. polls' \in 0 .. ClonePolls /\ clonedDiskID' \in Clones \cup {"none"}
    BY <1>1, <1>16, ClonePollsAssumption DEF PollClone, Polling
  <2>2. pc' \in Points /\ action' \in {"none", "continue", "halt"} /\ error' \in BOOLEAN
    BY <1>1, <1>16, PointFacts DEF PollClone, Goto, Halt, bag, CreatePoints
  <2>3. UNCHANGED <<step, vm_id, template_id, told, listed, faults, rest>>
    BY <1>16 DEF PollClone, Goto, Halt, Answered, bag
  <2>4. QED
    BY <1>1, <2>1, <2>2, <2>3 DEF rest
<1>17. CASE GetVM
  BY <1>1, <1>17, PointFacts DEF GetVM, Reads, Answered, locals, rest
<1>18. CASE Communicate
  BY <1>1, <1>18, PointFacts DEF Communicate, Continue, Reads, Answered, locals, rest, bag
<1>19. CASE CheckStopped \/ CheckDown
  <2>1. pc' \in Points /\ action' \in {"none", "continue", "halt"} /\ error' \in BOOLEAN
    BY <1>1, <1>19, PointFacts DEF CheckStopped, CheckDown, Continue, Halt, Goto, bag,
       StopPoints, TemplatePoints
  <2>2. UNCHANGED <<step, vm_id, template_id, told, locals, faults, rest>>
    BY <1>19 DEF CheckStopped, CheckDown, Continue, Halt, Goto, bag, Reads, Answered
  <2>3. QED
    BY <1>1, <2>1, <2>2 DEF locals, rest
<1>20. CASE ListNics \/ RemoveNic
  <2>1. listed' \subseteq SourceNics \cup {NewNic}
    BY <1>20 DEF ListNics, RemoveNic, TypeOK, EngineTypeOK
  <2>2. QED
    BY <1>1, <1>20, <2>1, PointFacts DEF ListNics, RemoveNic, Continue, Goto, NicPoints,
       Answered, rest, bag
<1>21. CASE WaitForState
  <2>1. CASE GiveUp
    BY <1>3, <1>6, <1>21, <2>1 DEF WaitForState, Reads, Answered
  <2>2. CASE Reached
    <3>1. pc' \in Points /\ action' \in {"none", "continue", "halt"}
      BY <1>1, <2>2, PointFacts DEF Reached, Goto, Continue, CreatePoints, EndPoints,
         CleanupPoints
    <3>2. template_id' \in BOOLEAN /\ UNCHANGED <<step, vm_id, error, told>>
      BY <1>1, <2>2 DEF Reached, Goto, Continue, bag
    <3>3. QED
      BY <1>1, <1>21, <3>1, <3>2 DEF WaitForState, Reads, Answered, locals, rest
  <2>3. QED
    BY <1>21, <2>1, <2>2 DEF WaitForState
<1>22. CASE RequestFails \/ RequestRefused
  BY <1>3, <1>6, <1>22 DEF RequestFails, RequestRefused, Fault, Reads, Answered
<1>23. CASE Panic
  BY <1>1, <1>23, PointFacts DEF Panic, Goto, EndPoints, CleanupPoints, locals, bag
<1>24. CASE Finish
  BY <1>1, <1>24, PointFacts DEF Finish, Goto, locals, bag
<1>25. CASE Destroy
  BY <1>5, <1>6, <1>25, PointFacts DEF Destroy, Reads, Answered
<1>26. CASE Terminated
  BY <1>2, <1>26 DEF Terminated, vars, build
<1>27. QED
  BY <1>2, <1>7, <1>8, <1>9, <1>10, <1>11, <1>12, <1>13, <1>14, <1>15, <1>16, <1>17,
     <1>18, <1>19, <1>20, <1>21, <1>22, <1>23, <1>24, <1>25, <1>26
     DEF Next, Program, Mishap

-----------------------------------------------------------------------------
(* The course of the steps. *)

LEMMA NextCourse ==
  ASSUME TypeOK, Course, Next
  PROVE  Course'
<1> DEFINE Between == EndPoints \cup {"enter", "leave", "returned", "destroyed"}
           Within(S) == pc \in S /\ pc' \in S /\ step' = step
<1> USE DEF CreatePoints, RunPoints, StopPoints, NicPoints, TemplatePoints,
            ExportPoints
<1>1. ASSUME pc' \in Between PROVE Course'
  BY <1>1 DEF Course, EndPoints, CleanupPoints
<1>2. ASSUME \/ Within(CreatePoints) \/ Within(RunPoints) \/ Within(StopPoints)
             \/ Within(NicPoints) \/ Within(TemplatePoints) \/ Within(ExportPoints)
      PROVE  Course'
  BY <1>2 DEF Course
<1>3. ASSUME UNCHANGED <<pc, step>> PROVE Course'
  BY <1>3 DEF Course
<1>4. GiveUp \/ Continue => pc' \in Between
  BY DEF GiveUp, Tell, Halt, Continue, EndPoints
<1>5. CASE Run \/ Leave \/ KeyPair \/ CleanupTempKeys \/ GetVM \/ Communicate
           \/ Cleanup \/ RemoveVM \/ Finish \/ Destroy
  BY <1>1, <1>5 DEF Run, Leave, KeyPair, CleanupTempKeys, GetVM, Communicate, Continue,
     Cleanup, RemoveVM, Finish, Destroy, Goto, EndPoints, CleanupPoints
<1>6. CASE RequestFails \/ RequestRefused \/ Panic
  BY <1>1, <1>4, <1>6 DEF RequestFails, RequestRefused, Panic, Goto, EndPoints,
     CleanupPoints
<1>7. CASE Enter
  <2>1. CASE Goto("cleanup") \/ Continue
    BY <1>1, <2>1 DEF Goto, Continue, EndPoints, CleanupPoints
  <2>2. CASE Goto(FirstPoint[step])
    <3>1. step \in 1 .. 10 /\ step' = step /\ pc' = FirstPoint[step]
      BY <2>2, StepFacts DEF TypeOK, BuildTypeOK, Goto
    <3>2. QED
      BY <3>1, FirstFacts DEF Course
  <2>3. QED
    BY <1>7, <2>1, <2>2 DEF Enter
<1>8. CASE Read
  <2>1. CASE Halt
    BY <1>1, <2>1 DEF Halt
  <2>2. CASE Goto(AfterRead[pc])
    BY <1>2, <1>8, <2>2, ReadFacts DEF Read, Goto
  <2>3. QED
    BY <1>8, <2>1, <2>2 DEF Read
<1>9. CASE AddVM \/ CopyDisk \/ AttachDisk \/ VerifyAttachment \/ ManageNetworkInterfaces
  BY <1>2, <1>9 DEF AddVM, CopyDisk, AttachDisk, VerifyAttachment,
     ManageNetworkInterfaces, Goto
<1>10. CASE PollClone
  BY <1>1, <1>2, <1>10 DEF PollClone, Goto, Halt
<1>11. CASE StartVM \/ AddTemplate \/ Export
  BY <1>2, <1>11 DEF StartVM, AddTemplate, Export, Goto
<1>12. CASE CheckStopped \/ CheckDown
  BY <1>1, <1>2, <1>12 DEF CheckStopped, CheckDown, Goto, Continue, Halt
<1>13. CASE ListNics \/ RemoveNic
  BY <1>1, <1>2, <1>13 DEF ListNics, RemoveNic, Goto, Continue
<1>14. CASE StopVM
  BY <1>1, <1>2, <1>14 DEF StopVM, Goto, EndPoints, CleanupPoints
<1>15. CASE WaitForState
  BY <1>1, <1>2, <1>4, <1>15 DEF WaitForState, Reached, Goto, Continue, EndPoints,
     CleanupPoints
<1>16. CASE Interrupt \/ Mark \/ Terminated \/ UNCHANGED build
  BY <1>3, <1>16 DEF Interrupt, Mark, Terminated, vars, build
<1>17. QED
  BY <1>5, <1>6, <1>7, <1>8, <1>9, <1>10, <1>11, <1>12, <1>13, <1>14, <1>15, <1>16
     DEF Next, Program, Mishap

\* polls counts only in cloneDisk's loop.
LEMMA NextPolling ==
  ASSUME TypeOK, EngineInv, Course, Polling, Next
  PROVE  Polling'
<1> USE DEF CreatePoints, RunPoints, StopPoints, NicPoints, TemplatePoints,
            ExportPoints
<1> DEFINE Early == {"enter", "getClusterID", "getSourceResourceInfo", "createVM",
                     "getSourceDisk", "copy"}
<1>1. ASSUME polls' = polls, step' = step, pc' \notin Early, pc' # "clonePoll",
             pc' # "attachDiskToVM"
      PROVE  Polling'
  BY <1>1 DEF Polling
<1>2. ASSUME polls' = polls, step' = step, pc' \in Early, step = 2 => pc \in Early
      PROVE  Polling'
  BY <1>2 DEF Polling
<1>3. ASSUME UNCHANGED <<polls, clonedDiskID, step, pc>>,
             \A d \in Clones : disks[d] = "ok" => disks'[d] = "ok"
      PROVE  Polling'
  BY <1>3 DEF Polling
<1>4. CASE Leave
  <2>1. step \in 1 .. 10
    BY StepFacts DEF TypeOK, BuildTypeOK
  <2>2. CASE pc' = "enter" /\ step' = step + 1
    <3>1. polls' = polls
      BY <1>4 DEF Leave, Reads, locals
    <3>2. step # 1 => step' # 1 /\ step' # 2
      BY <2>1, <2>2
    <3>3. QED
      BY <2>1, <2>2, <3>1, <3>2 DEF Polling
  <2>3. CASE Goto("cleanup")
    BY <1>1, <1>4, <2>3 DEF Leave, Goto, Reads, locals
  <2>4. QED
    BY <1>4, <2>2, <2>3 DEF Leave
<1>5. CASE Enter
  <2>1. step \in 1 .. 10 /\ polls' = polls /\ step' = step /\ pc = "enter"
    BY <1>5, StepFacts DEF TypeOK, BuildTypeOK, Enter, Goto, Continue, locals
  <2>2. CASE pc' = FirstPoint[step]
    BY <1>1, <1>2, <2>1, <2>2, FirstFacts
  <2>3. CASE pc' \in {"leave", "cleanup"}
    BY <1>1, <2>1, <2>3
  <2>4. QED
    BY <1>5, <2>2, <2>3 DEF Enter, Goto, Continue
<1>6. CASE PollClone
  <2>1. polls \in 0 .. ClonePolls /\ ClonePolls \in Nat /\ step = 2
    BY <1>6, ClonePollsAssumption DEF TypeOK, BuildTypeOK, PollClone, Course
  <2>2. CASE pc' = "leave"
    BY <1>6, <2>1, <2>2 DEF PollClone, Goto, Halt, Polling, bag
  <2>3. CASE pc' \in {"clonePoll", "attachDiskToVM"}
    BY <1>6, <2>1, <2>3 DEF PollClone, Goto, Halt, Polling, bag, engine
  <2>4. QED
    BY <1>6, <2>2, <2>3 DEF PollClone, Goto, Halt
<1>7. CASE CopyDisk
  <2>1. polls = 0 /\ polls' = polls /\ step = 2 /\ step' = step /\ pc' = "clonePoll"
    BY <1>7 DEF CopyDisk, Goto, locals, Course, Polling
  <2>2. QED
    BY <2>1, ClonePollsAssumption DEF Polling
<1>8. CASE Read
  <2>1. CASE pc' = AfterRead[pc] /\ step' = step
    BY <1>1, <1>2, <1>8, <2>1, ReadFacts DEF Read, Reads, locals
  <2>2. CASE pc' = "leave" /\ step' = step
    BY <1>1, <1>8, <2>2 DEF Read, Reads, locals
  <2>3. QED
    BY <1>8, <2>1, <2>2 DEF Read, Goto, Halt
<1>9. CASE AddVM
  BY <1>1, <1>2, <1>9 DEF AddVM, Goto, locals
<1>10. CASE RequestFails \/ RequestRefused \/ Panic
  BY <1>1, <1>10 DEF RequestFails, RequestRefused, Panic, GiveUp, Tell, Halt, Goto,
     Reads, locals
<1>11. CASE AttachDisk \/ VerifyAttachment \/ ManageNetworkInterfaces \/ GetVM
            \/ StartVM \/ StopVM \/ AddTemplate \/ Export
  BY <1>1, <1>11 DEF AttachDisk, VerifyAttachment, ManageNetworkInterfaces, GetVM,
     StartVM, StopVM, AddTemplate, Export, Goto, Reads, locals
<1>12. CASE KeyPair \/ CleanupTempKeys \/ Communicate \/ CheckStopped \/ CheckDown
  BY <1>1, <1>12 DEF KeyPair, CleanupTempKeys, Communicate, CheckStopped, CheckDown,
     Goto, Continue, Halt, Reads, locals
<1>13. CASE ListNics \/ RemoveNic
  BY <1>1, <1>13 DEF ListNics, RemoveNic, Goto, Continue
<1>14. CASE WaitForState
  BY <1>1, <1>14 DEF WaitForState, Reached, GiveUp, Tell, Halt, Goto, Continue,
     Reads, locals
<1>15. CASE Cleanup \/ RemoveVM \/ Finish \/ Destroy
  BY <1>1, <1>15 DEF Cleanup, RemoveVM, Finish, Destroy, Goto, Reads, locals
<1>16. CASE Run
  <2>1. step = 1 /\ polls = 0
    BY <1>16 DEF Run, Course, Polling
  <2>2. QED
    BY <1>16, <2>1 DEF Run, Polling, locals
<1>17. CASE Interrupt \/ Mark \/ Terminated
  BY <1>3, <1>17 DEF Interrupt, Mark, Terminated, vars, locals, engine
<1>18. CASE (EngineStep \/ GuestShutdown) /\ UNCHANGED build
  BY <1>3, <1>18, EngineMoves DEF build, locals, TypeOK
<1>19. QED
  BY <1>18, <1>4, <1>5, <1>6, <1>7, <1>8, <1>9, <1>10, <1>11, <1>12, <1>13, <1>14, <1>15,
     <1>16, <1>17 DEF Next, Program, Mishap

-----------------------------------------------------------------------------
(* What a step may do to the engine. *)

LEMMA EngineChanges ==
  ASSUME Next
  PROVE  \/ UNCHANGED engine
         \/ CarriedOut(pc)
         \/ pc = "copy" /\ UNCHANGED <<vm, nics, boot, template, taken, ova>>
         \/ EngineStep \/ GuestShutdown
<1>1. CASE AddVM \/ AttachDisk \/ StartVM \/ StopVM \/ AddTemplate \/ Export \/ RemoveVM
  BY <1>1 DEF AddVM, AttachDisk, StartVM, StopVM, AddTemplate, Export, RemoveVM,
     CarriedOut
<1>2. CASE ManageNetworkInterfaces \/ RemoveNic \/ CopyDisk
  BY <1>2 DEF ManageNetworkInterfaces, RemoveNic, CopyDisk, CarriedOut
<1>3. CASE RequestFails \/ Panic
  BY <1>3 DEF RequestFails, Panic
<1>4. CASE Run \/ Enter \/ Leave \/ Interrupt \/ Mark \/ Destroy \/ Terminated \/ Finish
  BY <1>4 DEF Run, Enter, Leave, Interrupt, Mark, Destroy, Terminated, Finish, Reads,
     vars
<1>5. CASE \/ KeyPair \/ Read \/ PollClone \/ VerifyAttachment \/ GetVM \/ Communicate
           \/ CleanupTempKeys \/ CheckStopped \/ ListNics \/ CheckDown \/ Cleanup
           \/ WaitForState \/ RequestRefused
  BY <1>5 DEF KeyPair, Read, PollClone, VerifyAttachment, GetVM, Communicate,
     CleanupTempKeys, CheckStopped, ListNics, CheckDown, Cleanup, WaitForState,
     RequestRefused, Reads
<1>6. QED
  BY <1>1, <1>2, <1>3, <1>4, <1>5 DEF Next, Program, Mishap

\* Only the request of createVM makes a VM known to the engine.
LEMMA OnlyCreateVM ==
  ASSUME TypeOK, EngineInv, Next, Known'
  PROVE  Known \/ pc = "createVM"
<1>1. CASE UNCHANGED vm
  BY <1>1 DEF Known
<1>2. CASE CarriedOut(pc)
  BY <1>2 DEF CarriedOut, Known, DisksCopy, AttachmentsAdd, NicsAdd, VmStart, VmStop,
     NicRemove, TemplatesAdd, TemplateExport, VmRemove, Running
<1>3. CASE EngineStep \/ GuestShutdown
  BY <1>3, EngineMoves DEF TypeOK
<1>4. QED
  BY <1>1, <1>2, <1>3, EngineChanges DEF engine

LEMMA Kept ==
  ASSUME TypeOK, EngineInv, Polling, Next
  PROVE  /\ boot' # boot => \/ boot' # "none"
                            \/ vm' = "removed"
                            \/ pc = "createVM" /\ vm' = "image_locked"
         /\ nics' # nics => \/ pc \in {"createVM", "manageNetworkInterfaces", "removeNic"}
                            \/ nics' = {}
         /\ taken' # taken => pc = "addTemplate" /\ template = "absent"
         /\ vm' \in Running => vm \in Running \/ (pc = "start" /\ vm = "down")
         /\ vm = "removed" => vm' = "removed"
         /\ vm = "down" => vm' = "down" \/ pc \in {"start", "addTemplate", "cleanupRemove"}
         /\ template = "ok" \/ ova = "running" => template' = "ok" \/ ova' = "running"
         /\ ova # "none" => ova' # "none"
<1>1. CASE UNCHANGED engine
  BY <1>1 DEF engine
<1>2. CASE CarriedOut(pc)
  <2>1. CASE AttachmentsAdd(clonedDiskID) /\ pc = "attachDiskToVM"
    BY <2>1, ClonesAssumption DEF AttachmentsAdd, Polling
  <2>2. CASE VmsAdd(config.source) /\ pc = "createVM"
    BY <2>2 DEF VmsAdd, Running
  <2>3. CASE (\E c, d \in Clones : DisksCopy(c, d)) \/ VmStop
    BY <2>3 DEF DisksCopy, VmStop
  <2>4. CASE NicsAdd /\ pc = "manageNetworkInterfaces"
    BY <2>4 DEF NicsAdd
  <2>5. CASE VmStart /\ pc = "start"
    BY <2>5 DEF VmStart
  <2>6. CASE (\E n \in listed : NicRemove(n)) /\ pc = "removeNic"
    BY <2>6 DEF NicRemove
  <2>7. CASE TemplatesAdd /\ pc = "addTemplate"
    BY <2>7 DEF TemplatesAdd, Running, EngineInv
  <2>8. CASE TemplateExport
    BY <2>8 DEF TemplateExport
  <2>9. CASE VmRemove /\ pc = "cleanupRemove"
    BY <2>9 DEF VmRemove, Running
  <2>10. QED
    BY <1>2, <2>1, <2>2, <2>3, <2>4, <2>5, <2>6, <2>7, <2>8, <2>9 DEF CarriedOut
<1>3. CASE pc = "copy" /\ UNCHANGED <<vm, nics, boot, template, taken, ova>>
  BY <1>3
<1>4. CASE EngineStep \/ GuestShutdown
  BY <1>4, EngineMoves DEF TypeOK
<1>5. QED
  BY <1>1, <1>2, <1>3, <1>4, EngineChanges

-----------------------------------------------------------------------------
(* The state bag. *)

LEMMA NextBag ==
  ASSUME TypeOK, EngineInv, Course, Bag, Next
  PROVE  Bag'
<1> USE DEF Succeeded
<1> DEFINE Recorded == ~vm_id /\ Known => error \/ panicked \/ pc \in CreatePoints
<1>0. /\ step \in 1 .. 10
      /\ Known' => Known \/ pc = "createVM"
      /\ "createVM" \in CreatePoints
  BY StepFacts, OnlyCreateVM DEF TypeOK, BuildTypeOK, CreatePoints
<1>1. ASSUME UNCHANGED <<step, pc, action, bag, panicked>>,
             cancelled' => ctx', ctx => ctx', Known' => Known
      PROVE  Bag'
  BY <1>1 DEF Bag, bag
\* A step halts.
<1>2. ASSUME Halt, UNCHANGED rest PROVE Bag'
  BY <1>0, <1>2 DEF Bag, Halt, rest, CreatePoints
\* Cleanup goes on or gives up.
<1>3. ASSUME pc \in EndPoints, pc' \in EndPoints \cup {"returned"},
             UNCHANGED <<step, action, bag, ctx, cancelled>>, panicked => panicked'
      PROVE  Bag'
  BY <1>0, <1>3 DEF Bag, bag, EndPoints, CleanupPoints, CreatePoints
\* A step goes on, or continues with the next one.
<1>4. ASSUME pc \notin {"enter", "leave"}, pc' \in CreatePoints <=> pc \in CreatePoints,
             pc' \notin {"enter", "leave"}, UNCHANGED <<step, bag, rest>>
      PROVE  Bag'
  BY <1>0, <1>4 DEF Bag, bag, rest
<1>5. ASSUME pc \notin CreatePoints, pc' = "leave", action' = "continue", step \notin {2, 9},
             UNCHANGED <<step, bag, rest>>
      PROVE  Bag'
  BY <1>0, <1>5 DEF Bag, bag, rest, CreatePoints
<1>6. CASE Run
  BY <1>0, <1>6 DEF Run, Bag, bag, Course, CreatePoints, engine
<1>7. CASE Enter
  <2>1. CASE Goto("cleanup") /\ ctx /\ cancelled'
    BY <1>0, <1>7, <2>1 DEF Enter, Goto, Bag, bag, CreatePoints
  <2>2. CASE Continue /\ step \in {8, 10} /\ cancelled' = cancelled
    BY <1>0, <1>7, <2>2 DEF Enter, Continue, Bag, bag, CreatePoints
  <2>3. CASE Goto(FirstPoint[step]) /\ cancelled' = cancelled
    <3>1. pc' \in CreatePoints <=> step = 2
      BY <1>0, <2>3, FirstFacts DEF Goto, CreatePoints
    <3>2. pc' \notin {"enter", "leave"}
      BY <1>0, <2>3, FirstFacts DEF Goto
    <3>3. QED
      BY <1>0, <1>7, <2>3, <3>1, <3>2 DEF Enter, Goto, Bag, bag, CreatePoints
  <2>4. QED
    BY <1>0, <1>7, <2>1, <2>2, <2>3, StepFacts DEF Enter, Skipped
<1>8. CASE Leave
  <2>1. CASE Goto("cleanup")
    BY <1>0, <1>8, <2>1 DEF Leave, Goto, Reads, Answered, Bag, bag, rest, CreatePoints
  <2>2. CASE pc' = "enter" /\ step' = step + 1 /\ UNCHANGED <<action, bag, told>>
    <3>1. action = "continue" /\ pc = "leave"
      BY <1>8, <2>2 DEF Leave, Goto, Bag
    <3>2. (step' >= 3 => step >= 3 \/ step = 2) /\ (step' = 10 => step = 9)
          /\ (step' = 2 => step = 1) /\ step' # 1
      BY <1>0, <2>2
    <3>3. UNCHANGED <<rest, vm>>
      BY <1>8 DEF Leave, Reads, Answered, engine
    <3>4. QED
      BY <1>0, <2>2, <3>1, <3>2, <3>3 DEF Bag, bag, rest, CreatePoints
  <2>3. QED
    BY <1>8, <2>1, <2>2 DEF Leave
<1>9. CASE Interrupt \/ Mark \/ Terminated \/ UNCHANGED build
  <2>1. CASE Interrupt \/ Mark
    BY <1>1, <2>1 DEF Interrupt, Mark, Known, engine, Bag, bag
  <2>2. CASE Terminated
    BY <1>1, <2>2 DEF Terminated, vars, rest, bag, Known, engine, Bag
  <2>3. CASE UNCHANGED build
    BY <1>0, <2>3 DEF build, bag, rest, Bag
  <2>4. QED
    BY <1>9, <2>1, <2>2, <2>3
<1>10. CASE KeyPair \/ CleanupTempKeys \/ Communicate
  BY <1>0, <1>10 DEF KeyPair, CleanupTempKeys, Communicate, Continue, Answered, Bag, bag,
     rest, Course, CreatePoints
<1>11. CASE Read
  <2>1. CASE Goto(AfterRead[pc])
    BY <1>4, <1>11, <2>1, ReadFacts DEF Read, Goto, Answered, CreatePoints
  <2>2. CASE Halt
    BY <1>2, <1>11, <2>2 DEF Read, Answered
  <2>3. QED
    BY <1>11, <2>1, <2>2 DEF Read
<1>12. CASE AddVM \/ CopyDisk \/ AttachDisk \/ VerifyAttachment \/ ManageNetworkInterfaces
  BY <1>4, <1>12 DEF AddVM, CopyDisk, AttachDisk, VerifyAttachment,
     ManageNetworkInterfaces, Goto, Answered, Fault, CreatePoints
<1>13. CASE PollClone
  BY <1>2, <1>4, <1>13 DEF PollClone, Goto, Answered, CreatePoints
<1>14. CASE GetVM
  BY <1>0, <1>14 DEF GetVM, Answered, Bag, rest, Course, CreatePoints
<1>15. CASE StartVM \/ StopVM \/ AddTemplate \/ Export
  BY <1>4, <1>15 DEF StartVM, StopVM, AddTemplate, Export, Goto, Answered, CreatePoints
<1>16. CASE CheckStopped \/ CheckDown
  <2>1. pc \in {"getStatus", "checkDown"} /\ (pc = "getStatus" => step = 7)
    BY <1>16 DEF CheckStopped, CheckDown, Course, StopPoints
  <2>2. QED
    BY <1>0, <1>2, <1>4, <1>5, <1>16, <2>1 DEF CheckStopped, CheckDown, Goto, Continue,
       Answered, CreatePoints
<1>17. CASE ListNics \/ RemoveNic
  <2>1. pc \in {"listNics", "removeNic"} /\ step = 8
    BY <1>17 DEF ListNics, RemoveNic, Course, NicPoints
  <2>2. QED
    BY <1>0, <1>4, <1>5, <1>17, <2>1 DEF ListNics, RemoveNic, Goto, Continue, Answered,
       CreatePoints
<1>18. CASE WaitForState
  <2>1. CASE GiveUp
    <3>1. CASE pc \in CleanupPoints
      BY <1>3, <1>18, <2>1, <3>1 DEF GiveUp, Tell, WaitForState, Answered, rest, EndPoints
    <3>2. CASE pc \notin CleanupPoints
      BY <1>2, <1>18, <2>1, <3>2 DEF GiveUp, WaitForState, Answered
    <3>3. QED
      BY <3>1, <3>2
  <2>2. CASE Reached
    <3>1. CASE pc = "waitForVMReady"
      BY <1>4, <1>18, <2>2, <3>1 DEF Reached, Goto, WaitForState, Answered, CreatePoints
    <3>2. CASE pc \in {"waitUp", "waitDown", "waitExport"}
      <4>1. step \in {3, 7, 10}
        BY <3>2 DEF Course, RunPoints, StopPoints, ExportPoints
      <4>2. QED
        BY <1>5, <1>18, <2>2, <3>2, <4>1 DEF Reached, Continue, WaitForState, Answered,
           CreatePoints
    <3>3. CASE pc = "waitTemplate"
      <4>1. step = 9
        BY <3>3 DEF Course, TemplatePoints
      <4>2. QED
        BY <1>0, <1>18, <2>2, <3>3, <4>1 DEF Reached, WaitForState, Answered, Bag, rest,
           CreatePoints
    <3>4. CASE pc = "cleanupWait"
      BY <1>3, <1>18, <2>2, <3>4 DEF Reached, Goto, WaitForState, Answered, rest,
         EndPoints, CleanupPoints
    <3>5. QED
      BY <2>2, <3>1, <3>2, <3>3, <3>4 DEF Reached
  <2>3. QED
    BY <1>18, <2>1, <2>2 DEF WaitForState
<1>19. CASE RequestFails \/ RequestRefused
  <2>1. CASE pc \in CleanupPoints
    BY <1>3, <1>19, <2>1 DEF RequestFails, RequestRefused, GiveUp, Tell, Fault, Answered,
       rest, EndPoints
  <2>2. CASE pc \notin CleanupPoints
    BY <1>2, <1>19, <2>2 DEF RequestFails, RequestRefused, GiveUp, Fault, Answered
  <2>3. QED
    BY <2>1, <2>2
<1>20. CASE Panic
  BY <1>0, <1>20 DEF Panic, Goto, Bag, bag, CleanupPoints, CreatePoints
<1>21. CASE Cleanup \/ RemoveVM \/ Finish
  BY <1>3, <1>21 DEF Cleanup, RemoveVM, Finish, Goto, Answered, rest, EndPoints,
     CleanupPoints
<1>22. CASE Destroy
  BY <1>4, <1>22 DEF Destroy, Goto, Answered, CreatePoints
<1>23. QED
  BY <1>6, <1>7, <1>8, <1>9, <1>10, <1>11, <1>12, <1>13, <1>14, <1>15, <1>16, <1>17,
     <1>18, <1>19, <1>20, <1>21, <1>22 DEF Next, Program, Mishap

-----------------------------------------------------------------------------
(* The boot disk. *)

LEMMA NextBooting ==
  ASSUME TypeOK, EngineInv, Course, Polling, Bag, Booting, Next
  PROVE  Booting'
<1> DEFINE WithDisk == {"verify", "findNetwork", "manageNetworkInterfaces",
                        "waitForVMReady", "getVM"}
<1>1. /\ pc = "createVM" => ~vm_id
      /\ pc = "start" => vm_id
      /\ pc \in WithDisk => pc # "createVM"
  BY DEF Bag, Course, CreatePoints, RunPoints
<1>2. vm' \in Running => boot' # "none"
  BY Kept, <1>1 DEF Booting, Running
<1>3. ASSUME vm_id' => vm_id, pc' \notin WithDisk
      PROVE  Booting'
  BY <1>1, <1>2, <1>3, Kept DEF Booting
<1>4. ASSUME vm_id' => vm_id, pc \in WithDisk, boot' = boot
      PROVE  Booting'
  BY <1>1, <1>2, <1>4, Kept DEF Booting
<1>5. CASE AddVM
  <2>1. ~vm_id' /\ (pc' \in WithDisk => boot' # "none")
    <3>1. config.source \in {"template", "disk"}
      BY ConfigsAssumption DEF TypeOK, BuildTypeOK, ConfigType
    <3>2. QED
      BY <1>1, <1>5, <3>1 DEF AddVM, Goto, VmsAdd, bag
  <2>2. QED
    BY <1>2, <2>1 DEF Booting
<1>6. CASE AttachDisk
  <2>1. boot' # "none"
    BY <1>6, ClonesAssumption DEF AttachDisk, AttachmentsAdd, Polling
  <2>2. QED
    BY <1>2, <2>1 DEF Booting
<1>7. CASE GetVM
  BY <1>2, <1>7 DEF GetVM, Reads, engine, Booting
<1>8. CASE VerifyAttachment \/ ManageNetworkInterfaces
  BY <1>4, <1>8 DEF VerifyAttachment, ManageNetworkInterfaces, Goto, Reads, engine, bag,
     NicsAdd
<1>9. CASE Read
  <2>1. CASE pc = "findNetwork"
    BY <1>4, <1>9, <2>1 DEF Read, Goto, Halt, Reads, engine, bag
  <2>2. CASE pc # "findNetwork"
    <3>1. AfterRead[pc] \notin WithDisk
      BY <1>9, <2>2, ReadFacts DEF Read
    <3>2. QED
      BY <1>3, <1>9, <3>1 DEF Read, Goto, Halt, bag
  <2>3. QED
    BY <2>1, <2>2
<1>10. CASE WaitForState
  <2>1. CASE pc = "waitForVMReady"
    BY <1>4, <1>10, <2>1 DEF WaitForState, Reached, Goto, GiveUp, Halt, Tell, Reads,
       engine, bag
  <2>2. CASE pc # "waitForVMReady"
    BY <1>3, <1>10, <2>2 DEF WaitForState, Reached, Goto, Continue, GiveUp, Halt, Tell,
       Reads, engine, bag
  <2>3. QED
    BY <2>1, <2>2
<1>11. CASE Enter
  <2>1. FirstPoint[step] \notin WithDisk
    BY FirstFacts, StepFacts DEF TypeOK, BuildTypeOK
  <2>2. QED
    BY <1>3, <1>11, <2>1 DEF Enter, Goto, Continue, bag
<1>12. CASE Run \/ Leave \/ Finish \/ Destroy \/ Cleanup \/ RemoveVM
  BY <1>3, <1>12 DEF Run, Leave, Finish, Destroy, Cleanup, RemoveVM, Goto, bag
<1>13. CASE \/ KeyPair \/ CopyDisk \/ PollClone \/ StartVM \/ Communicate
            \/ CleanupTempKeys
  BY <1>3, <1>13 DEF KeyPair, CopyDisk, PollClone, StartVM, Communicate,
     CleanupTempKeys, Goto, Continue, Halt, bag
<1>14. CASE \/ CheckStopped \/ StopVM \/ ListNics \/ RemoveNic \/ CheckDown
            \/ AddTemplate \/ Export
  BY <1>3, <1>14 DEF CheckStopped, StopVM, ListNics, RemoveNic, CheckDown, AddTemplate,
     Export, Goto, Continue, Halt, bag
<1>15. CASE RequestFails \/ RequestRefused \/ Panic
  BY <1>3, <1>15 DEF RequestFails, RequestRefused, Panic, GiveUp, Tell, Halt, Goto, bag
<1>16. CASE Interrupt \/ Mark \/ Terminated
  BY <1>16 DEF Interrupt, Mark, Terminated, vars, engine, bag, Booting, Running
<1>17. CASE (EngineStep \/ GuestShutdown) /\ UNCHANGED build
  <2>1. boot' = boot /\ UNCHANGED <<pc, vm_id>>
    BY <1>17, EngineMoves DEF TypeOK, build, bag
  <2>2. QED
    BY <1>3, <1>4, <2>1
<1>18. QED
  BY <1>5, <1>6, <1>7, <1>8, <1>9, <1>10, <1>11, <1>12, <1>13, <1>14, <1>15, <1>16,
     <1>17 DEF Next, Program, Mishap

-----------------------------------------------------------------------------
(* What the template is made of. *)

LEMMA NextTaking ==
  ASSUME TypeOK, EngineInv, Course, Polling, Bag, Booting, Taking, Next
  PROVE  Taking'
<1> DEFINE Before == {"templatesService", "addTemplate"}
           Special == Before \cup {"removeNic", "waitTemplate"}
<1> USE DEF Succeeded
<1>1. /\ step \in 1 .. 10
      /\ pc \in {"createVM", "manageNetworkInterfaces"} => step = 2
      /\ pc = "removeNic" => step = 8
      /\ pc \in Before \cup {"checkDown", "waitTemplate"} => step = 9
      /\ config' = config
  <2>1. config' = config
    BY DEF Next, Program, Mishap, Run, Enter, Leave, KeyPair, Read, AddVM, CopyDisk,
       PollClone, AttachDisk, VerifyAttachment, ManageNetworkInterfaces, GetVM, StartVM,
       Communicate, CleanupTempKeys, CheckStopped, StopVM, ListNics, RemoveNic,
       CheckDown, AddTemplate, Export, Cleanup, RemoveVM, WaitForState, RequestRefused,
       Finish, RequestFails, Panic, Interrupt, Mark, Destroy, Terminated, vars, build,
       Answered, Fault, rest
  <2>2. QED
    BY <2>1, StepFacts DEF TypeOK, BuildTypeOK, Course, CreatePoints, NicPoints,
       TemplatePoints
\* No interface comes back, and a finished template stays what it is.
<1>2. /\ config.cleanupInterfaces /\ step >= 9 => nics' = {}
      /\ TakenWell /\ template # "absent" => TakenWell'
      /\ template_id => TakenWell' /\ (template' = "ok" \/ ova' = "running")
  BY <1>1, Kept DEF Taking, TakenWell, EngineInv
<1>3. ASSUME pc' \notin Special, step' = step, template_id' = template_id,
             pc' = "leave" => action' = "halt" \/ step # 8
      PROVE  Taking'
  BY <1>1, <1>2, <1>3 DEF Taking
<1>4. CASE Leave
  <2>1. CASE Goto("cleanup")
    BY <1>3, <1>4, <2>1 DEF Leave, Goto, bag
  <2>2. CASE pc' = "enter" /\ step' = step + 1
    <3>1. UNCHANGED <<engine, template_id>> /\ action = "continue" /\ pc = "leave"
      BY <1>4, <2>2 DEF Leave, Reads, bag, Goto, Bag
    <3>2. step' >= 9 => step >= 9 \/ step = 8
      BY <1>1, <2>2
    <3>3. QED
      BY <1>1, <1>2, <2>2, <3>1, <3>2 DEF Taking, engine
  <2>3. QED
    BY <1>4, <2>1, <2>2 DEF Leave
<1>5. CASE Enter
  <2>1. CASE Goto("cleanup")
    BY <1>3, <2>1 DEF Goto, bag
  <2>2. CASE Continue /\ Skipped
    <3>1. step = 8 => ~config.cleanupInterfaces
      BY <1>1, <2>2, StepFacts DEF Skipped, Steps
    <3>2. QED
      BY <1>1, <1>2, <2>2, <3>1 DEF Continue, bag, Taking
  <2>3. CASE Goto(FirstPoint[step])
    BY <1>1, <1>3, <2>3, FirstFacts DEF Goto, bag
  <2>4. QED
    BY <1>5, <2>1, <2>2, <2>3 DEF Enter
<1>6. CASE ListNics
  <2>1. UNCHANGED <<engine, template_id, step>> /\ listed' = nics /\ step = 8
    BY <1>6 DEF ListNics, Continue, Goto, bag, Course, NicPoints
  <2>2. pc' \notin Special \ {"removeNic"} /\ (pc' = "leave" => nics' = {})
    BY <1>6, <2>1 DEF ListNics, Continue, Goto, engine
  <2>3. QED
    BY <1>1, <1>2, <2>1, <2>2 DEF Taking, engine
<1>7. CASE RemoveNic
  <2>1. listed' = nics' /\ UNCHANGED <<template_id, step>> /\ step = 8
    BY <1>1, <1>7 DEF RemoveNic, NicRemove, Continue, Goto, bag, Taking
  <2>2. pc' \notin Special \ {"removeNic"} /\ (pc' = "leave" => nics' = {})
    BY <1>7, <2>1 DEF RemoveNic, Continue, Goto
  <2>3. QED
    BY <1>1, <1>2, <2>1, <2>2 DEF Taking
<1>8. CASE CheckDown
  BY <1>1, <1>2, <1>8 DEF CheckDown, Goto, Halt, bag, Reads, engine, Taking
<1>9. CASE Read
  <2>1. CASE pc = "templatesService"
    BY <1>1, <1>2, <1>9, <2>1, ReadFacts DEF Read, Searches, Goto, Reads, engine, bag, Taking
  <2>2. CASE pc # "templatesService"
    <3>1. AfterRead[pc] \notin Special \cup {"leave"}
      BY <1>9, <2>2, ReadFacts DEF Read
    <3>2. QED
      BY <1>3, <1>9, <3>1 DEF Read, Goto, Halt, bag
  <2>3. QED
    BY <2>1, <2>2
<1>10. CASE AddTemplate
  <2>1. step = 9 /\ vm = "down" /\ boot # "none"
        /\ (config.cleanupInterfaces => nics = {})
    BY <1>1, <1>10 DEF AddTemplate, Taking, Bag, Booting
  <2>2. TakenWell'
    BY <1>1, <1>10, <2>1 DEF AddTemplate, TemplatesAdd, TakenWell
  <2>3. QED
    BY <1>1, <1>2, <1>10, <2>2 DEF AddTemplate, Goto, bag, Taking
<1>11. CASE WaitForState
  <2>1. CASE pc = "waitTemplate" /\ Reached
    <3>1. template = "ok"
      BY <1>11, <2>1, WaitFacts DEF WaitForState, Seen, Status, TemplateWaits, Verdict,
         Waits, Reached, GiveUp, Goto, Continue, Halt, CleanupPoints
    <3>2. TakenWell' /\ UNCHANGED <<engine, step>> /\ step = 9 /\ pc' = "leave"
      BY <1>1, <1>2, <1>11, <2>1, <3>1 DEF WaitForState, Reached, Reads, Goto, Continue,
         bag, Taking
    <3>3. QED
      BY <1>1, <1>2, <3>1, <3>2 DEF Taking, engine
  <2>2. CASE pc # "waitTemplate" /\ Reached
    <3>1. pc' = "leave" => step # 8
      BY <2>2 DEF Reached, Goto, Continue, Course, RunPoints, StopPoints, ExportPoints
    <3>2. QED
      BY <1>3, <2>2, <3>1 DEF Reached, Goto, Continue, bag
  <2>3. CASE GiveUp
    BY <1>3, <2>3 DEF GiveUp, Tell, Halt, bag
  <2>4. QED
    BY <1>11, <2>1, <2>2, <2>3 DEF WaitForState
<1>12. CASE RequestFails \/ RequestRefused \/ Panic
  BY <1>3, <1>12 DEF RequestFails, RequestRefused, Panic, GiveUp, Tell, Halt, Goto, bag
<1>13. CASE KeyPair \/ CleanupTempKeys \/ Communicate
  <2>1. step # 8
    BY <1>13 DEF KeyPair, CleanupTempKeys, Communicate, Course
  <2>2. QED
    BY <1>3, <1>13, <2>1 DEF KeyPair, CleanupTempKeys, Communicate, Continue, bag
<1>14. CASE GetVM \/ CheckStopped
  <2>1. step # 8
    BY <1>14 DEF GetVM, CheckStopped, Course, CreatePoints, StopPoints
  <2>2. QED
    BY <1>3, <1>14, <2>1 DEF GetVM, CheckStopped, Continue, Goto, bag
<1>15. CASE \/ AddVM \/ CopyDisk \/ PollClone \/ AttachDisk \/ VerifyAttachment
            \/ ManageNetworkInterfaces \/ StartVM \/ StopVM \/ Export
  BY <1>3, <1>15 DEF AddVM, CopyDisk, PollClone, AttachDisk, VerifyAttachment,
     ManageNetworkInterfaces, StartVM, StopVM, Export, Goto, Halt, bag
<1>16. CASE Run \/ Cleanup \/ RemoveVM \/ Finish \/ Destroy
  BY <1>3, <1>16 DEF Run, Cleanup, RemoveVM, Finish, Destroy, Goto, bag
<1>17. CASE Interrupt \/ Mark \/ Terminated
  BY <1>17 DEF Interrupt, Mark, Terminated, vars, engine, locals, rest, bag, Taking,
     TakenWell
<1>18. CASE (EngineStep \/ GuestShutdown) /\ UNCHANGED build
  <2>1. UNCHANGED <<pc, step, action, template_id, listed, nics, boot, taken>>
    BY <1>18, EngineMoves DEF TypeOK, build, bag, locals
  <2>2. vm = "down" => vm' = "down"
    BY <1>18, EngineMoves DEF TypeOK
  <2>3. QED
    BY <1>1, <1>2, <2>1, <2>2 DEF Taking, TakenWell
<1>19. QED
  BY <1>4, <1>5, <1>6, <1>7, <1>8, <1>9, <1>10, <1>11, <1>12, <1>13, <1>14, <1>15,
     <1>16, <1>17, <1>18 DEF Next, Program, Mishap

-----------------------------------------------------------------------------
(* The export. *)

LEMMA NextExporting ==
  ASSUME TypeOK, EngineInv, Course, Polling, Bag, Exporting, Next
  PROVE  Exporting'
<1> USE DEF Succeeded, EndPoints, CleanupPoints
<1>1. /\ step \in 1 .. 10
      /\ ova # "none" => ova' # "none"
      /\ pc \in {"run", "enter", "leave", "finish"} => pc \notin CleanupPoints
  BY StepFacts, Kept DEF TypeOK, BuildTypeOK
\* A step that is not the last one goes on, or a step halts.
<1>2. ASSUME pc' \notin EndPoints \cup {"waitExport"},
             pc' = "leave" => action' = "halt" \/ step' # 10
      PROVE  Exporting'
  BY <1>2 DEF Exporting
<1>3. ASSUME pc' # "waitExport", pc' # "leave", config' = config,
             panicked' \/ (UNCHANGED <<template_id, error, panicked>> /\ (ctx => ctx')),
             panicked' \/ pc \in EndPoints
      PROVE  Exporting'
  BY <1>1, <1>3 DEF Exporting
<1>4. CASE Leave
  <2>1. CASE Goto("cleanup")
    <3>1. cancelled \/ action = "halt" \/ step = 10
      BY <1>4, <2>1, StepFacts DEF Leave, Goto
    <3>2. UNCHANGED <<rest, bag>> /\ pc = "leave" /\ pc' = "cleanup"
      BY <1>4, <2>1 DEF Leave, Goto, Answered
    <3>3. QED
      BY <1>1, <3>1, <3>2 DEF Exporting, Bag, bag, rest
  <2>2. CASE pc' = "enter"
    BY <1>2, <2>2
  <2>3. QED
    BY <1>4, <2>1, <2>2 DEF Leave
<1>5. CASE Enter
  <2>1. CASE Goto("cleanup") /\ ctx /\ ctx' = ctx
    BY <2>1 DEF Goto, Exporting
  <2>2. CASE Continue /\ Skipped /\ config' = config
    <3>1. step = 10 => ~config.export
      BY <1>1, <2>2, StepFacts DEF Skipped, Steps
    <3>2. QED
      BY <2>2, <3>1 DEF Continue, Exporting
  <2>3. CASE Goto(FirstPoint[step])
    BY <1>1, <1>2, <2>3, FirstFacts DEF Goto
  <2>4. QED
    BY <1>5, <2>1, <2>2, <2>3 DEF Enter
<1>6. CASE Export
  BY <1>6 DEF Export, TemplateExport, Goto, Exporting
<1>7. CASE WaitForState
  <2>1. CASE pc = "waitExport" /\ Reached
    BY <1>1, <1>7, <2>1 DEF WaitForState, Reached, Goto, Continue, Answered, rest,
       Exporting
  <2>2. CASE pc = "cleanupWait" /\ Reached
    BY <1>3, <1>7, <2>2 DEF WaitForState, Reached, Goto, Continue, Answered, rest, bag
  <2>3. CASE pc \notin {"waitExport", "cleanupWait"} /\ Reached
    <3>1. pc' = "leave" => step # 10
      BY <2>3 DEF Reached, Goto, Continue, Course, RunPoints, StopPoints, TemplatePoints
    <3>2. QED
      BY <1>2, <2>3, <3>1 DEF Reached, Goto, Continue, bag
  <2>4. CASE GiveUp
    BY <1>2, <1>3, <1>7, <2>4 DEF WaitForState, GiveUp, Tell, Halt, Answered, rest, bag
  <2>5. QED
    BY <1>7, <2>1, <2>2, <2>3, <2>4 DEF WaitForState
<1>8. CASE RequestFails \/ RequestRefused
  BY <1>2, <1>3, <1>8 DEF RequestFails, RequestRefused, GiveUp, Tell, Halt, Fault,
     Answered, rest, bag
<1>9. CASE Panic
  BY <1>3, <1>9 DEF Panic, Goto
<1>10. CASE Cleanup \/ RemoveVM
  BY <1>3, <1>10 DEF Cleanup, RemoveVM, Goto, Answered, rest, bag
<1>11. CASE StopVM
  BY <1>2, <1>3, <1>11 DEF StopVM, Goto, Answered, rest, bag
<1>12. CASE Read
  <2>1. AfterRead[pc] \notin EndPoints \cup {"waitExport", "leave"}
    BY <1>12, ReadFacts DEF Read
  <2>2. QED
    BY <1>2, <1>12, <2>1 DEF Read, Goto, Halt
<1>13. CASE Run \/ Finish \/ Destroy
  BY <1>2, <1>13 DEF Run, Finish, Destroy, Goto
<1>14. CASE KeyPair \/ CleanupTempKeys \/ Communicate \/ GetVM
  <2>1. step' = step /\ step # 10
    BY <1>14 DEF KeyPair, CleanupTempKeys, Communicate, GetVM, Continue, Course,
       CreatePoints
  <2>2. QED
    BY <1>2, <1>14, <2>1 DEF KeyPair, CleanupTempKeys, Communicate, GetVM, Continue
<1>15. CASE CheckStopped \/ CheckDown \/ ListNics \/ RemoveNic
  <2>1. step' = step /\ step # 10
    BY <1>15 DEF CheckStopped, CheckDown, ListNics, RemoveNic, Continue, Goto, Halt,
       Course, StopPoints, TemplatePoints, NicPoints
  <2>2. QED
    BY <1>2, <1>15, <2>1 DEF CheckStopped, CheckDown, ListNics, RemoveNic, Continue,
       Goto, Halt
<1>16. CASE \/ AddVM \/ CopyDisk \/ PollClone \/ AttachDisk \/ VerifyAttachment
            \/ ManageNetworkInterfaces \/ StartVM \/ AddTemplate
  BY <1>2, <1>16 DEF AddVM, CopyDisk, PollClone, AttachDisk, VerifyAttachment,
     ManageNetworkInterfaces, StartVM, AddTemplate, Goto, Halt
<1>17. CASE Interrupt \/ Mark \/ Terminated \/ UNCHANGED build
  BY <1>1, <1>17 DEF Interrupt, Mark, Terminated, vars, build, bag, rest, Exporting
<1>18. QED
  BY <1>4, <1>5, <1>6, <1>7, <1>8, <1>9, <1>10, <1>11, <1>12, <1>13, <1>14, <1>15,
     <1>16, <1>17 DEF Next, Program, Mishap

-----------------------------------------------------------------------------
(* The end of the build. *)

LEMMA NextEnding ==
  ASSUME TypeOK, EngineInv, Course, Polling, Bag, Exporting, Ending, Next
  PROVE  Ending'
<1> USE DEF EndPoints, CleanupPoints, Returned
<1>1. /\ step \in 1 .. 10
      /\ ova # "none" => ova' # "none"
      /\ pc # "createVM" => (Known' => Known)
  BY StepFacts, Kept, OnlyCreateVM DEF TypeOK, BuildTypeOK
\* The build has not returned yet: no result.
<1>2. ~Returned => result \notin {"artifact", "nil"}
  BY DEF Ending
<1>3. ASSUME ~Returned, pc' \notin EndPoints \cup {"returned", "destroyed"},
             result' = result
      PROVE  Ending'
  BY <1>2, <1>3 DEF Ending, LeftoverAnnounced
\* Cleanup begins.
<1>4. ASSUME ~Returned, pc' = "cleanup", result' = result,
             template_id' \/ error' \/ panicked' \/ ctx'
      PROVE  Ending'
  BY <1>2, <1>4 DEF Ending, LeftoverAnnounced
\* Cleanup goes on.
<1>5. ASSUME pc \in CleanupPoints, pc' \in {"cleanupStop", "cleanupWait"}, vm_id,
             UNCHANGED <<result, bag, panicked, ctx>>
      PROVE  Ending'
  BY <1>2, <1>5 DEF Ending, LeftoverAnnounced, bag
\* Cleanup ends with a message.
<1>6. ASSUME pc \in CleanupPoints, vm_id, Tell, UNCHANGED rest
      PROVE  Ending'
  BY <1>2, <1>6 DEF Tell, Ending, LeftoverAnnounced, bag, rest
<1>7. CASE Leave
  <2>1. CASE Goto("cleanup")
    <3>1. cancelled \/ action = "halt" \/ step = 10
      BY <1>7, <2>1, StepFacts DEF Leave, Goto
    <3>2. UNCHANGED <<rest, bag>> /\ pc = "leave" /\ pc' = "cleanup"
      BY <1>7, <2>1 DEF Leave, Goto, Answered
    <3>3. QED
      BY <1>4, <3>1, <3>2 DEF Bag, bag, rest
  <2>2. CASE pc' = "enter"
    BY <1>3, <1>7, <2>2 DEF Leave, Answered, rest
  <2>3. QED
    BY <1>7, <2>1, <2>2 DEF Leave
<1>8. CASE Enter
  <2>1. CASE Goto("cleanup") /\ ctx
    BY <1>4, <1>8, <2>1 DEF Enter, Goto
  <2>2. CASE Continue
    BY <1>3, <1>8, <2>2 DEF Enter, Continue
  <2>3. CASE Goto(FirstPoint[step])
    BY <1>1, <1>3, <1>8, <2>3, FirstFacts DEF Enter, Goto
  <2>4. QED
    BY <1>8, <2>1, <2>2, <2>3 DEF Enter
<1>9. CASE Panic
  <2>1. CASE pc \in CleanupPoints
    BY <1>2, <1>9, <2>1 DEF Panic, Goto, Ending, LeftoverAnnounced, bag
  <2>2. CASE pc \notin CleanupPoints
    <3>1. pc \notin {"returned", "destroyed"}
      BY <1>9, WaitFacts DEF Panic, MustPoints, Searches
    <3>2. QED
      BY <1>4, <1>9, <2>2, <3>1 DEF Panic, Goto
  <2>3. QED
    BY <2>1, <2>2
<1>10. CASE RequestFails \/ RequestRefused
  <2>1. CASE pc \in CleanupPoints
    <3>1. vm_id
      BY <1>10, <2>1 DEF RequestFails, RequestRefused, Refused, Ending
    <3>2. QED
      BY <1>6, <1>10, <2>1, <3>1 DEF RequestFails, RequestRefused, GiveUp, Fault, Answered
  <2>2. CASE pc \notin CleanupPoints
    <3>1. pc \notin {"returned", "destroyed"}
      BY <1>10, WaitFacts, ReadFacts DEF RequestFails, RequestRefused, Refused, FailPoints
    <3>2. QED
      BY <1>3, <1>10, <2>2, <3>1 DEF RequestFails, RequestRefused, GiveUp, Halt, Fault,
         Answered, rest
  <2>3. QED
    BY <2>1, <2>2
<1>11. CASE Cleanup
  <2>1. pc = "cleanup" /\ UNCHANGED <<engine, rest, bag, told>>
    BY <1>11 DEF Cleanup, Goto, Reads, Answered
  <2>2. CASE pc' = "finish"
    <3>1. ~vm_id \/ (vm = "down" /\ ~config.cleanupVM)
      BY <1>11, <2>2 DEF Cleanup, Goto
    <3>2. config.cleanupVM /\ Known => ~vm_id /\ (error \/ panicked)
      BY <2>1, <3>1 DEF Bag, CreatePoints
    <3>3. QED
      BY <1>2, <2>1, <2>2, <3>2 DEF Ending, LeftoverAnnounced, bag, rest, engine, Known
  <2>3. CASE pc' = "cleanupRemove"
    <3>1. vm = "down" /\ config.cleanupVM /\ vm_id
      BY <1>11, <2>3 DEF Cleanup, Goto
    <3>2. QED
      BY <1>2, <2>1, <2>3, <3>1 DEF Ending, LeftoverAnnounced, bag, rest, engine
  <2>4. CASE pc' = "cleanupStop"
    <3>1. vm_id
      BY <1>11, <2>4 DEF Cleanup, Goto
    <3>2. QED
      BY <1>5, <2>1, <2>4, <3>1 DEF rest
  <2>5. QED
    BY <1>11, <2>2, <2>3, <2>4 DEF Cleanup, Goto
<1>12. CASE RemoveVM
  <2>1. pc = "cleanupRemove" /\ pc' = "finish" /\ vm' = "removed" /\ UNCHANGED <<rest, bag>>
    BY <1>12 DEF RemoveVM, VmRemove, Goto, Answered
  <2>2. QED
    BY <1>2, <2>1 DEF Ending, LeftoverAnnounced, Known, rest, bag
<1>13. CASE StopVM
  <2>1. CASE pc = "stop"
    BY <1>3, <1>13, <2>1 DEF StopVM, Goto, Answered, rest
  <2>2. CASE pc = "cleanupStop"
    <3>1. vm_id
      BY <2>2 DEF Ending
    <3>2. QED
      BY <1>5, <1>13, <2>2, <3>1 DEF StopVM, Goto, Answered, rest
  <2>3. QED
    BY <1>13, <2>1, <2>2 DEF StopVM
<1>14. CASE WaitForState
  <2>1. CASE /\ pc = "cleanupWait" /\ Reached
             /\ \E s \in Seen(pc) : Verdict(s, Waits[pc], cancelled) = "reached"
    <3>1. vm = "down"
      BY <2>1, WaitFacts DEF Seen, Status, TemplateWaits
    <3>2. UNCHANGED <<engine, rest, bag, told>>
      BY <1>14, <2>1 DEF WaitForState, Reached, Goto, Reads, Answered
    <3>3. pc' = (IF config.cleanupVM THEN "cleanupRemove" ELSE "finish")
      BY <2>1 DEF Reached, Goto
    <3>4. QED
      BY <1>2, <2>1, <3>1, <3>2, <3>3 DEF Ending, LeftoverAnnounced, engine, rest, bag
  <2>2. CASE pc # "cleanupWait" /\ Reached
    BY <1>3, <1>14, <2>2 DEF WaitForState, Reached, Goto, Continue, Answered, rest
  <2>3. CASE GiveUp
    <3>1. pc \in DOMAIN Waits /\ (pc \in CleanupPoints => vm_id)
      BY <1>14, WaitFacts DEF WaitForState, Ending
    <3>2. QED
      BY <1>3, <1>6, <1>14, <2>3, <3>1, WaitFacts DEF WaitForState, GiveUp, Halt, Answered,
         rest
  <2>4. QED
    BY <1>14, <2>1, <2>2, <2>3 DEF WaitForState
<1>15. CASE Finish
  <2>1. pc = "finish" /\ pc' = "returned" /\ UNCHANGED <<engine, bag, told, config, ctx>>
        /\ UNCHANGED <<panicked, cleanupPanicked>>
    BY <1>15 DEF Finish, Goto
  <2>2. /\ result' = "nil" => panicked \/ (~error /\ ~template_id)
        /\ result' = "artifact" => ~panicked /\ ~error /\ template_id
        /\ error /\ ~panicked => result' = "error"
    BY <1>15 DEF Finish
  <2>3. QED
    BY <2>1, <2>2 DEF Ending, Exporting, LeftoverAnnounced, Known, engine, bag
<1>16. CASE Destroy
  BY <1>16 DEF Destroy, Goto, Reads, Answered, rest, engine, bag, Ending,
     LeftoverAnnounced, Known
<1>17. CASE Run
  <2>1. ~vm_id
    BY <1>17 DEF Run, Course, Bag
  <2>2. QED
    BY <1>2, <1>17, <2>1 DEF Run, engine, bag, Ending, LeftoverAnnounced
<1>18. CASE Read
  <2>1. AfterRead[pc] \notin EndPoints \cup {"returned", "destroyed"}
        /\ pc \notin {"returned", "destroyed"}
    BY <1>18, ReadFacts DEF Read
  <2>2. QED
    BY <1>3, <1>18, <2>1 DEF Read, Goto, Halt, Answered, rest
<1>19. CASE \/ KeyPair \/ AddVM \/ CopyDisk \/ PollClone \/ AttachDisk
            \/ VerifyAttachment \/ ManageNetworkInterfaces \/ GetVM
  BY <1>3, <1>19 DEF KeyPair, AddVM, CopyDisk, PollClone, AttachDisk, VerifyAttachment,
     ManageNetworkInterfaces, GetVM, Goto, Continue, Halt, Answered, Fault, rest
<1>20. CASE \/ StartVM \/ Communicate \/ CleanupTempKeys \/ CheckStopped \/ ListNics
            \/ RemoveNic \/ CheckDown \/ AddTemplate \/ Export
  BY <1>3, <1>20 DEF StartVM, Communicate, CleanupTempKeys, CheckStopped, ListNics,
     RemoveNic, CheckDown, AddTemplate, Export, Goto, Continue, Halt, Answered, rest
<1>21. CASE Interrupt \/ Mark \/ Terminated
  BY <1>21 DEF Interrupt, Mark, Terminated, vars, engine, rest, bag, Ending,
     LeftoverAnnounced, Known
<1>22. CASE (EngineStep \/ GuestShutdown) /\ UNCHANGED build
  <2>1. (vm = "down" => vm' = "down") /\ Known' = Known
    BY <1>22, EngineMoves DEF TypeOK
  <2>2. QED
    BY <1>1, <1>22, <2>1 DEF build, rest, bag, Ending, LeftoverAnnounced
<1>23. QED
  BY <1>7, <1>8, <1>9, <1>10, <1>11, <1>12, <1>13, <1>14, <1>15, <1>16, <1>17, <1>18,
     <1>19, <1>20, <1>21, <1>22 DEF Next, Program, Mishap

LEMMA NextPanics ==
  ASSUME Panics, Next
  PROVE  Panics'
<1>1. CASE Panic
  BY <1>1 DEF Panic, Panics
<1>2. CASE Run \/ Enter \/ Interrupt \/ Mark \/ Terminated \/ Finish \/ UNCHANGED build
  BY <1>2 DEF Run, Enter, Interrupt, Mark, Terminated, Finish, vars, build, rest, Panics
<1>3. CASE UNCHANGED rest
  BY <1>3 DEF rest, Panics
<1>4. QED
  BY <1>1, <1>2, <1>3 DEF Next, Program, Mishap, Leave, KeyPair, Read, AddVM, CopyDisk,
     PollClone, AttachDisk, VerifyAttachment, ManageNetworkInterfaces, GetVM, StartVM,
     Communicate, CleanupTempKeys, CheckStopped, StopVM, ListNics, RemoveNic, CheckDown,
     AddTemplate, Export, Cleanup, RemoveVM, WaitForState, RequestRefused, RequestFails,
     Destroy, Answered, Fault

-----------------------------------------------------------------------------
(* The invariant, and the properties that follow from it. *)

LEMMA NextInv == IInv /\ [Next]_vars => IInv'
<1> SUFFICES ASSUME IInv, [Next]_vars PROVE IInv'
  OBVIOUS
<1> USE DEF IInv
<1>1. CASE Next
  <2>1. EngineTypeOK' /\ EngineInv' /\ BuildTypeOK'
    BY <1>1, NextEngineType, NextBuildType
  <2>2. Course' /\ Polling' /\ Bag'
    BY <1>1, NextCourse, NextPolling, NextBag
  <2>3. Booting' /\ Taking' /\ Exporting' /\ Ending' /\ Panics'
    BY <1>1, NextBooting, NextTaking, NextExporting, NextEnding, NextPanics
  <2>4. QED
    BY <2>1, <2>2, <2>3 DEF TypeOK
<1>2. CASE UNCHANGED vars
  <2> USE <1>2 DEF vars, engine, bag, locals, rest
  <2>1. TypeOK'
    BY DEF TypeOK, EngineTypeOK, BuildTypeOK
  <2>2. EngineInv' /\ Course' /\ Polling'
    BY DEF EngineInv, Course, Polling
  <2>3. Bag' /\ Booting'
    BY DEF Bag, Booting, Succeeded, Known
  <2>4. Taking' /\ Exporting'
    BY DEF Taking, TakenWell, Exporting, Succeeded
  <2>5. Ending' /\ Panics'
    BY DEF Ending, Panics, LeftoverAnnounced, Known, Returned
  <2>6. QED
    BY <2>1, <2>2, <2>3, <2>4, <2>5
<1>3. QED
  BY <1>1, <1>2

\* IInv holds in every reachable state.
THEOREM Invariance == Spec => []IInv
  BY InitInv, NextInv, PTL DEF Spec

\* Every variable has its type; the clone is polled at most ClonePolls times.
THEOREM TypeCorrect == Spec => []TypeOK
<1>1. IInv => TypeOK
  BY DEF IInv
<1>2. QED
  BY <1>1, Invariance, PTL

\* An artifact is a finished template of a stopped VM that had its boot disk
\* and, if so configured, no interfaces; its export was accepted.
THEOREM SoundArtifact == Spec => []ArtifactSound
<1>1. IInv => ArtifactSound
  <2> SUFFICES ASSUME IInv, result = "artifact" PROVE ArtifactSound
    BY DEF ArtifactSound
  <2>1. template_id /\ (config.export => ova # "none" \/ ctx)
    BY DEF IInv, Ending
  <2>2. TakenWell
    BY <2>1 DEF IInv, Taking
  <2>3. template = "ok" \/ ova = "running"
    BY <2>1 DEF IInv, Taking
  <2>4. QED
    BY <2>1, <2>2, <2>3 DEF ArtifactSound, TakenWell
<1>2. QED
  BY <1>1, Invariance, PTL

\* A build that returns neither an artifact nor an error was interrupted or
\* panicked.
THEOREM NoSilentFailure == Spec => []FailureReported
<1>1. IInv => FailureReported
  BY DEF IInv, Ending, FailureReported
<1>2. QED
  BY <1>1, Invariance, PTL

\* A VM that cleanup_vm should have deleted is left only with a message of Cleanup or
\* a panic of it if Cleanup knows the VM, and with an error or a panic if it does not.
THEOREM NoSilentLeftover == Spec => []LeftoverAnnounced
<1>1. IInv => LeftoverAnnounced
  BY DEF IInv, Ending
<1>2. QED
  BY <1>1, Invariance, PTL

\* A running VM has a complete boot disk, also after a doubled Copy.
THEOREM CompleteBootDisk == Spec => []BootDiskReady
<1>1. IInv => BootDiskReady
  BY DEF IInv, TypeOK, EngineTypeOK, EngineInv, Booting, BootDiskReady
<1>2. QED
  BY <1>1, Invariance, PTL

\* Remove is sent only for a stopped VM, and only if the user asked for it.
THEOREM SafeRemoval == Spec => []RemoveOnlyStopped
<1>1. IInv => RemoveOnlyStopped
  BY DEF IInv, Ending, RemoveOnlyStopped
<1>2. QED
  BY <1>1, Invariance, PTL
==============================================================================
