-------------------------------- MODULE Build --------------------------------
(***************************************************************************)
(* builder/olvm/builder.go and its steps: one build, from Builder.Run to   *)
(* its artifact, run by the SDK's BasicRunner against an engine that may   *)
(* lose answers, be slow, or fail what it accepted, while the user may     *)
(* interrupt the build at any moment.                                      *)
(*                                                                         *)
(* pc names the request the build makes next.  A request stands for one    *)
(* call of ExecuteWithReconnect and has the outcomes RetriedCall allows:   *)
(* answered, or failed with or without its effect.                         *)
(***************************************************************************)
EXTENDS BuildConfig, Engine, StateChange, Sequences

CONSTANTS
  Configs,       \* the configurations to build, as in BuildConfig
  ClonePolls,    \* how often cloneDisk looks for its clone, 30 in the code
  MaxFaults      \* bound: failed requests in a behaviour

ASSUME ConfigsAssumption == Configs \subseteq ConfigType
ASSUME ClonePollsAssumption == ClonePolls \in Nat \ {0}
ASSUME MaxFaultsAssumption == MaxFaults \in Nat

VARIABLES
  config,          \* the Config Prepare returned
  step,            \* index in Steps of the step being run
  pc,              \* program point
  action,          \* the StepAction the step returned
  vm_id,           \* state bag: "vm_id" is set
  template_id,     \* state bag: "template_id" is set
  error,           \* state bag: "error" is set
  cancelled,       \* state bag: StateCancelled is set
  ctx,             \* the context of Run is cancelled
  polls,           \* turns of cloneDisk's loop
  clonedDiskID,    \* what cloneDisk returned, or "none"
  listed,          \* stepCleanupInterfaces: interfaces listed and not removed
  panicked,        \* the panic Run recovers from
  cleanupPanicked, \* it, or a second one, came from Cleanup itself
  told,            \* Cleanup gave up, with a message to the user only
  result,          \* what Run returned: an artifact, an error, or neither
  faults           \* failed requests so far

bag == <<vm_id, template_id, error>>
locals == <<polls, clonedDiskID, listed>>
rest == <<config, panicked, cleanupPanicked, result, ctx, cancelled>>
vars == <<engine, step, pc, action, bag, locals, rest, told, faults>>

Steps == <<"keyPair", "createVM", "setupInitialRun", "connect", "provision",
           "cleanupTempKeys", "stopVM", "cleanupInterfaces",
           "createTemplate", "exportOVA">>

\* The first program point of every step.
FirstPoint ==
  <<"keyPair", "getClusterID", "vmService", "connect", "provision",
    "cleanupTempKeys", "getStatus", "nicsService", "checkDown", "exportService">>

\* Requests that read, closures that only capture a service object, and the
\* update of the cloud-init data, which is not modelled: the program point each
\* leads to.
AfterRead ==
  [getClusterID          |-> "getSourceResourceInfo",
   getSourceResourceInfo |-> "createVM",
   getSourceDisk         |-> "copy",
   findNetwork           |-> "manageNetworkInterfaces",
   vmService             |-> "update",
   update                |-> "start",
   nicsService           |-> "listNics",
   templatesService      |-> "addTemplate",
   exportService         |-> "getTemplate",
   getTemplate           |-> "hostsService",
   hostsService          |-> "findHost",
   findHost              |-> "export"]

\* The reads that look for something the configuration names.
Searches == {"getClusterID", "getSourceResourceInfo", "findNetwork", "findHost"}

CleanupPoints == {"cleanup", "cleanupStop", "cleanupWait", "cleanupRemove"}

\* The points a request or a local operation may fail at.
FailPoints ==
  {"keyPair", "createVM", "copy", "clonePoll", "attachDiskToVM",
   "manageNetworkInterfaces", "getVM", "start", "connect", "provision",
   "getStatus", "stop", "listNics", "removeNic", "checkDown", "addTemplate",
   "export"} \cup DOMAIN AfterRead \cup DOMAIN Waits \cup CleanupPoints

\* The points where Must methods read a response.
MustPoints ==
  {"createVM", "clonePoll", "verify", "manageNetworkInterfaces", "getVM",
   "getStatus", "listNics", "removeNic", "checkDown", "addTemplate", "cleanup",
   "getSourceDisk", "getTemplate"} \cup Searches \cup DOMAIN Waits

Points == {"run", "enter", "leave", "cleanupTempKeys", "verify", "finish",
           "returned", "destroyed"} \cup FailPoints

Init ==
  /\ EngineInit
  /\ config \in Configs
  /\ step = 1 /\ pc = "run" /\ action = "none"
  /\ vm_id = FALSE /\ template_id = FALSE /\ error = FALSE
  /\ cancelled = FALSE /\ ctx = FALSE
  /\ polls = 0 /\ clonedDiskID = "none" /\ listed = {}
  /\ panicked = FALSE /\ cleanupPanicked = FALSE
  /\ told = FALSE /\ result = "none" /\ faults = 0

-----------------------------------------------------------------------------
(* What a program point may lead to. *)

Goto(p) == pc' = p /\ UNCHANGED <<step, action, bag, told>>

Continue ==
  pc' = "leave" /\ action' = "continue" /\ UNCHANGED <<step, bag, told>>

\* Mutant: the error is not put into the state bag.
HaltSilently ==
  /\ pc' = "leave" /\ action' = "halt"
  /\ UNCHANGED <<step, vm_id, template_id, error, told>>

\* state.Put("error", err); return multistep.ActionHalt
Halt ==
  /\ pc' = "leave" /\ action' = "halt" /\ error' = TRUE
  /\ UNCHANGED <<step, vm_id, template_id, told>>

\* Cleanup can only tell the user: ui.Error; return
Tell == pc' = "finish" /\ told' = TRUE /\ UNCHANGED <<step, action, bag>>

GiveUp == IF pc \in CleanupPoints THEN Tell ELSE Halt

Answered == UNCHANGED <<rest, faults>>
Fault == faults < MaxFaults /\ faults' = faults + 1 /\ UNCHANGED rest
Reads == UNCHANGED <<engine, locals>>

-----------------------------------------------------------------------------
(* multistep.BasicRunner, and the goroutine in it that marks a cancelled   *)
(* context in the state bag as long as the runner runs, cleanups included. *)

\* NewConnectionWrapper and GetConnection, before there are any steps.
Run ==
  /\ pc = "run"
  /\ \/ pc' = "enter" /\ UNCHANGED <<result, faults>>
     \/ /\ faults < MaxFaults /\ faults' = faults + 1
        /\ pc' = "returned" /\ result' = "error"
  /\ UNCHANGED <<engine, step, action, bag, locals, config, panicked,
                 cleanupPanicked, ctx, cancelled, told>>

\* cleanupInterfaces and exportOVA return at once when they are not asked for.
Skipped ==
  \/ Steps[step] = "cleanupInterfaces" /\ ~config.cleanupInterfaces
  \/ Steps[step] = "exportOVA" /\ ~config.export

Enter ==
  /\ pc = "enter"
  /\ \/ ctx /\ cancelled' = TRUE /\ Goto("cleanup")
     \/ ~ctx /\ Skipped /\ Continue /\ UNCHANGED cancelled
     \/ ~ctx /\ ~Skipped /\ Goto(FirstPoint[step]) /\ UNCHANGED cancelled
  /\ UNCHANGED <<engine, locals, config, panicked, cleanupPanicked, result, ctx,
                 faults>>

\* The deferred Cleanup of stepCreateVM is the only one that does anything;
\* it returns at once when the step never got a vm_id.
Leave ==
  /\ pc = "leave"
  /\ IF cancelled \/ action = "halt" \/ step = Len(Steps)
       THEN Goto("cleanup")
       ELSE pc' = "enter" /\ step' = step + 1 /\ UNCHANGED <<action, bag, told>>
  /\ Reads /\ Answered

Interrupt ==
  /\ "cancel" \in Environment
  /\ ~ctx /\ pc \notin {"run", "returned", "destroyed"}
  /\ ctx' = TRUE
  /\ UNCHANGED <<engine, step, pc, action, bag, locals, config, panicked,
                 cleanupPanicked, result, cancelled, told, faults>>

Mark ==
  /\ ctx /\ ~cancelled /\ pc \notin {"finish", "returned", "destroyed"}
  /\ cancelled' = TRUE
  /\ UNCHANGED <<engine, step, pc, action, bag, locals, config, panicked,
                 cleanupPanicked, result, ctx, told, faults>>

-----------------------------------------------------------------------------
(* The steps. *)

KeyPair == pc = "keyPair" /\ Continue /\ Reads /\ Answered

\* What is searched for may not be there.
Read ==
  /\ pc \in DOMAIN AfterRead
  /\ \/ Goto(AfterRead[pc])
     \/ "missing" \in Environment /\ pc \in Searches /\ Halt
  /\ Reads /\ Answered

\* Mutant: a disk is cloned for a VM of a template, too.
AddVMAndClone ==
  /\ pc = "createVM"
  /\ VmsAdd(config.source)
  /\ Goto("getSourceDisk")
  /\ UNCHANGED locals /\ Answered

AddVM ==
  /\ pc = "createVM"
  /\ VmsAdd(config.source)
  /\ Goto(IF config.source = "disk" THEN "getSourceDisk" ELSE "findNetwork")
  /\ UNCHANGED locals /\ Answered

CopyDisk ==
  /\ pc = "copy"
  /\ \E c, d \in Clones : DisksCopy(c, d) /\ IF c = d THEN Answered ELSE Fault
  /\ Goto("clonePoll")
  /\ UNCHANGED locals

\* Mutants: the status of the disk is not looked at; one turn too many.
PollCloneUnready ==
  /\ pc = "clonePoll"
  /\ LET Listed == {d \in Clones : disks[d] # "absent"} IN
     \/ \E first \in Listed :
          /\ clonedDiskID' = first
          /\ Goto("attachDiskToVM")
          /\ UNCHANGED polls
     \/ /\ Listed = {}
        /\ polls' = polls + 1
        /\ IF polls' < ClonePolls THEN Goto("clonePoll") ELSE Halt
        /\ UNCHANGED clonedDiskID
  /\ UNCHANGED <<engine, listed>> /\ Answered

PollCloneOnceMore ==
  /\ pc = "clonePoll"
  /\ LET Listed == {d \in Clones : disks[d] # "absent"} IN
     \/ \E first \in Listed :
          /\ disks[first] = "ok"
          /\ clonedDiskID' = first
          /\ Goto("attachDiskToVM")
          /\ UNCHANGED polls
     \/ /\ Listed = {} \/ \E first \in Listed : disks[first] # "ok"
        /\ polls' = polls + 1
        /\ IF polls' <= ClonePolls THEN Goto("clonePoll") ELSE Halt
        /\ UNCHANGED clonedDiskID
  /\ UNCHANGED <<engine, listed>> /\ Answered

\* One turn of the loop over the disks that carry the clone's name: the first
\* one listed counts, and after the last turn the step times out.
PollClone ==
  /\ pc = "clonePoll"
  /\ LET Listed == {d \in Clones : disks[d] # "absent"} IN
     \/ \E first \in Listed :
          /\ disks[first] = "ok"
          /\ clonedDiskID' = first
          /\ Goto("attachDiskToVM")
          /\ UNCHANGED polls
     \/ /\ Listed = {} \/ \E first \in Listed : disks[first] # "ok"
        /\ polls' = polls + 1
        /\ IF polls' < ClonePolls THEN Goto("clonePoll") ELSE Halt
        /\ UNCHANGED clonedDiskID
  /\ UNCHANGED <<engine, listed>> /\ Answered

AttachDisk ==
  /\ pc = "attachDiskToVM"
  /\ AttachmentsAdd(clonedDiskID)
  /\ Goto("verify")
  /\ UNCHANGED locals /\ Answered

\* Whether the attachment is there is only logged.
VerifyAttachment ==
  pc = "verify" /\ Goto("findNetwork") /\ Reads /\ Answered

\* The first inherited interface is reconfigured, or a new one is added.
ManageNetworkInterfaces ==
  /\ pc = "manageNetworkInterfaces"
  /\ \/ config.source = "template" /\ nics # {} /\ UNCHANGED engine
     \/ ~(config.source = "template" /\ nics # {}) /\ NicsAdd
  /\ Goto("waitForVMReady")
  /\ UNCHANGED locals /\ Answered

\* The last request of stepCreateVM, the first one that records the VM.
GetVM ==
  /\ pc = "getVM"
  /\ vm_id' = TRUE
  /\ pc' = "leave" /\ action' = "continue"
  /\ UNCHANGED <<step, template_id, error, told>> /\ Reads /\ Answered

StartVM ==
  pc = "start" /\ VmStart /\ Goto("waitUp") /\ UNCHANGED locals /\ Answered

\* StepConnect and StepProvision of the SDK halt without an error when the
\* context is cancelled.
Communicate ==
  /\ pc \in {"connect", "provision"}
  /\ \/ Continue
     \/ /\ ctx /\ pc' = "leave" /\ action' = "halt"
        /\ UNCHANGED <<step, bag, told>>
  /\ Reads /\ Answered

CleanupTempKeys == pc = "cleanupTempKeys" /\ Continue /\ Reads /\ Answered

CheckStopped ==
  /\ pc = "getStatus"
  /\ IF vm = "down" THEN Continue ELSE Goto("stop")
  /\ Reads /\ Answered

\* Mutant: Cleanup does not wait for the VM to stop.
StopVMUnawaited ==
  /\ pc \in {"stop", "cleanupStop"}
  /\ VmStop
  /\ Goto(IF pc = "stop" THEN "waitDown"
          ELSE IF config.cleanupVM THEN "cleanupRemove" ELSE "finish")
  /\ UNCHANGED locals /\ Answered

StopVM ==
  /\ pc \in {"stop", "cleanupStop"}
  /\ VmStop
  /\ Goto(IF pc = "stop" THEN "waitDown" ELSE "cleanupWait")
  /\ UNCHANGED locals /\ Answered

ListNics ==
  /\ pc = "listNics"
  /\ listed' = nics
  /\ IF nics = {} THEN Continue ELSE Goto("removeNic")
  /\ UNCHANGED <<engine, polls, clonedDiskID>> /\ Answered

\* Mutant: the loop ends after its first interface.
RemoveOneNic ==
  /\ pc = "removeNic"
  /\ \E n \in listed :
       /\ NicRemove(n)
       /\ listed' = listed \ {n}
  /\ Continue
  /\ UNCHANGED <<polls, clonedDiskID>> /\ Answered

RemoveNic ==
  /\ pc = "removeNic"
  /\ \E n \in listed :
       /\ NicRemove(n)
       /\ listed' = listed \ {n}
  /\ IF listed' = {} THEN Continue ELSE Goto("removeNic")
  /\ UNCHANGED <<polls, clonedDiskID>> /\ Answered

\* A VM that is not down is an error here.
CheckDown ==
  /\ pc = "checkDown"
  /\ IF vm = "down" THEN Goto("templatesService") ELSE Halt
  /\ Reads /\ Answered

AddTemplate ==
  /\ pc = "addTemplate" /\ TemplatesAdd
  /\ Goto("waitTemplate") /\ UNCHANGED locals /\ Answered

\* A POST of its own, outside the connection wrapper.
Export ==
  /\ pc = "export" /\ TemplateExport
  /\ Goto("waitExport") /\ UNCHANGED locals /\ Answered

\* Mutants: a running VM is left alone; a stopped one is not deleted.
CleanupIfStopped ==
  /\ pc = "cleanup"
  /\ Goto(IF vm_id /\ vm = "down" /\ config.cleanupVM THEN "cleanupRemove" ELSE "finish")
  /\ Reads /\ Answered

CleanupIfRunning ==
  /\ pc = "cleanup"
  /\ Goto(IF vm_id /\ vm # "down" THEN "cleanupStop" ELSE "finish")
  /\ Reads /\ Answered

\* stepCreateVM.Cleanup
Cleanup ==
  /\ pc = "cleanup"
  /\ Goto(IF ~vm_id THEN "finish"
          ELSE IF vm # "down" THEN "cleanupStop"
          ELSE IF config.cleanupVM THEN "cleanupRemove" ELSE "finish")
  /\ Reads /\ Answered

RemoveVM ==
  /\ pc = "cleanupRemove" /\ VmRemove
  /\ Goto("finish") /\ UNCHANGED locals /\ Answered

-----------------------------------------------------------------------------
(* WaitForState.  A turn that has to go on changes nothing. *)

\* What a refresh function may report.
Status(p) ==
  IF p \in TemplateWaits
    THEN (IF template = "absent" THEN "" ELSE template)
    ELSE (IF vm \in {"absent", "removed"} THEN "" ELSE vm)

Seen(p) ==
  {Status(p)} \cup
    IF "lag" \in Environment /\ Status(p) \in {"image_locked", "locked"}
      THEN {""} ELSE {}

Reached ==
  \/ pc = "waitForVMReady" /\ Goto("getVM")
  \/ pc \in {"waitUp", "waitDown", "waitExport"} /\ Continue
  \/ /\ pc = "waitTemplate"
     /\ template_id' = TRUE
     /\ pc' = "leave" /\ action' = "continue"
     /\ UNCHANGED <<step, vm_id, error, told>>
  \/ /\ pc = "cleanupWait"
     /\ Goto(IF config.cleanupVM THEN "cleanupRemove" ELSE "finish")

\* Mutant: a VM that was not seen to stop is asked to stop once more.
WaitForStateStopsAgain ==
  /\ pc \in DOMAIN Waits
  /\ \E currentState \in Seen(pc) :
       LET verdict == Verdict(currentState, Waits[pc], cancelled) IN
       \/ verdict = "reached" /\ Reached
       \/ /\ verdict \in {"interrupted", "unexpected"}
          /\ IF pc = "waitDown" THEN Goto("stop") ELSE GiveUp
  /\ Reads /\ Answered

WaitForState ==
  /\ pc \in DOMAIN Waits
  /\ \E currentState \in Seen(pc) :
       LET verdict == Verdict(currentState, Waits[pc], cancelled) IN
       \/ verdict = "reached" /\ Reached
       \/ verdict \in {"interrupted", "unexpected"} /\ GiveUp
  /\ Reads /\ Answered

-----------------------------------------------------------------------------
(* Requests that fail. *)

\* The engine carries out the request of program point p.
CarriedOut(p) ==
  \/ p = "createVM" /\ VmsAdd(config.source)
  \/ p = "copy" /\ \E c, d \in Clones : DisksCopy(c, d)
  \/ p = "attachDiskToVM" /\ AttachmentsAdd(clonedDiskID)
  \/ /\ p = "manageNetworkInterfaces" /\ ~(config.source = "template" /\ nics # {})
     /\ NicsAdd
  \/ p = "start" /\ VmStart
  \/ p \in {"stop", "cleanupStop"} /\ VmStop
  \/ p = "removeNic" /\ \E n \in listed : NicRemove(n)
  \/ p = "addTemplate" /\ TemplatesAdd
  \/ p = "export" /\ TemplateExport
  \/ p = "cleanupRemove" /\ VmRemove

\* No answer within the retry budget, or an unexpected one.  Cleanup makes requests
\* for a VM it knows.
RequestFails ==
  /\ pc \in FailPoints /\ (pc = "cleanup" => vm_id)
  /\ Fault
  /\ CarriedOut(pc) \/ UNCHANGED engine
  /\ GiveUp
  /\ UNCHANGED locals

\* The requests whose precondition may have changed since the code last looked
\* at the status, or that it never looked at.
Refused(p) ==
  \/ p \in {"start", "cleanupRemove"} /\ vm # "down"
  \/ p \in {"stop", "cleanupStop"} /\ vm \notin Running
  \/ p = "removeNic" /\ vm \notin {"down", "up"}
  \/ p = "export" /\ template # "ok"

RequestRefused == Refused(pc) /\ GiveUp /\ Reads /\ Answered

\* A response without an attribute: the deferred cleanups of the steps that
\* returned run, then Run recovers.
Panic ==
  /\ "panic" \in Environment
  /\ pc \in MustPoints /\ (pc = "cleanup" => vm_id)
  /\ panicked' = TRUE
  /\ cleanupPanicked' = (cleanupPanicked \/ pc \in CleanupPoints)
  /\ Goto(IF pc \in CleanupPoints THEN "finish" ELSE "cleanup")
  /\ IF pc \in {"createVM", "addTemplate"} THEN CarriedOut(pc) ELSE UNCHANGED engine
  /\ UNCHANGED <<locals, config, result, ctx, cancelled, faults>>

-----------------------------------------------------------------------------
(* The end of Builder.Run. *)

\* Mutant: a template is an artifact, whatever failed after it.
FinishWithTemplate ==
  /\ pc = "finish"
  /\ result' = CASE panicked -> "nil"
                 [] ~panicked /\ template_id -> "artifact"
                 [] ~panicked /\ ~template_id /\ error -> "error"
                 [] OTHER -> "nil"
  /\ Goto("returned")
  /\ UNCHANGED <<engine, locals, config, panicked, cleanupPanicked, ctx, cancelled,
                 faults>>

Finish ==
  /\ pc = "finish"
  /\ result' = CASE panicked -> "nil"
                 [] ~panicked /\ error -> "error"
                 [] ~panicked /\ ~error /\ template_id -> "artifact"
                 [] OTHER -> "nil"
  /\ Goto("returned")
  /\ UNCHANGED <<engine, locals, config, panicked, cleanupPanicked, ctx, cancelled,
                 faults>>

\* Artifact.Destroy logs, and changes nothing.
Destroy ==
  pc = "returned" /\ result = "artifact" /\ Goto("destroyed") /\ Reads /\ Answered

Terminated == pc \in {"returned", "destroyed"} /\ UNCHANGED vars

Program ==
  \/ Run \/ Enter \/ Leave
  \/ KeyPair \/ Read \/ AddVM \/ CopyDisk \/ PollClone \/ AttachDisk
  \/ VerifyAttachment \/ ManageNetworkInterfaces \/ GetVM \/ StartVM
  \/ Communicate \/ CleanupTempKeys \/ CheckStopped \/ StopVM \/ ListNics
  \/ RemoveNic \/ CheckDown \/ AddTemplate \/ Export
  \/ Cleanup \/ RemoveVM \/ WaitForState \/ RequestRefused \/ Finish

Mishap == RequestFails \/ Panic

build == <<step, pc, action, bag, locals, rest, told, faults>>

Next ==
  \/ Program \/ Mishap \/ Interrupt \/ Mark \/ Destroy \/ Terminated
  \/ (EngineStep \/ GuestShutdown) /\ UNCHANGED build

\* The build runs and its goroutine is scheduled; provisioners return.  Nothing
\* relies on a request failing.
Spec == Init /\ [][Next]_vars /\ WF_vars(Program) /\ WF_vars(Mark)

\* The engine ends what it began.
FairEngine == WF_vars(EngineStep /\ UNCHANGED build)

-----------------------------------------------------------------------------
Returned == pc \in {"returned", "destroyed"}
Known == vm \notin {"absent", "removed"}

BuildTypeOK ==
  /\ config \in Configs
  /\ step \in 1 .. Len(Steps) /\ pc \in Points
  /\ action \in {"none", "continue", "halt"}
  /\ vm_id \in BOOLEAN /\ template_id \in BOOLEAN /\ error \in BOOLEAN
  /\ cancelled \in BOOLEAN /\ ctx \in BOOLEAN
  /\ polls \in 0 .. ClonePolls /\ clonedDiskID \in Clones \cup {"none"}
  /\ listed \subseteq SourceNics \cup {NewNic}
  /\ panicked \in BOOLEAN /\ cleanupPanicked \in BOOLEAN /\ told \in BOOLEAN
  /\ result \in {"none", "artifact", "error", "nil"}
  /\ faults \in 0 .. MaxFaults

TypeOK == EngineTypeOK /\ BuildTypeOK

\* An artifact names a finished template, made of a VM that was stopped, had
\* its boot disk and, where the configuration asks for it, no interfaces left;
\* and unless the user interrupted it, the build also had the export accepted.
ArtifactSound ==
  result = "artifact" =>
    /\ template = "ok" \/ ova = "running"
    /\ taken.vm = "down" /\ taken.boot # "none"
    /\ config.cleanupInterfaces => taken.nics = {}
    /\ config.export => ova # "none" \/ ctx

\* Neither an artifact nor an error: only for an interrupted or panicking build.
\* (A failed check of the attachment, step_create_vm.go:433, is no failure of the
\* build: it is only logged.)
FailureReported == result = "nil" => ctx \/ panicked

\* A VM that cleanup_vm should have deleted stays on the engine, if the state bag
\* knows it, only with a message from Cleanup or after a panic of Cleanup itself, and
\* if it does not, only with an error returned or after a panic.  The error of a step
\* never stands in for the message, and a panic of a step does not excuse Cleanup.
LeftoverAnnounced ==
  Returned /\ config.cleanupVM /\ Known =>
    IF vm_id THEN told \/ cleanupPanicked ELSE result = "error" \/ panicked

\* A build with an artifact in which nothing failed and nobody interrupted
\* leaves the engine as configured: the VM gone with its cloned disk, or
\* stopped and complete.
CleanSuccess ==
  result = "artifact" /\ faults = 0 /\ ~ctx =>
    IF config.cleanupVM
      THEN vm = "removed" /\ \A d \in Clones : disks[d] = "absent"
      ELSE vm = "down" /\ boot # "none"

\* The VM runs only from a boot disk that is complete: its own, or the clone
\* cloneDisk waited for, also when Copy was sent twice.
BootDiskReady ==
  vm \in Running => boot = "inherited" \/ (boot \in Clones /\ disks[boot] = "ok")

\* Remove is sent only for a VM that is stopped, whichever way the build got
\* to Cleanup, and only when asked for.
RemoveOnlyStopped == pc = "cleanupRemove" => vm = "down" /\ config.cleanupVM

\* What a request adds or removes without the code having looked is as the engine
\* needs it, whenever it is sent and whatever the engine did in the meantime: nothing
\* is there yet, the parts come before the VM is started, and the template after it
\* stopped.
EngineReady ==
  /\ pc = "createVM" => vm = "absent"
  /\ pc = "copy" => \A d \in Clones : disks[d] = "absent"
  /\ pc \in {"attachDiskToVM", "manageNetworkInterfaces"} => vm \in {"image_locked", "down"}
  /\ pc = "attachDiskToVM" => boot = "none" /\ disks[clonedDiskID] = "ok"
  /\ pc = "manageNetworkInterfaces" => NewNic \notin nics
  /\ pc = "removeNic" => listed # {} /\ listed \subseteq nics
  /\ pc = "addTemplate" => vm = "down" /\ template = "absent"
  /\ pc = "export" => ova = "none"

\* How far a build is from its end: the program points left of its step and of the
\* steps after it, the turns left of the clone's poll, and the interfaces left.
Ahead ==
  [run |-> 21, enter |-> 20, keyPair |-> 8,
   getClusterID |-> 19, getSourceResourceInfo |-> 18, createVM |-> 17,
   getSourceDisk |-> 16, copy |-> 15, clonePoll |-> 14, attachDiskToVM |-> 13,
   verify |-> 12, findNetwork |-> 11, manageNetworkInterfaces |-> 10,
   waitForVMReady |-> 9, getVM |-> 8,
   vmService |-> 11, update |-> 10, start |-> 9, waitUp |-> 8,
   connect |-> 8, provision |-> 8, cleanupTempKeys |-> 8,
   getStatus |-> 10, stop |-> 9, waitDown |-> 8,
   nicsService |-> 10, listNics |-> 9, removeNic |-> 8,
   checkDown |-> 11, templatesService |-> 10, addTemplate |-> 9, waitTemplate |-> 8,
   exportService |-> 13, getTemplate |-> 12, hostsService |-> 11, findHost |-> 10,
   export |-> 9, waitExport |-> 8,
   leave |-> 7, cleanup |-> 6, cleanupStop |-> 5, cleanupWait |-> 4,
   cleanupRemove |-> 3, finish |-> 2, returned |-> 1, destroyed |-> 0]

NicsLeft ==
  IF pc = "removeNic" THEN listed
  ELSE IF step < 8 \/ (step = 8 /\ pc \in {"enter", "nicsService", "listNics"})
    THEN SourceNics \cup {NewNic} ELSE {}

Rank == 14 * (Len(Steps) - step) + Ahead[pc] + (ClonePolls - polls)
Distance == Rank + Cardinality(NicsLeft)

\* Whatever is answered, refused, panics or is interrupted, no step of the program
\* leads back: a build that goes on comes nearer to its end with every step, and all
\* that can hold it is a wait for the engine.
BuildAdvances == [][Distance' \in 0 .. Distance - 1]_<<step, pc, locals>>

\* Every build returns when the engine ends what it accepted.
Terminates == FairEngine => <>Returned

\* An interrupted build returns even if the engine never finishes anything:
\* no wait of any step or cleanup outlasts the interruption.
CancelReturns == ctx ~> Returned

\* The promise of a build, with its steps and requests forgotten.
Machine ==
  CASE vm = "absent" -> "none"
    [] vm = "removed" -> "deleted"
    [] vm \in Running -> "running"
    [] OTHER -> "stopped"

\* While it is exported, a finished template is locked.
Image ==
  CASE template = "absent" -> "none"
    [] template = "ok" \/ ova = "running" -> "finished"
    [] template = "locked" /\ ova # "running" -> "unfinished"
    [] OTHER -> "spoiled"

Package == CASE ova = "none" -> "none" [] ova = "running" -> "begun" [] OTHER -> "ended"

Noticed ==
  {n \in {"interrupted", "panicked", "told"} :
     \/ n = "interrupted" /\ ctx
     \/ n = "panicked" /\ panicked
     \/ n = "told" /\ told}

Promise == INSTANCE BuildPromise WITH
  machine <- Machine, image <- Image, package <- Package, notices <- Noticed,
  outcome <- result

\* Whatever fails, wherever it is interrupted and however the engine behaves, a
\* build takes the steps BuildPromise allows, in its order, and no others.
ImplementsPromise == Promise!Spec

-----------------------------------------------------------------------------
(* What the documentation and the comments say, and the code does not do.  *)

\* "Delete VM if cleanup is enabled": a VM the state bag knows.
KnownVMDeleted ==
  Returned /\ vm_id /\ config.cleanupVM /\ ~panicked => vm = "removed"

\* "disabling VM cleanup/deletion" is what keeps the VM of a build with
\* issues: with it enabled no VM is left, even one with no vm_id yet.
NoOrphanVM ==
  Returned /\ ~vm_id /\ config.cleanupVM /\ ~panicked => ~Known

\* "Poll for export completion (template status returns to 'ok')"
ExportedMeansDone ==
  result = "artifact" /\ config.export /\ ~ctx => ova = "done"
=============================================================================
