------------------------- MODULE BuildPromiseProofs -------------------------
(***************************************************************************)
(* Build implements BuildPromise, for any configurations, any number of    *)
(* clones, polls and failed requests, and any environment.  The invariant  *)
(* of BuildProofs says what a build knows when it returns; Fates adds what *)
(* the engine's objects have been through by then.                         *)
(***************************************************************************)
EXTENDS BuildProofs

\* The template comes late, locks the VM it is made of, and leaves it stopped;
\* the VM is removed at the very end, and nothing is exported unasked.
Fates ==
  /\ template # "absent" => step >= 9 /\ vm \in {"image_locked", "down", "removed"}
  /\ template = "locked" /\ ova # "running" => vm = "image_locked"
  /\ vm = "removed" => pc \in {"finish", "returned", "destroyed"}
  /\ ~Returned => result = "none"
  /\ pc \in ExportPoints => config.export

PInv == IInv /\ Fates

LEMMA FatesInit == Init => Fates
  BY DEF Init, EngineInit, Fates, Returned, ExportPoints

-----------------------------------------------------------------------------
(* What a step leaves alone. *)

LEMMA ConfigKept == Next => config' = config
  BY DEF Next, Program, Mishap, Run, Enter, Leave, KeyPair, Read, AddVM, CopyDisk,
     PollClone, AttachDisk, VerifyAttachment, ManageNetworkInterfaces, GetVM, StartVM,
     Communicate, CleanupTempKeys, CheckStopped, StopVM, ListNics, RemoveNic,
     CheckDown, AddTemplate, Export, Cleanup, RemoveVM, WaitForState, RequestRefused,
     Finish, RequestFails, Panic, Interrupt, Mark, Destroy, Terminated, vars, build,
     Answered, Fault, rest

\* A step runs on or the next one begins.
LEMMA StepGrows ==
  ASSUME TypeOK, Next
  PROVE  step' = step \/ step' = step + 1
<1>1. CASE Run \/ Enter \/ Leave \/ Interrupt \/ Mark \/ Destroy \/ Terminated \/ Finish
  BY <1>1 DEF Run, Enter, Leave, Interrupt, Mark, Destroy, Terminated, Finish, Goto,
     Continue, vars
<1>2. CASE \/ KeyPair \/ Read \/ AddVM \/ CopyDisk \/ PollClone \/ AttachDisk
           \/ VerifyAttachment \/ ManageNetworkInterfaces \/ GetVM \/ StartVM
  BY <1>2 DEF KeyPair, Read, AddVM, CopyDisk, PollClone, AttachDisk, VerifyAttachment,
     ManageNetworkInterfaces, GetVM, StartVM, Goto, Continue, Halt
<1>3. CASE \/ Communicate \/ CleanupTempKeys \/ CheckStopped \/ StopVM \/ ListNics
           \/ RemoveNic \/ CheckDown \/ AddTemplate \/ Export
  BY <1>3 DEF Communicate, CleanupTempKeys, CheckStopped, StopVM, ListNics, RemoveNic,
     CheckDown, AddTemplate, Export, Goto, Continue, Halt
<1>4. CASE WaitForState \/ Cleanup \/ RemoveVM
  BY <1>4 DEF WaitForState, Reached, Cleanup, RemoveVM, GiveUp, Tell, Halt, Goto, Continue
<1>5. CASE RequestFails \/ RequestRefused \/ Panic
  BY <1>5 DEF RequestFails, RequestRefused, Panic, GiveUp, Tell, Halt, Goto
<1>6. CASE UNCHANGED build
  BY <1>6 DEF build
<1> QED
  BY <1>1, <1>2, <1>3, <1>4, <1>5, <1>6 DEF Next, Program, Mishap

\* Only the end of Run, and its first line, set the result.
LEMMA ResultSet ==
  ASSUME Next
  PROVE  result' = result \/ Finish \/ (Run /\ result' = "error")
<1>1. CASE Run \/ Enter \/ Leave \/ Interrupt \/ Mark \/ Destroy \/ Terminated
  BY <1>1 DEF Run, Enter, Leave, Interrupt, Mark, Destroy, Terminated, vars, Answered, rest
<1>2. CASE \/ KeyPair \/ Read \/ AddVM \/ CopyDisk \/ PollClone \/ AttachDisk
           \/ VerifyAttachment \/ ManageNetworkInterfaces \/ GetVM \/ StartVM
           \/ Communicate \/ CleanupTempKeys \/ CheckStopped \/ StopVM \/ ListNics
           \/ RemoveNic \/ CheckDown \/ AddTemplate \/ Export \/ WaitForState
           \/ Cleanup \/ RemoveVM \/ RequestRefused
  BY <1>2 DEF KeyPair, Read, AddVM, CopyDisk, PollClone, AttachDisk, VerifyAttachment,
     ManageNetworkInterfaces, GetVM, StartVM, Communicate, CleanupTempKeys, CheckStopped,
     StopVM, ListNics, RemoveNic, CheckDown, AddTemplate, Export, WaitForState, Cleanup,
     RemoveVM, RequestRefused, Answered, Fault, rest
<1>3. CASE RequestFails \/ Panic
  BY <1>3 DEF RequestFails, Panic, Fault, rest
<1>4. CASE UNCHANGED build
  BY <1>4 DEF build, rest
<1> QED
  BY <1>1, <1>2, <1>3, <1>4 DEF Next, Program, Mishap

\* An interruption, a panic and a message are never taken back.
LEMMA NoticesGrow ==
  ASSUME Next
  PROVE  (ctx => ctx') /\ (panicked => panicked') /\ (told => told')
<1>1. CASE Run \/ Enter \/ Leave \/ Interrupt \/ Mark \/ Destroy \/ Terminated \/ Finish
  BY <1>1 DEF Run, Enter, Leave, Interrupt, Mark, Destroy, Terminated, Finish, Goto,
     Continue, vars, Answered, rest
<1>2. CASE \/ KeyPair \/ Read \/ AddVM \/ CopyDisk \/ PollClone \/ AttachDisk
           \/ VerifyAttachment \/ ManageNetworkInterfaces \/ GetVM \/ StartVM
  BY <1>2 DEF KeyPair, Read, AddVM, CopyDisk, PollClone, AttachDisk, VerifyAttachment,
     ManageNetworkInterfaces, GetVM, StartVM, Goto, Continue, Halt, Answered, Fault, rest
<1>3. CASE \/ Communicate \/ CleanupTempKeys \/ CheckStopped \/ StopVM \/ ListNics
           \/ RemoveNic \/ CheckDown \/ AddTemplate \/ Export
  BY <1>3 DEF Communicate, CleanupTempKeys, CheckStopped, StopVM, ListNics, RemoveNic,
     CheckDown, AddTemplate, Export, Goto, Continue, Halt, Answered, rest
<1>4. CASE WaitForState \/ Cleanup \/ RemoveVM
  BY <1>4 DEF WaitForState, Reached, Cleanup, RemoveVM, GiveUp, Tell, Halt, Goto,
     Continue, Answered, rest
<1>5. CASE RequestFails \/ RequestRefused \/ Panic
  BY <1>5 DEF RequestFails, RequestRefused, Panic, GiveUp, Tell, Halt, Goto, Answered,
     Fault, rest
<1>6. CASE UNCHANGED build
  BY <1>6 DEF build, rest
<1> QED
  BY <1>1, <1>2, <1>3, <1>4, <1>5, <1>6 DEF Next, Program, Mishap

-----------------------------------------------------------------------------
(* Fates. *)

\* A build that has finished stays finished, and one that has returned returned.
LEMMA EndsStay ==
  ASSUME Next
  PROVE  /\ pc \in {"finish", "returned", "destroyed"} =>
              pc' \in {"finish", "returned", "destroyed"}
         /\ Returned => Returned'
<1> SUFFICES ASSUME pc \in {"finish", "returned", "destroyed"}
             PROVE  pc' = pc \/ pc' = "returned" \/ pc' = "destroyed"
  BY DEF Returned
<1>1. CASE Run \/ Enter \/ Leave \/ Interrupt \/ Mark \/ Destroy \/ Terminated \/ Finish
  BY <1>1 DEF Run, Enter, Leave, Interrupt, Mark, Destroy, Terminated, Finish, Goto, vars
<1>2. CASE \/ KeyPair \/ Read \/ AddVM \/ CopyDisk \/ PollClone \/ AttachDisk
           \/ VerifyAttachment \/ ManageNetworkInterfaces \/ GetVM \/ StartVM
           \/ Communicate \/ CleanupTempKeys \/ CheckStopped \/ StopVM \/ ListNics
           \/ RemoveNic \/ CheckDown \/ AddTemplate \/ Export \/ WaitForState
           \/ Cleanup \/ RemoveVM
  BY <1>2, ReadFacts, WaitFacts DEF KeyPair, Read, AddVM, CopyDisk, PollClone, AttachDisk,
     VerifyAttachment, ManageNetworkInterfaces, GetVM, StartVM, Communicate,
     CleanupTempKeys, CheckStopped, StopVM, ListNics, RemoveNic, CheckDown, AddTemplate,
     Export, WaitForState, Cleanup, RemoveVM
<1>3. CASE RequestFails \/ RequestRefused \/ Panic
  BY <1>3, ReadFacts, WaitFacts DEF RequestFails, RequestRefused, Panic, FailPoints,
     MustPoints, Searches, Refused, CleanupPoints
<1>4. CASE UNCHANGED build
  BY <1>4 DEF build
<1> QED
  BY <1>1, <1>2, <1>3, <1>4 DEF Next, Program, Mishap

\* When Remove was carried out, Cleanup is over.
LEMMA RemovalEnds ==
  ASSUME TypeOK, EngineInv, Polling, Next, vm # "removed", vm' = "removed"
  PROVE  pc = "cleanupRemove" /\ pc' = "finish"
<1>1. CarriedOut(pc) /\ VmRemove /\ pc = "cleanupRemove"
  <2>1. vm' # vm /\ ~(EngineStep \/ GuestShutdown)
    BY EngineMoves DEF TypeOK
  <2>2. CarriedOut(pc)
    BY <2>1, EngineChanges DEF engine
  <2> QED
    BY <2>2 DEF CarriedOut, VmsAdd, DisksCopy, AttachmentsAdd, NicsAdd, VmStart, VmStop,
       NicRemove, TemplatesAdd, TemplateExport
<1>2. RemoveVM \/ RequestFails
  <2>1. ~UNCHANGED engine
    BY DEF engine
  <2>2. CASE Run \/ Enter \/ Leave \/ Interrupt \/ Mark \/ Destroy \/ Terminated \/ Finish
    BY <1>1, <2>1, <2>2 DEF Run, Enter, Leave, Interrupt, Mark, Destroy, Terminated,
       Finish, Reads, vars
  <2>3. CASE \/ KeyPair \/ Read \/ AddVM \/ CopyDisk \/ PollClone \/ AttachDisk
             \/ VerifyAttachment \/ ManageNetworkInterfaces \/ GetVM \/ StartVM
             \/ Communicate \/ CleanupTempKeys \/ CheckStopped \/ StopVM \/ ListNics
             \/ RemoveNic \/ CheckDown \/ AddTemplate \/ Export \/ WaitForState
             \/ Cleanup
    BY <1>1, <2>3, ReadFacts, WaitFacts DEF KeyPair, Read, AddVM, CopyDisk, PollClone,
       AttachDisk, VerifyAttachment, ManageNetworkInterfaces, GetVM, StartVM,
       Communicate, CleanupTempKeys, CheckStopped, StopVM, ListNics, RemoveNic,
       CheckDown, AddTemplate, Export, WaitForState, Cleanup
  <2>4. CASE RequestRefused \/ Panic
    BY <1>1, <2>1, <2>4 DEF RequestRefused, Panic, Reads
  <2>5. CASE (EngineStep \/ GuestShutdown) /\ UNCHANGED build
    BY <2>5, EngineMoves DEF TypeOK
  <2> QED
    BY <2>2, <2>3, <2>4, <2>5 DEF Next, Program, Mishap
<1> QED
  BY <1>1, <1>2 DEF RemoveVM, RequestFails, GiveUp, CleanupPoints, Tell, Goto

\* The export's points are entered only when an export was asked for.
LEMMA ExportAsked ==
  ASSUME TypeOK, Course, Next, pc' \in ExportPoints
  PROVE  pc \in ExportPoints \/ config.export
<1>1. CASE Enter
  <2>1. FirstPoint[step] \in ExportPoints /\ ~Skipped
    BY <1>1 DEF Enter, Goto, Continue, ExportPoints
  <2>2. step \in 1 .. 10
    BY StepFacts DEF TypeOK, BuildTypeOK
  <2>3. step = 10
    BY <2>1, <2>2, FirstFacts DEF ExportPoints
  <2> QED
    BY <2>1, <2>3 DEF Skipped, Steps
<1>2. CASE Run \/ Leave \/ Interrupt \/ Mark \/ Destroy \/ Terminated \/ Finish
  BY <1>2 DEF Run, Leave, Interrupt, Mark, Destroy, Terminated, Finish, Goto, vars,
     ExportPoints
<1>3. CASE Read
  BY <1>3, ReadFacts DEF Read, Goto, Halt, ExportPoints
<1>4. CASE \/ KeyPair \/ AddVM \/ CopyDisk \/ PollClone \/ AttachDisk
           \/ VerifyAttachment \/ ManageNetworkInterfaces \/ GetVM \/ StartVM
  BY <1>4 DEF KeyPair, AddVM, CopyDisk, PollClone, AttachDisk, VerifyAttachment,
     ManageNetworkInterfaces, GetVM, StartVM, Goto, Continue, Halt, ExportPoints
<1>5. CASE \/ Communicate \/ CleanupTempKeys \/ CheckStopped \/ StopVM \/ ListNics
           \/ RemoveNic \/ CheckDown \/ AddTemplate \/ Export
  BY <1>5 DEF Communicate, CleanupTempKeys, CheckStopped, StopVM, ListNics, RemoveNic,
     CheckDown, AddTemplate, Export, Goto, Continue, Halt, ExportPoints
<1>6. CASE WaitForState \/ Cleanup \/ RemoveVM
  BY <1>6 DEF WaitForState, Reached, Cleanup, RemoveVM, GiveUp, Tell, Halt, Goto,
     Continue, ExportPoints
<1>7. CASE RequestFails \/ RequestRefused \/ Panic
  BY <1>7 DEF RequestFails, RequestRefused, Panic, GiveUp, Tell, Halt, Goto, ExportPoints
<1>8. CASE UNCHANGED build
  BY <1>8 DEF build
<1> QED
  BY <1>1, <1>2, <1>3, <1>4, <1>5, <1>6, <1>7, <1>8 DEF Next, Program, Mishap

\* What the engine may do to the VM and its template.
LEMMA FatesOfObjects ==
  ASSUME IInv, Fates, Next
  PROVE  /\ template' # "absent" =>
              step' >= 9 /\ vm' \in {"image_locked", "down", "removed"}
         /\ template' = "locked" /\ ova' # "running" => vm' = "image_locked"
<1>1. step >= 9 => step' >= 9
  <2>1. step \in Nat
    BY StepFacts DEF IInv, TypeOK, BuildTypeOK
  <2>2. step' = step \/ step' = step + 1
    BY StepGrows DEF IInv
  <2> QED
    BY <2>1, <2>2
<1>2. CASE UNCHANGED <<vm, template, ova>>
  BY <1>1, <1>2 DEF Fates
<1>3. CASE CarriedOut(pc)
  <2>1. CASE VmsAdd(config.source)
    BY <1>1, <2>1 DEF VmsAdd, Fates
  <2>2. CASE VmStart /\ pc = "start"
    <3>1. step = 3
      BY <2>2 DEF IInv, Course, RunPoints
    <3> QED
      BY <2>2, <3>1 DEF VmStart, Fates
  <2>3. CASE VmRemove
    BY <1>1, <2>3 DEF VmRemove, Fates
  <2>4. CASE TemplatesAdd /\ pc = "addTemplate"
    <3>1. vm = "down" /\ step = 9
      BY <2>4 DEF IInv, Taking, Course, TemplatePoints
    <3> QED
      BY <1>1, <2>4, <3>1 DEF TemplatesAdd
  <2>5. CASE TemplateExport
    BY <1>1, <2>5 DEF TemplateExport, Fates
  <2>6. CASE UNCHANGED <<vm, template, ova>>
    BY <1>2, <2>6
  <2> QED
    BY <1>3, <2>1, <2>2, <2>3, <2>4, <2>5, <2>6 DEF CarriedOut, DisksCopy,
       AttachmentsAdd, NicsAdd, VmStop, NicRemove
<1>4. CASE EngineStep \/ GuestShutdown
  <2>1. CASE VmCreated
    BY <1>1, <2>1 DEF VmCreated, Fates
  <2>2. CASE VmLaunches \/ GuestShutdown
    BY <1>1, <2>2 DEF VmLaunches, GuestShutdown, Fates
  <2>3. CASE VmStops
    <3>1. vm \in Running
      BY <2>3 DEF VmStops, IInv, EngineInv, Running
    <3> QED
      BY <1>1, <2>3, <3>1 DEF VmStops, Fates, Running
  <2>4. CASE TemplateEnds \/ ExportEnds
    BY <1>1, <2>4 DEF TemplateEnds, ExportEnds, Fates, IInv, EngineInv
  <2>5. CASE CopyEnds
    BY <1>2, <2>5 DEF CopyEnds
  <2> QED
    BY <1>4, <2>1, <2>2, <2>3, <2>4, <2>5 DEF EngineStep
<1> QED
  BY <1>2, <1>3, <1>4, EngineChanges DEF engine

LEMMA FatesNext == IInv /\ Fates /\ [Next]_vars => Fates'
<1> SUFFICES ASSUME IInv, Fates, [Next]_vars PROVE Fates'
  OBVIOUS
<1>1. CASE Next
  <2>1. /\ template' # "absent" =>
             step' >= 9 /\ vm' \in {"image_locked", "down", "removed"}
        /\ template' = "locked" /\ ova' # "running" => vm' = "image_locked"
    BY <1>1, FatesOfObjects
  <2>2. vm' = "removed" => pc' \in {"finish", "returned", "destroyed"}
    BY <1>1, RemovalEnds, EndsStay DEF IInv, Fates
  <2>3. ~Returned' => result' = "none"
    <3>1. ASSUME Finish \/ (Run /\ result' = "error") PROVE Returned'
      BY <3>1, <1>1 DEF Finish, Run, Goto, Returned, IInv, Ending, Fates
    <3> QED
      BY <1>1, <3>1, ResultSet, EndsStay DEF Fates
  <2>4. pc' \in ExportPoints => config'.export
    BY <1>1, ConfigKept, ExportAsked DEF IInv, Fates
  <2> QED
    BY <2>1, <2>2, <2>3, <2>4 DEF Fates
<1>2. CASE UNCHANGED vars
  BY <1>2 DEF vars, engine, bag, locals, rest, Fates, Returned
<1> QED
  BY <1>1, <1>2

\* PInv holds in every reachable state.
THEOREM PromiseInvariance == Spec => []PInv
<1>1. Init => PInv
  BY InitInv, FatesInit DEF PInv
<1>2. PInv /\ [Next]_vars => PInv'
  BY NextInv, FatesNext DEF PInv
<1> QED
  BY <1>1, <1>2, PTL DEF Spec

-----------------------------------------------------------------------------
(* The refinement: what a step of the build is to the user. *)

LEMMA PromiseInit == Init => Promise!Init
<1> SUFFICES ASSUME Init PROVE Promise!Init
  OBVIOUS
<1>1. vm = "absent" /\ template = "absent" /\ ova = "none"
  BY DEF Init, EngineInit
<1>2. Machine = "none" /\ Image = "none" /\ Package = "none"
  BY <1>1 DEF Machine, Image, Package, Running
<1>3. Noticed = {} /\ result = "none"
  BY DEF Init, Noticed
<1> QED
  BY <1>2, <1>3 DEF Promise!Init

LEMMA NoticedGrows ==
  ASSUME Next
  PROVE  Noticed \subseteq Noticed' /\ Noticed' \subseteq Promise!Notices
  BY NoticesGrow DEF Noticed, Promise!Notices

\* The step that decides the outcome changes nothing else.
LEMMA PromiseReturn ==
  ASSUME PInv, Finish \/ (Run /\ result' = "error")
  PROVE  Promise!Return
<1>1. UNCHANGED <<Machine, Image, Package>> /\ result = "none"
  <2>1. UNCHANGED engine /\ pc \in {"run", "finish"}
    BY DEF Finish, Run
  <2> QED
    BY <2>1 DEF engine, Machine, Image, Package, PInv, Fates, Returned
<1>2. CASE Run /\ result' = "error"
  BY <1>1, <1>2 DEF Promise!Return
<1>3. CASE Finish
  <2>1. pc = "finish" /\ pc \in EndPoints
    BY <1>3 DEF Finish, EndPoints
  <2>2. result' \in {"artifact", "error", "nil"}
    BY <1>3 DEF Finish
  <2>3. result' = "artifact" => ~panicked /\ ~error /\ template_id
    BY <1>3 DEF Finish
  <2>4. result' = "nil" => panicked \/ (~error /\ ~template_id)
    BY <1>3 DEF Finish
  <2>5. result' = "artifact" =>
          Image = "finished" /\ (config.export => Package # "none" \/ "interrupted" \in Noticed)
    <3> SUFFICES ASSUME result' = "artifact"
                 PROVE  Image = "finished"
                        /\ (config.export => Package # "none" \/ "interrupted" \in Noticed)
      OBVIOUS
    <3>1. template = "ok" \/ ova = "running"
      BY <2>3 DEF PInv, IInv, Taking
    <3>2. Image = "finished"
      BY <3>1 DEF Image, PInv, IInv, EngineInv
    <3>3. config.export => ova # "none" \/ ctx
      BY <2>1, <2>3 DEF PInv, IInv, Exporting
    <3> QED
      BY <3>2, <3>3 DEF Package, Noticed
  <2>6. result' = "nil" => Noticed \cap {"interrupted", "panicked"} # {}
    <3>1. result' = "nil" => panicked \/ ctx
      BY <2>1, <2>4 DEF PInv, IInv, Ending
    <3> QED
      BY <3>1 DEF Noticed
  <2>7. config.cleanupVM /\ Machine \in {"stopped", "running"} =>
          result' = "error" \/ Noticed \cap {"told", "panicked"} # {}
    <3> SUFFICES ASSUME config.cleanupVM, Machine \in {"stopped", "running"},
                        ~told, ~panicked
                 PROVE  result' = "error"
      BY DEF Noticed
    <3>1. Known
      <4>1. vm = "absent" => Machine = "none"
        BY DEF Machine, Running
      <4>2. vm = "removed" => Machine = "deleted"
        BY DEF Machine, Running
      <4> QED
        BY <4>1, <4>2 DEF Known
    <3>2. error
      BY <2>1, <3>1 DEF PInv, IInv, Ending, Panics
    <3> QED
      BY <1>3, <3>2 DEF Finish
  <2> QED
    BY <1>1, <2>2, <2>5, <2>6, <2>7 DEF Promise!Return
<1> QED
  BY <1>2, <1>3

\* What the promise allows, the notices aside.
PromisedStep ==
  \/ Promise!Create \/ Promise!Start \/ Promise!Stop \/ Promise!Capture
  \/ Promise!CaptureEnds \/ Promise!Export \/ Promise!ExportEnds \/ Promise!Delete
  \/ Promise!Return \/ UNCHANGED <<Machine, Image, Package, result>>

\* A request that is carried out.
LEMMA PromiseRequest ==
  ASSUME PInv, Next, CarriedOut(pc), result' = result
  PROVE  PromisedStep
<1> USE DEF PInv
<1>1. result = "none"
  <2>1. pc \notin {"returned", "destroyed"}
    BY DEF CarriedOut
  <2> QED
    BY <2>1 DEF Fates, Returned
<1>2. ASSUME UNCHANGED <<vm, template, ova>>
      PROVE  UNCHANGED <<Machine, Image, Package, result>>
  BY <1>2 DEF Machine, Image, Package
<1>3. CASE VmsAdd(config.source)
  <2>1. Machine = "none" /\ Machine' = "stopped"
    BY <1>3 DEF VmsAdd, Machine, Running
  <2>2. UNCHANGED <<Image, Package>>
    BY <1>3 DEF VmsAdd, Image, Package
  <2> QED
    BY <1>1, <2>1, <2>2 DEF Promise!Create, PromisedStep
<1>4. CASE VmStart /\ pc = "start"
  <2>1. template = "absent"
    BY <1>4 DEF Fates, IInv, Course, RunPoints
  <2>2. Machine = "stopped"
    BY <1>4 DEF VmStart, Machine, Running
  <2>3. Machine' = "running"
    BY <1>4 DEF VmStart, Machine, Running
  <2>4. Image = "none"
    BY <2>1 DEF Image, IInv, EngineInv
  <2>5. UNCHANGED <<Image, Package>>
    BY <1>4 DEF VmStart, Image, Package
  <2> QED
    BY <1>1, <2>2, <2>3, <2>4, <2>5 DEF Promise!Start, PromisedStep
<1>5. CASE TemplatesAdd /\ pc = "addTemplate"
  <2>1. vm = "down" /\ ova # "running"
    BY <1>5 DEF TemplatesAdd, IInv, Taking, EngineInv
  <2>2. Machine = "stopped" /\ Machine' = "stopped"
    BY <1>5, <2>1 DEF TemplatesAdd, Machine, Running
  <2>3. Image = "none" /\ Image' = "unfinished" /\ Package' = Package
    BY <1>5, <2>1 DEF TemplatesAdd, Image, Package
  <2> QED
    BY <1>1, <2>2, <2>3 DEF Promise!Capture, PromisedStep
<1>6. CASE TemplateExport /\ pc = "export"
  <2>1. config.export
    BY <1>6 DEF Fates, ExportPoints
  <2>2. vm \in {"image_locked", "down"} /\ UNCHANGED vm
    BY <1>6 DEF TemplateExport, Fates
  <2>3. Machine = "stopped" /\ Machine' = Machine
    BY <2>2 DEF Machine, Running
  <2>4. Image = "finished" /\ Image' = Image /\ Package = "none" /\ Package' = "begun"
    BY <1>6 DEF TemplateExport, Image, Package
  <2> QED
    BY <1>1, <2>1, <2>3, <2>4 DEF Promise!Export, PromisedStep
<1>7. CASE VmRemove /\ pc = "cleanupRemove"
  <2>1. config.cleanupVM /\ vm = "down"
    BY <1>7 DEF IInv, Ending
  <2>2. Machine = "stopped" /\ Machine' = "deleted"
    BY <1>7, <2>1 DEF VmRemove, Machine, Running
  <2>3. Image # "unfinished"
    BY <2>1 DEF Fates, Image
  <2>4. UNCHANGED <<Image, Package>>
    BY <1>7 DEF VmRemove, Image, Package
  <2> QED
    BY <1>1, <2>1, <2>2, <2>3, <2>4 DEF Promise!Delete, PromisedStep
<1>8. CASE UNCHANGED <<vm, template, ova>>
  BY <1>2, <1>8 DEF PromisedStep
<1> QED
  BY <1>3, <1>4, <1>5, <1>6, <1>7, <1>8 DEF CarriedOut, DisksCopy, AttachmentsAdd,
     NicsAdd, VmStop, NicRemove

\* What the engine does by itself.
LEMMA PromiseEngine ==
  ASSUME PInv, EngineStep \/ GuestShutdown, result' = result
  PROVE  PromisedStep
<1> USE DEF PInv
<1>1. ASSUME UNCHANGED <<Machine, Image, Package>> PROVE PromisedStep
  BY <1>1 DEF PromisedStep
<1>2. CASE VmCreated
  <2>1. Machine' = Machine
    BY <1>2 DEF VmCreated, Machine, Running
  <2> QED
    BY <1>1, <1>2, <2>1 DEF VmCreated, Image, Package
<1>3. CASE VmLaunches \/ VmStops \/ GuestShutdown
  <2>1. vm \in Running /\ vm' \in Running \cup {"down"}
    BY <1>3 DEF VmLaunches, VmStops, GuestShutdown, IInv, EngineInv, Running
  <2>2. UNCHANGED <<Image, Package>>
    BY <1>3 DEF VmLaunches, VmStops, GuestShutdown, Image, Package
  <2>3. Machine = "running" /\ Machine' \in {"running", "stopped"}
    BY <2>1 DEF Machine, Running
  <2>4. CASE Machine' = "running"
    BY <1>1, <2>2, <2>3, <2>4
  <2>5. CASE Machine' = "stopped"
    BY <2>2, <2>3, <2>5 DEF Promise!Stop, PromisedStep
  <2> QED
    BY <2>3, <2>4, <2>5
<1>4. CASE CopyEnds
  BY <1>1, <1>4 DEF CopyEnds, Machine, Image, Package
<1>5. CASE TemplateEnds
  <2>1. Image = "unfinished" /\ Image' \in {"finished", "spoiled"} /\ Package' = Package
    BY <1>5 DEF TemplateEnds, Image, Package
  <2>2. Machine' = Machine
    BY <1>5 DEF TemplateEnds, Machine, Running
  <2> QED
    BY <2>1, <2>2 DEF Promise!CaptureEnds, PromisedStep
<1>6. CASE ExportEnds
  <2>1. Image = "finished" /\ Image' = "finished"
    BY <1>6 DEF ExportEnds, Image, IInv, EngineInv
  <2>2. Package = "begun" /\ Package' = "ended" /\ Machine' = Machine
    BY <1>6 DEF ExportEnds, Package, Machine
  <2> QED
    BY <2>1, <2>2 DEF Promise!ExportEnds, PromisedStep
<1> QED
  BY <1>2, <1>3, <1>4, <1>5, <1>6 DEF EngineStep

LEMMA PromiseNext == PInv /\ [Next]_vars => [Promise!Next]_(Promise!vars)
<1> SUFFICES ASSUME PInv, [Next]_vars
             PROVE  Promise!Next \/ UNCHANGED Promise!vars
  OBVIOUS
<1>1. CASE Next
  <2>1. PromisedStep
    <3>1. CASE result' = result
      <4>1. ASSUME UNCHANGED <<vm, template, ova>> PROVE PromisedStep
        BY <3>1, <4>1 DEF PromisedStep, Machine, Image, Package
      <4> QED
        BY <1>1, <3>1, <4>1, EngineChanges, PromiseRequest, PromiseEngine DEF engine
    <3>2. CASE Finish \/ (Run /\ result' = "error")
      BY <3>2, PromiseReturn DEF PromisedStep
    <3> QED
      BY <1>1, <3>1, <3>2, ResultSet
  <2> QED
    BY <1>1, <2>1, ConfigKept, NoticedGrows DEF PromisedStep, Promise!Next
<1>2. CASE UNCHANGED vars
  <2>1. UNCHANGED <<Machine, Image, Package, Noticed, result, config>>
    BY <1>2 DEF vars, engine, rest, Machine, Image, Package, Noticed
  <2> QED
    BY <2>1 DEF Promise!vars
<1> QED
  BY <1>1, <1>2

\* Every build keeps the promise of BuildPromise: it makes one machine, captures
\* at most one image from it while it is stopped, deletes it last and only if
\* asked to, and returns an outcome that tells what became of them.
THEOREM Implementation == Spec => ImplementsPromise
  BY PromiseInvariance, PromiseInit, PromiseNext, PTL
  DEF Spec, ImplementsPromise, Promise!Spec
=============================================================================
