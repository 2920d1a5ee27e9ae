-------------------------- MODULE BuildAdvanceProofs --------------------------
(***************************************************************************)
(* No step of a build leads back, for any configurations, any number of    *)
(* polls, interfaces and failed requests, and any environment: the measure *)
(* Distance falls with every step of the program.  And since none leads    *)
(* back, the engine is ready for what a step adds or removes.              *)
(***************************************************************************)
EXTENDS BuildCleanProofs, FiniteSetTheorems

\* The measure at the program points.
LEMMA AheadFacts ==
  /\ \A p \in Points : Ahead[p] \in 0 .. 21
  /\ \A p \in FailPoints \ CleanupPoints : Ahead[p] > 7
  /\ \A p \in CleanupPoints : Ahead[p] > 2 /\ Ahead[p] < 7
  /\ \A s \in 1 .. 10 : Ahead[FirstPoint[s]] < 20
  /\ \A p \in DOMAIN AfterRead : Ahead[AfterRead[p]] < Ahead[p]
<1>1. \A p \in Points : Ahead[p] \in 0 .. 21
  BY ReadFacts, WaitFacts DEF Points, FailPoints, CleanupPoints, Ahead
<1>2. \A p \in FailPoints \ CleanupPoints : Ahead[p] > 7
  BY ReadFacts, WaitFacts DEF FailPoints, CleanupPoints, Ahead
<1>3. \A p \in CleanupPoints : Ahead[p] > 2 /\ Ahead[p] < 7
  BY DEF CleanupPoints, Ahead
<1>4. \A s \in 1 .. 10 : Ahead[FirstPoint[s]] < 20
  BY FirstFacts DEF Ahead
<1>5. \A p \in DOMAIN AfterRead : Ahead[AfterRead[p]] < Ahead[p]
  BY ReadFacts DEF Ahead
<1> QED
  BY <1>1, <1>2, <1>3, <1>4, <1>5

\* A VM has finitely many interfaces.
LEMMA NicsFinite == IsFiniteSet(SourceNics \cup {NewNic})
  BY SourceNicsAssumption, FS_AddElement

\* The measure is a number, and it falls with the rank.
LEMMA RankDrops ==
  ASSUME TypeOK, TypeOK', Rank' < Rank, NicsLeft' \subseteq NicsLeft
  PROVE  Distance' \in 0 .. Distance - 1
<1>1. Rank \in Nat /\ Rank' \in Nat
  BY StepFacts, AheadFacts, ClonePollsAssumption DEF TypeOK, BuildTypeOK, Rank
<1>2. IsFiniteSet(NicsLeft)
  <2>1. NicsLeft \subseteq SourceNics \cup {NewNic}
    BY DEF TypeOK, BuildTypeOK, NicsLeft
  <2> QED
    BY <2>1, NicsFinite, FS_Subset
<1>3. /\ Cardinality(NicsLeft) \in Nat /\ Cardinality(NicsLeft') \in Nat
      /\ Cardinality(NicsLeft') <= Cardinality(NicsLeft)
  BY <1>2, FS_Subset, FS_CardinalityType
<1>4. Distance = Rank + Cardinality(NicsLeft) /\ Distance' = Rank' + Cardinality(NicsLeft')
  BY DEF Distance
<1> QED
  BY <1>1, <1>3, <1>4

\* Within a step: the next program point is ahead.
LEMMA PointAdvances ==
  ASSUME IInv, TypeOK', step' = step, polls' = polls, Ahead[pc'] < Ahead[pc],
         pc' \notin {"enter", "nicsService", "removeNic"},
         pc' = "listNics" => pc = "nicsService"
  PROVE  Distance' \in 0 .. Distance - 1
<1>1. Rank' < Rank
  BY StepFacts, AheadFacts, ClonePollsAssumption DEF IInv, TypeOK, BuildTypeOK, Rank
<1>2. NicsLeft' \subseteq NicsLeft
  BY DEF IInv, Course, NicPoints, NicsLeft
<1> QED
  BY <1>1, <1>2, RankDrops DEF IInv

\* A request or a wait that fails ends its step, or Cleanup.
LEMMA GivingUpAdvances ==
  ASSUME IInv, TypeOK', pc \in FailPoints, GiveUp, UNCHANGED locals
  PROVE  Distance' \in 0 .. Distance - 1
<1>1. Ahead["leave"] = 7 /\ Ahead["finish"] = 2
  BY DEF Ahead
<1>2. Ahead[pc'] < Ahead[pc] /\ pc' \in {"leave", "finish"} /\ step' = step
  BY <1>1, AheadFacts DEF GiveUp, Tell, Halt, CleanupPoints, FailPoints
<1> QED
  BY <1>2, PointAdvances DEF locals

\* The runner: the end of a step, and the beginning of the next one.
LEMMA RunnerAdvances ==
  ASSUME IInv, TypeOK', Run \/ Enter \/ Leave
  PROVE  Distance' \in 0 .. Distance - 1
<1> USE DEF IInv
<1>1. /\ Ahead["run"] = 21 /\ Ahead["enter"] = 20 /\ Ahead["leave"] = 7
      /\ Ahead["cleanup"] = 6 /\ Ahead["returned"] = 1
  BY DEF Ahead
<1>2. step \in 1 .. 10 /\ polls \in 0 .. ClonePolls /\ ClonePolls \in Nat
  BY StepFacts, ClonePollsAssumption DEF TypeOK, BuildTypeOK
<1>3. CASE Run
  <2>1. step = 1 /\ step' = step /\ UNCHANGED locals
    BY <1>3 DEF Run, Course
  <2>2. CASE pc' = "enter"
    <3>1. Rank' < Rank
      BY <1>1, <1>2, <1>3, <2>1, <2>2, StepFacts DEF Run, Rank, locals
    <3>2. NicsLeft' \subseteq NicsLeft
      BY <1>3, <2>1, <2>2 DEF Run, NicsLeft
    <3> QED
      BY <3>1, <3>2, RankDrops
  <2>3. CASE pc' = "returned"
    BY <1>1, <1>3, <2>1, <2>3, PointAdvances DEF Run, locals
  <2> QED
    BY <1>3, <2>2, <2>3 DEF Run
<1>4. CASE Enter
  <2>1. CASE Goto("cleanup") \/ Continue
    BY <1>1, <1>4, <2>1, PointAdvances DEF Enter, Goto, Continue, locals
  <2>2. CASE Goto(FirstPoint[step])
    <3>1. Rank' < Rank
      BY <1>1, <1>2, <1>4, <2>2, StepFacts, FirstFacts, AheadFacts
      DEF Enter, Goto, Rank, locals, TypeOK, BuildTypeOK
    <3>2. NicsLeft' \subseteq NicsLeft
      BY <1>2, <1>4, <2>2, FirstFacts DEF Enter, Goto, NicsLeft
    <3> QED
      BY <3>1, <3>2, RankDrops
  <2> QED
    BY <1>4, <2>1, <2>2 DEF Enter
<1>5. CASE Leave
  <2>1. CASE Goto("cleanup")
    BY <1>1, <1>5, <2>1, PointAdvances DEF Leave, Goto, Reads, locals
  <2>2. CASE pc' = "enter" /\ step' = step + 1
    <3>1. Rank' < Rank
      BY <1>1, <1>2, <1>5, <2>2, StepFacts DEF Leave, Reads, Rank, locals
    <3>2. NicsLeft' \subseteq NicsLeft
      BY <1>2, <1>5, <2>2 DEF Leave, NicsLeft
    <3> QED
      BY <3>1, <3>2, RankDrops
  <2> QED
    BY <1>5, <2>1, <2>2 DEF Leave
<1> QED
  BY <1>3, <1>4, <1>5

\* The clone's poll has one turn less with every turn.
LEMMA PollAdvances ==
  ASSUME IInv, TypeOK', PollClone
  PROVE  Distance' \in 0 .. Distance - 1
<1> USE DEF IInv
<1>1. pc = "clonePoll" /\ step = 2 /\ step' = step
  BY DEF PollClone, Course, CreatePoints, Goto, Halt
<1>2. Ahead["clonePoll"] = 14 /\ Ahead["attachDiskToVM"] = 13 /\ Ahead["leave"] = 7
  BY DEF Ahead
<1>3. CASE Goto("attachDiskToVM") /\ UNCHANGED polls
  BY <1>1, <1>2, <1>3, PointAdvances DEF Goto
<1>4. CASE polls' = polls + 1 /\ (Goto("clonePoll") \/ Halt)
  <2>1. Rank' < Rank
    BY <1>1, <1>2, <1>4, StepFacts, ClonePollsAssumption
    DEF Goto, Halt, Rank, TypeOK, BuildTypeOK
  <2>2. NicsLeft' \subseteq NicsLeft
    BY <1>1, <1>4 DEF Goto, Halt, NicsLeft
  <2> QED
    BY <2>1, <2>2, RankDrops
<1> QED
  BY <1>3, <1>4 DEF PollClone

\* The interfaces listed are some of those the VM may have, and every removal
\* leaves one less.
LEMMA RemovalAdvances ==
  ASSUME IInv, TypeOK', ListNics \/ RemoveNic
  PROVE  Distance' \in 0 .. Distance - 1
<1> USE DEF IInv
<1>1. Ahead["listNics"] = 9 /\ Ahead["removeNic"] = 8 /\ Ahead["leave"] = 7
  BY DEF Ahead
<1>2. /\ pc \in {"listNics", "removeNic"} /\ step = 8 /\ step' = step /\ polls' = polls
      /\ pc' \in {"removeNic", "leave"}
  BY DEF ListNics, RemoveNic, Course, NicPoints, Goto, Continue
<1>3. polls \in 0 .. ClonePolls /\ ClonePolls \in Nat
  BY ClonePollsAssumption DEF TypeOK, BuildTypeOK
<1>4. CASE pc' = "leave"
  BY <1>1, <1>2, <1>4, PointAdvances
<1>5. CASE ListNics /\ pc' = "removeNic"
  <2>1. Rank' < Rank
    BY <1>1, <1>2, <1>3, <1>5, StepFacts DEF ListNics, Rank
  <2>2. NicsLeft' \subseteq NicsLeft
    BY <1>2, <1>5 DEF ListNics, NicsLeft, TypeOK, BuildTypeOK
  <2> QED
    BY <2>1, <2>2, RankDrops
<1>6. CASE RemoveNic /\ pc' = "removeNic"
  <2>1. PICK n \in listed : listed' = listed \ {n}
    BY <1>6 DEF RemoveNic
  <2>2. NicsLeft = listed /\ NicsLeft' = listed'
    BY <1>6 DEF RemoveNic, NicsLeft
  <2>3. IsFiniteSet(listed)
    BY NicsFinite, FS_Subset DEF TypeOK, BuildTypeOK
  <2>4. /\ Cardinality(listed) \in Nat /\ Cardinality(listed') \in Nat
        /\ Cardinality(listed') = Cardinality(listed) - 1
    BY <2>1, <2>3, FS_RemoveElement, FS_CardinalityType, FS_Subset
  <2>5. Rank \in Nat /\ Rank' = Rank
    BY <1>1, <1>2, <1>3, <1>6, StepFacts DEF RemoveNic, Rank
  <2>6. /\ Distance = Rank + Cardinality(listed)
        /\ Distance' = Rank' + Cardinality(listed')
    BY <2>2 DEF Distance
  <2> QED
    BY <2>4, <2>5, <2>6
<1> QED
  BY <1>2, <1>4, <1>5, <1>6

\* The requests of the steps that go on.
LEMMA RequestAdvances ==
  ASSUME IInv, TypeOK',
         \/ KeyPair \/ AddVM \/ CopyDisk \/ AttachDisk \/ VerifyAttachment
         \/ ManageNetworkInterfaces \/ GetVM \/ StartVM \/ Communicate
         \/ CleanupTempKeys \/ CheckStopped \/ StopVM \/ CheckDown \/ AddTemplate
         \/ Export \/ Cleanup \/ RemoveVM \/ Finish \/ Destroy
  PROVE  Distance' \in 0 .. Distance - 1
<1>1. /\ Ahead[pc'] < Ahead[pc] /\ step' = step /\ polls' = polls
      /\ pc' \notin {"enter", "nicsService", "removeNic", "listNics"}
  <2>1. CASE KeyPair \/ AddVM \/ CopyDisk \/ AttachDisk \/ VerifyAttachment
    BY <2>1 DEF KeyPair, AddVM, CopyDisk, AttachDisk, VerifyAttachment, Goto, Continue,
       Reads, locals, Ahead
  <2>2. CASE ManageNetworkInterfaces \/ GetVM \/ StartVM \/ Communicate \/ CleanupTempKeys
    BY <2>2 DEF ManageNetworkInterfaces, GetVM, StartVM, Communicate, CleanupTempKeys,
       Goto, Continue, Reads, locals, Ahead
  <2>3. CASE CheckStopped \/ StopVM \/ CheckDown \/ AddTemplate \/ Export
    BY <2>3 DEF CheckStopped, StopVM, CheckDown, AddTemplate, Export, Goto, Continue,
       Halt, Reads, locals, Ahead
  <2>4. CASE Cleanup \/ RemoveVM \/ Finish \/ Destroy
    BY <2>4 DEF Cleanup, RemoveVM, Finish, Destroy, Goto, Reads, locals, Ahead
  <2> QED
    BY <2>1, <2>2, <2>3, <2>4
<1> QED
  BY <1>1, PointAdvances

\* Every step of the program comes nearer to its end.
LEMMA NextAdvances ==
  ASSUME IInv, TypeOK', Next, <<step, pc, locals>>' # <<step, pc, locals>>
  PROVE  Distance' \in 0 .. Distance - 1
<1>1. CASE Run \/ Enter \/ Leave
  BY <1>1, RunnerAdvances
<1>2. CASE Read
  <2>1. pc \in DOMAIN AfterRead /\ UNCHANGED locals /\ step' = step
    BY <1>2 DEF Read, Goto, Halt, Reads
  <2>2. CASE Goto(AfterRead[pc])
    <3>1. /\ Ahead[pc'] < Ahead[pc] /\ (pc' = "listNics" => pc = "nicsService")
          /\ pc' \notin {"enter", "nicsService", "removeNic"}
      BY <2>1, <2>2, AheadFacts, ReadFacts DEF Goto
    <3> QED
      BY <2>1, <3>1, PointAdvances DEF locals
  <2>3. CASE Halt
    BY <2>1, <2>3, GivingUpAdvances, ReadFacts DEF GiveUp, FailPoints, CleanupPoints
  <2> QED
    BY <1>2, <2>2, <2>3 DEF Read
<1>3. CASE PollClone
  BY <1>3, PollAdvances
<1>4. CASE ListNics \/ RemoveNic
  BY <1>4, RemovalAdvances
<1>5. CASE \/ KeyPair \/ AddVM \/ CopyDisk \/ AttachDisk \/ VerifyAttachment
           \/ ManageNetworkInterfaces \/ GetVM \/ StartVM \/ Communicate
           \/ CleanupTempKeys \/ CheckStopped \/ StopVM \/ CheckDown \/ AddTemplate
           \/ Export \/ Cleanup \/ RemoveVM \/ Finish \/ Destroy
  BY <1>5, RequestAdvances
<1>6. CASE WaitForState
  <2>1. pc \in DOMAIN Waits /\ UNCHANGED locals
    BY <1>6 DEF WaitForState, Reads
  <2>2. CASE Reached
    <3>1. /\ Ahead[pc'] < Ahead[pc] /\ step' = step
          /\ pc' \in {"getVM", "leave", "cleanupRemove", "finish"}
      BY <2>2 DEF Reached, Goto, Continue, Ahead
    <3> QED
      BY <2>1, <3>1, PointAdvances DEF locals
  <2>3. CASE GiveUp
    BY <2>1, <2>3, GivingUpAdvances DEF FailPoints
  <2> QED
    BY <1>6, <2>2, <2>3 DEF WaitForState
<1>7. CASE RequestFails \/ RequestRefused
  BY <1>7, GivingUpAdvances
  DEF RequestFails, RequestRefused, Refused, FailPoints, CleanupPoints, Reads
<1>8. CASE Panic
  <2>1. pc \in MustPoints /\ step' = step /\ UNCHANGED locals
        /\ pc' = IF pc \in CleanupPoints THEN "finish" ELSE "cleanup"
    BY <1>8 DEF Panic, Goto
  <2>2. Ahead[pc'] < Ahead[pc]
    BY <2>1, WaitFacts DEF MustPoints, Searches, CleanupPoints, Ahead
  <2> QED
    BY <2>1, <2>2, PointAdvances DEF locals
<1>9. CASE Interrupt \/ Mark \/ Terminated \/ UNCHANGED build
  BY <1>9 DEF Interrupt, Mark, Terminated, vars, build
<1> QED
  BY <1>1, <1>2, <1>3, <1>4, <1>5, <1>6, <1>7, <1>8, <1>9 DEF Next, Program, Mishap

\* No step of the program leads back, whatever is answered, refused, panics or is
\* interrupted, and wherever: a build takes at most as many steps as its measure says
\* at the start.
THEOREM EveryStepAdvances == Spec => BuildAdvances
<1>1. IInv /\ IInv' /\ [Next]_vars => [Distance' \in 0 .. Distance - 1]_<<step, pc, locals>>
  <2> SUFFICES ASSUME IInv, IInv', [Next]_vars, <<step, pc, locals>>' # <<step, pc, locals>>
               PROVE  Distance' \in 0 .. Distance - 1
    OBVIOUS
  <2>1. Next
    BY DEF vars
  <2> QED
    BY <2>1, NextAdvances DEF IInv
<1> QED
  BY <1>1, Invariance, PTL DEF Spec, BuildAdvances

-----------------------------------------------------------------------------
(* The engine is ready for what a step adds or removes: what comes before   *)
(* a request in the build has not happened to the engine by itself.         *)

\* Nothing leads back within a step, and staying at a point sends no request that
\* changes the engine but those of the two loops.
LEMMA NoWayBack ==
  ASSUME IInv, Next
  PROVE  \/ step' = step + 1 /\ pc = "leave" /\ pc' = "enter"
         \/ step' = step /\ Ahead[pc'] < Ahead[pc]
         \/ /\ step' = step /\ pc' = pc
            /\ UNCHANGED engine \/ EngineStep \/ GuestShutdown
                 \/ pc \in {"clonePoll", "removeNic"}
<1> USE DEF IInv
<1>1. ASSUME pc \in FailPoints, GiveUp
      PROVE  step' = step /\ Ahead[pc'] < Ahead[pc]
  <2>1. Ahead["leave"] = 7 /\ Ahead["finish"] = 2
    BY DEF Ahead
  <2> QED
    BY <1>1, <2>1, AheadFacts DEF GiveUp, Tell, Halt, CleanupPoints, FailPoints
<1>2. CASE Run \/ Leave
  BY <1>2 DEF Run, Leave, Goto, Reads, engine, Ahead
<1>3. CASE Enter
  <2>1. /\ step \in 1 .. 10
        /\ Ahead["enter"] = 20 /\ Ahead["leave"] = 7 /\ Ahead["cleanup"] = 6
    BY StepFacts DEF TypeOK, BuildTypeOK, Ahead
  <2> QED
    BY <1>3, <2>1, AheadFacts DEF Enter, Goto, Continue
<1>4. CASE Read
  <2>1. CASE Goto(AfterRead[pc])
    BY <1>4, <2>1, AheadFacts DEF Read, Goto
  <2>2. CASE Halt
    BY <1>1, <1>4, <2>2, ReadFacts DEF Read, GiveUp, FailPoints, CleanupPoints
  <2> QED
    BY <1>4, <2>1, <2>2 DEF Read
<1>5. CASE KeyPair \/ AddVM \/ CopyDisk \/ AttachDisk \/ VerifyAttachment
  BY <1>5 DEF KeyPair, AddVM, CopyDisk, AttachDisk, VerifyAttachment, Goto, Continue, Ahead
<1>6. CASE ManageNetworkInterfaces \/ GetVM \/ StartVM \/ Communicate \/ CleanupTempKeys
  BY <1>6 DEF ManageNetworkInterfaces, GetVM, StartVM, Communicate, CleanupTempKeys,
     Goto, Continue, Ahead
<1>7. CASE CheckStopped \/ StopVM \/ CheckDown \/ AddTemplate \/ Export
  BY <1>7 DEF CheckStopped, StopVM, CheckDown, AddTemplate, Export, Goto, Continue,
     Halt, Ahead
<1>8. CASE PollClone \/ ListNics \/ RemoveNic
  BY <1>8 DEF PollClone, ListNics, RemoveNic, Goto, Continue, Halt, Ahead
<1>9. CASE Cleanup \/ RemoveVM \/ Finish \/ Destroy
  BY <1>9 DEF Cleanup, RemoveVM, Finish, Destroy, Goto, Ahead
<1>10. CASE WaitForState
  <2>1. CASE Reached
    BY <2>1 DEF Reached, Goto, Continue, Ahead
  <2>2. CASE GiveUp
    BY <1>1, <1>10, <2>2 DEF WaitForState, FailPoints
  <2> QED
    BY <1>10, <2>1, <2>2 DEF WaitForState
<1>11. CASE RequestFails \/ RequestRefused
  BY <1>1, <1>11 DEF RequestFails, RequestRefused, Refused, FailPoints, CleanupPoints
<1>12. CASE Panic
  <2>1. pc \in MustPoints /\ step' = step
        /\ pc' = IF pc \in CleanupPoints THEN "finish" ELSE "cleanup"
    BY <1>12 DEF Panic, Goto
  <2> QED
    BY <2>1, WaitFacts DEF MustPoints, Searches, CleanupPoints, Ahead
<1>13. CASE Interrupt \/ Mark \/ Terminated
  BY <1>13 DEF Interrupt, Mark, Terminated, vars
<1>14. CASE (EngineStep \/ GuestShutdown) /\ UNCHANGED build
  BY <1>14 DEF build
<1> QED
  BY <1>2, <1>3, <1>4, <1>5, <1>6, <1>7, <1>8, <1>9, <1>10, <1>11, <1>12, <1>13,
     <1>14
  DEF Next, Program, Mishap

\* A build that stays at a program point has sent no request.
LEMMA StaysPut ==
  ASSUME IInv, Next, pc' = pc, pc \notin {"clonePoll", "removeNic"}
  PROVE  UNCHANGED engine \/ EngineStep \/ GuestShutdown
<1>1. Ahead[pc] \in 0 .. 21
  BY AheadFacts DEF IInv, TypeOK, BuildTypeOK
<1> QED
  BY <1>1, NoWayBack

\* Before the VM, the template and the export are asked for.
BeforeAdd == step = 1 \/ (step = 2 /\ Ahead[pc] >= Ahead["createVM"])
BeforeTemplate == step < 9 \/ (step = 9 /\ Ahead[pc] >= Ahead["addTemplate"])
BeforeExport == step < 10 \/ (step = 10 /\ Ahead[pc] >= Ahead["export"])

\* While the parts of the VM are put together.
BuildingPoints ==
  {"getSourceDisk", "copy", "clonePoll", "attachDiskToVM", "verify", "findNetwork",
   "manageNetworkInterfaces"}

\* What is asked for is not there before, and the VM is not started before its parts
\* are there.
Pristine ==
  /\ BeforeAdd => vm = "absent"
  /\ BeforeTemplate => template = "absent"
  /\ BeforeExport => ova = "none"
  /\ pc \in BuildingPoints => vm \in {"image_locked", "down"} /\ NewNic \notin nics
  /\ pc \in ClonePoints => boot = "none"
  /\ pc = "removeNic" => listed # {}

LEMMA PristineInit == Init => Pristine
  BY DEF Init, EngineInit, Pristine, BuildingPoints, ClonePoints

\* The points before a request are not gone back to, and a step that ends at one
\* has not sent the request.
LEMMA StillBefore ==
  ASSUME IInv, Next
  PROVE  /\ BeforeAdd' => BeforeAdd /\ (pc = "createVM" => pc' = pc)
         /\ BeforeTemplate' => BeforeTemplate /\ (pc = "addTemplate" => pc' = pc)
         /\ BeforeExport' => BeforeExport /\ (pc = "export" => pc' = pc)
<1>1. step \in 1 .. 10 /\ pc \in Points /\ pc' \in Points
  BY NextBuildType, StepFacts DEF IInv, TypeOK, BuildTypeOK
<1>2. Ahead[pc] \in 0 .. 21 /\ Ahead[pc'] \in 0 .. 21
  BY <1>1, AheadFacts
<1>3. /\ Ahead["createVM"] = 17 /\ Ahead["addTemplate"] = 9 /\ Ahead["export"] = 9
  BY DEF Ahead
<1>4. /\ pc = "createVM" => step = 2
      /\ pc = "addTemplate" => step = 9
      /\ pc = "export" => step = 10
  BY DEF IInv, Course, CreatePoints, TemplatePoints, ExportPoints
<1>5. CASE step' = step + 1 /\ pc = "leave" /\ pc' = "enter"
  BY <1>1, <1>5 DEF BeforeAdd, BeforeTemplate, BeforeExport
<1>6. CASE step' = step /\ Ahead[pc'] < Ahead[pc]
  BY <1>1, <1>2, <1>3, <1>4, <1>6 DEF BeforeAdd, BeforeTemplate, BeforeExport
<1>7. CASE step' = step /\ pc' = pc
  BY <1>7 DEF BeforeAdd, BeforeTemplate, BeforeExport
<1> QED
  BY <1>5, <1>6, <1>7, NoWayBack

\* Where the points at which the VM is put together, and the removal of its
\* interfaces, are reached from.
LEMMA PartsPath ==
  ASSUME TypeOK, Next
  PROVE  /\ pc' \in BuildingPoints => pc \in BuildingPoints \/ AddVM
         /\ pc' \in ClonePoints => pc \in ClonePoints \/ AddVM
         /\ pc' = "removeNic" => listed' # {} \/ (pc = "removeNic" /\ listed' = listed)
<1> USE DEF BuildingPoints, ClonePoints
<1>1. CASE AddVM
  BY <1>1 DEF AddVM, Goto
<1>2. CASE Enter
  <2>1. CASE Goto(FirstPoint[step])
    <3>1. step \in 1 .. 10
      BY StepFacts DEF TypeOK, BuildTypeOK
    <3> QED
      BY <2>1, <3>1, FirstFacts DEF Goto
  <2> QED
    BY <1>2, <2>1 DEF Enter, Goto, Continue
<1>3. CASE Read
  BY <1>3, ReadFacts DEF Read, Goto, Halt
<1>4. CASE \/ KeyPair \/ CopyDisk \/ PollClone \/ AttachDisk
           \/ VerifyAttachment \/ ManageNetworkInterfaces \/ GetVM \/ StartVM
  BY <1>4 DEF KeyPair, CopyDisk, PollClone, AttachDisk, VerifyAttachment,
     ManageNetworkInterfaces, GetVM, StartVM, Goto, Continue, Halt
<1>5. CASE \/ Communicate \/ CleanupTempKeys \/ CheckStopped \/ StopVM \/ ListNics
           \/ RemoveNic \/ CheckDown \/ AddTemplate \/ Export
  BY <1>5 DEF Communicate, CleanupTempKeys, CheckStopped, StopVM, ListNics, RemoveNic,
     CheckDown, AddTemplate, Export, Goto, Continue, Halt
<1>6. CASE WaitForState \/ Cleanup \/ RemoveVM
  BY <1>6 DEF WaitForState, Reached, Cleanup, RemoveVM, GiveUp, Tell, Halt, Goto, Continue
<1>7. CASE RequestFails \/ RequestRefused \/ Panic
  BY <1>7 DEF RequestFails, RequestRefused, Panic, GiveUp, Tell, Halt, Goto
<1>8. CASE Run \/ Leave \/ Finish \/ Destroy
  BY <1>8 DEF Run, Leave, Finish, Destroy, Goto
<1>9. CASE Interrupt \/ Mark \/ Terminated \/ UNCHANGED build
  BY <1>9 DEF Interrupt, Mark, Terminated, vars, build, locals
<1> QED
  BY <1>1, <1>2, <1>3, <1>4, <1>5, <1>6, <1>7, <1>8, <1>9 DEF Next, Program, Mishap

\* Nothing appears before it is asked for.
LEMMA StillAbsent ==
  ASSUME IInv, Pristine, Next
  PROVE  /\ BeforeAdd' => vm' = "absent"
         /\ BeforeTemplate' => template' = "absent"
         /\ BeforeExport' => ova' = "none"
<1> USE DEF IInv
<1>1. ASSUME BeforeAdd' PROVE vm' = "absent"
  <2>1. vm = "absent" /\ (pc = "createVM" => pc' = pc)
    BY <1>1, StillBefore DEF Pristine
  <2>2. ~Known'
    <3>1. CASE pc # "createVM"
      BY <2>1, <3>1, OnlyCreateVM DEF Known
    <3>2. CASE pc = "createVM"
      BY <2>1, <3>2, StaysPut, EngineMoves DEF TypeOK, Known, engine
    <3> QED
      BY <3>1, <3>2
  <2>3. vm' # "removed"
    <3>1. pc # "cleanupRemove"
      BY <2>1 DEF Ending
    <3> QED
      BY <2>1, <3>1, RemovalEnds
  <2> QED
    BY <2>2, <2>3 DEF Known
<1>2. ASSUME template = "absent", pc = "addTemplate" => pc' = pc
      PROVE  template' = "absent"
  <2>1. CASE \/ UNCHANGED engine
             \/ pc = "copy" /\ UNCHANGED <<vm, nics, boot, template, taken, ova>>
    BY <1>2, <2>1 DEF engine
  <2>2. CASE EngineStep \/ GuestShutdown
    BY <1>2, <2>2 DEF EngineInv, EngineStep, GuestShutdown, VmCreated, VmLaunches, VmStops,
       CopyEnds, TemplateEnds, ExportEnds
  <2>3. CASE pc = "addTemplate"
    BY <1>2, <2>1, <2>2, <2>3, StaysPut
  <2>4. CASE CarriedOut(pc) /\ pc # "addTemplate"
    BY <1>2, <2>4 DEF CarriedOut, VmsAdd, DisksCopy, AttachmentsAdd, NicsAdd, VmStart,
       VmStop, NicRemove, TemplateExport, VmRemove
  <2> QED
    BY <2>1, <2>2, <2>3, <2>4, EngineChanges
<1>3. ASSUME ova = "none", pc = "export" => pc' = pc
      PROVE  ova' = "none"
  <2>1. CASE \/ UNCHANGED engine
             \/ pc = "copy" /\ UNCHANGED <<vm, nics, boot, template, taken, ova>>
    BY <1>3, <2>1 DEF engine
  <2>2. CASE EngineStep \/ GuestShutdown
    BY <1>3, <2>2 DEF EngineStep, GuestShutdown, VmCreated, VmLaunches, VmStops,
       CopyEnds, TemplateEnds, ExportEnds
  <2>3. CASE pc = "export"
    BY <1>3, <2>1, <2>2, <2>3, StaysPut
  <2>4. CASE CarriedOut(pc) /\ pc # "export"
    BY <1>3, <2>4 DEF CarriedOut, VmsAdd, DisksCopy, AttachmentsAdd, NicsAdd, VmStart,
       VmStop, NicRemove, TemplatesAdd, VmRemove
  <2> QED
    BY <2>1, <2>2, <2>3, <2>4, EngineChanges
<1> QED
  BY <1>1, <1>2, <1>3, StillBefore DEF Pristine

\* The VM's parts come before anything else happens to it.
LEMMA StillBuilding ==
  ASSUME CInv, Pristine, Next
  PROVE  /\ pc' \in BuildingPoints =>
              vm' \in {"image_locked", "down"} /\ NewNic \notin nics'
         /\ pc' \in ClonePoints => boot' = "none"
<1> USE DEF CInv, PInv
<1>1. ClonePoints \subseteq BuildingPoints
  BY DEF ClonePoints, BuildingPoints
<1>2. CASE AddVM
  <2>1. vm' = "image_locked" /\ NewNic \notin nics'
    BY <1>2, NewNicAssumption DEF AddVM, VmsAdd
  <2>2. pc' \in ClonePoints => boot' = "none"
    BY <1>2 DEF AddVM, VmsAdd, Goto, ClonePoints
  <2> QED
    BY <2>1, <2>2
<1>3. CASE pc \in BuildingPoints /\ pc' \in BuildingPoints /\ ~AddVM
  <2>1. vm \in {"image_locked", "down"} /\ NewNic \notin nics
    BY <1>3 DEF Pristine
  <2>2. pc' \in ClonePoints => boot = "none"
    BY <1>3, PartsPath DEF Pristine, IInv
  <2>3. CASE UNCHANGED <<vm, nics, boot>>
    BY <2>1, <2>2, <2>3
  <2>4. CASE EngineStep \/ GuestShutdown
    <3>1. nics' = nics /\ boot' = boot
      BY <2>4, EngineMoves DEF IInv, TypeOK
    <3>2. Known' /\ vm' \notin Running /\ vm' \in VMStatuses
      BY <2>1, <2>4, EngineMoves DEF IInv, TypeOK, EngineTypeOK, Known, Running
    <3>3. vm' \in {"image_locked", "down"}
      BY <3>2 DEF Known, VMStatuses
    <3> QED
      BY <2>1, <2>2, <3>1, <3>3
  <2>5. CASE CarriedOut(pc)
    <3>1. CASE pc = "attachDiskToVM"
      <4>1. CASE pc' = pc
        BY <2>3, <2>4, <3>1, <4>1, StaysPut DEF engine
      <4>2. CASE pc' # pc
        <5>1. Ahead[pc'] < 13
          BY <3>1, <4>2, NoWayBack DEF Ahead
        <5>2. pc' \notin ClonePoints
          BY <3>1, <4>2, <5>1 DEF ClonePoints, Ahead
        <5> QED
          BY <2>1, <2>5, <3>1, <5>2 DEF CarriedOut, AttachmentsAdd
      <4> QED
        BY <4>1, <4>2
    <3>2. CASE pc = "manageNetworkInterfaces"
      <4>1. CASE pc' = pc
        BY <2>3, <2>4, <3>2, <4>1, StaysPut DEF engine
      <4>2. CASE pc' # pc
        <5>1. Ahead[pc'] < 10
          BY <3>2, <4>2, NoWayBack DEF Ahead
        <5> QED
          BY <1>3, <3>2, <4>2, <5>1 DEF BuildingPoints, Ahead
      <4> QED
        BY <4>1, <4>2
    <3>3. CASE pc \notin {"attachDiskToVM", "manageNetworkInterfaces"}
      BY <1>3, <2>3, <2>5, <3>3 DEF CarriedOut, DisksCopy, BuildingPoints
    <3> QED
      BY <3>1, <3>2, <3>3
  <2> QED
    BY <2>3, <2>4, <2>5, EngineChanges DEF engine
<1> QED
  BY <1>1, <1>2, <1>3, PartsPath DEF IInv

\* Pristine is inductive.
LEMMA PristineNext == CInv /\ Pristine /\ [Next]_vars => Pristine'
<1> SUFFICES ASSUME CInv, Pristine, [Next]_vars PROVE Pristine'
  OBVIOUS
<1>1. CASE Next
  <2>1. pc' = "removeNic" => listed' # {}
    BY <1>1, PartsPath DEF Pristine, CInv, PInv, IInv
  <2> QED
    BY <1>1, <2>1, StillAbsent, StillBuilding DEF Pristine, CInv, PInv
<1>2. CASE UNCHANGED vars
  BY <1>2 DEF vars, engine, locals, Pristine, BeforeAdd, BeforeTemplate, BeforeExport
<1> QED
  BY <1>1, <1>2

\* No step finds the engine unready for what it adds or removes, whatever has failed
\* before and whatever the engine did in the meantime.
THEOREM NeverUnready == Spec => []EngineReady
<1>1. Init => CInv /\ Pristine
  BY InitInv, FatesInit, TidyInit, PristineInit DEF CInv, PInv
<1>2. CInv /\ Pristine /\ [Next]_vars => CInv' /\ Pristine'
  BY NextInv, FatesNext, TidyNext, PristineNext DEF CInv, PInv
<1>3. CInv /\ Pristine => EngineReady
  <2> SUFFICES ASSUME CInv, Pristine PROVE EngineReady
    OBVIOUS
  <2> USE DEF CInv, PInv, IInv
  <2>1. /\ pc = "createVM" => vm = "absent"
        /\ pc = "addTemplate" => vm = "down" /\ template = "absent"
        /\ pc = "export" => ova = "none"
    <3>1. /\ pc = "createVM" => BeforeAdd
          /\ pc = "addTemplate" => BeforeTemplate
          /\ pc = "export" => BeforeExport
      BY DEF Course, CreatePoints, TemplatePoints, ExportPoints, Ahead, BeforeAdd,
         BeforeTemplate, BeforeExport
    <3> QED
      BY <3>1 DEF Pristine, Taking
  <2>2. pc = "copy" => \A d \in Clones : disks[d] = "absent"
    BY DEF Tidy, OneClone, Early, NoClones, Course, CreatePoints
  <2>3. /\ pc \in {"attachDiskToVM", "manageNetworkInterfaces"} =>
             vm \in {"image_locked", "down"} /\ NewNic \notin nics
        /\ pc = "attachDiskToVM" => boot = "none" /\ disks[clonedDiskID] = "ok"
    BY DEF Polling, Pristine, BuildingPoints, ClonePoints
  <2>4. pc = "removeNic" => listed # {} /\ listed \subseteq nics
    BY DEF Pristine, Taking
  <2> QED
    BY <2>1, <2>2, <2>3, <2>4 DEF EngineReady
<1> QED
  BY <1>1, <1>2, <1>3, PTL DEF Spec
===============================================================================
