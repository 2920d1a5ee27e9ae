------------------------------ MODULE CloneDisk ------------------------------
(***************************************************************************)
(* cloneDisk and attachDiskToVM of step_create_vm.go, run by several       *)
(* builders at once: `packer build` runs the builds of a template in       *)
(* parallel, and nothing keeps two invocations from sharing an engine.     *)
(*                                                                         *)
(* A builder names its clone after the source disk and the second of the   *)
(* clock, asks the engine to copy, and then looks for the copy by that     *)
(* name.  Disk names need not be unique on the engine.                     *)
(***************************************************************************)
EXTENDS Naturals, FiniteSets

CONSTANTS
  Builders,      \* the builders that clone a disk
  Sources,       \* what a builder may be configured to clone: a record of the
                 \* disk and of source_disk_name, which is "" when the disk is
                 \* given by source_disk_id
  Clones,        \* identities of cloned disks
  ClonePolls,    \* how often cloneDisk looks for its clone, 30 in the code
  Repeats,       \* bound: how often the engine carries out one repeated Copy
  LastSecond     \* bound: the clock

ASSUME ClonePollsAssumption == ClonePolls \in Nat \ {0}
ASSUME RepeatsAssumption == Repeats \in Nat \ {0}
ASSUME LastSecondAssumption == LastSecond \in Nat
ASSUME NobodyAssumption == "nobody" \notin Builders
ASSUME NothingAssumption == "nothing" \notin Clones

VARIABLES
  clock,             \* time.Now().Unix()
  source,            \* what each builder clones
  pc,                \* where each builder is in cloneDisk
  clonedDiskName,    \* the name it chose, or Unnamed
  polls,             \* turns of its loop
  clonedDiskID,      \* the disk it found, or "nothing"
  troubled,          \* builders one of whose requests failed
  repeated,          \* builders whose Copy was carried out more than once
  status,            \* the engine's disks: absent, locked or ok,
  name,              \*   the name of each,
  maker,             \*   the builder whose Copy made it,
  attached           \*   and the builder to whose VM it is attached

local == <<source, pc, clonedDiskName, polls, clonedDiskID, troubled, repeated>>
engine == <<status, name, maker, attached>>
vars == <<clock, local, engine>>

Points == {"begin", "getSourceDisk", "copy", "poll", "attach", "attached", "failed"}
Names == {s.name : s \in Sources} \X (0 .. LastSecond)
Unnamed == <<>>

Init ==
  /\ clock = 0
  /\ source \in [Builders -> Sources]
  /\ pc = [b \in Builders |-> "begin"]
  /\ clonedDiskName = [b \in Builders |-> Unnamed]
  /\ polls = [b \in Builders |-> 0]
  /\ clonedDiskID = [b \in Builders |-> "nothing"]
  /\ troubled = {} /\ repeated = {}
  /\ status = [d \in Clones |-> "absent"]
  /\ name = [d \in Clones |-> Unnamed]
  /\ maker = [d \in Clones |-> "nobody"]
  /\ attached = [d \in Clones |-> "nobody"]

Goto(b, p) == pc' = [pc EXCEPT ![b] = p]
Trouble(b) == troubled' = troubled \cup {b}

-----------------------------------------------------------------------------
(* The engine. *)

Tick == clock < LastSecond /\ clock' = clock + 1 /\ UNCHANGED <<local, engine>>

\* Every Copy the engine carries out makes a disk of its own, and it may carry one
\* out again when its answer is lost.
Copies == {made \in SUBSET Clones : IsFiniteSet(made) /\ Cardinality(made) \in 1 .. Repeats}
Copied(b, made) ==
  /\ \A d \in made : status[d] = "absent"
  /\ status' = [d \in Clones |-> IF d \in made THEN "locked" ELSE status[d]]
  /\ name' = [d \in Clones |-> IF d \in made THEN clonedDiskName[b] ELSE name[d]]
  /\ maker' = [d \in Clones |-> IF d \in made THEN b ELSE maker[d]]
  /\ UNCHANGED attached

CopyEnds ==
  \E d \in Clones :
    /\ status[d] = "locked"
    /\ \/ status' = [status EXCEPT ![d] = "ok"] /\ UNCHANGED <<name, maker>>
       \/ /\ status' = [status EXCEPT ![d] = "absent"]
          /\ name' = [name EXCEPT ![d] = Unnamed]
          /\ maker' = [maker EXCEPT ![d] = "nobody"]
    /\ UNCHANGED <<clock, local, attached>>

\* A disk can be attached to one VM.
Attachable(d) == status[d] = "ok" /\ attached[d] = "nobody"
Attach(b, d) ==
  Attachable(d) /\ attached' = [attached EXCEPT ![d] = b] /\ UNCHANGED <<status, name, maker>>

-----------------------------------------------------------------------------
(* The builder. *)

\* Mutant: the name is the second only.
BeginUnnamed(b) ==
  /\ pc[b] = "begin"
  /\ clonedDiskName' = [clonedDiskName EXCEPT ![b] = <<"", clock>>]
  /\ Goto(b, "getSourceDisk")
  /\ UNCHANGED <<clock, source, polls, clonedDiskID, troubled, repeated, engine>>

\* The name is chosen before the source disk is looked at.
Begin(b) ==
  /\ pc[b] = "begin"
  /\ clonedDiskName' = [clonedDiskName EXCEPT ![b] = <<source[b].name, clock>>]
  /\ Goto(b, "getSourceDisk")
  /\ UNCHANGED <<clock, source, polls, clonedDiskID, troubled, repeated, engine>>

GetSourceDisk(b) ==
  /\ pc[b] = "getSourceDisk"
  /\ Goto(b, "copy")
  /\ UNCHANGED <<clock, source, clonedDiskName, polls, clonedDiskID, troubled,
                 repeated, engine>>

\* The answer to a Copy may be lost and the Copy sent again.
CopyDisk(b) ==
  /\ pc[b] = "copy"
  /\ \E made \in Copies :
       /\ Copied(b, made)
       /\ repeated' = IF Cardinality(made) > 1 THEN repeated \cup {b} ELSE repeated
  /\ Goto(b, "poll")
  /\ UNCHANGED <<clock, source, clonedDiskName, polls, clonedDiskID, troubled>>

\* What a search for the clone's name brings.
Listed(b) == {d \in Clones : status[d] # "absent" /\ name[d] = clonedDiskName[b]}

\* Mutant: one turn too many.
TurnOnceMore(b) ==
  /\ polls' = [polls EXCEPT ![b] = @ + 1]
  /\ Goto(b, IF polls'[b] <= ClonePolls THEN "poll" ELSE "failed")

\* After the last turn the call times out.
Turn(b) ==
  /\ polls' = [polls EXCEPT ![b] = @ + 1]
  /\ Goto(b, IF polls'[b] < ClonePolls THEN "poll" ELSE "failed")

\* Mutant: the poll takes the disk without waiting for it.
PollLocked(b) ==
  /\ pc[b] = "poll"
  /\ \/ \E first \in Listed(b) :
          /\ clonedDiskID' = [clonedDiskID EXCEPT ![b] = first]
          /\ Goto(b, "attach")
          /\ UNCHANGED polls
     \/ /\ Listed(b) = {}
        /\ Turn(b)
        /\ UNCHANGED clonedDiskID
  /\ UNCHANGED <<clock, source, clonedDiskName, troubled, repeated, engine>>

\* The first disk listed counts, whoever made it and whatever VM it is attached
\* to.
Poll(b) ==
  /\ pc[b] = "poll"
  /\ \/ \E first \in Listed(b) :
          /\ status[first] = "ok"
          /\ clonedDiskID' = [clonedDiskID EXCEPT ![b] = first]
          /\ Goto(b, "attach")
          /\ UNCHANGED polls
     \/ /\ Listed(b) = {} \/ \E first \in Listed(b) : status[first] # "ok"
        /\ Turn(b)
        /\ UNCHANGED clonedDiskID
  /\ UNCHANGED <<clock, source, clonedDiskName, troubled, repeated, engine>>

\* Mutant: a refused attachment counts as one.
AttachAnyway(b) ==
  /\ pc[b] = "attach"
  /\ Attach(b, clonedDiskID[b]) \/ UNCHANGED engine
  /\ Goto(b, "attached")
  /\ UNCHANGED <<clock, source, clonedDiskName, polls, clonedDiskID, troubled, repeated>>

\* Mutant: a builder whose disk was taken looks for another one.
AttachOrPoll(b) ==
  /\ pc[b] = "attach"
  /\ \/ Attach(b, clonedDiskID[b]) /\ Goto(b, "attached")
     \/ ~Attachable(clonedDiskID[b]) /\ Goto(b, "poll") /\ UNCHANGED engine
  /\ UNCHANGED <<clock, source, clonedDiskName, polls, clonedDiskID, troubled, repeated>>

AttachDisk(b) ==
  /\ pc[b] = "attach"
  /\ \/ Attach(b, clonedDiskID[b]) /\ Goto(b, "attached")
     \/ ~Attachable(clonedDiskID[b]) /\ Goto(b, "failed") /\ UNCHANGED engine
  /\ UNCHANGED <<clock, source, clonedDiskName, polls, clonedDiskID, troubled, repeated>>

\* No answer within the retry budget, or one that cannot be used, such as a
\* source disk without a storage domain.
RequestFails(b) ==
  /\ pc[b] \in {"getSourceDisk", "copy", "poll", "attach"}
  /\ \/ UNCHANGED engine
     \/ pc[b] = "copy" /\ \E made \in Copies : Copied(b, made)
     \/ pc[b] = "attach" /\ Attach(b, clonedDiskID[b])
  /\ Goto(b, "failed") /\ Trouble(b)
  /\ UNCHANGED <<clock, source, clonedDiskName, polls, clonedDiskID, repeated>>

Step(b) == GetSourceDisk(b) \/ CopyDisk(b) \/ Poll(b) \/ AttachDisk(b)

Ended(b) == pc[b] \in {"attached", "failed"}
Terminated == (\A b \in Builders : Ended(b)) /\ UNCHANGED vars

Next ==
  \/ \E b \in Builders : Begin(b) \/ Step(b) \/ RequestFails(b)
  \/ Tick \/ CopyEnds \/ Terminated

Spec == Init /\ [][Next]_vars

-----------------------------------------------------------------------------
TypeOK ==
  /\ clock \in 0 .. LastSecond
  /\ source \in [Builders -> Sources]
  /\ pc \in [Builders -> Points]
  /\ clonedDiskName \in [Builders -> Names \cup {Unnamed}]
  /\ polls \in [Builders -> 0 .. ClonePolls]
  /\ clonedDiskID \in [Builders -> Clones \cup {"nothing"}]
  /\ troubled \subseteq Builders /\ repeated \subseteq Builders
  /\ status \in [Clones -> {"absent", "locked", "ok"}]
  /\ name \in [Clones -> Names \cup {Unnamed}]
  /\ maker \in [Clones -> Builders \cup {"nobody"}]
  /\ attached \in [Clones -> Builders \cup {"nobody"}]

\* The builders configured with the same name that began in the same second.
Rivals(b) ==
  {c \in Builders \ {b} :
     source[c].name = source[b].name /\ clonedDiskName[c] = clonedDiskName[b]}

\* The boot disk of a VM is a finished copy of the disk its configuration
\* names, unless a builder of another disk was configured with the same name and
\* began in the same second: builders of differently named disks, or of one disk,
\* never harm each other's content, however their requests interleave.
RightContent ==
  \A d \in Clones : \A b \in Builders :
    attached[d] = b =>
      /\ status[d] = "ok"
      /\ source[maker[d]].disk = source[b].disk
           \/ \E c \in Rivals(b) : source[c].disk # source[b].disk

\* A call of cloneDisk that fails although all its requests were answered ran
\* out of turns, or lost the very disk it had found to a builder of its name.
FailureExplained ==
  \A b \in Builders :
    pc[b] = "failed" =>
      \/ b \in troubled
      \/ polls[b] = ClonePolls
      \/ clonedDiskID[b] # "nothing" /\ attached[clonedDiskID[b]] \in Rivals(b)

\* Nothing deletes a clone that was not attached.  When all calls have ended
\* one is left only where a builder of its name failed or had its Copy repeated;
\* builders that trade their clones leave none behind.
LeftoverExplained ==
  (\A b \in Builders : Ended(b)) =>
    \A d \in Clones :
      status[d] # "absent" /\ attached[d] = "nobody" =>
        \E b \in Builders :
          clonedDiskName[b] = name[d] /\ (pc[b] = "failed" \/ b \in repeated)

\* How far a call of cloneDisk is from its end.
Ahead == [begin |-> 5, getSourceDisk |-> 4, copy |-> 3, poll |-> 2, attach |-> 1,
          attached |-> 0, failed |-> 0]
Distance(b) == Ahead[pc[b]] + (ClonePolls - polls[b])

\* Whatever the other builders copy, find and attach, a builder's own steps bring its
\* call to an end, ClonePolls and five of them at most: losing a disk to another
\* builder sends none back to its poll.
CallsAdvance ==
  [][\A b \in Builders :
       pc'[b] # pc[b] \/ polls'[b] # polls[b] => Distance(b)' \in 0 .. Distance(b) - 1]_vars

\* "Generate unique name for cloned disk": the disk found by that name is a copy
\* of the disk cloneDisk was asked to clone.
ClonesOwnSource ==
  \A b \in Builders :
    pc[b] = "attached" => source[maker[clonedDiskID[b]]].disk = source[b].disk
=============================================================================
