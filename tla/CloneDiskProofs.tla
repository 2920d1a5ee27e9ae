--------------------------- MODULE CloneDiskProofs ---------------------------
(***************************************************************************)
(* Theorems about CloneDisk: for any number of builders, sources, clones   *)
(* and polls.                                                              *)
(***************************************************************************)
EXTENDS CloneDisk, FiniteSetTheorems, TLAPS

\* A builder has a name for its clone from its first step on, and it is made of
\* its source disk's name.
Naming ==
  \A b \in Builders :
    IF pc[b] = "begin" THEN clonedDiskName[b] = Unnamed
    ELSE clonedDiskName[b] \in Names /\ clonedDiskName[b][1] = source[b].name

\* The loop is entered with turns left.
Turning ==
  \A b \in Builders :
    pc[b] \in {"begin", "getSourceDisk", "copy", "poll"} => polls[b] < ClonePolls

\* A disk on the engine carries the name chosen by the builder that made it.
Making ==
  \A d \in Clones :
    IF status[d] = "absent" THEN attached[d] = "nobody"
    ELSE /\ maker[d] \in Builders /\ pc[maker[d]] # "begin"
         /\ name[d] = clonedDiskName[maker[d]]

\* A disk about to be attached is finished and carries the builder's name, and so
\* does an attached one, whose builder has ended.
Attaching ==
  /\ \A b \in Builders :
       pc[b] = "attach" =>
         /\ clonedDiskID[b] \in Clones /\ status[clonedDiskID[b]] = "ok"
         /\ name[clonedDiskID[b]] = clonedDiskName[b]
  /\ \A d \in Clones :
       attached[d] # "nobody" =>
         /\ status[d] = "ok" /\ Ended(attached[d])
         /\ name[d] = clonedDiskName[attached[d]]

IInv == TypeOK /\ Naming /\ Turning /\ Making /\ Attaching /\ FailureExplained

USE ClonePollsAssumption, RepeatsAssumption, LastSecondAssumption,
    NobodyAssumption, NothingAssumption

\* The initial state satisfies the invariant.
LEMMA InitInv == Init => IInv
<1> SUFFICES ASSUME Init PROVE IInv
  OBVIOUS
<1> USE DEF Init
<1>1. TypeOK
  BY DEF TypeOK, Points, Unnamed
<1>2. Naming /\ Turning /\ Making /\ Attaching /\ FailureExplained
  BY DEF Naming, Turning, Making, Attaching, FailureExplained
<1> QED
  BY <1>1, <1>2 DEF IInv

\* A step of the program or the engine keeps the types.
LEMMA NextType == IInv /\ [Next]_vars => TypeOK'
<1> SUFFICES ASSUME IInv, [Next]_vars PROVE TypeOK'
  OBVIOUS
<1> USE DEF IInv, TypeOK, Points, Goto, local, engine
<1>1. ASSUME NEW b \in Builders, Begin(b) PROVE TypeOK'
  <2>1. <<source[b].name, clock>> \in Names
    BY DEF Names
  <2> QED
    BY <1>1, <2>1 DEF Begin
<1>2. ASSUME NEW b \in Builders, GetSourceDisk(b) PROVE TypeOK'
  BY <1>2 DEF GetSourceDisk
<1>3. ASSUME NEW b \in Builders, CopyDisk(b) PROVE TypeOK'
  <2> PICK made \in Copies : Copied(b, made)
    BY <1>3 DEF CopyDisk
  <2>1. (/\ status \in [Clones -> {"absent", "locked", "ok"}]
         /\ name \in [Clones -> Names \cup {Unnamed}]
         /\ maker \in [Clones -> Builders \cup {"nobody"}]
         /\ attached \in [Clones -> Builders \cup {"nobody"}])'
    BY DEF Copied
  <2>2. repeated' \subseteq Builders
    BY <1>3 DEF CopyDisk
  <2> QED
    BY <1>3, <2>1, <2>2 DEF CopyDisk
<1>4. ASSUME NEW b \in Builders, Poll(b) PROVE TypeOK'
  <2>1. pc[b] = "poll" /\ polls[b] < ClonePolls
    BY <1>4 DEF Poll, Turning
  <2>2. polls[b] + 1 \in 0 .. ClonePolls
    BY <2>1
  <2>3. polls' \in [Builders -> 0 .. ClonePolls]
    BY <1>4, <2>2 DEF Poll, Turn
  <2>4. pc' \in [Builders -> Points]
    BY <1>4 DEF Poll, Turn
  <2>5. clonedDiskID' \in [Builders -> Clones \cup {"nothing"}]
    BY <1>4 DEF Poll, Listed
  <2> QED
    BY <1>4, <2>3, <2>4, <2>5 DEF Poll
<1>5. ASSUME NEW b \in Builders, AttachDisk(b) PROVE TypeOK'
  BY <1>5 DEF AttachDisk, Attach
<1>6. ASSUME NEW b \in Builders, RequestFails(b) PROVE TypeOK'
  <2>1. (/\ status \in [Clones -> {"absent", "locked", "ok"}]
         /\ name \in [Clones -> Names \cup {Unnamed}]
         /\ maker \in [Clones -> Builders \cup {"nobody"}]
         /\ attached \in [Clones -> Builders \cup {"nobody"}])'
    BY <1>6 DEF RequestFails, Copied, Attach
  <2> QED
    BY <1>6, <2>1 DEF RequestFails, Trouble
<1>7. CASE Tick
  BY <1>7 DEF Tick
<1>8. CASE CopyEnds
  BY <1>8 DEF CopyEnds
<1>9. CASE UNCHANGED vars
  BY <1>9 DEF vars
<1> QED
  BY <1>1, <1>2, <1>3, <1>4, <1>5, <1>6, <1>7, <1>8, <1>9 DEF Next, Step, Terminated

\* What a step does to the program points and the names: a builder begins once
\* and keeps its name.
LEMMA NextProgram == IInv /\ [Next]_vars => Naming' /\ Turning' /\ source' = source
<1> SUFFICES ASSUME IInv, [Next]_vars PROVE Naming' /\ Turning' /\ source' = source
  OBVIOUS
<1> USE DEF IInv, TypeOK, Naming, Turning, Goto, local, engine
<1>1. ASSUME NEW b \in Builders, Begin(b) PROVE Naming' /\ Turning' /\ source' = source
  <2>1. <<source[b].name, clock>> \in Names
    BY DEF Names
  <2> QED
    BY <1>1, <2>1 DEF Begin
<1>2. ASSUME NEW b \in Builders, GetSourceDisk(b) \/ CopyDisk(b)
      PROVE Naming' /\ Turning' /\ source' = source
  BY <1>2 DEF GetSourceDisk, CopyDisk
<1>3. ASSUME NEW b \in Builders, Poll(b) PROVE Naming' /\ Turning' /\ source' = source
  <2>1. source' = source /\ clonedDiskName' = clonedDiskName /\ pc[b] = "poll"
    BY <1>3 DEF Poll
  <2>2. pc'[b] # "begin" /\ \A c \in Builders \ {b} : pc'[c] = pc[c]
    BY <1>3 DEF Poll, Turn
  <2>3. Naming'
    BY <2>1, <2>2 DEF Names
  <2>4. Turning'
    BY <1>3 DEF Poll, Turn
  <2> QED
    BY <2>1, <2>3, <2>4
<1>4. ASSUME NEW b \in Builders, AttachDisk(b) \/ RequestFails(b)
      PROVE Naming' /\ Turning' /\ source' = source
  BY <1>4 DEF AttachDisk, RequestFails
<1>5. CASE Tick \/ CopyEnds \/ UNCHANGED vars
  BY <1>5 DEF Tick, CopyEnds, vars
<1> QED
  BY <1>1, <1>2, <1>3, <1>4, <1>5 DEF Next, Step, Terminated

\* The engine keeps the name of a disk, and its maker, while the disk is there.
LEMMA NextMaking == IInv /\ [Next]_vars => Making'
<1> SUFFICES ASSUME IInv, [Next]_vars PROVE Making'
  OBVIOUS
<1> USE DEF IInv, TypeOK, Making, Goto, local, engine
<1>1. ASSUME NEW b \in Builders, Begin(b) PROVE Making'
  BY <1>1 DEF Begin
<1>2. ASSUME NEW b \in Builders, NEW made \in Copies, Copied(b, made),
             pc[b] = "copy", clonedDiskName' = clonedDiskName,
             pc' \in {[pc EXCEPT ![b] = "poll"], [pc EXCEPT ![b] = "failed"]}
      PROVE Making'
  <2> SUFFICES ASSUME NEW d \in Clones
               PROVE IF status'[d] = "absent" THEN attached'[d] = "nobody"
                     ELSE /\ maker'[d] \in Builders /\ pc'[maker'[d]] # "begin"
                          /\ name'[d] = clonedDiskName'[maker'[d]]
    BY DEF Making
  <2>1. CASE d \in made
    BY <1>2, <2>1 DEF Copied
  <2>2. CASE d \notin made
    BY <1>2, <2>2 DEF Copied
  <2> QED
    BY <2>1, <2>2
<1>3. ASSUME NEW b \in Builders, CopyDisk(b) PROVE Making'
  BY <1>2, <1>3 DEF CopyDisk
<1>4. ASSUME NEW b \in Builders, GetSourceDisk(b) PROVE Making'
  BY <1>4 DEF GetSourceDisk
<1>5. ASSUME NEW b \in Builders, Poll(b) PROVE Making'
  BY <1>5 DEF Poll, Turn
<1>6. ASSUME NEW b \in Builders, AttachDisk(b) PROVE Making'
  BY <1>6 DEF AttachDisk, Attach, Attachable
<1>7. ASSUME NEW b \in Builders, RequestFails(b) PROVE Making'
  <2>1. CASE UNCHANGED engine \/ (pc[b] = "attach" /\ Attach(b, clonedDiskID[b]))
    BY <1>7, <2>1 DEF RequestFails, Attach, Attachable
  <2> QED
    BY <1>2, <1>7, <2>1 DEF RequestFails
<1>8. CASE CopyEnds
  <2> PICK d \in Clones :
        /\ status[d] = "locked"
        /\ \/ status' = [status EXCEPT ![d] = "ok"] /\ UNCHANGED <<name, maker>>
           \/ /\ status' = [status EXCEPT ![d] = "absent"]
              /\ name' = [name EXCEPT ![d] = Unnamed]
              /\ maker' = [maker EXCEPT ![d] = "nobody"]
    BY <1>8 DEF CopyEnds
  <2>1. attached[d] = "nobody"
    BY DEF Attaching
  <2> QED
    BY <1>8, <2>1 DEF CopyEnds
<1>9. CASE Tick \/ UNCHANGED vars
  BY <1>9 DEF Tick, vars
<1> QED
  BY <1>1, <1>3, <1>4, <1>5, <1>6, <1>7, <1>8, <1>9 DEF Next, Step, Terminated

\* A finished disk stays finished and keeps its name.
LEMMA NextAttaching == IInv /\ [Next]_vars => Attaching'
<1> SUFFICES ASSUME IInv, [Next]_vars PROVE Attaching'
  OBVIOUS
<1> USE DEF IInv, TypeOK, Attaching, Ended, Goto, local, engine
<1>1. ASSUME NEW b \in Builders, Begin(b) PROVE Attaching'
  BY <1>1 DEF Begin
<1>2. ASSUME NEW b \in Builders, NEW made \in Copies, Copied(b, made),
             pc[b] = "copy", UNCHANGED <<clonedDiskName, clonedDiskID>>,
             pc' \in {[pc EXCEPT ![b] = "poll"], [pc EXCEPT ![b] = "failed"]}
      PROVE Attaching'
  <2>1. \A d \in Clones : status[d] = "ok" => status'[d] = "ok" /\ name'[d] = name[d]
    BY <1>2 DEF Copied
  <2>2. attached' = attached /\ \A c \in Builders : c # b => pc'[c] = pc[c]
    BY <1>2 DEF Copied
  <2> QED
    BY <1>2, <2>1, <2>2
<1>3. ASSUME NEW b \in Builders, CopyDisk(b) PROVE Attaching'
  BY <1>2, <1>3 DEF CopyDisk
<1>4. ASSUME NEW b \in Builders, GetSourceDisk(b) PROVE Attaching'
  BY <1>4 DEF GetSourceDisk
<1>5. ASSUME NEW b \in Builders, Poll(b) PROVE Attaching'
  BY <1>5 DEF Poll, Turn, Listed
<1>6. ASSUME NEW b \in Builders, pc[b] = "attach", Attach(b, clonedDiskID[b]),
             UNCHANGED <<clonedDiskName, clonedDiskID>>,
             pc' \in {[pc EXCEPT ![b] = "attached"], [pc EXCEPT ![b] = "failed"]}
      PROVE Attaching'
  BY <1>6 DEF Attach, Attachable
<1>7. ASSUME NEW b \in Builders, AttachDisk(b) PROVE Attaching'
  BY <1>6, <1>7 DEF AttachDisk
<1>8. ASSUME NEW b \in Builders, RequestFails(b) PROVE Attaching'
  <2>1. CASE UNCHANGED engine
    BY <1>8, <2>1 DEF RequestFails
  <2> QED
    BY <1>2, <1>6, <1>8, <2>1 DEF RequestFails
<1>9. CASE CopyEnds
  BY <1>9 DEF CopyEnds
<1>10. CASE Tick \/ UNCHANGED vars
  BY <1>10 DEF Tick, vars
<1> QED
  BY <1>1, <1>3, <1>4, <1>5, <1>7, <1>8, <1>9, <1>10 DEF Next, Step, Terminated

\* A disk attached to another builder's VM was made by a builder of the same
\* name: the two are rivals.
LEMMA SameNameRivals ==
  ASSUME Naming, NEW b \in Builders, NEW c \in Builders, b # c,
         pc[b] # "begin", pc[c] # "begin", clonedDiskName[c] = clonedDiskName[b]
  PROVE  c \in Rivals(b)
BY DEF Naming, Rivals

\* The reason for a failure does not go away.
LEMMA NextFailures == IInv /\ [Next]_vars => FailureExplained'
<1> SUFFICES ASSUME IInv, [Next]_vars, NEW b \in Builders, pc'[b] = "failed"
             PROVE (\/ b \in troubled
                    \/ polls[b] = ClonePolls
                    \/ clonedDiskID[b] # "nothing" /\ attached[clonedDiskID[b]] \in Rivals(b))'
  BY DEF FailureExplained
<1> DEFINE Reason == \/ b \in troubled
                     \/ polls[b] = ClonePolls
                     \/ clonedDiskID[b] # "nothing" /\ attached[clonedDiskID[b]] \in Rivals(b)
<1> USE DEF IInv, TypeOK, Goto, local, engine
<1>0. source' = source /\ Naming'
  BY NextProgram
<1>1. CASE pc[b] = "failed"
  <2>1. Reason
    BY <1>1 DEF FailureExplained
  <2>2. b \in troubled => b \in troubled'
    BY DEF Next, Step, Begin, GetSourceDisk, CopyDisk, Poll, AttachDisk, RequestFails,
           Trouble, Tick, CopyEnds, Terminated, vars
  <2>3. polls'[b] = polls[b] /\ clonedDiskID'[b] = clonedDiskID[b]
        /\ clonedDiskName'[b] = clonedDiskName[b]
    BY <1>1 DEF Next, Step, Begin, GetSourceDisk, CopyDisk, Poll, Turn, AttachDisk,
                RequestFails, Tick, CopyEnds, Terminated, vars
  <2>4. ASSUME clonedDiskID[b] # "nothing", attached[clonedDiskID[b]] \in Rivals(b)
        PROVE attached'[clonedDiskID[b]] \in Rivals(b)'
    <3> DEFINE d == clonedDiskID[b]
               c == attached[d]
    <3>1. d \in Clones /\ c \in Builders /\ c # "nobody"
      BY <2>4 DEF Rivals
    <3>2. attached'[d] = c
      BY <3>1 DEF Next, Step, Begin, GetSourceDisk, CopyDisk, Poll, AttachDisk, Attach,
                  Attachable, Copied, RequestFails, Tick, CopyEnds, Terminated, vars
    <3>3. pc[c] # "begin"
      BY <3>1 DEF Attaching, Ended
    <3>4. clonedDiskName'[c] = clonedDiskName[c]
      BY <3>1, <3>3 DEF Next, Step, Begin, GetSourceDisk, CopyDisk, Poll, AttachDisk,
                        RequestFails, Tick, CopyEnds, Terminated, vars
    <3> QED
      BY <1>0, <2>3, <2>4, <3>2, <3>4 DEF Rivals
  <2> QED
    BY <2>1, <2>2, <2>3, <2>4
<1>2. CASE pc[b] # "failed"
  <2>1. ASSUME NEW c \in Builders, c # b PROVE ~(Begin(c) \/ Step(c) \/ RequestFails(c))
    BY <1>2, <2>1 DEF Begin, Step, GetSourceDisk, CopyDisk, Poll, Turn, AttachDisk, RequestFails
  <2>2. ~(Tick \/ CopyEnds \/ UNCHANGED vars)
    BY <1>2 DEF Tick, CopyEnds, vars
  <2>3. Begin(b) \/ Step(b) \/ RequestFails(b)
    BY <2>1, <2>2 DEF Next, Terminated
  <2>4. CASE Begin(b) \/ GetSourceDisk(b) \/ CopyDisk(b)
    BY <2>4 DEF Begin, GetSourceDisk, CopyDisk
  <2>5. CASE Poll(b)
    <3>1. Turn(b) /\ polls[b] < ClonePolls
      BY <2>5 DEF Poll, Turning
    <3>2. polls'[b] = polls[b] + 1 /\ ~(polls'[b] < ClonePolls)
      BY <3>1 DEF Turn
    <3> QED
      BY <3>1, <3>2
  <2>6. CASE AttachDisk(b)
    <3> DEFINE d == clonedDiskID[b]
               c == attached[d]
    <3>1. pc[b] = "attach" /\ ~Attachable(d) /\ attached' = attached
          /\ clonedDiskID' = clonedDiskID /\ clonedDiskName' = clonedDiskName
      BY <2>6 DEF AttachDisk
    <3>2. d \in Clones /\ status[d] = "ok" /\ name[d] = clonedDiskName[b]
      BY <3>1 DEF Attaching
    <3>3. c \in Builders /\ Ended(c) /\ name[d] = clonedDiskName[c]
      BY <3>1, <3>2 DEF Attachable, Attaching
    <3>4. c # b
      BY <3>1, <3>3 DEF Ended
    <3>5. c \in Rivals(b)
      BY <3>1, <3>2, <3>3, <3>4, SameNameRivals DEF Ended
    <3> QED
      BY <1>0, <3>1, <3>2, <3>5 DEF Rivals
  <2>7. CASE RequestFails(b)
    BY <2>7 DEF RequestFails, Trouble
  <2> QED
    BY <2>3, <2>4, <2>5, <2>6, <2>7 DEF Step
<1> QED
  BY <1>1, <1>2

\* The invariant is inductive.
LEMMA NextInv == IInv /\ [Next]_vars => IInv'
BY NextType, NextProgram, NextMaking, NextAttaching, NextFailures DEF IInv

\* Every reachable state satisfies the invariant.
THEOREM Invariance == Spec => []IInv
BY InitInv, NextInv, PTL DEF Spec

\* The state is well typed: no builder turns more than ClonePolls times.
THEOREM TypeCorrect == Spec => []TypeOK
<1>1. IInv => TypeOK
  BY DEF IInv
<1> QED
  BY <1>1, Invariance, PTL

\* However many builders interleave, a VM's boot disk is a finished copy of its
\* own source unless a builder of another disk has the same name.
THEOREM Isolation == Spec => []RightContent
<1>1. IInv => RightContent
  <2> SUFFICES ASSUME IInv, NEW d \in Clones, NEW b \in Builders, attached[d] = b
               PROVE /\ status[d] = "ok"
                     /\ source[maker[d]].disk = source[b].disk
                          \/ \E c \in Rivals(b) : source[c].disk # source[b].disk
    BY DEF RightContent
  <2>1. status[d] = "ok" /\ Ended(b) /\ name[d] = clonedDiskName[b]
    BY NobodyAssumption DEF IInv, Attaching
  <2>2. /\ maker[d] \in Builders /\ pc[maker[d]] # "begin"
        /\ clonedDiskName[maker[d]] = clonedDiskName[b]
    BY <2>1 DEF IInv, Making
  <2>3. maker[d] = b \/ maker[d] \in Rivals(b)
    BY <2>1, <2>2, SameNameRivals DEF IInv, Ended
  <2> QED
    BY <2>1, <2>3
<1> QED
  BY <1>1, Invariance, PTL

\* A call of cloneDisk that fails with every request answered timed out or lost
\* its disk to a rival.
THEOREM ExplainedFailures == Spec => []FailureExplained
<1>1. IInv => FailureExplained
  BY DEF IInv
<1> QED
  BY <1>1, Invariance, PTL
-----------------------------------------------------------------------------
(* The leftovers, by counting: among the builders of one name none of which      *)
(* failed or had its Copy repeated, as many disks were made as were attached.    *)

\* A disk is there only once its maker has sent its Copy.
Sending ==
  \A d \in Clones :
    status[d] # "absent" => pc[maker[d]] \notin {"begin", "getSourceDisk", "copy"}

\* A Copy that was answered and not repeated made one disk.
OneCopy ==
  \A c, d \in Clones :
    /\ status[c] # "absent" /\ status[d] # "absent" /\ maker[c] = maker[d]
    /\ maker[c] \notin repeated /\ pc[maker[c]] # "failed"
    => c = d

\* A builder that has attached a disk has it to itself.
Holding ==
  \A b \in Builders :
    pc[b] = "attached" => clonedDiskID[b] \in Clones /\ attached[clonedDiskID[b]] = b

\* However many builders there are, finitely many have begun.
FewBegun == IsFiniteSet({b \in Builders : pc[b] # "begin"})

Counting == Sending /\ OneCopy /\ Holding /\ FewBegun

\* A Copy that counts as one made one disk.
LEMMA NotRepeated ==
  ASSUME NEW made \in Copies, ~(Cardinality(made) > 1), NEW c \in made, NEW d \in made
  PROVE  c = d
<1>1. IsFiniteSet(made) /\ Cardinality(made) \in 1 .. Repeats
  BY DEF Copies
<1>2. Cardinality(made) = 1
  BY <1>1
<1>3. \E x : made = {x}
  BY <1>1, <1>2, FS_Singleton
<1> QED
  BY <1>3

\* A Copy is the first its builder sends, and the disks it makes are new.
LEMMA CopyCounting ==
  ASSUME IInv, Counting, NEW b \in Builders, NEW made \in Copies, Copied(b, made),
         pc[b] = "copy", UNCHANGED <<clonedDiskName, clonedDiskID>>,
         \/ /\ pc' = [pc EXCEPT ![b] = "poll"]
            /\ repeated' = IF Cardinality(made) > 1 THEN repeated \cup {b} ELSE repeated
         \/ pc' = [pc EXCEPT ![b] = "failed"] /\ repeated' = repeated
  PROVE  Sending' /\ OneCopy' /\ Holding'
<1> USE DEF IInv, TypeOK, Counting
<1>1. \A d \in Clones : /\ status'[d] # "absent" <=> d \in made \/ status[d] # "absent"
                        /\ maker'[d] = IF d \in made THEN b ELSE maker[d]
                        /\ d \in made => status[d] = "absent"
  BY DEF Copied, Copies
<1>2. \A d \in Clones : status[d] # "absent" => maker[d] \in Builders \ {b}
  BY DEF Sending, Making
<1>3. \A c \in Builders \ {b} : pc'[c] = pc[c] /\ (c \in repeated' <=> c \in repeated)
  OBVIOUS
<1>4. pc'[b] \in {"poll", "failed"} /\ (pc'[b] # "failed" /\ b \notin repeated' => ~(Cardinality(made) > 1))
  OBVIOUS
<1>5. Sending'
  BY <1>1, <1>2, <1>3, <1>4 DEF Sending
<1>6. OneCopy'
  <2> SUFFICES ASSUME NEW c \in Clones, NEW d \in Clones,
                      status'[c] # "absent", status'[d] # "absent", maker'[c] = maker'[d],
                      maker'[c] \notin repeated', pc'[maker'[c]] # "failed"
               PROVE c = d
    BY DEF OneCopy
  <2>1. CASE c \in made
    <3>1. d \in made
      BY <1>1, <1>2, <2>1
    <3> QED
      BY <1>1, <1>4, <2>1, <3>1, NotRepeated
  <2>2. CASE c \notin made
    <3>1. d \notin made
      BY <1>1, <1>2, <2>2
    <3> QED
      BY <1>1, <1>2, <1>3, <2>2, <3>1 DEF OneCopy
  <2> QED
    BY <2>1, <2>2
<1>7. Holding'
  BY <1>3, <1>4 DEF Holding, Copied
<1> QED
  BY <1>5, <1>6, <1>7

\* An attachment takes a free disk: nobody loses the one it has.
LEMMA AttachCounting ==
  ASSUME IInv, Counting, NEW b \in Builders, Attach(b, clonedDiskID[b]), pc[b] = "attach",
         UNCHANGED <<clonedDiskID, repeated>>,
         pc' \in {[pc EXCEPT ![b] = "attached"], [pc EXCEPT ![b] = "failed"]}
  PROVE  Sending' /\ OneCopy' /\ Holding'
<1> USE DEF IInv, TypeOK, Counting
<1>1. status' = status /\ maker' = maker /\ clonedDiskID[b] \in Clones
      /\ attached' = [attached EXCEPT ![clonedDiskID[b]] = b]
      /\ attached[clonedDiskID[b]] = "nobody"
  BY DEF Attach, Attachable, Attaching
<1>2. Sending' /\ OneCopy'
  BY <1>1 DEF Sending, OneCopy, Making
<1>3. Holding'
  BY <1>1 DEF Holding
<1> QED
  BY <1>2, <1>3

\* A step begins one builder at most.
LEMMA NextFewBegun == IInv /\ FewBegun /\ [Next]_vars => FewBegun'
<1> SUFFICES ASSUME IInv, FewBegun, [Next]_vars PROVE FewBegun'
  OBVIOUS
<1> DEFINE Begun == {b \in Builders : pc[b] # "begin"}
<1>1. \E b : Begun' \subseteq Begun \cup {b}
  BY DEF IInv, TypeOK, Next, Step, Begin, GetSourceDisk, CopyDisk, Poll, Turn, AttachDisk,
         RequestFails, Goto, Tick, CopyEnds, Terminated, vars, local
<1>2. PICK b : Begun' \subseteq Begun \cup {b}
  BY <1>1
<1>3. IsFiniteSet(Begun \cup {b})
  BY FS_AddElement DEF FewBegun
<1>4. IsFiniteSet(Begun')
  BY <1>2, <1>3, FS_Subset
<1> QED
  BY <1>4 DEF FewBegun

\* The strengthened invariant is inductive.
LEMMA NextCounting == IInv /\ Counting /\ [Next]_vars => Counting'
<1> SUFFICES ASSUME IInv, Counting, [Next]_vars PROVE Sending' /\ OneCopy' /\ Holding'
  BY NextFewBegun DEF Counting
<1> USE DEF IInv, TypeOK, Counting, Goto, local, engine
<1>1. ASSUME NEW b \in Builders, Begin(b) \/ GetSourceDisk(b)
      PROVE Sending' /\ OneCopy' /\ Holding'
  <2>1. /\ UNCHANGED <<status, maker, attached, clonedDiskID, repeated>>
        /\ pc[b] \in {"begin", "getSourceDisk"} /\ pc'[b] \in {"getSourceDisk", "copy"}
        /\ \A c \in Builders \ {b} : pc'[c] = pc[c]
    BY <1>1 DEF Begin, GetSourceDisk
  <2> QED
    BY <2>1 DEF Sending, OneCopy, Holding, Making
<1>2. ASSUME NEW b \in Builders, CopyDisk(b) PROVE Sending' /\ OneCopy' /\ Holding'
  BY <1>2, CopyCounting DEF CopyDisk
<1>3. ASSUME NEW b \in Builders, Poll(b) PROVE Sending' /\ OneCopy' /\ Holding'
  <2>1. /\ UNCHANGED <<status, maker, attached, repeated>>
        /\ pc[b] = "poll" /\ pc'[b] \in {"attach", "poll", "failed"}
        /\ \A c \in Builders \ {b} : pc'[c] = pc[c] /\ clonedDiskID'[c] = clonedDiskID[c]
    BY <1>3 DEF Poll, Turn
  <2> QED
    BY <2>1 DEF Sending, OneCopy, Holding, Making
<1>4. ASSUME NEW b \in Builders, AttachDisk(b) PROVE Sending' /\ OneCopy' /\ Holding'
  <2>1. CASE ~Attachable(clonedDiskID[b]) /\ Goto(b, "failed") /\ UNCHANGED engine
    BY <1>4, <2>1 DEF AttachDisk, Sending, OneCopy, Holding, Making
  <2> QED
    BY <1>4, <2>1, AttachCounting DEF AttachDisk
<1>5. ASSUME NEW b \in Builders, RequestFails(b) PROVE Sending' /\ OneCopy' /\ Holding'
  <2>1. CASE UNCHANGED engine
    BY <1>5, <2>1 DEF RequestFails, Sending, OneCopy, Holding, Making
  <2> QED
    BY <1>5, <2>1, CopyCounting, AttachCounting DEF RequestFails
<1>6. CASE CopyEnds
  <2>1. /\ UNCHANGED <<pc, attached, clonedDiskID, repeated>>
        /\ \A d \in Clones : status'[d] # "absent" => status[d] # "absent" /\ maker'[d] = maker[d]
    BY <1>6 DEF CopyEnds
  <2> QED
    BY <2>1 DEF Sending, OneCopy, Holding
<1>7. CASE Tick \/ UNCHANGED vars
  BY <1>7 DEF Tick, vars, Sending, OneCopy, Holding
<1> QED
  BY <1>1, <1>2, <1>3, <1>4, <1>5, <1>6, <1>7 DEF Next, Step, Terminated

\* When all builders of a disk's name have attached one, each of them the only one
\* it made or another's, there are as many disks of the name as builders, and all
\* are taken.
LEMMA AllTaken ==
  ASSUME IInv, Counting, \A b \in Builders : Ended(b),
         NEW d \in Clones, status[d] # "absent",
         \A b \in Builders :
           clonedDiskName[b] = name[d] => pc[b] # "failed" /\ b \notin repeated
  PROVE  attached[d] # "nobody"
<1> DEFINE Namesakes == {b \in Builders : clonedDiskName[b] = name[d]}
           Maker == [b \in Namesakes |-> maker[clonedDiskID[b]]]
<1>1. \A b \in Namesakes : pc[b] = "attached" /\ b \notin repeated
  BY DEF Ended
<1>2. \A b \in Namesakes :
        /\ clonedDiskID[b] \in Clones /\ attached[clonedDiskID[b]] = b
        /\ status[clonedDiskID[b]] # "absent" /\ name[clonedDiskID[b]] = name[d]
  <2> TAKE b \in Namesakes
  <2>1. clonedDiskID[b] \in Clones /\ attached[clonedDiskID[b]] = b
    BY <1>1 DEF Counting, Holding
  <2>2. b # "nobody"
    OBVIOUS
  <2> QED
    BY <2>1, <2>2 DEF IInv, Attaching
<1>3. \A c \in Clones : status[c] # "absent" /\ name[c] = name[d] => maker[c] \in Namesakes
  BY DEF IInv, Making
<1>4. Maker \in Injection(Namesakes, Namesakes)
  <2>1. Maker \in [Namesakes -> Namesakes]
    BY <1>2, <1>3
  <2>2. ASSUME NEW a \in Namesakes, NEW b \in Namesakes, Maker[a] = Maker[b] PROVE a = b
    <3>1. maker[clonedDiskID[a]] = maker[clonedDiskID[b]] /\ maker[clonedDiskID[a]] \in Namesakes
      BY <1>2, <1>3, <2>2
    <3>2. clonedDiskID[a] = clonedDiskID[b]
      BY <1>1, <1>2, <3>1 DEF Counting, OneCopy
    <3> QED
      BY <1>2, <3>2
  <2> HIDE DEF Maker, Namesakes
  <2> QED
    BY <2>1, <2>2 DEF Injection, IsInjective
<1>5. IsFiniteSet(Namesakes)
  <2>1. Namesakes \subseteq {b \in Builders : pc[b] # "begin"}
    BY <1>1
  <2> QED
    BY <2>1, FS_Subset DEF Counting, FewBegun
<1>6. Maker \in Surjection(Namesakes, Namesakes)
  <2> HIDE DEF Maker, Namesakes
  <2> QED
    BY <1>4, <1>5, FS_Injection
<1>7. PICK b \in Namesakes : Maker[b] = maker[d]
  BY <1>3, <1>6 DEF Surjection
<1>8. maker[d] \in Namesakes /\ maker[clonedDiskID[b]] = maker[d]
  BY <1>3, <1>7
<1>9. clonedDiskID[b] = d
  BY <1>1, <1>2, <1>8 DEF Counting, OneCopy
<1> QED
  BY <1>2, <1>9

\* A clone is left behind only where a builder of its name failed or had its Copy
\* repeated, however many builders trade their clones.
THEOREM ExplainedLeftovers == Spec => []LeftoverExplained
<1>1. Init => Counting
  <2> SUFFICES ASSUME Init PROVE Counting
    OBVIOUS
  <2>1. Sending /\ OneCopy /\ Holding
    BY DEF Init, Sending, OneCopy, Holding
  <2>2. {b \in Builders : pc[b] # "begin"} = {}
    BY DEF Init
  <2> QED
    BY <2>1, <2>2, FS_EmptySet DEF Counting, FewBegun
<1>2. IInv /\ Counting => LeftoverExplained
  BY AllTaken DEF LeftoverExplained
<1> QED
  BY <1>1, <1>2, NextCounting, Invariance, PTL DEF Spec

\* A step of a builder brings it, and it alone, nearer to the end of its call.
LEMMA StepAdvances ==
  ASSUME IInv, NEW b \in Builders, Begin(b) \/ Step(b) \/ RequestFails(b)
  PROVE  /\ Distance(b)' \in 0 .. Distance(b) - 1
         /\ \A c \in Builders \ {b} : pc'[c] = pc[c] /\ polls'[c] = polls[c]
<1> USE DEF IInv, TypeOK, Goto, Distance, Ahead
<1>1. CASE Begin(b) \/ GetSourceDisk(b) \/ CopyDisk(b)
  BY <1>1 DEF Begin, GetSourceDisk, CopyDisk
<1>2. CASE Poll(b)
  <2>1. pc[b] = "poll" /\ polls[b] < ClonePolls
    BY <1>2 DEF Poll, Turning
  <2>2. CASE pc' = [pc EXCEPT ![b] = "attach"] /\ UNCHANGED polls
    BY <2>1, <2>2
  <2>3. CASE Turn(b)
    <3>1. polls' = [polls EXCEPT ![b] = polls[b] + 1]
          /\ pc' = [pc EXCEPT ![b] = IF polls[b] + 1 < ClonePolls THEN "poll" ELSE "failed"]
      BY <2>3 DEF Turn
    <3> QED
      BY <2>1, <3>1
  <2> QED
    BY <1>2, <2>2, <2>3 DEF Poll
<1>3. CASE AttachDisk(b)
  BY <1>3 DEF AttachDisk
<1>4. CASE RequestFails(b)
  <2>1. /\ pc[b] \in {"getSourceDisk", "copy", "poll", "attach"}
        /\ pc' = [pc EXCEPT ![b] = "failed"] /\ UNCHANGED polls
    BY <1>4 DEF RequestFails
  <2> QED
    BY <2>1
<1> QED
  BY <1>1, <1>2, <1>3, <1>4 DEF Step

\* Every builder's call comes nearer to its end with each of its steps, whatever the
\* others do.
THEOREM EveryCallAdvances == Spec => CallsAdvance
<1>1. IInv /\ [Next]_vars =>
        [\A b \in Builders :
           pc'[b] # pc[b] \/ polls'[b] # polls[b] =>
             Distance(b)' \in 0 .. Distance(b) - 1]_vars
  <2> SUFFICES ASSUME IInv, [Next]_vars, NEW b \in Builders,
                      pc'[b] # pc[b] \/ polls'[b] # polls[b]
               PROVE  Distance(b)' \in 0 .. Distance(b) - 1
    OBVIOUS
  <2>1. ASSUME NEW c \in Builders, Begin(c) \/ Step(c) \/ RequestFails(c)
        PROVE  Distance(b)' \in 0 .. Distance(b) - 1
    BY <2>1, StepAdvances
  <2>2. ~(Tick \/ CopyEnds \/ Terminated \/ UNCHANGED vars)
    BY DEF Tick, CopyEnds, Terminated, vars, local
  <2> QED
    BY <2>1, <2>2 DEF Next
<1> QED
  BY <1>1, Invariance, PTL DEF Spec, CallsAdvance
=============================================================================
