----------------------------- MODULE MCCloneDisk -----------------------------
(***************************************************************************)
(* Instances of CloneDisk for TLC.                                         *)
(***************************************************************************)
EXTENDS CloneDisk, TLC

\* Two disks given by name, the first also by its id, the second by its id.
AllSources == {[disk |-> "disk1", name |-> "name1"], [disk |-> "disk1", name |-> ""],
               [disk |-> "disk2", name |-> "name2"], [disk |-> "disk2", name |-> ""]}

\* Clones are told apart by nothing but what is recorded of them.
ClonesAlike == Permutations(Clones)
=============================================================================
