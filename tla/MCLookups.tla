----------------------------- MODULE MCLookups -----------------------------
(***************************************************************************)
(* Instances of Lookups for TLC: two data centers whose networks and       *)
(* profiles carry the same names, a template in two versions, and disks    *)
(* with one name or alias in common.  Any of them may be missing.          *)
(***************************************************************************)
EXTENDS Lookups

Universe ==
  [clusters  |-> {[name |-> "Default", dataCenter |-> "d1"],
                  [name |-> "Other", dataCenter |-> "d2"]},
   templates |-> {[id |-> "t1", name |-> "ubuntu", version |-> 1],
                  [id |-> "t2", name |-> "ubuntu", version |-> 2],
                  [id |-> "t3", name |-> "debian", version |-> 1]},
   disks     |-> {[id |-> "k1", name |-> "image", alias |-> "ubuntu"],
                  [id |-> "k2", name |-> "ubuntu", alias |-> "image"],
                  [id |-> "k3", name |-> "other", alias |-> "ubuntu"]},
   networks  |-> {[id |-> "n1", name |-> "ovirtmgmt", dataCenter |-> "d1"],
                  [id |-> "n2", name |-> "ovirtmgmt", dataCenter |-> "d2"]},
   profiles  |-> {[id |-> "p1", name |-> "ovirtmgmt", network |-> "n1"],
                  [id |-> "p2", name |-> "ovirtmgmt", network |-> "n2"],
                  [id |-> "p3", name |-> "fast", network |-> "n2"]}]

AllInventories ==
  [clusters : SUBSET Universe.clusters, templates : SUBSET Universe.templates,
   disks : SUBSET Universe.disks, networks : SUBSET Universe.networks,
   profiles : SUBSET Universe.profiles]

ByName(type, version) ==
  [sourceType |-> type, cluster |-> "Default",
   source_template_id |-> "", source_template_version |-> version,
   source_template_name |-> IF type = "template" THEN "ubuntu" ELSE "",
   source_disk_id |-> "", source_disk_name |-> IF type = "disk" THEN "ubuntu" ELSE "",
   network_name |-> "ovirtmgmt", vnic_profile |-> ""]

AllWanted ==
  {ByName("template", 2), ByName("disk", 0),
   [ByName("template", 1) EXCEPT !.source_template_name = "", !.source_template_id = "t3"],
   [ByName("disk", 0) EXCEPT !.source_disk_name = "", !.source_disk_id = "k1",
                             !.vnic_profile = "fast"]}
=============================================================================
