------------------------------ MODULE Lookups ------------------------------
(***************************************************************************)
(* builder/olvm/step_create_vm.go: how the names of the configuration      *)
(* become the objects of the engine that a VM is made of.  The engine      *)
(* lists objects in an order of its own and stepCreateVM takes the first   *)
(* one that matches, so any match may be the one taken.                    *)
(***************************************************************************)
EXTENDS Naturals

CONSTANTS
  Inventories,   \* what the engine has: records of sets, see Kinds
  Wanted         \* what the configuration names

Kinds == {"clusters", "templates", "disks", "networks", "profiles"}

ASSUME InventoriesAssumption == \A i \in Inventories : DOMAIN i = Kinds
\* As deriveSourceType leaves it.
ASSUME WantedAssumption == \A w \in Wanted : w.sourceType \in {"template", "disk"}

VARIABLES
  inventory,     \* the engine's objects, which stay as they are
  wanted,        \* the configuration, after Prepare
  found,         \* the objects found so far, by kind
  stage          \* the lookup that comes next

vars == <<inventory, wanted, found, stage>>

Nothing == [cluster |-> {}, source |-> {}, network |-> {}, profile |-> {}]

Init ==
  /\ inventory \in Inventories /\ wanted \in Wanted
  /\ found = Nothing /\ stage = "getClusterID"

\* A lookup that finds nothing ends the step with an error.
Take(kind, matches, next) ==
  /\ \/ \E first \in matches :
          found' = [found EXCEPT ![kind] = {first}] /\ stage' = next
     \/ matches = {} /\ stage' = "failed" /\ UNCHANGED found
  /\ UNCHANGED <<inventory, wanted>>

Named(objects, name) == {o \in objects : o.name = name}

getClusterID ==
  /\ stage = "getClusterID"
  /\ Take("cluster", Named(inventory.clusters, wanted.cluster), "getSourceResourceInfo")

\* getTemplateInfo: an id is used as it is, and fails when its details are got.
Templates ==
  IF wanted.source_template_id # ""
    THEN {t \in inventory.templates : t.id = wanted.source_template_id}
    ELSE {t \in Named(inventory.templates, wanted.source_template_name) :
            t.version = wanted.source_template_version}

\* Mutant: a disk is looked for by its alias only.
DisksByAlias ==
  IF wanted.source_disk_id # ""
    THEN {d \in inventory.disks : d.id = wanted.source_disk_id}
    ELSE {d \in inventory.disks : d.alias = wanted.source_disk_name}

\* getDiskInfo: by alias, and by name if no disk has the alias.
Disks ==
  LET aliased == {d \in inventory.disks : d.alias = wanted.source_disk_name} IN
  IF wanted.source_disk_id # ""
    THEN {d \in inventory.disks : d.id = wanted.source_disk_id}
    ELSE IF aliased # {} THEN aliased ELSE Named(inventory.disks, wanted.source_disk_name)

getSourceResourceInfo ==
  /\ stage = "getSourceResourceInfo"
  /\ Take("source", IF wanted.sourceType = "disk" THEN Disks ELSE Templates, "findNetwork")

\* The networks of a cluster are networks of its data center.
NetworksOf(cluster) == {n \in inventory.networks : n.dataCenter = cluster.dataCenter}

\* manageNetworkInterfaces: among all networks, then among the cluster's.
findNetwork ==
  /\ stage = "findNetwork"
  /\ LET all == Named(inventory.networks, wanted.network_name)
         ofCluster == UNION {Named(NetworksOf(c), wanted.network_name) : c \in found.cluster}
     IN Take("network", IF all # {} THEN all ELSE ofCluster, "findProfile")

findProfile ==
  /\ stage = "findProfile"
  /\ Take("profile",
          Named(inventory.profiles,
                IF wanted.vnic_profile = "" THEN wanted.network_name
                ELSE wanted.vnic_profile),
          "done")

Done == stage \in {"done", "failed"} /\ UNCHANGED vars

Next == getClusterID \/ getSourceResourceInfo \/ findNetwork \/ findProfile \/ Done

Spec == Init /\ [][Next]_vars

-----------------------------------------------------------------------------
\* What the documentation's parameters stand for: "name of the source template"
\* in one version, a disk by name, or by alias as the code says; an id wins.
IsSource(o) ==
  CASE wanted.sourceType = "template" /\ wanted.source_template_id # "" ->
         o.id = wanted.source_template_id
    [] wanted.sourceType = "template" /\ wanted.source_template_id = "" ->
         o.name = wanted.source_template_name /\ o.version = wanted.source_template_version
    [] wanted.sourceType = "disk" /\ wanted.source_disk_id # "" ->
         o.id = wanted.source_disk_id
    [] OTHER -> wanted.source_disk_name \in {o.name, o.alias}

Sources == IF wanted.sourceType = "disk" THEN inventory.disks ELSE inventory.templates

\* Whatever else carries the same names: the VM is made of a source that is the
\* one asked for, and the step fails only if something it names is not there.
FindsWhatIsThere ==
  /\ \A o \in found.source : o \in Sources /\ IsSource(o)
  /\ stage = "failed" =>
       \/ Named(inventory.clusters, wanted.cluster) = {}
       \/ {o \in Sources : IsSource(o)} = {}
       \/ Named(inventory.networks, wanted.network_name) = {}
       \/ Named(inventory.profiles, IF wanted.vnic_profile = "" THEN wanted.network_name
                                    ELSE wanted.vnic_profile) = {}
=============================================================================
