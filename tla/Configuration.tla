---------------------------- MODULE Configuration ----------------------------
(***************************************************************************)
(* From the parameters of a packer template to the requests that carry     *)
(* them: config.go, source_config.go, access_config.go, Builder.Prepare,   *)
(* and the places in the steps that read the configuration.                *)
(*                                                                         *)
(* A parameter that is not given has its type's zero value, as the decoder *)
(* leaves it; a *bool is nil, written Nil, or points to a value, <<b>>.    *)
(* Prepare's parts run in the order of the code, one action each, and      *)
(* change config in place.                                                 *)
(***************************************************************************)
EXTENDS BuildConfig, Integers

CONSTANTS
  Given,           \* the parameters as written: records like Zero
  Environments,    \* OLVM_URL, OLVM_USERNAME, OLVM_PASSWORD; "" is unset
  Templates        \* source templates: cores and memory in MB, 0 is unset

Nil == <<>>
Malformed == "::"      \* a string url.Parse and uuid.Parse refuse

Zero ==
  [olvm_url |-> "", username |-> "", password |-> "",
   cluster |-> "", source_template_name |-> "", source_template_version |-> 0,
   source_template_id |-> "", source_disk_name |-> "", source_disk_id |-> "",
   vm_name |-> "", vm_vcpu_count |-> 0, vm_memory_mb |-> 0, vm_storage_driver |-> "",
   address |-> "", netmask |-> "", dns_servers |-> <<>>, os_interface_name |-> "",
   network_name |-> "", vnic_profile |-> "",
   destination_template_name |-> "", destination_template_description |-> "",
   cleanup_interfaces |-> Nil, cleanup_vm |-> Nil, template_seal |-> Nil,
   export_host |-> "", export_directory |-> "", export_file_name |-> "",
   max_retries |-> 0, retry_interval_sec |-> 0,
   ssh_timeout |-> 0, ssh_wait_timeout |-> 0]

Parameters == DOMAIN Zero
AccessParameters == {"olvm_url", "username", "password"}
Pointers == {"cleanup_interfaces", "cleanup_vm", "template_seal"}

ASSUME GivenAssumption ==
  \A g \in Given :
    /\ DOMAIN g = Parameters
    /\ \A p \in Pointers : g[p] \in {Nil, <<TRUE>>, <<FALSE>>}
    /\ g.source_template_version \in Int
ASSUME EnvironmentsAssumption ==
  \A e \in Environments : DOMAIN e = AccessParameters

VARIABLES
  given,           \* the parameters of this build
  environment,     \* the process's environment
  template,        \* what the engine says of the source template
  config,          \* c, then b.config
  sourceType,      \* SourceConfig.sourceType
  errs,            \* the parameters complained of
  stage,           \* what runs next
  vm,              \* the VM to add
  nic,             \* its network and vNIC profile
  initialization   \* its cloud-init data

inputs == <<given, environment, template>>
requests == <<vm, nic, initialization>>
vars == <<inputs, config, sourceType, errs, stage, requests>>

NoRequest == <<>>

Init ==
  /\ given \in Given /\ environment \in Environments /\ template \in Templates
  /\ config = given /\ sourceType = "" /\ errs = {} /\ stage = "AccessConfig"
  /\ vm = NoRequest /\ nic = NoRequest /\ initialization = NoRequest

\* Every parameter of defaults that is at its zero value gets the default.
WithDefaults(c, defaults) ==
  [p \in DOMAIN c |->
     IF p \in DOMAIN defaults /\ c[p] = Zero[p] THEN defaults[p] ELSE c[p]]

-----------------------------------------------------------------------------
(* Builder.Prepare *)

\* AccessConfig.Prepare
AccessConfigPrepare ==
  /\ stage = "AccessConfig"
  /\ config' = WithDefaults(config, environment)
  /\ errs' = errs \cup {p \in AccessParameters : config'[p] = ""}
                  \cup {p \in {"olvm_url"} : config'[p] = Malformed}
  /\ stage' = "SourceConfig"
  /\ UNCHANGED <<inputs, sourceType, requests>>

HasTemplate == config.source_template_name # "" \/ config.source_template_id # ""
HasDisk == config.source_disk_name # "" \/ config.source_disk_id # ""

\* Mutant: no type without a source.
deriveSourceTypeNone ==
  CASE HasTemplate -> "template" [] HasDisk /\ ~HasTemplate -> "disk" [] OTHER -> ""

deriveSourceType == IF HasDisk /\ ~HasTemplate THEN "disk" ELSE "template"

\* The parameters of one kind of source: both given, or an id that is no UUID.
SourceErrors(byName, byID) ==
  {p \in {byID} : config[byID] = Malformed \/ (config[byName] # "" /\ config[byID] # "")}

\* Mutant: no complaint when both or none of the kinds are given.
SourceConfigUnchecked ==
  /\ stage = "SourceConfig"
  /\ sourceType' = deriveSourceType
  /\ errs' = errs \cup
       (IF sourceType' = "template"
          THEN SourceErrors("source_template_name", "source_template_id")
          ELSE SourceErrors("source_disk_name", "source_disk_id"))
  /\ config' = WithDefaults(config, [cluster |-> "Default"])
  /\ stage' = "NewConfig"
  /\ UNCHANGED <<inputs, requests>>

\* SourceConfig.Prepare.  A version below 1 is no version.
SourceConfigPrepare ==
  /\ stage = "SourceConfig"
  /\ sourceType' = deriveSourceType
  /\ errs' = errs
       \cup {p \in {"source"} : HasTemplate = HasDisk}
       \cup (IF sourceType' = "template"
               THEN SourceErrors("source_template_name", "source_template_id")
               ELSE SourceErrors("source_disk_name", "source_disk_id"))
  /\ config' = [WithDefaults(config, [cluster |-> "Default"])
                  EXCEPT !.source_template_version =
                    IF config.source_template_name # "" /\ sourceType' = "template" /\ @ < 1
                      THEN 1 ELSE @]
  /\ stage' = "NewConfig"
  /\ UNCHANGED <<inputs, requests>>

Defaults ==
  [vm_name |-> "packer-uuid", netmask |-> "255.255.255.0",
   vm_storage_driver |-> "virtio-scsi", os_interface_name |-> "eth0",
   vm_vcpu_count |-> 1, vm_memory_mb |-> 1024, network_name |-> "ovirtmgmt",
   max_retries |-> 4, retry_interval_sec |-> 2, template_seal |-> <<TRUE>>]

\* Mutant: the export's parameters are not checked against each other.
NewConfigUnchecked ==
  /\ stage = "NewConfig"
  /\ config' = WithDefaults(config, Defaults)
  /\ errs' = errs \cup
       {p \in {"vm_storage_driver"} : config'[p] \notin {"virtio-scsi", "virtio"}}
  /\ stage' = "Comm"
  /\ UNCHANGED <<inputs, sourceType, requests>>

\* NewConfig, up to the communicator.
NewConfig ==
  /\ stage = "NewConfig"
  /\ config' = WithDefaults(config,
                 IF config.export_host = "" THEN Defaults
                 ELSE [p \in DOMAIN Defaults \cup {"export_directory"} |->
                         IF p = "export_directory" THEN "/tmp" ELSE Defaults[p]])
  /\ errs' = errs
       \cup {p \in {"vm_storage_driver"} : config'[p] \notin {"virtio-scsi", "virtio"}}
       \cup {p \in {"export_host"} :
               /\ config[p] = ""
               /\ config.export_directory # "" \/ config.export_file_name # ""}
  /\ stage' = "Comm"
  /\ UNCHANGED <<inputs, sourceType, requests>>

\* The SDK's communicator.Config.Prepare for SSH, as far as the code after it
\* relies on it: ssh_timeout gets a default, and ssh_wait_timeout wins.  What it
\* may complain of by itself is not modelled.
CommPrepare ==
  /\ stage = "Comm"
  /\ config' = IF config.ssh_wait_timeout # 0
                 THEN [config EXCEPT !.ssh_timeout = config.ssh_wait_timeout]
                 ELSE WithDefaults(config, [ssh_timeout |-> 5])
  /\ stage' = "SSHTimeout"
  /\ UNCHANGED <<inputs, sourceType, errs, requests>>

\* The rest of NewConfig.  Any error of any part rejects the configuration.
SSHTimeout ==
  /\ stage = "SSHTimeout"
  /\ config' = [WithDefaults(config, [ssh_timeout |-> 5]) EXCEPT !.ssh_wait_timeout = 0]
  /\ stage' = IF errs = {} THEN "Builder" ELSE "rejected"
  /\ UNCHANGED <<inputs, sourceType, errs, requests>>

\* The name of the destination template holds the second of the clock.
BaseName ==
  CASE config.source_template_name # "" -> config.source_template_name
    [] config.source_template_name = "" /\ config.source_disk_name # "" ->
         config.source_disk_name
    [] OTHER -> "olvm"

\* Mutant: a cleanup that is switched off is switched on again.
BuilderPrepareAlways ==
  /\ stage = "Builder"
  /\ config' = [WithDefaults(config,
                  [destination_template_name |-> BaseName, destination_template_description |-> config.vm_name])
                  EXCEPT !.cleanup_interfaces = <<TRUE>>, !.cleanup_vm = <<TRUE>>]
  /\ stage' = "prepared"
  /\ UNCHANGED <<inputs, sourceType, errs, requests>>

\* Builder.Prepare, after NewConfig.
BuilderPrepare ==
  /\ stage = "Builder"
  /\ LET named == WithDefaults(config,
           [destination_template_name |-> BaseName,
            destination_template_description |-> config.vm_name,
            cleanup_interfaces |-> <<TRUE>>, cleanup_vm |-> <<TRUE>>])
     IN config' = IF config.export_host = "" THEN named
                  ELSE WithDefaults(named,
                         [export_file_name |-> named.destination_template_name])
  /\ stage' = "prepared"
  /\ UNCHANGED <<inputs, sourceType, errs, requests>>

-----------------------------------------------------------------------------
(* What the steps make of it. *)

\* getTemplateInfo, getDiskInfo
ResourceInfo ==
  IF sourceType = "disk" THEN [cores |-> 1, memory |-> 1024]
  ELSE [cores |-> IF template.cores = 0 THEN 1 ELSE template.cores,
        memory |-> IF template.memory = 0 THEN 1024 ELSE template.memory]

\* Mutant: the source's resources come first.
getVMResourcesOfSource == ResourceInfo

getVMResources ==
  [cores  |-> IF config.vm_vcpu_count = 0 THEN ResourceInfo.cores ELSE config.vm_vcpu_count,
   memory |-> IF config.vm_memory_mb = 0 THEN ResourceInfo.memory ELSE config.vm_memory_mb]

ViaScsi == config.vm_storage_driver = "virtio-scsi"

\* A VM made of a template keeps its disk and is told whether to have a
\* VirtIO-SCSI controller; a Blank one gets the clone attached by an interface.
CreateVM ==
  /\ stage = "prepared"
  /\ vm' =
       [cores      |-> getVMResources.cores,
        memory     |-> getVMResources.memory,
        template   |-> IF sourceType = "template" THEN "source" ELSE "Blank",
        virtioScsi |-> IF sourceType = "template" THEN <<ViaScsi>> ELSE Nil,
        interface  |-> CASE sourceType = "template" -> "inherited"
                         [] sourceType # "template" /\ ViaScsi -> "virtio_scsi"
                         [] OTHER -> "virtio"]
  /\ stage' = "created"
  /\ UNCHANGED <<inputs, config, sourceType, errs, nic, initialization>>

\* The names manageNetworkInterfaces looks for.
ManageNetworkInterfaces ==
  /\ stage = "created"
  /\ nic' = [network |-> config.network_name,
             profile |-> IF config.vnic_profile = "" THEN config.network_name
                         ELSE config.vnic_profile]
  /\ stage' = "connected"
  /\ UNCHANGED <<inputs, config, sourceType, errs, vm, initialization>>

\* stepSetupInitialRun: DNS servers are part of the static network.
SetupInitialRun ==
  /\ stage = "connected"
  /\ initialization' =
       [hostname |-> config.vm_name,
        ip  |-> IF config.address = "" THEN Nil
                ELSE <<config.os_interface_name, config.address, config.netmask>>,
        dns |-> IF config.address = "" THEN <<>> ELSE config.dns_servers]
  /\ stage' = "initialized"
  /\ UNCHANGED <<inputs, config, sourceType, errs, vm, nic>>

commHost == config.address

Done == stage \in {"rejected", "initialized"} /\ UNCHANGED vars

Next ==
  \/ AccessConfigPrepare \/ SourceConfigPrepare \/ NewConfig \/ CommPrepare
  \/ SSHTimeout \/ BuilderPrepare
  \/ CreateVM \/ ManageNetworkInterfaces \/ SetupInitialRun \/ Done

Spec == Init /\ [][Next]_vars

-----------------------------------------------------------------------------
Stages == {"AccessConfig", "SourceConfig", "NewConfig", "Comm", "SSHTimeout",
           "Builder", "rejected", "prepared", "created", "connected", "initialized"}

Accepted == stage \in {"prepared", "created", "connected", "initialized"}

TypeOK ==
  /\ stage \in Stages
  /\ sourceType \in IF stage \in {"AccessConfig", "SourceConfig"} THEN {""}
                     ELSE {"template", "disk"}
  /\ DOMAIN config = Parameters /\ errs \subseteq Parameters \cup {"source"}
  /\ \A p \in Pointers :
       config[p] \in {Nil, <<TRUE>>, <<FALSE>>}

\* The documentation's rules: the three access parameters, from the environment
\* if need be; exactly one of four source parameters, an id being a UUID; a known
\* storage driver; an export host with any other export parameter.
AccessDocumented ==
  /\ \A p \in AccessParameters : given[p] # "" \/ environment[p] # ""
  /\ given.olvm_url # Malformed
  /\ given.olvm_url = "" => environment.olvm_url # Malformed

SourceParameters ==
  {"source_template_name", "source_template_id", "source_disk_name", "source_disk_id"}

SourceDocumented ==
  /\ \E p \in SourceParameters : {q \in SourceParameters : given[q] # ""} = {p}
  /\ Malformed \notin {given.source_template_id, given.source_disk_id}

RestDocumented ==
  /\ given.vm_storage_driver \in {"", "virtio-scsi", "virtio"}
  /\ given.export_host = "" => given.export_directory = "" /\ given.export_file_name = ""

Documented == AccessDocumented /\ SourceDocumented /\ RestDocumented

\* Prepare accepts what the documentation allows and rejects everything else,
\* though it checks in four functions, over values some of them have changed.
AcceptedIffDocumented ==
  /\ Accepted => Documented
  /\ stage = "rejected" => ~Documented

\* The configuration as Build takes it.
BuildConfig(c) ==
  [source |-> sourceType, cleanupVM |-> c.cleanup_vm[1],
   cleanupInterfaces |-> c.cleanup_interfaces[1], export |-> c.export_host # ""]

\* What the steps take for granted: they follow the pointers, look for a network,
\* retry with a budget that is not 0, clone a disk only when there is one, and
\* export to a file in a directory.
MeetsAssumptions ==
  Accepted =>
    /\ Nil \notin {config.cleanup_vm, config.cleanup_interfaces, config.template_seal}
    /\ BuildConfig(config) \in ConfigType
    /\ (sourceType = "disk") <=> (config.source_disk_name # "" \/ config.source_disk_id # "")
    /\ config.source_template_name # "" => config.source_template_version >= 1
    /\ config.max_retries # 0 /\ config.network_name # "" /\ config.ssh_timeout # 0
    /\ config.destination_template_name # ""
    /\ config.export_host # "" => config.export_directory # "" /\ config.export_file_name # ""

\* No default of any part replaces a parameter that is given, an explicit FALSE
\* included.  The exceptions are the ones the code states: a version below 1; and of
\* the two SSH timeouts one is left, ssh_wait_timeout if both are given.
GivenKept ==
  Accepted =>
    /\ \A p \in Parameters \ {"ssh_timeout", "ssh_wait_timeout"} :
         given[p] # Zero[p] =>
           config[p] = given[p] \/ (p = "source_template_version" /\ given[p] < 1)
    /\ IF given.ssh_wait_timeout # 0 THEN config.ssh_timeout = given.ssh_wait_timeout
       ELSE given.ssh_timeout # 0 => config.ssh_timeout = given.ssh_timeout

\* The values docs/builders/README.md:123-137 states for parameters not given.
Stated ==
  [vm_vcpu_count |-> 1, vm_memory_mb |-> 1024, vm_storage_driver |-> "virtio-scsi",
   network_name |-> "ovirtmgmt", os_interface_name |-> "eth0", netmask |-> "255.255.255.0"]

Asked(p) == IF given[p] = Zero[p] THEN Stated[p] ELSE given[p]

\* The requests carry the parameters given and, for those that are not, exactly the
\* values the documentation states: never the source's own resources, nor anything
\* an earlier part has left behind.  The kind of source decides where the storage
\* driver goes, and the guest takes the address the communicator connects to.
RequestsAsDocumented ==
  stage = "initialized" =>
    /\ vm.cores = Asked("vm_vcpu_count") /\ vm.memory = Asked("vm_memory_mb")
    /\ IF given.source_disk_name = "" /\ given.source_disk_id = ""
         THEN /\ vm.template = "source"
              /\ vm.virtioScsi = <<Asked("vm_storage_driver") = "virtio-scsi">>
         ELSE /\ vm.template = "Blank"
              /\ vm.interface =
                   IF Asked("vm_storage_driver") = "virtio-scsi" THEN "virtio_scsi" ELSE "virtio"
    /\ nic.network = Asked("network_name")
    /\ nic.profile = IF given.vnic_profile # "" THEN given.vnic_profile ELSE nic.network
    /\ given.vm_name # "" => initialization.hostname = given.vm_name
    /\ initialization.ip =
         IF given.address = "" THEN Nil
         ELSE <<Asked("os_interface_name"), given.address, Asked("netmask")>>
    /\ commHost = given.address

-----------------------------------------------------------------------------
(* What the documentation says, and the code does not do.                  *)

\* "dns_servers - List of DNS server IP addresses": the servers given are told to
\* the guest, also in the documentation's examples, which give no address.
DnsServersReachGuest == stage = "initialized" => initialization.dns = given.dns_servers
=============================================================================
