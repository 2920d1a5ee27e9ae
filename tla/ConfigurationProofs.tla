------------------------- MODULE ConfigurationProofs -------------------------
(***************************************************************************)
(* Theorems about Configuration: for any parameters, environment and       *)
(* source template.                                                        *)
(***************************************************************************)
EXTENDS Configuration, TLAPS

\* The stages before which a part of Prepare has not run yet.
BeforeSource == {"AccessConfig", "SourceConfig"}
BeforeRest == BeforeSource \cup {"NewConfig"}
BeforeTimeout == BeforeRest \cup {"Comm", "SSHTimeout"}

\* What a part of Prepare complains of.
SourceComplaints == {"source", "source_template_id", "source_disk_id"}
RestComplaints == {"vm_storage_driver", "export_host"}

\* Parameters without a default, and those with one in NewConfig or later that are
\* checked against others before.
Undefaulted ==
  SourceParameters \cup {"export_host", "address", "dns_servers", "vnic_profile"}
CheckedLate == {"vm_storage_driver", "export_directory", "export_file_name"}

Unfilled ==
  /\ stage = "AccessConfig" => config = given
  /\ \A p \in Undefaulted : config[p] = given[p]
  /\ stage \in BeforeRest => \A p \in CheckedLate : config[p] = given[p]

\* The complaints so far are those the documentation's rules give cause for.
Complaining ==
  /\ errs \subseteq AccessParameters \cup SourceComplaints \cup RestComplaints
  /\ IF stage = "AccessConfig" THEN errs = {}
     ELSE errs \cap AccessParameters = {} <=> AccessDocumented
  /\ IF stage \in BeforeSource THEN errs \cap SourceComplaints = {}
     ELSE errs \cap SourceComplaints = {} <=> SourceDocumented
  /\ IF stage \in BeforeRest THEN errs \cap RestComplaints = {}
     ELSE errs \cap RestComplaints = {} <=> RestDocumented
  /\ stage \notin BeforeTimeout => (stage = "rejected" <=> errs # {})

\* What each part has filled in.
Filled ==
  /\ stage \notin BeforeSource =>
       /\ (sourceType = "disk") <=> (HasDisk /\ ~HasTemplate)
       /\ sourceType = "template" /\ config.source_template_name # "" =>
            config.source_template_version >= 1
  /\ stage \notin BeforeRest =>
       /\ config.template_seal # Nil /\ config.max_retries # 0 /\ config.network_name # ""
       /\ config.export_host # "" => config.export_directory # ""
  /\ stage \notin BeforeTimeout => config.ssh_timeout # 0
  /\ Accepted =>
       /\ config.cleanup_vm # Nil /\ config.cleanup_interfaces # Nil
       /\ config.destination_template_name # ""
       /\ config.export_host # "" => config.export_file_name # ""

Free == Parameters \ {"ssh_timeout", "ssh_wait_timeout"}

\* GivenKept in every stage.
Keeping ==
  \A p \in Free :
    given[p] # Zero[p] =>
      config[p] = given[p] \/ (p = "source_template_version" /\ given[p] < 1)

\* The parameters with a stated value, before and after NewConfig fills them in.
Defaulted ==
  \A p \in DOMAIN Stated :
    config[p] = IF stage \in BeforeRest THEN given[p] ELSE Asked(p)

\* The SSH timeouts, before and after the communicator looks at them.
Timeouts ==
  /\ stage \in BeforeRest \cup {"Comm"} =>
       config.ssh_timeout = given.ssh_timeout /\ config.ssh_wait_timeout = given.ssh_wait_timeout
  /\ stage \notin BeforeRest \cup {"Comm"} =>
       IF given.ssh_wait_timeout # 0 THEN config.ssh_timeout = given.ssh_wait_timeout
       ELSE given.ssh_timeout # 0 => config.ssh_timeout = given.ssh_timeout

Inputs ==
  /\ given \in Given /\ environment \in Environments
  /\ config.source_template_version \in Int

IInv ==
  TypeOK /\ Inputs /\ Unfilled /\ Complaining /\ Filled /\ Keeping /\ Defaulted /\ Timeouts

\* The names of all parameters.
LEMMA ParameterNames ==
  /\ Undefaulted \cup CheckedLate \subseteq Free
  /\ AccessParameters \cup Pointers \cup SourceParameters \subseteq Free
  /\ {"source_template_version", "max_retries", "network_name", "cluster",
      "destination_template_name", "address", "vm_name", "vm_vcpu_count",
      "vm_memory_mb"} \subseteq Free
  /\ {"ssh_timeout", "ssh_wait_timeout"} \subseteq Parameters
BY DEF Undefaulted, CheckedLate, AccessParameters, Pointers, SourceParameters, Free,
       Parameters, Zero

\* The parameters with a stated value, which are the defaults of NewConfig.
LEMMA StatedValues ==
  /\ DOMAIN Stated = {"vm_vcpu_count", "vm_memory_mb", "vm_storage_driver", "network_name",
                      "os_interface_name", "netmask"}
  /\ DOMAIN Stated \subseteq DOMAIN Defaults \cap Free
  /\ \A p \in DOMAIN Stated : Stated[p] = Defaults[p]
BY DEF Stated, Defaults, Free, Parameters, Zero

\* The zero values the proofs need.
LEMMA ZeroValues ==
  /\ Zero["olvm_url"] = "" /\ Zero["username"] = "" /\ Zero["password"] = ""
  /\ Zero["vm_storage_driver"] = "" /\ Zero["export_directory"] = ""
  /\ Zero["export_file_name"] = "" /\ Zero["network_name"] = "" /\ Zero["max_retries"] = 0
  /\ Zero["template_seal"] = Nil /\ Zero["cleanup_vm"] = Nil
  /\ Zero["cleanup_interfaces"] = Nil /\ Zero["ssh_timeout"] = 0
  /\ Zero["destination_template_name"] = "" /\ Zero["source_template_name"] = ""
  /\ Zero["source_disk_name"] = "" /\ Zero["vm_vcpu_count"] = 0 /\ Zero["vm_memory_mb"] = 0
  /\ Zero["vm_name"] = "" /\ Zero["ssh_wait_timeout"] = 0
BY DEF Zero

\* The initial state satisfies the invariant.
LEMMA InitInv == Init => IInv
<1> SUFFICES ASSUME Init PROVE IInv
  OBVIOUS
<1>1. DOMAIN config = Parameters /\ \A p \in Pointers : config[p] \in {Nil, <<TRUE>>, <<FALSE>>}
  BY GivenAssumption DEF Init
<1>2. TypeOK
  BY <1>1 DEF Init, TypeOK, Stages
<1>3. Inputs
  BY GivenAssumption DEF Init, Inputs
<1>4. Unfilled /\ Complaining /\ Filled /\ Keeping /\ Defaulted /\ Timeouts
  BY DEF Init, Unfilled, Complaining, Filled, Keeping, Defaulted, Timeouts, BeforeSource,
         BeforeRest, BeforeTimeout, Accepted
<1> QED
  BY <1>2, <1>3, <1>4 DEF IInv

\* AccessConfig.Prepare complains exactly of what the rules for access forbid.
LEMMA AccessInv == IInv /\ AccessConfigPrepare => IInv'
<1> SUFFICES ASSUME IInv, AccessConfigPrepare PROVE IInv'
  OBVIOUS
<1> USE DEF IInv
<1>1. /\ stage = "AccessConfig" /\ stage' = "SourceConfig" /\ config = given /\ errs = {}
      /\ UNCHANGED <<given, environment, template, sourceType>>
      /\ DOMAIN environment = AccessParameters
  BY EnvironmentsAssumption DEF AccessConfigPrepare, Unfilled, Complaining, Inputs, inputs
<1>2. /\ DOMAIN config' = Parameters
      /\ \A p \in Parameters :
           config'[p] = IF p \in AccessParameters /\ given[p] = Zero[p]
                          THEN environment[p] ELSE given[p]
  <2>1. config' = WithDefaults(given, environment)
    BY <1>1 DEF AccessConfigPrepare
  <2>2. DOMAIN given = Parameters
    BY <1>1 DEF TypeOK
  <2> QED
    BY <1>1, <2>1, <2>2 DEF WithDefaults
<1>3. \A p \in Parameters \ AccessParameters : config'[p] = given[p]
  BY <1>2
<1>4. \A p \in AccessParameters : Zero[p] = ""
  BY ZeroValues DEF AccessParameters
<1>5. \A p \in AccessParameters :
        config'[p] = IF given[p] = "" THEN environment[p] ELSE given[p]
  BY <1>2, <1>4, ParameterNames DEF Free
<1>6. errs' = {p \in AccessParameters : config'[p] = ""}
                \cup {p \in {"olvm_url"} : config'[p] = Malformed}
  BY <1>1 DEF AccessConfigPrepare
<1>7. errs' \subseteq AccessParameters
  BY <1>6 DEF AccessParameters
<1>8. errs' = {} <=> AccessDocumented
  BY <1>5, <1>6 DEF AccessDocumented, AccessParameters, Malformed
<1>9. TypeOK'
  BY <1>1, <1>2, <1>3, <1>7, ParameterNames
  DEF TypeOK, Stages, Pointers, AccessParameters, Free
<1>10. Inputs' /\ Unfilled'
  BY <1>1, <1>3, ParameterNames
  DEF Inputs, Unfilled, Undefaulted, SourceParameters, CheckedLate, AccessParameters, Free
<1>11. Complaining'
  <2>1. AccessDocumented' = AccessDocumented
    BY <1>1 DEF AccessDocumented
  <2>2. errs' \cap SourceComplaints = {} /\ errs' \cap RestComplaints = {}
    BY <1>7 DEF AccessParameters, SourceComplaints, RestComplaints
  <2>3. errs' \cap AccessParameters = errs'
    BY <1>7
  <2> QED
    BY <1>1, <1>7, <1>8, <2>1, <2>2, <2>3
    DEF Complaining, BeforeSource, BeforeRest, BeforeTimeout
<1>12. Filled'
  BY <1>1 DEF Filled, BeforeSource, BeforeRest, BeforeTimeout, Accepted
<1>13. Keeping'
  BY <1>1, <1>2 DEF Keeping, Free
<1>14. Defaulted' /\ Timeouts'
  BY <1>1, <1>3, StatedValues, ParameterNames
  DEF Defaulted, Timeouts, BeforeRest, BeforeSource, AccessParameters, Free
<1> QED
  BY <1>9, <1>10, <1>11, <1>12, <1>13, <1>14

\* A part that replaces only zero values, or a version below 1, keeps what is given.
LEMMA KeepingStep ==
  ASSUME Keeping, given' = given,
         \A p \in Free : \/ config'[p] = config[p] \/ config[p] = Zero[p]
                         \/ p = "source_template_version" /\ config[p] < 1
  PROVE  Keeping'
BY DEF Keeping

\* Exactly one source parameter, in terms of the two kinds of source.
LEMMA OneSource ==
  (\E p \in SourceParameters : {q \in SourceParameters : given[q] # ""} = {p})
    <=> (\E p \in SourceParameters :
           given[p] # "" /\ \A q \in SourceParameters \ {p} : given[q] = "")
<1>1. ASSUME NEW p \in SourceParameters
      PROVE  {q \in SourceParameters : given[q] # ""} = {p} <=>
               given[p] # "" /\ \A q \in SourceParameters \ {p} : given[q] = ""
  <2> DEFINE Set == {q \in SourceParameters : given[q] # ""}
  <2>1. ASSUME Set = {p}
        PROVE  given[p] # "" /\ \A q \in SourceParameters \ {p} : given[q] = ""
    <3>1. p \in Set /\ \A q \in SourceParameters \ {p} : q \notin Set
      BY <2>1
    <3> QED
      BY <3>1
  <2>2. ASSUME given[p] # "", \A q \in SourceParameters \ {p} : given[q] = ""
        PROVE  Set = {p}
    <3>1. \A q : q \in Set <=> q \in {p}
      BY <2>2
    <3> QED
      BY <3>1
  <2> QED
    BY <2>1, <2>2
<1> QED
  BY <1>1

\* SourceConfig.Prepare complains exactly of what the rules for sources forbid.
LEMMA SourceInv == IInv /\ SourceConfigPrepare => IInv'
<1> SUFFICES ASSUME IInv, SourceConfigPrepare PROVE IInv'
  OBVIOUS
<1> USE DEF IInv
<1>1. /\ stage = "SourceConfig" /\ stage' = "NewConfig" /\ sourceType' = deriveSourceType
      /\ UNCHANGED <<given, environment, template>>
      /\ DOMAIN config = Parameters
  BY DEF SourceConfigPrepare, TypeOK, inputs
<1>2. /\ DOMAIN config' = Parameters
      /\ \A p \in Parameters \ {"cluster", "source_template_version"} : config'[p] = config[p]
      /\ config'["cluster"] = config["cluster"] \/ config["cluster"] = Zero["cluster"]
      /\ config'["source_template_version"] =
           IF config["source_template_name"] # "" /\ sourceType' = "template"
              /\ config["source_template_version"] < 1
             THEN 1 ELSE config["source_template_version"]
  BY <1>1, ParameterNames DEF SourceConfigPrepare, WithDefaults, Free
<1>3. \A p \in SourceParameters : config[p] = given[p] /\ config'[p] = config[p]
  BY <1>2, ParameterNames DEF Unfilled, Undefaulted, SourceParameters, Free
<1>4. /\ HasTemplate <=> given["source_template_name"] # "" \/ given["source_template_id"] # ""
      /\ HasDisk <=> given["source_disk_name"] # "" \/ given["source_disk_id"] # ""
      /\ HasTemplate' = HasTemplate /\ HasDisk' = HasDisk
  BY <1>3 DEF HasTemplate, HasDisk, SourceParameters
<1> DEFINE New == {p \in {"source"} : HasTemplate = HasDisk}
                  \cup (IF sourceType' = "template"
                          THEN SourceErrors("source_template_name", "source_template_id")
                          ELSE SourceErrors("source_disk_name", "source_disk_id"))
<1>5. errs' = errs \cup New
  BY DEF SourceConfigPrepare
<1>6. New \subseteq SourceComplaints
  BY DEF SourceErrors, SourceComplaints
<1>7. New = {} <=> SourceDocumented
  <2>1. New = {} <=>
          /\ HasTemplate # HasDisk
          /\ sourceType' = "template" =>
               SourceErrors("source_template_name", "source_template_id") = {}
          /\ sourceType' # "template" =>
               SourceErrors("source_disk_name", "source_disk_id") = {}
    BY DEF HasTemplate, HasDisk
  <2>2. sourceType' = "template" <=> ~(HasDisk /\ ~HasTemplate)
    BY <1>1 DEF deriveSourceType
  <2>3. SourceErrors("source_template_name", "source_template_id") = {} <=>
          /\ given["source_template_id"] # Malformed
          /\ given["source_template_name"] = "" \/ given["source_template_id"] = ""
    BY <1>3 DEF SourceErrors, SourceParameters
  <2>4. SourceErrors("source_disk_name", "source_disk_id") = {} <=>
          /\ given["source_disk_id"] # Malformed
          /\ given["source_disk_name"] = "" \/ given["source_disk_id"] = ""
    BY <1>3 DEF SourceErrors, SourceParameters
  <2>5. SourceDocumented <=>
          /\ \E p \in SourceParameters :
               given[p] # "" /\ \A q \in SourceParameters \ {p} : given[q] = ""
          /\ given["source_template_id"] # Malformed /\ given["source_disk_id"] # Malformed
    BY OneSource DEF SourceDocumented
  <2>6. (\E p \in SourceParameters :
           given[p] # "" /\ \A q \in SourceParameters \ {p} : given[q] = "")
        <=> /\ HasTemplate # HasDisk
            /\ given["source_template_name"] = "" \/ given["source_template_id"] = ""
            /\ given["source_disk_name"] = "" \/ given["source_disk_id"] = ""
    BY <1>4 DEF SourceParameters, HasTemplate, HasDisk
  <2>7. /\ ~HasTemplate => given["source_template_id"] # Malformed
        /\ ~HasDisk => given["source_disk_id"] # Malformed
    BY <1>4 DEF Malformed
  <2>8. HasTemplate # HasDisk <=> (HasTemplate <=> ~HasDisk)
    BY DEF HasTemplate, HasDisk
  <2> HIDE DEF New
  <2> QED
    BY <1>4, <2>1, <2>2, <2>3, <2>4, <2>5, <2>6, <2>7, <2>8
<1>8. TypeOK'
  <2>1. errs' \subseteq Parameters \cup {"source"}
    BY <1>5, <1>6, ParameterNames DEF TypeOK, SourceComplaints, SourceParameters, Free
  <2>2. \A p \in Pointers : config'[p] \in {Nil, <<TRUE>>, <<FALSE>>}
    BY <1>2, ParameterNames DEF TypeOK, Pointers, Free
  <2> QED
    BY <1>1, <1>2, <2>1, <2>2 DEF TypeOK, Stages, deriveSourceType
<1>9. Inputs'
  <2>1. config["source_template_version"] \in Int
    BY DEF Inputs
  <2>2. \/ config'["source_template_version"] = config["source_template_version"]
        \/ config'["source_template_version"] = 1
    BY <1>2
  <2>3. config'["source_template_version"] \in Int
    BY <2>1, <2>2
  <2> QED
    BY <1>1, <2>3 DEF Inputs
<1>10. Unfilled'
  BY <1>1, <1>2, ParameterNames
  DEF Unfilled, Undefaulted, SourceParameters, CheckedLate, Free, BeforeRest, BeforeSource
<1>11. Complaining'
  <2>1. AccessDocumented' = AccessDocumented /\ SourceDocumented' = SourceDocumented
    BY <1>1 DEF AccessDocumented, SourceDocumented
  <2>2. errs' \cap AccessParameters = errs \cap AccessParameters
    BY <1>5, <1>6 DEF AccessParameters, SourceComplaints
  <2>3. errs' \cap RestComplaints = errs \cap RestComplaints
    BY <1>5, <1>6 DEF RestComplaints, SourceComplaints
  <2>4. errs' \cap SourceComplaints = New
    BY <1>1, <1>5, <1>6 DEF Complaining, BeforeSource
  <2>5. errs' \subseteq AccessParameters \cup SourceComplaints \cup RestComplaints
    BY <1>5, <1>6 DEF Complaining
  <2> HIDE DEF New
  <2> QED
    BY <1>1, <1>7, <2>1, <2>2, <2>3, <2>4, <2>5
    DEF Complaining, BeforeSource, BeforeRest, BeforeTimeout
<1>12. Filled'
  <2>1. config'["source_template_name"] = config["source_template_name"]
    BY <1>3 DEF SourceParameters
  <2>2. ASSUME sourceType' = "template", config'["source_template_name"] # ""
        PROVE  config'["source_template_version"] >= 1
    <3> DEFINE v == config["source_template_version"]
    <3>1. config'["source_template_version"] = IF v < 1 THEN 1 ELSE v
      BY <1>2, <2>1, <2>2
    <3>2. v \in Int
      BY DEF Inputs
    <3> HIDE DEF v
    <3> QED
      BY <3>1, <3>2
  <2>3. (sourceType' = "disk") <=> (HasDisk' /\ ~HasTemplate')
    BY <1>1, <1>4 DEF deriveSourceType
  <2> QED
    BY <1>1, <2>2, <2>3 DEF Filled, BeforeSource, BeforeRest, BeforeTimeout, Accepted
<1>13. Keeping'
  BY <1>1, <1>2, KeepingStep DEF Free
<1>14. Defaulted' /\ Timeouts'
  BY <1>1, <1>2, StatedValues, ParameterNames
  DEF Defaulted, Timeouts, BeforeRest, BeforeSource, Free
<1> QED
  BY <1>8, <1>9, <1>10, <1>11, <1>12, <1>13, <1>14

\* NewConfig complains exactly of what the remaining rules forbid.
LEMMA NewConfigInv == IInv /\ NewConfig => IInv'
<1> SUFFICES ASSUME IInv, NewConfig PROVE IInv'
  OBVIOUS
<1> USE DEF IInv
<1> DEFINE Late == DOMAIN Defaults \cup {"export_directory"}
<1>1. /\ stage = "NewConfig" /\ stage' = "Comm" /\ sourceType' = sourceType
      /\ UNCHANGED <<given, environment, template>>
      /\ DOMAIN config = Parameters
  BY DEF NewConfig, TypeOK, inputs
<1>2. /\ DOMAIN config' = Parameters
      /\ \A p \in Parameters : config'[p] = config[p] \/ (config[p] = Zero[p] /\ p \in Late)
  BY <1>1 DEF NewConfig, WithDefaults
<1>3. DOMAIN Defaults =
        {"vm_name", "netmask", "vm_storage_driver", "os_interface_name", "vm_vcpu_count",
         "vm_memory_mb", "network_name", "max_retries", "retry_interval_sec", "template_seal"}
  BY DEF Defaults
<1>4. ASSUME NEW p \in DOMAIN Defaults, p \in Parameters
      PROVE  config'[p] = IF config[p] = Zero[p] THEN Defaults[p] ELSE config[p]
  <2>1. p # "export_directory"
    BY <1>3
  <2> QED
    BY <1>1, <1>4, <2>1 DEF NewConfig, WithDefaults
<1>5. /\ config'["vm_storage_driver"] =
           IF config["vm_storage_driver"] = "" THEN "virtio-scsi" ELSE config["vm_storage_driver"]
      /\ config'["template_seal"] =
           IF config["template_seal"] = Nil THEN <<TRUE>> ELSE config["template_seal"]
      /\ config'["max_retries"] = IF config["max_retries"] = 0 THEN 4 ELSE config["max_retries"]
      /\ config'["network_name"] =
           IF config["network_name"] = "" THEN "ovirtmgmt" ELSE config["network_name"]
  <2>1. /\ Defaults["vm_storage_driver"] = "virtio-scsi" /\ Defaults["template_seal"] = <<TRUE>>
        /\ Defaults["max_retries"] = 4 /\ Defaults["network_name"] = "ovirtmgmt"
    BY DEF Defaults
  <2> QED
    BY <1>3, <1>4, <2>1, ZeroValues, ParameterNames DEF Free, CheckedLate, Pointers
<1>6. config["export_host"] # "" => config'["export_directory"] # ""
  BY <1>1, ZeroValues, ParameterNames DEF NewConfig, WithDefaults, Free, CheckedLate
<1>7. \A p \in Undefaulted \cup {"cleanup_vm", "cleanup_interfaces", "source_template_version"} :
        config'[p] = config[p]
  BY <1>2, <1>3, ParameterNames DEF Undefaulted, SourceParameters, Free, Pointers
<1> DEFINE New == {p \in {"vm_storage_driver"} : config'[p] \notin {"virtio-scsi", "virtio"}}
                  \cup {p \in {"export_host"} :
                          /\ config[p] = ""
                          /\ config["export_directory"] # "" \/ config["export_file_name"] # ""}
<1>8. errs' = errs \cup New
  BY DEF NewConfig
<1>9. New \subseteq RestComplaints
  BY DEF RestComplaints
<1>10. \A p \in CheckedLate \cup {"export_host"} : config[p] = given[p]
  BY <1>1 DEF Unfilled, Undefaulted, BeforeRest
<1>11. New = {} <=> RestDocumented
  <2>1. New = {} <=>
          /\ config'["vm_storage_driver"] \in {"virtio-scsi", "virtio"}
          /\ given["export_host"] = "" =>
               given["export_directory"] = "" /\ given["export_file_name"] = ""
    BY <1>10 DEF CheckedLate
  <2>2. config'["vm_storage_driver"] \in {"virtio-scsi", "virtio"} <=>
          given["vm_storage_driver"] \in {"", "virtio-scsi", "virtio"}
    BY <1>5, <1>10 DEF CheckedLate
  <2> QED
    BY <2>1, <2>2 DEF RestDocumented
<1>12. TypeOK'
  <2>1. errs' \subseteq Parameters \cup {"source"}
    BY <1>8, <1>9, ParameterNames DEF TypeOK, RestComplaints, CheckedLate, Undefaulted, Free
  <2>2. \A p \in Pointers : config'[p] \in {Nil, <<TRUE>>, <<FALSE>>}
    BY <1>5, <1>7 DEF TypeOK, Pointers
  <2> QED
    BY <1>1, <1>2, <2>1, <2>2 DEF TypeOK, Stages
<1>13. Inputs'
  <2>1. config'["source_template_version"] = config["source_template_version"]
    BY <1>7
  <2> QED
    BY <1>1, <2>1 DEF Inputs
<1>14. Unfilled'
  BY <1>1, <1>7 DEF Unfilled, BeforeRest, BeforeSource
<1>15. Complaining'
  <2>1. /\ AccessDocumented' = AccessDocumented /\ SourceDocumented' = SourceDocumented
        /\ RestDocumented' = RestDocumented
    BY <1>1 DEF AccessDocumented, SourceDocumented, RestDocumented
  <2>2. errs' \cap AccessParameters = errs \cap AccessParameters
    BY <1>8, <1>9 DEF AccessParameters, RestComplaints
  <2>3. errs' \cap SourceComplaints = errs \cap SourceComplaints
    BY <1>8, <1>9 DEF RestComplaints, SourceComplaints
  <2>4. errs' \cap RestComplaints = New
    BY <1>1, <1>8, <1>9 DEF Complaining, BeforeRest
  <2>5. errs' \subseteq AccessParameters \cup SourceComplaints \cup RestComplaints
    BY <1>8, <1>9 DEF Complaining
  <2> HIDE DEF New
  <2> QED
    BY <1>1, <1>11, <2>1, <2>2, <2>3, <2>4, <2>5
    DEF Complaining, BeforeSource, BeforeRest, BeforeTimeout
<1>16. Filled'
  <2>1. HasDisk' = HasDisk /\ HasTemplate' = HasTemplate
    BY <1>7 DEF HasDisk, HasTemplate, Undefaulted, SourceParameters
  <2>2. config'["template_seal"] # Nil /\ config'["max_retries"] # 0 /\ config'["network_name"] # ""
    <3>1. config'["max_retries"] # 0
      <4> DEFINE old == config["max_retries"]  new == config'["max_retries"]
      <4>1. new = IF old = 0 THEN 4 ELSE old
        BY <1>5
      <4> HIDE DEF old, new
      <4>2. new # 0
        BY <4>1
      <4> QED
        BY <4>2 DEF new
    <3>2. config'["network_name"] # ""
      BY <1>5
    <3>3. config'["template_seal"] # Nil
      <4>1. <<TRUE>> # Nil
        BY DEF Nil
      <4> QED
        BY <1>5, <4>1, Zenon
    <3> QED
      BY <3>1, <3>2, <3>3
  <2>3. config'["export_host"] # "" => config'["export_directory"] # ""
    BY <1>6, <1>7 DEF Undefaulted
  <2>4. /\ config'["source_template_name"] = config["source_template_name"]
        /\ config'["source_template_version"] = config["source_template_version"]
    BY <1>7 DEF Undefaulted, SourceParameters
  <2> QED
    BY <1>1, <2>1, <2>2, <2>3, <2>4
    DEF Filled, BeforeSource, BeforeRest, BeforeTimeout, Accepted
<1>17. Keeping'
  BY <1>1, <1>2, KeepingStep DEF Free
<1>18. Defaulted'
  <2>1. \A p \in DOMAIN Stated :
          config[p] = given[p] /\ config'[p] = IF config[p] = Zero[p] THEN Stated[p] ELSE config[p]
    BY <1>1, <1>4, StatedValues DEF Defaulted, BeforeRest, Free
  <2> QED
    BY <1>1, <2>1 DEF Defaulted, Asked, BeforeRest, BeforeSource
<1>19. Timeouts'
  BY <1>1, <1>2, <1>3, ParameterNames DEF Timeouts, BeforeRest, BeforeSource
<1> QED
  BY <1>12, <1>13, <1>14, <1>15, <1>16, <1>17, <1>18, <1>19

\* The communicator's Prepare and what follows it change the SSH timeouts only, and
\* reject the configuration when there was any complaint.
LEMMA TimeoutInv == IInv /\ (CommPrepare \/ SSHTimeout) => IInv'
<1> SUFFICES ASSUME IInv, CommPrepare \/ SSHTimeout PROVE IInv'
  OBVIOUS
<1> USE DEF IInv
<1>1. /\ stage \in {"Comm", "SSHTimeout"} /\ stage' \in {"SSHTimeout", "Builder", "rejected"}
      /\ UNCHANGED <<given, environment, template, sourceType, errs>>
      /\ DOMAIN config = Parameters
  BY DEF CommPrepare, SSHTimeout, TypeOK, inputs
<1>2. DOMAIN config' = Parameters /\ \A p \in Free : config'[p] = config[p]
  BY <1>1 DEF CommPrepare, SSHTimeout, WithDefaults, Free
<1>3. stage' # "SSHTimeout" =>
        config'["ssh_timeout"] # 0 /\ (stage' = "rejected" <=> errs # {})
  <2>1. CASE CommPrepare
    BY <2>1 DEF CommPrepare
  <2>2. CASE SSHTimeout
    <3>1. stage' = IF errs = {} THEN "Builder" ELSE "rejected"
      BY <2>2 DEF SSHTimeout
    <3>2. config'["ssh_timeout"] =
            WithDefaults(config, [ssh_timeout |-> 5])["ssh_timeout"]
      BY <2>2, <1>1, ParameterNames DEF SSHTimeout, WithDefaults
    <3>3. WithDefaults(config, [ssh_timeout |-> 5])["ssh_timeout"] =
            IF config["ssh_timeout"] = 0 THEN 5 ELSE config["ssh_timeout"]
      BY <1>1, ZeroValues, ParameterNames DEF WithDefaults
    <3> QED
      BY <3>1, <3>2, <3>3
  <2> QED
    BY <2>1, <2>2
<1>4. TypeOK' /\ Inputs'
  BY <1>1, <1>2, ParameterNames DEF TypeOK, Inputs, Stages, Free
<1>5. Unfilled' /\ Keeping'
  BY <1>1, <1>2, KeepingStep, ParameterNames DEF Unfilled, BeforeRest, BeforeSource
<1>6. Complaining'
  <2>1. /\ AccessDocumented' = AccessDocumented /\ SourceDocumented' = SourceDocumented
        /\ RestDocumented' = RestDocumented
    BY <1>1 DEF AccessDocumented, SourceDocumented, RestDocumented
  <2> QED
    BY <1>1, <1>3, <2>1 DEF Complaining, BeforeSource, BeforeRest, BeforeTimeout
<1>7. Filled'
  <2>1. HasDisk' = HasDisk /\ HasTemplate' = HasTemplate
    BY <1>2, ParameterNames DEF HasDisk, HasTemplate, SourceParameters
  <2>2. \A p \in {"source_template_name", "source_template_version", "template_seal",
                  "max_retries", "network_name", "export_host", "export_directory"} :
          config'[p] = config[p]
    BY <1>2, ParameterNames DEF SourceParameters, Undefaulted, CheckedLate, Pointers
  <2> QED
    BY <1>1, <1>3, <2>1, <2>2 DEF Filled, BeforeSource, BeforeRest, BeforeTimeout, Accepted
<1>8. Defaulted'
  BY <1>1, <1>2, StatedValues DEF Defaulted, Asked, BeforeRest, BeforeSource
<1>9. Timeouts'
  <2>1. CASE CommPrepare
    <3>1. /\ config["ssh_timeout"] = given["ssh_timeout"]
          /\ config["ssh_wait_timeout"] = given["ssh_wait_timeout"]
      BY <2>1 DEF CommPrepare, Timeouts
    <3>2. config'["ssh_timeout"] =
            IF config["ssh_wait_timeout"] # 0 THEN config["ssh_wait_timeout"]
            ELSE IF config["ssh_timeout"] = 0 THEN 5 ELSE config["ssh_timeout"]
      BY <2>1, <1>1, ZeroValues, ParameterNames DEF CommPrepare, WithDefaults
    <3>3. stage' = "SSHTimeout"
      BY <2>1 DEF CommPrepare
    <3> QED
      BY <1>1, <3>1, <3>2, <3>3 DEF Timeouts, BeforeRest, BeforeSource
  <2>2. CASE SSHTimeout
    <3>1. config'["ssh_timeout"] = IF config["ssh_timeout"] = 0 THEN 5 ELSE config["ssh_timeout"]
      <4>1. config'["ssh_timeout"] = WithDefaults(config, [ssh_timeout |-> 5])["ssh_timeout"]
        BY <2>2, <1>1, ParameterNames DEF SSHTimeout, WithDefaults
      <4> QED
        BY <4>1, <1>1, ZeroValues, ParameterNames DEF WithDefaults
    <3>2. stage = "SSHTimeout" /\ stage' \in {"Builder", "rejected"}
      BY <2>2 DEF SSHTimeout
    <3> QED
      BY <1>1, <3>1, <3>2 DEF Timeouts, BeforeRest, BeforeSource
  <2> QED
    BY <2>1, <2>2
<1> QED
  BY <1>4, <1>5, <1>6, <1>7, <1>8, <1>9

\* Builder.Prepare completes what NewConfig left open.
LEMMA BuilderInv == IInv /\ BuilderPrepare => IInv'
<1> SUFFICES ASSUME IInv, BuilderPrepare PROVE IInv'
  OBVIOUS
<1> USE DEF IInv
<1> DEFINE Last == {"destination_template_name", "destination_template_description",
                    "cleanup_interfaces", "cleanup_vm", "export_file_name"}
           first == [destination_template_name |-> BaseName,
                     destination_template_description |-> config.vm_name,
                     cleanup_interfaces |-> <<TRUE>>, cleanup_vm |-> <<TRUE>>]
           named == WithDefaults(config, first)
<1>1. /\ stage = "Builder" /\ stage' = "prepared"
      /\ UNCHANGED <<given, environment, template, sourceType, errs>>
      /\ DOMAIN config = Parameters
      /\ config' = IF config.export_host = "" THEN named
                   ELSE WithDefaults(named, [export_file_name |-> named.destination_template_name])
  BY DEF BuilderPrepare, TypeOK, inputs
<1>2. /\ DOMAIN named = Parameters
      /\ \A p \in Parameters :
           named[p] = IF p \in Last \ {"export_file_name"} /\ config[p] = Zero[p]
                        THEN first[p] ELSE config[p]
  BY <1>1 DEF WithDefaults
<1> HIDE DEF named, first
<1>3. /\ DOMAIN config' = Parameters
      /\ \A p \in Parameters \ {"export_file_name"} : config'[p] = named[p]
      /\ config'["export_file_name"] =
           IF config["export_host"] # "" /\ named["export_file_name"] = ""
             THEN named["destination_template_name"] ELSE named["export_file_name"]
  BY <1>1, <1>2, ZeroValues, ParameterNames DEF WithDefaults, Free, CheckedLate
<1>4. \A p \in Parameters : config'[p] = config[p] \/ (config[p] = Zero[p] /\ p \in Last)
  BY <1>2, <1>3, ZeroValues
<1>5. \A p \in Undefaulted \cup {"template_seal", "max_retries", "network_name",
                              "export_directory", "source_template_version", "ssh_timeout"} :
        config'[p] = config[p]
  BY <1>4, ParameterNames DEF Undefaulted, SourceParameters, Free, Pointers, CheckedLate
<1>6. /\ config'["cleanup_vm"] = IF config["cleanup_vm"] = Nil THEN <<TRUE>> ELSE config["cleanup_vm"]
      /\ config'["cleanup_interfaces"] =
           IF config["cleanup_interfaces"] = Nil THEN <<TRUE>> ELSE config["cleanup_interfaces"]
  <2>1. first["cleanup_vm"] = <<TRUE>> /\ first["cleanup_interfaces"] = <<TRUE>>
    BY DEF first
  <2> QED
    BY <1>2, <1>3, <2>1, ZeroValues, ParameterNames DEF Pointers, Free
<1>7. config'["destination_template_name"] # ""
  <2>1. BaseName # ""
    BY DEF BaseName
  <2>2. first["destination_template_name"] = BaseName
    BY DEF first
  <2> QED
    BY <1>2, <1>3, <2>1, <2>2, ZeroValues, ParameterNames DEF Free
<1>8. config'["export_host"] # "" => config'["export_file_name"] # ""
  <2>1. config'["export_host"] = config["export_host"]
    BY <1>5 DEF Undefaulted
  <2>2. config'["destination_template_name"] = named["destination_template_name"]
    BY <1>3, ParameterNames DEF Free
  <2> QED
    BY <1>3, <1>7, <2>1, <2>2
<1>9. TypeOK'
  BY <1>1, <1>3, <1>5, <1>6 DEF TypeOK, Stages, Pointers
<1>10. Inputs'
  <2>1. config'["source_template_version"] = config["source_template_version"]
    BY <1>5
  <2> QED
    BY <1>1, <2>1 DEF Inputs
<1>11. Unfilled' /\ Keeping'
  BY <1>1, <1>4, <1>5, KeepingStep DEF Unfilled, BeforeRest, BeforeSource, Free
<1>12. Complaining'
  <2>1. /\ AccessDocumented' = AccessDocumented /\ SourceDocumented' = SourceDocumented
        /\ RestDocumented' = RestDocumented
    BY <1>1 DEF AccessDocumented, SourceDocumented, RestDocumented
  <2> QED
    BY <1>1, <2>1 DEF Complaining, BeforeSource, BeforeRest, BeforeTimeout
<1>13. Filled'
  <2>1. HasDisk' = HasDisk /\ HasTemplate' = HasTemplate
    BY <1>5 DEF HasDisk, HasTemplate, Undefaulted, SourceParameters
  <2>2. \A p \in {"source_template_name", "source_template_version", "template_seal",
                  "max_retries", "network_name", "export_host", "export_directory",
                  "ssh_timeout"} :
          config'[p] = config[p]
    BY <1>5 DEF Undefaulted, SourceParameters
  <2>3. config'["cleanup_vm"] # Nil /\ config'["cleanup_interfaces"] # Nil
    BY <1>6 DEF Nil
  <2> QED
    BY <1>1, <1>7, <1>8, <2>1, <2>2, <2>3
    DEF Filled, BeforeSource, BeforeRest, BeforeTimeout, Accepted
<1>14. Defaulted' /\ Timeouts'
  <2>1. \A p \in DOMAIN Stated \cup {"ssh_timeout"} : config'[p] = config[p]
    BY <1>4, StatedValues, ParameterNames DEF Free
  <2> QED
    BY <1>1, <2>1 DEF Defaulted, Timeouts, Asked, BeforeRest, BeforeSource
<1> QED
  BY <1>9, <1>10, <1>11, <1>12, <1>13, <1>14

\* The steps read the configuration and change nothing of it.
LEMMA StepsInv ==
  IInv /\ (CreateVM \/ ManageNetworkInterfaces \/ SetupInitialRun \/ UNCHANGED vars) => IInv'
<1> SUFFICES ASSUME IInv,
                    CreateVM \/ ManageNetworkInterfaces \/ SetupInitialRun \/ UNCHANGED vars
             PROVE IInv'
  OBVIOUS
<1> USE DEF IInv
<1>1. /\ UNCHANGED <<given, environment, template, config, sourceType, errs>>
      /\ \/ stage' = stage
         \/ /\ stage \in {"prepared", "created", "connected"}
            /\ stage' \in {"created", "connected", "initialized"}
  BY DEF CreateVM, ManageNetworkInterfaces, SetupInitialRun, vars, inputs
<1>2. TypeOK' /\ Inputs'
  BY <1>1 DEF TypeOK, Inputs, Stages
<1>3. Unfilled' /\ Keeping'
  BY <1>1 DEF Unfilled, Keeping, BeforeRest, BeforeSource
<1>4. Complaining'
  <2>1. /\ AccessDocumented' = AccessDocumented /\ SourceDocumented' = SourceDocumented
        /\ RestDocumented' = RestDocumented
    BY <1>1 DEF AccessDocumented, SourceDocumented, RestDocumented
  <2> QED
    BY <1>1, <2>1 DEF Complaining, BeforeSource, BeforeRest, BeforeTimeout
<1>5. Filled'
  <2>1. HasDisk' = HasDisk /\ HasTemplate' = HasTemplate
    BY <1>1 DEF HasDisk, HasTemplate
  <2> QED
    BY <1>1, <2>1 DEF Filled, BeforeSource, BeforeRest, BeforeTimeout, Accepted
<1>6. Defaulted' /\ Timeouts'
  BY <1>1 DEF Defaulted, Timeouts, Asked, BeforeRest, BeforeSource
<1> QED
  BY <1>2, <1>3, <1>4, <1>5, <1>6

\* Every reachable state satisfies the invariant.
THEOREM Invariance == Spec => []IInv
<1>1. IInv /\ [Next]_vars => IInv'
  BY AccessInv, SourceInv, NewConfigInv, TimeoutInv, BuilderInv, StepsInv DEF Next, Done
<1> QED
  BY <1>1, InitInv, PTL DEF Spec

\* The state is well typed: a configuration never loses or gains a parameter.
THEOREM TypeCorrect == Spec => []TypeOK
<1>1. IInv => TypeOK
  BY DEF IInv
<1> QED
  BY <1>1, Invariance, PTL

\* Prepare accepts exactly what the documentation allows, whatever is given.
THEOREM Acceptance == Spec => []AcceptedIffDocumented
<1>1. IInv => AcceptedIffDocumented
  <2> SUFFICES ASSUME IInv, stage \notin BeforeTimeout
               PROVE  errs = {} <=> Documented
    BY DEF AcceptedIffDocumented, Accepted, IInv, Complaining, BeforeTimeout, BeforeRest,
           BeforeSource
  <2>1. stage \notin BeforeRest /\ stage \notin BeforeSource /\ stage # "AccessConfig"
    BY DEF BeforeTimeout, BeforeRest, BeforeSource
  <2>2. errs = {} <=> /\ errs \cap AccessParameters = {}
                      /\ errs \cap SourceComplaints = {}
                      /\ errs \cap RestComplaints = {}
    BY DEF IInv, Complaining
  <2> QED
    BY <2>1, <2>2 DEF IInv, Complaining, Documented
<1> QED
  BY <1>1, Invariance, PTL

\* An accepted configuration has everything the steps take for granted.
LEMMA Assumptions == IInv => MeetsAssumptions
<1> SUFFICES ASSUME IInv, Accepted PROVE MeetsAssumptions
  BY DEF MeetsAssumptions
<1>1. stage \notin BeforeTimeout /\ stage \notin BeforeRest /\ stage \notin BeforeSource
  BY DEF Accepted, BeforeTimeout, BeforeRest, BeforeSource
<1>2. sourceType \in {"template", "disk"}
  BY <1>1 DEF IInv, TypeOK, BeforeSource
<1>3. config["cleanup_vm"] \in {<<TRUE>>, <<FALSE>>}
      /\ config["cleanup_interfaces"] \in {<<TRUE>>, <<FALSE>>}
  BY DEF IInv, TypeOK, Filled, Pointers
<1>4. config["cleanup_vm"][1] \in BOOLEAN /\ config["cleanup_interfaces"][1] \in BOOLEAN
  <2>1. <<TRUE>>[1] = TRUE /\ <<FALSE>>[1] = FALSE
    OBVIOUS
  <2>2. \A c \in {<<TRUE>>, <<FALSE>>} : c[1] \in BOOLEAN
    BY <2>1, Zenon
  <2> QED
    BY <1>3, <2>2, Zenon
<1>5. BuildConfig(config) \in ConfigType
  BY <1>2, <1>4 DEF BuildConfig, ConfigType
<1>6. ~(HasDisk /\ HasTemplate)
  <2>1. errs = {}
    BY <1>1 DEF IInv, Complaining, Accepted
  <2>2. SourceDocumented
    BY <1>1, <2>1 DEF IInv, Complaining
  <2>3. \A p \in SourceParameters : config[p] = given[p]
    BY DEF IInv, Unfilled, Undefaulted
  <2> QED
    BY <2>2, <2>3, OneSource DEF SourceDocumented, HasDisk, HasTemplate, SourceParameters
<1>7. (sourceType = "disk") <=> HasDisk
  BY <1>1, <1>6 DEF IInv, Filled
<1>8. config["source_template_name"] # "" => config["source_template_version"] >= 1
  BY <1>1, <1>2, <1>6, <1>7 DEF IInv, Filled, HasTemplate
<1> QED
  BY <1>1, <1>3, <1>5, <1>7, <1>8 DEF MeetsAssumptions, IInv, Filled, HasDisk, Nil

\* So has every reachable one.
THEOREM AssumptionsMet == Spec => []MeetsAssumptions
<1> QED
  BY Assumptions, Invariance, PTL

\* No default replaces a given value.
THEOREM NothingOverridden == Spec => []GivenKept
<1>1. IInv => GivenKept
  <2> SUFFICES ASSUME IInv, Accepted PROVE GivenKept
    BY DEF GivenKept
  <2>1. stage \notin BeforeRest \cup {"Comm"}
    BY DEF Accepted, BeforeRest, BeforeSource
  <2> QED
    BY <2>1 DEF IInv, Keeping, Timeouts, Free, GivenKept
<1> QED
  BY <1>1, Invariance, PTL

\* What the requests made so far carry, in terms of the configuration.
Carried ==
  /\ stage \in {"created", "connected", "initialized"} =>
       /\ config.vm_vcpu_count # 0 => vm.cores = config.vm_vcpu_count
       /\ config.vm_memory_mb # 0 => vm.memory = config.vm_memory_mb
       /\ sourceType = "template" =>
            vm.template = "source" /\ vm.virtioScsi = <<ViaScsi>>
       /\ sourceType # "template" =>
            /\ vm.template = "Blank"
            /\ vm.interface = IF ViaScsi THEN "virtio_scsi" ELSE "virtio"
  /\ stage \in {"connected", "initialized"} =>
       /\ nic.network = config.network_name
       /\ nic.profile = IF config.vnic_profile # "" THEN config.vnic_profile ELSE nic.network
  /\ stage = "initialized" =>
       /\ initialization.hostname = config.vm_name
       /\ initialization.ip =
            IF config.address = "" THEN Nil
            ELSE <<config.os_interface_name, config.address, config.netmask>>

\* Prepare sends no request.
LEMMA CarriedPrepare ==
  AccessConfigPrepare \/ SourceConfigPrepare \/ NewConfig \/ CommPrepare \/ SSHTimeout
    \/ BuilderPrepare => Carried'
BY DEF AccessConfigPrepare, SourceConfigPrepare, NewConfig, CommPrepare, SSHTimeout,
       BuilderPrepare, Carried

\* Each request is made of the configuration as it is, and changes no other.
LEMMA CarriedSteps ==
  Carried /\ (CreateVM \/ ManageNetworkInterfaces \/ SetupInitialRun \/ UNCHANGED vars)
    => Carried'
<1> SUFFICES ASSUME Carried,
                    CreateVM \/ ManageNetworkInterfaces \/ SetupInitialRun \/ UNCHANGED vars
             PROVE Carried'
  OBVIOUS
<1>1. config' = config /\ sourceType' = sourceType /\ ViaScsi' = ViaScsi
  BY DEF CreateVM, ManageNetworkInterfaces, SetupInitialRun, vars, ViaScsi
<1>2. CASE CreateVM
  <2>1. stage' = "created"
    BY <1>2 DEF CreateVM
  <2>2. /\ config["vm_vcpu_count"] # 0 => vm'.cores = config["vm_vcpu_count"]
        /\ config["vm_memory_mb"] # 0 => vm'.memory = config["vm_memory_mb"]
    BY <1>2 DEF CreateVM, getVMResources
  <2>3. /\ vm'.template = IF sourceType = "template" THEN "source" ELSE "Blank"
        /\ vm'.virtioScsi = IF sourceType = "template" THEN <<ViaScsi>> ELSE Nil
        /\ vm'.interface = CASE sourceType = "template" -> "inherited"
                             [] sourceType # "template" /\ ViaScsi -> "virtio_scsi"
                             [] OTHER -> "virtio"
    BY <1>2 DEF CreateVM
  <2>4. sourceType = "template" => vm'.virtioScsi = <<ViaScsi>>
    BY <2>3, Zenon
  <2>5. sourceType # "template" =>
          vm'.interface = IF ViaScsi THEN "virtio_scsi" ELSE "virtio"
    BY <2>3
  <2>6. <<ViaScsi>>' = <<ViaScsi>>
    BY <1>1, Zenon
  <2> QED
    BY <1>1, <2>1, <2>2, <2>3, <2>4, <2>5, <2>6 DEF Carried
<1>3. CASE ManageNetworkInterfaces
  BY <1>1, <1>3 DEF ManageNetworkInterfaces, Carried
<1>4. CASE SetupInitialRun
  BY <1>1, <1>4 DEF SetupInitialRun, Carried
<1>5. CASE UNCHANGED vars
  BY <1>1, <1>5 DEF vars, requests, Carried
<1> QED
  BY <1>2, <1>3, <1>4, <1>5

\* The requests carry what is given and, where nothing is given, what the
\* documentation states, whatever the parameters, the environment and the source.
THEOREM RequestsCarryTheStated == Spec => []RequestsAsDocumented
<1>1. Init => Carried
  BY DEF Init, Carried
<1>2. Carried /\ [Next]_vars => Carried'
  BY CarriedPrepare, CarriedSteps DEF Next, Done
<1>3. IInv /\ Carried => RequestsAsDocumented
  <2> SUFFICES ASSUME IInv, Carried, stage = "initialized" PROVE RequestsAsDocumented
    BY DEF RequestsAsDocumented
  <2>1. \A p \in DOMAIN Stated : config[p] = Asked(p)
    BY DEF IInv, Defaulted, BeforeRest, BeforeSource
  <2>2. /\ config["vm_vcpu_count"] = Asked("vm_vcpu_count")
        /\ config["vm_memory_mb"] = Asked("vm_memory_mb")
        /\ config["vm_storage_driver"] = Asked("vm_storage_driver")
        /\ config["network_name"] = Asked("network_name")
        /\ config["os_interface_name"] = Asked("os_interface_name")
        /\ config["netmask"] = Asked("netmask")
    BY <2>1, StatedValues
  <2>3. /\ config["address"] = given["address"]
        /\ config["vnic_profile"] = given["vnic_profile"]
        /\ config["source_disk_name"] = given["source_disk_name"]
        /\ config["source_disk_id"] = given["source_disk_id"]
    BY DEF IInv, Unfilled, Undefaulted, SourceParameters
  <2>4. given["vm_name"] # "" => config["vm_name"] = given["vm_name"]
    BY ZeroValues, ParameterNames DEF IInv, Keeping
  <2>5. Asked("vm_vcpu_count") # 0 /\ Asked("vm_memory_mb") # 0
    <3>1. Stated["vm_vcpu_count"] # 0 /\ Stated["vm_memory_mb"] # 0
      BY DEF Stated
    <3>2. Zero["vm_vcpu_count"] = 0 /\ Zero["vm_memory_mb"] = 0
      BY ZeroValues
    <3>3. \A p : Zero[p] = 0 /\ Stated[p] # 0 => Asked(p) # 0
      BY DEF Asked
    <3> QED
      BY <3>1, <3>2, <3>3
  <2>6. /\ vm["cores"] = Asked("vm_vcpu_count") /\ vm["memory"] = Asked("vm_memory_mb")
    BY <2>2, <2>5 DEF Carried
  <2>7. sourceType \in {"template", "disk"}
        /\ (sourceType = "disk" <=> given["source_disk_name"] # "" \/ given["source_disk_id"] # "")
    BY <2>3, Assumptions DEF MeetsAssumptions, Accepted, IInv, TypeOK
  <2>8. ViaScsi <=> Asked("vm_storage_driver") = "virtio-scsi"
    BY <2>2 DEF ViaScsi
  <2>9. IF given["source_disk_name"] = "" /\ given["source_disk_id"] = ""
          THEN /\ vm["template"] = "source"
               /\ vm["virtioScsi"] = <<Asked("vm_storage_driver") = "virtio-scsi">>
          ELSE /\ vm["template"] = "Blank"
               /\ vm["interface"] =
                    IF Asked("vm_storage_driver") = "virtio-scsi" THEN "virtio_scsi" ELSE "virtio"
    <3>1. CASE sourceType = "template"
      <4>1. vm["template"] = "source" /\ vm["virtioScsi"] = <<ViaScsi>>
        BY <3>1, Zenon DEF Carried
      <4>2. <<ViaScsi>> = <<Asked("vm_storage_driver") = "virtio-scsi">>
        BY <2>2, Zenon DEF ViaScsi
      <4> QED
        BY <2>7, <3>1, <4>1, <4>2, Zenon
    <3>2. CASE sourceType = "disk"
      BY <2>7, <2>8, <3>2 DEF Carried
    <3> QED
      BY <2>7, <3>1, <3>2
  <2> QED
    BY <2>2, <2>3, <2>4, <2>6, <2>9 DEF Carried, RequestsAsDocumented, commHost
<1> QED
  BY <1>1, <1>2, <1>3, Invariance, PTL DEF Spec
=============================================================================
