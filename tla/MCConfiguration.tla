--------------------------- MODULE MCConfiguration ---------------------------
(***************************************************************************)
(* Instances of Configuration for TLC: groups of parameters that the code  *)
(* relates to each other, each varied around a configuration that is       *)
(* complete without it.                                                    *)
(***************************************************************************)
EXTENDS Configuration

\* The records that agree with base but for values of choices' parameters.
Varied(base, choices) ==
  {[p \in DOMAIN base |-> IF p \in DOMAIN c THEN c[p] ELSE base[p]] : c \in choices}

Complete ==
  [Zero EXCEPT !.olvm_url = "https", !.username = "admin", !.password = "secret",
               !.source_template_name = "ol8"]

Nothing == [Complete EXCEPT !.source_template_name = ""]

Access == Varied(Complete,
  [olvm_url : {"", "https", Malformed}, username : {"", "admin"}, password : {"", "secret"}])

Source == Varied(Nothing,
  [source_template_name : {"", "ol8"}, source_template_id : {"", "uuid", Malformed},
   source_template_version : {-1, 0, 2}, source_disk_name : {"", "ubuntu"},
   source_disk_id : {"", "uuid", Malformed}, cluster : {"", "c"}])

Machine == Varied(Complete,
  [source_template_name : {"ol8"}, source_disk_name : {""}, vm_name : {"", "vm"},
   vm_vcpu_count : {-1, 0, 2}, vm_memory_mb : {0, 512},
   vm_storage_driver : {"", "virtio-scsi", "virtio", "ide"}]
  \cup
  [source_template_name : {""}, source_disk_name : {"ubuntu"}, vm_name : {"", "vm"},
   vm_vcpu_count : {-1, 0, 2}, vm_memory_mb : {0, 512},
   vm_storage_driver : {"", "virtio-scsi", "virtio", "ide"}])

Network == Varied(Complete,
  [address : {"", "10.0.0.5"}, netmask : {"", "255.0.0.0"}, dns_servers : {<<>>, <<"8.8.8.8">>},
   os_interface_name : {"", "ens3"}, network_name : {"", "lan"}, vnic_profile : {"", "fast"}])

Pointer == {Nil, <<TRUE>>, <<FALSE>>}

Ending == Varied(Complete,
  [cleanup_interfaces : Pointer, cleanup_vm : Pointer, template_seal : Pointer,
   destination_template_name : {"", "golden"}, destination_template_description : {"", "text"},
   export_host : {"", "host"}, export_directory : {"", "/exports"},
   export_file_name : {"", "golden.ova"}])

Timing == Varied(Complete,
  [max_retries : {-1, 0, 3}, retry_interval_sec : {-1, 0, 3}, ssh_timeout : {0, 30},
   ssh_wait_timeout : {0, 10}])

AllGiven == Access \cup Source \cup Machine \cup Network \cup Ending \cup Timing

Unset == [olvm_url |-> "", username |-> "", password |-> ""]
AllEnvironments == {Unset, [olvm_url |-> "http", username |-> "env", password |-> "env"],
                    [Unset EXCEPT !.olvm_url = Malformed], [Unset EXCEPT !.password = "env"]}

AllTemplates == [cores : {0, 4}, memory : {0, 2048}]
=============================================================================
