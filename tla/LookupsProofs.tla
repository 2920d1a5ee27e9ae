---------------------------- MODULE LookupsProofs ----------------------------
(***************************************************************************)
(* Theorems about Lookups: for whatever the engine has and the             *)
(* configuration names.                                                    *)
(***************************************************************************)
EXTENDS Lookups, TLAPS

Stages == {"getClusterID", "getSourceResourceInfo", "findNetwork", "findProfile",
           "done", "failed"}

TypeOK ==
  /\ inventory \in Inventories /\ wanted \in Wanted
  /\ DOMAIN found = {"cluster", "source", "network", "profile"}
  /\ stage \in Stages

IInv == TypeOK /\ FindsWhatIsThere

\* The profile looked for, whether or not one is given.
ProfileName == IF wanted.vnic_profile = "" THEN wanted.network_name ELSE wanted.vnic_profile

\* A lookup finds a source that is the one asked for, and misses none: an alias
\* comes before a name, but a disk with either is found.
LEMMA SourceMatches ==
  ASSUME TypeOK,
         NEW matches, matches = IF wanted.sourceType = "disk" THEN Disks ELSE Templates
  PROVE  /\ \A o \in matches : o \in Sources /\ IsSource(o)
         /\ matches = {} => {o \in Sources : IsSource(o)} = {}
<1>1. wanted.sourceType \in {"template", "disk"}
  BY WantedAssumption DEF TypeOK
<1>2. CASE wanted.sourceType = "disk"
  <2>1. Sources = inventory.disks /\ matches = Disks
    BY <1>2 DEF Sources
  <2>2. \A o : IsSource(o) <=> IF wanted.source_disk_id # "" THEN o.id = wanted.source_disk_id
                               ELSE wanted.source_disk_name \in {o.name, o.alias}
    BY <1>2 DEF IsSource
  <2> QED
    BY <2>1, <2>2 DEF Disks, Named
<1>3. CASE wanted.sourceType = "template"
  <2>1. Sources = inventory.templates /\ matches = Templates
    BY <1>3 DEF Sources
  <2>2. \A o : IsSource(o) <=>
                 IF wanted.source_template_id # "" THEN o.id = wanted.source_template_id
                 ELSE /\ o.name = wanted.source_template_name
                      /\ o.version = wanted.source_template_version
    BY <1>3 DEF IsSource
  <2> QED
    BY <2>1, <2>2 DEF Templates, Named
<1> QED
  BY <1>1, <1>2, <1>3

\* The networks of a cluster are among all networks: what the first search misses,
\* the second one does not find either.
LEMMA SecondSearchFindsNothing ==
  ASSUME NEW name, Named(inventory.networks, name) = {}
  PROVE  UNION {Named(NetworksOf(c), name) : c \in found.cluster} = {}
BY DEF Named, NetworksOf

\* A lookup that changes no source and fails only for want of what it looks for
\* keeps the invariant.
LEMMA TakeInv ==
  ASSUME IInv, NEW kind \in {"cluster", "network", "profile"}, NEW matches,
         NEW next \in Stages \ {"failed"},
         Take(kind, matches, next),
         matches = {} =>
           \/ Named(inventory.clusters, wanted.cluster) = {}
           \/ Named(inventory.networks, wanted.network_name) = {}
           \/ Named(inventory.profiles, ProfileName) = {}
  PROVE  IInv'
<1>1. UNCHANGED <<inventory, wanted>>
  BY DEF Take
<1>2. TypeOK' /\ found'.source = found.source
  BY DEF Take, IInv, TypeOK, Stages
<1>3. stage' = "failed" => matches = {}
  BY DEF Take
<1>4. /\ Sources' = Sources /\ \A o : IsSource(o)' = IsSource(o)
      /\ ProfileName' = ProfileName
  BY <1>1 DEF Sources, IsSource, ProfileName
<1> QED
  BY <1>1, <1>2, <1>3, <1>4 DEF IInv, FindsWhatIsThere, ProfileName, Named

\* The invariant is inductive.
LEMMA NextInv == IInv /\ [Next]_vars => IInv'
<1> SUFFICES ASSUME IInv, [Next]_vars PROVE IInv'
  OBVIOUS
<1>1. CASE getClusterID
  BY <1>1, TakeInv DEF getClusterID, Stages
<1>2. CASE getSourceResourceInfo
  <2> DEFINE matches == IF wanted.sourceType = "disk" THEN Disks ELSE Templates
  <2>1. stage = "getSourceResourceInfo" /\ Take("source", matches, "findNetwork")
    BY <1>2 DEF getSourceResourceInfo
  <2>2. /\ \A o \in matches : o \in Sources /\ IsSource(o)
        /\ matches = {} => {o \in Sources : IsSource(o)} = {}
    BY SourceMatches DEF IInv
  <2> HIDE DEF matches
  <2>3. UNCHANGED <<inventory, wanted>> /\ TypeOK'
    BY <2>1 DEF Take, IInv, TypeOK, Stages
  <2>4. Sources' = Sources /\ \A o : IsSource(o)' = IsSource(o)
    BY <2>3 DEF Sources, IsSource
  <2>5. \A o \in found'.source : o \in Sources /\ IsSource(o)
    BY <2>1, <2>2 DEF Take, IInv, TypeOK, FindsWhatIsThere
  <2>6. stage' = "failed" => {o \in Sources : IsSource(o)} = {}
    BY <2>1, <2>2 DEF Take
  <2> QED
    BY <2>3, <2>4, <2>5, <2>6 DEF IInv, FindsWhatIsThere
<1>3. CASE findNetwork
  BY <1>3, TakeInv, SecondSearchFindsNothing DEF findNetwork, Stages
<1>4. CASE findProfile
  BY <1>4, TakeInv DEF findProfile, ProfileName, Stages
<1>5. CASE UNCHANGED vars
  BY <1>5 DEF vars, IInv, TypeOK, FindsWhatIsThere, Sources, IsSource, Named
<1> QED
  BY <1>1, <1>2, <1>3, <1>4, <1>5 DEF Next, Done

\* The VM is made of a source that is the one asked for, and the step fails only if
\* something it names is not there.
THEOREM RightSource == Spec => []FindsWhatIsThere
<1>1. Init => IInv
  BY DEF Init, IInv, TypeOK, Stages, FindsWhatIsThere, Nothing
<1>2. IInv => FindsWhatIsThere
  BY DEF IInv
<1> QED
  BY <1>1, <1>2, NextInv, PTL DEF Spec
=============================================================================
