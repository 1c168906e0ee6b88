----------------------------- MODULE OperatorProofs -----------------------------
(***************************************************************************)
(* The parts of the operator's process beside the SSP controller.           *)
(*                                                                          *)
(* Controllers: what the webhook admits is usable, and the metric of a VM is *)
(* that of one of its volumes; for any specs, volumes and claims.            *)
(*                                                                          *)
(* CrdWatch: the type invariant, MissingExact, ModeCurrent and              *)
(* RemovalNoticed; for any set of CRDs and any required ones.                *)
(*                                                                          *)
(* All of it for any number of changes, requests and faults.                 *)
(***************************************************************************)
EXTENDS Controllers, CrdWatch, ArchitectureProofs, FiniteSetTheorems

-----------------------------------------------------------------------------
(* Controllers: the SSP that the webhook admits *)

\* Whatever was validated last, by a user's request or by one of the operator,
\* satisfies the part of the validation that is about architectures.
VettedSsp(s) ==
    /\ s \in [spec: {s.spec}, finalizer: BOOLEAN, deleting: BOOLEAN, vetted: BOOLEAN]
    /\ s.spec \in SspSpec(archsOf(s.spec))
    /\ s.vetted => validateCluster(s.spec)

Vetted == DOMAIN ssps = Namespaces /\ \A ns \in Namespaces : \A s \in ssps[ns] : VettedSsp(s)

\* A request of either version is an SSP, also after its conversion.
LEMMA Converted ==
    ASSUME NEW spec \in Specs, NEW version
    PROVE  ConvertSSP(version, spec) \in SspSpec(archsOf(ConvertSSP(version, spec)))
  <1>1. CASE version = "v1beta3"
    BY <1>1, SpecsAssumption, Zenon DEF ConvertSSP
  <1>2. CASE version # "v1beta3"
    <2> DEFINE none == [nil |-> TRUE, cp |-> <<>>, wl |-> <<>>]
               new == [spec EXCEPT !.multi = FALSE, !.cluster = none]
    <2>1. new = ConvertSSP(version, spec)
      BY <1>2, Zenon DEF ConvertSSP
    <2>2. spec \in SspSpec(archsOf(spec))
      BY SpecsAssumption, Zenon
    <2>3. new.cluster = none
      BY <2>2, Zenon DEF SspSpec
    <2>4. \A S : none \in [nil: BOOLEAN, cp: Seq(S), wl: Seq(S)]
      OBVIOUS
    <2>5. \A S : new \in SspSpec(S)
      BY <2>2, <2>4, Zenon DEF SspSpec
    <2> QED
      BY <2>1, <2>5, Zenon
  <1> QED
    BY <1>1, <1>2, Zenon

\* An update of one namespace's SSP keeps the others.
LEMMA OneChanged ==
    ASSUME Vetted, NEW ns \in Namespaces, NEW S, ssps' = [ssps EXCEPT ![ns] = S],
           \A s \in S : VettedSsp(s)
    PROVE  Vetted'
  <1>1. DOMAIN ssps' = Namespaces /\ ssps'[ns] = S /\ \A n \in Namespaces \ {ns} : ssps'[n] = ssps[n]
    BY Zenon DEF Vetted
  <1> QED
    BY <1>1, Zenon DEF Vetted

\* The requests of users and of the operator keep Vetted.
LEMMA AdmissionKeeps ==
    ASSUME Vetted, AdmissionNext
    PROVE  Vetted'
  <1>1. ASSUME NEW ns \in Namespaces, NEW version \in Versions, NEW spec \in Specs,
               CreateSsp(ns, version, spec)
        PROVE  Vetted'
    <2> DEFINE new == ConvertSSP(version, spec)
               s == [spec |-> new, finalizer |-> FALSE, deleting |-> FALSE, vetted |-> Called(ns, version)]
    <2>1. Called(ns, version) \in BOOLEAN /\ ssps' = [ssps EXCEPT ![ns] = {s}]
      BY <1>1, Zenon DEF CreateSsp, Called
    <2>2. Called(ns, version) => validateCluster(new)
      BY <1>1, Zenon DEF CreateSsp, ValidateCreate, validateSspObject
    <2>3. new \in SspSpec(archsOf(new))
      BY Converted, Zenon
    <2> HIDE DEF new
    <2>4. s.spec = new /\ s.vetted = Called(ns, version)
      BY Zenon
    <2>5. s \in [spec: {new}, finalizer: BOOLEAN, deleting: BOOLEAN, vetted: BOOLEAN]
      BY <2>1, Zenon
    <2> HIDE DEF s
    <2> QED
      BY <2>1, <2>2, <2>3, <2>4, <2>5, OneChanged, Zenon DEF VettedSsp
  <1>2. ASSUME NEW ns \in Namespaces, NEW version \in Versions, NEW spec \in Specs,
               UpdateSsp(ns, version, spec)
        PROVE  Vetted'
    <2> DEFINE new == ConvertSSP(version, spec)
    <2>1. PICK o \in ssps[ns] :
             ssps' = [ssps EXCEPT ![ns] = {[o EXCEPT !.spec = new, !.vetted = Called(ns, version)]}]
      BY <1>2, Zenon DEF UpdateSsp
    <2> DEFINE s == [o EXCEPT !.spec = new, !.vetted = Called(ns, version)]
    <2>2. Called(ns, version) \in BOOLEAN
      BY Zenon DEF Called
    <2>3. Called(ns, version) => validateCluster(new)
      BY <1>2, Zenon DEF UpdateSsp, ValidateUpdate, validateSspObject
    <2>4. new \in SspSpec(archsOf(new))
      BY Converted, Zenon
    <2> HIDE DEF new
    <2>5. o \in [spec: {o.spec}, finalizer: BOOLEAN, deleting: BOOLEAN, vetted: BOOLEAN]
      BY Zenon DEF Vetted, VettedSsp
    <2>6. s.spec = new /\ s.vetted = Called(ns, version)
      BY <2>5, Zenon
    <2>7. s \in [spec: {new}, finalizer: BOOLEAN, deleting: BOOLEAN, vetted: BOOLEAN]
      BY <2>2, <2>5, Zenon
    <2>8. ssps' = [ssps EXCEPT ![ns] = {s}]
      BY <2>1, Zenon
    <2> HIDE DEF s
    <2> QED
      BY <2>3, <2>4, <2>6, <2>7, <2>8, OneChanged, Zenon DEF VettedSsp
  <1>3. ASSUME NEW s, VettedSsp(s) PROVE \A m \in Marked(s) : VettedSsp(m)
    <2> DEFINE m == [s EXCEPT !.deleting = TRUE]
    <2>1. m.spec = s.spec /\ m.vetted = s.vetted
      BY <1>3, Zenon DEF VettedSsp
    <2>2. m \in [spec: {s.spec}, finalizer: BOOLEAN, deleting: BOOLEAN, vetted: BOOLEAN]
      BY <1>3, Zenon DEF VettedSsp
    <2>3. \A x \in Marked(s) : x = m
      BY Zenon DEF Marked
    <2> HIDE DEF m
    <2> QED
      BY <1>3, <2>1, <2>2, <2>3, Zenon DEF VettedSsp
  <1>4. ASSUME NEW ns \in Namespaces, DeleteSsp(ns) PROVE Vetted'
    <2>1. PICK s \in ssps[ns] : ssps' = [ssps EXCEPT ![ns] = Marked(s)]
      BY <1>4, Zenon DEF DeleteSsp
    <2>2. VettedSsp(s)
      BY Zenon DEF Vetted
    <2> DEFINE S == Marked(s)
    <2>3. \A m \in S : VettedSsp(m)
      BY <1>3, <2>2, Zenon
    <2>4. ssps' = [ssps EXCEPT ![ns] = S]
      BY <2>1, Zenon
    <2> HIDE DEF S
    <2> QED
      BY <2>3, <2>4, OneChanged, Zenon
  <1>5. ASSUME NEW ns \in Namespaces, DeleteNamespace(ns) PROVE Vetted'
    <2> DEFINE S == UNION {Marked(s) : s \in ssps[ns]}
    <2>1. ssps' = [ssps EXCEPT ![ns] = S]
      BY <1>5, Zenon DEF DeleteNamespace
    <2>2. \A m \in S : \E s \in ssps[ns] : m \in Marked(s)
      BY Zenon
    <2> HIDE DEF S
    <2>3. ASSUME NEW m \in S
          PROVE  VettedSsp(m)
      <3>1. PICK s \in ssps[ns] : m \in Marked(s)
        BY <2>2, Zenon
      <3>2. VettedSsp(s)
        BY Zenon DEF Vetted
      <3> QED
        BY <1>3, <3>1, <3>2, Zenon
    <2> QED
      BY <2>1, <2>3, OneChanged, Zenon
  <1>6. ASSUME NEW ns \in Namespaces, AddFinalizer(ns) PROVE Vetted'
    <2>1. PICK o \in ssps[ns] :
             /\ Called(ns, "v1beta3") => ValidateUpdate(ns, o.spec)
             /\ ssps' = [ssps EXCEPT ![ns] = {[o EXCEPT !.finalizer = TRUE, !.vetted = Called(ns, "v1beta3")]}]
      BY <1>6, Zenon DEF AddFinalizer
    <2> DEFINE s == [o EXCEPT !.finalizer = TRUE, !.vetted = Called(ns, "v1beta3")]
    <2>2. Called(ns, "v1beta3") \in BOOLEAN
      BY Zenon DEF Called
    <2>3. Called(ns, "v1beta3") => validateCluster(o.spec)
      BY <2>1, Zenon DEF ValidateUpdate, validateSspObject
    <2>4. /\ o \in [spec: {o.spec}, finalizer: BOOLEAN, deleting: BOOLEAN, vetted: BOOLEAN]
          /\ o.spec \in SspSpec(archsOf(o.spec))
      BY Zenon DEF Vetted, VettedSsp
    <2>5. s.spec = o.spec /\ s.vetted = Called(ns, "v1beta3")
      BY <2>4, Zenon
    <2>6. s \in [spec: {o.spec}, finalizer: BOOLEAN, deleting: BOOLEAN, vetted: BOOLEAN]
      BY <2>2, <2>4, Zenon
    <2>7. ssps' = [ssps EXCEPT ![ns] = {s}]
      BY <2>1, Zenon
    <2> HIDE DEF s
    <2> QED
      BY <2>3, <2>4, <2>5, <2>6, <2>7, OneChanged, Zenon DEF VettedSsp
  <1>7. ASSUME NEW ns \in Namespaces, RemoveFinalizer(ns) PROVE Vetted'
    <2>1. ssps' = [ssps EXCEPT ![ns] = {}]
      BY <1>7, Zenon DEF RemoveFinalizer
    <2> QED
      BY <2>1, OneChanged, Zenon
  <1>8. ASSUME UpdateList \/ DeliverConfig \/ ReconcileConfig \/ InstallConfig PROVE Vetted'
    <2>1. ssps' = ssps
      BY <1>8, Zenon DEF UpdateList, DeliverConfig, ReconcileConfig, InstallConfig, sspVars
    <2> QED
      BY <2>1, Zenon DEF Vetted
  <1> QED
    BY <1>1, <1>2, <1>4, <1>5, <1>6, <1>7, <1>8, Zenon DEF AdmissionNext, Next

\* An SSP whose last update was validated names architectures that GetSSPArchs
\* resolves, so that no operand fails on it for ever; on creation, on update by
\* users and by the operator, and through the conversion of v1beta2 requests.
THEOREM AdmittedIsAlwaysUsable == ControllersSpec => []AdmittedIsUsable
  <1>1. StartControllers => Vetted
    BY Zenon DEF StartControllers, Init, Vetted
  <1>2. Vetted /\ [ControllersNext]_allVars => Vetted'
    <2> SUFFICES ASSUME Vetted, [ControllersNext]_allVars PROVE Vetted'
      BY Zenon
    <2>1. CASE AdmissionNext
      BY <2>1, AdmissionKeeps, Zenon
    <2>2. CASE ServiceNext \/ VmNext \/ UNCHANGED allVars
      <3>1. ssps' = ssps
        BY <2>2, Zenon DEF ServiceNext, VmNext, allVars, vars
      <3> QED
        BY <3>1, Zenon DEF Vetted
    <2> QED
      BY <2>1, <2>2, Zenon DEF ControllersNext
  <1>3. Vetted => AdmittedIsUsable
    <2> SUFFICES ASSUME Vetted, NEW ns \in Namespaces, NEW s \in ssps[ns], s.vetted
                 PROVE  GetSSPArchs(s.spec) # <<>>
      BY Zenon DEF AdmittedIsUsable
    <2>1. s.spec \in SspSpec(archsOf(s.spec)) /\ validateCluster(s.spec)
      BY Zenon DEF Vetted, VettedSsp
    <2>2. s.spec.cluster.cp \in Seq(archsOf(s.spec)) /\ s.spec.cluster.wl \in Seq(archsOf(s.spec))
      BY <2>1, Zenon DEF SspSpec
    <2> QED
      BY <2>1, <2>2, ValidatedResolves, Zenon
  <1> QED
    BY <1>1, <1>2, <1>3, PTL DEF ControllersSpec

-----------------------------------------------------------------------------
(* Controllers: the metric of a VM *)

\* The claims of a VM that has been provisioned are bound, its reads are current
\* when the informer has nothing pending, and then so is the metric.
VmInv ==
    /\ DOMAIN bound = Claims
    /\ \A v, w \in vm : v = w
    /\ ~vmPending => vmSeen = vm
    /\ \A v \in vm :
          /\ v \in [provisioning: BOOLEAN, volumes: VolumeLists]
          /\ ~v.provisioning => \A c \in VC!ClaimsOf(v.volumes) : bound[c] # {}
    /\ MetricCurrent

\* The claims of a VM, by position.
LEMMA ClaimsAtPositions ==
    ASSUME NEW list \in VolumeLists
    PROVE  /\ VC!ClaimsOf(list) \subseteq Claims
           /\ \A c : c \in VC!ClaimsOf(list) <=>
                       \E i \in DOMAIN list : list[i].kind # "other" /\ c = list[i].claim
           /\ Len(list) \in Nat /\ DOMAIN list = 1..Len(list)
  <1>1. list \in Seq(Range(list)) /\ \A v \in Range(list) : v.kind # "other" => v.claim \in Claims
    BY VolumesAssumption, Zenon
  <1>2. \A c : c \in VC!ClaimsOf(list) <=>
               \E i \in DOMAIN list : list[i].kind # "other" /\ c = list[i].claim
    BY Zenon DEF VC!ClaimsOf, VC!Range
  <1>3. \A i \in DOMAIN list : list[i] \in Range(list)
    BY Zenon DEF Range
  <1> QED
    BY <1>1, <1>2, <1>3

\* setVmVolumesMetrics leaves the metric of a volume of the VM, or 0 without one.
LEMMA MetricOfVolume ==
    ASSUME NEW v, v \in [provisioning: BOOLEAN, volumes: VolumeLists],
           \A c \in VC!ClaimsOf(v.volumes) : bound[c] # {},
           VC!setVmVolumesMetrics(v.volumes)
    PROVE  metric' \in VC!Affected(v) \/ (VC!Affected(v) = {} /\ metric' = 0)
  <1> DEFINE list == v.volumes
             F == VC!Found(list)
  <1>1. list \in VolumeLists
    BY Zenon
  <1>2. metric' = IF F = {} THEN 0 ELSE VC!Value(list[VC!Max(F)])
    BY Zenon DEF VC!setVmVolumesMetrics
  <1>3. \A i : i \in F <=> i \in DOMAIN list /\ list[i].kind # "other" /\ bound[list[i].claim] # {}
    BY Zenon DEF VC!Found
  <1>4. CASE F = {}
    <2>1. VC!ClaimsOf(list) = {}
      BY <1>1, <1>3, <1>4, ClaimsAtPositions, Zenon
    <2>2. VC!Affected(v) = {}
      BY <2>1, Zenon DEF VC!Affected
    <2> QED
      BY <1>2, <1>4, <2>2, Zenon
  <1>5. CASE F # {}
    <2> DEFINE n == Len(list)
    <2>1. n \in Nat /\ F \in SUBSET (1..n)
      BY <1>1, <1>3, ClaimsAtPositions, Zenon
    <2> HIDE DEF F, n
    <2>2. \E i \in F : \A j \in F : j <= i
      BY <1>5, <2>1, GreatestExists, Zenon
    <2>3. \E i \in F : \A j \in F : i >= j
      BY <2>1, <2>2, Zenon
    <2>4. VC!Max(F) \in F
      BY <2>3, Zenon DEF VC!Max
    <2> DEFINE i == VC!Max(F)
               c == list[i].claim
    <2>5. c \in VC!ClaimsOf(list)
      BY <1>1, <1>3, <2>4, ClaimsAtPositions, Zenon
    <2>6. VC!Value(list[i]) \in VC!Affected(v)
      BY <2>5, Zenon DEF VC!Value, VC!Affected
    <2> QED
      BY <1>2, <1>5, <2>6, Zenon
  <1> QED
    BY <1>4, <1>5, Zenon

\* What happens to other claims does not matter to the VM.
LEMMA OtherClaims ==
    ASSUME VmInv, NEW c \in Claims, NEW S, bound' = [bound EXCEPT ![c] = S],
           \A v \in vm : ~v.provisioning => c \notin VC!ClaimsOf(v.volumes),
           UNCHANGED <<vm, vmSeen, vmPending, vmQueued, metric>>
    PROVE  VmInv'
  <1>1. DOMAIN bound' = Claims /\ \A d \in Claims \ {c} : bound'[d] = bound[d]
    BY Zenon DEF VmInv
  <1>2. ASSUME NEW v \in vm, ~v.provisioning
        PROVE  /\ \A d \in VC!ClaimsOf(v.volumes) : bound'[d] # {}
               /\ VC!Affected(v)' = VC!Affected(v)
    <2>1. VC!ClaimsOf(v.volumes) \subseteq Claims
      BY ClaimsAtPositions, Zenon DEF VmInv
    <2>2. \A d \in VC!ClaimsOf(v.volumes) : bound'[d] = bound[d] /\ bound[d] # {}
      BY <1>1, <1>2, <2>1, Zenon DEF VmInv
    <2>3. VC!Affected(v)' = {VC!VmWithVolume(CHOOSE d \in bound'[e] : TRUE) : e \in VC!ClaimsOf(v.volumes)}
      BY Zenon DEF VC!Affected
    <2>4. VC!Affected(v) = {VC!VmWithVolume(CHOOSE d \in bound[e] : TRUE) : e \in VC!ClaimsOf(v.volumes)}
      BY Zenon DEF VC!Affected
    <2> QED
      BY <2>2, <2>3, <2>4
  <1> QED
    BY <1>1, <1>2, Zenon DEF VmInv, MetricCurrent, VC!MetricCurrent, VC!Settled

\* The steps of the VM controller, of users, KubeVirt and storage.
LEMMA VmKeeps ==
    ASSUME VmInv, VC!Next
    PROVE  VmInv'
  <1>1. CASE VC!Reconcile
    <2>1. UNCHANGED <<vm, vmSeen, vmPending, bound>> /\ vmQueued' = FALSE
      BY <1>1, Zenon DEF VC!Reconcile
    <2>2. CASE vmPending
      BY <2>1, <2>2, Zenon DEF VmInv, MetricCurrent, VC!MetricCurrent, VC!Settled
    <2>3. CASE ~vmPending
      <3>1. vmSeen = vm
        BY <2>3, Zenon DEF VmInv
      <3>2. vm = {} => metric' = 0
        BY <1>1, <3>1, Zenon DEF VC!Reconcile
      <3>3. ASSUME NEW v \in vm, ~v.provisioning
            PROVE  metric' \in VC!Affected(v) \/ (VC!Affected(v) = {} /\ metric' = 0)
        <4>1. VC!setVmVolumesMetrics(v.volumes)
          BY <1>1, <3>1, <3>3, Zenon DEF VC!Reconcile, VmInv
        <4> QED
          BY <3>3, <4>1, MetricOfVolume, Zenon DEF VmInv
      <3>4. \A v : VC!Affected(v)' = VC!Affected(v)
        BY <2>1, Zenon DEF VC!Affected
      <3> QED
        BY <2>1, <3>2, <3>3, <3>4, Zenon DEF VmInv, MetricCurrent, VC!MetricCurrent
    <2> QED
      BY <2>2, <2>3, Zenon
  <1>2. CASE VC!ReconcileFails
    BY <1>2, Zenon DEF VC!ReconcileFails, VmInv, MetricCurrent, VC!MetricCurrent, VC!Settled
  <1>3. CASE VC!DeliverVm
    BY <1>3, Zenon DEF VC!DeliverVm, VmInv, MetricCurrent, VC!MetricCurrent, VC!Settled
  <1>4. CASE VC!EditVm
    <2>1. vmPending' = TRUE /\ UNCHANGED bound
      BY <1>4, Zenon DEF VC!EditVm
    <2>2. vm' = {} \/ \E list \in VolumeLists : vm' = {[provisioning |-> TRUE, volumes |-> list]}
      BY <1>4, Zenon DEF VC!EditVm
    <2>3. /\ \A v, w \in vm' : v = w
          /\ \A v \in vm' : v \in [provisioning: BOOLEAN, volumes: VolumeLists] /\ v.provisioning
      <3>1. ASSUME NEW list \in VolumeLists, vm' = {[provisioning |-> TRUE, volumes |-> list]}
            PROVE  /\ \A v, w \in vm' : v = w
                   /\ \A v \in vm' : v \in [provisioning: BOOLEAN, volumes: VolumeLists] /\ v.provisioning
        <4> DEFINE new == [provisioning |-> TRUE, volumes |-> list]
        <4>1. new \in [provisioning: BOOLEAN, volumes: VolumeLists] /\ new.provisioning
          BY Zenon
        <4> HIDE DEF new
        <4>2. \A v \in vm' : v = new
          BY <3>1, Zenon DEF new
        <4> QED
          BY <4>1, <4>2, Zenon
      <3> QED
        BY <2>2, <3>1, Zenon
    <2> QED
      BY <2>1, <2>3, Zenon DEF VmInv, MetricCurrent, VC!MetricCurrent, VC!Settled
  <1>5. CASE VC!BindClaim
    <2>1. PICK c \in Claims, d \in Disks : bound[c] = {} /\ bound' = [bound EXCEPT ![c] = {d}]
      BY <1>5, Zenon DEF VC!BindClaim
    <2>2. \A v \in vm : ~v.provisioning => c \notin VC!ClaimsOf(v.volumes)
      BY <2>1, Zenon DEF VmInv
    <2>3. UNCHANGED <<vm, vmSeen, vmPending, vmQueued, metric>>
      BY <1>5, Zenon DEF VC!BindClaim
    <2> QED
      BY <2>1, <2>2, <2>3, OtherClaims, Zenon
  <1>6. CASE VC!Provisioned
    BY <1>6, Zenon DEF VC!Provisioned, VmInv, MetricCurrent, VC!MetricCurrent, VC!Settled
  <1>7. CASE VC!DeleteClaim
    <2>1. PICK c \in Claims : /\ \A v \in vm : c \notin VC!ClaimsOf(v.volumes)
                              /\ bound' = [bound EXCEPT ![c] = {}]
      BY <1>7, Zenon DEF VC!DeleteClaim
    <2>2. UNCHANGED <<vm, vmSeen, vmPending, vmQueued, metric>>
      BY <1>7, Zenon DEF VC!DeleteClaim
    <2> QED
      BY <2>1, <2>2, OtherClaims, Zenon
  <1> QED
    BY <1>1, <1>2, <1>3, <1>4, <1>5, <1>6, <1>7, Zenon DEF VC!Next

\* When the VM controller has caught up, the metric of a VM is that of one of its
\* volumes, whatever volumes, claims and VMs of the same name there were before.
THEOREM MetricIsCurrent == ControllersSpec => []MetricCurrent
  <1>1. StartControllers => VmInv
    BY Zenon DEF StartControllers, VC!Init, VmInv, MetricCurrent, VC!MetricCurrent
  <1>2. VmInv /\ [ControllersNext]_allVars => VmInv'
    <2> SUFFICES ASSUME VmInv, [ControllersNext]_allVars PROVE VmInv'
      BY Zenon
    <2>1. CASE VmNext
      BY <2>1, VmKeeps, Zenon DEF VmNext
    <2>2. CASE AdmissionNext \/ ServiceNext \/ UNCHANGED allVars
      <3>1. UNCHANGED vmVars
        BY <2>2, Zenon DEF AdmissionNext, ServiceNext, allVars
      <3> QED
        BY <3>1 DEF vmVars, VmInv, MetricCurrent, VC!MetricCurrent, VC!Settled, VC!Affected
    <2> QED
      BY <2>1, <2>2, Zenon DEF ControllersNext
  <1>3. VmInv => MetricCurrent
    BY Zenon DEF VmInv
  <1> QED
    BY <1>1, <1>2, <1>3, PTL DEF ControllersSpec

-----------------------------------------------------------------------------
(* CrdWatch *)

\* Only InitWatch sets initialized, and it is the first thing that runs.
InitializedFirst == initialized <=> pc # "init"

\* The event handler has yet to hear that c was removed.
RemovalPending(c) ==
    \E i \in 1..Len(events) : events[i] = [op |-> "deleted", name |-> c]

\* How a removal is going to be noticed while Start is between List and the lock,
\* and after it: by sync itself, which lists without c, or by the event handler.
RemovalUnderWay ==
    ~cancelled /\ ~areCrdsMissing =>
        /\ pc = "sync" => \A c \in Required \ crds : c \notin newCrds \/ RemovalPending(c)
        /\ pc = "running" => \A c \in Required \ crds : RemovalPending(c)

CrdInv == CrdTypeOK /\ MissingExact /\ ModeCurrent /\ InitializedFirst /\ RemovalUnderWay

-----------------------------------------------------------------------------
\* Update keeps the two sets in step, and cancels the manager when the emptiness
\* of the missing set changes.
LEMMA UpdateLemma ==
    ASSUME NEW added \in SUBSET Crds, NEW deleted \in SUBSET Crds,
           added \cap deleted = {},
           CrdTypeOK, MissingExact, Update(added, deleted)
    PROVE  /\ existing' \subseteq Crds /\ missing' \subseteq Required
           /\ cancelled' \in BOOLEAN
           /\ missing' = Required \ existing'
           /\ cancelled => cancelled'
           /\ initialized /\ ~cancelled' => (missing # {} <=> missing' # {})
           /\ initialized /\ ~cancelled' /\ missing = {} => deleted \cap Required = {}
  BY CrdsAssumption, Zenon DEF CrdTypeOK, MissingExact, Update, allCrdsAdded, someCrdRemoved

\* A new CRD watch, and a new manager, satisfy the invariant.
LEMMA CrdInitLemma == CrdInit => CrdInv
  <1> SUFFICES ASSUME CrdInit PROVE CrdInv
    BY Zenon
  <1>0. <<>> \in Seq(Event)
    OBVIOUS
  <1>1. CrdTypeOK
    BY <1>0, CrdsAssumption, Zenon DEF CrdInit, New, CrdTypeOK
  <1>2. MissingExact /\ ModeCurrent /\ InitializedFirst /\ RemovalUnderWay
    BY DEF CrdInit, New, MissingExact, ModeCurrent, InitializedFirst, RemovalUnderWay
  <1> QED
    BY <1>1, <1>2, Zenon DEF CrdInv

\* Every step of the watch, the manager and the cluster preserves the invariant.
LEMMA CrdStepLemma == CrdInv /\ [CrdNext]_crdVars => CrdInv'
  <1> SUFFICES ASSUME CrdInv, [CrdNext]_crdVars PROVE CrdInv'
    BY Zenon
  <1> USE CrdsAssumption
  <1> USE DEF CrdInv
  <1>1. CASE InitWatch
    <2>1. crds \ existing \in SUBSET Crds /\ existing \ crds \in SUBSET Crds
      BY Zenon DEF CrdTypeOK
    <2>2. missing' = Required \ existing' /\ existing' \subseteq Crds
          /\ missing' \subseteq Required /\ cancelled' \in BOOLEAN
      BY <1>1, <2>1, UpdateLemma, Zenon DEF InitWatch
    <2>3. CrdTypeOK'
      BY <1>1, <2>2, Zenon DEF InitWatch, CrdTypeOK
    <2> QED
      BY Zenon, <1>1, <2>2, <2>3
         DEF InitWatch, MissingExact, ModeCurrent, InitializedFirst, RemovalUnderWay
  <1>2. CASE AddToManager
    BY <1>2, Zenon DEF AddToManager, CrdTypeOK, MissingExact, ModeCurrent, InitializedFirst,
                RemovalUnderWay
  <1>3. CASE AddEventHandler
    <2>1. PICK order \in [1..Cardinality(crds) -> crds] :
             events' = [i \in DOMAIN order |-> [op |-> "added", name |-> order[i]]]
      BY <1>3, Zenon DEF AddEventHandler
    <2>2. Cardinality(crds) \in Nat
      BY FS_Subset, FS_CardinalityType, Zenon DEF CrdTypeOK
    <2>3. events' \in [1..Cardinality(crds) -> Event]
      BY <2>1, Zenon DEF CrdTypeOK, Event
    <2>4. events' \in Seq(Event)
      BY <2>2, <2>3
    <2> QED
      BY <1>3, <2>4, Zenon DEF AddEventHandler, CrdTypeOK, MissingExact, ModeCurrent,
                        InitializedFirst, RemovalUnderWay
  <1>4. CASE List
    BY <1>4, Zenon DEF List, CrdTypeOK, MissingExact, ModeCurrent, InitializedFirst,
                RemovalUnderWay, RemovalPending
  <1>5. CASE Sync
    <2>1. newCrds \ existing \in SUBSET Crds /\ existing \ newCrds \in SUBSET Crds
          /\ (newCrds \ existing) \cap (existing \ newCrds) = {}
      BY Zenon DEF CrdTypeOK
    <2>2. Update(newCrds \ existing, existing \ newCrds)
      BY <1>5 DEF Sync
    <2>3. /\ existing' \subseteq Crds /\ missing' \subseteq Required
          /\ cancelled' \in BOOLEAN
          /\ missing' = Required \ existing'
          /\ cancelled => cancelled'
          /\ initialized /\ ~cancelled' => (missing # {} <=> missing' # {})
          /\ initialized /\ ~cancelled' /\ missing = {} =>
                (existing \ newCrds) \cap Required = {}
      BY <2>1, <2>2, UpdateLemma, Zenon
    <2>4. CrdTypeOK' /\ MissingExact' /\ InitializedFirst'
      BY <1>5, <2>3, Zenon DEF Sync, CrdTypeOK, MissingExact, InitializedFirst
    <2>5. ModeCurrent'
      BY <1>5, <2>3, Zenon DEF Sync, ModeCurrent, InitializedFirst, CrdTypeOK
    <2>6. RemovalUnderWay'
      <3> SUFFICES ASSUME ~cancelled', ~areCrdsMissing', NEW c \in Required \ crds
                   PROVE  RemovalPending(c)'
        BY <1>5, Zenon DEF Sync, RemovalUnderWay
      <3>1. missing = {} /\ c \in existing
        BY <1>5, <2>3, Zenon DEF Sync, ModeCurrent, MissingExact, CrdTypeOK
      <3>2. c \in newCrds
        BY <1>5, <2>3, <3>1, Zenon DEF Sync, InitializedFirst
      <3> QED
        BY <1>5, <2>3, <3>2, Zenon DEF Sync, RemovalUnderWay, RemovalPending
    <2> QED
      BY <2>4, <2>5, <2>6, Zenon
  <1>6. CASE HandleEvent
    <2> DEFINE e == Head(events)
    <2>1. e \in Event /\ Tail(events) \in Seq(Event) /\ Len(events) \in Nat \ {0}
          /\ Len(Tail(events)) = Len(events) - 1 /\ e = events[1]
          /\ \A i \in 1..Len(Tail(events)) : Tail(events)[i] = events[i + 1]
      BY <1>6 DEF HandleEvent, CrdTypeOK
    <2>2. PICK added \in SUBSET Crds, deleted \in SUBSET Crds :
             /\ added \cap deleted = {}
             /\ Update(added, deleted)
             /\ e.op = "deleted" => e.name \in deleted
      BY <1>6, <2>1 DEF HandleEvent, Event
    <2>3. /\ existing' \subseteq Crds /\ missing' \subseteq Required
          /\ cancelled' \in BOOLEAN
          /\ missing' = Required \ existing'
          /\ cancelled => cancelled'
          /\ initialized /\ ~cancelled' => (missing # {} <=> missing' # {})
          /\ initialized /\ ~cancelled' /\ missing = {} => deleted \cap Required = {}
      BY <2>2, UpdateLemma, Zenon
    <2>4. CrdTypeOK' /\ MissingExact' /\ InitializedFirst'
      BY <1>6, <2>1, <2>3, Zenon DEF HandleEvent, CrdTypeOK, MissingExact, InitializedFirst
    <2>5. ModeCurrent'
      BY <1>6, <2>3, Zenon DEF HandleEvent, ModeCurrent, InitializedFirst, CrdTypeOK
    <2>6. RemovalUnderWay'
      <3> SUFFICES ASSUME ~cancelled', ~areCrdsMissing', pc \in {"sync", "running"},
                          NEW c \in Required, RemovalPending(c)
                   PROVE  RemovalPending(c)'
        BY <1>6, <2>3, Zenon DEF HandleEvent, RemovalUnderWay
      <3>1. e # [op |-> "deleted", name |-> c]
        BY <1>6, <2>2, <2>3 DEF HandleEvent, ModeCurrent, InitializedFirst, CrdTypeOK
      <3>2. PICK i \in 1..Len(events) : events[i] = [op |-> "deleted", name |-> c]
        BY Zenon DEF RemovalPending
      <3>3. i # 1 /\ i - 1 \in 1..Len(Tail(events))
            /\ Tail(events)[i - 1] = [op |-> "deleted", name |-> c]
        BY <2>1, <3>1, <3>2
      <3> QED
        BY <1>6, <3>3, Zenon DEF HandleEvent, RemovalPending
    <2> QED
      BY <2>4, <2>5, <2>6, Zenon
  <1>7. CASE ClusterChange
    <2>1. PICK c \in Crds :
             \/ c \notin crds /\ crds' = crds \cup {c} /\ Notify("added", c)
             \/ c \in crds /\ crds' = crds \ {c} /\ Notify("deleted", c)
      BY <1>7, Zenon DEF ClusterChange
    <2>2. PICK op \in {"added", "deleted"} :
             /\ Notify(op, c)
             /\ crds' \subseteq Crds
             /\ \A d \in Required \ crds' : d \in Required \ crds \/ (op = "deleted" /\ d = c)
      BY <2>1, Zenon DEF CrdTypeOK
    <2>3. CrdTypeOK'
      <3>1. [op |-> op, name |-> c] \in Event
        BY Zenon DEF Event
      <3>2. events' \in Seq(Event)
        BY <2>2, <3>1 DEF Notify, CrdTypeOK
      <3> QED
        BY <1>7, <2>2, <3>2 DEF ClusterChange, CrdTypeOK
    <2>4. MissingExact' /\ ModeCurrent' /\ InitializedFirst'
      BY <1>7, Zenon DEF ClusterChange, MissingExact, ModeCurrent, InitializedFirst
    <2>5. ASSUME pc \in {"sync", "running"}, NEW d \in Required,
                 RemovalPending(d) \/ (op = "deleted" /\ d = c)
          PROVE  RemovalPending(d)'
      <3>1. events' = Append(events, [op |-> op, name |-> c])
        BY <2>2, <2>5, Zenon DEF Notify, Handling
      <3>2. /\ Len(events') = Len(events) + 1 /\ Len(events) \in Nat
            /\ \A i \in 1..Len(events) : events'[i] = events[i]
            /\ events'[Len(events) + 1] = [op |-> op, name |-> c]
        BY <3>1 DEF CrdTypeOK, Event
      <3> DEFINE removal == [op |-> "deleted", name |-> d]
      <3>3. \E i \in 1..Len(events') : events'[i] = removal
        <4>1. CASE RemovalPending(d)
          <5>1. PICK i \in 1..Len(events) : events[i] = removal
            BY <4>1, Zenon DEF RemovalPending
          <5>2. i \in 1..Len(events') /\ events'[i] = removal
            BY <3>2, <5>1
          <5> QED
            BY <5>2, Zenon
        <4>2. CASE op = "deleted" /\ d = c
          <5>1. Len(events) + 1 \in 1..Len(events')
            BY <3>2
          <5> QED
            BY <3>2, <4>2, <5>1, Zenon
        <4> QED
          BY <2>5, <4>1, <4>2, Zenon
      <3> QED
        BY <3>3, Zenon DEF RemovalPending
    <2>6. RemovalUnderWay'
      BY <1>7, <2>2, <2>5, Zenon DEF ClusterChange, RemovalUnderWay
    <2> QED
      BY <2>3, <2>4, <2>6, Zenon
  <1>8. CASE Restart
    <2>1. <<>> \in Seq(Event)
      OBVIOUS
    <2> QED
      BY <1>8, <2>1, Zenon DEF Restart, CrdTypeOK, MissingExact, ModeCurrent, InitializedFirst,
                        RemovalUnderWay
  <1>9. CASE UNCHANGED crdVars
    BY <1>9, Zenon DEF crdVars, CrdTypeOK, MissingExact, ModeCurrent, InitializedFirst,
                RemovalUnderWay, RemovalPending
  <1> QED
    BY <1>1, <1>2, <1>3, <1>4, <1>5, <1>6, <1>7, <1>8, <1>9, SMTT(20) DEF CrdNext

\* The inductive invariant holds in every state of the CRD watch, from New to
\* the next restart.
THEOREM CrdInvariance == CrdSpec => []CrdInv
  BY CrdInitLemma, CrdStepLemma, PTL DEF CrdSpec

\* The variables of the CRD watch keep their types.
THEOREM CrdTypeCorrect == CrdSpec => []CrdTypeOK
  BY CrdInvariance, PTL DEF CrdInv

\* existingCrds and missingCrds never disagree: both are only changed together,
\* by crdAdded and crdDeleted.
THEOREM MissingIsExact == CrdSpec => []MissingExact
  BY CrdInvariance, PTL DEF CrdInv

\* An operator that goes on running runs in the mode the set of missing CRDs calls
\* for: the handlers crdAdded and crdDeleted call cover every change of mode.
THEOREM ModeIsCurrent == CrdSpec => []ModeCurrent
  BY CrdInvariance, PTL DEF CrdInv

\* A removed CRD is noticed wherever the removal falls in Start: when everything is
\* quiet no removal is pending, so an operator not cancelled has all its CRDs.
THEOREM RemovalIsNoticed == CrdSpec => []RemovalNoticed
  <1>1. CrdInv => RemovalNoticed
    <2> SUFFICES ASSUME CrdInv, Quiet, ~areCrdsMissing, ~(Required \subseteq crds),
                        ~cancelled
                 PROVE  FALSE
      BY Zenon DEF RemovalNoticed
    <2>1. PICK c \in Required \ crds : RemovalPending(c)
      BY Zenon DEF CrdInv, RemovalUnderWay, Quiet
    <2> QED
      BY <2>1 DEF RemovalPending, Quiet
  <1> QED
    BY <1>1, CrdInvariance, PTL
=============================================================================
