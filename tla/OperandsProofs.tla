--------------------------- MODULE OperandsProofs ---------------------------
(***************************************************************************)
(* Operands: the resources of the operands find each other when the         *)
(* operator rests, and its webhook has a server, for any platforms, specs   *)
(* and number of disturbances.                                              *)
(***************************************************************************)
EXTENDS Operands, WellFoundedInduction, TLAPS

-----------------------------------------------------------------------------
(* Lists *)

\* A set of natural numbers has a least one.
LEMMA LeastExists ==
    ASSUME NEW I \in SUBSET Nat, I # {}
    PROVE  \E i \in I : \A j \in I : i <= j
  <1>1. PICK i \in I : \A j \in I : ~(<<j, i>> \in OpToRel(<, Nat))
    BY WFMin, NatLessThanWellFounded, Zenon
  <1>2. \A j \in I : ~(j < i)
    BY <1>1, Zenon DEF OpToRel
  <1> QED
    BY <1>2

\* The elements of a list.
IsList(s, S) == s \in Seq(S) /\ Range(s) = S

\* What an element of a list is, and that every member of its set occurs.
LEMMA ListElement ==
    ASSUME NEW s, NEW S, IsList(s, S)
    PROVE  /\ s \in Seq(S) /\ Len(s) \in Nat /\ DOMAIN s = 1..Len(s)
           /\ \A i \in DOMAIN s : s[i] \in S
           /\ \A x \in S : \E i \in DOMAIN s : s[i] = x
  BY DEF IsList, Range

\* The empty list lists nothing.
LEMMA EmptyList == IsList(<<>>, {})
  BY DEF IsList, Range

\* A list appended to another lists what both list.
LEMMA Concat ==
    ASSUME NEW s, NEW t, NEW S, NEW T, IsList(s, S), IsList(t, T)
    PROVE  IsList(s \o t, S \cup T)
  <1>1. s \in Seq(S \cup T) /\ t \in Seq(S \cup T)
    BY ListElement
  <1>2. s \o t \in Seq(S \cup T) /\ Len(s \o t) = Len(s) + Len(t)
    BY <1>1
  <1>3. \A x \in S : \E i \in DOMAIN (s \o t) : (s \o t)[i] = x
    BY <1>1, ListElement, SMTT(30)
  <1>4. ASSUME NEW x \in T PROVE \E i \in DOMAIN (s \o t) : (s \o t)[i] = x
    <2>1. PICK i \in DOMAIN t : t[i] = x
      BY ListElement, Zenon
    <2>2. Len(s) + i \in DOMAIN (s \o t) /\ (s \o t)[Len(s) + i] = x
      BY <1>1, <1>2, <2>1, ListElement
    <2> QED
      BY <2>2, Zenon
  <1>5. \A i \in DOMAIN (s \o t) : (s \o t)[i] \in S \cup T
    BY <1>2
  <1>6. Range(s \o t) = S \cup T
    BY <1>3, <1>4, <1>5, Zenon DEF Range
  <1> QED
    BY <1>2, <1>6, Zenon DEF IsList

\* A list that another is appended to is a prefix of the result.
LEMMA Prefix ==
    ASSUME NEW s, NEW t, NEW S, NEW T, IsList(s, S), IsList(t, T)
    PROVE  Len(s \o t) >= Len(s) /\ \A i \in 1..Len(s) : (s \o t)[i] = s[i]
  <1>1. s \in Seq(S \cup T) /\ t \in Seq(S \cup T)
    BY ListElement
  <1> QED
    BY <1>1

\* A step for each resource of a list.
StepsFor(f, s) == [i \in DOMAIN s |-> f[s[i]]]
ImageOf(f, S) == {f[r] : r \in S}

\* One step per listed resource makes the list of their steps.
LEMMA Steps ==
    ASSUME NEW s, NEW S, IsList(s, S), NEW f, S \subseteq DOMAIN f
    PROVE  IsList(StepsFor(f, s), ImageOf(f, S))
  <1> DEFINE t == [i \in DOMAIN s |-> f[s[i]]]
             T == {f[r] : r \in S}
  <1>1. \A i \in DOMAIN s : t[i] = f[s[i]] /\ f[s[i]] \in T
    BY ListElement, Zenon
  <1>2. t \in Seq(T) /\ DOMAIN t = DOMAIN s
    BY <1>1, ListElement
  <1>3. ASSUME NEW x \in T PROVE \E i \in DOMAIN t : t[i] = x
    <2>1. PICK r \in S : x = f[r]
      BY Zenon
    <2>2. PICK i \in DOMAIN s : s[i] = r
      BY ListElement, Zenon
    <2> QED
      BY <2>1, <2>2, <1>1, <1>2, Zenon
  <1>4. Range(t) = T
    BY <1>1, <1>2, <1>3, ZenonT(40) DEF Range
  <1> QED
    BY <1>2, <1>4, Zenon DEF IsList, StepsFor, ImageOf

\* EnsureAll ensures exactly the listed resources.
LEMMA EnsureSteps ==
    ASSUME NEW s, NEW S, IsList(s, S)
    PROVE  IsList(EnsureAll(s), {Ensure(r) : r \in S})
  <1> DEFINE f == [r \in S |-> Ensure(r)]
  <1>1. IsList(StepsFor(f, s), ImageOf(f, S))
    <2>1. S \subseteq DOMAIN f
      BY Zenon
    <2> HIDE DEF f
    <2> QED
      BY <2>1, Steps, Zenon
  <1>2. StepsFor(f, s) = EnsureAll(s)
    BY ListElement, Zenon DEF StepsFor, EnsureAll
  <1>3. ImageOf(f, S) = {Ensure(r) : r \in S}
    BY Zenon DEF ImageOf
  <1> QED
    BY <1>1, <1>2, <1>3, Zenon

\* DeleteAll deletes exactly the listed resources.
LEMMA DeleteSteps ==
    ASSUME NEW s, NEW S, IsList(s, S)
    PROVE  IsList(DeleteAll(s), {Delete(r) : r \in S})
  <1> DEFINE f == [r \in S |-> Delete(r)]
  <1>1. IsList(StepsFor(f, s), ImageOf(f, S))
    <2>1. S \subseteq DOMAIN f
      BY Zenon
    <2> HIDE DEF f
    <2> QED
      BY <2>1, Steps, Zenon
  <1>2. StepsFor(f, s) = DeleteAll(s)
    BY ListElement, Zenon DEF StepsFor, DeleteAll
  <1>3. ImageOf(f, S) = {Delete(r) : r \in S}
    BY Zenon DEF ImageOf
  <1> QED
    BY <1>1, <1>2, <1>3, Zenon

EnsureWithSet(S, fails) == {EnsureOrFail(r, fails /\ r.kind = "ConfigMap") : r \in S}

\* EnsureWith ensures exactly the listed resources; only ConfigMaps may fail.
LEMMA EnsureWithSteps ==
    ASSUME NEW s, NEW S, IsList(s, S), NEW fails
    PROVE  IsList(EnsureWith(s, fails), EnsureWithSet(S, fails))
  <1> DEFINE f == [r \in S |-> EnsureOrFail(r, fails /\ r.kind = "ConfigMap")]
  <1>1. IsList(StepsFor(f, s), ImageOf(f, S))
    <2>1. S \subseteq DOMAIN f
      BY Zenon
    <2> HIDE DEF f
    <2> QED
      BY <2>1, Steps, Zenon
  <1>2. StepsFor(f, s) = EnsureWith(s, fails)
    BY ListElement, Zenon DEF StepsFor, EnsureWith
  <1>3. ImageOf(f, S) = EnsureWithSet(S, fails)
    BY Zenon DEF ImageOf, EnsureWithSet
  <1> QED
    BY <1>1, <1>2, <1>3, Zenon

-----------------------------------------------------------------------------
(* The bundle of the console proxy *)

\* One pass of the loop that sorts the objects of the bundle.
Pass(kind, kept, n) ==
    IF CP!BundleFile[n].kind = kind THEN Append(kept, CP!BundleFile[n]) ELSE kept

Passes(kind, n, kept) ==
    kept = [m \in 0..n |-> IF m = 0 THEN <<>> ELSE Pass(kind, kept[m - 1], m)]

\* The recursion is well defined.
LEMMA LoopRuns ==
    ASSUME NEW kind, NEW N \in Nat
    PROVE  \E kept : Passes(kind, N, kept)
  <1> DEFINE I == {n \in 0..N : ~ \E kept : Passes(kind, n, kept)}
  <1>1. SUFFICES ASSUME I # {} PROVE FALSE
    <2>1. N \in 0..N
      OBVIOUS
    <2> QED
      BY <1>1, <2>1, Zenon
  <1>2. I \in SUBSET Nat
    OBVIOUS
  <1>3. PICK n \in I : \A j \in I : n <= j
    BY <1>1, <1>2, LeastExists, Zenon
  <1>4. n \in 0..N /\ ~ \E kept : Passes(kind, n, kept)
    BY <1>3, Zenon
  <1>5. CASE n = 0
    <2>1. Passes(kind, 0, [m \in 0..0 |-> <<>>])
      BY DEF Passes
    <2> QED
      BY <1>4, <1>5, <2>1, Zenon
  <1>6. CASE n # 0
    <2>1. n - 1 \in 0..N /\ ~(n <= n - 1)
      BY <1>4, <1>6
    <2>2. PICK f : Passes(kind, n - 1, f)
      BY <1>3, <2>1, Zenon
    <2> DEFINE g == [m \in 0..n |-> IF m = n THEN Pass(kind, f[n - 1], n) ELSE f[m]]
    <2>3. \A m \in 0..(n - 1) : f[m] = IF m = 0 THEN <<>> ELSE Pass(kind, f[m - 1], m)
      BY <2>2, Zenon DEF Passes
    <2>4. \A m \in 0..n : g[m] = IF m = 0 THEN <<>> ELSE Pass(kind, g[m - 1], m)
      BY <1>4, <1>6, <2>3
    <2>5. Passes(kind, n, g)
      BY <2>4, Zenon DEF Passes
    <2> QED
      BY <1>4, <2>5, Zenon
  <1> QED
    BY <1>5, <1>6, Zenon

\* The objects of a kind among the first n of the file.
OfKindBefore(kind, n) == {CP!BundleFile[i] : i \in {i \in 1..n : CP!BundleFile[i].kind = kind}}

\* The loop keeps the objects of the kind.
LEMMA LoopKeeps ==
    ASSUME NEW kind, NEW N \in Nat, NEW kept, Passes(kind, N, kept), NEW n \in 0..N
    PROVE  IsList(kept[n], OfKindBefore(kind, n))
  <1> DEFINE I == {m \in 0..N : ~IsList(kept[m], OfKindBefore(kind, m))}
  <1>1. SUFFICES ASSUME I # {} PROVE FALSE
    BY <1>1, Zenon
  <1>2. I \in SUBSET Nat
    OBVIOUS
  <1>3. PICK m \in I : \A j \in I : m <= j
    BY <1>1, <1>2, LeastExists, Zenon
  <1>4. m \in 0..N /\ ~IsList(kept[m], OfKindBefore(kind, m))
    BY <1>3, Zenon
  <1>5. kept[m] = IF m = 0 THEN <<>> ELSE Pass(kind, kept[m - 1], m)
    BY <1>4, Zenon DEF Passes
  <1>6. CASE m = 0
    <2>1. OfKindBefore(kind, 0) = {}
      BY DEF OfKindBefore
    <2> QED
      BY <1>4, <1>5, <1>6, <2>1, EmptyList, Zenon
  <1>7. CASE m # 0
    <2>1. m - 1 \in 0..N /\ ~(m <= m - 1) /\ 1..m = 1..(m - 1) \cup {m}
      BY <1>4, <1>7
    <2>2. IsList(kept[m - 1], OfKindBefore(kind, m - 1))
      BY <1>3, <2>1, Zenon
    <2> DEFINE x == CP!BundleFile[m]
    <2>3. kept[m] = IF x.kind = kind THEN Append(kept[m - 1], x) ELSE kept[m - 1]
      BY <1>5, <1>7, Zenon DEF Pass
    <2>4. OfKindBefore(kind, m) = IF x.kind = kind THEN OfKindBefore(kind, m - 1) \cup {x}
                                  ELSE OfKindBefore(kind, m - 1)
      BY <2>1, Zenon DEF OfKindBefore
    <2> HIDE DEF x
    <2>5. IsList(<<x>>, {x})
      BY DEF IsList, Range
    <2>6. Append(kept[m - 1], x) = kept[m - 1] \o <<x>>
      <3>1. kept[m - 1] \in Seq(OfKindBefore(kind, m - 1) \cup {x})
        BY <2>2, ListElement
      <3> QED
        BY <3>1
    <2>7. IsList(kept[m - 1] \o <<x>>, OfKindBefore(kind, m - 1) \cup {x})
      BY <2>2, <2>5, Concat, Zenon
    <2> QED
      BY <1>4, <2>2, <2>3, <2>4, <2>6, <2>7, Zenon
  <1> QED
    BY <1>6, <1>7, Zenon

Bundle(kind) == OfKindBefore(kind, Len(CP!BundleFile))

\* OfKind lists the objects of the kind.
LEMMA OfKindLists ==
    ASSUME NEW kind, Len(CP!BundleFile) \in Nat
    PROVE  IsList(CP!OfKind(kind), Bundle(kind))
  <1> DEFINE kept[n \in 0..Len(CP!BundleFile)] ==
                IF n = 0 THEN <<>>
                ELSE IF CP!BundleFile[n].kind = kind THEN Append(kept[n - 1], CP!BundleFile[n])
                ELSE kept[n - 1]
  <1>1. CP!OfKind(kind) = kept[Len(CP!BundleFile)]
    BY Zenon DEF CP!OfKind
  <1>2. \E f : Passes(kind, Len(CP!BundleFile), f)
    BY LoopRuns, Zenon
  <1>3. Passes(kind, Len(CP!BundleFile), kept)
    BY <1>2, Zenon DEF Passes, Pass
  <1> HIDE DEF kept
  <1>4. Len(CP!BundleFile) \in 0..Len(CP!BundleFile)
    OBVIOUS
  <1>5. IsList(kept[Len(CP!BundleFile)], OfKindBefore(kind, Len(CP!BundleFile)))
    BY <1>3, <1>4, LoopKeeps, Zenon
  <1> QED
    BY <1>1, <1>5, Zenon DEF Bundle

\* The objects of the file, by what the operator knows of them.
LEMMA BundleObjects ==
    /\ Len(CP!BundleFile) = 9
    /\ CP!BundleFile[1] = NamespacedResource("ServiceAccount", CP!operandName, {})
    /\ CP!BundleFile[2] = ClusterResource("ClusterRole", "token.kubevirt.io:generate", "", {})
    /\ CP!BundleFile[3] = ClusterResource("ClusterRole", CP!operandName, "", {})
    /\ CP!BundleFile[4] = ClusterResource("RoleBinding", CP!operandName, "kube-system",
                              {Ref("ServiceAccount", CP!operandName)})
    /\ CP!BundleFile[5] = ClusterResource("ClusterRoleBinding", CP!operandName, "",
                              {Ref("ClusterRole", CP!operandName),
                               Ref("ServiceAccount", CP!operandName)})
    /\ CP!BundleFile[6] = NamespacedResource("ConfigMap", CP!operandName, {})
    /\ CP!BundleFile[7] = NamespacedResource("Service", CP!operandName,
                              {Ref("Deployment", CP!operandName)})
    /\ CP!BundleFile[8] = NamespacedResource("Deployment", CP!operandName,
                              {Ref("ServiceAccount", CP!operandName),
                               Ref("ConfigMap", CP!operandName)})
    /\ CP!BundleFile[9] = ClusterResource("APIService", "v1.token.kubevirt.io", "",
                              {Ref("Service", CP!operandName)})
  BY Zenon DEF CP!BundleFile, CP!NamespacedResource, CP!ClusterResource, CP!Ref,
         NamespacedResource, ClusterResource, Ref

\* The kinds of the file's objects, in the order of the file.
LEMMA BundleKinds ==
    /\ CP!BundleFile[1].kind = "ServiceAccount" /\ CP!BundleFile[2].kind = "ClusterRole"
    /\ CP!BundleFile[3].kind = "ClusterRole" /\ CP!BundleFile[4].kind = "RoleBinding"
    /\ CP!BundleFile[5].kind = "ClusterRoleBinding" /\ CP!BundleFile[6].kind = "ConfigMap"
    /\ CP!BundleFile[7].kind = "Service" /\ CP!BundleFile[8].kind = "Deployment"
    /\ CP!BundleFile[9].kind = "APIService"
  BY Zenon DEF CP!BundleFile, CP!NamespacedResource, CP!ClusterResource

\* What ReadBundle's loop sorts out of the file, kind by kind.
LEMMA BundleSorted ==
    /\ IsList(CP!OfKind("ServiceAccount"), {CP!BundleFile[1]})
    /\ IsList(CP!OfKind("ClusterRole"), {CP!BundleFile[2], CP!BundleFile[3]})
    /\ IsList(CP!OfKind("RoleBinding"), {CP!BundleFile[4]})
    /\ IsList(CP!OfKind("ClusterRoleBinding"), {CP!BundleFile[5]})
    /\ IsList(CP!OfKind("ConfigMap"), {CP!BundleFile[6]})
    /\ IsList(CP!OfKind("Service"), {CP!BundleFile[7]})
    /\ IsList(CP!OfKind("Deployment"), {CP!BundleFile[8]})
    /\ IsList(CP!OfKind("APIService"), {CP!BundleFile[9]})
  <1>1. Len(CP!BundleFile) = 9 /\ Len(CP!BundleFile) \in Nat
    <2>1. Len(CP!BundleFile) = 9
      BY BundleObjects, Zenon
    <2> QED
      BY <2>1
  <1>2. \A kind : Bundle(kind) = {CP!BundleFile[i] : i \in {i \in 1..9 : CP!BundleFile[i].kind = kind}}
    BY <1>1, Zenon DEF Bundle, OfKindBefore
  <1>3. 1..9 = {1, 2, 3, 4, 5, 6, 7, 8, 9}
    OBVIOUS
  <1>4. /\ Bundle("ServiceAccount") = {CP!BundleFile[1]}
        /\ Bundle("ClusterRole") = {CP!BundleFile[2], CP!BundleFile[3]}
        /\ Bundle("RoleBinding") = {CP!BundleFile[4]}
        /\ Bundle("ClusterRoleBinding") = {CP!BundleFile[5]}
    BY <1>2, <1>3, BundleKinds
  <1>5. /\ Bundle("ConfigMap") = {CP!BundleFile[6]}
        /\ Bundle("Service") = {CP!BundleFile[7]}
        /\ Bundle("Deployment") = {CP!BundleFile[8]}
        /\ Bundle("APIService") = {CP!BundleFile[9]}
    BY <1>2, <1>3, BundleKinds
  <1>6. \A kind : IsList(CP!OfKind(kind), Bundle(kind))
    BY <1>1, OfKindLists, Zenon
  <1> QED
    BY <1>4, <1>5, <1>6, Zenon

-----------------------------------------------------------------------------
(* Plans *)

\* The plan p ensures the resources of E and deletes those of D.
IsPlan(p, E, D) ==
    /\ p \in Seq(Range(p))
    /\ \A s \in Range(p) : \/ s.act = "ensure" /\ s.res \in E
                           \/ s.act = "delete" /\ s.res \in D
    /\ \A r \in E : \E s \in Range(p) : s.act = "ensure" /\ s.res = r
    /\ \A r \in D : \E s \in Range(p) : s.act = "delete" /\ s.res = r

\* No step: nothing ensured, nothing deleted.
LEMMA EmptyPlan == IsPlan(<<>>, {}, {})
  BY DEF IsPlan, Range

\* A plan after another ensures and deletes what both do.
LEMMA ConcatPlan ==
    ASSUME NEW p, NEW q, NEW E, NEW D, NEW F, NEW G, IsPlan(p, E, D), IsPlan(q, F, G)
    PROVE  IsPlan(p \o q, E \cup F, D \cup G)
  <1>1. IsList(p, Range(p)) /\ IsList(q, Range(q))
    BY Zenon DEF IsPlan, IsList
  <1>2. IsList(p \o q, Range(p) \cup Range(q))
    BY <1>1, Concat, Zenon
  <1>3. p \o q \in Seq(Range(p \o q)) /\ Range(p \o q) = Range(p) \cup Range(q)
    BY <1>2, Zenon DEF IsList
  <1> QED
    BY <1>3, ZenonT(40) DEF IsPlan

\* EnsureAll is a plan that only ensures.
LEMMA EnsurePlan ==
    ASSUME NEW s, NEW S, IsList(s, S)
    PROVE  IsPlan(EnsureAll(s), S, {})
  <1>1. IsList(EnsureAll(s), {Ensure(r) : r \in S})
    BY EnsureSteps, Zenon
  <1>2. \A r : Ensure(r).act = "ensure" /\ Ensure(r).res = r
    BY Zenon DEF Ensure
  <1> QED
    BY <1>1, <1>2, Zenon DEF IsPlan, IsList

\* So is EnsureWith, whichever of its steps fail.
LEMMA EnsureWithPlan ==
    ASSUME NEW s, NEW S, IsList(s, S), NEW fails
    PROVE  IsPlan(EnsureWith(s, fails), S, {})
  <1>1. IsList(EnsureWith(s, fails), EnsureWithSet(S, fails))
    BY EnsureWithSteps, Zenon
  <1>3. \A x \in EnsureWithSet(S, fails) : x.act = "ensure" /\ x.res \in S
    BY Zenon DEF EnsureWithSet, EnsureOrFail, Ensure
  <1>4. ASSUME NEW r \in S
        PROVE  \E x \in EnsureWithSet(S, fails) : x.act = "ensure" /\ x.res = r
    <2> DEFINE x == EnsureOrFail(r, fails /\ r.kind = "ConfigMap")
    <2>1. x \in EnsureWithSet(S, fails)
      BY Zenon DEF EnsureWithSet
    <2>2. x.act = "ensure" /\ x.res = r
      BY Zenon DEF EnsureOrFail, Ensure
    <2> HIDE DEF x
    <2> QED
      BY <2>1, <2>2, Zenon
  <1> QED
    BY <1>1, <1>3, <1>4, Zenon DEF IsPlan, IsList

\* DeleteAll is a plan that only deletes.
LEMMA DeletePlan ==
    ASSUME NEW s, NEW S, IsList(s, S)
    PROVE  IsPlan(DeleteAll(s), {}, S)
  <1>1. IsList(DeleteAll(s), {Delete(r) : r \in S})
    BY DeleteSteps, Zenon
  <1>2. \A r : Delete(r).act = "delete" /\ Delete(r).res = r
    BY Zenon DEF Delete
  <1> QED
    BY <1>1, <1>2, Zenon DEF IsPlan, IsList

-----------------------------------------------------------------------------
(* The resources of the operands *)

DsPolicies == {ClusterResource("NetworkPolicy", name, DS!GoldenImagesNamespace, {}) :
                  name \in {"egress-from-importer-and-clone-source", "ingress-to-importer-metrics",
                            "ingress-from-clone-source", "ingress-from-upload-proxy",
                            "egress-from-clone-source", "egress-from-importer"}}
DsResources == {DS!newGoldenImagesNS, DS!newViewRole, DS!newViewRoleBinding, DS!newEditRole,
                DS!aDataSource, DS!aDataImportCron} \cup DsPolicies
VpResources == {VP!newValidatingAdmissionPolicy, VP!newValidatingAdmissionPolicyBinding}
MeCleaned == {ME!newMonitoringClusterRole, ME!newMonitoringClusterRoleBinding}
MeResources == {ME!newValidatorServiceMonitor, ME!newSspServiceMonitor, ME!BuildPrometheusRule}
               \cup MeCleaned
TvPolicies == {NamespacedResource("NetworkPolicy", "egress-from-validator", {}),
               NamespacedResource("NetworkPolicy", "ingress-to-validator", {})}
TvCore == {TV!newClusterRole, TV!newServiceAccount, TV!newClusterRoleBinding, TV!newService,
           TV!newPrometheusService, TV!newConfigMap, TV!newDeployment, TV!newValidatingWebhook}
TvCleaned == {TV!newClusterRole, TV!newClusterRoleBinding, TV!newValidatingWebhook}
TvResources(singleReplica) ==
    TvCore \cup (IF singleReplica THEN {} ELSE {TV!newPodDisruptionBudget}) \cup TvPolicies
CpBundle == {CP!BundleFile[1], CP!BundleFile[2], CP!BundleFile[3], CP!BundleFile[4],
             CP!BundleFile[5], CP!BundleFile[6], CP!BundleFile[7], CP!BundleFile[8],
             CP!BundleFile[9]}
CpPolicies == {NamespacedResource("NetworkPolicy", "egress-from-console-proxy", {}),
               NamespacedResource("NetworkPolicy", "ingress-to-console-proxy", {})}
CpRoute == NamespacedResource("Route", CP!operandName, {Ref("Service", CP!operandName)})
CpOld == {CP!oldApiService, CpRoute}

\* What data-sources reconciles, and cleans up in two passes.
LEMMA DsLists ==
    ASSUME NEW openShift
    PROVE  /\ IsList(DS!Reconcile(openShift), DsResources)
           /\ IsList(DS!CleanupFirst, {DS!aDataImportCron})
           /\ IsList(DS!CleanupRest(openShift), DsResources \ {DS!aDataImportCron})
  <1>1. IsList(DS!reconcileNetworkPolicies(openShift), DsPolicies)
    <2> DEFINE policies == DS!newNetworkPolicies(openShift)
    <2>1. /\ policies \in Seq({policies[1], policies[2], policies[3], policies[4], policies[5],
                               policies[6]})
          /\ Len(policies) = 6
      BY SMTT(30) DEF DS!newNetworkPolicies
    <2>2. /\ policies[1].name = "egress-from-importer-and-clone-source"
          /\ policies[2].name = "ingress-to-importer-metrics"
          /\ policies[3].name = "ingress-from-clone-source"
          /\ policies[4].name = "ingress-from-upload-proxy"
          /\ policies[5].name = "egress-from-clone-source"
          /\ policies[6].name = "egress-from-importer"
      BY DEF DS!newNetworkPolicies, DS!NewEgressToKubeAPIAndDNS, DS!NewIngressToImporterMetrics,
             DS!NewIngressFromCDIUploadServerToCDICloneSource,
             DS!NewIngressFromCDIUploadProxyToCDIUploadServer,
             DS!NewEgressFromCDICloneSourceToCDIUploadServer,
             DS!NewEgressFromImporterToDataSource, DS!newNetworkPolicy
    <2>3. DS!reconcileNetworkPolicies(openShift) =
             [i \in DOMAIN policies |->
                ClusterResource("NetworkPolicy", policies[i].name, DS!GoldenImagesNamespace, {})]
      BY Zenon DEF DS!reconcileNetworkPolicies, DS!InGoldenImages, DS!ClusterResource, ClusterResource
    <2> HIDE DEF policies
    <2>4. DOMAIN policies = 1..6 /\ 1..6 = {1, 2, 3, 4, 5, 6}
      BY <2>1
    <2> QED
      BY <2>2, <2>3, <2>4 DEF DsPolicies, IsList, Range
  <1>2. IsList(<<DS!newGoldenImagesNS, DS!newViewRole, DS!newViewRoleBinding, DS!newEditRole,
                 DS!aDataSource>>,
               {DS!newGoldenImagesNS, DS!newViewRole, DS!newViewRoleBinding, DS!newEditRole,
                DS!aDataSource})
    BY DEF IsList, Range
  <1>3. IsList(<<DS!aDataSource, DS!newGoldenImagesNS, DS!newViewRole, DS!newViewRoleBinding,
                 DS!newEditRole>>,
               {DS!newGoldenImagesNS, DS!newViewRole, DS!newViewRoleBinding, DS!newEditRole,
                DS!aDataSource})
    BY DEF IsList, Range
  <1>4. IsList(<<DS!aDataImportCron>>, {DS!aDataImportCron})
    BY DEF IsList, Range
  <1> DEFINE Rest == {DS!newGoldenImagesNS, DS!newViewRole, DS!newViewRoleBinding,
                      DS!newEditRole, DS!aDataSource} \cup DsPolicies
  <1>5. IsList(DS!Reconcile(openShift), Rest \cup {DS!aDataImportCron})
    BY <1>1, <1>2, <1>4, Concat, Zenon DEF DS!Reconcile
  <1>6. IsList(DS!CleanupRest(openShift), Rest)
    BY <1>1, <1>3, Concat, Zenon DEF DS!CleanupRest
  <1>7. DsResources = Rest \cup {DS!aDataImportCron}
    BY Zenon DEF DsResources
  <1>8. \A r \in Rest : r.kind # "DataImportCron"
    <2>1. \A r \in DsPolicies : r.kind = "NetworkPolicy"
      BY DEF DsPolicies, ClusterResource
    <2>2. DS!newGoldenImagesNS.kind = "Namespace" /\ DS!newViewRole.kind = "Role"
      BY Zenon DEF DS!newGoldenImagesNS, DS!newViewRole, DS!InGoldenImages, DS!ClusterResource
    <2>3. DS!newViewRoleBinding.kind = "RoleBinding" /\ DS!newEditRole.kind = "ClusterRole"
      BY Zenon DEF DS!newViewRoleBinding, DS!newEditRole, DS!InGoldenImages, DS!ClusterResource
    <2>4. DS!aDataSource.kind = "DataSource"
      BY Zenon DEF DS!aDataSource, DS!InGoldenImages, DS!ClusterResource
    <2> QED
      BY <2>1, <2>2, <2>3, <2>4, Zenon
  <1>9. DS!aDataImportCron.kind = "DataImportCron"
    BY Zenon DEF DS!aDataImportCron, DS!InGoldenImages, DS!ClusterResource
  <1>10. DsResources \ {DS!aDataImportCron} = Rest
    BY <1>7, <1>8, <1>9, Zenon
  <1> QED
    BY <1>4, <1>5, <1>6, <1>7, <1>10, Zenon DEF DS!CleanupFirst

\* What vm-delete-protection reconciles and cleans up.
LEMMA VpLists ==
    IsList(VP!Reconcile, VpResources) /\ IsList(VP!Cleanup, VpResources)
  BY DEF VP!Reconcile, VP!Cleanup, VpResources, IsList, Range

\* What metrics reconciles and cleans up.
LEMMA MeLists ==
    IsList(ME!Reconcile, MeResources) /\ IsList(ME!Cleanup, MeCleaned)
  BY DEF ME!Reconcile, ME!Cleanup, MeResources, MeCleaned, IsList, Range

\* The network policies of the template validator.
LEMMA TvPolicyList == IsList(TV!reconcileNetworkPolicies, TvPolicies)
  <1> DEFINE policies == TV!newNetworkPolicies
  <1>1. DOMAIN policies = 1..2
    BY DEF TV!newNetworkPolicies
  <1>2. policies[1].name = "egress-from-validator" /\ policies[2].name = "ingress-to-validator"
    BY DEF TV!newNetworkPolicies, TV!NewEgressToKubeAPIAndDNS,
           TV!NewIngressToVirtTemplateValidatorWebhookAndMetrics, TV!newNetworkPolicy
  <1>3. TV!reconcileNetworkPolicies =
           [i \in DOMAIN policies |-> NamespacedResource("NetworkPolicy", policies[i].name, {})]
    BY Zenon DEF TV!reconcileNetworkPolicies, TV!NamespacedResource, NamespacedResource
  <1> HIDE DEF policies
  <1> QED
    BY <1>1, <1>2, <1>3 DEF TvPolicies, IsList, Range

\* The disruption budget, which a single-replica cluster does without.
LEMMA TvBudgetList ==
    ASSUME NEW singleReplica \in BOOLEAN
    PROVE  IsList(IF singleReplica THEN <<>> ELSE <<TV!newPodDisruptionBudget>>,
                  IF singleReplica THEN {} ELSE {TV!newPodDisruptionBudget})
  <1>1. IsList(<<TV!newPodDisruptionBudget>>, {TV!newPodDisruptionBudget})
    BY DEF IsList, Range
  <1> QED
    BY <1>1, EmptyList, Zenon

\* What the template validator reconciles on every cluster.
LEMMA TvCoreList ==
    IsList(<<TV!newClusterRole, TV!newServiceAccount, TV!newClusterRoleBinding,
             TV!newService, TV!newPrometheusService, TV!newConfigMap,
             TV!newDeployment, TV!newValidatingWebhook>>, TvCore)
  BY DEF TvCore, IsList, Range

\* What the template validator reconciles and cleans up.
LEMMA TvLists ==
    ASSUME NEW singleReplica \in BOOLEAN
    PROVE  /\ IsList(TV!Reconcile(singleReplica), TvResources(singleReplica))
           /\ IsList(TV!Cleanup, TvCleaned)
  <1> DEFINE core == <<TV!newClusterRole, TV!newServiceAccount, TV!newClusterRoleBinding,
                       TV!newService, TV!newPrometheusService, TV!newConfigMap,
                       TV!newDeployment, TV!newValidatingWebhook>>
             budget == IF singleReplica THEN <<>> ELSE <<TV!newPodDisruptionBudget>>
  <1>2. IsList(core, TvCore)
    BY TvCoreList, Zenon
  <1>3. IsList(budget, IF singleReplica THEN {} ELSE {TV!newPodDisruptionBudget})
    BY TvBudgetList, Zenon
  <1>4. TV!Reconcile(singleReplica) = core \o budget \o TV!reconcileNetworkPolicies
    BY Zenon DEF TV!Reconcile
  <1> HIDE DEF core, budget
  <1>5. IsList(TV!Reconcile(singleReplica), TvResources(singleReplica))
    <2> DEFINE Budget == IF singleReplica THEN {} ELSE {TV!newPodDisruptionBudget}
    <2>1. IsList(core \o budget, TvCore \cup Budget)
      BY <1>2, <1>3, Concat, Zenon
    <2>2. IsList((core \o budget) \o TV!reconcileNetworkPolicies, (TvCore \cup Budget) \cup TvPolicies)
      <3> HIDE DEF Budget
      <3> QED
        BY <2>1, TvPolicyList, Concat, Zenon
    <2> QED
      BY <1>4, <2>2, Zenon DEF TvResources
  <1>6. IsList(TV!Cleanup, TvCleaned)
    BY DEF TV!Cleanup, TvCleaned, IsList, Range
  <1> QED
    BY <1>5, <1>6, Zenon

\* What the console proxy reconciles, cleans up and deletes of its older versions.
LEMMA CpLists ==
    /\ IsList(CP!Reconcile, CpBundle \cup CpPolicies)
    /\ IsList(CP!deleteOld, CpOld)
    /\ IsList(CP!Cleanup, CpBundle \cup CpOld)
  <1>1. IsList(CP!reconcileNetworkPolicies, CpPolicies)
    <2> DEFINE policies == CP!newNetworkPolicies
    <2>1. DOMAIN policies = 1..2
      BY DEF CP!newNetworkPolicies
    <2>2. /\ policies[1].name = "egress-from-console-proxy"
          /\ policies[2].name = "ingress-to-console-proxy"
      BY DEF CP!newNetworkPolicies, CP!NewEgressToKubeAPIAndDNS,
             CP!NewIngressToVMConsoleProxyAPI, CP!newNetworkPolicy
    <2>3. CP!reconcileNetworkPolicies =
             [i \in DOMAIN policies |-> NamespacedResource("NetworkPolicy", policies[i].name, {})]
      BY Zenon DEF CP!reconcileNetworkPolicies, CP!NamespacedResource, NamespacedResource
    <2> HIDE DEF policies
    <2> QED
      BY <2>1, <2>2, <2>3 DEF CpPolicies, IsList, Range
  <1>2. IsList(CP!routes, {CpRoute})
    BY DEF CP!routes, CP!NamespacedResource, CP!Ref, CpRoute, NamespacedResource, Ref, IsList, Range
  <1>3. IsList(<<CP!oldApiService>>, {CP!oldApiService})
    BY DEF IsList, Range
  <1> DEFINE b(i) == {CP!BundleFile[i]}
  <1>4. IsList(CP!Reconcile,
               b(1) \cup {CP!BundleFile[2], CP!BundleFile[3]} \cup b(5) \cup b(4) \cup b(6)
               \cup b(7) \cup b(8) \cup b(9) \cup CpPolicies)
    <2> DEFINE l1 == CP!OfKind("ServiceAccount") \o CP!OfKind("ClusterRole")
               S1 == b(1) \cup {CP!BundleFile[2], CP!BundleFile[3]}
    <2>1. IsList(l1, S1)
      BY <1>1, <1>2, <1>3, BundleSorted, Concat, Zenon
    <2> HIDE DEF l1, S1
    <2> DEFINE l2 == l1 \o CP!OfKind("ClusterRoleBinding")
               S2 == S1 \cup b(5)
    <2>2. IsList(l2, S2)
      BY <2>1, <1>1, <1>2, <1>3, BundleSorted, Concat, Zenon
    <2> HIDE DEF l2, S2
    <2> DEFINE l3 == l2 \o CP!OfKind("RoleBinding")
               S3 == S2 \cup b(4)
    <2>3. IsList(l3, S3)
      BY <2>2, <1>1, <1>2, <1>3, BundleSorted, Concat, Zenon
    <2> HIDE DEF l3, S3
    <2> DEFINE l4 == l3 \o CP!OfKind("ConfigMap")
               S4 == S3 \cup b(6)
    <2>4. IsList(l4, S4)
      BY <2>3, <1>1, <1>2, <1>3, BundleSorted, Concat, Zenon
    <2> HIDE DEF l4, S4
    <2> DEFINE l5 == l4 \o CP!OfKind("Service")
               S5 == S4 \cup b(7)
    <2>5. IsList(l5, S5)
      BY <2>4, <1>1, <1>2, <1>3, BundleSorted, Concat, Zenon
    <2> HIDE DEF l5, S5
    <2> DEFINE l6 == l5 \o CP!OfKind("Deployment")
               S6 == S5 \cup b(8)
    <2>6. IsList(l6, S6)
      BY <2>5, <1>1, <1>2, <1>3, BundleSorted, Concat, Zenon
    <2> HIDE DEF l6, S6
    <2> DEFINE l7 == l6 \o CP!OfKind("APIService")
               S7 == S6 \cup b(9)
    <2>7. IsList(l7, S7)
      BY <2>6, <1>1, <1>2, <1>3, BundleSorted, Concat, Zenon
    <2> HIDE DEF l7, S7
    <2> DEFINE l8 == l7 \o CP!reconcileNetworkPolicies
               S8 == S7 \cup CpPolicies
    <2>8. IsList(l8, S8)
      BY <2>7, <1>1, <1>2, <1>3, BundleSorted, Concat, Zenon
    <2> HIDE DEF l8, S8
    <2>9. CP!Reconcile = l8
      BY Zenon DEF l1, l2, l3, l4, l5, l6, l7, l8, CP!Reconcile
    <2> QED
      BY <2>8, <2>9, Zenon DEF S1, S2, S3, S4, S5, S6, S7, S8
  <1>5. IsList(CP!Cleanup,
               {CpRoute} \cup {CP!oldApiService} \cup b(1) \cup b(6) \cup b(7) \cup b(8)
               \cup {CP!BundleFile[2], CP!BundleFile[3]} \cup b(5) \cup b(4) \cup b(9))
    <2> DEFINE l1 == CP!routes \o <<CP!oldApiService>>
               S1 == {CpRoute} \cup {CP!oldApiService}
    <2>1. IsList(l1, S1)
      BY <1>1, <1>2, <1>3, BundleSorted, Concat, Zenon
    <2> HIDE DEF l1, S1
    <2> DEFINE l2 == l1 \o CP!OfKind("ServiceAccount")
               S2 == S1 \cup b(1)
    <2>2. IsList(l2, S2)
      BY <2>1, <1>1, <1>2, <1>3, BundleSorted, Concat, ZenonT(40)
    <2> HIDE DEF l2, S2
    <2> DEFINE l3 == l2 \o CP!OfKind("ConfigMap")
               S3 == S2 \cup b(6)
    <2>3. IsList(l3, S3)
      BY <2>2, <1>1, <1>2, <1>3, BundleSorted, Concat, Zenon
    <2> HIDE DEF l3, S3
    <2> DEFINE l4 == l3 \o CP!OfKind("Service")
               S4 == S3 \cup b(7)
    <2>4. IsList(l4, S4)
      BY <2>3, <1>1, <1>2, <1>3, BundleSorted, Concat, Zenon
    <2> HIDE DEF l4, S4
    <2> DEFINE l5 == l4 \o CP!OfKind("Deployment")
               S5 == S4 \cup b(8)
    <2>5. IsList(l5, S5)
      BY <2>4, <1>1, <1>2, <1>3, BundleSorted, Concat, Zenon
    <2> HIDE DEF l5, S5
    <2> DEFINE l6 == l5 \o CP!OfKind("ClusterRole")
               S6 == S5 \cup {CP!BundleFile[2], CP!BundleFile[3]}
    <2>6. IsList(l6, S6)
      BY <2>5, <1>1, <1>2, <1>3, BundleSorted, Concat, ZenonT(40)
    <2> HIDE DEF l6, S6
    <2> DEFINE l7 == l6 \o CP!OfKind("ClusterRoleBinding")
               S7 == S6 \cup b(5)
    <2>7. IsList(l7, S7)
      BY <2>6, <1>1, <1>2, <1>3, BundleSorted, Concat, Zenon
    <2> HIDE DEF l7, S7
    <2> DEFINE l8 == l7 \o CP!OfKind("RoleBinding")
               S8 == S7 \cup b(4)
    <2>8. IsList(l8, S8)
      BY <2>7, <1>1, <1>2, <1>3, BundleSorted, Concat, Zenon
    <2> HIDE DEF l8, S8
    <2> DEFINE l9 == l8 \o CP!OfKind("APIService")
               S9 == S8 \cup b(9)
    <2>9. IsList(l9, S9)
      BY <2>8, <1>1, <1>2, <1>3, BundleSorted, Concat, Zenon
    <2> HIDE DEF l9, S9
    <2>10. CP!Cleanup = l9
      BY Zenon DEF l1, l2, l3, l4, l5, l6, l7, l8, l9, CP!Cleanup
    <2> QED
      BY <2>9, <2>10, Zenon DEF S1, S2, S3, S4, S5, S6, S7, S8, S9
  <1>6. IsList(CP!deleteOld, {CP!oldApiService} \cup {CpRoute})
    BY <1>2, <1>3, Concat, Zenon DEF CP!deleteOld
  <1>7. b(1) \cup {CP!BundleFile[2], CP!BundleFile[3]} \cup b(5) \cup b(4) \cup b(6)
        \cup b(7) \cup b(8) \cup b(9) \cup CpPolicies = CpBundle \cup CpPolicies
    BY Zenon DEF CpBundle
  <1>8. {CpRoute} \cup {CP!oldApiService} \cup b(1) \cup b(6) \cup b(7) \cup b(8)
        \cup {CP!BundleFile[2], CP!BundleFile[3]} \cup b(5) \cup b(4) \cup b(9) = CpBundle \cup CpOld
    BY Zenon DEF CpBundle, CpOld
  <1>9. {CP!oldApiService} \cup {CpRoute} = CpOld
    BY Zenon DEF CpOld
  <1> QED
    BY <1>4, <1>5, <1>6, <1>7, <1>8, <1>9, Zenon

-----------------------------------------------------------------------------
(* The plans of reconciliation and cleanup *)

EnsuredProxy(spec) == IF spec.tokenGeneration THEN CpBundle \cup CpPolicies ELSE {}
DeletedProxy(spec) == IF spec.tokenGeneration THEN CpOld ELSE CpBundle \cup CpOld
EnsuredOpenShift(e, spec) ==
    MeResources \cup TvResources(e.singleReplica) \cup {aTemplate} \cup EnsuredProxy(spec)
CleanedOpenShift == MeCleaned \cup TvCleaned \cup {aTemplate} \cup (CpBundle \cup CpOld)

Ensured(e, spec) ==
    (DsResources \cup VpResources) \cup IF e.openShift THEN EnsuredOpenShift(e, spec) ELSE {}
Deleted(e, spec) == IF e.openShift THEN DeletedProxy(spec) ELSE {}
Cleaned(e) == (DsResources \cup VpResources) \cup IF e.openShift THEN CleanedOpenShift ELSE {}

\* The types of the platform's and the spec's fields.
LEMMA ConstantTypes ==
    /\ \A e \in Envs : e.openShift \in BOOLEAN /\ e.singleReplica \in BOOLEAN
    /\ \A s \in Specs : s.tokenGeneration \in BOOLEAN
  BY EnvsAssumption, SpecsAssumption, Zenon

\* The proxy is ensured when tokens are generated and deleted otherwise.
LEMMA ProxyIsPlan ==
    ASSUME NEW spec \in Specs
    PROVE  IsPlan(ConsoleProxyPlan(spec), EnsuredProxy(spec), DeletedProxy(spec))
  <1>1. CASE spec.tokenGeneration
    <2> DEFINE f == ~CP!createTlsConfigFile(spec.tls)
    <2>1. IsPlan(EnsureWith(CP!Reconcile, f), CpBundle \cup CpPolicies, {})
      <3> HIDE DEF f
      <3> QED
        BY CpLists, EnsureWithPlan, Zenon
    <2>2. IsPlan(DeleteAll(CP!deleteOld), {}, CpOld)
      BY CpLists, DeletePlan, Zenon
    <2>3. IsPlan(EnsureWith(CP!Reconcile, f) \o DeleteAll(CP!deleteOld),
                 (CpBundle \cup CpPolicies) \cup {}, {} \cup CpOld)
      <3> HIDE DEF f
      <3> QED
        BY <2>1, <2>2, ConcatPlan, Zenon
    <2>4. (CpBundle \cup CpPolicies) \cup {} = EnsuredProxy(spec) /\ {} \cup CpOld = DeletedProxy(spec)
      BY <1>1, Zenon DEF EnsuredProxy, DeletedProxy
    <2>5. ConsoleProxyPlan(spec) = EnsureWith(CP!Reconcile, f) \o DeleteAll(CP!deleteOld)
      BY <1>1, Zenon DEF ConsoleProxyPlan
    <2> HIDE DEF f
    <2> QED
      BY <2>3, <2>4, <2>5, Zenon
  <1>2. CASE ~spec.tokenGeneration
    <2>1. IsPlan(DeleteAll(CP!Cleanup), {}, CpBundle \cup CpOld)
      BY CpLists, DeletePlan, Zenon
    <2> QED
      BY <1>2, <2>1, Zenon DEF ConsoleProxyPlan, EnsuredProxy, DeletedProxy
  <1> QED
    BY <1>1, <1>2, Zenon

\* Plans of one step.
LEMMA SingleStepPlan ==
    ASSUME NEW r
    PROVE  IsPlan(<<Ensure(r)>>, {r}, {}) /\ IsPlan(<<Delete(r)>>, {}, {r})
  <1>1. \A x : <<x>> \in Seq({x}) /\ Range(<<x>>) = {x}
    BY DEF Range
  <1>2. /\ Ensure(r).act = "ensure" /\ Ensure(r).res = r
        /\ Delete(r).act = "delete" /\ Delete(r).res = r
    BY Zenon DEF Ensure, Delete
  <1>3. IsPlan(<<Ensure(r)>>, {r}, {})
    BY <1>1, <1>2, ZenonT(40) DEF IsPlan
  <1>4. IsPlan(<<Delete(r)>>, {}, {r})
    BY <1>1, <1>2, ZenonT(40) DEF IsPlan
  <1> QED
    BY <1>3, <1>4, Zenon

\* Reconciliation ensures Ensured and deletes Deleted, and nothing else.
LEMMA ReconcileIsPlan ==
    ASSUME NEW e \in Envs, NEW spec \in Specs
    PROVE  IsPlan(ReconcilePlan(e, spec), Ensured(e, spec), Deleted(e, spec))
  <1> DEFINE l1 == EnsureAll(DS!Reconcile(e.openShift)) \o EnsureAll(VP!Reconcile)
             m1 == EnsureAll(ME!Reconcile)
             m2 == EnsureWith(TV!Reconcile(e.singleReplica), spec.tls = "badVersion")
             m3 == <<Ensure(aTemplate)>>
             m4 == ConsoleProxyPlan(spec)
             tail == IF ~e.openShift THEN <<>> ELSE m1 \o m2 \o m3 \o m4
  <1>1. IsPlan(EnsureAll(DS!Reconcile(e.openShift)), DsResources, {})
    BY DsLists, EnsurePlan, Zenon
  <1>2. IsPlan(EnsureAll(VP!Reconcile), VpResources, {})
    BY VpLists, EnsurePlan, Zenon
  <1>3. IsPlan(l1, DsResources \cup VpResources, {} \cup {})
    BY <1>1, <1>2, ConcatPlan, Zenon
  <1>4. IsPlan(m1, MeResources, {})
    BY MeLists, EnsurePlan, Zenon
  <1>5. IsPlan(m2, TvResources(e.singleReplica), {})
    <2>1. e.singleReplica \in BOOLEAN
      BY ConstantTypes, Zenon
    <2>2. IsList(TV!Reconcile(e.singleReplica), TvResources(e.singleReplica))
      BY <2>1, TvLists, Zenon
    <2> DEFINE f == spec.tls = "badVersion"
    <2> HIDE DEF f
    <2>3. IsPlan(EnsureWith(TV!Reconcile(e.singleReplica), f), TvResources(e.singleReplica), {})
      BY <2>2, EnsureWithPlan, Zenon
    <2> QED
      BY <2>3, Zenon DEF f
  <1>6. IsPlan(m3, {aTemplate}, {})
    BY SingleStepPlan, Zenon
  <1>7. IsPlan(m4, EnsuredProxy(spec), DeletedProxy(spec))
    BY ProxyIsPlan, Zenon
  <1>8. ReconcilePlan(e, spec) = l1 \o tail
    BY Zenon DEF ReconcilePlan
  <1> HIDE DEF l1, m1, m2, m3, m4
  <1>9. IsPlan(m1 \o m2, MeResources \cup TvResources(e.singleReplica), {} \cup {})
    BY <1>4, <1>5, ConcatPlan, Zenon
  <1>10. IsPlan((m1 \o m2) \o m3, (MeResources \cup TvResources(e.singleReplica)) \cup {aTemplate},
                ({} \cup {}) \cup {})
    BY <1>6, <1>9, ConcatPlan, Zenon
  <1>11. IsPlan(((m1 \o m2) \o m3) \o m4, EnsuredOpenShift(e, spec),
                (({} \cup {}) \cup {}) \cup DeletedProxy(spec))
    BY <1>7, <1>10, ConcatPlan, Zenon DEF EnsuredOpenShift
  <1>12. (({} \cup {}) \cup {}) \cup DeletedProxy(spec) = DeletedProxy(spec)
    BY Zenon
  <1> DEFINE F == IF e.openShift THEN EnsuredOpenShift(e, spec) ELSE {}
             G == Deleted(e, spec)
  <1>13. IsPlan(tail, F, G)
    BY <1>11, <1>12, EmptyPlan, Zenon DEF Deleted
  <1> HIDE DEF tail, F, G
  <1>14. IsPlan(l1 \o tail, (DsResources \cup VpResources) \cup F, ({} \cup {}) \cup G)
    BY <1>3, <1>13, ConcatPlan, Zenon
  <1>15. ({} \cup {}) \cup G = Deleted(e, spec)
    BY Zenon DEF G
  <1> QED
    BY <1>8, <1>14, <1>15, Zenon DEF Ensured, F

\* Cleanup deletes Cleaned and ensures nothing.
LEMMA CleanupIsPlan ==
    ASSUME NEW e \in Envs
    PROVE  IsPlan(CleanupPlan(e), {}, Cleaned(e))
  <1> DEFINE l1 == DeleteAll(DS!CleanupFirst) \o DeleteAll(DS!CleanupRest(e.openShift))
                   \o DeleteAll(VP!Cleanup)
             m == DeleteAll(ME!Cleanup) \o DeleteAll(TV!Cleanup) \o <<Delete(aTemplate)>>
                  \o DeleteAll(CP!Cleanup)
             tail == IF ~e.openShift THEN <<>> ELSE m
  <1>1. IsPlan(DeleteAll(DS!CleanupFirst) \o DeleteAll(DS!CleanupRest(e.openShift)), {} \cup {},
               {DS!aDataImportCron} \cup (DsResources \ {DS!aDataImportCron}))
    BY DsLists, DeletePlan, ConcatPlan, Zenon
  <1>2. IsPlan(DeleteAll(VP!Cleanup), {}, VpResources)
    BY VpLists, DeletePlan, Zenon
  <1>3. IsPlan(l1, ({} \cup {}) \cup {},
               ({DS!aDataImportCron} \cup (DsResources \ {DS!aDataImportCron})) \cup VpResources)
    BY <1>1, <1>2, ConcatPlan, Zenon
  <1>4. /\ ({DS!aDataImportCron} \cup (DsResources \ {DS!aDataImportCron})) \cup VpResources
              = DsResources \cup VpResources
        /\ ({} \cup {}) \cup {} = {}
    BY Zenon DEF DsResources
  <1>5. IsPlan(DeleteAll(ME!Cleanup) \o DeleteAll(TV!Cleanup), {} \cup {}, MeCleaned \cup TvCleaned)
    BY MeLists, TvLists, DeletePlan, ConcatPlan, Zenon
  <1>6. IsPlan((DeleteAll(ME!Cleanup) \o DeleteAll(TV!Cleanup)) \o <<Delete(aTemplate)>>,
               ({} \cup {}) \cup {}, (MeCleaned \cup TvCleaned) \cup {aTemplate})
    BY <1>5, SingleStepPlan, ConcatPlan, Zenon
  <1>7. IsPlan(DeleteAll(CP!Cleanup), {}, CpBundle \cup CpOld)
    BY CpLists, DeletePlan, Zenon
  <1>8. IsPlan(m, (({} \cup {}) \cup {}) \cup {}, CleanedOpenShift)
    BY <1>6, <1>7, ConcatPlan, Zenon DEF CleanedOpenShift
  <1>9. (({} \cup {}) \cup {}) \cup {} = {} /\ {} \cup {} = {}
    BY Zenon
  <1>10. CleanupPlan(e) = l1 \o tail
    BY Zenon DEF CleanupPlan
  <1> HIDE DEF l1, m
  <1> DEFINE G == IF e.openShift THEN CleanedOpenShift ELSE {}
  <1>11. IsPlan(tail, {}, G)
    BY <1>8, <1>9, EmptyPlan, Zenon
  <1> HIDE DEF tail, G
  <1>12. IsPlan(l1, {}, DsResources \cup VpResources)
    BY <1>3, <1>4, Zenon
  <1>13. IsPlan(l1 \o tail, {} \cup {}, (DsResources \cup VpResources) \cup G)
    BY <1>11, <1>12, ConcatPlan, Zenon
  <1> QED
    BY <1>9, <1>10, <1>13, Zenon DEF Cleaned, G

-----------------------------------------------------------------------------
(* What the resources of the operands are *)

Known(e) ==
    (DsResources \cup VpResources)
    \cup IF e.openShift
         THEN MeResources \cup TvResources(e.singleReplica) \cup {aTemplate}
              \cup CpBundle \cup CpPolicies \cup CpOld
         ELSE {}

webhook == TV!newValidatingWebhook
Server == {TV!newServiceAccount, TV!newConfigMap, TV!newService, TV!newDeployment}

\* The events of the resource reach the queue on the platform e.
Watched(e, r) ==
    \/ r.mark = "owner" /\ r.kind \in WatchTypes(e)
    \/ r.mark = "annotation" /\ r.kind \in WatchClusterTypes(e)

\* A namespace that takes no resource of the SSP's own namespace along.
Foreign(r) == r.kind = "Namespace" => r.name = DS!GoldenImagesNamespace

\* Data-sources owns its resources by annotation, and watches their kinds.
LEMMA DsKinds ==
    \A r \in DsResources :
        /\ r.mark = "annotation" /\ r.kind \in DS!WatchClusterTypes /\ Foreign(r)
        /\ r.kind # "ValidatingWebhookConfiguration"
  <1>1. \A r \in DsPolicies : r.mark = "annotation" /\ r.kind = "NetworkPolicy"
    BY DEF DsPolicies, ClusterResource
  <1>2. /\ DS!newGoldenImagesNS.kind = "Namespace" /\ DS!newGoldenImagesNS.mark = "annotation"
        /\ DS!newGoldenImagesNS.name = DS!GoldenImagesNamespace
    BY Zenon DEF DS!newGoldenImagesNS, DS!ClusterResource
  <1>3. DS!newViewRole.kind = "Role" /\ DS!newViewRole.mark = "annotation"
    BY Zenon DEF DS!newViewRole, DS!InGoldenImages, DS!ClusterResource
  <1>4. DS!newViewRoleBinding.kind = "RoleBinding" /\ DS!newViewRoleBinding.mark = "annotation"
    BY Zenon DEF DS!newViewRoleBinding, DS!InGoldenImages, DS!ClusterResource
  <1>5. DS!newEditRole.kind = "ClusterRole" /\ DS!newEditRole.mark = "annotation"
    BY Zenon DEF DS!newEditRole, DS!ClusterResource
  <1>6. DS!aDataSource.kind = "DataSource" /\ DS!aDataSource.mark = "annotation"
    BY Zenon DEF DS!aDataSource, DS!InGoldenImages, DS!ClusterResource
  <1>7. DS!aDataImportCron.kind = "DataImportCron" /\ DS!aDataImportCron.mark = "annotation"
    BY Zenon DEF DS!aDataImportCron, DS!InGoldenImages, DS!ClusterResource
  <1> QED
    BY <1>1, <1>2, <1>3, <1>4, <1>5, <1>6, <1>7, SMTT(30) DEF DsResources, DS!WatchClusterTypes, Foreign

\* So does vm-delete-protection.
LEMMA VpKinds ==
    \A r \in VpResources :
        /\ r.mark = "annotation" /\ r.kind \in VP!WatchClusterTypes /\ Foreign(r)
        /\ r.kind # "ValidatingWebhookConfiguration"
  <1>1. /\ VP!newValidatingAdmissionPolicy.mark = "annotation"
        /\ VP!newValidatingAdmissionPolicy.kind = "ValidatingAdmissionPolicy"
        /\ VP!newValidatingAdmissionPolicyBinding.mark = "annotation"
        /\ VP!newValidatingAdmissionPolicyBinding.kind = "ValidatingAdmissionPolicyBinding"
    BY Zenon DEF VP!newValidatingAdmissionPolicy, VP!newValidatingAdmissionPolicyBinding,
           VP!ClusterResource
  <1> QED
    BY <1>1, Zenon DEF VpResources, VP!WatchClusterTypes, Foreign

\* The resources of metrics, by owner or by annotation, are of watched kinds.
LEMMA MeKinds ==
    /\ \A r \in MeCleaned : r.mark = "annotation" /\ r.kind \in ME!WatchClusterTypes /\ Foreign(r)
    /\ \A r \in MeResources \ MeCleaned : r.mark = "owner" /\ r.kind \in ME!WatchTypes
  <1>1. \A r \in MeCleaned : r.mark = "annotation" /\ r.kind \in ME!WatchClusterTypes /\ Foreign(r)
    <2>1. /\ ME!newMonitoringClusterRole.mark = "annotation"
          /\ ME!newMonitoringClusterRole.kind = "ClusterRole"
          /\ ME!newMonitoringClusterRoleBinding.mark = "annotation"
          /\ ME!newMonitoringClusterRoleBinding.kind = "ClusterRoleBinding"
      BY Zenon DEF ME!newMonitoringClusterRole, ME!newMonitoringClusterRoleBinding, ME!ClusterResource
    <2> QED
      BY <2>1, Zenon DEF MeCleaned, ME!WatchClusterTypes, Foreign
  <1>2. /\ ME!newValidatorServiceMonitor.mark = "owner"
        /\ ME!newValidatorServiceMonitor.kind = "ServiceMonitor"
        /\ ME!newSspServiceMonitor.mark = "owner" /\ ME!newSspServiceMonitor.kind = "ServiceMonitor"
        /\ ME!BuildPrometheusRule.mark = "owner" /\ ME!BuildPrometheusRule.kind = "PrometheusRule"
    BY Zenon DEF ME!newValidatorServiceMonitor, ME!newSspServiceMonitor, ME!newServiceMonitor,
           ME!BuildPrometheusRule, ME!NamespacedResource
  <1> QED
    BY <1>1, <1>2, Zenon DEF MeResources, ME!WatchTypes

\* The resources of the template validator, by owner and by annotation.
LEMMA TvFields ==
    /\ \A r \in TvCleaned : r.mark = "annotation" /\ r.kind \in TV!WatchClusterTypes /\ Foreign(r)
    /\ \A r \in Server : r.mark = "owner" /\ r.kind \in TV!WatchTypes /\ r.ns = "ssp"
                         /\ r.name \in {"template-validator", "virt-template-validator"}
    /\ TV!newPrometheusService.mark = "owner" /\ TV!newPrometheusService.kind = "Service"
    /\ TV!newPodDisruptionBudget.mark = "owner"
    /\ TV!newPodDisruptionBudget.kind = "PodDisruptionBudget"
    /\ \A r \in TvPolicies : r.mark = "owner" /\ r.kind = "NetworkPolicy"
  <1>1. \A r \in TvCleaned : r.mark = "annotation" /\ r.kind \in TV!WatchClusterTypes /\ Foreign(r)
    <2>1. /\ TV!newClusterRole.mark = "annotation" /\ TV!newClusterRole.kind = "ClusterRole"
          /\ TV!newClusterRoleBinding.mark = "annotation"
          /\ TV!newClusterRoleBinding.kind = "ClusterRoleBinding"
      BY Zenon DEF TV!newClusterRole, TV!newClusterRoleBinding, TV!ClusterResource
    <2>2. /\ TV!newValidatingWebhook.mark = "annotation"
          /\ TV!newValidatingWebhook.kind = "ValidatingWebhookConfiguration"
      BY Zenon DEF TV!newValidatingWebhook, TV!ClusterResource
    <2> QED
      BY <2>1, <2>2, Zenon DEF TvCleaned, TV!WatchClusterTypes, Foreign
  <1>2. \A r \in Server : r.mark = "owner" /\ r.kind \in TV!WatchTypes /\ r.ns = "ssp"
                         /\ r.name \in {"template-validator", "virt-template-validator"}
    BY DEF Server, TV!newServiceAccount, TV!newConfigMap, TV!newService, TV!newDeployment,
           TV!NamespacedResource, TV!WatchTypes, TV!VirtTemplateValidator
  <1>3. /\ TV!newPrometheusService.mark = "owner" /\ TV!newPrometheusService.kind = "Service"
        /\ TV!newPodDisruptionBudget.mark = "owner"
        /\ TV!newPodDisruptionBudget.kind = "PodDisruptionBudget"
    BY Zenon DEF TV!newPrometheusService, TV!newPodDisruptionBudget, TV!NamespacedResource
  <1>4. \A r \in TvPolicies : r.mark = "owner" /\ r.kind = "NetworkPolicy"
    BY DEF TvPolicies, NamespacedResource
  <1> QED
    BY <1>1, <1>2, <1>3, <1>4, Zenon

\* The resources of the console proxy, by owner and by annotation.
LEMMA CpFields ==
    /\ \A r \in CpBundle \cup CpOld :
          /\ \/ r.mark = "annotation"
                /\ r.kind \in {"ClusterRole", "ClusterRoleBinding", "RoleBinding", "APIService"}
             \/ r.mark = "owner" /\ r.kind \in CP!WatchTypes /\ r.name = "vm-console-proxy"
          /\ r.kind # "Namespace" /\ r.kind # "ValidatingWebhookConfiguration"
    /\ \A r \in CpPolicies : r.mark = "owner" /\ r.kind = "NetworkPolicy"
  <1>1. /\ CP!BundleFile[1].mark = "owner" /\ CP!BundleFile[6].mark = "owner"
        /\ CP!BundleFile[7].mark = "owner" /\ CP!BundleFile[8].mark = "owner"
    BY Zenon DEF CP!BundleFile, CP!NamespacedResource, CP!ClusterResource
  <1>2. /\ CP!BundleFile[2].mark = "annotation" /\ CP!BundleFile[3].mark = "annotation"
        /\ CP!BundleFile[4].mark = "annotation" /\ CP!BundleFile[5].mark = "annotation"
        /\ CP!BundleFile[9].mark = "annotation"
    BY Zenon DEF CP!BundleFile, CP!NamespacedResource, CP!ClusterResource
  <1>3. /\ CP!BundleFile[1].name = CP!operandName /\ CP!BundleFile[6].name = CP!operandName
        /\ CP!BundleFile[7].name = CP!operandName /\ CP!BundleFile[8].name = CP!operandName
    BY Zenon DEF CP!BundleFile, CP!NamespacedResource, CP!ClusterResource
  <1>4. /\ CpRoute.mark = "owner" /\ CpRoute.kind = "Route" /\ CpRoute.name = CP!operandName
        /\ CP!oldApiService.mark = "annotation" /\ CP!oldApiService.kind = "APIService"
    BY Zenon DEF CpRoute, CP!oldApiService, NamespacedResource, CP!ClusterResource
  <1>5. \A r \in CpPolicies : r.mark = "owner" /\ r.kind = "NetworkPolicy"
    BY DEF CpPolicies, NamespacedResource
  <1>6. CP!operandName = "vm-console-proxy"
    BY Zenon DEF CP!operandName
  <1>7. ASSUME NEW r \in CpBundle \cup CpOld
        PROVE  /\ \/ r.mark = "annotation"
                     /\ r.kind \in {"ClusterRole", "ClusterRoleBinding", "RoleBinding", "APIService"}
                  \/ r.mark = "owner" /\ r.kind \in CP!WatchTypes /\ r.name = "vm-console-proxy"
               /\ r.kind # "Namespace" /\ r.kind # "ValidatingWebhookConfiguration"
    BY <1>1, <1>2, <1>3, <1>4, <1>6, BundleKinds, SMTT(30) DEF CpBundle, CpOld, CP!WatchTypes
  <1> QED
    BY <1>5, <1>7, Zenon

\* The webhook is cleaned up by name; its server is owned.
LEMMA WebhookFields ==
    /\ webhook.kind = "ValidatingWebhookConfiguration" /\ webhook.mark = "annotation"
    /\ webhook \in TvCleaned /\ webhook \in TvCore /\ Server \subseteq TvCore
  <1>1. webhook.kind = "ValidatingWebhookConfiguration" /\ webhook.mark = "annotation"
    BY Zenon DEF webhook, TV!newValidatingWebhook, TV!ClusterResource
  <1>2. webhook \in TvCleaned /\ webhook \in TvCore
    BY Zenon DEF webhook, TvCleaned, TvCore
  <1>3. Server \subseteq TvCore
    BY Zenon DEF Server, TvCore
  <1> QED
    BY <1>1, <1>2, <1>3, Zenon

\* The operator watches every resource it knows.
LEMMA KnownWatched ==
    ASSUME NEW e, NEW r \in Known(e)
    PROVE  Watched(e, r)
  <1>1. CASE r \in DsResources \cup VpResources
    <2>1. r.mark = "annotation" /\ r.kind \in DS!WatchClusterTypes \cup VP!WatchClusterTypes
      BY <1>1, DsKinds, VpKinds, Zenon
    <2> QED
      BY <2>1, Zenon DEF Watched, WatchClusterTypes
  <1>2. CASE r \notin DsResources \cup VpResources
    <2>1. /\ e.openShift
          /\ r \in MeResources \cup TvResources(e.singleReplica) \cup {aTemplate}
                   \cup CpBundle \cup CpPolicies \cup CpOld
      BY <1>2, Zenon DEF Known
    <2>2. /\ ME!WatchTypes \cup TV!WatchTypes \cup CP!WatchTypes = WatchTypes(e)
          /\ DS!WatchClusterTypes \cup ME!WatchClusterTypes \cup TV!WatchClusterTypes
             \cup CP!WatchClusterTypes \cup {"Template"} \subseteq WatchClusterTypes(e)
      BY <2>1, Zenon DEF WatchTypes, WatchClusterTypes
    <2>3. CASE r \in MeResources
      BY <2>2, <2>3, MeKinds, Zenon DEF Watched
    <2>4. CASE r \in TvResources(e.singleReplica)
      <3>1. \/ r \in TvCleaned \/ r \in Server \/ r \in TvPolicies
            \/ r = TV!newPrometheusService \/ r = TV!newPodDisruptionBudget
        BY <2>4, Zenon DEF TvResources, TvCore, TvCleaned, Server
      <3>2. /\ "Service" \in TV!WatchTypes /\ "PodDisruptionBudget" \in TV!WatchTypes
            /\ "NetworkPolicy" \in TV!WatchTypes
        BY Zenon DEF TV!WatchTypes
      <3> QED
        BY <2>2, <3>1, <3>2, TvFields, Zenon DEF Watched
    <2>5. CASE r = aTemplate
      <3>1. aTemplate.mark = "annotation" /\ aTemplate.kind = "Template"
        BY Zenon DEF aTemplate, ClusterResource
      <3> QED
        BY <2>2, <2>5, <3>1, Zenon DEF Watched
    <2>6. CASE r \in CpPolicies
      <3>1. "NetworkPolicy" \in CP!WatchTypes
        BY Zenon DEF CP!WatchTypes
      <3> QED
        BY <2>2, <2>6, <3>1, CpFields, Zenon DEF Watched
    <2>7. CASE r \in CpBundle \cup CpOld
      <3>1. {"ClusterRole", "ClusterRoleBinding", "RoleBinding", "APIService"}
               \subseteq DS!WatchClusterTypes \cup CP!WatchClusterTypes
        BY Zenon DEF DS!WatchClusterTypes, CP!WatchClusterTypes
      <3>2. CASE r.mark = "annotation"
        <4>1. r.kind \in DS!WatchClusterTypes \cup CP!WatchClusterTypes \/ r.mark = "owner"
          BY <2>7, <3>1, CpFields, Zenon
        <4> QED
          BY <2>2, <3>2, <4>1, Zenon DEF Watched
      <3>3. CASE r.mark = "owner"
        BY <2>2, <2>7, <3>3, CpFields, Zenon DEF Watched
      <3> QED
        BY <2>7, <3>2, <3>3, CpFields, Zenon
    <2> QED
      BY <2>1, <2>3, <2>4, <2>5, <2>6, <2>7, Zenon
  <1> QED
    BY <1>1, <1>2, Zenon

\* What the operator deletes is no part of the validator's server.
LEMMA DeletedHarmless ==
    ASSUME NEW e, NEW spec, NEW r, r \in Deleted(e, spec) \/ r \in Cleaned(e)
    PROVE  r \notin Server /\ Foreign(r)
  <1>1. \/ r \in DsResources \/ r \in VpResources \/ r \in MeCleaned \/ r \in TvCleaned
        \/ r = aTemplate \/ r \in CpBundle \cup CpOld
    BY Zenon DEF Deleted, DeletedProxy, Cleaned, CleanedOpenShift
  <1>2. \A q \in Server : q.mark = "owner" /\ q.name # "vm-console-proxy"
    BY TvFields, Zenon
  <1>3. CASE r \in CpBundle \cup CpOld
    BY <1>2, <1>3, CpFields, Zenon DEF Foreign
  <1>4. CASE r \notin CpBundle \cup CpOld
    <2>1. aTemplate.mark = "annotation" /\ Foreign(aTemplate)
      BY Zenon DEF aTemplate, ClusterResource, Foreign
    <2>2. r.mark = "annotation" /\ Foreign(r)
      BY <1>1, <1>4, <2>1, DsKinds, VpKinds, MeKinds, TvFields, Zenon
    <2> QED
      BY <1>2, <2>2, Zenon
  <1> QED
    BY <1>3, <1>4, Zenon

\* What the operator ensures or deletes, it knows.
LEMMA PlannedKnown ==
    ASSUME NEW e, NEW spec
    PROVE  /\ Ensured(e, spec) \subseteq Known(e) /\ Deleted(e, spec) \subseteq Known(e)
           /\ Cleaned(e) \subseteq Known(e)
           /\ e.openShift => CpOld \subseteq Known(e)
  <1>1. MeCleaned \subseteq MeResources /\ TvCleaned \subseteq TvResources(e.singleReplica)
    BY Zenon DEF MeResources, TvCleaned, TvResources, TvCore
  <1> QED
    BY <1>1, Zenon DEF Ensured, Deleted, Cleaned, Known, EnsuredOpenShift, EnsuredProxy,
                       DeletedProxy, CleanedOpenShift

\* The webhook belongs to OpenShift, where cleanup deletes it.
LEMMA WebhookKnown ==
    ASSUME NEW e
    PROVE  /\ webhook \in Known(e) => e.openShift
           /\ e.openShift => webhook \in Cleaned(e)
           /\ webhook \notin CpOld
  <1>1. webhook \notin DsResources \cup VpResources
    BY WebhookFields, DsKinds, VpKinds, Zenon
  <1>2. webhook \notin CpOld
    BY WebhookFields, CpFields, Zenon
  <1> QED
    BY <1>1, <1>2, WebhookFields, Zenon DEF Known, Cleaned, CleanedOpenShift

-----------------------------------------------------------------------------
(* The order of a plan *)

\* The webhook is registered after the server is complete.
Ordered(p) ==
    \A j \in DOMAIN p : p[j].act = "ensure" /\ p[j].res = webhook =>
        \A r \in Server : \E k \in DOMAIN p : k < j /\ p[k].act = "ensure" /\ p[k].res = r

\* A plan that registers no webhook is ordered.
LEMMA OtherOrdered ==
    ASSUME NEW p, NEW E, NEW D, IsPlan(p, E, D), webhook \notin E
    PROVE  Ordered(p)
  <1>1. \A j \in DOMAIN p : p[j] \in Range(p)
    BY Zenon DEF Range
  <1> QED
    BY <1>1 DEF IsPlan, Ordered

\* Ordered plans one after another are ordered.
LEMMA ConcatOrdered ==
    ASSUME NEW p, NEW q, NEW E, NEW D, NEW F, NEW G, IsPlan(p, E, D), IsPlan(q, F, G),
           Ordered(p), Ordered(q)
    PROVE  Ordered(p \o q)
  <1>1. p \in Seq(Range(p) \cup Range(q)) /\ q \in Seq(Range(p) \cup Range(q))
    BY DEF IsPlan
  <1> DEFINE t == p \o q
  <1>2. /\ Len(p) \in Nat /\ Len(q) \in Nat /\ DOMAIN p = 1..Len(p) /\ DOMAIN q = 1..Len(q)
        /\ DOMAIN t = 1..(Len(p) + Len(q))
        /\ \A i \in 1..Len(p) : t[i] = p[i]
        /\ \A i \in 1..Len(q) : t[Len(p) + i] = q[i]
    BY <1>1
  <1> HIDE DEF t
  <1>3. ASSUME NEW j \in DOMAIN t, t[j].act = "ensure", t[j].res = webhook, NEW r \in Server
        PROVE  \E k \in DOMAIN t : k < j /\ t[k].act = "ensure" /\ t[k].res = r
    <2>1. CASE j \in 1..Len(p)
      <3>1. PICK k \in DOMAIN p : k < j /\ p[k].act = "ensure" /\ p[k].res = r
        BY <1>2, <1>3, <2>1 DEF Ordered
      <3> QED
        BY <1>2, <3>1, SMTT(30)
    <2>2. CASE j \notin 1..Len(p)
      <3>1. j - Len(p) \in 1..Len(q) /\ j = Len(p) + (j - Len(p))
        BY <1>2, <2>2
      <3>2. PICK k \in DOMAIN q : k < j - Len(p) /\ q[k].act = "ensure" /\ q[k].res = r
        BY <1>2, <1>3, <3>1 DEF Ordered
      <3>3. Len(p) + k \in DOMAIN t /\ Len(p) + k < j /\ t[Len(p) + k] = q[k]
        BY <1>2, <3>1, <3>2
      <3> QED
        BY <3>2, <3>3, Zenon
    <2> QED
      BY <2>1, <2>2, Zenon
  <1> QED
    BY <1>3, Zenon DEF Ordered, t

\* The template validator registers its webhook after what serves it.
LEMMA ValidatorOrdered ==
    ASSUME NEW singleReplica \in BOOLEAN, NEW fails
    PROVE  Ordered(EnsureWith(TV!Reconcile(singleReplica), fails))
  <1> DEFINE core == <<TV!newClusterRole, TV!newServiceAccount, TV!newClusterRoleBinding,
                       TV!newService, TV!newPrometheusService, TV!newConfigMap,
                       TV!newDeployment, TV!newValidatingWebhook>>
             budget == IF singleReplica THEN <<>> ELSE <<TV!newPodDisruptionBudget>>
             rs == TV!Reconcile(singleReplica)
             p == EnsureWith(rs, fails)
  <1>1. rs = (core \o budget) \o TV!reconcileNetworkPolicies
    BY Zenon DEF TV!Reconcile
  <1>2. IsList(rs, TvResources(singleReplica))
    BY TvLists, Zenon
  <1>3. Len(rs) \in Nat /\ DOMAIN rs = 1..Len(rs)
    BY <1>2, ListElement, Zenon
  <1>4. Len(rs) >= 8 /\ \A i \in 1..8 : rs[i] = core[i]
    <2>1. Len(core) = 8
      BY Zenon
    <2>2. IsList(core, TvCore)
      BY TvCoreList, Zenon
    <2> DEFINE Budget == IF singleReplica THEN {} ELSE {TV!newPodDisruptionBudget}
    <2>3. IsList(budget, Budget)
      BY TvBudgetList, Zenon
    <2> HIDE DEF core, budget, rs, Budget
    <2> DEFINE q == core \o budget
    <2>4. Len(q) >= Len(core) /\ \A i \in 1..Len(core) : q[i] = core[i]
      BY <2>2, <2>3, Prefix, Zenon
    <2>5. IsList(q, TvCore \cup Budget)
      BY <2>2, <2>3, Concat, Zenon
    <2>6. Len(q) \in Nat
      BY <2>5, ListElement, Zenon
    <2> HIDE DEF q
    <2>7. /\ Len(q \o TV!reconcileNetworkPolicies) >= Len(q)
          /\ \A i \in 1..Len(q) : (q \o TV!reconcileNetworkPolicies)[i] = q[i]
      BY <2>5, TvPolicyList, Prefix, Zenon
    <2>8. rs = q \o TV!reconcileNetworkPolicies
      BY <1>1, Zenon DEF q
    <2>9. \A i \in 1..8 : i \in 1..Len(q)
      BY <2>1, <2>4, <2>6
    <2>10. Len(rs) >= 8
      BY <1>3, <2>1, <2>4, <2>6, <2>7, <2>8, SMTT(30)
    <2> QED
      BY <2>1, <2>4, <2>7, <2>8, <2>9, <2>10, Zenon
  <1>5. \A i \in DOMAIN rs : p[i].act = "ensure" /\ p[i].res = rs[i]
    BY Zenon DEF EnsureWith, EnsureOrFail, Ensure
  <1>6. DOMAIN p = DOMAIN rs
    BY Zenon DEF EnsureWith
  <1>7. rs[2] = TV!newServiceAccount /\ rs[4] = TV!newService /\ rs[6] = TV!newConfigMap
        /\ rs[7] = TV!newDeployment
    BY <1>4
  <1>8. \A i \in 1..7 : rs[i] # webhook
    <2>1. /\ TV!newClusterRole.kind = "ClusterRole"
          /\ TV!newServiceAccount.kind = "ServiceAccount"
          /\ TV!newClusterRoleBinding.kind = "ClusterRoleBinding"
          /\ TV!newService.kind = "Service" /\ TV!newPrometheusService.kind = "Service"
          /\ TV!newConfigMap.kind = "ConfigMap" /\ TV!newDeployment.kind = "Deployment"
      BY Zenon DEF TV!newClusterRole, TV!newServiceAccount, TV!newClusterRoleBinding,
             TV!newService, TV!newPrometheusService, TV!newConfigMap, TV!newDeployment,
             TV!ClusterResource, TV!NamespacedResource
    <2>2. \A i \in 1..7 : rs[i] \in {TV!newClusterRole, TV!newServiceAccount, TV!newClusterRoleBinding,
                    TV!newService, TV!newPrometheusService, TV!newConfigMap, TV!newDeployment}
      BY <1>4
    <2> QED
      BY <2>1, <2>2, WebhookFields, Zenon
  <1> HIDE DEF rs, p
  <1>9. ASSUME NEW j \in DOMAIN p, p[j].res = webhook, NEW r \in Server
        PROVE  \E k \in DOMAIN p : k < j /\ p[k].act = "ensure" /\ p[k].res = r
    <2>1. j >= 8
      BY <1>3, <1>5, <1>6, <1>8, <1>9, SMTT(30)
    <2>2. \E k \in {2, 4, 6, 7} : rs[k] = r
      BY <1>7, Zenon DEF Server
    <2>3. \A k \in {2, 4, 6, 7} : k \in DOMAIN rs /\ k < j
      BY <1>3, <1>4, <2>1, <1>6
    <2> QED
      BY <1>5, <1>6, <2>2, <2>3, Zenon
  <1> QED
    BY <1>9, Zenon DEF Ordered, p, rs

\* So does the whole reconciliation.
LEMMA ReconcileOrdered ==
    ASSUME NEW e \in Envs, NEW spec \in Specs
    PROVE  Ordered(ReconcilePlan(e, spec))
  <1> DEFINE l1 == EnsureAll(DS!Reconcile(e.openShift))
             l2 == EnsureAll(VP!Reconcile)
             m1 == EnsureAll(ME!Reconcile)
             m2 == EnsureWith(TV!Reconcile(e.singleReplica), spec.tls = "badVersion")
             m3 == <<Ensure(aTemplate)>>
             m4 == ConsoleProxyPlan(spec)
             tail == IF ~e.openShift THEN <<>> ELSE m1 \o m2 \o m3 \o m4
  <1>1. webhook \notin DsResources /\ webhook \notin VpResources
    BY WebhookFields, DsKinds, VpKinds, Zenon
  <1>2. webhook # aTemplate
    BY WebhookFields DEF aTemplate, ClusterResource
  <1>3. webhook \notin MeResources
    <2>1. "ValidatingWebhookConfiguration" \notin ME!WatchTypes \cup ME!WatchClusterTypes
      BY Zenon DEF ME!WatchTypes, ME!WatchClusterTypes
    <2> QED
      BY <2>1, WebhookFields, MeKinds, Zenon
  <1>4. webhook \notin EnsuredProxy(spec)
    <2>1. webhook \notin CpPolicies
      BY WebhookFields, CpFields
    <2> QED
      BY <2>1, WebhookFields, CpFields, Zenon DEF EnsuredProxy
  <1>5. IsPlan(l1, DsResources, {}) /\ IsPlan(l2, VpResources, {}) /\ IsPlan(m1, MeResources, {})
    BY DsLists, VpLists, MeLists, EnsurePlan, Zenon
  <1>6. IsPlan(m3, {aTemplate}, {}) /\ IsPlan(m4, EnsuredProxy(spec), DeletedProxy(spec))
    BY SingleStepPlan, ProxyIsPlan, Zenon
  <1>7. e.singleReplica \in BOOLEAN
    BY ConstantTypes, Zenon
  <1>8. IsPlan(m2, TvResources(e.singleReplica), {}) /\ Ordered(m2)
    <2>1. IsList(TV!Reconcile(e.singleReplica), TvResources(e.singleReplica))
      BY <1>7, TvLists, Zenon
    <2> DEFINE f == spec.tls = "badVersion"
    <2> HIDE DEF f
    <2>2. /\ IsPlan(EnsureWith(TV!Reconcile(e.singleReplica), f), TvResources(e.singleReplica), {})
          /\ Ordered(EnsureWith(TV!Reconcile(e.singleReplica), f))
      BY <1>7, <2>1, EnsureWithPlan, ValidatorOrdered, Zenon
    <2> QED
      BY <2>2, Zenon DEF f
  <1>9. ReconcilePlan(e, spec) = (l1 \o l2) \o tail
    BY Zenon DEF ReconcilePlan
  <1>10. Ordered(l1) /\ Ordered(l2) /\ Ordered(m1) /\ Ordered(m3) /\ Ordered(m4)
    <2> HIDE DEF l1, l2, m1, m3, m4
    <2>1. webhook \notin {aTemplate}
      BY <1>2, Zenon
    <2> QED
      BY <1>1, <1>3, <1>4, <1>5, <1>6, <2>1, OtherOrdered, ZenonT(40)
  <1> HIDE DEF l1, l2, m1, m2, m3, m4
  <1>11. /\ IsPlan(l1 \o l2, DsResources \cup VpResources, {} \cup {}) /\ Ordered(l1 \o l2)
    BY <1>5, <1>10, ConcatPlan, ConcatOrdered, Zenon
  <1> DEFINE E2 == MeResources \cup TvResources(e.singleReplica)
             D2 == {} \cup {}
  <1>12. IsPlan(m1 \o m2, E2, D2) /\ Ordered(m1 \o m2)
    BY <1>5, <1>8, <1>10, ConcatPlan, ConcatOrdered, Zenon
  <1> HIDE DEF E2, D2
  <1> DEFINE E3 == E2 \cup {aTemplate}
             D3 == D2 \cup {}
  <1>13. IsPlan((m1 \o m2) \o m3, E3, D3) /\ Ordered((m1 \o m2) \o m3)
    BY <1>6, <1>10, <1>12, ConcatPlan, ConcatOrdered, Zenon
  <1> HIDE DEF E3, D3
  <1>14. /\ IsPlan(((m1 \o m2) \o m3) \o m4, E3 \cup EnsuredProxy(spec), D3 \cup DeletedProxy(spec))
         /\ Ordered(((m1 \o m2) \o m3) \o m4)
    BY <1>6, <1>10, <1>13, ConcatPlan, ConcatOrdered, Zenon
  <1>15. Ordered(<<>>)
    BY EmptyPlan, OtherOrdered, Zenon
  <1>16. \E E, D : IsPlan(tail, E, D) /\ Ordered(tail)
    BY <1>14, <1>15, EmptyPlan, Zenon
  <1> HIDE DEF tail
  <1> QED
    BY <1>9, <1>11, <1>16, ConcatOrdered, Zenon

-----------------------------------------------------------------------------
(* The worker's place in its plan *)

StepsOf(mode, e, spec) == IF mode = "cleanup" THEN CleanupPlan(e) ELSE ReconcilePlan(e, spec)
Modes == {"reconcile", "cleanup"}

\* The steps of a plan the worker looks up.
LEMMA PlanSteps ==
    ASSUME env \in Envs, NEW spec \in Specs, NEW mode \in Modes
    PROVE  Plan(mode, spec).steps = StepsOf(mode, env, spec)
  <1> DEFINE r == PlanOf("reconcile", env, spec, ReconcilePlan(env, spec))
             c == PlanOf("cleanup", env, spec, CleanupPlan(env))
             Fits(p) == p.mode = mode /\ p.env = env /\ p.spec = spec
  <1>1. \A m, e, s, l : /\ PlanOf(m, e, s, l).mode = m /\ PlanOf(m, e, s, l).env = e
                        /\ PlanOf(m, e, s, l).spec = s /\ PlanOf(m, e, s, l).steps = l
    BY DEF PlanOf
  <1>2. r \in Plans /\ c \in Plans
    BY DEF Plans
  <1>3. \E p \in Plans : Fits(p)
    <2>1. (mode = "reconcile" => Fits(r)) /\ (mode = "cleanup" => Fits(c))
      BY <1>1
    <2> HIDE DEF r, c
    <2> QED
      BY <1>2, <2>1, Zenon DEF Modes
  <1>4. Plan(mode, spec) \in Plans /\ Fits(Plan(mode, spec))
    BY <1>3, Zenon DEF Plan
  <1>5. ASSUME NEW p \in Plans, Fits(p) PROVE p.steps = StepsOf(mode, env, spec)
    <2>1. CASE \E e \in Envs, s \in Specs : p = PlanOf("reconcile", e, s, ReconcilePlan(e, s))
      <3>1. PICK e \in Envs, s \in Specs : p = PlanOf("reconcile", e, s, ReconcilePlan(e, s))
        BY <2>1, Zenon
      <3>2. p.mode = "reconcile" /\ p.env = e /\ p.spec = s /\ p.steps = ReconcilePlan(e, s)
        BY <1>1, <3>1
      <3>3. mode = "reconcile" /\ e = env /\ s = spec
        BY <1>5, <3>2, Zenon
      <3> QED
        BY <3>2, <3>3, Zenon DEF StepsOf
    <2>2. CASE \E e \in Envs, s \in Specs : p = PlanOf("cleanup", e, s, CleanupPlan(e))
      <3>1. PICK e \in Envs, s \in Specs : p = PlanOf("cleanup", e, s, CleanupPlan(e))
        BY <2>2, Zenon
      <3>2. p.mode = "cleanup" /\ p.env = e /\ p.spec = s /\ p.steps = CleanupPlan(e)
        BY <1>1, <3>1
      <3>3. mode = "cleanup" /\ e = env /\ s = spec
        BY <1>5, <3>2, Zenon
      <3> QED
        BY <3>2, <3>3, Zenon DEF StepsOf
    <2> QED
      <3>1. \/ \E e \in Envs, s \in Specs : p = PlanOf("reconcile", e, s, ReconcilePlan(e, s))
            \/ \E e \in Envs, s \in Specs : p = PlanOf("cleanup", e, s, CleanupPlan(e))
        BY <1>5 DEF Plans
      <3> QED
        BY <2>1, <2>2, <3>1, Zenon
  <1> QED
    BY <1>4, <1>5, Zenon

\* NextStep is the first step that has an effect, if any has.
LEMMA NextStepFound ==
    ASSUME NEW steps, Len(steps) \in Nat, plan.i \in Nat \ {0}
    PROVE  /\ NextStep(steps) = 0 => \A j \in plan.i .. Len(steps) : ~Effective(steps[j])
           /\ NextStep(steps) # 0 =>
                /\ NextStep(steps) \in plan.i .. Len(steps)
                /\ Effective(steps[NextStep(steps)])
                /\ \A j \in plan.i .. Len(steps) : j < NextStep(steps) => ~Effective(steps[j])
  <1> DEFINE js == {j \in plan.i .. Len(steps) : Effective(steps[j])}
             first == CHOOSE j \in js : \A k \in js : j <= k
  <1>1. NextStep(steps) = IF js = {} THEN 0 ELSE first
    BY Zenon DEF NextStep
  <1>2. js \in SUBSET Nat /\ 0 \notin js
    OBVIOUS
  <1>3. js # {} => first \in js /\ \A k \in js : first <= k
    BY <1>2, LeastExists, Zenon
  <1>4. \A j \in plan.i .. Len(steps) : Effective(steps[j]) <=> j \in js
    BY Zenon
  <1>5. js \subseteq plan.i .. Len(steps)
    BY Zenon
  <1> HIDE DEF js, first
  <1>6. CASE js = {}
    BY <1>1, <1>4, <1>6, Zenon
  <1>7. CASE js # {}
    <2>1. NextStep(steps) = first /\ first # 0 /\ first \in js
      BY <1>1, <1>2, <1>3, <1>7, Zenon
    <2>2. \A j \in js : ~(j < first)
      <3>1. first \in Nat /\ \A j \in js : j \in Nat /\ first <= j
        BY <1>2, <1>3, <1>7, Zenon
      <3> QED
        BY <3>1
    <2> QED
      BY <1>4, <1>5, <2>1, <2>2, Zenon
  <1> QED
    BY <1>6, <1>7, Zenon

-----------------------------------------------------------------------------
(* The inductive invariant *)

OperandsTypeOK ==
    /\ env \in Envs
    /\ ssp \in {Gone} \cup [spec : Specs, deleting : BOOLEAN, gone : {FALSE}]
    /\ exists \in SUBSET Known(env)
    /\ plan \in {Idle} \cup [mode : Modes, spec : Specs, i : Nat \ {0}, pending : BOOLEAN]
    /\ queued \in BOOLEAN

\* A reconciliation has seen the parts of the server that its plan names before its place.
ServedSoFar ==
    plan.mode = "reconcile" =>
        LET steps == ReconcilePlan(env, plan.spec)
        IN  \A j \in DOMAIN steps :
               j < plan.i /\ steps[j].act = "ensure" /\ steps[j].res \in Server =>
                  steps[j].res \in exists \cup removed

\* The SSP goes after the webhook.
GoneUnregistered == ssp = Gone => plan = Idle /\ webhook \notin exists

\* Cleanup of a deleted SSP; what it deletes it remembers.
CleanupRemembers ==
    plan.mode = "cleanup" => ssp.deleting /\ (~plan.pending => plan.i = 1)

(* With an empty queue, a reconciliation is of the current spec and has      *)
(* found nothing to do, and after one nothing is left to do.                 *)
QueueTells ==
    ~queued =>
      /\ plan.mode = "reconcile" => plan.i = 1 /\ plan.spec = ssp.spec /\ ~ssp.deleting
      /\ plan = Idle /\ ~ssp.deleting =>
            /\ Ensured(env, ssp.spec) \subseteq exists
            /\ Deleted(env, ssp.spec) \cap exists = {}

OperandsInv ==
    /\ OperandsTypeOK /\ WebhookServed /\ ServedSoFar
    /\ GoneUnregistered /\ CleanupRemembers /\ QueueTells

\* The mode of an idle worker, and that an SSP that is gone counts as deleted.
LEMMA IdleFields == Idle.mode = "idle" /\ Gone.deleting
  BY Zenon DEF Idle, Gone

\* A step without effect finds its resource as it wants it.
LEMMA NotEffective ==
    ASSUME NEW s, ~Effective(s)
    PROVE  /\ s.act = "delete" => s.res \notin exists
           /\ s.act = "ensure" => s.res \in exists
  BY Zenon DEF Effective

\* The steps of the worker's plan.
PlanFacts(steps) ==
    /\ Plan(plan.mode, plan.spec).steps = steps
    /\ Len(steps) \in Nat /\ DOMAIN steps = 1..Len(steps)
    /\ \A j \in DOMAIN steps :
          \/ /\ plan.mode = "reconcile" /\ steps[j].act = "ensure"
             /\ steps[j].res \in Ensured(env, plan.spec)
          \/ /\ steps[j].act = "delete"
             /\ steps[j].res \in Deleted(env, plan.spec) \/ steps[j].res \in Cleaned(env)

\* The worker's plan is one of the plans.
LEMMA PlanFactsHold ==
    ASSUME OperandsTypeOK, plan # Idle
    PROVE  /\ plan.mode \in Modes /\ plan.spec \in Specs /\ plan.i \in Nat \ {0}
           /\ plan.pending \in BOOLEAN
           /\ PlanFacts(StepsOf(plan.mode, env, plan.spec))
  <1>1. /\ plan.mode \in Modes /\ plan.spec \in Specs /\ plan.i \in Nat \ {0}
        /\ plan.pending \in BOOLEAN /\ env \in Envs
    BY Zenon DEF OperandsTypeOK
  <1> DEFINE steps == StepsOf(plan.mode, env, plan.spec)
  <1>2. Plan(plan.mode, plan.spec).steps = steps
    BY <1>1, PlanSteps, Zenon
  <1>3. CASE plan.mode = "reconcile"
    <2>1. steps = ReconcilePlan(env, plan.spec)
      BY <1>3, Zenon DEF StepsOf
    <2>2. IsPlan(steps, Ensured(env, plan.spec), Deleted(env, plan.spec))
      BY <1>1, <2>1, ReconcileIsPlan, Zenon
    <2> HIDE DEF steps
    <2>3. Len(steps) \in Nat /\ DOMAIN steps = 1..Len(steps)
      BY <2>2 DEF IsPlan
    <2>4. \A j \in DOMAIN steps : steps[j] \in Range(steps)
      BY Zenon DEF Range
    <2> QED
      BY <1>1, <1>2, <1>3, <2>2, <2>3, <2>4, Zenon DEF IsPlan, PlanFacts, steps
  <1>4. CASE plan.mode = "cleanup"
    <2>1. steps = CleanupPlan(env)
      BY <1>4, Zenon DEF StepsOf
    <2>2. IsPlan(steps, {}, Cleaned(env))
      BY <1>1, <2>1, CleanupIsPlan, Zenon
    <2> HIDE DEF steps
    <2>3. Len(steps) \in Nat /\ DOMAIN steps = 1..Len(steps)
      BY <2>2, SMTT(30) DEF IsPlan
    <2>4. \A j \in DOMAIN steps : steps[j] \in Range(steps)
      BY Zenon DEF Range
    <2> QED
      BY <1>1, <1>2, <2>2, <2>3, <2>4, Zenon DEF IsPlan, PlanFacts, steps
  <1> QED
    BY <1>1, <1>3, <1>4, Zenon DEF Modes

\* The invariant holds when the operator starts.
LEMMA InvInit == Init => OperandsInv
  <1> SUFFICES ASSUME Init PROVE OperandsInv
    BY Zenon
  <1>1. env \in Envs /\ plan = Idle /\ queued
    BY Zenon DEF Init
  <1>2. PICK s \in Specs : ssp = [spec |-> s, deleting |-> FALSE, gone |-> FALSE]
    BY Zenon DEF Init
  <1>3. ssp \in [spec : Specs, deleting : BOOLEAN, gone : {FALSE}] /\ ssp # Gone
    BY <1>2, Zenon DEF Gone
  <1>4. env.openShift \in BOOLEAN
    BY <1>1, ConstantTypes, Zenon
  <1>5. Legacy = CpOld
    BY CpLists, Zenon DEF Legacy, IsList
  <1>6. exists \in IF env.openShift THEN {{}, Legacy} ELSE {{}}
    BY Zenon DEF Init
  <1>7. exists \in SUBSET Known(env) /\ webhook \notin exists
    <2>1. exists = {} \/ (env.openShift /\ exists = CpOld)
      BY <1>4, <1>5, <1>6
    <2> QED
      BY <2>1, PlannedKnown, WebhookKnown, Zenon
  <1>8. plan.mode = "idle"
    BY <1>1, IdleFields, Zenon
  <1> QED
    BY <1>1, <1>3, <1>7, <1>8, Zenon DEF OperandsInv, OperandsTypeOK, WebhookServed, ServedSoFar,
       GoneUnregistered, CleanupRemembers, QueueTells, webhook, Init

\* The steps of a reconciliation are numbered from 1.
LEMMA PlanDomain ==
    ASSUME NEW e \in Envs, NEW spec \in Specs
    PROVE  \A j \in DOMAIN ReconcilePlan(e, spec) : j \in Nat /\ ~(j < 1)
  <1> DEFINE steps == ReconcilePlan(e, spec)
  <1>1. IsPlan(steps, Ensured(e, spec), Deleted(e, spec))
    BY ReconcileIsPlan, Zenon
  <1> HIDE DEF steps
  <1>2. DOMAIN steps = 1..Len(steps) /\ Len(steps) \in Nat
    BY <1>1 DEF IsPlan
  <1> QED
    BY <1>2 DEF steps

\* Taking the request from the queue.
LEMMA StartInv == OperandsInv /\ Start => OperandsInv'
  <1> SUFFICES ASSUME OperandsInv, Start PROVE OperandsInv'
    BY Zenon
  <1> USE DEF OperandsInv
  <1>1. UNCHANGED <<env, ssp, exists, removed>> /\ queued' = FALSE /\ plan = Idle
    BY Zenon DEF Start
  <1>2. WebhookServed' /\ ssp' = ssp /\ exists' = exists /\ env' = env
    BY <1>1, Zenon DEF WebhookServed
  <1>3. CASE ssp = Gone
    <2>1. plan' = Idle
      BY <1>3, Zenon DEF Start
    <2>2. plan'.mode = "idle" /\ ssp'.deleting
      BY <1>1, <1>3, <2>1, IdleFields, SMTT(30)
    <2> QED
      BY <1>1, <1>2, <2>1, <2>2, Zenon DEF OperandsTypeOK, ServedSoFar, GoneUnregistered,
         CleanupRemembers, QueueTells
  <1>4. CASE ssp # Gone
    <2>1. ssp \in [spec : Specs, deleting : BOOLEAN, gone : {FALSE}]
      BY <1>4, Zenon DEF OperandsTypeOK
    <2>2. plan' = [mode |-> IF ssp.deleting THEN "cleanup" ELSE "reconcile",
                   spec |-> ssp.spec, i |-> 1, pending |-> FALSE]
      BY <1>4, Zenon DEF Start
    <2>3. /\ plan' \in [mode : Modes, spec : Specs, i : Nat \ {0}, pending : BOOLEAN]
          /\ plan'.i = 1 /\ plan'.spec = ssp.spec
          /\ plan'.mode = "cleanup" => ssp.deleting
          /\ plan'.mode = "reconcile" => ~ssp.deleting
          /\ plan'.mode \in Modes
      BY <2>1, <2>2 DEF Modes
    <2>4. OperandsTypeOK'
      BY <1>1, <2>3, Zenon DEF OperandsTypeOK
    <2>5. plan' # Idle
      BY <2>3, IdleFields, Zenon DEF Modes
    <2>6. env' \in Envs /\ plan'.spec \in Specs
      BY <2>3, <2>4, Zenon DEF OperandsTypeOK
    <2>7. ServedSoFar'
      <3> DEFINE steps == ReconcilePlan(env', plan'.spec)
      <3>1. \A j \in DOMAIN steps : ~(j < 1)
        BY <2>6, PlanDomain, Zenon
      <3> HIDE DEF steps
      <3> QED
        BY <2>3, <3>1, Zenon DEF ServedSoFar, steps
    <2> QED
      BY <1>1, <1>2, <1>4, <2>3, <2>4, <2>5, <2>7, SMTT(30) DEF GoneUnregistered, CleanupRemembers, QueueTells
  <1> QED
    BY <1>3, <1>4, Zenon

\* A worker that gives up loses nothing but its place.
LEMMA AbandonInv ==
    ASSUME OperandsInv, plan' = Idle, queued' \in BOOLEAN, queued' \/ ssp = Gone,
           UNCHANGED <<env, ssp, exists, removed>>
    PROVE  OperandsInv'
  <1>1. plan'.mode = "idle" /\ (ssp = Gone => ssp.deleting)
    BY IdleFields, Zenon
  <1>2. env' = env /\ ssp' = ssp /\ exists' = exists /\ removed' = removed
    BY Zenon
  <1>3. OperandsTypeOK'
    BY <1>2, Zenon DEF OperandsInv, OperandsTypeOK
  <1>4. WebhookServed'
    BY <1>2, Zenon DEF OperandsInv, WebhookServed
  <1>5. ServedSoFar' /\ CleanupRemembers'
    BY <1>1, Zenon DEF ServedSoFar, CleanupRemembers
  <1>6. GoneUnregistered'
    BY <1>2, Zenon DEF OperandsInv, GoneUnregistered
  <1>7. QueueTells'
    BY <1>1, <1>2, Zenon DEF QueueTells
  <1> QED
    BY <1>3, <1>4, <1>5, <1>6, <1>7, Zenon DEF OperandsInv

\* The events of a known resource wake the worker up.
LEMMA Woken ==
    ASSUME NEW rs, Notify(rs), NEW r \in rs, r \in Known(env)
    PROVE  queued' = TRUE
  <1>1. Watched(env, r)
    BY KnownWatched, Zenon
  <1> QED
    BY <1>1, Zenon DEF Notify, watchResources, Watched

\* A reconciliation or cleanup step that creates a resource.
LEMMA EnsureStepInv ==
    ASSUME OperandsInv, plan # Idle, UNCHANGED <<env, ssp>>,
           NEW steps, steps = StepsOf(plan.mode, env, plan.spec),
           NEW j, j = NextStep(steps), j # 0,
           steps[j].act = "ensure", EnsureStep(steps[j], j)
    PROVE  OperandsInv'
  <1> DEFINE r == steps[j].res
  <1>1. /\ plan.mode \in Modes /\ plan.spec \in Specs /\ plan.i \in Nat \ {0}
        /\ PlanFacts(steps) /\ env \in Envs
    BY PlanFactsHold, Zenon DEF OperandsInv, OperandsTypeOK
  <1>2. Len(steps) \in Nat /\ DOMAIN steps = 1..Len(steps)
    BY <1>1, Zenon DEF PlanFacts
  <1>3. /\ j \in plan.i .. Len(steps)
        /\ \A k \in plan.i .. Len(steps) : k < j => ~Effective(steps[k])
    BY <1>1, <1>2, NextStepFound, ZenonT(40)
  <1>4. j \in Nat \ {0} /\ j \in DOMAIN steps
    BY <1>1, <1>2, <1>3, SMTT(30)
  <1>5. plan.mode = "reconcile" /\ r \in Ensured(env, plan.spec)
    BY <1>1, <1>4, Zenon DEF PlanFacts
  <1>6. steps = ReconcilePlan(env, plan.spec)
    BY <1>5, Zenon DEF StepsOf
  <1>7. CASE Fail /\ UNCHANGED <<exists, ca, removed>>
    BY <1>7, AbandonInv, Zenon DEF Fail
  <1>8. CASE /\ exists' = exists \cup {r}
             /\ removed' = removed \ {r}
             /\ plan' = [plan EXCEPT !.i = j + 1]
             /\ Notify({r})
    <2>1. plan \in [mode : Modes, spec : Specs, i : Nat \ {0}, pending : BOOLEAN]
      BY Zenon DEF OperandsInv, OperandsTypeOK
    <2>2. /\ plan' \in [mode : Modes, spec : Specs, i : Nat \ {0}, pending : BOOLEAN]
          /\ plan'.mode = "reconcile" /\ plan'.spec = plan.spec /\ plan'.i = j + 1
      BY <1>4, <1>5, <1>8, <2>1
    <2>3. r \in Known(env)
      BY <1>5, PlannedKnown, Zenon
    <2>4. queued' = TRUE
      BY <1>8, <2>3, Woken, Zenon
    <2>5. OperandsTypeOK'
      BY <1>8, <2>2, <2>3, <2>4, Zenon DEF OperandsInv, OperandsTypeOK
    <2>6. exists \cup removed \subseteq exists' \cup removed' /\ r \in exists'
      BY <1>8, Zenon
    <2>7. ASSUME NEW k \in DOMAIN steps, k < j, steps[k].act = "ensure", steps[k].res \in Server
          PROVE  steps[k].res \in exists \cup removed
      <3>1. CASE k < plan.i
        BY <1>5, <1>6, <2>7, <3>1, Zenon DEF OperandsInv, ServedSoFar
      <3>2. CASE ~(k < plan.i)
        <4>1. k \in plan.i .. Len(steps)
          BY <1>1, <1>2, <3>2
        <4>2. ~Effective(steps[k])
          BY <1>3, <2>7, <4>1, ZenonT(40)
        <4> QED
          BY <2>7, <4>2, NotEffective, ZenonT(40)
      <3> QED
        BY <3>1, <3>2
    <2>8. WebhookServed'
      <3>1. CASE webhook \in exists
        BY <2>6, <3>1, Zenon DEF OperandsInv, WebhookServed, webhook
      <3>2. CASE webhook \notin exists /\ r = webhook
        <4>1. Ordered(steps)
          BY <1>1, <1>6, ReconcileOrdered, Zenon
        <4>2. ASSUME NEW q \in Server PROVE q \in exists \cup removed
          <5>1. PICK k \in DOMAIN steps : k < j /\ steps[k].act = "ensure" /\ steps[k].res = q
            BY <1>4, <3>2, <4>1, Zenon DEF Ordered
          <5> QED
            BY <2>7, <5>1, Zenon
        <4>3. Server \subseteq exists' \cup removed'
          BY <2>6, <4>2, Zenon
        <4> QED
          BY <4>3, Zenon DEF Server, WebhookServed
      <3>3. CASE webhook \notin exists /\ r # webhook
        <4>1. webhook \notin exists'
          BY <1>8, <3>3, Zenon
        <4> QED
          BY <4>1, Zenon DEF WebhookServed, webhook
      <3> QED
        BY <3>1, <3>2, <3>3, SMTT(30)
    <2>9. ServedSoFar'
      <3>1. ReconcilePlan(env', plan'.spec) = steps
        BY <1>6, <2>2
      <3>2. ASSUME NEW k \in DOMAIN steps, k < j + 1, steps[k].act = "ensure", steps[k].res \in Server
            PROVE  steps[k].res \in exists' \cup removed'
        <4>1. k < j \/ k = j
          BY <1>2, <1>4, <3>2, SMTT(30)
        <4> QED
          BY <2>6, <2>7, <3>2, <4>1, ZenonT(40)
      <3> QED
        BY <2>2, <3>1, <3>2, Zenon DEF ServedSoFar
    <2>10. GoneUnregistered' /\ CleanupRemembers' /\ QueueTells'
      BY <2>2, <2>4, Zenon DEF OperandsInv, GoneUnregistered, CleanupRemembers, QueueTells
    <2> QED
      BY <2>5, <2>8, <2>9, <2>10, ZenonT(40) DEF OperandsInv
  <1> QED
    BY <1>7, <1>8, Zenon DEF EnsureStep

\* A deletion spares the server.
LEMMA ServerSpared ==
    ASSUME NEW r, r \notin Server, Foreign(r)
    PROVE  Server \cap With(r) = {}
  <1>1. DS!GoldenImagesNamespace # "ssp"
    BY Zenon DEF DS!GoldenImagesNamespace
  <1>2. \A q \in Server : q.ns = "ssp"
    BY TvFields, Zenon
  <1> QED
    BY <1>1, <1>2, Zenon DEF With, Foreign

\* A step that deletes one.
LEMMA DeleteStepInv ==
    ASSUME OperandsInv, plan # Idle, UNCHANGED <<env, ssp>>,
           NEW steps, steps = StepsOf(plan.mode, env, plan.spec),
           NEW j, j = NextStep(steps), j # 0,
           steps[j].act = "delete", DeleteStep(steps[j], j)
    PROVE  OperandsInv'
  <1> DEFINE r == steps[j].res
             gone == With(r)
  <1>1. /\ plan.mode \in Modes /\ plan.spec \in Specs /\ plan.i \in Nat \ {0}
        /\ PlanFacts(steps) /\ env \in Envs
    BY PlanFactsHold, Zenon DEF OperandsInv, OperandsTypeOK
  <1>2. Len(steps) \in Nat /\ DOMAIN steps = 1..Len(steps)
    BY <1>1, Zenon DEF PlanFacts
  <1>3. /\ j \in plan.i .. Len(steps) /\ Effective(steps[j])
        /\ \A k \in plan.i .. Len(steps) : k < j => ~Effective(steps[k])
    BY <1>1, <1>2, NextStepFound, ZenonT(40)
  <1>4. j \in Nat \ {0} /\ j \in DOMAIN steps
    BY <1>1, <1>2, <1>3, SMTT(30)
  <1>5. r \in Deleted(env, plan.spec) \/ r \in Cleaned(env)
    BY <1>1, <1>4, Zenon DEF PlanFacts
  <1>6. r \in exists
    BY <1>3, Zenon DEF Effective
  <1>7. /\ exists' = exists \ gone /\ removed' = removed /\ Notify(gone)
        /\ plan' = [plan EXCEPT !.i = AfterDelete(j), !.pending = TRUE]
    BY Zenon DEF DeleteStep
  <1>8. Server \cap gone = {}
    BY <1>5, DeletedHarmless, ServerSpared, Zenon
  <1>9. r \in gone /\ r \in Known(env)
    BY <1>6, Zenon DEF With, OperandsInv, OperandsTypeOK
  <1>10. queued' = TRUE
    BY <1>7, <1>9, Woken, ZenonT(40)
  <1> HIDE DEF gone
  <1>11. AfterDelete(j) \in Nat \ {0} /\ (plan.mode = "reconcile" => AfterDelete(j) = j + 1)
    <2>1. Len(DS!CleanupRest(env.openShift)) \in Nat
      BY DsLists, ListElement, Zenon
    <2> QED
      BY <1>4, <2>1 DEF AfterDelete
  <1>12. plan \in [mode : Modes, spec : Specs, i : Nat \ {0}, pending : BOOLEAN]
    BY DEF OperandsInv, OperandsTypeOK
  <1>13. /\ plan' \in [mode : Modes, spec : Specs, i : Nat \ {0}, pending : BOOLEAN]
         /\ plan'.mode = plan.mode /\ plan'.spec = plan.spec /\ plan'.i = AfterDelete(j)
         /\ plan'.pending = TRUE
    BY <1>7, <1>11, <1>12, Zenon
  <1>14. OperandsTypeOK'
    BY <1>7, <1>10, <1>13, Zenon DEF OperandsInv, OperandsTypeOK
  <1>15. \A q \in Server : q \in exists \cup removed => q \in exists' \cup removed'
    BY <1>7, <1>8, Zenon
  <1>16. WebhookServed'
    <2>1. webhook \in exists' => Server \subseteq exists \cup removed
      BY <1>7, Zenon DEF OperandsInv, WebhookServed, webhook, Server
    <2>2. webhook \in exists' => Server \subseteq exists' \cup removed'
      BY <1>15, <2>1, Zenon
    <2> QED
      BY <2>2, Zenon DEF WebhookServed, webhook, Server
  <1>17. ServedSoFar'
    <2> SUFFICES ASSUME plan.mode = "reconcile" PROVE ServedSoFar'
      BY <1>13, SMTT(30) DEF ServedSoFar
    <2>1. ReconcilePlan(env', plan'.spec) = steps /\ steps = ReconcilePlan(env, plan.spec)
      BY <1>13, Zenon DEF StepsOf
    <2>2. ASSUME NEW k \in DOMAIN steps, k < j + 1, steps[k].act = "ensure", steps[k].res \in Server
          PROVE  steps[k].res \in exists' \cup removed'
      <3>1. k # j
        BY <2>2, Zenon
      <3>2. k < j
        BY <1>2, <1>4, <2>2, <3>1, SMTT(30)
      <3>3. CASE k < plan.i
        BY <1>15, <2>1, <2>2, <3>3, Zenon DEF OperandsInv, ServedSoFar
      <3>4. CASE ~(k < plan.i)
        <4>1. k \in plan.i .. Len(steps)
          BY <1>1, <1>2, <3>4, SMTT(30)
        <4>2. ~Effective(steps[k])
          BY <1>3, <3>2, <4>1, Zenon
        <4>3. steps[k].res \in exists
          BY <2>2, <4>2, NotEffective, ZenonT(40)
        <4> QED
          BY <1>15, <2>2, <4>3, Zenon
      <3> QED
        BY <3>3, <3>4, SMTT(30)
    <2>3. plan'.i = j + 1
      BY <1>11, <1>13, SMTT(30)
    <2> QED
      BY <2>1, <2>2, <2>3, ZenonT(40) DEF ServedSoFar
  <1>18. GoneUnregistered' /\ CleanupRemembers' /\ QueueTells'
    BY <1>10, <1>13, Zenon DEF OperandsInv, GoneUnregistered, CleanupRemembers, QueueTells
  <1> QED
    BY <1>14, <1>16, <1>17, <1>18, Zenon DEF OperandsInv

\* The worker's next effective step.
LEMMA StepInv == OperandsInv /\ Step => OperandsInv'
  <1> SUFFICES ASSUME OperandsInv, Step PROVE OperandsInv'
    BY Zenon
  <1> DEFINE steps == StepsOf(plan.mode, env, plan.spec)
             j == NextStep(steps)
  <1>1. plan # Idle /\ UNCHANGED <<env, ssp>>
    BY Zenon DEF Step
  <1>2. Plan(plan.mode, plan.spec).steps = steps
    BY <1>1, PlanFactsHold, Zenon DEF OperandsInv, PlanFacts
  <1>3. /\ j # 0
        /\ \/ steps[j].act = "ensure" /\ EnsureStep(steps[j], j)
           \/ steps[j].act = "delete" /\ DeleteStep(steps[j], j)
    BY <1>2, Zenon DEF Step
  <1> HIDE DEF steps
  <1>4. steps = StepsOf(plan.mode, env, plan.spec)
    BY DEF steps
  <1> QED
    BY <1>1, <1>3, <1>4, EnsureStepInv, DeleteStepInv, ZenonT(40)

\* A plan without an effective step from its beginning has nothing left to do.
LEMMA NothingLeft ==
    ASSUME OperandsTypeOK, plan # Idle, plan.i = 1,
           NextStep(Plan(plan.mode, plan.spec).steps) = 0
    PROVE  /\ plan.mode = "cleanup" => Cleaned(env) \cap exists = {}
           /\ plan.mode = "reconcile" =>
                 /\ Ensured(env, plan.spec) \subseteq exists
                 /\ Deleted(env, plan.spec) \cap exists = {}
  <1> DEFINE steps == StepsOf(plan.mode, env, plan.spec)
  <1>1. /\ plan.mode \in Modes /\ plan.spec \in Specs /\ plan.i \in Nat \ {0}
        /\ PlanFacts(steps) /\ env \in Envs
    BY PlanFactsHold, Zenon DEF OperandsTypeOK
  <1>2. Len(steps) \in Nat /\ DOMAIN steps = 1..Len(steps) /\ NextStep(steps) = 0
    BY <1>1, Zenon DEF PlanFacts
  <1>3. (plan.mode = "cleanup" => steps = CleanupPlan(env))
        /\ (plan.mode = "reconcile" => steps = ReconcilePlan(env, plan.spec))
    BY Zenon DEF StepsOf
  <1> HIDE DEF steps
  <1>4. \A j \in plan.i .. Len(steps) : ~Effective(steps[j])
    BY <1>1, <1>2, NextStepFound, Zenon
  <1>5. \A s \in Range(steps) : ~Effective(s)
    BY <1>2, <1>4 DEF Range
  <1>6. \A s \in Range(steps) : /\ s.act = "delete" => s.res \notin exists
                                /\ s.act = "ensure" => s.res \in exists
    BY <1>5, NotEffective, Zenon
  <1>7. CASE plan.mode = "cleanup"
    <2>1. IsPlan(steps, {}, Cleaned(env))
      BY <1>1, <1>3, <1>7, CleanupIsPlan, Zenon
    <2>2. \A r \in Cleaned(env) : \E s \in Range(steps) : s.act = "delete" /\ s.res = r
      BY <2>1, Zenon DEF IsPlan
    <2>3. Cleaned(env) \cap exists = {}
      BY <1>6, <2>2, Zenon
    <2> QED
      BY <1>7, <2>3
  <1>8. CASE plan.mode = "reconcile"
    <2>1. IsPlan(steps, Ensured(env, plan.spec), Deleted(env, plan.spec))
      BY <1>1, <1>3, <1>8, ReconcileIsPlan, Zenon
    <2>2. /\ \A r \in Deleted(env, plan.spec) : \E s \in Range(steps) : s.act = "delete" /\ s.res = r
          /\ \A r \in Ensured(env, plan.spec) : \E s \in Range(steps) : s.act = "ensure" /\ s.res = r
      BY <2>1, Zenon DEF IsPlan
    <2>3. Deleted(env, plan.spec) \cap exists = {}
      <3>1. \A r \in Deleted(env, plan.spec) : r \notin exists
        BY <1>6, <2>2
      <3> QED
        BY <3>1, Zenon
    <2>4. Ensured(env, plan.spec) \subseteq exists
      <3>1. \A r \in Ensured(env, plan.spec) : r \in exists
        BY <1>6, <2>2
      <3> QED
        BY <3>1, Zenon
    <2> QED
      BY <1>8, <2>3, <2>4, SMTT(30)
  <1> QED
    BY <1>1, <1>7, <1>8, Zenon DEF Modes

\* The end of a reconciliation or of a cleanup pass.
LEMMA FinishInv == OperandsInv /\ Finish => OperandsInv'
  <1> SUFFICES ASSUME OperandsInv, Finish PROVE OperandsInv'
    BY Zenon
  <1>1. /\ plan # Idle /\ NextStep(Plan(plan.mode, plan.spec).steps) = 0 /\ plan' = Idle
        /\ env' = env /\ exists' = exists /\ removed' = removed /\ queued' = queued
    BY Zenon DEF Finish
  <1>2. ssp' = IF plan.mode = "cleanup" /\ ~plan.pending THEN Gone ELSE ssp
    BY Zenon DEF Finish
  <1>3. plan'.mode = "idle" /\ ssp # Gone
    BY <1>1, IdleFields, SMTT(30) DEF OperandsInv, GoneUnregistered
  <1>4. OperandsTypeOK'
    BY <1>1, <1>2, Zenon DEF OperandsInv, OperandsTypeOK
  <1>5. WebhookServed'
    BY <1>1, Zenon DEF OperandsInv, WebhookServed
  <1>6. ServedSoFar' /\ CleanupRemembers'
    BY <1>3, Zenon DEF ServedSoFar, CleanupRemembers
  <1>7. plan.mode \in Modes /\ OperandsTypeOK
    BY <1>1, PlanFactsHold, Zenon DEF OperandsInv
  <1>8. CASE plan.mode = "cleanup"
    <2>1. ssp'.deleting
      BY <1>2, <1>8, IdleFields, SMTT(30) DEF OperandsInv, CleanupRemembers
    <2>2. ssp' = Gone => webhook \notin exists
      <3>1. CASE plan.pending
        BY <1>2, <1>3, <3>1
      <3>2. CASE ~plan.pending
        <4>1. plan.i = 1
          BY <1>8, <3>2 DEF OperandsInv, CleanupRemembers
        <4>2. Cleaned(env) \cap exists = {}
          BY <1>1, <1>7, <1>8, <4>1, NothingLeft, ZenonT(40)
        <4>3. exists \subseteq Known(env)
          BY <1>7 DEF OperandsTypeOK
        <4> QED
          BY <4>2, <4>3, WebhookKnown, Zenon
      <3> QED
        BY <3>1, <3>2, Zenon
    <2>3. GoneUnregistered'
      BY <1>1, <2>2, Zenon DEF GoneUnregistered
    <2>4. QueueTells'
      BY <1>3, <2>1, SMTT(30) DEF QueueTells
    <2> QED
      BY <1>4, <1>5, <1>6, <2>3, <2>4, ZenonT(40) DEF OperandsInv
  <1>9. CASE plan.mode = "reconcile"
    <2>1. ssp' = ssp
      BY <1>2, <1>9, Zenon
    <2>2. ~queued => /\ Ensured(env, ssp.spec) \subseteq exists
                     /\ Deleted(env, ssp.spec) \cap exists = {}
      <3> SUFFICES ASSUME ~queued
                   PROVE  /\ Ensured(env, ssp.spec) \subseteq exists
                          /\ Deleted(env, ssp.spec) \cap exists = {}
        BY Zenon
      <3>1. plan.i = 1 /\ plan.spec = ssp.spec
        BY <1>9, Zenon DEF OperandsInv, QueueTells
      <3>2. /\ Ensured(env, plan.spec) \subseteq exists
            /\ Deleted(env, plan.spec) \cap exists = {}
        BY <1>1, <1>7, <1>9, <3>1, NothingLeft, Zenon
      <3> QED
        BY <3>1, <3>2, Zenon
    <2>3. GoneUnregistered'
      BY <1>3, <2>1, SMTT(30) DEF GoneUnregistered
    <2>4. QueueTells'
      BY <1>1, <1>3, <2>1, <2>2, Zenon DEF QueueTells
    <2> QED
      BY <1>4, <1>5, <1>6, <2>3, <2>4, Zenon DEF OperandsInv
  <1> QED
    BY <1>7, <1>8, <1>9, Zenon DEF Modes

\* The steps of the cluster and of the SSP's owner
LEMMA GarbageCollectInv == OperandsInv /\ GarbageCollect => OperandsInv'
  <1> SUFFICES ASSUME OperandsInv, GarbageCollect PROVE OperandsInv'
    BY Zenon
  <1>1. /\ ssp = Gone /\ env' = env /\ ssp' = ssp /\ plan' = plan /\ removed' = removed
        /\ exists' \subseteq exists /\ queued' \in BOOLEAN
    BY Zenon DEF GarbageCollect, Notify, OperandsInv, OperandsTypeOK
  <1>2. plan = Idle /\ webhook \notin exists
    BY <1>1, Zenon DEF OperandsInv, GoneUnregistered
  <1>3. webhook \notin exists' /\ plan'.mode = "idle" /\ ssp'.deleting
    BY <1>1, <1>2, IdleFields, Zenon
  <1>4. OperandsTypeOK'
    BY <1>1, Zenon DEF OperandsInv, OperandsTypeOK
  <1>5. WebhookServed'
    BY <1>3, Zenon DEF WebhookServed, webhook
  <1>6. ServedSoFar' /\ GoneUnregistered' /\ CleanupRemembers' /\ QueueTells'
    BY <1>1, <1>2, <1>3 DEF ServedSoFar, GoneUnregistered, CleanupRemembers, QueueTells
  <1> QED
    BY <1>4, <1>5, <1>6, Zenon DEF OperandsInv

\* The service CA fills in the bundle.
LEMMA InjectInv == OperandsInv /\ InjectCaBundle => OperandsInv'
  <1> SUFFICES ASSUME OperandsInv, InjectCaBundle PROVE OperandsInv'
    BY Zenon
  <1>1. /\ env' = env /\ ssp' = ssp /\ plan' = plan /\ removed' = removed /\ exists' = exists
        /\ queued' \in BOOLEAN /\ (queued => queued')
    BY Zenon DEF InjectCaBundle, Notify, OperandsInv, OperandsTypeOK
  <1>2. OperandsTypeOK'
    BY <1>1, Zenon DEF OperandsInv, OperandsTypeOK
  <1>3. WebhookServed' /\ ServedSoFar'
    BY <1>1, Zenon DEF OperandsInv, WebhookServed, ServedSoFar
  <1>4. GoneUnregistered' /\ CleanupRemembers' /\ QueueTells'
    BY <1>1, Zenon DEF OperandsInv, GoneUnregistered, CleanupRemembers, QueueTells
  <1> QED
    BY <1>2, <1>3, <1>4, Zenon DEF OperandsInv

\* A user deletes a resource.
LEMMA UserDeleteInv == OperandsInv /\ UserDelete => OperandsInv'
  <1> SUFFICES ASSUME OperandsInv, UserDelete PROVE OperandsInv'
    BY Zenon
  <1>1. env' = env /\ ssp' = ssp /\ plan' = plan /\ ssp # Gone
    BY Zenon DEF UserDelete
  <1>2. PICK r \in exists : /\ exists' = exists \ With(r) /\ removed' = removed \cup With(r)
                            /\ Notify(With(r))
    BY Zenon DEF UserDelete
  <1>3. r \in With(r) /\ r \in Known(env)
    BY Zenon DEF With, OperandsInv, OperandsTypeOK
  <1>4. queued' = TRUE
    BY <1>2, <1>3, Woken, Zenon
  <1>5. exists \cup removed \subseteq exists' \cup removed' /\ exists' \subseteq exists
    BY <1>2, Zenon
  <1>6. OperandsTypeOK'
    BY <1>1, <1>4, <1>5, Zenon DEF OperandsInv, OperandsTypeOK
  <1>7. WebhookServed'
    BY <1>5, Zenon DEF OperandsInv, WebhookServed
  <1>8. ServedSoFar'
    BY <1>1, <1>5, Zenon DEF OperandsInv, ServedSoFar
  <1>9. GoneUnregistered' /\ CleanupRemembers' /\ QueueTells'
    BY <1>1, <1>4, Zenon DEF OperandsInv, GoneUnregistered, CleanupRemembers, QueueTells
  <1> QED
    BY <1>6, <1>7, <1>8, <1>9, Zenon DEF OperandsInv

\* A user changes or deletes the SSP.
LEMMA SspChangeInv == OperandsInv /\ (ChangeSpec \/ DeleteSsp) => OperandsInv'
  <1> SUFFICES ASSUME OperandsInv, ChangeSpec \/ DeleteSsp PROVE OperandsInv'
    BY Zenon
  <1>1. /\ env' = env /\ exists' = exists /\ removed' = removed /\ plan' = plan
        /\ queued' = TRUE /\ ~ssp.deleting
    BY Zenon DEF ChangeSpec, DeleteSsp
  <1>2. ssp \in [spec : Specs, deleting : BOOLEAN, gone : {FALSE}]
    BY <1>1, IdleFields, Zenon DEF OperandsInv, OperandsTypeOK
  <1>3. ssp' \in [spec : Specs, deleting : BOOLEAN, gone : {FALSE}]
    BY <1>2, Zenon DEF ChangeSpec, DeleteSsp
  <1>4. ssp' # Gone
    <2>1. ssp'.gone = FALSE
      BY <1>3, Zenon
    <2>2. Gone.gone = TRUE
      BY Zenon DEF Gone
    <2> QED
      BY <2>1, <2>2, Zenon
  <1>5. OperandsTypeOK'
    BY <1>1, <1>3, Zenon DEF OperandsInv, OperandsTypeOK
  <1>6. WebhookServed' /\ ServedSoFar'
    BY <1>1, Zenon DEF OperandsInv, WebhookServed, ServedSoFar
  <1>7. GoneUnregistered' /\ CleanupRemembers' /\ QueueTells'
    BY <1>1, <1>4 DEF OperandsInv, GoneUnregistered, CleanupRemembers, QueueTells
  <1> QED
    BY <1>5, <1>6, <1>7, Zenon DEF OperandsInv

\* A request fails, or the operator restarts.
LEMMA GiveUpInv == OperandsInv /\ (RequestFails \/ Restart) => OperandsInv'
  <1> SUFFICES ASSUME OperandsInv, RequestFails \/ Restart PROVE OperandsInv'
    BY Zenon
  <1>1. /\ plan' = Idle /\ queued' \in BOOLEAN /\ (queued' \/ ssp = Gone)
        /\ UNCHANGED <<env, ssp, exists, removed>>
    BY Zenon DEF RequestFails, Fail, Restart
  <1> QED
    BY <1>1, AbandonInv, Zenon

\* Nothing happens.
LEMMA StutterInv == OperandsInv /\ UNCHANGED vars => OperandsInv'
  <1> SUFFICES ASSUME OperandsInv, UNCHANGED vars PROVE OperandsInv'
    BY Zenon
  <1>1. /\ env' = env /\ ssp' = ssp /\ plan' = plan /\ removed' = removed /\ exists' = exists
        /\ queued' = queued
    BY Zenon DEF vars, worker
  <1>2. OperandsTypeOK' /\ WebhookServed' /\ ServedSoFar'
    BY <1>1, Zenon DEF OperandsInv, OperandsTypeOK, WebhookServed, ServedSoFar
  <1>3. GoneUnregistered' /\ CleanupRemembers' /\ QueueTells'
    BY <1>1, Zenon DEF OperandsInv, GoneUnregistered, CleanupRemembers, QueueTells
  <1> QED
    BY <1>2, <1>3, Zenon DEF OperandsInv

\* The invariant holds in every reachable state.
LEMMA OperandsInvariant == Spec => []OperandsInv
  <1>1. OperandsInv /\ [Next]_vars => OperandsInv'
    BY StartInv, StepInv, FinishInv, GarbageCollectInv, InjectInv, UserDeleteInv, SspChangeInv,
       GiveUpInv, StutterInv, ZenonT(40) DEF Next
  <1> QED
    BY <1>1, InvInit, PTL DEF Spec

(* WebhookServed for any platforms, specs and number of disturbances: the    *)
(* API server never calls a webhook whose service, pods or their account and *)
(* configuration the operator has not created, or has taken away.            *)
THEOREM WebhookIsAlwaysServed == Spec => []WebhookServed
  <1>1. OperandsInv => WebhookServed
    BY Zenon DEF OperandsInv
  <1> QED
    BY <1>1, OperandsInvariant, PTL

-----------------------------------------------------------------------------
(* Whom the resources refer to *)

\* A resource of S, or the operator's own metrics service, is what ref names.
Found(ref, S) == ref = metricsService \/ \E q \in S : Itself(q) = ref
AllFound(r, S) == \A ref \in r.refs : Found(ref, S)

\* The references of data-sources lead to its own resources.
LEMMA DsFound ==
    ASSUME NEW S, DsResources \subseteq S, NEW r \in DsResources
    PROVE  AllFound(r, S)
  <1>1. \A q \in DsPolicies : q.refs = {}
    BY DEF DsPolicies, ClusterResource
  <1>2. /\ DS!newGoldenImagesNS.refs = {} /\ DS!newViewRole.refs = {} /\ DS!newEditRole.refs = {}
        /\ DS!aDataSource.refs = {}
    BY Zenon DEF DS!newGoldenImagesNS, DS!newViewRole, DS!newEditRole, DS!aDataSource,
           DS!InGoldenImages, DS!ClusterResource
  <1>3. DS!newViewRoleBinding.refs = {Itself(DS!newViewRole)}
    BY Zenon DEF DS!newViewRoleBinding, DS!newViewRole, DS!InGoldenImages, DS!ClusterResource, DS!Ref,
           Itself, Ref
  <1>4. DS!aDataImportCron.refs = {Itself(DS!aDataSource)}
    BY Zenon DEF DS!aDataImportCron, DS!aDataSource, DS!InGoldenImages, DS!ClusterResource, DS!Ref,
           Itself, Ref
  <1>5. DS!newViewRole \in S /\ DS!aDataSource \in S
    BY Zenon DEF DsResources
  <1>6. \/ r \in DsPolicies \/ r = DS!newGoldenImagesNS \/ r = DS!newViewRole \/ r = DS!newEditRole
        \/ r = DS!aDataSource \/ r = DS!newViewRoleBinding \/ r = DS!aDataImportCron
    BY Zenon DEF DsResources
  <1>7. r.refs = {} \/ r.refs = {Itself(DS!newViewRole)} \/ r.refs = {Itself(DS!aDataSource)}
    BY <1>1, <1>2, <1>3, <1>4, <1>6, Zenon
  <1> QED
    BY <1>5, <1>7, Zenon DEF AllFound, Found

\* So do those of vm-delete-protection.
LEMMA VpFound ==
    ASSUME NEW S, VpResources \subseteq S, NEW r \in VpResources
    PROVE  AllFound(r, S)
  <1>1. VP!newValidatingAdmissionPolicy.refs = {}
    BY Zenon DEF VP!newValidatingAdmissionPolicy, VP!ClusterResource
  <1>2. VP!newValidatingAdmissionPolicyBinding.refs = {Itself(VP!newValidatingAdmissionPolicy)}
    BY Zenon DEF VP!newValidatingAdmissionPolicyBinding, VP!newValidatingAdmissionPolicy,
           VP!ClusterResource, VP!Ref, Itself, Ref
  <1>3. r.refs = {} \/ r.refs = {Itself(VP!newValidatingAdmissionPolicy)}
    BY <1>1, <1>2, Zenon DEF VpResources
  <1> QED
    BY <1>3, Zenon DEF AllFound, Found, VpResources

\* Those of metrics lead to its own resources and to the two metrics services.
LEMMA MeFound ==
    ASSUME NEW S, MeResources \subseteq S, TvCore \subseteq S, NEW r \in MeResources
    PROVE  AllFound(r, S)
  <1>1. ME!newMonitoringClusterRole.refs = {} /\ ME!BuildPrometheusRule.refs = {}
    BY Zenon DEF ME!newMonitoringClusterRole, ME!BuildPrometheusRule, ME!ClusterResource,
           ME!NamespacedResource
  <1>2. ME!newMonitoringClusterRoleBinding.refs = {Itself(ME!newMonitoringClusterRole)}
    BY Zenon DEF ME!newMonitoringClusterRoleBinding, ME!newMonitoringClusterRole, ME!ClusterResource,
           ME!Ref, Itself, Ref
  <1>3. ME!newSspServiceMonitor.refs = {metricsService}
    BY Zenon DEF ME!newSspServiceMonitor, ME!newServiceMonitor, ME!NamespacedResource, ME!Ref,
           metricsService, Ref
  <1>4. ME!newValidatorServiceMonitor.refs = {Itself(TV!newPrometheusService), Itself(TV!newService)}
    BY Zenon DEF ME!newValidatorServiceMonitor, ME!newServiceMonitor, ME!NamespacedResource, ME!Ref,
           TV!newPrometheusService, TV!newService, TV!NamespacedResource, Itself, Ref,
           ME!TemplateValidatorMetricsServiceName, TV!TemplateValidatorMetricsServiceName,
           TV!VirtTemplateValidator
  <1>5. /\ ME!newMonitoringClusterRole \in S /\ TV!newPrometheusService \in S /\ TV!newService \in S
    BY Zenon DEF MeResources, MeCleaned, TvCore
  <1>6. \/ r.refs = {} \/ r.refs = {Itself(ME!newMonitoringClusterRole)} \/ r.refs = {metricsService}
        \/ r.refs = {Itself(TV!newPrometheusService), Itself(TV!newService)}
    BY <1>1, <1>2, <1>3, <1>4, Zenon DEF MeResources, MeCleaned
  <1> QED
    BY <1>5, <1>6, Zenon DEF AllFound, Found

\* Those of the template validator lead to its own resources.
LEMMA TvFound ==
    ASSUME NEW S, TvCore \subseteq S, NEW singleReplica, NEW r \in TvResources(singleReplica)
    PROVE  AllFound(r, S)
  <1> DEFINE refs1 == {Itself(TV!newClusterRole), Itself(TV!newServiceAccount)}
             refs2 == {Itself(TV!newServiceAccount), Itself(TV!newConfigMap)}
  <1>1. /\ TV!newClusterRole.refs = {} /\ TV!newServiceAccount.refs = {} /\ TV!newConfigMap.refs = {}
    BY Zenon DEF TV!newClusterRole, TV!newServiceAccount, TV!newConfigMap, TV!ClusterResource,
           TV!NamespacedResource
  <1>2. TV!newClusterRoleBinding.refs = refs1
    BY Zenon DEF TV!newClusterRoleBinding, TV!newClusterRole, TV!newServiceAccount, TV!ClusterResource,
           TV!NamespacedResource, TV!Ref, Itself, Ref
  <1>3. TV!newDeployment.refs = refs2
    BY Zenon DEF TV!newDeployment, TV!newServiceAccount, TV!newConfigMap, TV!NamespacedResource, TV!Ref,
           Itself, Ref
  <1>4. /\ TV!newService.refs = {Itself(TV!newDeployment)}
        /\ TV!newPrometheusService.refs = {Itself(TV!newDeployment)}
        /\ TV!newPodDisruptionBudget.refs = {Itself(TV!newDeployment)}
    BY Zenon DEF TV!newService, TV!newPrometheusService, TV!newPodDisruptionBudget, TV!newDeployment,
           TV!NamespacedResource, TV!Ref, Itself, Ref
  <1>5. TV!newValidatingWebhook.refs = {Itself(TV!newService)}
    BY Zenon DEF TV!newValidatingWebhook, TV!newService, TV!NamespacedResource, TV!ClusterResource, TV!Ref,
           Itself, Ref
  <1>6. \A q \in TvPolicies : q.refs = {}
    BY DEF TvPolicies, NamespacedResource
  <1>7. \/ r.refs = {} \/ r.refs = refs1 \/ r.refs = refs2 \/ r.refs = {Itself(TV!newDeployment)}
        \/ r.refs = {Itself(TV!newService)}
    <2> HIDE DEF refs1, refs2
    <2>1. r \in TvCore \/ r = TV!newPodDisruptionBudget \/ r \in TvPolicies
      BY Zenon DEF TvResources
    <2> QED
      BY <1>1, <1>2, <1>3, <1>4, <1>5, <1>6, <2>1, ZenonT(40) DEF TvCore
  <1>8. /\ TV!newClusterRole \in S /\ TV!newServiceAccount \in S /\ TV!newConfigMap \in S
        /\ TV!newDeployment \in S /\ TV!newService \in S
    BY Zenon DEF TvCore
  <1> QED
    BY <1>7, <1>8, Zenon DEF AllFound, Found

\* Those of the console proxy lead to its own resources.
LEMMA CpFound ==
    ASSUME NEW S, CpBundle \subseteq S, NEW r \in CpBundle
    PROVE  AllFound(r, S)
  <1> DEFINE b(i) == CP!BundleFile[i]
  <1>1. b(1).refs = {} /\ b(2).refs = {} /\ b(3).refs = {} /\ b(6).refs = {}
    BY Zenon DEF CP!BundleFile, CP!NamespacedResource, CP!ClusterResource
  <1>2. b(4).refs = {Itself(b(1))}
    BY Zenon DEF CP!BundleFile, CP!NamespacedResource, CP!ClusterResource, CP!Ref, Itself, Ref
  <1>3. b(5).refs = {Itself(b(3)), Itself(b(1))}
    BY Zenon DEF CP!BundleFile, CP!NamespacedResource, CP!ClusterResource, CP!Ref, Itself, Ref
  <1>4. b(7).refs = {Itself(b(8))}
    BY Zenon DEF CP!BundleFile, CP!NamespacedResource, CP!ClusterResource, CP!Ref, Itself, Ref
  <1>5. b(8).refs = {Itself(b(1)), Itself(b(6))}
    BY Zenon DEF CP!BundleFile, CP!NamespacedResource, CP!ClusterResource, CP!Ref, Itself, Ref
  <1>6. b(9).refs = {Itself(b(7))}
    BY Zenon DEF CP!BundleFile, CP!NamespacedResource, CP!ClusterResource, CP!Ref, Itself, Ref
  <1>7. \/ r = b(1) \/ r = b(2) \/ r = b(3) \/ r = b(4) \/ r = b(5) \/ r = b(6) \/ r = b(7)
        \/ r = b(8) \/ r = b(9)
    BY Zenon DEF CpBundle
  <1>8. b(1) \in S /\ b(3) \in S /\ b(6) \in S /\ b(7) \in S /\ b(8) \in S
    BY Zenon DEF CpBundle
  <1>9. \/ r.refs = {} \/ r.refs = {Itself(b(1))} \/ r.refs = {Itself(b(3)), Itself(b(1))}
        \/ r.refs = {Itself(b(8))} \/ r.refs = {Itself(b(1)), Itself(b(6))}
        \/ r.refs = {Itself(b(7))}
    BY <1>1, <1>2, <1>3, <1>4, <1>5, <1>6, <1>7, ZenonT(40)
  <1> QED
    BY <1>8, <1>9, ZenonT(40) DEF AllFound, Found

\* What a reconciliation leaves refers to what it ensures.
LEMMA EverythingFound ==
    ASSUME NEW e \in Envs, NEW spec \in Specs, NEW r \in Known(e), r \notin Deleted(e, spec)
    PROVE  AllFound(r, Ensured(e, spec))
  <1> DEFINE S == Ensured(e, spec)
  <1>1. DsResources \subseteq S /\ VpResources \subseteq S
    BY Zenon DEF Ensured
  <1>2. CASE r \in DsResources \cup VpResources
    BY <1>1, <1>2, DsFound, VpFound, Zenon
  <1>3. CASE r \notin DsResources \cup VpResources
    <2>1. /\ e.openShift
          /\ r \in MeResources \cup TvResources(e.singleReplica) \cup {aTemplate}
                   \cup CpBundle \cup CpPolicies \cup CpOld
      BY <1>3, Zenon DEF Known
    <2>2. MeResources \subseteq S /\ TvCore \subseteq S
      BY <2>1, Zenon DEF Ensured, EnsuredOpenShift, TvResources
    <2>3. r \in MeResources \/ r \in TvResources(e.singleReplica) => AllFound(r, S)
      BY <2>2, MeFound, TvFound, Zenon
    <2>4. aTemplate.refs = {} /\ \A q \in CpPolicies : q.refs = {}
      BY DEF aTemplate, ClusterResource, CpPolicies, NamespacedResource
    <2>5. r = aTemplate \/ r \in CpPolicies => AllFound(r, S)
      BY <2>4, Zenon DEF AllFound
    <2>6. r \notin CpOld /\ (r \in CpBundle => spec.tokenGeneration)
      BY <2>1, Zenon DEF Deleted, DeletedProxy
    <2>7. r \in CpBundle => CpBundle \subseteq S
      BY <2>1, <2>6, Zenon DEF Ensured, EnsuredOpenShift, EnsuredProxy
    <2>8. r \in CpBundle => AllFound(r, S)
      BY <2>7, CpFound, Zenon
    <2> QED
      BY <2>1, <2>3, <2>5, <2>6, <2>8, Zenon
  <1> QED
    BY <1>2, <1>3, Zenon

-----------------------------------------------------------------------------
(* What the network policies let through *)

\* A policy allows what one of its rules allows, to the pods it selects.
LEMMA PolicyAllows ==
    ASSUME NEW policies, NEW pod, NEW direction, NEW peer, NEW port,
           NEW name, NEW selects, NEW rules, NEW everything,
           newNetworkPolicy(name, selects, direction, rules, everything) \in policies,
           NEW s \in selects, s \subseteq pod,
           NEW labels, NEW ports, Rule(labels, ports) \in rules, labels \subseteq peer, port \in ports
    PROVE  Allowed(policies, pod, direction, peer, port)
  <1> DEFINE p == newNetworkPolicy(name, selects, direction, rules, everything)
             r == Rule(labels, ports)
  <1>1. p.direction = direction /\ p.selects = selects /\ p.rules = rules
    BY Zenon DEF newNetworkPolicy
  <1>2. r.labels = labels /\ r.ports = ports
    BY Zenon DEF Rule
  <1> HIDE DEF p, r
  <1>3. p \in policies /\ r \in rules
    BY Zenon DEF p, r
  <1>4. \E x \in p.selects : x \subseteq pod
    BY <1>1, Zenon
  <1>5. \E x \in p.rules : x.labels \subseteq peer /\ port \in x.ports
    BY <1>1, <1>2, <1>3, Zenon
  <1> QED
    BY <1>1, <1>3, <1>4, <1>5, Zenon DEF Allowed

\* NewEgressToKubeAPIAndDNS lets the pods it selects reach both.
LEMMA EgressAllows ==
    ASSUME NEW policies, NEW pod, NEW g, NEW name, NEW labelKey, NEW labelValues,
           NewEgressToKubeAPIAndDNS(g, name, labelKey, labelValues) \in policies,
           NEW v \in labelValues, <<labelKey, v>> \in pod
    PROVE  /\ Allowed(policies, pod, "egress", {}, ApiPort)
           /\ Allowed(policies, pod, "egress", {g.dnsLabel}, g.dnsPort)
  <1> DEFINE selects == {{<<labelKey, w>>} : w \in labelValues}
             rules == {Rule(Anyone, {ApiPort}), Rule({g.dnsLabel}, {g.dnsPort})}
             s == {<<labelKey, v>>}
  <1>1. newNetworkPolicy(name, selects, "egress", rules, FALSE) \in policies
    BY Zenon DEF NewEgressToKubeAPIAndDNS
  <1>2. s \in selects /\ s \subseteq pod
    BY Zenon
  <1>3. Rule(Anyone, {ApiPort}) \in rules /\ Rule({g.dnsLabel}, {g.dnsPort}) \in rules
    BY Zenon
  <1>4. Anyone \subseteq {} /\ ApiPort \in {ApiPort} /\ g.dnsPort \in {g.dnsPort}
        /\ {g.dnsLabel} \subseteq {g.dnsLabel}
    BY Zenon DEF Anyone
  <1> HIDE DEF selects, rules, s
  <1>5. Allowed(policies, pod, "egress", {}, ApiPort)
    BY <1>1, <1>2, <1>3, <1>4, PolicyAllows, Zenon
  <1>6. Allowed(policies, pod, "egress", {g.dnsLabel}, g.dnsPort)
    BY <1>1, <1>2, <1>3, <1>4, PolicyAllows, Zenon
  <1> QED
    BY <1>5, <1>6, Zenon

\* The policies of the two namespaces, once the policy resources exist
LEMMA PolicyPresent ==
    ASSUME NEW namespace, NEW policy, NEW r \in exists,
           policy \in Range(IF namespace = "ssp" THEN TV!newNetworkPolicies \o CP!newNetworkPolicies
                            ELSE DS!newNetworkPolicies(env.openShift)),
           r.kind = "NetworkPolicy", r.name = policy.name
    PROVE  policy \in Policies(namespace)
  BY Zenon DEF Policies, Itself, Ref

\* A policy of the operator's namespace applies when its resource exists.
LEMMA SspPolicies ==
    ASSUME NEW policy, NEW r \in exists, r.kind = "NetworkPolicy", r.name = policy.name,
           policy \in {TV!newNetworkPolicies[1], TV!newNetworkPolicies[2],
                       CP!newNetworkPolicies[1], CP!newNetworkPolicies[2]}
    PROVE  policy \in Policies("ssp")
  <1>1. IsList(TV!newNetworkPolicies, {TV!newNetworkPolicies[1], TV!newNetworkPolicies[2]})
    BY DEF TV!newNetworkPolicies, IsList, Range
  <1>2. IsList(CP!newNetworkPolicies, {CP!newNetworkPolicies[1], CP!newNetworkPolicies[2]})
    BY DEF CP!newNetworkPolicies, IsList, Range
  <1>3. Range(TV!newNetworkPolicies \o CP!newNetworkPolicies) =
           {TV!newNetworkPolicies[1], TV!newNetworkPolicies[2]}
           \cup {CP!newNetworkPolicies[1], CP!newNetworkPolicies[2]}
    <2>1. IsList(TV!newNetworkPolicies \o CP!newNetworkPolicies,
                 {TV!newNetworkPolicies[1], TV!newNetworkPolicies[2]}
                 \cup {CP!newNetworkPolicies[1], CP!newNetworkPolicies[2]})
      BY <1>1, <1>2, Concat, Zenon
    <2> QED
      BY <2>1, Zenon DEF IsList
  <1>4. policy \in Range(TV!newNetworkPolicies \o CP!newNetworkPolicies)
    BY <1>3, Zenon
  <1> QED
    BY <1>4, PolicyPresent, Zenon

\* So does one of the golden images' namespace.
LEMMA GoldenPolicies ==
    ASSUME NEW policy, NEW r \in exists, r.kind = "NetworkPolicy", r.name = policy.name,
           NEW i \in 1..6, policy = DS!newNetworkPolicies(env.openShift)[i]
    PROVE  policy \in Policies(DS!GoldenImagesNamespace)
  <1>1. DOMAIN DS!newNetworkPolicies(env.openShift) = 1..6
    BY DEF DS!newNetworkPolicies
  <1>2. policy \in Range(DS!newNetworkPolicies(env.openShift))
    BY <1>1, Zenon DEF Range
  <1>3. DS!GoldenImagesNamespace # "ssp"
    BY Zenon DEF DS!GoldenImagesNamespace
  <1> QED
    BY <1>2, <1>3, PolicyPresent, Zenon

\* The resource of a policy carries its name.
LEMMA PolicyResource ==
    ASSUME NEW name,
           \/ NamespacedResource("NetworkPolicy", name, {}) \in exists
           \/ ClusterResource("NetworkPolicy", name, DS!GoldenImagesNamespace, {}) \in exists
    PROVE  \E r \in exists : r.kind = "NetworkPolicy" /\ r.name = name
  <1>1. /\ NamespacedResource("NetworkPolicy", name, {}).kind = "NetworkPolicy"
        /\ NamespacedResource("NetworkPolicy", name, {}).name = name
        /\ ClusterResource("NetworkPolicy", name, DS!GoldenImagesNamespace, {}).kind = "NetworkPolicy"
        /\ ClusterResource("NetworkPolicy", name, DS!GoldenImagesNamespace, {}).name = name
    BY Zenon DEF NamespacedResource, ClusterResource
  <1> QED
    BY <1>1, Zenon

\* The template validator is served and reaches the cluster.
LEMMA ValidatorConnected ==
    ASSUME env.openShift, TvPolicies \subseteq exists
    PROVE  /\ Serves("ssp", TV!PodLabels, TV!ContainerPorts, {})
           /\ ReachesCluster("ssp", TV!PodLabels)
  <1> DEFINE egress == NewEgressToKubeAPIAndDNS(NewOpenShiftGenerator, "egress-from-validator",
                                                KubevirtIo, {TV!VirtTemplateValidator})
             ingress == NewIngressToVirtTemplateValidatorWebhookAndMetrics
  <1>1. TV!newNetworkPolicies[1] = egress /\ egress.name = "egress-from-validator"
    BY DEF TV!newNetworkPolicies, TV!NewEgressToKubeAPIAndDNS, TV!newNetworkPolicy, TV!Rule,
           TV!Anyone, TV!ApiPort, TV!NewOpenShiftGenerator, TV!KubevirtIo,
           NewEgressToKubeAPIAndDNS, newNetworkPolicy, Rule, Anyone, ApiPort,
           NewOpenShiftGenerator, KubevirtIo
  <1>2. TV!newNetworkPolicies[2] = ingress /\ ingress.name = "ingress-to-validator"
    BY DEF TV!newNetworkPolicies, TV!NewIngressToVirtTemplateValidatorWebhookAndMetrics,
           TV!newNetworkPolicy, TV!Rule, TV!Anyone, TV!KubevirtIo,
           NewIngressToVirtTemplateValidatorWebhookAndMetrics, newNetworkPolicy, Rule, Anyone,
           KubevirtIo
  <1>3. PICK r1 \in exists : r1.kind = "NetworkPolicy" /\ r1.name = "egress-from-validator"
    BY PolicyResource, Zenon DEF TvPolicies
  <1>4. PICK r2 \in exists : r2.kind = "NetworkPolicy" /\ r2.name = "ingress-to-validator"
    BY PolicyResource, Zenon DEF TvPolicies
  <1> HIDE DEF egress, ingress
  <1>5. egress \in Policies("ssp") /\ ingress \in Policies("ssp")
    BY <1>1, <1>2, <1>3, <1>4, SspPolicies, ZenonT(40)
  <1>6. <<KubevirtIo, "virt-template-validator">> \in TV!PodLabels
        /\ TV!VirtTemplateValidator = "virt-template-validator"
    BY Zenon DEF TV!PodLabels, TV!CommonLabels, TV!KubevirtIo, KubevirtIo, TV!VirtTemplateValidator
  <1>7. ReachesCluster("ssp", TV!PodLabels)
    <2>1. NewEgressToKubeAPIAndDNS(NewOpenShiftGenerator, "egress-from-validator",
                                   KubevirtIo, {TV!VirtTemplateValidator}) \in Policies("ssp")
      BY <1>5, Zenon DEF egress
    <2>2. /\ TV!VirtTemplateValidator \in {TV!VirtTemplateValidator}
          /\ <<KubevirtIo, TV!VirtTemplateValidator>> \in TV!PodLabels
      BY <1>6, Zenon
    <2>3. /\ Allowed(Policies("ssp"), TV!PodLabels, "egress", {}, ApiPort)
          /\ Allowed(Policies("ssp"), TV!PodLabels, "egress",
                     {NewOpenShiftGenerator.dnsLabel}, NewOpenShiftGenerator.dnsPort)
      BY <2>1, <2>2, EgressAllows, Zenon
    <2>4. Dns = NewOpenShiftGenerator
      BY Zenon DEF Dns
    <2> QED
      BY <2>3, <2>4, Zenon DEF ReachesCluster
  <1>8. ASSUME NEW port \in TV!ContainerPorts
        PROVE  Allowed(Policies("ssp"), TV!PodLabels, "ingress", {}, port)
    <2> DEFINE s == {<<KubevirtIo, "virt-template-validator">>}
               selects == {s}
               rule == Rule(Anyone, {8443, 9443})
               rules == {rule}
    <2>1. newNetworkPolicy("ingress-to-validator", selects, "ingress", rules, FALSE) = ingress
      BY DEF ingress, NewIngressToVirtTemplateValidatorWebhookAndMetrics
    <2>2. s \in selects /\ s \subseteq TV!PodLabels /\ rule \in rules
      <3> HIDE DEF rule
      <3> QED
        BY <1>6
    <2>4. Anyone \subseteq {}
      BY DEF Anyone
    <2>3. port \in {8443, 9443}
      BY DEF TV!ContainerPorts, TV!WebhookPort, TV!MetricsPort
    <2> HIDE DEF s, selects, rules, rule
    <2>5. newNetworkPolicy("ingress-to-validator", selects, "ingress", rules, FALSE) \in Policies("ssp")
      BY <1>5, <2>1, Zenon
    <2> DEFINE ports == {8443, 9443}
    <2>6. Rule(Anyone, ports) \in rules /\ port \in ports
      BY <2>2, <2>3, SMTT(30) DEF rule
    <2> HIDE DEF ports
    <2> QED
      BY <2>2, <2>4, <2>5, <2>6, PolicyAllows, Zenon
  <1> QED
    BY <1>7, <1>8, ZenonT(40) DEF Serves

\* So does the console proxy.
LEMMA ProxyConnected ==
    ASSUME env.openShift, CpPolicies \subseteq exists
    PROVE  /\ Serves("ssp", CP!PodLabels, CP!ContainerPorts, {})
           /\ ReachesCluster("ssp", CP!PodLabels)
  <1> DEFINE egress == NewEgressToKubeAPIAndDNS(NewOpenShiftGenerator, "egress-from-console-proxy",
                                                LabelVMConsoleProxyKubevirtIo, {CP!operandName})
             ingress == NewIngressToVMConsoleProxyAPI
  <1>1. CP!newNetworkPolicies[1] = egress /\ egress.name = "egress-from-console-proxy"
    BY DEF CP!newNetworkPolicies, CP!NewEgressToKubeAPIAndDNS, CP!newNetworkPolicy, CP!Rule,
           CP!Anyone, CP!ApiPort, CP!NewOpenShiftGenerator, CP!LabelVMConsoleProxyKubevirtIo,
           NewEgressToKubeAPIAndDNS, newNetworkPolicy, Rule, Anyone, ApiPort,
           NewOpenShiftGenerator, LabelVMConsoleProxyKubevirtIo
  <1>2. CP!newNetworkPolicies[2] = ingress /\ ingress.name = "ingress-to-console-proxy"
    BY DEF CP!newNetworkPolicies, CP!NewIngressToVMConsoleProxyAPI,
           CP!newNetworkPolicy, CP!Rule, CP!Anyone, CP!LabelVMConsoleProxyKubevirtIo,
           NewIngressToVMConsoleProxyAPI, newNetworkPolicy, Rule, Anyone,
           LabelVMConsoleProxyKubevirtIo
  <1>3. PICK r1 \in exists : r1.kind = "NetworkPolicy" /\ r1.name = "egress-from-console-proxy"
    BY PolicyResource, Zenon DEF CpPolicies
  <1>4. PICK r2 \in exists : r2.kind = "NetworkPolicy" /\ r2.name = "ingress-to-console-proxy"
    BY PolicyResource, Zenon DEF CpPolicies
  <1> HIDE DEF egress, ingress
  <1>5. egress \in Policies("ssp") /\ ingress \in Policies("ssp")
    BY <1>1, <1>2, <1>3, <1>4, SspPolicies, ZenonT(40)
  <1>6. <<LabelVMConsoleProxyKubevirtIo, "vm-console-proxy">> \in CP!PodLabels
        /\ CP!operandName = "vm-console-proxy"
    BY Zenon DEF CP!PodLabels, CP!LabelVMConsoleProxyKubevirtIo, LabelVMConsoleProxyKubevirtIo,
           CP!operandName
  <1>7. ReachesCluster("ssp", CP!PodLabels)
    <2>1. NewEgressToKubeAPIAndDNS(NewOpenShiftGenerator, "egress-from-console-proxy",
             LabelVMConsoleProxyKubevirtIo, {CP!operandName}) \in Policies("ssp")
      BY <1>5 DEF egress
    <2>2. /\ CP!operandName \in {CP!operandName}
          /\ <<LabelVMConsoleProxyKubevirtIo, CP!operandName>> \in CP!PodLabels
      BY <1>6, Zenon
    <2>3. /\ Allowed(Policies("ssp"), CP!PodLabels, "egress", {}, ApiPort)
          /\ Allowed(Policies("ssp"), CP!PodLabels, "egress",
                     {NewOpenShiftGenerator.dnsLabel}, NewOpenShiftGenerator.dnsPort)
      BY <2>1, <2>2, EgressAllows, Zenon
    <2>4. Dns = NewOpenShiftGenerator
      BY Zenon DEF Dns
    <2> QED
      BY <2>3, <2>4, Zenon DEF ReachesCluster
  <1>8. ASSUME NEW port \in CP!ContainerPorts
        PROVE  Allowed(Policies("ssp"), CP!PodLabels, "ingress", {}, port)
    <2> DEFINE s == {<<LabelVMConsoleProxyKubevirtIo, "vm-console-proxy">>}
               selects == {s}
               rule == Rule(Anyone, {8768})
               rules == {rule}
    <2>1. newNetworkPolicy("ingress-to-console-proxy", selects, "ingress", rules, FALSE) = ingress
      BY DEF ingress, NewIngressToVMConsoleProxyAPI
    <2>2. s \in selects /\ s \subseteq CP!PodLabels /\ rule \in rules
      <3> HIDE DEF rule
      <3> QED
        BY <1>6
    <2>4. Anyone \subseteq {}
      BY Zenon DEF Anyone
    <2>3. port \in {8768}
      BY DEF CP!ContainerPorts
    <2> HIDE DEF s, selects, rules, rule
    <2>5. newNetworkPolicy("ingress-to-console-proxy", selects, "ingress", rules, FALSE)
             \in Policies("ssp")
      BY <1>5, <2>1, Zenon
    <2> DEFINE ports == {8768}
    <2>6. Rule(Anyone, ports) \in rules /\ port \in ports
      BY <2>2, <2>3, SMTT(30) DEF rule
    <2> HIDE DEF ports
    <2> QED
      BY <2>2, <2>4, <2>5, <2>6, PolicyAllows, ZenonT(40)
  <1> QED
    BY <1>7, <1>8, Zenon DEF Serves

\* The importers and cloners of golden images do their work.
LEMMA GoldenConnected ==
    ASSUME env.openShift \in BOOLEAN, DsPolicies \subseteq exists
    PROVE  /\ ReachesCluster(DS!GoldenImagesNamespace, Cdi("importer"))
           /\ ReachesCluster(DS!GoldenImagesNamespace, Cdi("cdi-clone-source"))
           /\ \A peer \in {"cdi-clone-source", "cdi-uploadproxy"} :
                 Serves(DS!GoldenImagesNamespace, Cdi("cdi-upload-server"), {8443}, Cdi(peer))
           /\ Allowed(Policies(DS!GoldenImagesNamespace), Cdi("cdi-clone-source"), "egress",
                      Cdi("cdi-upload-server"), 8443)
  <1> DEFINE Golden == Policies(DS!GoldenImagesNamespace)
             values == {"importer", "cdi-clone-source"}
             name == "egress-from-importer-and-clone-source"
             egress == NewEgressToKubeAPIAndDNS(Dns, name, LabelCDIKubevirtIo, values)
  <1>1. DS!newNetworkPolicies(env.openShift)[1] = egress /\ egress.name = name
    BY DEF DS!newNetworkPolicies, DS!NewEgressToKubeAPIAndDNS, DS!newNetworkPolicy, DS!Rule,
           DS!Anyone, DS!ApiPort, DS!NewOpenShiftGenerator, DS!NewKubernetesGenerator,
           DS!LabelCDIKubevirtIo, NewEgressToKubeAPIAndDNS, newNetworkPolicy, Rule, Anyone,
           ApiPort, NewOpenShiftGenerator, NewKubernetesGenerator, LabelCDIKubevirtIo, Dns
  <1>2. PICK r1 \in exists : r1.kind = "NetworkPolicy" /\ r1.name = name
    BY PolicyResource, Zenon DEF DsPolicies
  <1>3. 1 \in 1..6
    OBVIOUS
  <1>4. egress \in Golden
    <2> HIDE DEF egress, name
    <2> QED
      BY <1>1, <1>2, <1>3, GoldenPolicies, Zenon
  <1>5. ASSUME NEW v \in values PROVE ReachesCluster(DS!GoldenImagesNamespace, Cdi(v))
    <2>1. <<LabelCDIKubevirtIo, v>> \in Cdi(v)
      BY Zenon DEF Cdi
    <2> HIDE DEF values, name
    <2>2. /\ Allowed(Golden, Cdi(v), "egress", {}, ApiPort)
          /\ Allowed(Golden, Cdi(v), "egress", {Dns.dnsLabel}, Dns.dnsPort)
      BY <1>4, <2>1, EgressAllows, Zenon
    <2> QED
      BY <2>2, Zenon DEF ReachesCluster
  <1>6. Allowed(Golden, Cdi("cdi-upload-server"), "ingress", Cdi("cdi-clone-source"), 8443)
    <2> DEFINE policy == NewIngressFromCDIUploadServerToCDICloneSource
               s == {<<LabelCDIKubevirtIo, "cdi-upload-server">>}
               selects == {s}
               labels == {<<LabelCDIKubevirtIo, "cdi-clone-source">>}
               ports == {8443}
               rules == {Rule(labels, ports)}
    <2>1. DS!newNetworkPolicies(env.openShift)[3] = policy /\ policy.name = "ingress-from-clone-source"
      BY DEF DS!newNetworkPolicies, DS!NewIngressFromCDIUploadServerToCDICloneSource,
             DS!newNetworkPolicy, DS!Rule, DS!LabelCDIKubevirtIo,
             NewIngressFromCDIUploadServerToCDICloneSource, newNetworkPolicy, Rule,
             LabelCDIKubevirtIo
    <2>2. policy = newNetworkPolicy("ingress-from-clone-source", selects, "ingress", rules, FALSE)
      BY DEF NewIngressFromCDIUploadServerToCDICloneSource
    <2>3. PICK r \in exists : r.kind = "NetworkPolicy" /\ r.name = "ingress-from-clone-source"
      BY PolicyResource, Zenon DEF DsPolicies
    <2> DEFINE pod == Cdi("cdi-upload-server")
               peer == Cdi("cdi-clone-source")
    <2>4. s \in selects /\ s \subseteq pod /\ labels \subseteq peer
      BY DEF Cdi
    <2>5. Rule(labels, ports) \in rules
      OBVIOUS
    <2> DEFINE port == 8443
    <2>6. port \in ports
      OBVIOUS
    <2> HIDE DEF policy, s, selects, labels, ports, rules, port, pod, peer
    <2>7. 3 \in 1..6
      OBVIOUS
    <2>8. policy \in Golden
      BY <2>1, <2>3, <2>7, GoldenPolicies, SMTT(30)
    <2>9. newNetworkPolicy("ingress-from-clone-source", selects, "ingress", rules, FALSE) \in Golden
      BY <2>2, <2>8, Zenon
    <2>10. Allowed(Golden, pod, "ingress", peer, port)
      BY <2>4, <2>5, <2>6, <2>9, PolicyAllows, ZenonT(40)
    <2> QED
      BY <2>10, SMTT(30) DEF port, pod, peer
  <1>7. Allowed(Golden, Cdi("cdi-upload-server"), "ingress", Cdi("cdi-uploadproxy"), 8443)
    <2> DEFINE policy == NewIngressFromCDIUploadProxyToCDIUploadServer
               s == {<<LabelCDIKubevirtIo, "cdi-upload-server">>}
               selects == {s}
               labels == {<<LabelCDIKubevirtIo, "cdi-uploadproxy">>}
               ports == {8443}
               rules == {Rule(labels, ports)}
    <2>1. DS!newNetworkPolicies(env.openShift)[4] = policy /\ policy.name = "ingress-from-upload-proxy"
      BY DEF DS!newNetworkPolicies, DS!NewIngressFromCDIUploadProxyToCDIUploadServer,
             DS!newNetworkPolicy, DS!Rule, DS!LabelCDIKubevirtIo,
             NewIngressFromCDIUploadProxyToCDIUploadServer, newNetworkPolicy, Rule,
             LabelCDIKubevirtIo
    <2>2. policy = newNetworkPolicy("ingress-from-upload-proxy", selects, "ingress", rules, FALSE)
      BY DEF NewIngressFromCDIUploadProxyToCDIUploadServer
    <2>3. PICK r \in exists : r.kind = "NetworkPolicy" /\ r.name = "ingress-from-upload-proxy"
      BY PolicyResource, Zenon DEF DsPolicies
    <2> DEFINE pod == Cdi("cdi-upload-server")
               peer == Cdi("cdi-uploadproxy")
    <2>4. s \in selects /\ s \subseteq pod /\ labels \subseteq peer
      BY DEF Cdi
    <2>5. Rule(labels, ports) \in rules
      OBVIOUS
    <2> DEFINE port == 8443
    <2>6. port \in ports
      OBVIOUS
    <2> HIDE DEF policy, s, selects, labels, ports, rules, port, pod, peer
    <2>7. 4 \in 1..6
      OBVIOUS
    <2>8. policy \in Golden
      BY <2>1, <2>3, <2>7, GoldenPolicies, SMTT(30)
    <2>9. newNetworkPolicy("ingress-from-upload-proxy", selects, "ingress", rules, FALSE) \in Golden
      BY <2>2, <2>8, Zenon
    <2>10. Allowed(Golden, pod, "ingress", peer, port)
      BY <2>4, <2>5, <2>6, <2>9, PolicyAllows, ZenonT(40)
    <2> QED
      BY <2>10, SMTT(30) DEF port, pod, peer
  <1>8. Allowed(Golden, Cdi("cdi-clone-source"), "egress", Cdi("cdi-upload-server"), 8443)
    <2> DEFINE policy == NewEgressFromCDICloneSourceToCDIUploadServer
               s == {<<LabelCDIKubevirtIo, "cdi-clone-source">>}
               selects == {s}
               labels == {<<LabelCDIKubevirtIo, "cdi-upload-server">>}
               ports == {8443}
               rules == {Rule(labels, ports)}
    <2>1. DS!newNetworkPolicies(env.openShift)[5] = policy /\ policy.name = "egress-from-clone-source"
      BY DEF DS!newNetworkPolicies, DS!NewEgressFromCDICloneSourceToCDIUploadServer,
             DS!newNetworkPolicy, DS!Rule, DS!LabelCDIKubevirtIo,
             NewEgressFromCDICloneSourceToCDIUploadServer, newNetworkPolicy, Rule,
             LabelCDIKubevirtIo
    <2>2. policy = newNetworkPolicy("egress-from-clone-source", selects, "egress", rules, FALSE)
      BY DEF NewEgressFromCDICloneSourceToCDIUploadServer
    <2>3. PICK r \in exists : r.kind = "NetworkPolicy" /\ r.name = "egress-from-clone-source"
      BY PolicyResource, Zenon DEF DsPolicies
    <2> DEFINE pod == Cdi("cdi-clone-source")
               peer == Cdi("cdi-upload-server")
    <2>4. s \in selects /\ s \subseteq pod /\ labels \subseteq peer
      BY DEF Cdi
    <2>5. Rule(labels, ports) \in rules
      OBVIOUS
    <2> DEFINE port == 8443
    <2>6. port \in ports
      OBVIOUS
    <2> HIDE DEF policy, s, selects, labels, ports, rules, port, pod, peer
    <2>7. 5 \in 1..6
      OBVIOUS
    <2>8. policy \in Golden
      BY <2>1, <2>3, <2>7, GoldenPolicies, SMTT(30)
    <2>9. newNetworkPolicy("egress-from-clone-source", selects, "egress", rules, FALSE) \in Golden
      BY <2>2, <2>8, Zenon
    <2>10. Allowed(Golden, pod, "egress", peer, port)
      BY <2>4, <2>5, <2>6, <2>9, PolicyAllows, Zenon
    <2> QED
      BY <2>10 DEF port, pod, peer
  <1>9. \A peer \in {"cdi-clone-source", "cdi-uploadproxy"} :
           Serves(DS!GoldenImagesNamespace, Cdi("cdi-upload-server"), {8443}, Cdi(peer))
    <2> DEFINE port == 8443
    <2>1. /\ Allowed(Golden, Cdi("cdi-upload-server"), "ingress", Cdi("cdi-clone-source"), port)
          /\ Allowed(Golden, Cdi("cdi-upload-server"), "ingress", Cdi("cdi-uploadproxy"), port)
      BY <1>6, <1>7
    <2> HIDE DEF port
    <2>2. \A peer \in {"cdi-clone-source", "cdi-uploadproxy"} :
             Serves(DS!GoldenImagesNamespace, Cdi("cdi-upload-server"), {port}, Cdi(peer))
      BY <2>1, ZenonT(40) DEF Serves
    <2> QED
      BY <2>2 DEF port
  <1> QED
    BY <1>5, <1>8, <1>9, SMTT(30)

(* Wired for any platforms, specs and number of disturbances: whenever the   *)
(* operator rests, every reference between the resources of its operands     *)
(* leads to one of them, and the network policies let the pods serve and     *)
(* reach what they live on.                                                  *)
THEOREM RestingOperandsAreWired == Spec => []Wired
  <1>1. OperandsInv => Wired
    <2> SUFFICES ASSUME OperandsInv, AtRest PROVE Wired
      BY PTL DEF Wired
    <2>1. /\ env \in Envs /\ ssp.spec \in Specs /\ exists \subseteq Known(env)
          /\ env.openShift \in BOOLEAN
      <3>1. ssp # Gone
        BY IdleFields, Zenon DEF AtRest
      <3> QED
        BY <3>1, ConstantTypes, Zenon DEF OperandsInv, OperandsTypeOK
    <2>2. Ensured(env, ssp.spec) \subseteq exists /\ Deleted(env, ssp.spec) \cap exists = {}
      BY Zenon DEF OperandsInv, QueueTells, AtRest
    <2>3. ASSUME NEW ref \in UNION {r.refs : r \in exists}
          PROVE  ref = metricsService \/ \E r \in exists : Itself(r) = ref
      <3>1. PICK r \in exists : ref \in r.refs
        BY Zenon
      <3>2. r \in Known(env) /\ r \notin Deleted(env, ssp.spec)
        BY <2>1, <2>2, Zenon
      <3>3. AllFound(r, Ensured(env, ssp.spec))
        BY <2>1, <3>2, EverythingFound, Zenon
      <3> QED
        BY <2>2, <3>1, <3>3, Zenon DEF AllFound, Found
    <2>4. DsPolicies \subseteq exists
      BY <2>2, Zenon DEF Ensured, DsResources
    <2>5. env.openShift => TvPolicies \subseteq exists
      BY <2>2, Zenon DEF Ensured, EnsuredOpenShift, TvResources
    <2>6. env.openShift /\ ssp.spec.tokenGeneration => CpPolicies \subseteq exists
      BY <2>2, Zenon DEF Ensured, EnsuredOpenShift, EnsuredProxy
    <2>7. env.openShift =>
             Serves("ssp", TV!PodLabels, TV!ContainerPorts, {}) /\ ReachesCluster("ssp", TV!PodLabels)
      BY <2>5, ValidatorConnected, Zenon
    <2>8. env.openShift /\ ssp.spec.tokenGeneration =>
             Serves("ssp", CP!PodLabels, CP!ContainerPorts, {}) /\ ReachesCluster("ssp", CP!PodLabels)
      BY <2>6, ProxyConnected, Zenon
    <2> QED
      BY <2>1, <2>3, <2>4, <2>7, <2>8, GoldenConnected, SMTT(30) DEF Wired
  <1> QED
    BY <1>1, OperandsInvariant, PTL
=============================================================================
