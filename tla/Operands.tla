------------------------------ MODULE Operands ------------------------------
(***************************************************************************)
(* All the operands together: which resources an SSP brings into being, in  *)
(* which order, how the operator notices that one is missing, and what is   *)
(* left when the SSP is disabled in part or deleted.  SspController models  *)
(* the reconciliation of an SSP in detail with abstract operands; here the  *)
(* operands are the real ones, and a resource exists or does not.           *)
(*                                                                          *)
(* The worker reads its caches, which are assumed to be current (the models *)
(* of the single controllers let them lag), and takes one step per request  *)
(* to the API server that changes something.                                *)
(***************************************************************************)
EXTENDS Naturals, Sequences, Functions, NetworkPolicies

CONSTANTS
    Envs,            \* platforms: [openShift, singleReplica]
    Specs,           \* the part of the SSP's spec that chooses resources
    MaxDisturbances  \* bound: changes of the spec, resources somebody else deletes,
                     \* failed requests and restarts of the operator

ASSUME EnvsAssumption == Envs \subseteq [openShift : BOOLEAN, singleReplica : BOOLEAN]
ASSUME SpecsAssumption ==
    Specs \subseteq [tokenGeneration : BOOLEAN, tls : {"ok", "noVersion", "badVersion"}]
ASSUME BoundsAssumption == MaxDisturbances \in Nat

DS == INSTANCE DataSourcesOperand
VP == INSTANCE VmDeleteProtectionOperand
ME == INSTANCE MetricsOperand
TV == INSTANCE TemplateValidatorOperand
CP == INSTANCE ConsoleProxyOperand

VARIABLES
    env,         \* the platform the operator runs on, read once (CreateControllers)
    ssp,         \* [spec, deleting], or Gone
    exists,      \* the resources in the cluster
    ca,          \* registrations whose CA bundle the service CA operator has injected
    plan,        \* the worker's reconciliation: [mode, spec, i, pending], or Idle
    queued,      \* is the SSP in the work queue?
    removed,     \* resources somebody else deleted and nobody has created since
    disturbances

worker == <<plan, queued>>
vars == <<env, ssp, exists, ca, worker, removed, disturbances>>

Gone == [spec |-> [tokenGeneration |-> FALSE, tls |-> "ok"], deleting |-> TRUE, gone |-> TRUE]
Idle == [mode |-> "idle", spec |-> Gone.spec, i |-> 0, pending |-> FALSE]

-----------------------------------------------------------------------------
(* What the operands make of a spec *)

\* One template stands for those that CommonTemplates chooses.
aTemplate == ClusterResource("Template", "template", "openshift", {})

\* The step that creates or updates a resource; "fails" when it cannot be built.
Ensure(r) == [act |-> "ensure", res |-> r, fails |-> FALSE]
EnsureOrFail(r, fails) == [Ensure(r) EXCEPT !.fails = fails]
Delete(r) == [act |-> "delete", res |-> r, fails |-> FALSE]

EnsureAll(rs) == [i \in DOMAIN rs |-> Ensure(rs[i])]
DeleteAll(rs) == [i \in DOMAIN rs |-> Delete(rs[i])]

\* The ConfigMap with the TLS options is the step a bad profile fails.
EnsureWith(rs, fails) == [i \in DOMAIN rs |-> EnsureOrFail(rs[i], fails /\ rs[i].kind = "ConfigMap")]

ConsoleProxyPlan(spec) ==
    IF spec.tokenGeneration
    THEN EnsureWith(CP!Reconcile, ~CP!createTlsConfigFile(spec.tls)) \o DeleteAll(CP!deleteOld)
    ELSE DeleteAll(CP!Cleanup)

\* reconcileOperands: the operands of the platform, one after another.
ReconcilePlan(e, spec) ==
    EnsureAll(DS!Reconcile(e.openShift)) \o EnsureAll(VP!Reconcile)
    \o IF ~e.openShift THEN <<>>
       ELSE EnsureAll(ME!Reconcile)
            \o EnsureWith(TV!Reconcile(e.singleReplica), spec.tls = "badVersion")
            \o <<Ensure(aTemplate)>>
            \o ConsoleProxyPlan(spec)

CleanupPlan(e) ==
    DeleteAll(DS!CleanupFirst) \o DeleteAll(DS!CleanupRest(e.openShift)) \o DeleteAll(VP!Cleanup)
    \o IF ~e.openShift THEN <<>>
       ELSE DeleteAll(ME!Cleanup) \o DeleteAll(TV!Cleanup) \o <<Delete(aTemplate)>>
            \o DeleteAll(CP!Cleanup)

\* The steps before the first that cannot succeed
Feasible(steps) == {steps[j] : j \in {j \in DOMAIN steps : \A b \in 1 .. j : ~steps[b].fails}}

\* The plans of each mode and what they lead to, as a table computed once
PlanOf(mode, e, spec, steps) ==
    [mode |-> mode, env |-> e, spec |-> spec, steps |-> steps,
     wanted |-> {s.res : s \in {s \in Feasible(steps) : s.act = "ensure"}},
     unwanted |-> {s.res : s \in {s \in Feasible(steps) : s.act = "delete"}}]
Plans == {PlanOf("reconcile", e, s, ReconcilePlan(e, s)) : e \in Envs, s \in Specs}
         \cup {PlanOf("cleanup", e, s, CleanupPlan(e)) : e \in Envs, s \in Specs}
Plan(mode, spec) == CHOOSE p \in Plans : p.mode = mode /\ p.env = env /\ p.spec = spec

\* The service of the operator's own metrics is kept by another controller.
metricsService == Ref("Service", ME!SspOperatorMetricsServiceName)

-----------------------------------------------------------------------------
(* Which events reach the queue *)

WatchTypes(e) == IF e.openShift THEN ME!WatchTypes \cup TV!WatchTypes \cup CP!WatchTypes ELSE {}

\* Mutant: on OpenShift the kinds of the data-sources operand are not watched.
WatchClusterTypesOpenShift(e) ==
    IF e.openShift
    THEN VP!WatchClusterTypes \cup ME!WatchClusterTypes \cup TV!WatchClusterTypes
         \cup {"Template"} \cup CP!WatchClusterTypes
    ELSE DS!WatchClusterTypes \cup VP!WatchClusterTypes

WatchClusterTypes(e) ==
    DS!WatchClusterTypes \cup VP!WatchClusterTypes
    \cup IF e.openShift
         THEN ME!WatchClusterTypes \cup TV!WatchClusterTypes \cup {"Template"}
              \cup CP!WatchClusterTypes
         ELSE {}

\* Owner references are followed for the one set of kinds, annotations for the other.
watchResources(r) ==
    \/ r.mark = "owner" /\ r.kind \in WatchTypes(env)
    \/ r.mark = "annotation" /\ r.kind \in WatchClusterTypes(env)

\* The events of these resources wake the worker up.
Notify(rs) == queued' = (queued \/ \E r \in rs : watchResources(r))

-----------------------------------------------------------------------------
(* The worker *)

Start ==
    /\ plan = Idle /\ queued
    /\ queued' = FALSE
    /\ plan' = IF ssp = Gone THEN Idle
               ELSE [mode |-> IF ssp.deleting THEN "cleanup" ELSE "reconcile",
                     spec |-> ssp.spec, i |-> 1, pending |-> FALSE]
    /\ UNCHANGED <<env, ssp, exists, ca, removed, disturbances>>

\* An update of a registration keeps the bundle it finds (reconcileApiService too).
copyFoundCaBundles(r) == ca

\* Does the step find something to do?
Effective(s) ==
    IF s.act = "delete" THEN s.res \in exists
    ELSE s.fails \/ s.res \notin exists \/ copyFoundCaBundles(s.res) # ca

\* The next step with an effect, 0 for none; those before it only read the cache.
NextStep(steps) ==
    LET js == {j \in plan.i .. Len(steps) : Effective(steps[j])}
    IN  IF js = {} THEN 0 ELSE CHOOSE j \in js : \A k \in js : j <= k

\* A namespace takes what is in it along.
With(r) == {r} \cup {q \in exists : r.kind = "Namespace" /\ q.ns = r.name}

Disturb == disturbances < MaxDisturbances /\ disturbances' = disturbances + 1

\* The error goes back to the queue, which tries again later.
Fail == plan' = Idle /\ queued' = TRUE

NamespaceMissing(r) ==
    r.ns = DS!GoldenImagesNamespace /\ DS!newGoldenImagesNS \notin exists

EnsureStep(s, j) ==
    IF s.fails \/ (s.res \notin exists /\ NamespaceMissing(s.res))
    THEN Fail /\ UNCHANGED <<exists, ca, removed>>
    ELSE /\ exists' = exists \cup {s.res}
         /\ ca' = copyFoundCaBundles(s.res)
         /\ removed' = removed \ {s.res}
         /\ plan' = [plan EXCEPT !.i = j + 1]
         /\ Notify({s.res})

\* DataSources stay while a pass finds crons: the rest of the operand is skipped.
AfterDelete(j) ==
    IF plan.mode = "cleanup" /\ j = 1
    THEN 2 + Len(DS!CleanupRest(env.openShift)) ELSE j + 1

DeleteStep(s, j) ==
    LET gone == With(s.res)
    IN  /\ exists' = exists \ gone
        /\ ca' = ca \ gone
        /\ plan' = [plan EXCEPT !.i = AfterDelete(j), !.pending = TRUE]
        /\ Notify(gone)
        /\ UNCHANGED removed

\* A step of reconcileOperands or of cleanup, with the request it sends.
Step ==
    /\ plan # Idle
    /\ LET steps == Plan(plan.mode, plan.spec).steps
           j == NextStep(steps)
       IN  /\ j # 0
           /\ \/ steps[j].act = "ensure" /\ EnsureStep(steps[j], j)
              \/ steps[j].act = "delete" /\ DeleteStep(steps[j], j)
    /\ UNCHANGED <<env, ssp, disturbances>>

\* The end of a reconciliation; cleanup ends with the SSP when nothing was left.
Finish ==
    /\ plan # Idle /\ NextStep(Plan(plan.mode, plan.spec).steps) = 0
    /\ plan' = Idle
    /\ ssp' = IF plan.mode = "cleanup" /\ ~plan.pending THEN Gone ELSE ssp
    /\ UNCHANGED <<env, exists, ca, queued, removed, disturbances>>

\* CollectResourceStatus and DeleteAll stop at the first error.
RequestFails ==
    /\ plan # Idle /\ NextStep(Plan(plan.mode, plan.spec).steps) # 0
    /\ Disturb
    /\ Fail
    /\ UNCHANGED <<env, ssp, exists, ca, removed>>

-----------------------------------------------------------------------------
(* The cluster *)

\* Owner references, followed once the SSP is gone
GarbageCollect ==
    LET owned == {r \in exists : r.mark = "owner"}
    IN  /\ ssp = Gone /\ owned # {}
        /\ exists' = exists \ owned
        /\ Notify(owned)
        /\ UNCHANGED <<env, ssp, ca, plan, removed, disturbances>>

Registrations == {TV!newValidatingWebhook} \cup Range(CP!OfKind("APIService"))

InjectCaBundle ==
    \E r \in (Registrations \cap exists) \ ca :
        /\ ca' = ca \cup {r}
        /\ Notify({r})
        /\ UNCHANGED <<env, ssp, exists, plan, removed, disturbances>>

UserDelete ==
    /\ ssp # Gone /\ Disturb
    /\ \E r \in exists :
         LET gone == With(r)
         IN  /\ exists' = exists \ gone
             /\ ca' = ca \ gone
             /\ removed' = removed \cup gone
             /\ Notify(gone)
    /\ UNCHANGED <<env, ssp, plan>>

ChangeSpec ==
    /\ ~ssp.deleting /\ Disturb
    /\ \E spec \in Specs : spec # ssp.spec /\ ssp' = [ssp EXCEPT !.spec = spec]
    /\ queued' = TRUE
    /\ UNCHANGED <<env, exists, ca, plan, removed>>

DeleteSsp ==
    /\ ~ssp.deleting
    /\ ssp' = [ssp EXCEPT !.deleting = TRUE]
    /\ queued' = TRUE
    /\ UNCHANGED <<env, exists, ca, plan, removed, disturbances>>

\* The operator stops; its successor finds the SSP in its first list.
Restart ==
    /\ Disturb
    /\ plan' = Idle /\ queued' = (ssp # Gone)
    /\ UNCHANGED <<env, ssp, exists, ca, removed>>

\* What an earlier version of the operator may have left
Legacy == Range(CP!deleteOld)

\* CreateControllers fails with a bundle that cannot be read.
Init ==
    /\ CP!ReadBundle
    /\ env \in Envs
    /\ ssp \in {[spec |-> s, deleting |-> FALSE, gone |-> FALSE] : s \in Specs}
    /\ exists \in IF env.openShift THEN {{}, Legacy} ELSE {{}}
    /\ ca = {} /\ plan = Idle /\ queued = TRUE /\ removed = {}
    /\ disturbances = 0

Next ==
    \/ Start \/ Step \/ Finish \/ RequestFails
    \/ GarbageCollect \/ InjectCaBundle
    \/ UserDelete \/ ChangeSpec \/ DeleteSsp \/ Restart

Spec == Init /\ [][Next]_vars

(* The worker always comes back to its queue; the garbage collector and the *)
(* service CA operator do their work.                                       *)
WorkerReady == plan # Idle \/ queued

\* Weak fairness of the worker: each of its steps changes plan, or empties the queue.
WorkerFairness == []<>~WorkerReady \/ []<><<TRUE>>_plan

Fairness ==
    /\ WorkerFairness
    /\ WF_vars(GarbageCollect)
    /\ WF_vars(InjectCaBundle)

FairSpec == Spec /\ Fairness

-----------------------------------------------------------------------------
(* Properties *)

AtRest == plan = Idle /\ ~queued /\ ~ssp.deleting

Policies(namespace) ==
    {p \in Range(IF namespace = "ssp" THEN TV!newNetworkPolicies \o CP!newNetworkPolicies
                 ELSE DS!newNetworkPolicies(env.openShift)) :
        \E r \in exists : Itself(r) = Ref("NetworkPolicy", p.name)}

Dns == IF env.openShift THEN NewOpenShiftGenerator ELSE NewKubernetesGenerator

\* A pod of these labels reaches the API server and the DNS server.
ReachesCluster(namespace, pod) ==
    /\ Allowed(Policies(namespace), pod, "egress", {}, ApiPort)
    /\ Allowed(Policies(namespace), pod, "egress", {Dns.dnsLabel}, Dns.dnsPort)

Serves(namespace, pod, ports, peer) ==
    \A port \in ports : Allowed(Policies(namespace), pod, "ingress", peer, port)

Cdi(name) == {<<LabelCDIKubevirtIo, name>>}

(* When the operator is at rest, whatever refers to another resource finds  *)
(* it: bindings their roles and accounts, services and budgets their        *)
(* deployments, registrations and monitors their services.  And the network *)
(* policies let the traffic through that the pods live on: each port the    *)
(* containers serve, the API server and DNS, and both ends of a clone.      *)
Wired ==
    AtRest =>
      /\ \A ref \in UNION {r.refs : r \in exists} :
            ref = metricsService \/ \E r \in exists : Itself(r) = ref
      /\ env.openShift /\ TV!newDeployment \in exists =>
            Serves("ssp", TV!PodLabels, TV!ContainerPorts, {}) /\ ReachesCluster("ssp", TV!PodLabels)
      /\ env.openShift /\ ssp.spec.tokenGeneration =>
            Serves("ssp", CP!PodLabels, CP!ContainerPorts, {}) /\ ReachesCluster("ssp", CP!PodLabels)
      /\ ReachesCluster(DS!GoldenImagesNamespace, Cdi("importer"))
      /\ ReachesCluster(DS!GoldenImagesNamespace, Cdi("cdi-clone-source"))
      /\ \A peer \in {"cdi-clone-source", "cdi-uploadproxy"} :
            Serves(DS!GoldenImagesNamespace, Cdi("cdi-upload-server"), {8443}, Cdi(peer))
      /\ Allowed(Policies(DS!GoldenImagesNamespace), Cdi("cdi-clone-source"), "egress",
                 Cdi("cdi-upload-server"), 8443)

(* The operator never leaves the API server calling a webhook, which refuses *)
(* every VM when nobody answers (failurePolicy Fail), without the service    *)
(* and the pods behind it: it registers the webhook last and unregisters it  *)
(* before the garbage collector takes the server away.                       *)
WebhookServed ==
    TV!newValidatingWebhook \in exists =>
        {TV!newServiceAccount, TV!newConfigMap, TV!newService, TV!newDeployment}
            \subseteq exists \cup removed

Settled ==
    IF ssp = Gone THEN exists = {}
    ELSE    /\ ~ssp.deleting
            /\ LET p == Plan("reconcile", ssp.spec)
               IN  p.wanted \subseteq exists /\ p.unwanted \cap exists = {}
            /\ Registrations \cap exists \subseteq ca

(* In the end a present SSP has every resource of its spec and none it gave *)
(* up, whoever deleted some on the way, and up to the resource that a bad   *)
(* TLS profile keeps from being built; and a deleted SSP leaves nothing     *)
(* behind.  The CA bundles stay injected.                                   *)
Settles == <>[]Settled
=============================================================================
