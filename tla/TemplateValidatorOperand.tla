---------------------- MODULE TemplateValidatorOperand ----------------------
(***************************************************************************)
(* The template-validator operand: the resources it constructs, the order   *)
(* in which it reconciles them, those it cleans up and the kinds it watches.*)
(***************************************************************************)
EXTENDS Sequences, NetworkPolicies

VirtTemplateValidator == "virt-template-validator"
TemplateValidatorMetricsServiceName == "template-validator-metrics"
MetricsPort == 8443
WebhookPort == 9443
CommonLabels == {<<KubevirtIo, VirtTemplateValidator>>}

newClusterRole == ClusterResource("ClusterRole", "template:view", "", {})
newServiceAccount == NamespacedResource("ServiceAccount", "template-validator", {})
newClusterRoleBinding ==
    ClusterResource("ClusterRoleBinding", "template-validator", "",
                    {Ref("ClusterRole", "template:view"),
                     Ref("ServiceAccount", "template-validator")})

(* The pods: their labels, the ports they serve, and the resources without  *)
(* which the kubelet does not start them.                                   *)
PodLabels == CommonLabels \cup {<<"prometheus.ssp.kubevirt.io", "true">>,
                                <<"name", VirtTemplateValidator>>}
ContainerPorts == {WebhookPort, MetricsPort}
newDeployment ==
    NamespacedResource("Deployment", VirtTemplateValidator,
                       {Ref("ServiceAccount", "template-validator"),
                        Ref("ConfigMap", VirtTemplateValidator)})

\* The services select the Deployment's pods by CommonLabels.
newService ==
    NamespacedResource("Service", VirtTemplateValidator,
                       {Ref("Deployment", VirtTemplateValidator)})
newPrometheusService ==
    NamespacedResource("Service", TemplateValidatorMetricsServiceName,
                       {Ref("Deployment", VirtTemplateValidator)})
newConfigMap == NamespacedResource("ConfigMap", VirtTemplateValidator, {})

\* Both webhooks (of VMs and of templates) call the same service.
newValidatingWebhook ==
    ClusterResource("ValidatingWebhookConfiguration", VirtTemplateValidator, "",
                    {Ref("Service", VirtTemplateValidator)})
newPodDisruptionBudget ==
    NamespacedResource("PodDisruptionBudget", VirtTemplateValidator,
                       {Ref("Deployment", VirtTemplateValidator)})

newNetworkPolicies ==
    << NewEgressToKubeAPIAndDNS(NewOpenShiftGenerator, "egress-from-validator",
                                KubevirtIo, {VirtTemplateValidator}),
       NewIngressToVirtTemplateValidatorWebhookAndMetrics >>
reconcileNetworkPolicies ==
    [i \in DOMAIN newNetworkPolicies |->
        NamespacedResource("NetworkPolicy", newNetworkPolicies[i].name, {})]

-----------------------------------------------------------------------------
\* Mutant: the webhook is registered before its server exists.
ReconcileWebhookFirst(singleReplica) ==
    <<newClusterRole, newServiceAccount, newClusterRoleBinding, newValidatingWebhook,
      newService, newPrometheusService, newConfigMap, newDeployment>>
    \o (IF singleReplica THEN <<>> ELSE <<newPodDisruptionBudget>>)
    \o reconcileNetworkPolicies

Reconcile(singleReplica) ==
    <<newClusterRole, newServiceAccount, newClusterRoleBinding, newService,
      newPrometheusService, newConfigMap, newDeployment, newValidatingWebhook>>
    \o (IF singleReplica THEN <<>> ELSE <<newPodDisruptionBudget>>)
    \o reconcileNetworkPolicies

Cleanup == <<newClusterRole, newClusterRoleBinding, newValidatingWebhook>>

WatchTypes == {"ServiceAccount", "Service", "Deployment", "ConfigMap",
               "NetworkPolicy", "PodDisruptionBudget"}
WatchClusterTypes == {"ClusterRole", "ClusterRoleBinding",
                      "ValidatingWebhookConfiguration"}
=============================================================================
