--------------------------- MODULE NetworkPolicies ---------------------------
(***************************************************************************)
(* The NetworkPolicies the operands create (internal/networkpolicies).  A   *)
(* policy selects pods by labels, isolates them in one direction and lists  *)
(* what is allowed nevertheless: a peer (a set of required labels, of any   *)
(* namespace) and the ports, or everything.  Labels are sets of             *)
(* <<key, value>>; protocols are abstracted (the API server and the pods    *)
(* use TCP, the DNS rule lists both).                                       *)
(***************************************************************************)
EXTENDS Naturals, OperandResource

\* Labels that select the pods of this system.
KubevirtIo == "kubevirt.io"
LabelCDIKubevirtIo == "cdi.kubevirt.io"
LabelVMConsoleProxyKubevirtIo == "vm-console-proxy.kubevirt.io"

ApiPort == 6443

\* The pod that answers DNS requests and the port it listens to, by platform.
NewKubernetesGenerator == [dnsLabel |-> <<"k8s-app", "kube-dns">>, dnsPort |-> 53]
NewOpenShiftGenerator ==
    [dnsLabel |-> <<"dns.operator.openshift.io/daemonset-dns", "default">>,
     dnsPort |-> 5353]

\* A rule allows the ports to or from the pods that carry the labels.
Rule(labels, ports) == [labels |-> labels, ports |-> ports]
Anyone == {}

(* selects: the policy applies to pods that carry one of these label sets.  *)
newNetworkPolicy(name, selects, direction, rules, everything) ==
    [name |-> name, selects |-> selects, direction |-> direction,
     rules |-> rules, everything |-> everything]

NewEgressToKubeAPIAndDNS(g, name, labelKey, labelValues) ==
    newNetworkPolicy(name, {{<<labelKey, v>>} : v \in labelValues}, "egress",
                     {Rule(Anyone, {ApiPort}), Rule({g.dnsLabel}, {g.dnsPort})}, FALSE)

\* Mutant: the port of the metrics is forgotten.
IngressToWebhookOnly ==
    newNetworkPolicy("ingress-to-validator",
                     {{<<KubevirtIo, "virt-template-validator">>}}, "ingress",
                     {Rule(Anyone, {9443})}, FALSE)

NewIngressToVirtTemplateValidatorWebhookAndMetrics ==
    newNetworkPolicy("ingress-to-validator",
                     {{<<KubevirtIo, "virt-template-validator">>}}, "ingress",
                     {Rule(Anyone, {8443, 9443})}, FALSE)

NewIngressToVMConsoleProxyAPI ==
    newNetworkPolicy("ingress-to-console-proxy",
                     {{<<LabelVMConsoleProxyKubevirtIo, "vm-console-proxy">>}}, "ingress",
                     {Rule(Anyone, {8768})}, FALSE)

NewIngressToImporterMetrics ==
    newNetworkPolicy("ingress-to-importer-metrics",
                     {{<<LabelCDIKubevirtIo, "importer">>,
                       <<"prometheus.cdi.kubevirt.io", "true">>}}, "ingress",
                     {Rule({<<LabelCDIKubevirtIo, "cdi-deployment">>}, {8443})}, FALSE)

NewIngressFromCDIUploadServerToCDICloneSource ==
    newNetworkPolicy("ingress-from-clone-source",
                     {{<<LabelCDIKubevirtIo, "cdi-upload-server">>}}, "ingress",
                     {Rule({<<LabelCDIKubevirtIo, "cdi-clone-source">>}, {8443})}, FALSE)

NewIngressFromCDIUploadProxyToCDIUploadServer ==
    newNetworkPolicy("ingress-from-upload-proxy",
                     {{<<LabelCDIKubevirtIo, "cdi-upload-server">>}}, "ingress",
                     {Rule({<<LabelCDIKubevirtIo, "cdi-uploadproxy">>}, {8443})}, FALSE)

NewEgressFromCDICloneSourceToCDIUploadServer ==
    newNetworkPolicy("egress-from-clone-source",
                     {{<<LabelCDIKubevirtIo, "cdi-clone-source">>}}, "egress",
                     {Rule({<<LabelCDIKubevirtIo, "cdi-upload-server">>}, {8443})}, FALSE)

NewEgressFromImporterToDataSource ==
    newNetworkPolicy("egress-from-importer",
                     {{<<LabelCDIKubevirtIo, "importer">>}}, "egress", {}, TRUE)

-----------------------------------------------------------------------------
(* What the network plugin makes of the policies of one namespace: the pod  *)
(* may talk to the peer's port because one of them says so, whether or not  *)
(* the namespace denies everything else by default.                         *)
Allowed(policies, pod, direction, peer, port) ==
    \E p \in policies :
        /\ p.direction = direction
        /\ \E s \in p.selects : s \subseteq pod
        /\ \/ p.everything
           \/ \E r \in p.rules : r.labels \subseteq peer /\ port \in r.ports
=============================================================================
