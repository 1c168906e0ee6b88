------------------------ MODULE ConsoleProxyOperand ------------------------
(***************************************************************************)
(* The vm-console-proxy operand: the bundle it is built from, the resources *)
(* it reconciles while the token generation service is enabled, and those   *)
(* it cleans up when the service is disabled or the SSP is deleted.         *)
(***************************************************************************)
EXTENDS Sequences, NetworkPolicies

operandName == "vm-console-proxy"

-----------------------------------------------------------------------------
(* The bundle *)

SingleKinds == {"ServiceAccount", "ClusterRoleBinding", "RoleBinding", "Service",
                "Deployment", "ConfigMap", "APIService"}

\* The objects of the file, in its order; the reader sorts them by their kind.
BundleFile ==
    << NamespacedResource("ServiceAccount", operandName, {}),
       ClusterResource("ClusterRole", "token.kubevirt.io:generate", "", {}),
       ClusterResource("ClusterRole", operandName, "", {}),
       ClusterResource("RoleBinding", operandName, "kube-system",
                       {Ref("ServiceAccount", operandName)}),
       ClusterResource("ClusterRoleBinding", operandName, "",
                       {Ref("ClusterRole", operandName), Ref("ServiceAccount", operandName)}),
       NamespacedResource("ConfigMap", operandName, {}),
       NamespacedResource("Service", operandName, {Ref("Deployment", operandName)}),
       NamespacedResource("Deployment", operandName,
                          {Ref("ServiceAccount", operandName), Ref("ConfigMap", operandName)}),
       ClusterResource("APIService", "v1.token.kubevirt.io", "",
                       {Ref("Service", operandName)}) >>

OfKind(kind) ==
    LET kept[n \in 0..Len(BundleFile)] ==
            IF n = 0 THEN <<>>
            ELSE IF BundleFile[n].kind = kind THEN Append(kept[n - 1], BundleFile[n])
            ELSE kept[n - 1]
    IN  kept[Len(BundleFile)]

\* loadBundleFromBytes accepts these kinds, and only cluster roles repeat.
loadBundleFromBytes ==
    /\ \A i \in DOMAIN BundleFile : BundleFile[i].kind \in SingleKinds \cup {"ClusterRole"}
    /\ \A kind \in SingleKinds : Len(OfKind(kind)) <= 1

\* validateBundle: no object may be missing.
validateBundle == \A kind \in SingleKinds \cup {"ClusterRole"} : OfKind(kind) # <<>>

ReadBundle == loadBundleFromBytes /\ validateBundle

-----------------------------------------------------------------------------
(* The operand *)

\* Labels of the pods and the port they serve, from the bundle's Deployment.
PodLabels == {<<LabelVMConsoleProxyKubevirtIo, operandName>>}
ContainerPorts == {8768}

newNetworkPolicies ==
    << NewEgressToKubeAPIAndDNS(NewOpenShiftGenerator, "egress-from-console-proxy",
                                LabelVMConsoleProxyKubevirtIo, {operandName}),
       NewIngressToVMConsoleProxyAPI >>
reconcileNetworkPolicies ==
    [i \in DOMAIN newNetworkPolicies |->
        NamespacedResource("NetworkPolicy", newNetworkPolicies[i].name, {})]

\* What earlier versions of the operator created.
routes == <<NamespacedResource("Route", operandName, {Ref("Service", operandName)})>>
oldApiService == ClusterResource("APIService", "v1alpha1.token.kubevirt.io", "",
                                 {Ref("Service", operandName)})

\* createTlsConfigFile gives up on a profile without a version it knows.
createTlsConfigFile(tls) == tls \notin {"noVersion", "badVersion"}

\* Reconciled when enabled, in this order...
Reconcile ==
    OfKind("ServiceAccount") \o OfKind("ClusterRole") \o OfKind("ClusterRoleBinding")
    \o OfKind("RoleBinding") \o OfKind("ConfigMap") \o OfKind("Service")
    \o OfKind("Deployment") \o OfKind("APIService") \o reconcileNetworkPolicies

\* ...and then deleted, when an earlier version left them.
deleteOld == <<oldApiService>> \o routes

(* Deleted when the service is disabled and with the SSP.  The network      *)
(* policies are not among them.                                             *)
Cleanup ==
    routes \o <<oldApiService>> \o OfKind("ServiceAccount") \o OfKind("ConfigMap")
    \o OfKind("Service") \o OfKind("Deployment") \o OfKind("ClusterRole")
    \o OfKind("ClusterRoleBinding") \o OfKind("RoleBinding") \o OfKind("APIService")

WatchTypes == {"ServiceAccount", "Service", "Deployment", "ConfigMap", "Route",
               "NetworkPolicy"}
WatchClusterTypes == {"ClusterRole", "ClusterRoleBinding", "APIService"}
=============================================================================
