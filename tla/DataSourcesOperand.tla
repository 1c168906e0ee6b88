------------------------- MODULE DataSourcesOperand -------------------------
(***************************************************************************)
(* The resources of the data-sources operand.  DataSources models how it    *)
(* chooses its DataSources and DataImportCrons; here one of each stands for *)
(* all of them.                                                             *)
(***************************************************************************)
EXTENDS NetworkPolicies, Sequences

GoldenImagesNamespace == "kubevirt-os-images"
ViewRoleName == "os-images.kubevirt.io:view"
EditClusterRoleName == "os-images.kubevirt.io:edit"

InGoldenImages(kind, name, refs) ==
    ClusterResource(kind, name, GoldenImagesNamespace, refs)

newGoldenImagesNS == ClusterResource("Namespace", GoldenImagesNamespace, "", {})
newViewRole == InGoldenImages("Role", ViewRoleName, {})
newViewRoleBinding == InGoldenImages("RoleBinding", ViewRoleName, {Ref("Role", ViewRoleName)})
newEditRole == ClusterResource("ClusterRole", EditClusterRoleName, "", {})
aDataSource == InGoldenImages("DataSource", "datasource", {})
aDataImportCron == InGoldenImages("DataImportCron", "cron", {Ref("DataSource", "datasource")})

newNetworkPolicies(runningOnOpenShift) ==
    LET g == IF runningOnOpenShift THEN NewOpenShiftGenerator ELSE NewKubernetesGenerator
    IN  << NewEgressToKubeAPIAndDNS(g, "egress-from-importer-and-clone-source",
                                    LabelCDIKubevirtIo, {"importer", "cdi-clone-source"}),
           NewIngressToImporterMetrics,
           NewIngressFromCDIUploadServerToCDICloneSource,
           NewIngressFromCDIUploadProxyToCDIUploadServer,
           NewEgressFromCDICloneSourceToCDIUploadServer,
           NewEgressFromImporterToDataSource >>
reconcileNetworkPolicies(runningOnOpenShift) ==
    LET policies == newNetworkPolicies(runningOnOpenShift)
    IN  [i \in DOMAIN policies |-> InGoldenImages("NetworkPolicy", policies[i].name, {})]

Reconcile(runningOnOpenShift) ==
    <<newGoldenImagesNS, newViewRole, newViewRoleBinding, newEditRole, aDataSource>>
    \o reconcileNetworkPolicies(runningOnOpenShift) \o <<aDataImportCron>>

(* The crons go first: the rest is deleted by a pass that finds none.       *)
CleanupFirst == <<aDataImportCron>>
CleanupRest(runningOnOpenShift) ==
    <<aDataSource, newGoldenImagesNS, newViewRole, newViewRoleBinding, newEditRole>>
    \o reconcileNetworkPolicies(runningOnOpenShift)

WatchTypes == {}
WatchClusterTypes == {"ClusterRole", "Role", "RoleBinding", "Namespace", "DataSource",
                      "DataImportCron", "NetworkPolicy"}
=============================================================================
