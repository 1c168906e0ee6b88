--------------------------- MODULE MetricsOperand ---------------------------
(***************************************************************************)
(* The metrics operand: monitors of the operator's and the validator's      *)
(* metrics services, the alerting rules, and the role Prometheus needs.     *)
(***************************************************************************)
EXTENDS OperandResource

SspOperatorMetricsServiceName == "ssp-operator-metrics"
TemplateValidatorMetricsServiceName == "template-validator-metrics"

newMonitoringClusterRole == ClusterResource("ClusterRole", "prometheus-k8s-ssp", "", {})
newMonitoringClusterRoleBinding ==
    ClusterResource("ClusterRoleBinding", "prometheus-k8s-ssp", "",
                    {Ref("ClusterRole", "prometheus-k8s-ssp")})

\* A monitor selects the metrics service by the label that holds its name.
newServiceMonitor(name, refs) == NamespacedResource("ServiceMonitor", name, refs)

(* The validator's monitor expects the certificate of the webhook service:  *)
(* both services lead to the same pods.                                     *)
newValidatorServiceMonitor ==
    newServiceMonitor(TemplateValidatorMetricsServiceName,
                      {Ref("Service", TemplateValidatorMetricsServiceName),
                       Ref("Service", "virt-template-validator")})
newSspServiceMonitor ==
    newServiceMonitor(SspOperatorMetricsServiceName,
                      {Ref("Service", SspOperatorMetricsServiceName)})
BuildPrometheusRule ==
    NamespacedResource("PrometheusRule", "prometheus-k8s-rules-cnv", {})

Reconcile == <<newValidatorServiceMonitor, newSspServiceMonitor, BuildPrometheusRule,
               newMonitoringClusterRole, newMonitoringClusterRoleBinding>>

Cleanup == <<newMonitoringClusterRole, newMonitoringClusterRoleBinding>>

WatchTypes == {"PrometheusRule", "ServiceMonitor"}
WatchClusterTypes == {"ClusterRole", "ClusterRoleBinding"}
=============================================================================
