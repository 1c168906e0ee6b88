------------------------------- MODULE Controllers -------------------------------
(***************************************************************************)
(* The controllers that the manager runs beside the SSP controller           *)
(* (controllers/setup.go): the webhook of the SSP with the controller of its *)
(* configuration (SspAdmission), the metrics Service (ServicesController)     *)
(* and the VM metric (VmController).                                         *)
(*                                                                          *)
(* They share the manager and no state, so that every interleaving of them is *)
(* a merge of behaviours of each.  A behaviour of this module is one of one   *)
(* of them, active, while the others rest: what holds of it holds of any      *)
(* merge, because every property below is about one of them.                 *)
(***************************************************************************)
EXTENDS SspAdmission

CONSTANTS
    MaxServiceEdits, MaxServiceFaults,
    Claims, Disks, VolumeLists, MaxVmEdits, MaxVmFaults

ASSUME VolumesAssumption ==
    \A list \in VolumeLists :
        /\ list \in Seq(Range(list))
        /\ \A v \in Range(list) : v.kind # "other" => v.claim \in Claims

VARIABLES
    active,
    service, serviceSeen, servicePending, serviceQueued, phase, missed, clock, serviceEdits, serviceFaults,
    vm, vmSeen, vmPending, bound, vmQueued, metric, vmEdits, vmFaults

SC == INSTANCE ServicesController WITH
    MaxEdits <- MaxServiceEdits, MaxFaults <- MaxServiceFaults,
    seen <- serviceSeen, pending <- servicePending, queued <- serviceQueued,
    edits <- serviceEdits, faults <- serviceFaults

VC == INSTANCE VmController WITH
    MaxEdits <- MaxVmEdits, MaxFaults <- MaxVmFaults,
    pending <- vmPending, queued <- vmQueued, edits <- vmEdits, faults <- vmFaults

serviceVars == <<service, serviceSeen, servicePending, serviceQueued, phase, missed, clock,
                 serviceEdits, serviceFaults>>
vmVars == <<vm, vmSeen, vmPending, bound, vmQueued, metric, vmEdits, vmFaults>>
allVars == <<active, vars, serviceVars, vmVars>>

StartControllers ==
    /\ active \in {"admission", "service", "vm"}
    /\ Init /\ SC!Init /\ VC!Init

AdmissionNext == active = "admission" /\ Next /\ UNCHANGED <<active, serviceVars, vmVars>>

ServiceNext == active = "service" /\ SC!Next /\ UNCHANGED <<active, vars, vmVars>>

VmNext == active = "vm" /\ VC!Next /\ UNCHANGED <<active, vars, serviceVars>>

ControllersNext == AdmissionNext \/ ServiceNext \/ VmNext

\* Workers, informers and the manager's runnables keep going, and a failed
\* operator is restarted.
ControllersFairness ==
    /\ WF_vars(active = "admission" /\ DeliverConfig)
    /\ WF_vars(active = "admission" /\ ReconcileConfig)
    /\ WF_vars(active = "admission" /\ UpdateList)
    /\ \A ns \in Namespaces : WF_vars(active = "admission" /\ RemoveFinalizer(ns))
    /\ WF_serviceVars(active = "service" /\ SC!getOperatorDeployment)
    /\ WF_serviceVars(active = "service" /\ SC!createMetricsService)
    /\ WF_serviceVars(active = "service" /\ SC!setupController)
    /\ WF_serviceVars(active = "service" /\ phase = "failed" /\ SC!Restart)
    /\ WF_serviceVars(active = "service" /\ SC!Reconcile)
    /\ WF_serviceVars(active = "service" /\ SC!Deliver)
    /\ WF_serviceVars(active = "service" /\ SC!Vanish)

ControllersSpec == StartControllers /\ [][ControllersNext]_allVars /\ ControllersFairness

-----------------------------------------------------------------------------
(* Properties *)

\* The operator's metrics stay reachable: once others leave the metrics Service
\* alone, Reconcile of the services controller has restored its spec, labels and
\* owner for good.  The one exception is a Service that vanishes after
\* createMetricsService and before the controller's informer lists: no event
\* tells of it until a restart.
ServiceRestored == <>[](active = "service" => SC!ServiceUp)

\* When the VM controller has caught up, the metric of a VM is that of one of its
\* volumes: setVmVolumesMetrics never leaves it over from volumes, claims or VMs
\* of the same name that are gone, and it is exact for a VM whose volumes agree.
MetricCurrent == VC!MetricCurrent

\* The webhooks of the SSP end up without namespace selector in a configuration
\* of OLM, whatever OLM and the webhook configuration controller write in which
\* order, and webhooks of other groups keep theirs.
ScopeWidened == <>[](active = "admission" => ScopeWide)

\* The metric tells what its help text says (VmController).
MetricExact == VC!MetricExact
=============================================================================
