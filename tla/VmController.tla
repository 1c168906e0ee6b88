------------------------------ MODULE VmController ------------------------------
(***************************************************************************)
(* The metric that tells of VMs with RBD block volumes without rxbounce      *)
(* (controllers/vm_controller.go, metrics/ssp-operator/rbd_metrics.go).      *)
(*                                                                          *)
(* One VM: its requests and its metric are separate from those of others.   *)
(* A volume is [claim, kind]: the name of a PVC, given by a DataVolume or     *)
(* a PersistentVolumeClaim, or a volume of another kind.  KubeVirt lets a VM *)
(* leave the status Provisioning when its PVCs are bound, and a PVC in use    *)
(* stays.  PVCs and PVs are not watched; reads of them are taken as current.  *)
(***************************************************************************)
EXTENDS Naturals, Sequences, FiniteSetsExt

CONSTANTS
    Claims,      \* the names of PVCs
    Disks,       \* pairs of a PVC and its PV: [block, rbd, mounter, mapOptions]
    VolumeLists, \* the volumes a VM may have
    MaxEdits,    \* bound: changes of the VM and of the PVCs
    MaxFaults    \* bound: failed requests

VARIABLES
    vm,      \* the VM: {} or {[provisioning, volumes]}
    vmSeen,  \* the informer's copy
    pending, \* the informer has yet to see a change of the VM
    bound,   \* claim -> {} or {its disk}
    queued,
    metric,  \* kubevirt_ssp_vm_rbd_block_volume_without_rxbounce of the VM
    edits,
    faults

vars == <<vm, vmSeen, pending, bound, queued, metric, edits, faults>>

-----------------------------------------------------------------------------
(* rbd_metrics.go *)

usesRbdCsiDriver(disk) == disk.rbd

\* The value that SetVmWithVolume sets for a PVC and its PV.  mounter and
\* mapOptions may be "unset"; mapOptions is "rxbounce" when it contains it.
VmWithVolume(disk) ==
    IF /\ usesRbdCsiDriver(disk) /\ disk.block
       /\ disk.mounter \in {"unset", "rbd"}
       /\ disk.mapOptions # "rxbounce"
    THEN 1 ELSE 0

-----------------------------------------------------------------------------
(* vm_controller.go *)

\* The positions of the volumes whose PVC and PV are found.
Found(volumes) ==
    {i \in DOMAIN volumes : volumes[i].kind # "other" /\ bound[volumes[i].claim] # {}}

Value(v) == VmWithVolume(CHOOSE d \in bound[v.claim] : TRUE)

\* Mutant: without a volume the metric is not reset.
setVmVolumesMetricsKept(volumes) ==
    metric' = IF Found(volumes) = {} THEN metric ELSE Value(volumes[Max(Found(volumes))])

\* Each volume that is found sets the metric; without one it is reset.
setVmVolumesMetrics(volumes) ==
    metric' = IF Found(volumes) = {} THEN 0 ELSE Value(volumes[Max(Found(volumes))])

Reconcile ==
    /\ queued /\ queued' = FALSE
    /\ \/ vmSeen = {} /\ metric' = 0
       \/ \E v \in vmSeen : v.provisioning /\ UNCHANGED metric
       \/ \E v \in vmSeen : ~v.provisioning /\ setVmVolumesMetrics(v.volumes)
    /\ UNCHANGED <<vm, vmSeen, pending, bound, edits, faults>>

\* A request fails: the VM's, or that of a PVC or PV after some volumes have set
\* the metric.  The VM is queued again.
ReconcileFails ==
    /\ queued /\ faults > 0 /\ faults' = faults - 1
    /\ \/ UNCHANGED metric
       \/ \E v \in vmSeen :
             /\ ~v.provisioning
             /\ \E i \in Found(v.volumes) : metric' = Value(v.volumes[i])
    /\ UNCHANGED <<vm, vmSeen, pending, bound, queued, edits>>

DeliverVm ==
    /\ pending /\ pending' = FALSE
    /\ vmSeen' = vm /\ queued' = TRUE
    /\ UNCHANGED <<vm, bound, metric, edits, faults>>

-----------------------------------------------------------------------------
(* Users, KubeVirt and storage *)

ClaimsOf(volumes) == {v.claim : v \in {w \in Range(volumes) : w.kind # "other"}}

Edit == edits > 0 /\ edits' = edits - 1

\* A VM is created, gets other volumes, or is deleted.
EditVm ==
    /\ Edit
    /\ \/ \E l \in VolumeLists : vm' = {[provisioning |-> TRUE, volumes |-> l]}
       \/ vm # {} /\ vm' = {}
    /\ vm' # vm /\ pending' = TRUE
    /\ UNCHANGED <<vmSeen, bound, queued, metric, faults>>

BindClaim ==
    /\ \E c \in Claims, d \in Disks :
          bound[c] = {} /\ (\E v \in vm : c \in ClaimsOf(v.volumes))
          /\ bound' = [bound EXCEPT ![c] = {d}]
    /\ UNCHANGED <<vm, vmSeen, pending, queued, metric, edits, faults>>

Provisioned ==
    /\ \E v \in vm :
          /\ v.provisioning /\ \A c \in ClaimsOf(v.volumes) : bound[c] # {}
          /\ vm' = {[v EXCEPT !.provisioning = FALSE]} /\ pending' = TRUE
    /\ UNCHANGED <<vmSeen, bound, queued, metric, edits, faults>>

DeleteClaim ==
    /\ Edit
    /\ \E c \in Claims :
          /\ bound[c] # {} /\ \A v \in vm : c \notin ClaimsOf(v.volumes)
          /\ bound' = [bound EXCEPT ![c] = {}]
    /\ UNCHANGED <<vm, vmSeen, pending, queued, metric, faults>>

Init ==
    /\ vm = {} /\ vmSeen = {} /\ pending = FALSE /\ queued = FALSE /\ metric = 0
    /\ bound = [c \in Claims |-> {}]
    /\ edits = MaxEdits /\ faults = MaxFaults

Next ==
    \/ Reconcile \/ ReconcileFails \/ DeliverVm
    \/ EditVm \/ BindClaim \/ Provisioned \/ DeleteClaim

-----------------------------------------------------------------------------
(* Properties *)

Settled == ~queued /\ ~pending

Affected(v) == {VmWithVolume(CHOOSE d \in bound[c] : TRUE) : c \in ClaimsOf(v.volumes)}

\* When the controller has caught up, the metric of a VM is that of one of its
\* volumes: it is never left over from volumes, claims or VMs of the same name
\* that are gone, and it is exact for a VM whose volumes agree.
MetricCurrent ==
    /\ Settled /\ vm = {} => metric = 0
    /\ \A v \in vm :
           Settled /\ ~v.provisioning => metric \in Affected(v) \/ (Affected(v) = {} /\ metric = 0)

\* The metric tells what its help text says: "VM with RBD mounted Block volume
\* (without rxbounce option set)".
MetricExact ==
    \A v \in vm : Settled /\ ~v.provisioning => (metric = 1 <=> 1 \in Affected(v))
=============================================================================
