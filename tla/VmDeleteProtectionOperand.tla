---------------------- MODULE VmDeleteProtectionOperand ----------------------
(***************************************************************************)
(* The vm-delete-protection operand: an admission policy and its binding.   *)
(***************************************************************************)
EXTENDS OperandResource

virtualMachineDeleteProtectionPolicyName == "kubevirt-vm-deletion-protection"

newValidatingAdmissionPolicy ==
    ClusterResource("ValidatingAdmissionPolicy",
                    virtualMachineDeleteProtectionPolicyName, "", {})
newValidatingAdmissionPolicyBinding ==
    ClusterResource("ValidatingAdmissionPolicyBinding",
                    virtualMachineDeleteProtectionPolicyName, "",
                    {Ref("ValidatingAdmissionPolicy",
                         virtualMachineDeleteProtectionPolicyName)})

Reconcile == <<newValidatingAdmissionPolicy, newValidatingAdmissionPolicyBinding>>
Cleanup == <<newValidatingAdmissionPolicy, newValidatingAdmissionPolicyBinding>>

WatchTypes == {}
WatchClusterTypes == {"ValidatingAdmissionPolicy", "ValidatingAdmissionPolicyBinding"}
=============================================================================
