--------------------------- MODULE OperandResource ---------------------------
(***************************************************************************)
(* What the reconciliation of an operand needs to know of a resource: its  *)
(* kind and name, where it lives, how it is marked as belonging to the SSP  *)
(* and which other resources it names.  The constructors of the operands'   *)
(* resources (TemplateValidatorOperand, MetricsOperand, ...) build these    *)
(* records; everything else of the Kubernetes objects is abstracted.        *)
(***************************************************************************)

\* A reference from one resource to another, by kind and name.
Ref(kind, name) == <<kind, name>>

(* NamespacedResource: lives in the namespace of the SSP and carries a      *)
(* controller owner reference, so the garbage collector removes it after    *)
(* the SSP and EnqueueRequestForOwner notices its events.                   *)
NamespacedResource(kind, name, refs) ==
    [kind |-> kind, name |-> name, ns |-> "ssp", mark |-> "owner", refs |-> refs]

(* ClusterResource: cluster-scoped, or in a namespace other than the SSP's. *)
(* It carries owner annotations only: EnqueueRequestForAnnotation notices   *)
(* its events, and only the operand's Cleanup removes it.                   *)
ClusterResource(kind, name, ns, refs) ==
    [kind |-> kind, name |-> name, ns |-> ns, mark |-> "annotation", refs |-> refs]

\* The reference by which others name the resource.
Itself(r) == Ref(r.kind, r.name)
=============================================================================
