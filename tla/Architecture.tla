------------------------------ MODULE Architecture ------------------------------
(***************************************************************************)
(* The CPU architectures of the cluster as the SSP names them              *)
(* (internal/architecture/architecture.go), shared by the webhook and the   *)
(* operands.  An architecture is a member of Archs; whatever else the SSP   *)
(* names is an unknown string.                                              *)
(***************************************************************************)
EXTENDS Naturals, Sequences, Functions

CONSTANTS
    Archs,        \* the architectures that ToArch knows
    DefaultArch,  \* runtime.GOARCH, also the architecture of unlabelled templates
    NoArch        \* "": no architecture, no suffix

ASSUME ArchsAssumption == DefaultArch \in Archs /\ NoArch \notin Archs

\* result[n] is what the loop has appended after n values.
concatWithoutRepetitions(s, t) ==
    LET data == s \o t
        result[n \in 0..Len(data)] ==
            IF n = 0 THEN <<>>
            ELSE IF data[n] \in Range(result[n - 1]) THEN result[n - 1]
            ELSE Append(result[n - 1], data[n])
    IN  result[Len(data)]

\* spec.cluster is [nil, cp, wl]: absent, or the architectures of the control
\* plane and those of the workload nodes.  The empty sequence is an error.
GetSSPArchs(spec) ==
    LET named == concatWithoutRepetitions(spec.cluster.cp, spec.cluster.wl)
        used == IF spec.multi \/ named = <<>> THEN named ELSE <<named[1]>>
    IN  IF spec.cluster.nil
        THEN IF spec.multi THEN <<>> ELSE <<DefaultArch>>
        ELSE IF Range(used) \subseteq Archs THEN used ELSE <<>>

\* Mutant: only the architectures of the control plane are validated.
validateClusterControlPlane(spec) ==
    /\ spec.multi => ~spec.cluster.nil
    /\ ~spec.cluster.nil =>
          /\ spec.cluster.wl # <<>> \/ spec.cluster.cp # <<>>
          /\ Range(spec.cluster.cp) \subseteq Archs

\* The part of the SSP's validation that is about architectures
\* (webhooks/ssp_webhook.go).
validateCluster(spec) ==
    /\ spec.multi => ~spec.cluster.nil
    /\ ~spec.cluster.nil =>
          /\ spec.cluster.wl # <<>> \/ spec.cluster.cp # <<>>
          /\ Range(spec.cluster.wl) \cup Range(spec.cluster.cp) \subseteq Archs

\* The first architecture of the cluster that is in S.
getDefaultDataSourceArch(clusterArchs, S) ==
    LET Found == {i \in DOMAIN clusterArchs : clusterArchs[i] \in S}
    IN  IF Found = {} THEN NoArch
        ELSE clusterArchs[CHOOSE i \in Found : \A j \in Found : i <= j]
=============================================================================
