--------------------------- MODULE MCCommonTemplates ---------------------------
(* Instances of CommonTemplates for TLC. *)
EXTENDS CommonTemplates, TLC

CONSTANTS dropped, kept, other, ns1, ns2, amd, arm

MCNames == {dropped, kept, other}
MCNamespaces == {ns1, ns2}
MCArchs == {amd, arm}
MCArchOf == dropped :> amd @@ kept :> amd @@ other :> arm

\* The second version of the operator no longer has the template dropped.
MCBundle == <<{dropped, kept}, {kept, other}>>

Cluster(cp, wl) == [nil |-> FALSE, cp |-> cp, wl |-> wl]

MultiArch == [multi |-> TRUE, cluster |-> Cluster(<<amd>>, <<arm>>), ns |-> ns1]
OnlyArm == [multi |-> FALSE, cluster |-> Cluster(<<arm>>, <<amd>>), ns |-> ns1]
OtherNamespace == [multi |-> FALSE, cluster |-> [nil |-> TRUE, cp |-> <<>>, wl |-> <<>>], ns |-> ns2]

MCSpecs == {MultiArch, OnlyArm, OtherNamespace}

\* A template of an operator that did not know the SSP, with validation rules.
MCLegacy == <<ns1, dropped>> :> [version |-> 0, base |-> TRUE, arch |-> amd, os |-> TRUE,
                                 deprecated |-> FALSE, rules |-> TRUE, content |-> "plain", mine |-> FALSE]
=============================================================================
