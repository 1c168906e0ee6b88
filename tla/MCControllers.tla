------------------------------ MODULE MCControllers ------------------------------
(* Instances of Controllers for TLC. *)
EXTENDS Controllers

CONSTANTS n1, n2, amd, arm, c1, c2

MCNamespaces == {n1, n2}
MCOlmNamespaces == {n1}
MCArchs == {amd, arm}

Cluster(cp, wl) == [nil |-> FALSE, cp |-> cp, wl |-> wl]
Ssp(multi, cluster, placement) ==
    [multi |-> multi, cluster |-> cluster, named |-> TRUE, placement |-> placement]
Plain == Ssp(FALSE, [nil |-> TRUE, cp |-> <<>>, wl |-> <<>>], "none")

\* Several architectures with a placement (one, in v1beta2), an unknown one among
\* several, an unknown one beside the one that is used with a placement that the
\* API server refuses, no architecture at all, a cron template without name.
MCSpecs ==
    {Ssp(TRUE, Cluster(<<amd>>, <<arm, amd>>), "good"),
     Ssp(TRUE, Cluster(<<amd>>, <<"unknown">>), "none"),
     Ssp(FALSE, Cluster(<<amd>>, <<"unknown">>), "bad"),
     Ssp(FALSE, Cluster(<<>>, <<>>), "none"),
     [Plain EXCEPT !.named = FALSE]}

Disk(mounter, mapOptions) ==
    [block |-> TRUE, rbd |-> TRUE, mounter |-> mounter, mapOptions |-> mapOptions]

MCDisks == {Disk("unset", "unset"), Disk("rbd", "rxbounce"), Disk("nbd", "other"),
            [Disk("rbd", "other") EXCEPT !.block = FALSE]}

Volume(claim) == [claim |-> claim, kind |-> "claim"]
Other == [claim |-> "none", kind |-> "other"]

MCClaims == {c1, c2}
MCVolumeLists == {<<Other>>, <<Volume(c1)>>, <<Volume(c1), Volume(c2), Other>>}
=============================================================================
