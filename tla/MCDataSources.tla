---------------------------- MODULE MCDataSources ----------------------------
(* Instances of DataSources for TLC. *)
EXTENDS DataSources, TLC

CONSTANTS b, c, t, amd, arm

MCNames == {b, c}
MCCronNames == {t}
MCArchs == {amd, arm}
MCSources == b :> {amd}
MCUserPvcs == {<<b, NoArch>>}

Template(name, source, archs) ==
    [name |-> name, ns |-> "golden", ds |-> source, archs |-> archs]
Single == [nil |-> TRUE, cp |-> <<>>, wl |-> <<>>]
Cluster(cp, wl) == [nil |-> FALSE, cp |-> cp, wl |-> wl]

\* One architecture, with the auto-update of b.
AutoUpdate == [multi |-> FALSE, cluster |-> Single, crons |-> <<Template(t, b, {})>>]

\* Two architectures, and a cron for one of them.
MultiArch == [multi |-> TRUE, cluster |-> Cluster(<<arm>>, <<amd, arm>>),
              crons |-> <<Template(t, b, {amd, "unknown"})>>]

\* An architecture without images in the bundle, and a cron for an image of the user.
Custom == [multi |-> TRUE, cluster |-> Cluster(<<arm>>, <<>>),
           crons |-> <<Template(t, c, {arm, "unknown"})>>]

MCSpecs == {AutoUpdate, MultiArch, Custom}
=============================================================================
