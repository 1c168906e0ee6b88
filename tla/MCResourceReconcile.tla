------------------------- MODULE MCResourceReconcile -------------------------
(* Instances of ResourceReconcile for TLC. *)
EXTENDS ResourceReconcile

CONSTANTS s1, s2, l1, l2

MCSpecs == {s1, s2}
MCLabels == {l1, l2}

\* The options the operands use: plain objects with and without generation,
\* DataImportCrons (immutable), DataSources (updateFunc is always called).
MCOptions ==
    {[generation |-> TRUE,  immutable |-> FALSE, always |-> FALSE, contested |-> FALSE],
     [generation |-> FALSE, immutable |-> FALSE, always |-> FALSE, contested |-> FALSE],
     [generation |-> TRUE,  immutable |-> TRUE,  always |-> FALSE, contested |-> FALSE],
     [generation |-> TRUE,  immutable |-> FALSE, always |-> TRUE,  contested |-> FALSE]}

MCContested == {[k EXCEPT !.contested = TRUE] : k \in {o \in MCOptions : ~o.always}}

MCKinds == MCOptions \cup MCContested

\* DataImportCrons only.
MCImmutable == {k \in MCContested : k.immutable}
=============================================================================
