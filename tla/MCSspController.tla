-------------------------- MODULE MCSspController --------------------------
(* Instances of SspController for TLC: two values of SSP.Spec. *)
EXTENDS SspController

CONSTANTS s1, s2

MCSpecs == {s1, s2}
=============================================================================
