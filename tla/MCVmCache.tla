------------------------------- MODULE MCVmCache -------------------------------
(* Instances of VmCache for TLC. *)
EXTENDS VmCache

CONSTANTS v1, v2, t1, t2

MCVmKeys == {v1, v2}
MCTemplateNames == {t1, t2}
MCOld == {t1}
=============================================================================
