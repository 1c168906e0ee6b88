----------------------------- MODULE MCCrdWatch -----------------------------
(* Instances of CrdWatch for TLC: two required CRDs and one of somebody else. *)
EXTENDS CrdWatch, TLC

CONSTANTS c1, c2, c3

MCCrds == {c1, c2, c3}
MCRequired == {c1, c2}

\* The two required CRDs play the same part.
CrdSymmetry == Permutations(MCRequired)
=============================================================================
