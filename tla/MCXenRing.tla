----------------------------- MODULE MCXenRing -----------------------------
(* Instances of XenRing for TLC. *)
EXTENDS XenRing

CONSTANTS x, y, z

\* Ids are interchangeable.
MCSymmetry == Permutations(Id)
=============================================================================
