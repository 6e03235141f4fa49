------------------------------- MODULE MCGbmFb --------------------------------
(* Instances of GbmFb for TLC.                                             *)
EXTENDS GbmFb, TLC

CONSTANTS l1, l2, f1, o1, o2, o3

\* Buffer object addresses are interchangeable.
BoSymmetry == Permutations(BoIds)
=============================================================================
