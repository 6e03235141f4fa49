------------------------------- MODULE MCGbmBo --------------------------------
(* Instances of GbmBo for TLC; each .cfg picks a client and its failures.   *)
EXTENDS GbmBo, TLC

CONSTANTS l1, l2, f1, o1, o2, o3

\* Buffer object addresses are interchangeable.
BoSymmetry == Permutations(BoIds)
=============================================================================
