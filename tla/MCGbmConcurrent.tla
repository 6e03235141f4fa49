---------------------------- MODULE MCGbmConcurrent ----------------------------
(* Instances of GbmConcurrent for TLC.                                      *)
EXTENDS GbmConcurrent, TLC

CONSTANTS t1, t2, t3, o1, o2, o3

\* Neither threads nor object addresses are told apart.
ConcurrentSymmetry == Permutations({t1, t2, t3}) \cup Permutations({o1, o2, o3})
=============================================================================
