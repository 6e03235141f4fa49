----------------------------- MODULE MCGbmMetadata -----------------------------
(* Instances of GbmMetadata for TLC.                                       *)
EXTENDS GbmMetadata, TLC

CONSTANTS p1, p2, o1, o2, o3

\* One full-range ITU-R 601 image.
MCColours == {<<"BT601_6_525", 1>>}

\* Buffer object addresses are interchangeable.
MetadataSymmetry == Permutations(Ids)
=============================================================================
