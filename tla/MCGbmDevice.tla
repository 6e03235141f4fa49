------------------------------ MODULE MCGbmDevice ------------------------------
(* Instances of GbmDevice for TLC.                                          *)
EXTENDS GbmDevice, TLC

CONSTANTS t1, t2, t3, d1, d2, d3
=============================================================================
