------------------------------ MODULE MCGbmFormats ------------------------------
(* Instances of GbmFormats for TLC.                                          *)
EXTENDS GbmFormats, TLC

\* Everything a client can ask for.
AllFormats == Supported \cup ImplDefined
=============================================================================
