----------------------------- MODULE MCGbmSurface -----------------------------
(* Instances of GbmSurface for TLC; each .cfg picks a backend and its client. *)
EXTENDS GbmSurface

CONSTANTS r1, r2, c1, c2, nobody
=============================================================================
