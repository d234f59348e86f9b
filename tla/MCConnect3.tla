----------------------------- MODULE MCConnect3 -----------------------------
(* Connect3 on small instances.                                            *)
EXTENDS Connect3

CONSTANTS v1, v2

TwoViewers == {v1, v2}
=============================================================================
