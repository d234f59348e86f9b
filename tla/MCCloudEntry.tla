---------------------------- MODULE MCCloudEntry ----------------------------
(* CloudEntry on small instances: p1 has a timestamp ahead of HA's clock,  *)
(* p2 is a call of channel 2.                                              *)
EXTENDS CloudEntry

CONSTANTS p1, p2

Both == {p1, p2}
OneSecond == {p2}
OneAhead == {p1}
=============================================================================
