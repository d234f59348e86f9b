----------------------------- MODULE MCDoorbell -----------------------------
(* Doorbell on small instances: p2 is a press at the second panel.         *)
EXTENDS Doorbell

CONSTANTS p1, p2

Both == {p1, p2}
OneSecond == {p2}
=============================================================================
