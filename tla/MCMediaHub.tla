---------------------------- MODULE MCMediaHub ----------------------------
(* Instances of MediaHub for TLC.  a and b are viewers, h an HTTP reader of *)
(* the local stream, p a ring photo (one session attempt).                  *)
EXTENDS MediaHub, TLC

CONSTANTS a, b, h, p

Viewers == {a, b}
ViewersPhoto == {a, p}
ViewersReader == {a, h}
Photo == {p}
Reader == {h}
Nobody == {}

Unknown == {"unknown"}
R001Only == {"r001"}
Every == {"v1", "r001", "unknown"}

NoRivals == {}
=============================================================================
