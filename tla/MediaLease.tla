---------------------------- MODULE MediaLease ----------------------------
(***************************************************************************)
(* What the hub promises its consumers about the device, without locks,    *)
(* threads or callbacks: the device carries one media session; the session *)
(* is opened for a lease, shared by the leases that follow, and closed when*)
(* the last one is dropped; nobody is served by a session that is closing. *)
(***************************************************************************)
CONSTANTS
  Consumers,
  Staged      \* the service ends in stages: refused first, then taken away

VARIABLES
  leases,   \* who has a lease
  device,   \* the media session: none ("free"), for somebody, or closing
  closed    \* the integration was unloaded

vars == <<leases, device, closed>>

Init ==
  /\ leases = {}
  /\ device = "free"
  /\ closed = FALSE

\* A lease is granted; it opens the session if there is none.
Take(c) ==
  /\ ~closed
  /\ device # "closing"
  /\ leases' = leases \cup {c}
  /\ device' = "open"
  /\ UNCHANGED closed

\* A lease is dropped; the last one closes the session.
Drop(c) ==
  /\ c \in leases
  /\ leases' = leases \ {c}
  /\ device' = IF leases' = {} /\ device = "open" THEN "closing" ELSE device
  /\ UNCHANGED closed

\* The session is over: closed as asked, or lost for good under its leases.
Free ==
  /\ device # "free"
  /\ device' = "free"
  /\ UNCHANGED <<leases, closed>>

\* Every lease is taken away, which closes the session ...
Revoke ==
  /\ leases' = {}
  /\ device' = IF device = "open" THEN "closing" ELSE device

\* ... by the unload, from which on none is granted ...
Shutdown ==
  /\ ~Staged /\ ~closed /\ closed' = TRUE
  /\ Revoke

\* ... or, in stages, at some time before or after that.
Refuse ==
  /\ Staged /\ ~closed /\ closed' = TRUE
  /\ UNCHANGED <<leases, device>>

Withdraw ==
  /\ Staged /\ UNCHANGED closed
  /\ Revoke

Next ==
  \/ \E c \in Consumers : Take(c) \/ Drop(c)
  \/ Free
  \/ Shutdown \/ Refuse \/ Withdraw

Spec == Init /\ [][Next]_vars
=============================================================================
