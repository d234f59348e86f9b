------------------------------ MODULE Session ------------------------------
(***************************************************************************)
(* The TCP sessions with one legacy intercom: client.py (discover, the     *)
(* cache of discoveries that all threads share, class Session) as used by  *)
(* the doorbell listener (ring.py), a Connect 2 output command             *)
(* (control.py), the media worker (hub.py) and the dialogs of              *)
(* config_flow.py.                                                         *)
(*                                                                         *)
(* The bytes of a stream matter only by where frames begin: `pos` is where *)
(* the stream is, `rd` what its reader believes it is reading.             *)
(***************************************************************************)
EXTENDS Naturals, FiniteSets

CONSTANTS
  Devices,     \* what may answer at the host: [port, uid, protected]
  Own,         \* the identity the entry was set up with
  Parties,     \* the casts to consider, each the users of sessions it has
  MaxMoves,    \* bound: the device changes its port, or is replaced
  MaxFaults    \* bound: losses, refusals and missed deadlines

Users == {"ring", "command", "media", "flow", "diag"}

ASSUME SessionAssumption ==
  /\ Devices \subseteq [port : Nat \ {0}, uid : STRING, protected : BOOLEAN]
  /\ Parties \subseteq SUBSET Users
  /\ MaxMoves \in Nat /\ MaxFaults \in Nat

VARIABLES
  parties,    \* the users of this behaviour
  approval,   \* session.legacy_approval: an identity, or "none"
  v1,         \* the device is a V1: the media reader keeps partial frames
  device,     \* what answers at the host now
  cache,      \* _DISCOVERY_CACHE[host]
  udp,        \* who holds _DISCOVERY_LOCK while a datagram is out
  at,         \* where the session of each user is
  info,       \* session.info: the observation it uses
  again,      \* its second TCP attempt
  peer,       \* the device its socket is connected to
  pos, rd,    \* see above
  via,        \* the session a command tries: "video" or "control"
  held,       \* a diagnostic holds hub.lock and control.lock
  stopping,   \* the entry unloads
  moves, faults

castVars   == <<parties, approval, v1>>
worldVars  == <<castVars, device, held, stopping, moves>>
discVars   == <<cache, udp>>
connVars   == <<info, again>>
sockVars   == <<peer, rd, pos>>
sessionVars == <<worldVars, discVars, at, connVars, sockVars, via, faults>>

-----------------------------------------------------------------------------
(* Types and helpers *)

Ids == 1..(Cardinality(Users) + 2)
NoObs == [id |-> 0]
Observations == [id : Ids, dev : Devices]
NoPeer == [port |-> 0]
Uids == {d.uid : d \in Devices}

Before == {"discover", "probe", "tcp", "refused", "login"}
Steps == Before \cup {"idle", "reply", "open", "waiting", "evict", "retry", "request",
                      "stopav", "stopreply", "stop", "over", "ended"}

SessionTypeOK ==
  /\ parties \in Parties /\ v1 \in BOOLEAN
  /\ approval \in [Users -> Uids \cup {"none"}]
  /\ device \in Devices
  /\ cache \in Observations \cup {NoObs}
  /\ udp \in Users \cup {"none"}
  /\ at \in [Users -> Steps]
  /\ info \in [Users -> Observations \cup {NoObs}]
  /\ again \in [Users -> BOOLEAN]
  /\ peer \in [Users -> Devices \cup {NoPeer}]
  /\ pos \in [Users -> {"boundary", "inword", "afterword"}]
  /\ rd \in [Users -> {"out", "word", "inword", "body"}]
  /\ via \in {"video", "control"}
  /\ held \in BOOLEAN /\ stopping \in BOOLEAN
  /\ moves \in 0..MaxMoves /\ faults \in 0..MaxFaults

\* An approved unprotected entry has neither a listener nor Connect 2 outputs;
\* a dialog may ask for the approval of what it has found at the host.
SessionInit ==
  /\ parties \in Parties
  /\ \E m \in {"none", Own}, f \in {"none"} \cup {d.uid : d \in {e \in Devices : ~e.protected}} :
       /\ approval = [u \in Users |-> CASE u = "media" -> m [] u = "flow" -> f [] OTHER -> "none"]
       /\ m # "none" => parties \subseteq {"media", "flow"}
       /\ f # "none" => "flow" \in parties
  /\ v1 \in BOOLEAN /\ (v1 => parties \cap {"media", "diag"} # {})
  /\ device \in {d \in Devices : d.uid = Own /\ d.protected = (approval["media"] = "none")}
  /\ cache = NoObs /\ udp = "none"
  /\ at = [u \in Users |-> "idle"]
  /\ info = [u \in Users |-> NoObs]
  /\ again = [u \in Users |-> FALSE]
  /\ peer = [u \in Users |-> NoPeer]
  /\ pos = [u \in Users |-> "boundary"]
  /\ rd = [u \in Users |-> "out"]
  /\ via = "video" /\ held = FALSE /\ stopping = FALSE
  /\ moves = 0 /\ faults = 0

Fault == faults < MaxFaults /\ faults' = faults + 1

Connected(u) == peer[u] # NoPeer

\* session.closed, which another thread has set: RingListener.close and
\* DeviceController.close.
Closed(u) == stopping /\ u \in {"ring", "command"}

\* A DiscoveryInfo object that nothing else refers to.
Fresh == CHOOSE i \in Ids : i # cache.id /\ \A u \in Users : i # info[u].id

-----------------------------------------------------------------------------
(* How a session ends *)

\* The owner of a session that failed: the listener backs off and connects
\* again; a command whose video session failed tries a control session.
After(u) ==
  IF /\ u = "command" /\ via = "video"
     /\ at[u] # "waiting" /\ ~(at[u] = "open" /\ rd[u] = "out")
  THEN "retry" ELSE "idle"

\* close(): the socket, and what its reader holds, are gone.
Closes(u, next) ==
  /\ at' = [at EXCEPT ![u] = next]
  /\ peer' = [peer EXCEPT ![u] = NoPeer]
  /\ rd' = [rd EXCEPT ![u] = "out"]
  /\ pos' = [pos EXCEPT ![u] = "boundary"]
  /\ info' = IF next = "evict" THEN info ELSE [info EXCEPT ![u] = NoObs]
  /\ again' = [again EXCEPT ![u] = FALSE]

\* The except clause of connect: a failure of the transport before the login
\* is accepted condemns the observation, unless the session was cancelled.
TransportFails(u) ==
  Closes(u, IF info[u] # NoObs /\ ~Closed(u) THEN "evict" ELSE After(u))

Breaks(u) == IF at[u] \in Before \cup {"reply"} THEN TransportFails(u) ELSE Closes(u, After(u))

-----------------------------------------------------------------------------
(* discover and connect *)

\* A new Session object.
Begins(u) ==
  /\ at' = [at EXCEPT ![u] = "discover"]
  /\ UNCHANGED <<worldVars, discVars, connVars, sockVars, faults>>

Open(u) ==
  /\ u # "diag" /\ at[u] = "idle" /\ ~stopping
  /\ u \in {"command", "media"} => ~held
  /\ IF u = "command" THEN via' \in {"video", "control"} ELSE UNCHANGED via
  /\ Begins(u)

\* A control session, unless the entry unloads.
ControlSession ==
  IF stopping
    THEN Closes("command", "idle") /\ UNCHANGED <<worldVars, discVars, via, faults>>
    ELSE via' = "control" /\ Begins("command")

CommandFallsBack == at["command"] = "retry" /\ ControlSession

\* What discover refuses to return, and what connect refuses to use: never a
\* protected entry in plain text, never another device than the approved one.
Allowed(u, dev) == dev.protected \/ approval[u] # "none"
Usable(u, dev) == approval[u] # "none" => ~dev.protected /\ dev.uid = approval[u]

Discovered(u, o) ==
  IF Usable(u, o.dev) /\ ~Closed(u)
    THEN /\ info' = [info EXCEPT ![u] = o]
         /\ at' = [at EXCEPT ![u] = "tcp"]
         /\ UNCHANGED <<sockVars, again>>
    ELSE Closes(u, After(u))

DiscoverCached(u) ==
  /\ u # "diag" /\ at[u] = "discover" /\ udp = "none" /\ cache # NoObs
  /\ IF Allowed(u, cache.dev) THEN Discovered(u, cache) ELSE Closes(u, After(u))
  /\ UNCHANGED <<worldVars, discVars, via, faults>>

DiscoverProbes(u) ==
  /\ u # "diag" /\ at[u] = "discover" /\ udp = "none" /\ cache = NoObs
  /\ udp' = u
  /\ at' = [at EXCEPT ![u] = "probe"]
  /\ UNCHANGED <<worldVars, cache, connVars, sockVars, via, faults>>

ProbeAnswered(u) ==
  /\ at[u] = "probe"
  /\ udp' = "none"
  /\ IF Allowed(u, device)
       THEN LET o == [id |-> Fresh, dev |-> device] IN cache' = o /\ Discovered(u, o)
       ELSE UNCHANGED cache /\ Closes(u, After(u))
  /\ UNCHANGED <<worldVars, via, faults>>

\* DiscoveryTimeout; in a second attempt info is still that of the first.
ProbeFails(u) ==
  /\ at[u] = "probe" /\ Fault
  /\ udp' = "none"
  /\ TransportFails(u)
  /\ UNCHANGED <<worldVars, cache, via>>

TcpConnects(u) ==
  /\ u # "diag" /\ at[u] = "tcp" /\ info[u].dev.port = device.port
  /\ IF Closed(u) THEN Breaks(u)
     ELSE /\ at' = [at EXCEPT ![u] = "login"]
          /\ peer' = [peer EXCEPT ![u] = device]
          /\ again' = [again EXCEPT ![u] = FALSE]
          /\ UNCHANGED <<rd, pos, info>>
  /\ UNCHANGED <<worldVars, discVars, via, faults>>

\* Nobody listens on that port: discovered anew, once.
TcpRefused(u) ==
  /\ u # "diag" /\ at[u] = "tcp" /\ info[u].dev.port # device.port
  /\ IF again[u] THEN Breaks(u)
     ELSE at' = [at EXCEPT ![u] = "refused"] /\ UNCHANGED <<sockVars, connVars>>
  /\ UNCHANGED <<worldVars, discVars, via, faults>>

\* (mutant: whatever the cache holds for the host is dropped)
ForgetsAny(u) == cache' = NoObs

\* (mutant: the observation that failed stays)
ForgetsNone(u) == UNCHANGED cache

\* _invalidate_discovery: only this observation, never a newer one.
Forgets(u) == cache' = IF cache = info[u] THEN NoObs ELSE cache

RecoverAfterRefused(u) ==
  /\ at[u] = "refused" /\ udp = "none"
  /\ Forgets(u)
  /\ again' = [again EXCEPT ![u] = TRUE]
  /\ at' = [at EXCEPT ![u] = "discover"]
  /\ UNCHANGED <<worldVars, udp, info, sockVars, via, faults>>

\* The lock is taken after the socket is closed.
Evict(u) ==
  /\ at[u] = "evict" /\ udp = "none"
  /\ Forgets(u)
  /\ Closes(u, After(u))
  /\ UNCHANGED <<worldVars, udp, via, faults>>

\* send_packet, under the write lock.
Writable(u) == Connected(u) /\ ~Closed(u)

SendLogin(u) ==
  /\ u # "diag" /\ at[u] = "login"
  /\ IF ~Writable(u) THEN Breaks(u)
     ELSE /\ at' = [at EXCEPT ![u] = "reply"]
          /\ rd' = [rd EXCEPT ![u] = "word"]
          /\ pos' = [pos EXCEPT ![u] = "boundary"]
          /\ UNCHANGED <<peer, connVars>>
  /\ UNCHANGED <<worldVars, discVars, via, faults>>

-----------------------------------------------------------------------------
(* read *)

\* How a reader takes a silent socket: until the login is answered, and while
\* the firmware of an approved device is read, it keeps a partial frame up to
\* a deadline; so does a diagnostic; the media reader of a V1 keeps it 6 s;
\* the others keep nothing.
Mode(u) ==
  IF u = "diag" THEN "diag"
  ELSE IF at[u] = "reply" \/ u = "flow" THEN "login"
  ELSE IF u = "media" /\ (v1 \/ approval[u] # "none") THEN "v1"
  ELSE "plain"

Reads(u, r, p) ==
  /\ rd' = [rd EXCEPT ![u] = r]
  /\ pos' = [pos EXCEPT ![u] = p]
  /\ UNCHANGED <<worldVars, discVars, at, connVars, peer, via, faults>>

\* A command in a video session reads until the device announces its stream,
\* which it may have done with the answer to the login; in a control session
\* it only waits for its reply.
AwaitsStream == at["command"] = "open" /\ via = "video"

\* The next call of read(): a dialog only reads the firmware of an approved
\* device.
ReadsAgain(u) ==
  /\ u # "diag" /\ at[u] \in {"open", "waiting"} /\ Connected(u) /\ rd[u] = "out"
  /\ u = "command" => at[u] = "waiting" \/ AwaitsStream
  /\ u = "flow" => approval[u] # "none"
  /\ Reads(u, "word", pos[u])

Receiving(u) == Connected(u) /\ ~Closed(u)

\* Some bytes of a length word. (Those of a body are like none of it.)
ReceivesPart(u) ==
  /\ Receiving(u) /\ rd[u] = "word"
  /\ Reads(u, "inword", "inword")

\* The rest of a length word; a zero word is padding and skipped.
ReceivesWord(u) ==
  /\ Receiving(u) /\ rd[u] \in {"word", "inword"}
  /\ Reads(u, "body", "afterword")

ReceivesZero(u) ==
  /\ Receiving(u) /\ rd[u] \in {"word", "inword"}
  /\ Reads(u, "word", "boundary")

\* The rest of a frame.
Complete(u) == Receiving(u) /\ rd[u] = "body"

ReceivesOther(u) ==
  /\ Complete(u)
  /\ Reads(u, IF at[u] \in {"reply", "stopreply"} THEN "word" ELSE "out", "boundary")

\* A protected login is answered, and its answer read, under one identity.
LoginDecodes(u) == ~info[u].dev.protected \/ peer[u].uid = info[u].dev.uid

\* (mutant: the identity is not looked at)
IdentifiedAnyway(u) == TRUE

\* The listener and a command are for the device of the entry.
Identified(u) == info[u].dev.uid = Own

LoginAccepted(u) ==
  /\ u # "diag" /\ at[u] = "reply" /\ Complete(u) /\ LoginDecodes(u)
  /\ IF u = "ring" /\ ~Identified(u) THEN Closes(u, "ended")
     ELSE /\ at' = [at EXCEPT ![u] = "open"]
          /\ rd' = [rd EXCEPT ![u] = "out"]
          /\ pos' = [pos EXCEPT ![u] = "boundary"]
          /\ UNCHANGED <<peer, connVars>>
  /\ UNCHANGED <<worldVars, discVars, via, faults>>

\* Credentials refused, which ends a listener for good; or another status, or
\* an answer that does not decode.
LoginRefused(u) ==
  /\ u # "diag" /\ at[u] = "reply" /\ Complete(u)
  /\ IF LoginDecodes(u) THEN Fault ELSE UNCHANGED faults
  /\ \/ Closes(u, After(u))
     \/ u = "ring" /\ LoginDecodes(u) /\ Closes(u, "ended")
  /\ UNCHANGED <<worldVars, discVars, via>>

\* (mutant: what was read of a frame is dropped at a time-out)
CleanAnyway(u) == TRUE

\* Nothing of the next frame was read.
Clean(u) == rd[u] = "word"

\* A silent socket is no error for a reader with nothing in hand: it goes on
\* in this session, unless its own time is over.
IdlesOn(u) ==
  /\ Receiving(u) /\ rd[u] # "out" /\ Mode(u) \in {"plain", "v1"} /\ Clean(u)
  /\ at[u] = "open" /\ u # "command"
  /\ rd' = [rd EXCEPT ![u] = "out"]
  /\ UNCHANGED <<worldVars, discVars, at, connVars, peer, pos, via, faults>>

IdlesOut(u) ==
  /\ Receiving(u) /\ rd[u] # "out" /\ Mode(u) \in {"plain", "v1"} /\ Clean(u)
  /\ u # "ring"
  /\ Closes(u, After(u))
  /\ UNCHANGED <<worldVars, discVars, via, faults>>

\* A deadline is missed: of the login, or in the middle of a frame, and then
\* nothing is read in this session any more.
ReadFails(u) ==
  /\ u # "diag" /\ Receiving(u) /\ rd[u] # "out"
  /\ Mode(u) = "login" \/ ~Clean(u)
  /\ Fault
  /\ Breaks(u)
  /\ UNCHANGED <<worldVars, discVars, via>>

\* The device is gone, by itself or because it was replaced (no keep-alive for
\* 35 s), or the session was closed by another thread.
Lost(u) ==
  /\ u # "diag" /\ Connected(u)
  /\ IF Closed(u) \/ peer[u] # device THEN UNCHANGED faults ELSE Fault
  /\ Breaks(u)
  /\ UNCHANGED <<worldVars, discVars, via>>

-----------------------------------------------------------------------------
(* What the users do with an open session *)

\* unlock of a Connect 2: one attempt, in a control session at once, in a
\* video session when the device has announced its stream.
CommandSends ==
  /\ at["command"] = "open" /\ rd["command"] = "out" /\ ~stopping
  /\ IF Identified("command")
       THEN at' = [at EXCEPT !["command"] = "waiting"] /\ UNCHANGED <<sockVars, connVars>>
       ELSE Closes("command", "idle")
  /\ UNCHANGED <<worldVars, discVars, via, faults>>

\* Its reply, or a refusal.
CommandAnswered ==
  /\ at["command"] = "waiting" /\ Complete("command")
  /\ Closes("command", "idle")
  /\ UNCHANGED <<worldVars, discVars, via, faults>>

\* The viewers leave; a dialog has what it wanted.
Finishes(u) ==
  /\ u \in {"media", "flow"} /\ at[u] = "open"
  /\ Closes(u, "idle")
  /\ UNCHANGED <<worldVars, discVars, via, faults>>

Unload ==
  /\ ~stopping
  /\ stopping' = TRUE
  /\ UNCHANGED <<castVars, device, held, moves, discVars, at, connVars, sockVars, via, faults>>

\* The device restarts on another port, or another device takes its address.
DeviceMoves ==
  /\ moves < MaxMoves
  /\ moves' = moves + 1
  /\ device' \in Devices \ {device}
  /\ UNCHANGED <<castVars, held, stopping, discVars, at, connVars, sockVars, via, faults>>

ReadStep(u) ==
  \/ ReadsAgain(u) \/ ReceivesPart(u) \/ ReceivesWord(u) \/ ReceivesZero(u) \/ ReceivesOther(u)
  \/ IdlesOn(u) \/ IdlesOut(u) \/ ReadFails(u) \/ Lost(u)

SessionNext ==
  \/ \E u \in parties :
       \/ Open(u) \/ DiscoverCached(u) \/ DiscoverProbes(u) \/ ProbeAnswered(u) \/ ProbeFails(u)
       \/ TcpConnects(u) \/ TcpRefused(u) \/ RecoverAfterRefused(u) \/ Evict(u)
       \/ SendLogin(u) \/ LoginAccepted(u) \/ LoginRefused(u) \/ ReadStep(u) \/ Finishes(u)
  \/ CommandFallsBack \/ CommandSends \/ CommandAnswered
  \/ Unload \/ DeviceMoves
=============================================================================
