----------------------------- MODULE Diagnostic -----------------------------
(***************************************************************************)
(* The explicit diagnostics of a legacy entry, experimental_diagnostics.py *)
(* and v1_doorbell_trial.py, among the sessions of Session.tla: one thread *)
(* with a session of its own (one discovery outside the cache, one TCP     *)
(* connection, one login, at most one request) under hub.lock and          *)
(* control.lock, which a task holds until the thread is over, whatever     *)
(* cancels it.                                                             *)
(***************************************************************************)
EXTENDS Session

Operations == {"version", "camera", "trial"}

VARIABLES
  op,         \* the operation
  attempted,  \* the operations of ExperimentalDiagnostics tried already
  cancelled,  \* the cancel event: by its caller, by a stop, by the unload
  started,    \* Start AV was attempted
  known,      \* the login was accepted
  usable      \* the reader has not failed

diagVars == <<op, attempted, cancelled, started, known, usable>>
vars == <<sessionVars, diagVars>>

TypeOK ==
  /\ SessionTypeOK
  /\ op \in Operations /\ attempted \subseteq Operations
  /\ cancelled \in BOOLEAN /\ started \in BOOLEAN /\ known \in BOOLEAN /\ usable \in BOOLEAN

Init ==
  /\ SessionInit
  /\ op = "trial" /\ attempted = {} /\ cancelled = FALSE
  /\ started = FALSE /\ known = FALSE /\ usable = TRUE

D == "diag"

DiagGo(l) == at' = [at EXCEPT ![D] = l]
DiagKept == UNCHANGED <<castVars, device, stopping, moves, discVars, via, op, attempted>>

\* Nothing else uses the device, and the doorbell is not listened to.
Quiet == "ring" \notin parties /\ at["media"] = "idle" /\ at["command"] = "idle"

DiagStarts(o) ==
  /\ D \in parties /\ at[D] = "idle" /\ ~held /\ ~stopping /\ Quiet
  /\ approval["media"] = "none"
  /\ IF o = "trial" THEN v1 ELSE o \notin attempted
  /\ held' = TRUE
  /\ op' = o /\ attempted' = IF o = "trial" THEN attempted ELSE attempted \cup {o}
  /\ cancelled' = FALSE /\ started' = FALSE /\ known' = FALSE /\ usable' = TRUE
  /\ DiagGo("discover")
  /\ UNCHANGED <<castVars, device, stopping, moves, discVars, connVars, sockVars, via, faults>>

\* The finally clause: Stop AV if Start AV was attempted, the session stop if
\* the login was accepted, then close.
Cleanup == IF ~Connected(D) THEN "over" ELSE IF started THEN "stopav"
           ELSE IF known THEN "stop" ELSE "over"

DiagFails ==
  /\ usable' = FALSE
  /\ IF Cleanup = "over" THEN Closes(D, "over")
     ELSE /\ DiagGo(Cleanup)
          /\ rd' = [rd EXCEPT ![D] = "out"]
          /\ UNCHANGED <<peer, pos, connVars>>

\* A step of the thread that a cancellation turns into an exception.
Cancelled ==
  /\ cancelled /\ at[D] \in {"discover", "tcp", "login", "reply", "request", "open"}
  /\ DiagFails
  /\ DiagKept /\ UNCHANGED <<held, faults, cancelled, started, known>>

\* send_packet: each of the packets of the operation once, and after a
\* cancellation only those that stop what was started.
MaySend == ~cancelled

DiagDiscovers ==
  /\ at[D] = "discover" /\ ~cancelled
  /\ IF device.protected /\ device.uid = Own
       THEN /\ info' = [info EXCEPT ![D] = [id |-> Fresh, dev |-> device]]
            /\ DiagGo("tcp") /\ UNCHANGED <<sockVars, again, usable>>
       ELSE DiagFails
  /\ DiagKept /\ UNCHANGED <<held, faults, cancelled, started, known>>

\* One attempt, and the cache is left alone.
DiagConnects ==
  /\ at[D] = "tcp" /\ ~cancelled
  /\ IF info[D].dev.port = device.port
       THEN /\ peer' = [peer EXCEPT ![D] = device]
            /\ DiagGo("login") /\ UNCHANGED <<rd, pos, connVars, usable>>
       ELSE DiagFails
  /\ DiagKept /\ UNCHANGED <<held, faults, cancelled, started, known>>

DiagLogsIn ==
  /\ at[D] = "login" /\ MaySend
  /\ DiagGo("reply")
  /\ rd' = [rd EXCEPT ![D] = "word"] /\ pos' = [pos EXCEPT ![D] = "boundary"]
  /\ DiagKept /\ UNCHANGED <<held, connVars, peer, faults, cancelled, started, known, usable>>

DiagLoggedIn ==
  /\ at[D] = "reply" /\ Complete(D) /\ ~cancelled
  /\ IF LoginDecodes(D)
       THEN /\ DiagGo("request") /\ known' = TRUE
            /\ rd' = [rd EXCEPT ![D] = "out"] /\ pos' = [pos EXCEPT ![D] = "boundary"]
            /\ UNCHANGED <<peer, connVars, usable>>
       ELSE DiagFails /\ UNCHANGED known
  /\ DiagKept /\ UNCHANGED <<held, faults, cancelled, started>>

\* Start AV, the version query, or nothing for a trial.
DiagRequests ==
  /\ at[D] = "request" /\ MaySend
  /\ started' = (op = "camera")
  /\ DiagGo("open")
  /\ DiagKept /\ UNCHANGED <<held, connVars, sockVars, faults, cancelled, known, usable>>

\* A reader that failed, or was cancelled, is not read again.
SoundReader == usable /\ ~cancelled

DiagReads ==
  /\ rd[D] = "out"
  /\ \/ at[D] = "open" /\ ~cancelled
     \/ at[D] = "stopreply"
  /\ Reads(D, "word", pos[D])
  /\ UNCHANGED diagVars

\* It has seen enough, or its time is over between two frames.
DiagObserved ==
  /\ at[D] = "open" /\ rd[D] = "out" /\ ~cancelled
  /\ DiagGo(Cleanup)
  /\ DiagKept
  /\ UNCHANGED <<held, connVars, sockVars, faults, cancelled, started, known, usable>>

\* Its time is over during a read, or the device closes.
DiagBreaks ==
  /\ at[D] \in {"reply", "open"} /\ rd[D] # "out"
  /\ DiagFails
  /\ DiagKept /\ UNCHANGED <<held, faults, cancelled, started, known>>

DiagStopsAv ==
  /\ at[D] = "stopav"
  /\ IF SoundReader THEN DiagGo("stopreply") ELSE DiagGo("stop")
  /\ DiagKept
  /\ UNCHANGED <<held, connVars, sockVars, faults, cancelled, started, known, usable>>

\* The answer, or whatever ends the wait for it.
DiagStopped ==
  /\ at[D] = "stopreply"
  /\ DiagGo("stop") /\ rd' = [rd EXCEPT ![D] = "out"]
  /\ DiagKept
  /\ UNCHANGED <<held, connVars, peer, pos, faults, cancelled, started, known, usable>>

DiagCloses ==
  /\ at[D] = "stop"
  /\ Closes(D, "over")
  /\ DiagKept /\ UNCHANGED <<held, faults, cancelled, started, known, usable>>

\* The task sees the thread over and gives the locks back.
DiagReleases ==
  /\ at[D] = "over"
  /\ DiagGo("idle")
  /\ held' = FALSE
  /\ cancelled' = FALSE /\ started' = FALSE /\ known' = FALSE /\ usable' = TRUE
  /\ op' = "trial"
  /\ UNCHANGED <<castVars, device, stopping, moves, discVars, via, attempted, connVars, sockVars, faults>>

\* (mutant: the task does not wait for its thread)
CancelAbandons == held' = FALSE

CancelWaits == UNCHANGED held

\* Its task is not done.
Stoppable == at[D] \notin {"idle", "over"}

\* At any time: the request is cancelled, the user stops the trial, the entry
\* unloads (which waits for the task).
DiagCancel ==
  /\ Stoppable /\ ~cancelled
  /\ cancelled' = TRUE
  /\ CancelWaits
  /\ DiagKept /\ UNCHANGED <<at, connVars, sockVars, faults, started, known, usable>>

DiagNext ==
  \/ \E o \in Operations : DiagStarts(o)
  \/ Cancelled \/ DiagDiscovers \/ DiagConnects \/ DiagLogsIn \/ DiagLoggedIn \/ DiagRequests
  \/ DiagReads \/ DiagObserved \/ DiagBreaks \/ DiagStopsAv \/ DiagStopped \/ DiagCloses
  \/ DiagReleases \/ DiagCancel

Next == (SessionNext /\ UNCHANGED diagVars) \/ DiagNext

\* The threads run on; a lock that comes free again and again is got in the
\* end (other threads take it at most every few seconds); a device that takes
\* connections answers a login within its 20 s, and one that is gone is missed
\* within 35 s; what a user does is not forced.
Listener == "ring"

Session(step) == step /\ UNCHANGED diagVars

Fairness ==
  /\ \A u \in Users \ {D} :
       /\ WF_vars(Session(ProbeAnswered(u)))
       /\ WF_vars(Session(Evict(u) \/ RecoverAfterRefused(u)))
  /\ WF_vars(Session(Open(Listener)))
  /\ SF_vars(Session(DiscoverCached(Listener) \/ DiscoverProbes(Listener)))
  /\ SF_vars(Session(Evict(Listener) \/ RecoverAfterRefused(Listener)))
  /\ WF_vars(Session(TcpConnects(Listener) \/ TcpRefused(Listener) \/ SendLogin(Listener)))
  /\ WF_vars(Session(ReceivesWord(Listener)))
  /\ SF_vars(Session(\/ LoginAccepted(Listener)
                     \/ /\ at[Listener] = "reply" /\ ~LoginDecodes(Listener)
                        /\ LoginRefused(Listener)))
  /\ WF_vars(Session(peer[Listener] # device /\ Lost(Listener)))

Spec == Init /\ [][Next]_vars /\ Fairness

-----------------------------------------------------------------------------
(* Properties *)

\* A reader takes for a length word only what begins a frame, however its
\* session was silent in between and whoever read before: no payload is ever
\* taken for TLVs, alarms or replies.
FramesAligned ==
  \A u \in Users : rd[u] = "word" => pos[u] = "boundary"

\* The shared cache may hold what another user was allowed to find there, or a
\* device that was replaced: still a door command and the alarms are exchanged
\* with the device of the entry only, and a password goes out in plain text only
\* under an approval for what was announced.
OwnDeviceOnly ==
  /\ at["command"] = "waiting" => peer["command"].uid = Own
  /\ at["ring"] = "open" => peer["ring"].uid = Own
  /\ \A u \in Users \ {D} : at[u] \in {"reply", "open"} =>
       info[u].dev.protected = (approval[u] = "none")

\* What a thread discovered is forgotten only by a session that failed with it,
\* not by one that failed with an older answer of the same device.
NewerKept ==
  [][cache # NoObs /\ cache' = NoObs =>
       \E u \in Users : info[u] = cache /\ at[u] \in {"refused", "evict"}]_vars

\* A diagnostic has the device for itself as long as its socket is open, also
\* after it was cancelled.
DiagAlone ==
  Connected(D) => ~Connected("command") /\ ~Connected("media") /\ ~Connected("ring")

\* The doorbell is listened to again, at whatever port the device has gone:
\* unless the entry unloads, the listener has ended (refused, or another
\* device), or what answers, or is remembered, is another device.
ListenerRecovers ==
  Listener \in parties =>
    []<>(\/ at[Listener] = "open" /\ peer[Listener] = device
         \/ at[Listener] = "ended" \/ stopping
         \/ device.uid # Own \/ ~device.protected
         \/ cache # NoObs /\ cache.dev.uid # Own)
=============================================================================
